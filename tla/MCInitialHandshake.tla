------------------------- MODULE MCInitialHandshake -------------------------
(* The initial handshake, and the connection it leads to, for TLC. *)
EXTENDS InitialHandshake

=============================================================================
