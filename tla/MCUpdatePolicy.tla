--------------------------- MODULE MCUpdatePolicy ---------------------------
(* Update policies on an established connection, for TLC. *)
EXTENDS UpdatePolicy

=============================================================================
