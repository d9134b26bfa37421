-------------------------- MODULE MCAsyncProvider ---------------------------
(***************************************************************************)
(* Instances of the connection in steps between awaits for TLC.            *)
(***************************************************************************)
EXTENDS AsyncProvider

=============================================================================
