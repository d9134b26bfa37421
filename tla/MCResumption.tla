---------------------------- MODULE MCResumption ----------------------------
(***************************************************************************)
(* Instances of session resumption for TLC.                                *)
(***************************************************************************)
EXTENDS Resumption

=============================================================================
