------------------------ MODULE MCEncryptionProvider ------------------------
(***************************************************************************)
(* Instances of an established connection for TLC.                         *)
(***************************************************************************)
EXTENDS EncryptionProviderInductive

=============================================================================
