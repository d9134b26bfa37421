---------------------------- MODULE MCTlsRecords ----------------------------
(* Messages, records and frames over a byte stream, for TLC. *)
EXTENDS TlsRecords

=============================================================================
