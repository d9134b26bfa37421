------------------------- MODULE MCHandshakeStorage -------------------------
(***************************************************************************)
(* Handshakes for TLC: two sessions of one profile from host A to host B   *)
(* and, over the same database of B, one session of B as a client of C.    *)
(***************************************************************************)
EXTENDS HandshakeStorage

MCProfileOf == [s \in Session |-> IF s = "s3" THEN "q" ELSE "p"]

MCClientDb == [s \in Session |-> IF s = "s3" THEN "B" ELSE "A"]

MCServerDb == [s \in Session |-> IF s = "s3" THEN "C" ELSE "B"]

=============================================================================
