--------------------------- MODULE SecureChannel ----------------------------
(***************************************************************************)
(* What an established connection promises its two applications, whatever  *)
(* key updates happen below: in each direction every message is delivered, *)
(* once, in the order of sending, and nothing that was not sent.           *)
(*                                                                         *)
(* The messages of a party are identified by their number.                 *)
(***************************************************************************)
EXTENDS Naturals

CONSTANTS Party, Peer(_)

VARIABLES sent, delivered

vars == <<sent, delivered>>

Init ==
    /\ sent = [p \in Party |-> 0]
    /\ delivered = [p \in Party |-> 0]

Send(p) ==
    /\ sent' = [sent EXCEPT ![p] = @ + 1]
    /\ UNCHANGED delivered

Deliver(p) ==
    /\ delivered[p] < sent[Peer(p)]
    /\ delivered' = [delivered EXCEPT ![p] = @ + 1]
    /\ UNCHANGED sent

Next == \E p \in Party : Send(p) \/ Deliver(p)

Safety == Init /\ [][Next]_vars

Spec == Safety /\ \A p \in Party : WF_vars(Deliver(p))

=============================================================================
