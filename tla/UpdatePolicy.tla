---------------------------- MODULE UpdatePolicy ----------------------------
(***************************************************************************)
(* When key updates happen: the policies of update_policy.rs, and the      *)
(* established connection with send_bytes deciding by them.  (Elsewhere    *)
(* the policy may find an update due at any call, which covers them all.)  *)
(*                                                                         *)
(* The caller passes the time to send_bytes; it is taken not to go back.   *)
(***************************************************************************)
EXTENDS ClientStateMachine, ServerStateMachine, TlsAead, Sequences, FiniteSetsExt

CONSTANTS
    ClientRequests, ServerRequests, HandshakeRecords, MaxSends, MaxCommits,  \* see EncryptionProvider
    Duration,   \* of a TimeBasedUpdatePolicy
    Threshold,  \* of a TrafficBasedUpdatePolicy
    Parts,      \* subsets of {"time", "traffic"}: what the policies consist of
    Sizes,      \* numbers of bytes that applications send in one call
    MaxTime     \* bound on the clock

ASSUME PolicyAssumption ==
    /\ Duration \in Nat /\ Threshold \in Nat \ {0} /\ Sizes \subseteq Nat /\ MaxTime \in Nat
    /\ \E most \in Sizes : \A bytes \in Sizes : bytes <= most
    /\ Parts \subseteq SUBSET {"time", "traffic"}
    /\ ClientRequests \subseteq BOOLEAN /\ ServerRequests \subseteq BOOLEAN
    /\ HandshakeRecords \in Nat /\ MaxSends \in Nat /\ MaxCommits \in Nat

VARIABLES
    policy,  \* policy[p]: p's UpdatePolicy
    now,     \* the time
    used,    \* used[p]: application bytes sent under p's present sending key
    since,   \* since[p]: when p began to use that key
    hs, codec, inbox, held, sent, delivered, commits, error  \* as in EncryptionProvider

vars == <<policy, now, used, since, hs, codec, inbox, held, sent, delivered, commits, error>>

Conn == INSTANCE EncryptionProvider

-----------------------------------------------------------------------------
\* UpdatePolicy: which of the two parts it has, and their counters.
Policy == [time_based : BOOLEAN, last_update : Nat,
           traffic_based : BOOLEAN, bytes_transferred : Nat]

\* UpdatePolicy::new with the given parts.
new_policy(parts) ==
    [time_based |-> "time" \in parts, last_update |-> 0,
     traffic_based |-> "traffic" \in parts, bytes_transferred |-> 0]

\* TrafficBasedUpdatePolicy::update_is_due.
traffic_update_is_due(u) == u.traffic_based /\ u.bytes_transferred >= Threshold

\* TimeBasedUpdatePolicy::update_is_due.
time_update_is_due(u, time) == u.time_based /\ time >= u.last_update + Duration

\* Mutant: with two policies both must agree.
update_is_due_both(u, time) ==
    /\ u.time_based \/ u.traffic_based
    /\ u.time_based => time_update_is_due(u, time)
    /\ u.traffic_based => traffic_update_is_due(u)

\* UpdatePolicy::update_is_due.
update_is_due(u, time) == time_update_is_due(u, time) \/ traffic_update_is_due(u)

\* UpdatePolicy::reset, TimeBasedUpdatePolicy::set_update_time and
\* TrafficBasedUpdatePolicy::reset.
reset(u, time) ==
    [u EXCEPT !.last_update = IF u.time_based THEN time ELSE @,
              !.bytes_transferred = IF u.traffic_based THEN 0 ELSE @]

\* increment_bytes_transferred.
increment_bytes_transferred(u, bytes) ==
    [u EXCEPT !.bytes_transferred = IF u.traffic_based THEN @ + bytes ELSE @]

-----------------------------------------------------------------------------
\* is_waiting_for_response: update_handshake would be refused.
Waits(state, p) == IF p = "client" THEN client_is_waiting(state[p]) ELSE server_is_waiting(state[p])

Init ==
    /\ policy \in [Party -> {new_policy(parts) : parts \in Parts}]
    /\ now = 0
    /\ used = [p \in Party |-> 0]
    /\ since = [p \in Party |-> 0]
    /\ Conn!Init

\* What p's step does to the record of how its sending key is used, if it sends
\* that many bytes (after a change of the cipher, if there is one).
KeyUsed(p, bytes) ==
    LET changed == codec'[p].send_key # codec[p].send_key
    IN  /\ used' = [used EXCEPT ![p] = IF changed THEN bytes ELSE @ + bytes]
        /\ since' = [since EXCEPT ![p] = IF changed THEN now ELSE @]

\* Mutant: the policy is reset also if the update has to wait.
SendBytes_resetting(p, bytes) ==
    /\ \/ /\ ~update_is_due(policy[p], now)
          /\ policy' = [policy EXCEPT ![p] = increment_bytes_transferred(@, bytes)]
       \/ /\ update_is_due(policy[p], now) /\ Waits(hs, p)
          /\ policy' = [policy EXCEPT ![p] = increment_bytes_transferred(reset(@, now), bytes)]
    /\ Conn!SendBytes(p)
    /\ KeyUsed(p, bytes)
    /\ now' = now

\* send_bytes when no update is due, or one that has to wait: then the policy
\* stays as it is and asks again at the next call.
SendBytes(p, bytes) ==
    /\ update_is_due(policy[p], now) => Waits(hs, p)
    /\ Conn!SendBytes(p)
    /\ policy' = [policy EXCEPT ![p] = increment_bytes_transferred(@, bytes)]
    /\ KeyUsed(p, bytes)
    /\ now' = now

\* send_bytes when an update is due and can be made.  The policy is reset when
\* the update is sent; if it failed the bytes are not sent either.
SendBytesUpdate(p, bytes) ==
    /\ update_is_due(policy[p], now)
    /\ Conn!SendBytesUpdate(p)
    /\ policy' = [policy EXCEPT ![p] =
                    IF error'[p] = "ok"
                    THEN increment_bytes_transferred(reset(@, now), bytes) ELSE @]
    /\ KeyUsed(p, IF error'[p] = "ok" THEN bytes ELSE 0)
    /\ now' = now

\* Reading never touches the policy, although it may change the sending key.
Read(p) ==
    /\ Conn!ReadMessage(p) \/ Conn!ProcessApplication(p) \/ Conn!ProcessSignaling(p)
    /\ KeyUsed(p, 0)
    /\ UNCHANGED <<policy, now>>

Tick ==
    /\ now < MaxTime
    /\ now' = now + 1
    /\ UNCHANGED <<policy, used, since, hs, codec, inbox, held, sent, delivered, commits, error>>

Next ==
    \/ Tick
    \/ \E p \in Party :
        \/ Read(p)
        \/ \E bytes \in Sizes : SendBytes(p, bytes) \/ SendBytesUpdate(p, bytes)

Spec == Init /\ [][Next]_vars

-----------------------------------------------------------------------------
\* Every variable has its type.
TypeOK ==
    /\ policy \in [Party -> Policy] /\ now \in 0 .. MaxTime
    /\ used \in [Party -> Nat] /\ since \in [Party -> 0 .. MaxTime]
    /\ codec \in [Party -> Codec]

\* The step sends bytes of p, and leaves p with nothing to wait for.
SendsFreely(p) == sent'[p] # sent[p] /\ ~Waits(hs', p)

\* A traffic-based policy bounds what is sent under one key: a party that sends
\* more than the threshold and one message under its present key is waiting for
\* its peer.  This needs the reset, at the start of an update, to match a
\* change of the key that for the server comes later, and that an update of
\* the client may replace by another.  Operations are single steps here: a
\* send whose future is dropped in its last await is not counted by the policy,
\* and every such message adds its size to the bound.
UsageBounded ==
    [][\A p \in Party :
        policy[p].traffic_based /\ SendsFreely(p) => used'[p] < Threshold + Max(Sizes)]_vars

\* A time-based policy bounds the age of keys in the same way: a party that
\* waits for nothing sends under a key younger than the policy's duration.
FreshKeys ==
    [][\A p \in Party :
        policy[p].time_based /\ SendsFreely(p) => now - since'[p] < Duration]_vars

=============================================================================
