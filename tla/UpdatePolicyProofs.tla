------------------------- MODULE UpdatePolicyProofs -------------------------
(***************************************************************************)
(* Proofs about the update policies, for every threshold, duration and     *)
(* message size, on top of those about the connection below.               *)
(***************************************************************************)
EXTENDS UpdatePolicy, TLAPS

\* The connection with what is proved about it.
Safe == INSTANCE EncryptionProviderProofs

\* The policy of p knows of everything that was sent under p's present key and
\* of the time when p began to use it.
Accounted(p) ==
    /\ policy[p].traffic_based => used[p] <= policy[p].bytes_transferred
    /\ policy[p].time_based => policy[p].last_update <= since[p]

\* A client changes its key when it resets its policy; a server resets its
\* policy first and gets the new key with the client's answer.
PolicyInv ==
    /\ TypeOK
    /\ Safe!IndInv /\ Safe!EpochsDiffer
    /\ \A p \in Party : policy[p].last_update <= now
    /\ Accounted("client")
    /\ ~server_is_waiting(hs["server"]) => Accounted("server")

-----------------------------------------------------------------------------
\* The actions of the two instances of the connection are the same.
LEMMA SameSend == ASSUME NEW p, Conn!SendBytes(p) PROVE Safe!SendBytes(p)
BY
   DEF Conn!SendBytes, Safe!SendBytes, Conn!MaySend, Safe!MaySend, Conn!NextBytes,
       Safe!NextBytes, Conn!encrypt, Safe!encrypt, Conn!after_encrypt,
       Safe!after_encrypt, Conn!Peer, Safe!Peer, Conn!Application, Safe!Application,
       Conn!NoCommit, Safe!NoCommit

LEMMA SameUpdate == ASSUME NEW p, Conn!SendBytesUpdate(p) PROVE Safe!SendBytesUpdate(p)
BY
   DEF Conn!SendBytesUpdate, Safe!SendBytesUpdate, Conn!MaySend, Safe!MaySend,
       Conn!NextBytes, Safe!NextBytes, Conn!Requests, Safe!Requests,
       Conn!update_handshake, Safe!update_handshake, Conn!encrypt, Safe!encrypt,
       Conn!after_encrypt, Safe!after_encrypt, Conn!update_traffic_secrets,
       Safe!update_traffic_secrets, Conn!own_kind, Safe!own_kind, Conn!expand_secret,
       Safe!expand_secret, Conn!Peer, Safe!Peer, Conn!Application, Safe!Application,
       Conn!NoCommit, Safe!NoCommit, Conn!NoMessage, Safe!NoMessage, Conn!Done,
       Safe!Done, Conn!Failed, Safe!Failed, Conn!ConnectionUpdate,
       Safe!ConnectionUpdate, Conn!NoSecretUpdate, Safe!NoSecretUpdate,
       Conn!ClientSecret, Safe!ClientSecret, Conn!Running, Safe!Running, Conn!update,
       Safe!update, Conn!merge_update, Safe!merge_update, Conn!Waiting, Safe!Waiting,
       Conn!client_is_waiting, Safe!client_is_waiting, Conn!self_update_and_merge,
       Safe!self_update_and_merge, Conn!client_update, Safe!client_update,
       Conn!WaitingForUpdate, Safe!WaitingForUpdate, Conn!server_is_waiting,
       Safe!server_is_waiting, Conn!self_update_and_wait, Safe!self_update_and_wait,
       Conn!server_update, Safe!server_update

LEMMA SameRead == ASSUME NEW p, Conn!ReadMessage(p) PROVE Safe!ReadMessage(p)
BY
   DEF Conn!ReadMessage, Safe!ReadMessage, Conn!decrypt, Safe!decrypt,
       Conn!after_decrypt, Safe!after_decrypt

LEMMA SameApplication ==
    ASSUME NEW p, Conn!ProcessApplication(p) PROVE Safe!ProcessApplication(p)
BY
   DEF Conn!ProcessApplication, Safe!ProcessApplication

LEMMA SameSignaling == ASSUME NEW p, Conn!ProcessSignaling(p) PROVE Safe!ProcessSignaling(p)
<1>1. ASSUME NEW g, NEW c, NEW drop
      PROVE  Conn!process_mls_update(g, c, drop) = Safe!process_mls_update(g, c, drop)
  BY
   DEF Conn!NoCommit, Safe!NoCommit, Conn!merge_update, Safe!merge_update,
       Conn!resolve_pending, Safe!resolve_pending, Conn!process_mls_update,
       Safe!process_mls_update
<1>2. ASSUME NEW state, NEW requested, NEW fresh, NEW u
      PROVE  /\ Conn!self_update_and_merge(state, requested, fresh)
                  = Safe!self_update_and_merge(state, requested, fresh)
             /\ Conn!self_update_and_wait(state, requested, fresh, u)
                  = Safe!self_update_and_wait(state, requested, fresh, u)
  BY
   DEF Conn!self_update_and_merge, Safe!self_update_and_merge,
       Conn!self_update_and_wait, Safe!self_update_and_wait, Conn!update, Safe!update,
       Conn!merge_update, Safe!merge_update, Conn!Waiting, Safe!Waiting,
       Conn!WaitingForUpdate, Safe!WaitingForUpdate, Conn!ConnectionUpdate,
       Safe!ConnectionUpdate, Conn!ClientSecret, Safe!ClientSecret, Conn!Done,
       Safe!Done, Conn!Failed, Safe!Failed, Conn!NoMessage, Safe!NoMessage,
       Conn!Application, Safe!Application, Conn!NoSecretUpdate, Safe!NoSecretUpdate,
       Conn!NoCommit, Safe!NoCommit
<1>3. ASSUME NEW state, NEW message, NEW fresh
      PROVE  Conn!client_process_update(state, message, fresh)
                = Safe!client_process_update(state, message, fresh)
  BY <1>1, <1>2
   DEF Conn!client_process_update, Safe!client_process_update,
       Conn!create_epoch_key_update, Safe!create_epoch_key_update,
       Conn!EpochKeyUpdate, Safe!EpochKeyUpdate, Conn!Waiting, Safe!Waiting,
       Conn!ClientSecret, Safe!ClientSecret, Conn!Done, Safe!Done, Conn!Failed,
       Safe!Failed, Conn!NoMessage, Safe!NoMessage, Conn!Application,
       Safe!Application, Conn!NoSecretUpdate, Safe!NoSecretUpdate, Conn!NoCommit,
       Safe!NoCommit
<1>4. ASSUME NEW state, NEW message, NEW fresh
      PROVE  Conn!server_process_update(state, message, fresh)
                = Safe!server_process_update(state, message, fresh)
  BY <1>1, <1>2
   DEF Conn!server_process_update, Safe!server_process_update, Conn!server_follow,
       Safe!server_follow, Conn!Running, Safe!Running, Conn!create_epoch_key_update,
       Safe!create_epoch_key_update, Conn!EpochKeyUpdate, Safe!EpochKeyUpdate,
       Conn!Both, Safe!Both, Conn!Done, Safe!Done, Conn!Failed, Safe!Failed,
       Conn!NoMessage, Safe!NoMessage, Conn!Application, Safe!Application,
       Conn!NoSecretUpdate, Safe!NoSecretUpdate, Conn!NoCommit, Safe!NoCommit
<1>5. ASSUME NEW state, NEW message, NEW fresh
      PROVE  Conn!client_receive_signaling_message(state, message, fresh)
                = Safe!client_receive_signaling_message(state, message, fresh)
  BY <1>3
   DEF Conn!client_receive_signaling_message, Safe!client_receive_signaling_message,
       Conn!client_receive_confirmation, Safe!client_receive_confirmation,
       Conn!client_is_waiting, Safe!client_is_waiting, Conn!process_epoch_key_update,
       Safe!process_epoch_key_update, Conn!Running, Safe!Running, Conn!ServerSecret,
       Safe!ServerSecret, Conn!Done, Safe!Done, Conn!Failed, Safe!Failed,
       Conn!NoMessage, Safe!NoMessage, Conn!Application, Safe!Application,
       Conn!NoSecretUpdate, Safe!NoSecretUpdate, Conn!NoCommit, Safe!NoCommit
<1>6. ASSUME NEW state, NEW message, NEW fresh
      PROVE  Conn!server_receive_signaling_message(state, message, fresh)
                = Safe!server_receive_signaling_message(state, message, fresh)
  BY <1>4
   DEF Conn!server_receive_signaling_message, Safe!server_receive_signaling_message,
       Conn!server_receive_epoch_key_update, Safe!server_receive_epoch_key_update,
       Conn!server_is_waiting, Safe!server_is_waiting, Conn!merge_update,
       Safe!merge_update, Conn!process_epoch_key_update,
       Safe!process_epoch_key_update, Conn!create_epoch_key_update,
       Safe!create_epoch_key_update, Conn!EpochKeyUpdate, Safe!EpochKeyUpdate,
       Conn!Running, Safe!Running, Conn!Both, Safe!Both, Conn!Done, Safe!Done,
       Conn!Failed, Safe!Failed, Conn!NoMessage, Safe!NoMessage, Conn!Application,
       Safe!Application, Conn!NoSecretUpdate, Safe!NoSecretUpdate, Conn!NoCommit,
       Safe!NoCommit
<1>7. ASSUME NEW m
      PROVE  Conn!process_signaling_message(p, m) = Safe!process_signaling_message(p, m)
  BY <1>5, <1>6 DEF Conn!process_signaling_message, Safe!process_signaling_message
<1>8. /\ \A c : Conn!after_encrypt(c) = Safe!after_encrypt(c)
      /\ \A c, m : Conn!encrypt(c, m) = Safe!encrypt(c, m)
      /\ Conn!NoMessage = Safe!NoMessage /\ Conn!Party = Safe!Party
  BY DEF Conn!after_encrypt, Safe!after_encrypt, Conn!encrypt, Safe!encrypt, Conn!NoMessage,
         Safe!NoMessage, Conn!Application, Safe!Application, Conn!NoCommit, Safe!NoCommit,
         Conn!Party, Safe!Party
<1>9. ASSUME NEW c, NEW u
      PROVE  Conn!update_traffic_secrets(c, p, u) = Safe!update_traffic_secrets(c, p, u)
  BY DEF Conn!update_traffic_secrets, Safe!update_traffic_secrets, Conn!own_kind, Safe!own_kind,
         Conn!expand_secret, Safe!expand_secret, Conn!Peer, Safe!Peer
<1> DEFINE m == Head(inbox[p]).payload
           r == Safe!process_signaling_message(p, m)
           used1 == IF r.message # Safe!NoMessage THEN Safe!after_encrypt(codec[p]) ELSE codec[p]
<1>10. Conn!process_signaling_message(p, m) = r
  BY <1>7
<1>11. /\ error[p] = "ok" /\ held[p] = 1 /\ m.type # "Application"
       /\ held' = [held EXCEPT ![p] = 0] /\ UNCHANGED <<sent, delivered>>
  BY DEF Conn!ProcessSignaling
<1>12. /\ hs' = [hs EXCEPT ![p] = r.state]
       /\ commits' = commits + r.made
       /\ error' = [error EXCEPT ![p] = r.error]
  BY <1>10 DEF Conn!ProcessSignaling
<1>13. codec' = [codec EXCEPT ![p] = Safe!update_traffic_secrets(used1, p, r.secret_update)]
  BY <1>8, <1>9, <1>10 DEF Conn!ProcessSignaling
<1>14. inbox' = [q \in Safe!Party |->
                    IF q = p THEN Tail(inbox[q])
                    ELSE IF r.message # Safe!NoMessage
                         THEN Append(inbox[q], Safe!encrypt(codec[p], r.message))
                         ELSE inbox[q]]
  BY <1>8, <1>10 DEF Conn!ProcessSignaling
<1> HIDE DEF r
<1> QED
  BY <1>11, <1>12, <1>13, <1>14 DEF Safe!ProcessSignaling, r

LEMMA SameInit == ASSUME Conn!Init PROVE Safe!Init
BY
   DEF Conn!Init, Safe!Init, Conn!Party, Safe!Party, Conn!client_start,
       Safe!client_start, Conn!server_start, Safe!server_start,
       Conn!create_server_session, Safe!create_server_session, Conn!new_codec,
       Safe!new_codec, Conn!expand_secret, Safe!expand_secret, Conn!Peer, Safe!Peer,
       Conn!Running, Safe!Running, Conn!NoCommit, Safe!NoCommit

-----------------------------------------------------------------------------
\* What one step of the connection does to its invariant.
LEMMA ConnectionStep ==
    ASSUME ClientRequests \subseteq {FALSE}, Safe!IndInv, Safe!EpochsDiffer, NEW p \in Party,
           \/ Safe!SendBytes(p) \/ Safe!SendBytesUpdate(p) \/ Safe!ReadMessage(p)
           \/ Safe!ProcessApplication(p) \/ Safe!ProcessSignaling(p)
    PROVE  Safe!IndInv' /\ Safe!EpochsDiffer'
<1>1. p \in Safe!Party
  BY DEF Party, Safe!Party
<1>2. Safe!Next
  BY <1>1 DEF Safe!Next
<1>3. Safe!IndInv'
  BY <1>2, PolicyAssumption, Safe!IndInvNext
<1> QED
  BY <1>2, <1>3, PolicyAssumption, Safe!EpochsDifferStep

\* The codecs have their types.
LEMMA CodecTypes ==
    /\ Safe!IndInv => codec \in [Party -> Codec]
    /\ Safe!IndInv' => codec' \in [Party -> Codec]
<1>1. /\ Safe!IndInv => codec \in [Safe!Party -> Safe!Codec]
      /\ Safe!IndInv' => codec' \in [Safe!Party -> Safe!Codec]
  BY DEF Safe!IndInv, Safe!TypeOK, Safe!Codec, Safe!Key, Safe!Party
<1> QED
  BY <1>1 DEF Party, Codec, Key, Safe!Party, Safe!Codec, Safe!Key

\* The operations of the policies.
LEMMA ResetOnly ==
    ASSUME NEW u \in Policy, NEW time \in Nat
    PROVE  /\ reset(u, time) \in Policy
           /\ reset(u, time).time_based = u.time_based
           /\ reset(u, time).traffic_based = u.traffic_based
           /\ reset(u, time).last_update = IF u.time_based THEN time ELSE u.last_update
           /\ u.traffic_based => reset(u, time).bytes_transferred = 0
BY DEF Policy, reset

LEMMA IncrementOnly ==
    ASSUME NEW u \in Policy, NEW bytes \in Nat
    PROVE  /\ increment_bytes_transferred(u, bytes) \in Policy
           /\ increment_bytes_transferred(u, bytes).time_based = u.time_based
           /\ increment_bytes_transferred(u, bytes).traffic_based = u.traffic_based
           /\ increment_bytes_transferred(u, bytes).last_update = u.last_update
           /\ u.traffic_based => increment_bytes_transferred(u, bytes).bytes_transferred
                                   = u.bytes_transferred + bytes
BY DEF Policy, increment_bytes_transferred

\* The types, one by one.
LEMMA PolicyTypes ==
    ASSUME TypeOK, NEW p \in Party
    PROVE  /\ policy[p] \in Policy /\ policy[p].last_update \in Nat
           /\ policy[p].bytes_transferred \in Nat /\ now \in Nat
           /\ used[p] \in Nat /\ since[p] \in Nat
<1>1. policy[p] \in Policy
  BY DEF TypeOK
<1>2. now \in Nat /\ since[p] \in Nat /\ used[p] \in Nat
  BY PolicyAssumption DEF TypeOK
<1> QED
  BY <1>1, <1>2 DEF Policy

\* What is recorded of the use of the key.
LEMMA KeyUsedTypes ==
    ASSUME TypeOK, NEW p \in Party, NEW bytes \in Nat, KeyUsed(p, bytes)
    PROVE  /\ used' \in [Party -> Nat] /\ since' \in [Party -> 0 .. MaxTime]
           /\ codec'[p].send_key = codec[p].send_key =>
                used'[p] = used[p] + bytes /\ since'[p] = since[p]
           /\ codec'[p].send_key # codec[p].send_key => used'[p] = bytes /\ since'[p] = now
           /\ \A q \in Party : q # p => used'[q] = used[q] /\ since'[q] = since[q]
BY DEF TypeOK, KeyUsed

\* send_bytes without an update.
LEMMA SendStep ==
    ASSUME ClientRequests \subseteq {FALSE}, PolicyInv, NEW p \in Party,
           NEW bytes \in Sizes, SendBytes(p, bytes)
    PROVE  /\ PolicyInv'
           /\ hs' = hs /\ used'[p] = used[p] + bytes /\ since'[p] = since[p]
<1>1. Safe!SendBytes(p) /\ p \in Safe!Party /\ bytes \in Nat
  BY SameSend, PolicyAssumption DEF SendBytes, Party, Safe!Party
<1>2. Safe!IndInv' /\ Safe!EpochsDiffer'
  BY <1>1, ConnectionStep DEF PolicyInv
<1>3. hs' = hs /\ codec'[p].send_key = codec[p].send_key
  BY <1>1, PolicyAssumption, Safe!IndInvType, Safe!QuietActions DEF PolicyInv
<1>4. /\ used' \in [Party -> Nat] /\ since' \in [Party -> 0 .. MaxTime]
      /\ used'[p] = used[p] + bytes /\ since'[p] = since[p]
      /\ \A q \in Party : q # p => used'[q] = used[q] /\ since'[q] = since[q]
  BY <1>1, <1>3, KeyUsedTypes DEF PolicyInv, SendBytes
<1> DEFINE i == increment_bytes_transferred(policy[p], bytes)
<1>5. policy' = [policy EXCEPT ![p] = i] /\ now' = now
  BY DEF SendBytes
<1>6. /\ i \in Policy /\ i.last_update = policy[p].last_update
      /\ i.time_based = policy[p].time_based /\ i.traffic_based = policy[p].traffic_based
      /\ policy[p].traffic_based =>
           i.bytes_transferred = policy[p].bytes_transferred + bytes
  BY <1>1, PolicyTypes, IncrementOnly DEF PolicyInv
<1> HIDE DEF i
<1>7. TypeOK'
  BY <1>2, <1>4, <1>5, <1>6, CodecTypes DEF PolicyInv, TypeOK
<1>8. \A q \in Party : policy'[q].last_update <= now'
  BY <1>5, <1>6 DEF PolicyInv, TypeOK
<1>9. ASSUME NEW q \in Party, Accounted(q) PROVE Accounted(q)'
  <2>1. CASE q = p
    <3>1. policy'[q] = i
      BY <1>5, <2>1 DEF PolicyInv, TypeOK
    <3> QED
      BY <1>1, <1>4, <1>6, <1>9, <2>1, <3>1, PolicyTypes DEF PolicyInv, Accounted
  <2>2. CASE q # p
    BY <1>4, <1>5, <1>9, <2>2 DEF PolicyInv, TypeOK, Accounted
  <2> QED
    BY <2>1, <2>2
<1> QED
  BY <1>2, <1>3, <1>4, <1>7, <1>8, <1>9 DEF PolicyInv, Party

\* send_bytes with an update.
LEMMA UpdateStep ==
    ASSUME ClientRequests \subseteq {FALSE}, PolicyInv, NEW p \in Party,
           NEW bytes \in Sizes, SendBytesUpdate(p, bytes)
    PROVE  PolicyInv' /\ Waits(hs', p)
<1>1. Safe!SendBytesUpdate(p) /\ p \in Safe!Party /\ bytes \in Nat
  BY SameUpdate, PolicyAssumption DEF SendBytesUpdate, Party, Safe!Party
<1>2. Safe!IndInv' /\ Safe!EpochsDiffer'
  BY <1>1, ConnectionStep DEF PolicyInv
<1>3. error'[p] = "ok"
  BY <1>1, <1>2 DEF Safe!IndInv, Safe!NoError
<1>4. /\ p = "client" => /\ client_is_waiting(hs'["client"])
                         /\ codec'[p].send_key # codec[p].send_key
      /\ p = "server" => server_is_waiting(hs'["server"])
  BY <1>1, <1>2, PolicyAssumption, Safe!UpdateThenWait
     DEF PolicyInv, Safe!clientWaits, Safe!serverWaits, Safe!client_is_waiting,
         Safe!server_is_waiting, client_is_waiting, server_is_waiting
<1>5. /\ used' \in [Party -> Nat] /\ since' \in [Party -> 0 .. MaxTime]
      /\ codec'[p].send_key # codec[p].send_key => used'[p] = bytes /\ since'[p] = now
      /\ \A q \in Party : q # p => used'[q] = used[q] /\ since'[q] = since[q]
  BY <1>1, <1>3, KeyUsedTypes DEF PolicyInv, SendBytesUpdate
<1> DEFINE r == increment_bytes_transferred(reset(policy[p], now), bytes)
<1>6. policy' = [policy EXCEPT ![p] = r] /\ now' = now
  BY <1>3 DEF SendBytesUpdate
<1>7. /\ r \in Policy /\ r.last_update \in {policy[p].last_update, now}
      /\ r.time_based = policy[p].time_based /\ r.traffic_based = policy[p].traffic_based
      /\ policy[p].time_based => r.last_update = now
      /\ policy[p].traffic_based => r.bytes_transferred = bytes
  <2> DEFINE s == reset(policy[p], now)
  <2>1. policy[p] \in Policy /\ now \in Nat
    BY PolicyTypes DEF PolicyInv
  <2>2. /\ s \in Policy
        /\ s.time_based = policy[p].time_based /\ s.traffic_based = policy[p].traffic_based
        /\ s.last_update = IF policy[p].time_based THEN now ELSE policy[p].last_update
        /\ policy[p].traffic_based => s.bytes_transferred = 0
    BY <2>1, ResetOnly
  <2> HIDE DEF s
  <2>3. /\ increment_bytes_transferred(s, bytes) \in Policy
        /\ increment_bytes_transferred(s, bytes).time_based = s.time_based
        /\ increment_bytes_transferred(s, bytes).traffic_based = s.traffic_based
        /\ increment_bytes_transferred(s, bytes).last_update = s.last_update
        /\ s.traffic_based => increment_bytes_transferred(s, bytes).bytes_transferred
                                = s.bytes_transferred + bytes
    BY <1>1, <2>2, IncrementOnly
  <2>4. r = increment_bytes_transferred(s, bytes)
    BY DEF s
  <2> QED
    BY <1>1, <2>2, <2>3, <2>4
<1> HIDE DEF r
<1>8. TypeOK'
  BY <1>2, <1>5, <1>6, <1>7, CodecTypes DEF PolicyInv, TypeOK
<1>9. \A q \in Party : policy'[q].last_update <= now'
  BY <1>6, <1>7, PolicyTypes DEF PolicyInv, TypeOK
<1>10. ASSUME NEW q \in Party, q # p, Accounted(q) PROVE Accounted(q)'
  BY <1>5, <1>6, <1>10 DEF PolicyInv, TypeOK, Accounted
<1>11. CASE p = "client"
  <2>1. Accounted("client")'
    <3>1. policy'["client"] = r
      BY <1>6, <1>11 DEF PolicyInv, TypeOK
    <3> QED
      BY <1>1, <1>4, <1>5, <1>6, <1>7, <1>11, <3>1, PolicyTypes DEF PolicyInv, Accounted
  <2>2. server_is_waiting(hs'["server"]) = server_is_waiting(hs["server"])
    BY <1>1, <1>11, PolicyAssumption, Safe!IndInvType, Safe!PeerUntouched
       DEF PolicyInv, Safe!Peer, server_is_waiting
  <2> QED
    BY <1>2, <1>4, <1>8, <1>9, <1>10, <1>11, <2>1, <2>2 DEF PolicyInv, Party, Waits
<1>12. CASE p = "server"
  BY <1>2, <1>4, <1>8, <1>9, <1>10, <1>12 DEF PolicyInv, Party, Waits
<1> QED
  BY <1>11, <1>12 DEF Party

\* Reading: only a signaling message changes a sending key, and it ends the
\* server's wait only together with such a change.
LEMMA ReadStep ==
    ASSUME ClientRequests \subseteq {FALSE}, PolicyInv, NEW p \in Party, Read(p)
    PROVE  PolicyInv' /\ sent' = sent
<1>1. /\ Safe!ReadMessage(p) \/ Safe!ProcessApplication(p) \/ Safe!ProcessSignaling(p)
      /\ p \in Safe!Party
  BY SameRead, SameApplication, SameSignaling DEF Read, Party, Safe!Party
<1>2. Safe!IndInv' /\ Safe!EpochsDiffer'
  BY <1>1, ConnectionStep DEF PolicyInv
<1>3. /\ used' \in [Party -> Nat] /\ since' \in [Party -> 0 .. MaxTime]
      /\ codec'[p].send_key = codec[p].send_key =>
           used'[p] = used[p] + 0 /\ since'[p] = since[p]
      /\ codec'[p].send_key # codec[p].send_key => used'[p] = 0 /\ since'[p] = now
      /\ \A q \in Party : q # p => used'[q] = used[q] /\ since'[q] = since[q]
  BY KeyUsedTypes DEF PolicyInv, Read
<1>4. policy' = policy /\ now' = now
  BY DEF Read
<1>5. TypeOK' /\ \A q \in Party : policy'[q].last_update <= now'
  BY <1>2, <1>3, <1>4, CodecTypes DEF PolicyInv, TypeOK
<1>6. ASSUME NEW q \in Party, Accounted(q) PROVE Accounted(q)'
  BY <1>3, <1>4, <1>6, PolicyTypes DEF PolicyInv, Accounted
<1>7. ASSUME p = "server", server_is_waiting(hs["server"]), ~server_is_waiting(hs'["server"])
      PROVE  Accounted("server")'
  <2>1. Safe!ProcessSignaling("server")
    BY <1>1, <1>7, PolicyAssumption, Safe!IndInvType, Safe!QuietActions DEF PolicyInv
  <2>2. codec'["server"].send_key # codec["server"].send_key
    BY <1>2, <2>1, PolicyAssumption, Safe!ServerChangesKey DEF PolicyInv
  <2> QED
    BY <1>3, <1>4, <1>7, <2>2, PolicyTypes DEF PolicyInv, Accounted
<1>8. p = "client" => server_is_waiting(hs'["server"]) = server_is_waiting(hs["server"])
  BY <1>1, PolicyAssumption, Safe!IndInvType, Safe!PeerUntouched
     DEF PolicyInv, Safe!Peer, server_is_waiting
<1>9. sent' = sent
  BY DEF Read, Conn!ReadMessage, Conn!ProcessApplication, Conn!ProcessSignaling
<1> QED
  BY <1>2, <1>5, <1>6, <1>7, <1>8, <1>9 DEF PolicyInv, Party

\* Time passes.
LEMMA TickStep ==
    ASSUME ClientRequests \subseteq {FALSE}, PolicyInv, Tick \/ UNCHANGED vars
    PROVE  PolicyInv' /\ sent' = sent
<1>1. UNCHANGED Safe!vars /\ UNCHANGED <<policy, used, since, hs, codec, sent>>
  BY DEF Tick, vars, Safe!vars
<1>2. Safe!IndInv' /\ Safe!EpochsDiffer'
  BY <1>1, PolicyAssumption, Safe!IndInvNext, Safe!EpochsDifferStep DEF PolicyInv
<1>3. now' \in 0 .. MaxTime /\ now <= now'
  BY PolicyAssumption DEF PolicyInv, TypeOK, Tick, vars
<1>4. TypeOK'
  BY <1>1, <1>3 DEF PolicyInv, TypeOK
<1>5. \A q \in Party : policy'[q].last_update <= now'
  <2> SUFFICES ASSUME NEW q \in Party PROVE policy'[q].last_update <= now'
    OBVIOUS
  <2>1. policy[q].last_update \in Nat /\ now \in Nat /\ now' \in Nat
    BY <1>3, PolicyTypes, PolicyAssumption DEF PolicyInv
  <2> QED
    BY <1>1, <1>3, <2>1 DEF PolicyInv
<1> QED
  BY <1>1, <1>2, <1>4, <1>5 DEF PolicyInv, Accounted

LEMMA PolicyInit == Init => PolicyInv
<1> SUFFICES ASSUME Init PROVE PolicyInv
  OBVIOUS
<1>1. Safe!IndInv /\ Safe!EpochsDiffer
  BY SameInit, PolicyAssumption, Safe!IndInvInit, Safe!EpochsDifferInit DEF Init
<1>2. /\ policy \in [Party -> {new_policy(parts) : parts \in Parts}] /\ now = 0
      /\ used = [p \in Party |-> 0] /\ since = [p \in Party |-> 0]
  BY DEF Init
<1>3. \A parts \in Parts : new_policy(parts) \in Policy /\ new_policy(parts).last_update = 0
  BY DEF new_policy, Policy
<1>4. \A p \in Party : policy[p] \in Policy /\ policy[p].last_update = 0
  BY <1>2, <1>3
<1>5. TypeOK
  BY <1>1, <1>2, <1>4, CodecTypes, PolicyAssumption DEF TypeOK
<1>6. \A p \in Party : Accounted(p)
  BY <1>2, <1>4, PolicyTypes, <1>5 DEF Accounted
<1> QED
  BY <1>1, <1>2, <1>4, <1>5, <1>6 DEF PolicyInv, Party

-----------------------------------------------------------------------------
\* The invariant holds of every connection whose client requests no updates.
THEOREM PolicyInvariance ==
    ASSUME ClientRequests \subseteq {FALSE}
    PROVE  Spec => []PolicyInv
<1>1. PolicyInv /\ [Next]_vars => PolicyInv'
  BY SendStep, UpdateStep, ReadStep, TickStep DEF Next
<1> QED
  BY PolicyInit, <1>1, PTL DEF Spec

\* Every variable has its type.
THEOREM PolicyTypeCorrect ==
    ASSUME ClientRequests \subseteq {FALSE}
    PROVE  Spec => []TypeOK
<1>1. PolicyInv => TypeOK
  BY DEF PolicyInv
<1> QED
  BY <1>1, PolicyInvariance, PTL

\* What a party with a traffic-based policy sends under one key while it waits
\* for nothing is less than the threshold and one message.
THEOREM UsageIsBounded ==
    ASSUME ClientRequests \subseteq {FALSE}
    PROVE  Spec => UsageBounded
<1>1. PolicyInv /\ [Next]_vars =>
        [\A p \in Party : policy[p].traffic_based /\ SendsFreely(p) =>
                            used'[p] < Threshold + Max(Sizes)]_vars
  <2> SUFFICES ASSUME PolicyInv, Next, NEW p \in Party, policy[p].traffic_based, SendsFreely(p)
               PROVE  used'[p] < Threshold + Max(Sizes)
    OBVIOUS
  <2>1. sent'[p] # sent[p] /\ ~Waits(hs', p)
    BY DEF SendsFreely
  <2>2. PICK q \in Party, bytes \in Sizes : SendBytes(q, bytes) \/ SendBytesUpdate(q, bytes)
    BY <2>1, ReadStep, TickStep DEF Next
  <2>3. q = p
    <3>1. sent' = sent \/ sent' = [sent EXCEPT ![q] = @ + 1]
      BY <2>2 DEF SendBytes, SendBytesUpdate, Conn!SendBytes, Conn!SendBytesUpdate
    <3>2. sent \in [Party -> Nat]
      BY DEF PolicyInv, Safe!IndInv, Safe!TypeOK, Party, Safe!Party
    <3> QED
      BY <2>1, <3>1, <3>2
  <2>4. SendBytes(p, bytes)
    BY <2>1, <2>2, <2>3, UpdateStep
  <2>5. hs' = hs /\ used'[p] = used[p] + bytes
    BY <2>4, SendStep
  <2>6. ~Waits(hs, p) /\ ~traffic_update_is_due(policy[p])
    BY <2>1, <2>4, <2>5 DEF SendBytes, update_is_due
  <2>7. Accounted(p)
    BY <2>6 DEF PolicyInv, Waits, Party
  <2>8. used[p] < Threshold
    BY <2>6, <2>7, PolicyTypes, PolicyAssumption
       DEF PolicyInv, Accounted, traffic_update_is_due
  <2>9. Max(Sizes) \in Nat /\ bytes <= Max(Sizes) /\ bytes \in Nat
    <3>1. Sizes \subseteq Nat /\ \E most \in Sizes : \A b \in Sizes : most >= b
      BY PolicyAssumption
    <3> QED
      BY <3>1 DEF Max
  <2> QED
    BY <2>5, <2>8, <2>9, PolicyTypes, PolicyAssumption DEF PolicyInv
<1> QED
  BY <1>1, PolicyInvariance, PTL DEF Spec, UsageBounded

\* A party with a time-based policy that waits for nothing sends under a key
\* that is younger than the policy's duration.
THEOREM KeysAreFresh ==
    ASSUME ClientRequests \subseteq {FALSE}
    PROVE  Spec => FreshKeys
<1>1. PolicyInv /\ [Next]_vars =>
        [\A p \in Party : policy[p].time_based /\ SendsFreely(p) =>
                            now - since'[p] < Duration]_vars
  <2> SUFFICES ASSUME PolicyInv, Next, NEW p \in Party, policy[p].time_based, SendsFreely(p)
               PROVE  now - since'[p] < Duration
    OBVIOUS
  <2>1. sent'[p] # sent[p] /\ ~Waits(hs', p)
    BY DEF SendsFreely
  <2>2. PICK q \in Party, bytes \in Sizes : SendBytes(q, bytes) \/ SendBytesUpdate(q, bytes)
    BY <2>1, ReadStep, TickStep DEF Next
  <2>3. q = p
    <3>1. sent' = sent \/ sent' = [sent EXCEPT ![q] = @ + 1]
      BY <2>2 DEF SendBytes, SendBytesUpdate, Conn!SendBytes, Conn!SendBytesUpdate
    <3>2. sent \in [Party -> Nat]
      BY DEF PolicyInv, Safe!IndInv, Safe!TypeOK, Party, Safe!Party
    <3> QED
      BY <2>1, <3>1, <3>2
  <2>4. SendBytes(p, bytes)
    BY <2>1, <2>2, <2>3, UpdateStep
  <2>5. hs' = hs /\ since'[p] = since[p]
    BY <2>4, SendStep
  <2>6. ~Waits(hs, p) /\ ~time_update_is_due(policy[p], now)
    BY <2>1, <2>4, <2>5 DEF SendBytes, update_is_due
  <2>7. Accounted(p)
    BY <2>6 DEF PolicyInv, Waits, Party
  <2> QED
    BY <2>5, <2>6, <2>7, PolicyTypes, PolicyAssumption
       DEF PolicyInv, Accounted, time_update_is_due
<1> QED
  BY <1>1, PolicyInvariance, PTL DEF Spec, FreshKeys

=============================================================================
