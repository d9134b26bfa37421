----------------------- MODULE EncryptionProviderProofs -----------------------
(***************************************************************************)
(* Proofs about an established connection: its inductive invariant is      *)
(* invariant, and the safety properties follow from it; then what a step   *)
(* never does, from the invariant before and after the step; and the steps *)
(* of the secure channel that the connection is to its applications.       *)
(***************************************************************************)
EXTENDS EncryptionProviderInductive, StateMachineProofs

\* Both dispatchers of MlsHandshake return results of their type.
LEMMA HandlerType ==
    ASSUME TypeOK, NEW p \in Party
    PROVE  /\ \A requested \in Requests(p) :
                /\ update_handshake(p, requested) \in Result
                /\ update_handshake(p, requested).state.internal_state.tag \in Tag(p)
           /\ \A message \in InnerPlaintext : message.type # "Application" =>
                /\ process_signaling_message(p, message) \in Result
                /\ process_signaling_message(p, message).state.internal_state.tag \in Tag(p)
<1>1. /\ hs[p] \in Handshake
      /\ hs[p].internal_state.tag \in Tag(p)
      /\ commits + 1 \in Nat
  BY DEF TypeOK, Tag, Party
<1>2. Requests(p) \subseteq BOOLEAN
  BY RequestsAssumption DEF Requests
<1>3. CASE p = "client"
  BY <1>1, <1>2, <1>3, ClientUpdateType, ClientReceiveType
     DEF Tag, update_handshake, process_signaling_message
<1>4. CASE p # "client"
  BY <1>1, <1>2, <1>4, ServerUpdateType, ServerReceiveType
     DEF Tag, update_handshake, process_signaling_message
<1> QED
  BY <1>3, <1>4

\* Appending to the inboxes leaves the message that is held in place.
LEMMA LongerInbox ==
    ASSUME NEW box \in [Party -> Seq(Record)], NEW n \in [Party -> {0, 1}],
           \A q \in Party : n[q] <= Len(box[q]),
           NEW p \in Party, NEW a \in Record
    PROVE  /\ [box EXCEPT ![p] = Append(@, a)] \in [Party -> Seq(Record)]
           /\ \A q \in Party : n[q] <= Len([box EXCEPT ![p] = Append(@, a)][q])
<1>1. /\ Append(box[p], a) \in Seq(Record)
      /\ Len(Append(box[p], a)) = Len(box[p]) + 1
      /\ Len(box[p]) \in Nat
  OBVIOUS
<1>2. ASSUME NEW q \in Party PROVE n[q] <= Len([box EXCEPT ![p] = Append(@, a)][q])
  <2>1. CASE q = p
    BY <1>1, <2>1
  <2>2. CASE q # p
    BY <2>2
  <2> QED BY <2>1, <2>2
<1> QED
  BY <1>1, <1>2

-----------------------------------------------------------------------------
(***************************************************************************)
(* Type correctness.  A message that was read and not processed is still in the inbox.     *)
(***************************************************************************)

TypeInv ==
    /\ TypeOK
    /\ \A p \in Party : held[p] <= Len(inbox[p])

\* The connection starts with the right types.
LEMMA TypeInit == Init => TypeInv
<1> SUFFICES ASSUME Init PROVE TypeInv
  OBVIOUS
<1>1. create_server_session \in Group /\ create_server_session.secret \in Nat
  BY DEF create_server_session, Group, Commit, NoCommit
<1>2. /\ client_start \in Handshake /\ client_start.internal_state.tag \in ClientTag
      /\ server_start \in Handshake /\ server_start.internal_state.tag \in ServerTag
  BY <1>1, MessageTypes
     DEF client_start, server_start, Handshake, Group, Running, ClientTag, ServerTag
<1>3. hs \in [Party -> Handshake]
  BY <1>2 DEF Init
<1>4. /\ hs["client"].internal_state.tag \in ClientTag
      /\ hs["server"].internal_state.tag \in ServerTag
  BY <1>2 DEF Init, Party
<1>5. \A p \in Party : new_codec(p, create_server_session.secret, HandshakeRecords) \in Codec
  BY <1>1, BoundsAssumption, PeerFacts DEF new_codec, expand_secret, Codec, Key
<1>6. codec \in [Party -> Codec]
  BY <1>5 DEF Init
<1> QED
  BY <1>3, <1>4, <1>6 DEF Init, TypeInv, TypeOK, ErrorKind

\* Every step keeps the types.
LEMMA TypeNext == TypeInv /\ [Next]_vars => TypeInv'
<1> SUFFICES ASSUME TypeInv, [Next]_vars PROVE TypeInv'
  OBVIOUS
<1> USE DEF TypeInv
<1>1. ASSUME NEW p \in Party, SendBytes(p) PROVE TypeInv'
  <2>1. NextBytes(p) \in InnerPlaintext
    BY MessageTypes DEF TypeOK, NextBytes
  <2>2. encrypt(codec[p], NextBytes(p)) \in Record /\ after_encrypt(codec[p]) \in Codec
    BY <2>1, CodecType DEF TypeOK
  <2>3. codec' \in [Party -> Codec]
    BY <1>1, <2>2 DEF TypeOK, SendBytes
  <2>4. inbox' \in [Party -> Seq(Record)]
    BY <1>1, <2>2, PeerFacts DEF TypeOK, SendBytes
  <2>5. \A q \in Party : held'[q] <= Len(inbox'[q])
    <3>1. /\ inbox \in [Party -> Seq(Record)] /\ held \in [Party -> {0, 1}]
          /\ \A q \in Party : held[q] <= Len(inbox[q])
          /\ Peer(p) \in Party
      BY PeerFacts DEF TypeOK
    <3>2. /\ inbox' = [inbox EXCEPT ![Peer(p)] = Append(@, encrypt(codec[p], NextBytes(p)))]
          /\ held' = held
      BY <1>1 DEF SendBytes
    <3> QED
      BY <2>2, <3>1, <3>2, LongerInbox
  <2>6. sent' \in [Party -> Nat]
    BY <1>1 DEF TypeOK, SendBytes
  <2>7. hs' = hs /\ held' = held /\ delivered' = delivered /\ commits' = commits /\ error' = error
    BY <1>1 DEF TypeOK, SendBytes
  <2> QED
    BY <2>3, <2>4, <2>5, <2>6, <2>7 DEF TypeOK
<1>2. ASSUME NEW p \in Party, SendBytesUpdate(p) PROVE TypeInv'
  <2>1. PICK requested \in Requests(p) :
          LET r == update_handshake(p, requested)
              updated == update_traffic_secrets(after_encrypt(codec[p]), p, r.secret_update)
          IN  /\ hs' = [hs EXCEPT ![p] = r.state]
              /\ commits' = commits + r.made
              /\ IF r.error = "ok"
                 THEN /\ inbox' = [inbox EXCEPT ![Peer(p)] =
                                     Append(Append(@, encrypt(codec[p], r.message)),
                                            encrypt(updated, NextBytes(p)))]
                      /\ codec' = [codec EXCEPT ![p] = after_encrypt(updated)]
                      /\ sent' = [sent EXCEPT ![p] = @ + 1]
                      /\ error' = error
                 ELSE /\ error' = [error EXCEPT ![p] = r.error]
                      /\ UNCHANGED <<inbox, codec, sent>>
    BY <1>2 DEF SendBytesUpdate
  <2> DEFINE r == update_handshake(p, requested)
             updated == update_traffic_secrets(after_encrypt(codec[p]), p, r.secret_update)
  <2>2. /\ hs' = [hs EXCEPT ![p] = r.state]
        /\ commits' = commits + r.made
        /\ r.error = "ok" =>
             /\ inbox' = [inbox EXCEPT ![Peer(p)] =
                            Append(Append(@, encrypt(codec[p], r.message)),
                                   encrypt(updated, NextBytes(p)))]
             /\ codec' = [codec EXCEPT ![p] = after_encrypt(updated)]
             /\ sent' = [sent EXCEPT ![p] = @ + 1]
             /\ error' = error
        /\ r.error # "ok" =>
             /\ error' = [error EXCEPT ![p] = r.error]
             /\ UNCHANGED <<inbox, codec, sent>>
    BY <2>1
  <2>3. r \in Result /\ r.state.internal_state.tag \in Tag(p)
    BY HandlerType
  <2> HIDE DEF r
  <2>4. /\ r.state \in Handshake /\ r.made \in Nat /\ r.error \in ErrorKind
        /\ r.message \in InnerPlaintext /\ r.secret_update \in SecretUpdates
    BY <2>3 DEF Result
  <2>5. updated \in Codec
    BY <2>4, CodecType DEF TypeOK
  <2>6. NextBytes(p) \in InnerPlaintext
    BY MessageTypes DEF TypeOK, NextBytes
  <2> HIDE DEF updated
  <2>7. /\ encrypt(codec[p], r.message) \in Record
        /\ encrypt(updated, NextBytes(p)) \in Record
        /\ after_encrypt(updated) \in Codec
    BY <2>4, <2>5, <2>6, CodecType DEF TypeOK
  <2>8. /\ hs' \in [Party -> Handshake]
        /\ hs'["client"].internal_state.tag \in ClientTag
        /\ hs'["server"].internal_state.tag \in ServerTag
    BY <2>2, <2>3, <2>4 DEF TypeOK, Tag, Party
  <2>9. commits' \in Nat /\ held' = held /\ delivered' = delivered
    <3>1. held' = held /\ delivered' = delivered
      BY <1>2 DEF SendBytesUpdate
    <3>2. commits \in Nat
      BY DEF TypeOK
    <3> QED
      BY <2>2, <2>4, <3>1, <3>2
  <2>10. CASE r.error = "ok"
    <3> DEFINE first == [inbox EXCEPT ![Peer(p)] = Append(@, encrypt(codec[p], r.message))]
    <3>1. inbox' = [first EXCEPT ![Peer(p)] = Append(@, encrypt(updated, NextBytes(p)))]
      BY <2>2, <2>10, PeerFacts DEF TypeOK
    <3>2. /\ first \in [Party -> Seq(Record)]
          /\ \A q \in Party : held[q] <= Len(first[q])
      <4>1. /\ inbox \in [Party -> Seq(Record)] /\ held \in [Party -> {0, 1}]
            /\ \A q \in Party : held[q] <= Len(inbox[q])
            /\ Peer(p) \in Party
        BY PeerFacts DEF TypeOK
      <4> QED
        BY <2>7, <4>1, LongerInbox
    <3> HIDE DEF first
    <3>3. /\ inbox' \in [Party -> Seq(Record)]
          /\ \A q \in Party : held[q] <= Len(inbox'[q])
      <4>1. held \in [Party -> {0, 1}] /\ Peer(p) \in Party
        BY PeerFacts DEF TypeOK
      <4> QED
        BY <3>1, <3>2, <2>7, <4>1, LongerInbox
    <3>4. codec' \in [Party -> Codec]
      BY <2>2, <2>7, <2>10 DEF TypeOK
    <3>5. sent' \in [Party -> Nat] /\ error' = error
      <4>1. sent \in [Party -> Nat]
        BY DEF TypeOK
      <4>2. sent' = [sent EXCEPT ![p] = @ + 1] /\ error' = error
        BY <2>2, <2>10
      <4> QED
        BY <4>1, <4>2
    <3> QED
      BY <2>8, <2>9, <3>3, <3>4, <3>5 DEF TypeOK
  <2>11. CASE r.error # "ok"
    <3>1. /\ inbox' = inbox /\ codec' = codec /\ sent' = sent
          /\ error' \in [Party -> ErrorKind]
      BY <2>2, <2>4, <2>11 DEF TypeOK
    <3> QED
      BY <2>8, <2>9, <3>1 DEF TypeOK
  <2> QED
    BY <2>10, <2>11
<1>3. ASSUME NEW p \in Party, ReadMessage(p) PROVE TypeInv'
  <2>1. CASE decrypt(codec[p], Head(inbox[p]))
    <3>1. after_decrypt(codec[p]) \in Codec
      BY CodecType DEF TypeOK
    <3>2. codec' \in [Party -> Codec]
      BY <1>3, <2>1, <3>1 DEF TypeOK, ReadMessage
    <3>3. held' \in [Party -> {0, 1}] /\ \A q \in Party : held'[q] <= Len(inbox[q])
      <4>1. Len(inbox[p]) >= 1
        BY <1>3 DEF TypeOK, ReadMessage
      <4> QED
        BY <1>3, <2>1, <4>1 DEF TypeOK, ReadMessage
    <3>4. /\ inbox' = inbox /\ error' = error /\ hs' = hs /\ sent' = sent
          /\ delivered' = delivered /\ commits' = commits
      BY <1>3, <2>1 DEF ReadMessage
    <3> QED
      BY <3>2, <3>3, <3>4 DEF TypeOK
  <2>2. CASE ~decrypt(codec[p], Head(inbox[p]))
    <3>1. /\ Tail(inbox[p]) \in Seq(Record)
          /\ inbox' = [inbox EXCEPT ![p] = Tail(@)] /\ held' = held /\ held[p] = 0
      BY <1>3, <2>2 DEF TypeOK, ReadMessage
    <3>2. /\ inbox' \in [Party -> Seq(Record)]
          /\ \A q \in Party : held'[q] <= Len(inbox'[q])
      <4>1. /\ inbox \in [Party -> Seq(Record)]
            /\ \A q \in Party : held[q] <= Len(inbox[q])
        BY DEF TypeOK
      <4> QED
        BY <3>1, <4>1, LenProperties
    <3>3. error' \in [Party -> ErrorKind]
      <4>1. error' = [error EXCEPT ![p] = "DecryptionError"]
        BY <1>3, <2>2 DEF ReadMessage
      <4>2. error \in [Party -> ErrorKind] /\ "DecryptionError" \in ErrorKind
        BY DEF TypeOK, ErrorKind
      <4> QED
        BY <4>1, <4>2
    <3>4. /\ held' = held /\ codec' = codec /\ hs' = hs /\ sent' = sent
          /\ delivered' = delivered /\ commits' = commits
      BY <1>3, <2>2 DEF ReadMessage
    <3> QED
      BY <3>2, <3>3, <3>4 DEF TypeOK
  <2> QED
    BY <2>1, <2>2
<1>4. ASSUME NEW p \in Party, held[p] = 1
      PROVE  /\ Head(inbox[p]) \in Record
             /\ Tail(inbox[p]) \in Seq(Record)
             /\ Head(inbox[p]).payload \in InnerPlaintext
  <2>1. Head(inbox[p]) \in Record /\ Tail(inbox[p]) \in Seq(Record)
    BY <1>4, HeadTail DEF TypeOK
  <2> QED
    BY <2>1 DEF Record
<1>5. ASSUME NEW p \in Party, ProcessApplication(p) PROVE TypeInv'
  <2>1. Head(inbox[p]).payload.data \in Nat
    BY <1>4, <1>5 DEF ProcessApplication, InnerPlaintext
  <2>2. inbox' \in [Party -> Seq(Record)]
    BY <1>4, <1>5 DEF TypeOK, ProcessApplication
  <2>3. \A q \in Party : held'[q] <= Len(inbox'[q])
    BY <1>5 DEF TypeOK, ProcessApplication
  <2> QED
    BY <1>5, <2>1, <2>2, <2>3 DEF TypeOK, ProcessApplication
<1>6. ASSUME NEW p \in Party, ProcessSignaling(p) PROVE TypeInv'
  <2> DEFINE r == process_signaling_message(p, Head(inbox[p]).payload)
             responded == r.message # NoMessage
             used == IF responded THEN after_encrypt(codec[p]) ELSE codec[p]
  <2>1. r \in Result /\ r.state.internal_state.tag \in Tag(p)
    BY <1>4, <1>6, HandlerType DEF ProcessSignaling
  <2>2. /\ hs' = [hs EXCEPT ![p] = r.state]
        /\ commits' = commits + r.made
        /\ error' = [error EXCEPT ![p] = r.error]
        /\ codec' = [codec EXCEPT ![p] = update_traffic_secrets(used, p, r.secret_update)]
        /\ inbox' = [q \in Party |->
                       IF q = p THEN Tail(inbox[q])
                       ELSE IF responded
                            THEN Append(inbox[q], encrypt(codec[p], r.message))
                            ELSE inbox[q]]
        /\ held' = [held EXCEPT ![p] = 0]
        /\ UNCHANGED <<sent, delivered>>
    BY <1>6 DEF ProcessSignaling
  <2> HIDE DEF r
  <2>3. /\ r.state \in Handshake /\ r.made \in Nat /\ r.error \in ErrorKind
        /\ r.message \in InnerPlaintext /\ r.secret_update \in SecretUpdates
    BY <2>1 DEF Result
  <2>4. /\ update_traffic_secrets(used, p, r.secret_update) \in Codec
        /\ encrypt(codec[p], r.message) \in Record
    <3>1. codec[p] \in Codec
      BY DEF TypeOK
    <3> QED BY <2>3, <3>1, CodecType
  <2>5. /\ hs' \in [Party -> Handshake]
        /\ hs'["client"].internal_state.tag \in ClientTag
        /\ hs'["server"].internal_state.tag \in ServerTag
    BY <2>1, <2>2, <2>3 DEF TypeOK, Tag, Party
  <2> HIDE DEF used, responded
  <2>6. Tail(inbox[p]) \in Seq(Record)
    BY <1>4, <1>6 DEF ProcessSignaling
  <2>7. \A q \in Party : Append(inbox[q], encrypt(codec[p], r.message)) \in Seq(Record)
    BY <2>4 DEF TypeOK
  <2>8. inbox' \in [Party -> Seq(Record)]
    BY <2>2, <2>6, <2>7 DEF TypeOK
  <2>9. ASSUME NEW q \in Party PROVE held'[q] <= Len(inbox'[q])
    <3>1. CASE q = p
      BY <2>2, <2>6, <3>1 DEF TypeOK
    <3>2. CASE q # p
      <4>1. Len(Append(inbox[q], encrypt(codec[p], r.message))) = Len(inbox[q]) + 1
        BY <2>4, AppendRecord DEF TypeOK
      <4>2. Len(inbox'[q]) \in {Len(inbox[q]), Len(inbox[q]) + 1} /\ held'[q] = held[q]
        BY <2>2, <3>2, <4>1 DEF TypeOK
      <4>3. held[q] \in {0, 1} /\ Len(inbox[q]) \in Nat /\ held[q] <= Len(inbox[q])
        BY LenProperties DEF TypeOK
      <4> QED
        BY <4>2, <4>3
    <3> QED
      BY <3>1, <3>2
  <2> QED
    BY <2>2, <2>3, <2>4, <2>5, <2>8, <2>9 DEF TypeOK
<1>7. CASE UNCHANGED vars
  BY <1>7 DEF TypeOK, vars
<1> QED
  BY <1>1, <1>2, <1>3, <1>5, <1>6, <1>7 DEF Next

\* Type correctness of the connection, whatever the applications, the update
\* policies and the callers of the state machines do.
THEOREM TypeCorrect == Spec => []TypeOK
<1>1. TypeInv => TypeOK
  BY DEF TypeInv
<1> QED
  BY <1>1, TypeInit, TypeNext, PTL DEF Spec

-----------------------------------------------------------------------------
(***************************************************************************)
(* Channels: what appending a record, or taking the first one, does to the *)
(* position of the switch, to the keys and to an offer.                    *)
(***************************************************************************)

\* Sending a record of another type leaves the position of the switch.
LEMMA OnlyAtAppendOther ==
    ASSUME NEW q \in Seq(Record), NEW T, NEW k \in Nat, NEW a \in Record,
           OnlyAt(q, T, k), a.payload.type \notin T
    PROVE  OnlyAt(Append(q, a), T, k)
BY AppendRecord DEF OnlyAt

\* Sending the first record of the type makes it the switch.
LEMMA OnlyAtAppendSwitch ==
    ASSUME NEW q \in Seq(Record), NEW T, NEW a \in Record,
           OnlyAt(q, T, 0), a.payload.type \in T
    PROVE  OnlyAt(Append(q, a), T, Len(q) + 1)
BY AppendRecord DEF OnlyAt

\* Taking the first record moves the switch one position ahead.
LEMMA OnlyAtTail ==
    ASSUME NEW q \in Seq(Record), NEW T, NEW k \in Nat, Len(q) >= 1, OnlyAt(q, T, k)
    PROVE  OnlyAt(Tail(q), T, IF k = 0 THEN 0 ELSE k - 1)
BY HeadTail DEF OnlyAt

\* Sending under the sender's key keeps the keys in order.
LEMMA KeysAppend ==
    ASSUME NEW q \in Seq(Record), NEW k \in 0 .. Len(q), NEW rk, NEW sk,
           NEW a \in Record, KeysChangeAt(q, k, rk, sk), a.key = sk
    PROVE  KeysChangeAt(Append(q, a), k, rk, sk)
BY AppendRecord DEF KeysChangeAt

\* A record sent under the old key may be followed by any new one.
LEMMA KeysAppendSwitch ==
    ASSUME NEW q \in Seq(Record), NEW rk, NEW sk, NEW sk1,
           NEW a \in Record, KeysChangeAt(q, 0, rk, sk), a.key = sk
    PROVE  KeysChangeAt(Append(q, a), Len(q) + 1, rk, sk1)
BY AppendRecord DEF KeysChangeAt

\* Taking a record before the switch keeps the keys in order.
LEMMA KeysTail ==
    ASSUME NEW q \in Seq(Record), NEW k \in Nat, k # 1, NEW rk, NEW sk,
           Len(q) >= 1, KeysChangeAt(q, k, rk, sk)
    PROVE  KeysChangeAt(Tail(q), IF k = 0 THEN 0 ELSE k - 1, rk, sk)
BY HeadTail DEF KeysChangeAt

\* Behind the switch everything is under the sender's key.
LEMMA KeysTailSwitch ==
    ASSUME NEW q \in Seq(Record), NEW rk, NEW sk,
           Len(q) >= 1, KeysChangeAt(q, 1, rk, sk)
    PROVE  KeysChangeAt(Tail(q), 0, sk, sk)
BY HeadTail DEF KeysChangeAt

\* Sending any other record leaves the offer as it is.
LEMMA OfferAppendOther ==
    ASSUME NEW q \in Seq(Record), NEW k \in Nat, NEW pending, NEW a \in Record,
           Offer(q, k, pending), a.payload.type # "ConnectionUpdate"
    PROVE  Offer(Append(q, a), k, pending)
BY AppendRecord DEF Offer

\* A ConnectionUpdate is the offer of the commit it carries.
LEMMA OfferAppend ==
    ASSUME NEW q \in Seq(Record), NEW k \in 0 .. Len(q), NEW a \in Record,
           Offer(q, k, NoCommit), a.payload.type = "ConnectionUpdate",
           a.payload.mls_commit # NoCommit
    PROVE  Offer(Append(q, a), k, a.payload.mls_commit)
BY AppendRecord DEF Offer

\* Taking a record other than the ConnectionUpdate keeps the offer.
LEMMA OfferTail ==
    ASSUME NEW q \in Seq(Record), NEW k \in Nat, NEW pending, Len(q) >= 1,
           Offer(q, k, pending), k > 0 \/ q[1].payload.type # "ConnectionUpdate"
    PROVE  Offer(Tail(q), IF k = 0 THEN 0 ELSE k - 1, pending)
<1> DEFINE t == Tail(q)
           l == IF k = 0 THEN 0 ELSE k - 1
<1>1. /\ Len(t) = Len(q) - 1 /\ Len(q) \in Nat /\ l \in Nat
      /\ \A i \in 1 .. Len(t) :
           /\ t[i] = q[i + 1] /\ i + 1 \in 1 .. Len(q)
           /\ i > l => i + 1 > k
  BY HeadTail, LenProperties
<1> HIDE DEF t
<1>2. ASSUME NEW i \in 1 .. Len(t), i > l, t[i].payload.type = "ConnectionUpdate"
      PROVE  /\ pending # NoCommit
             /\ t[i].payload.mls_commit = pending
             /\ \A j \in 1 .. Len(t) :
                  j > l /\ t[j].payload.type = "ConnectionUpdate" => j = i
  <2>1. i + 1 \in 1 .. Len(q) /\ i + 1 > k /\ t[i] = q[i + 1]
    BY <1>1, <1>2
  <2>2. q[i + 1].payload.type = "ConnectionUpdate"
    BY <2>1, <1>2
  <2>3. /\ pending # NoCommit
        /\ q[i + 1].payload.mls_commit = pending
        /\ \A j \in 1 .. Len(q) :
             j > k /\ q[j].payload.type = "ConnectionUpdate" => j = i + 1
    <3> HIDE DEF l
    <3> QED
      BY <2>1, <2>2 DEF Offer
  <2>4. ASSUME NEW j \in 1 .. Len(t), j > l, t[j].payload.type = "ConnectionUpdate"
        PROVE  j = i
    <3>1. j + 1 \in 1 .. Len(q) /\ j + 1 > k /\ t[j] = q[j + 1]
      BY <1>1, <2>4
    <3>2. j + 1 = i + 1
      BY <3>1, <2>4, <2>3
    <3> QED
      BY <3>2
  <2> QED
    BY <2>1, <2>3, <2>4
<1>3. ASSUME pending # NoCommit
      PROVE  \E i \in 1 .. Len(t) : i > l /\ t[i].payload.type = "ConnectionUpdate"
  <2>1. PICK i \in 1 .. Len(q) : i > k /\ q[i].payload.type = "ConnectionUpdate"
    BY <1>3 DEF Offer
  <2>2. i - 1 \in 1 .. Len(t) /\ i - 1 > l
    BY <1>1, <2>1
  <2>3. t[i - 1] = q[i]
    BY <1>1, <2>2
  <2> QED
    BY <2>1, <2>2, <2>3
<1> QED
  BY <1>2, <1>3 DEF t, Offer

\* Behind the last record there is no offer.
LEMMA OfferNone ==
    ASSUME NEW q \in Seq(Record)
    PROVE  Offer(q, Len(q), NoCommit)
BY LenProperties DEF Offer

\* The records of a channel are records.
LEMMA RecordsOf ==
    ASSUME NEW q \in Seq(Record), NEW i \in 1 .. Len(q)
    PROVE  q[i] \in Record /\ q[i].seq \in Nat /\ q[i].payload \in InnerPlaintext
<1>1. q[i] \in Record
  OBVIOUS
<1> QED
  BY <1>1 DEF Record

\* The numbers of the records.
LEMMA ConsecutiveAppend ==
    ASSUME NEW q \in Seq(Record), NEW h \in {0, 1}, NEW r \in Nat, NEW s \in Nat,
           NEW a \in Record, Consecutive(q, h, r, s), a.seq = s
    PROVE  Consecutive(Append(q, a), h, r, s + 1)
<1>1. Len(q) \in Nat /\ Len(Append(q, a)) = Len(q) + 1
  BY AppendRecord
<1>2. ASSUME NEW i \in 1 .. Len(q) + 1 PROVE Append(q, a)[i].seq + h + 1 = r + i
  <2>1. CASE i = Len(q) + 1
    <3>1. Append(q, a)[i] = a
      BY <2>1, AppendRecord
    <3> QED
      BY <1>1, <2>1, <3>1 DEF Consecutive
  <2>2. CASE i # Len(q) + 1
    <3>1. i \in 1 .. Len(q) /\ Append(q, a)[i] = q[i]
      BY <1>1, <2>2, AppendRecord
    <3> QED
      BY <3>1 DEF Consecutive
  <2> QED
    BY <2>1, <2>2
<1> QED
  BY <1>1, <1>2 DEF Consecutive

\* Reading moves the receiver to the next number.
LEMMA ConsecutiveRead ==
    ASSUME NEW q \in Seq(Record), NEW r \in Nat, NEW s \in Nat,
           Len(q) >= 1, Consecutive(q, 0, r, s)
    PROVE  Consecutive(q, 1, r + 1, s) /\ q[1].seq = r
<1>1. \A i \in 1 .. Len(q) : q[i].seq \in Nat
  BY RecordsOf
<1> QED
  BY <1>1, LenProperties DEF Consecutive

\* A record that was read is let go of.
LEMMA ConsecutiveTail ==
    ASSUME NEW q \in Seq(Record), NEW r \in Nat, NEW s \in Nat, Consecutive(q, 1, r, s)
    PROVE  Consecutive(Tail(q), 0, r, s)
<1>1. \A i \in 1 .. Len(q) : q[i].seq \in Nat
  BY RecordsOf
<1>2. Len(q) >= 1 /\ Len(q) \in Nat
  BY LenProperties DEF Consecutive
<1>3. ASSUME NEW i \in 1 .. Len(Tail(q)) PROVE Tail(q)[i].seq + 0 + 1 = r + i
  <2>1. Tail(q)[i] = q[i + 1] /\ i + 1 \in 1 .. Len(q)
    BY <1>2, HeadTail
  <2>2. q[i + 1].seq + 1 + 1 = r + (i + 1) /\ q[i + 1].seq \in Nat
    BY <1>1, <2>1 DEF Consecutive
  <2>3. i \in Nat
    BY <1>2, HeadTail
  <2> QED
    BY <2>1, <2>2, <2>3
<1> QED
  BY <1>2, <1>3, HeadTail DEF Consecutive

-----------------------------------------------------------------------------
(***************************************************************************)
(* The actions, one by one.                                                *)
(***************************************************************************)

\* The inductive invariant includes the one of the type theorem.
LEMMA IndInvType == IndInv => TypeInv
<1> SUFFICES ASSUME IndInv PROVE \A p \in Party : held[p] <= Len(inbox[p])
  BY DEF IndInv, TypeInv
<1> QED
  BY DEF IndInv, Numbered, Consecutive, toServer, toClient, Party

\* The types of the parts.
LEMMA PartTypes ==
    ASSUME TypeOK
    PROVE  /\ toServer \in Seq(Record) /\ toClient \in Seq(Record)
           /\ hs["client"] \in Handshake /\ hs["server"] \in Handshake
           /\ cgroup \in Group /\ sgroup \in Group
           /\ codec["client"] \in Codec /\ codec["server"] \in Codec
           /\ held["client"] \in {0, 1} /\ held["server"] \in {0, 1}
           /\ \A p \in Party : /\ codec[p].send_seq \in Nat /\ codec[p].recv_seq \in Nat
                               /\ codec[p].send_key \in Key /\ codec[p].recv_key \in Key
<1>1. "client" \in Party /\ "server" \in Party
  BY DEF Party
<1>2. hs["client"] \in Handshake /\ hs["server"] \in Handshake
  BY <1>1 DEF TypeOK
<1>3. cgroup \in Group /\ sgroup \in Group
  BY <1>2 DEF cgroup, sgroup, Handshake
<1>4. \A p \in Party : codec[p] \in Codec
  BY DEF TypeOK
<1>5. \A p \in Party : /\ codec[p].send_seq \in Nat /\ codec[p].recv_seq \in Nat
                       /\ codec[p].send_key \in Key /\ codec[p].recv_key \in Key
  BY <1>4 DEF Codec
<1> QED
  BY <1>1, <1>2, <1>3, <1>4, <1>5 DEF TypeOK, toServer, toClient

\* A step that leaves the state machines and the keys alone leaves everything
\* but the channels alone.
LEMMA QuietStep ==
    ASSUME IndInv, hs' = hs, commits' = commits,
           \A p \in Party : /\ codec'[p].send_key = codec[p].send_key
                            /\ codec'[p].recv_key = codec[p].recv_key
    PROVE  Pending' /\ Sessions' /\ Keys' /\ Ages'
BY DEF IndInv, Pending, Sessions, Keys, Ages, cgroup, sgroup, clientWaits, serverWaits, Party

\* In a reachable state the next record decrypts.
LEMMA IndInvDecrypts == IndInv => RecordsDecrypt
<1> SUFFICES ASSUME IndInv, NEW p \in Party, held[p] = 0, inbox[p] # << >>
             PROVE  decrypt(codec[p], Head(inbox[p]))
  BY DEF RecordsDecrypt
<1>1. PICK m \in 0 .. Len(toServer), n \in 0 .. Len(toClient) : Phase(m, n)
  BY DEF IndInv
<1>2. TypeOK
  BY DEF IndInv
<1>3. ASSUME NEW q \in Seq(Record), q # << >>, NEW k \in Nat, NEW c \in Codec, NEW sk, NEW s \in Nat,
             KeysChangeAt(q, k, c.recv_key, sk), Consecutive(q, 0, c.recv_seq, s)
      PROVE  decrypt(c, Head(q))
  <2>1. Len(q) >= 1 /\ c.recv_seq \in Nat
    BY <1>3 DEF Codec
  <2>2. Head(q) = q[1] /\ q[1].seq = c.recv_seq
    BY <1>3, <2>1, HeadTail, ConsecutiveRead
  <2>3. q[1].key = c.recv_key
    BY <1>3, <2>1 DEF KeysChangeAt
  <2> QED
    BY <2>2, <2>3 DEF decrypt
<1>4. CASE p = "client"
  <2>1. /\ KeysChangeAt(toClient, n, codec["client"].recv_key, codec["server"].send_key)
        /\ Consecutive(toClient, 0, codec["client"].recv_seq, codec["server"].send_seq)
    BY <1>1, <1>4 DEF Phase, IndInv, Numbered
  <2>2. /\ toClient \in Seq(Record) /\ codec["client"] \in Codec
        /\ codec["server"].send_seq \in Nat /\ toClient # << >> /\ n \in Nat
    BY <1>2, <1>4, PartTypes DEF Party, toClient
  <2>3. decrypt(codec["client"], Head(toClient))
    BY <1>3, <2>1, <2>2
  <2> QED
    BY <1>4, <2>3 DEF toClient
<1>5. CASE p = "server"
  <2>1. /\ KeysChangeAt(toServer, m, codec["server"].recv_key, codec["client"].send_key)
        /\ Consecutive(toServer, 0, codec["server"].recv_seq, codec["client"].send_seq)
    BY <1>1, <1>5 DEF Phase, IndInv, Numbered
  <2>2. /\ toServer \in Seq(Record) /\ codec["server"] \in Codec
        /\ codec["client"].send_seq \in Nat /\ toServer # << >> /\ m \in Nat
    BY <1>2, <1>5, PartTypes DEF Party, toServer
  <2>3. decrypt(codec["server"], Head(toServer))
    BY <1>3, <2>1, <2>2
  <2> QED
    BY <1>5, <2>3 DEF toServer
<1> QED
  BY <1>4, <1>5 DEF Party


\* send_bytes without an update, by the client.
LEMMA ClientSends == ASSUME IndInv, SendBytes("client") PROVE IndInv'
<1> DEFINE e == encrypt(codec["client"], NextBytes("client"))
<1>1. TypeInv /\ TypeInv'
  BY IndInvType, TypeNext DEF Next, Party
<1>2. /\ hs' = hs /\ held' = held /\ commits' = commits /\ error' = error
      /\ inbox' = [inbox EXCEPT !["server"] = Append(@, e)]
      /\ codec' = [codec EXCEPT !["client"] = after_encrypt(@)]
  BY DEF SendBytes, Peer
<1>3. /\ e \in Record /\ e.seq = codec["client"].send_seq
      /\ e.key = codec["client"].send_key /\ e.payload.type = "Application"
  <2>1. NextBytes("client") \in InnerPlaintext /\ NextBytes("client").type = "Application"
    <3>1. sent["client"] + 1 \in Nat
      BY <1>1 DEF TypeInv, TypeOK, Party
    <3>2. NextBytes("client").type = "Application"
      BY DEF NextBytes, Application
    <3> QED
      BY <3>1, <3>2, MessageTypes DEF NextBytes
  <2>2. codec["client"] \in Codec
    BY <1>1, PartTypes DEF TypeInv
  <2> QED
    BY <2>1, <2>2, CodecType DEF encrypt, Party
<1> HIDE DEF e
<1>4. /\ toServer' = Append(toServer, e) /\ toClient' = toClient
      /\ codec'["client"] = after_encrypt(codec["client"])
      /\ codec'["server"] = codec["server"]
  BY <1>1, <1>2 DEF toServer, toClient, TypeInv, TypeOK, Party
<1>5. /\ codec'["client"].send_key = codec["client"].send_key
      /\ codec'["client"].recv_key = codec["client"].recv_key
      /\ codec'["client"].recv_seq = codec["client"].recv_seq
      /\ codec'["client"].send_seq = codec["client"].send_seq + 1
  BY <1>1, <1>4, PartTypes DEF TypeInv, after_encrypt, Codec
<1>6. Pending' /\ Sessions' /\ Keys' /\ Ages'
  BY <1>2, <1>4, <1>5, QuietStep DEF Party
<1>7. Numbered'
  BY <1>1, <1>2, <1>3, <1>4, <1>5, PartTypes, ConsecutiveAppend
     DEF IndInv, TypeInv, Numbered, Party
<1>8. PICK m \in 0 .. Len(toServer), n \in 0 .. Len(toClient) : Phase(m, n)
  BY DEF IndInv
<1>9. m \in 0 .. Len(toServer') /\ n \in 0 .. Len(toClient') /\ m \in Nat
  BY <1>1, <1>3, <1>4, PartTypes, AppendRecord DEF TypeInv
<1>10. OnlyAt(toServer', SignalingType, m)
  BY <1>1, <1>3, <1>4, <1>8, <1>9, PartTypes, OnlyAtAppendOther
     DEF TypeInv, Phase, SignalingType
<1>11. KeysChangeAt(toServer', m, codec'["server"].recv_key, codec'["client"].send_key)
  BY <1>1, <1>3, <1>4, <1>5, <1>8, PartTypes, KeysAppend DEF TypeInv, Phase
<1>12. m > 0 => toServer'[m] = toServer[m]
  BY <1>1, <1>3, <1>4, PartTypes, AppendRecord DEF TypeInv
<1>13. Phase(m, n)'
  <2>1. (Idle(m, n) \/ Ahead(m, n) \/ Answered(m, n))'
    BY <1>2, <1>4, <1>8, <1>12
       DEF Phase, Idle, Ahead, Answered, SameEpoch, UpdateUnderWay, ConfirmationUnderWay,
           cgroup, sgroup, clientWaits, serverWaits
  <2> QED
    BY <1>4, <1>5, <1>8, <1>10, <1>11, <2>1 DEF Phase
<1> QED
  BY <1>1, <1>2, <1>6, <1>7, <1>9, <1>13 DEF IndInv, TypeInv, NoError

\* send_bytes without an update, by the server.
LEMMA ServerSends == ASSUME IndInv, SendBytes("server") PROVE IndInv'
<1> DEFINE e == encrypt(codec["server"], NextBytes("server"))
<1>1. TypeInv /\ TypeInv'
  BY IndInvType, TypeNext DEF Next, Party
<1>2. /\ hs' = hs /\ held' = held /\ commits' = commits /\ error' = error
      /\ inbox' = [inbox EXCEPT !["client"] = Append(@, e)]
      /\ codec' = [codec EXCEPT !["server"] = after_encrypt(@)]
  BY DEF SendBytes, Peer
<1>3. /\ e \in Record /\ e.seq = codec["server"].send_seq
      /\ e.key = codec["server"].send_key /\ e.payload.type = "Application"
  <2>1. NextBytes("server") \in InnerPlaintext /\ NextBytes("server").type = "Application"
    BY <1>1, MessageTypes DEF TypeInv, TypeOK, NextBytes, Application, Party
  <2>2. codec["server"] \in Codec
    BY <1>1, PartTypes DEF TypeInv
  <2> QED
    BY <2>1, <2>2, CodecType DEF encrypt, Party
<1> HIDE DEF e
<1>4. /\ toClient' = Append(toClient, e) /\ toServer' = toServer
      /\ codec'["server"] = after_encrypt(codec["server"])
      /\ codec'["client"] = codec["client"]
  BY <1>1, <1>2 DEF toServer, toClient, TypeInv, TypeOK, Party
<1>5. /\ codec'["server"].send_key = codec["server"].send_key
      /\ codec'["server"].recv_key = codec["server"].recv_key
      /\ codec'["server"].recv_seq = codec["server"].recv_seq
      /\ codec'["server"].send_seq = codec["server"].send_seq + 1
  BY <1>1, <1>4, PartTypes DEF TypeInv, after_encrypt, Codec
<1>6. Pending' /\ Sessions' /\ Keys' /\ Ages'
  BY <1>2, <1>4, <1>5, QuietStep DEF Party
<1>7. Numbered'
  BY <1>1, <1>2, <1>3, <1>4, <1>5, PartTypes, ConsecutiveAppend
     DEF IndInv, TypeInv, Numbered, Party
<1>8. PICK m \in 0 .. Len(toServer), n \in 0 .. Len(toClient) : Phase(m, n)
  BY DEF IndInv
<1>9. m \in 0 .. Len(toServer') /\ n \in 0 .. Len(toClient') /\ n \in Nat
  BY <1>1, <1>3, <1>4, PartTypes, AppendRecord DEF TypeInv
<1>10. OnlyAt(toClient', {"EpochKeyUpdate", "ConnectionConfirmation"}, n)
  BY <1>1, <1>3, <1>4, <1>8, <1>9, PartTypes, OnlyAtAppendOther DEF TypeInv, Phase
<1>11. KeysChangeAt(toClient', n, codec'["client"].recv_key, codec'["server"].send_key)
  BY <1>1, <1>3, <1>4, <1>5, <1>8, PartTypes, KeysAppend DEF TypeInv, Phase
<1>12. n > 0 => toClient'[n] = toClient[n]
  BY <1>1, <1>3, <1>4, PartTypes, AppendRecord DEF TypeInv
<1>13. \A k \in Nat : Offer(toClient, k, sgroup.pending) => Offer(toClient', k, sgroup.pending)
  BY <1>1, <1>3, <1>4, PartTypes, OfferAppendOther DEF TypeInv
<1>14. Phase(m, n)'
  <2>1. (Idle(m, n) \/ Ahead(m, n) \/ Answered(m, n))'
    BY <1>2, <1>4, <1>8, <1>9, <1>12, <1>13
       DEF Phase, Idle, Ahead, Answered, SameEpoch, UpdateUnderWay, ConfirmationUnderWay,
           cgroup, sgroup, clientWaits, serverWaits
  <2> QED
    BY <1>4, <1>5, <1>8, <1>10, <1>11, <1>12, <2>1 DEF Phase
<1> QED
  BY <1>1, <1>2, <1>6, <1>7, <1>9, <1>14 DEF IndInv, TypeInv, NoError

\* read_message: the record decrypts, and the channels stay as they are.
LEMMA Reads == ASSUME IndInv, NEW p \in Party, ReadMessage(p) PROVE IndInv'
<1>1. TypeInv /\ TypeInv'
  BY IndInvType, TypeNext DEF Next
<1>2. decrypt(codec[p], Head(inbox[p]))
  BY IndInvDecrypts DEF RecordsDecrypt, ReadMessage
<1>3. /\ hs' = hs /\ commits' = commits /\ error' = error /\ inbox' = inbox
      /\ held' = [held EXCEPT ![p] = 1]
      /\ codec' = [codec EXCEPT ![p] = after_decrypt(@)]
      /\ held[p] = 0 /\ inbox[p] # << >>
  BY <1>2 DEF ReadMessage
<1>4. /\ codec'[p].send_key = codec[p].send_key /\ codec'[p].recv_key = codec[p].recv_key
      /\ codec'[p].send_seq = codec[p].send_seq
      /\ codec'[p].recv_seq = codec[p].recv_seq + 1
      /\ \A q \in Party : q # p => codec'[q] = codec[q] /\ held'[q] = held[q]
      /\ held'[p] = 1
  <2>1. codec[p] \in Codec /\ codec'[p] = after_decrypt(codec[p])
    BY <1>1, <1>3 DEF TypeInv, TypeOK
  <2>2. /\ \A q \in Party : q # p => codec'[q] = codec[q] /\ held'[q] = held[q]
        /\ held'[p] = 1
    BY <1>1, <1>3 DEF TypeInv, TypeOK
  <2> QED
    BY <2>1, <2>2 DEF after_decrypt, Codec
<1>5. Pending' /\ Sessions' /\ Keys' /\ Ages'
  BY <1>3, <1>4, QuietStep
<1>6. toServer' = toServer /\ toClient' = toClient /\ Len(inbox[p]) >= 1
  BY <1>1, <1>3 DEF toServer, toClient, TypeInv, TypeOK
<1>7. Numbered'
  <2>1. CASE p = "client"
    <3>1. Consecutive(toClient, 0, codec["client"].recv_seq, codec["server"].send_seq)
      BY <1>3, <2>1 DEF IndInv, Numbered
    <3>2. Consecutive(toClient, 1, codec["client"].recv_seq + 1, codec["server"].send_seq)
      BY <1>1, <1>6, <2>1, <3>1, PartTypes, ConsecutiveRead DEF TypeInv, toClient, Party
    <3> QED
      BY <1>4, <1>6, <2>1, <3>2 DEF IndInv, Numbered, Party
  <2>2. CASE p = "server"
    <3>1. Consecutive(toServer, 0, codec["server"].recv_seq, codec["client"].send_seq)
      BY <1>3, <2>2 DEF IndInv, Numbered
    <3>2. Consecutive(toServer, 1, codec["server"].recv_seq + 1, codec["client"].send_seq)
      BY <1>1, <1>6, <2>2, <3>1, PartTypes, ConsecutiveRead DEF TypeInv, toServer, Party
    <3> QED
      BY <1>4, <1>6, <2>2, <3>2 DEF IndInv, Numbered, Party
  <2> QED
    BY <2>1, <2>2 DEF Party
<1>8. PICK m \in 0 .. Len(toServer), n \in 0 .. Len(toClient) : Phase(m, n)
  BY DEF IndInv
<1>9. Phase(m, n)'
  <2>1. (Idle(m, n) \/ Ahead(m, n) \/ Answered(m, n))'
    BY <1>3, <1>6, <1>8
       DEF Phase, Idle, Ahead, Answered, SameEpoch, UpdateUnderWay, ConfirmationUnderWay,
           cgroup, sgroup, clientWaits, serverWaits
  <2>2. /\ codec'["server"].recv_key = codec["server"].recv_key
        /\ codec'["server"].send_key = codec["server"].send_key
        /\ codec'["client"].recv_key = codec["client"].recv_key
        /\ codec'["client"].send_key = codec["client"].send_key
    BY <1>4 DEF Party
  <2> QED
    BY <1>6, <1>8, <2>1, <2>2 DEF Phase
<1> QED
  BY <1>1, <1>3, <1>5, <1>6, <1>7, <1>8, <1>9 DEF IndInv, TypeInv, NoError

\* process_read_message on application bytes, by the client.
LEMMA ClientDelivers == ASSUME IndInv, ProcessApplication("client") PROVE IndInv'
<1>1. TypeInv /\ TypeInv'
  BY IndInvType, TypeNext DEF Next, Party
<1>2. /\ hs' = hs /\ commits' = commits /\ error' = error /\ codec' = codec
      /\ inbox' = [inbox EXCEPT !["client"] = Tail(@)]
      /\ held' = [held EXCEPT !["client"] = 0]
      /\ held["client"] = 1 /\ Head(toClient).payload.type = "Application"
  BY DEF ProcessApplication, toClient
<1>3. /\ toClient' = Tail(toClient) /\ toServer' = toServer
      /\ held'["client"] = 0 /\ held'["server"] = held["server"]
  BY <1>1, <1>2 DEF toServer, toClient, TypeInv, TypeOK, Party
<1>4. Len(toClient) >= 1 /\ toClient \in Seq(Record) /\ toServer \in Seq(Record)
  BY <1>1, <1>2, PartTypes DEF TypeInv, toClient, Party
<1>5. /\ toClient[1].payload.type = "Application"
      /\ Len(Tail(toClient)) = Len(toClient) - 1
      /\ \A i \in 1 .. Len(toClient) - 1 : Tail(toClient)[i] = toClient[i + 1]
  BY <1>2, <1>4, HeadTail
<1>6. Pending' /\ Sessions' /\ Keys' /\ Ages'
  BY <1>2, QuietStep
<1>7. Numbered'
  BY <1>1, <1>2, <1>3, <1>4, PartTypes, ConsecutiveTail DEF IndInv, TypeInv, Numbered, Party
<1>8. PICK m \in 0 .. Len(toServer), n \in 0 .. Len(toClient) : Phase(m, n)
  BY DEF IndInv
<1> DEFINE l == IF n = 0 THEN 0 ELSE n - 1
<1>9. n # 1 /\ n \in Nat /\ l \in 0 .. Len(toClient') /\ (l = 0 <=> n = 0)
  BY <1>3, <1>4, <1>5, <1>8 DEF Phase, OnlyAt
<1>10. OnlyAt(toClient', {"EpochKeyUpdate", "ConnectionConfirmation"}, l)
  BY <1>3, <1>4, <1>8, <1>9, OnlyAtTail DEF Phase
<1>11. KeysChangeAt(toClient', l, codec["client"].recv_key, codec["server"].send_key)
  BY <1>3, <1>4, <1>8, <1>9, KeysTail DEF Phase
<1>12. n > 0 => l > 0 /\ toClient'[l] = toClient[n]
  BY <1>3, <1>4, <1>5, <1>8, <1>9
<1>13. Offer(toClient, n, sgroup.pending) => Offer(toClient', l, sgroup.pending)
  BY <1>3, <1>4, <1>5, <1>9, OfferTail
<1> HIDE DEF l
<1>14. Phase(m, l)'
  <2>1. CASE Idle(m, n)
    <3>1. Idle(m, l)'
      BY <1>2, <1>3, <1>9, <1>13, <2>1
         DEF Idle, SameEpoch, cgroup, sgroup, clientWaits
    <3> QED
      BY <1>2, <1>3, <1>8, <1>9, <1>10, <1>11, <3>1 DEF Phase, Idle
  <2>2. CASE Ahead(m, n)
    <3>1. Ahead(m, l)'
      BY <1>2, <1>3, <1>9, <2>2
         DEF Ahead, UpdateUnderWay, ConfirmationUnderWay, cgroup, sgroup, clientWaits, serverWaits
    <3> QED
      BY <1>2, <1>3, <1>8, <1>9, <1>10, <1>11, <3>1 DEF Phase, Ahead
  <2>3. CASE Answered(m, n)
    <3>1. Answered(m, l)'
      BY <1>2, <1>3, <1>9, <1>12, <1>13, <2>3
         DEF Answered, SameEpoch, cgroup, sgroup, clientWaits
    <3> QED
      BY <1>2, <1>3, <1>8, <1>9, <1>10, <1>11, <1>12, <3>1 DEF Phase, Answered
  <2> QED
    BY <1>8, <2>1, <2>2, <2>3 DEF Phase
<1> QED
  BY <1>1, <1>2, <1>3, <1>6, <1>7, <1>8, <1>9, <1>14 DEF IndInv, TypeInv, NoError

\* process_read_message on application bytes, by the server.
LEMMA ServerDelivers == ASSUME IndInv, ProcessApplication("server") PROVE IndInv'
<1>1. TypeInv /\ TypeInv'
  BY IndInvType, TypeNext DEF Next, Party
<1>2. /\ hs' = hs /\ commits' = commits /\ error' = error /\ codec' = codec
      /\ inbox' = [inbox EXCEPT !["server"] = Tail(@)]
      /\ held' = [held EXCEPT !["server"] = 0]
      /\ held["server"] = 1 /\ Head(toServer).payload.type = "Application"
  BY DEF ProcessApplication, toServer
<1>3. /\ toServer' = Tail(toServer) /\ toClient' = toClient
      /\ held'["server"] = 0 /\ held'["client"] = held["client"]
  BY <1>1, <1>2 DEF toServer, toClient, TypeInv, TypeOK, Party
<1>4. Len(toServer) >= 1 /\ toClient \in Seq(Record) /\ toServer \in Seq(Record)
  BY <1>1, <1>2, PartTypes DEF TypeInv, toServer, Party
<1>5. /\ toServer[1].payload.type = "Application"
      /\ Len(Tail(toServer)) = Len(toServer) - 1
      /\ \A i \in 1 .. Len(toServer) - 1 : Tail(toServer)[i] = toServer[i + 1]
  BY <1>2, <1>4, HeadTail
<1>6. Pending' /\ Sessions' /\ Keys' /\ Ages'
  BY <1>2, QuietStep
<1>7. Numbered'
  BY <1>1, <1>2, <1>3, <1>4, PartTypes, ConsecutiveTail DEF IndInv, TypeInv, Numbered, Party
<1>8. PICK m \in 0 .. Len(toServer), n \in 0 .. Len(toClient) : Phase(m, n)
  BY DEF IndInv
<1> DEFINE l == IF m = 0 THEN 0 ELSE m - 1
<1>9. m # 1 /\ m \in Nat /\ l \in 0 .. Len(toServer') /\ (l = 0 <=> m = 0)
  BY <1>3, <1>4, <1>5, <1>8 DEF Phase, OnlyAt, SignalingType
<1>10. OnlyAt(toServer', SignalingType, l)
  BY <1>3, <1>4, <1>8, <1>9, OnlyAtTail DEF Phase
<1>11. KeysChangeAt(toServer', l, codec["server"].recv_key, codec["client"].send_key)
  BY <1>3, <1>4, <1>8, <1>9, KeysTail DEF Phase
<1>12. m > 0 => l > 0 /\ toServer'[l] = toServer[m]
  BY <1>3, <1>4, <1>5, <1>8, <1>9
<1> HIDE DEF l
<1>13. Phase(l, n)'
  <2>1. (Idle(l, n) \/ Ahead(l, n) \/ Answered(l, n))'
    BY <1>2, <1>3, <1>8, <1>9, <1>12
       DEF Phase, Idle, Ahead, Answered, SameEpoch, UpdateUnderWay, ConfirmationUnderWay,
           cgroup, sgroup, clientWaits, serverWaits
  <2> QED
    BY <1>2, <1>3, <1>8, <1>10, <1>11, <2>1 DEF Phase
<1> QED
  BY <1>1, <1>2, <1>3, <1>6, <1>7, <1>8, <1>9, <1>13 DEF IndInv, TypeInv, NoError

\* What each kind of update does to the codec of each party.
LEMMA SecretChange ==
    ASSUME NEW c \in Codec, NEW s \in Nat
    PROVE  /\ update_traffic_secrets(c, "client", ClientSecret(s)) =
                [c EXCEPT !.send_key = expand_secret(s, "client")]
           /\ update_traffic_secrets(c, "client", ServerSecret(s)) =
                [c EXCEPT !.recv_key = expand_secret(s, "server")]
           /\ update_traffic_secrets(c, "server", Both(s)) =
                [c EXCEPT !.send_key = expand_secret(s, "server"),
                          !.recv_key = expand_secret(s, "client")]
           /\ \A p \in Party : update_traffic_secrets(c, p, NoSecretUpdate) = c
<1>1. own_kind("client") = "ClientSecret" /\ own_kind("server") = "ServerSecret"
      /\ Peer("client") = "server" /\ Peer("server") = "client"
  BY DEF own_kind, Peer
<1>2. update_traffic_secrets(c, "client", ClientSecret(s)) =
        [c EXCEPT !.send_key = expand_secret(s, "client")]
  BY <1>1 DEF update_traffic_secrets, ClientSecret, Codec
<1>3. update_traffic_secrets(c, "client", ServerSecret(s)) =
        [c EXCEPT !.recv_key = expand_secret(s, "server")]
  BY <1>1 DEF update_traffic_secrets, ServerSecret, Codec
<1>4. update_traffic_secrets(c, "server", Both(s)) =
        [c EXCEPT !.send_key = expand_secret(s, "server"),
                  !.recv_key = expand_secret(s, "client")]
  BY <1>1 DEF update_traffic_secrets, Both, Codec
<1>5. ASSUME NEW p \in Party PROVE update_traffic_secrets(c, p, NoSecretUpdate) = c
  BY <1>1 DEF update_traffic_secrets, NoSecretUpdate, Codec, Party
<1> QED
  BY <1>2, <1>3, <1>4, <1>5

\* Application bytes are plaintexts.
LEMMA NextBytesType ==
    ASSUME TypeOK, NEW p \in Party
    PROVE  NextBytes(p) \in InnerPlaintext /\ NextBytes(p).type = "Application"
BY MessageTypes DEF TypeOK, NextBytes, Application

\* send_bytes with an update, by the client: it goes ahead of the server.
LEMMA ClientUpdates ==
    ASSUME ClientRequests \subseteq {FALSE}, IndInv, SendBytesUpdate("client")
    PROVE  IndInv'
<1>1. TypeInv /\ TypeInv'
  BY IndInvType, TypeNext DEF Next, Party
<1>a. commits \in Nat /\ cgroup \in Group
  BY <1>1, PartTypes DEF TypeInv, TypeOK
<1>b. PICK fresh \in Nat : fresh = commits + 1
  BY <1>a
<1>c. PICK commit \in Commit : commit = CommitOn(cgroup, fresh)
  BY <1>a, <1>b, CommitOnFacts
<1> DEFINE r == client_update(hs["client"], FALSE, fresh)
           used == after_encrypt(codec["client"])
           updated == [used EXCEPT !.send_key = expand_secret(fresh, "client")]
           first == encrypt(codec["client"], ConnectionUpdate(commit, FALSE))
           second == encrypt(updated, NextBytes("client"))
<1>2. /\ r.error # "WaitingForResponse"
      /\ hs' = [hs EXCEPT !["client"] = r.state]
      /\ commits' = commits + r.made
      /\ held' = held
      /\ r.error = "ok" =>
           LET u == update_traffic_secrets(used, "client", r.secret_update)
           IN  /\ inbox' = [inbox EXCEPT !["server"] =
                              Append(Append(@, encrypt(codec["client"], r.message)),
                                     encrypt(u, NextBytes("client")))]
               /\ codec' = [codec EXCEPT !["client"] = after_encrypt(u)]
               /\ error' = error
  <2>1. \A requested \in Requests("client") : requested = FALSE
    BY DEF Requests
  <2> QED
    BY <1>b, <2>1 DEF SendBytesUpdate, update_handshake, Peer
<1>3. ~clientWaits
  BY <1>2 DEF client_update, clientWaits, Failed
<1>4. fresh > 0
  BY <1>a, <1>b
<1>5. r = Done([epoch |-> cgroup.epoch + 1,
                internal_state |-> Waiting("WaitingForEpochKeyUpdate", commit, fresh),
                group |-> After(commit)],
               1, ConnectionUpdate(commit, FALSE), ClientSecret(fresh))
  <2>1. hs["client"] \in Handshake /\ cgroup.pending = NoCommit
    BY <1>1, PartTypes DEF TypeInv, IndInv, Pending
  <2> QED
    BY <1>3, <1>4, <1>c, <2>1, ClientMerges DEF client_update, clientWaits, cgroup
<1> HIDE DEF r
<1>6. /\ commit \in Commit /\ commit # NoCommit /\ commit.epoch = cgroup.epoch
      /\ commit.base = cgroup.secret /\ commit.id = fresh
      /\ After(commit) \in Group
  BY <1>4, <1>a, <1>c, CommitOnFacts
<1>7. /\ codec["client"] \in Codec /\ used \in Codec
      /\ used.send_key = codec["client"].send_key /\ used.recv_key = codec["client"].recv_key
      /\ used.recv_seq = codec["client"].recv_seq
      /\ used.send_seq = codec["client"].send_seq + 1
  <2>1. codec["client"] \in Codec
    BY <1>1, PartTypes DEF TypeInv
  <2> QED
    BY <2>1, CodecType DEF after_encrypt, Codec, Party
<1>8. update_traffic_secrets(used, "client", r.secret_update) = updated
  BY <1>4, <1>5, <1>7, SecretChange DEF Done
<1> HIDE DEF used
<1>9. /\ updated \in Codec
      /\ updated.send_key = expand_secret(fresh, "client")
      /\ updated.recv_key = codec["client"].recv_key
      /\ updated.recv_seq = codec["client"].recv_seq
      /\ updated.send_seq = codec["client"].send_seq + 1
  BY <1>4, <1>7 DEF Codec, Key, expand_secret, Party
<1> HIDE DEF updated
<1>10. /\ hs'["client"].epoch = cgroup.epoch + 1
       /\ hs'["client"].internal_state.tag = "WaitingForEpochKeyUpdate"
       /\ hs'["client"].internal_state.secrets = fresh
       /\ cgroup' = After(commit)
       /\ hs'["server"] = hs["server"] /\ sgroup' = sgroup
       /\ commits' = fresh /\ error' = error /\ held' = held
       /\ inbox' = [inbox EXCEPT !["server"] = Append(Append(@, first), second)]
       /\ codec' = [codec EXCEPT !["client"] = after_encrypt(updated)]
  <2>1. /\ r.error = "ok" /\ r.made = 1 /\ r.message = ConnectionUpdate(commit, FALSE)
        /\ r.state.epoch = cgroup.epoch + 1
        /\ r.state.internal_state = Waiting("WaitingForEpochKeyUpdate", commit, fresh)
        /\ r.state.group = After(commit)
    BY <1>5 DEF Done
  <2>2. hs'["client"] = r.state /\ hs'["server"] = hs["server"]
    BY <1>1, <1>2 DEF TypeInv, TypeOK, Party
  <2>3. /\ commits' = fresh /\ error' = error /\ held' = held
        /\ inbox' = [inbox EXCEPT !["server"] = Append(Append(@, first), second)]
        /\ codec' = [codec EXCEPT !["client"] = after_encrypt(updated)]
    BY <1>2, <1>8, <1>b, <2>1
  <2> QED
    BY <2>1, <2>2, <2>3 DEF Waiting, cgroup, sgroup
<1>11. /\ toServer' = Append(Append(toServer, first), second) /\ toClient' = toClient
       /\ codec'["client"] = after_encrypt(updated) /\ codec'["server"] = codec["server"]
  BY <1>1, <1>10 DEF toServer, toClient, TypeInv, TypeOK, Party
<1>12. /\ codec'["client"].send_key = expand_secret(fresh, "client")
       /\ codec'["client"].recv_key = codec["client"].recv_key
       /\ codec'["client"].recv_seq = codec["client"].recv_seq
       /\ codec'["client"].send_seq = codec["client"].send_seq + 1 + 1
  BY <1>9, <1>11 DEF after_encrypt, Codec
<1>13. /\ first \in Record /\ second \in Record
       /\ first.key = codec["client"].send_key /\ first.seq = codec["client"].send_seq
       /\ first.payload = ConnectionUpdate(commit, FALSE)
       /\ second.key = expand_secret(fresh, "client")
       /\ second.seq = codec["client"].send_seq + 1
       /\ second.payload.type = "Application"
  <2>1. NextBytes("client") \in InnerPlaintext /\ NextBytes("client").type = "Application"
    BY <1>1, NextBytesType DEF TypeInv, Party
  <2>2. ConnectionUpdate(commit, FALSE) \in InnerPlaintext
    BY <1>6, MessageTypes
  <2>3. first \in Record /\ second \in Record
    BY <1>7, <1>9, <2>1, <2>2, CodecType DEF Party
  <2> QED
    BY <1>9, <2>1, <2>3 DEF encrypt
<1> HIDE DEF first, second
<1>14. /\ toServer \in Seq(Record) /\ toClient \in Seq(Record) /\ Len(toServer) \in Nat
       /\ Append(toServer, first) \in Seq(Record)
       /\ Len(Append(toServer, first)) = Len(toServer) + 1
       /\ Append(toServer, first)[Len(toServer) + 1] = first
       /\ Len(toServer') = Len(toServer) + 2
       /\ toServer'[Len(toServer) + 1] = first
  <2>1. toServer \in Seq(Record) /\ toClient \in Seq(Record)
    BY <1>1, PartTypes DEF TypeInv
  <2>2. /\ Append(toServer, first) \in Seq(Record) /\ Len(toServer) \in Nat
        /\ Len(Append(toServer, first)) = Len(toServer) + 1
        /\ Append(toServer, first)[Len(toServer) + 1] = first
    BY <1>13, <2>1, AppendRecord
  <2>3. /\ Len(toServer') = Len(toServer) + 2
        /\ toServer'[Len(toServer) + 1] = Append(toServer, first)[Len(toServer) + 1]
    BY <1>11, <1>13, <2>2, AppendRecord
  <2> QED
    BY <2>1, <2>2, <2>3
<1>15. PICK m \in 0 .. Len(toServer), n \in 0 .. Len(toClient) : Phase(m, n)
  BY DEF IndInv
<1>16. /\ m = 0 /\ n = 0 /\ SameEpoch
  BY <1>3, <1>15 DEF Phase, Idle, Ahead, Answered
<1>d. PICK l \in Nat : l = Len(toServer) + 1
  BY <1>14
<1>17. OnlyAt(toServer', SignalingType, l)
  <2>1. OnlyAt(Append(toServer, first), SignalingType, l)
    <3>1. first.payload.type \in SignalingType
      BY <1>13 DEF ConnectionUpdate, SignalingType
    <3>2. OnlyAt(toServer, SignalingType, 0)
      BY <1>15, <1>16 DEF Phase
    <3> QED
      BY <1>13, <1>14, <1>d, <3>1, <3>2, OnlyAtAppendSwitch
  <2>2. second.payload.type \notin SignalingType
    BY <1>13 DEF SignalingType
  <2> QED
    BY <1>11, <1>13, <1>14, <2>1, <2>2, OnlyAtAppendOther
<1>18. KeysChangeAt(toServer', l, codec'["server"].recv_key, codec'["client"].send_key)
  <2>1. KeysChangeAt(Append(toServer, first), l, codec["server"].recv_key,
                     expand_secret(fresh, "client"))
    BY <1>13, <1>14, <1>15, <1>16, <1>d, KeysAppendSwitch DEF Phase
  <2>2. l \in 0 .. Len(Append(toServer, first))
    BY <1>14, <1>d
  <2> QED
    BY <1>11, <1>12, <1>13, <1>14, <2>1, <2>2, KeysAppend
<1>19. Ahead(l, 0)'
  <2>1. clientWaits'
    BY <1>10 DEF clientWaits, client_is_waiting
  <2>2. toServer'[l].payload = ConnectionUpdate(commit, FALSE) /\ l > 0
    <3>1. toServer'[l] = first
      BY <1>14, <1>d, Zenon
    <3>2. first.payload = ConnectionUpdate(commit, FALSE)
      BY <1>13, Zenon
    <3>3. l > 0
      BY <1>14, <1>d
    <3> QED
      BY <3>1, <3>2, <3>3, Zenon
  <2>3. UpdateUnderWay(toServer[l].payload)'
    BY <1>6, <1>10, <1>16, <2>2
       DEF UpdateUnderWay, SameEpoch, ConnectionUpdate, After
  <2> QED
    BY <2>1, <2>2, <2>3 DEF Ahead
<1>20. Phase(l, 0)'
  BY <1>11, <1>12, <1>15, <1>16, <1>17, <1>18, <1>19 DEF Phase
<1>21. l \in 0 .. Len(toServer') /\ 0 \in 0 .. Len(toClient')
  BY <1>11, <1>14, <1>d
<1>22. Numbered'
  <2>1. Consecutive(toServer, held["server"], codec["server"].recv_seq, codec["client"].send_seq)
    BY DEF IndInv, Numbered
  <2>2. /\ held["server"] \in {0, 1} /\ codec["server"].recv_seq \in Nat
        /\ codec["client"].send_seq \in Nat
    BY <1>1, PartTypes DEF TypeInv, Party
  <2>3. Consecutive(Append(toServer, first), held["server"], codec["server"].recv_seq,
                    codec["client"].send_seq + 1)
    BY <1>13, <1>14, <2>1, <2>2, ConsecutiveAppend
  <2>4. Consecutive(toServer', held["server"], codec["server"].recv_seq,
                    codec["client"].send_seq + 1 + 1)
    <3>1. codec["client"].send_seq + 1 \in Nat
      BY <2>2
    <3> QED
      BY <1>11, <1>13, <1>14, <2>2, <2>3, <3>1, ConsecutiveAppend
  <2> QED
    BY <1>10, <1>11, <1>12, <2>4 DEF IndInv, Numbered
<1>23. Pending' /\ Sessions' /\ Keys' /\ Ages'
  <2>1. Pending'
    BY <1>10 DEF IndInv, Pending, After, serverWaits
  <2>2. Sessions'
    BY <1>6, <1>10 DEF IndInv, Sessions, After, Party, cgroup, sgroup, clientWaits, serverWaits,
                       client_is_waiting
  <2>3. Keys'
    BY <1>6, <1>10, <1>11, <1>12 DEF IndInv, Keys, After
  <2>4. Ages'
    <3>1. /\ cgroup.secret \in Nat /\ sgroup.secret \in Nat /\ sgroup.pending.id \in Nat
      BY <1>1, PartTypes DEF TypeInv, Group, Commit
    <3>2. cgroup'.secret = fresh /\ serverWaits' = serverWaits
      BY <1>6, <1>10 DEF After, serverWaits
    <3>3. Ages
      BY DEF IndInv
    <3>4. /\ codec'["client"].recv_key = codec["client"].recv_key
          /\ sgroup' = sgroup /\ commits' = fresh
      BY <1>10, <1>12, <1>b
    <3> QED
      BY <1>a, <1>b, <3>1, <3>2, <3>3, <3>4 DEF Ages
  <2> QED
    BY <2>1, <2>2, <2>3, <2>4
<1> QED
  BY <1>1, <1>10, <1>20, <1>21, <1>22, <1>23 DEF IndInv, TypeInv, NoError

\* send_bytes with an update, by the server: it offers a commit and waits.
LEMMA ServerUpdates == ASSUME IndInv, SendBytesUpdate("server") PROVE IndInv'
<1>1. TypeInv /\ TypeInv'
  BY IndInvType, TypeNext DEF Next, Party
<1>a. commits \in Nat /\ sgroup \in Group /\ hs["server"] \in Handshake
  BY <1>1, PartTypes DEF TypeInv, TypeOK
<1>b. PICK fresh \in Nat : fresh = commits + 1
  BY <1>a
<1>c. PICK commit \in Commit : commit = CommitOn(sgroup, fresh)
  <2>1. fresh > 0
    BY <1>a, <1>b
  <2> QED
    BY <1>a, <2>1, CommitOnFacts
<1> DEFINE used == after_encrypt(codec["server"])
<1>2. PICK requested \in BOOLEAN :
        LET r == server_update(hs["server"], requested, fresh)
        IN  /\ r.error # "WaitingForResponse"
            /\ hs' = [hs EXCEPT !["server"] = r.state]
            /\ commits' = commits + r.made
            /\ held' = held
            /\ r.error = "ok" =>
                 LET u == update_traffic_secrets(used, "server", r.secret_update)
                 IN  /\ inbox' = [inbox EXCEPT !["client"] =
                                    Append(Append(@, encrypt(codec["server"], r.message)),
                                           encrypt(u, NextBytes("server")))]
                     /\ codec' = [codec EXCEPT !["server"] = after_encrypt(u)]
                     /\ error' = error
  <2>1. \A requested \in Requests("server") : requested \in BOOLEAN
    BY RequestsAssumption DEF Requests
  <2> QED
    BY <1>b, <2>1 DEF SendBytesUpdate, update_handshake, Peer
<1> DEFINE r == server_update(hs["server"], requested, fresh)
           first == encrypt(codec["server"], ConnectionUpdate(commit, requested))
           second == encrypt(used, NextBytes("server"))
<1>3. ~serverWaits
  BY <1>2 DEF server_update, serverWaits, Failed
<1>4. fresh > 0 /\ sgroup.pending = NoCommit
  BY <1>3, <1>a, <1>b DEF IndInv, Pending
<1>5. r = Done([hs["server"] EXCEPT !.internal_state = WaitingForUpdate,
                                    !.group = [sgroup EXCEPT !.pending = commit]],
               1, ConnectionUpdate(commit, requested), NoSecretUpdate)
  BY <1>3, <1>4, <1>a, <1>c, ServerWaits DEF serverWaits, sgroup
<1>6. /\ commit \in Commit /\ commit # NoCommit /\ commit.epoch = sgroup.epoch
      /\ commit.base = sgroup.secret /\ commit.id = fresh
  BY <1>4, <1>a, <1>c, CommitOnFacts
<1>7. /\ codec["server"] \in Codec /\ used \in Codec
      /\ used.send_key = codec["server"].send_key /\ used.recv_key = codec["server"].recv_key
      /\ used.recv_seq = codec["server"].recv_seq
      /\ used.send_seq = codec["server"].send_seq + 1
  <2>1. codec["server"] \in Codec
    BY <1>1, PartTypes DEF TypeInv
  <2> QED
    BY <2>1, CodecType DEF after_encrypt, Codec, Party
<1>8. /\ r.error = "ok" /\ r.made = 1 /\ r.message = ConnectionUpdate(commit, requested)
      /\ r.state = [hs["server"] EXCEPT !.internal_state = WaitingForUpdate,
                                        !.group = [sgroup EXCEPT !.pending = commit]]
      /\ update_traffic_secrets(used, "server", r.secret_update) = used
  <2>1. update_traffic_secrets(used, "server", NoSecretUpdate) = used
    BY <1>7, SecretChange DEF Party
  <2> HIDE DEF used, r
  <2> QED
    BY <1>5, <2>1 DEF Done
<1>9. /\ hs' = [hs EXCEPT !["server"] = r.state]
      /\ commits' = fresh /\ error' = error /\ held' = held
      /\ inbox' = [inbox EXCEPT !["client"] = Append(Append(@, first), second)]
      /\ codec' = [codec EXCEPT !["server"] = after_encrypt(used)]
  <2> HIDE DEF used
  <2> QED
    BY <1>2, <1>8, <1>b
<1> HIDE DEF r, used
<1>10. /\ hs'["server"].epoch = hs["server"].epoch
       /\ hs'["server"].internal_state = WaitingForUpdate
       /\ sgroup' = [sgroup EXCEPT !.pending = commit]
       /\ hs'["client"] = hs["client"] /\ cgroup' = cgroup
       /\ serverWaits' /\ clientWaits' = clientWaits
  <2>1. hs'["server"] = r.state /\ hs'["client"] = hs["client"]
    BY <1>1, <1>9 DEF TypeInv, TypeOK, Party
  <2>2. /\ r.state.epoch = hs["server"].epoch
        /\ r.state.internal_state = WaitingForUpdate
        /\ r.state.group = [sgroup EXCEPT !.pending = commit]
    BY <1>8, <1>a DEF Handshake
  <2>3. /\ hs'["server"].epoch = hs["server"].epoch
        /\ hs'["server"].internal_state = WaitingForUpdate
        /\ hs'["server"].group = [sgroup EXCEPT !.pending = commit]
    BY <2>1, <2>2
  <2> QED
    BY <2>1, <2>3 DEF WaitingForUpdate, cgroup, sgroup, serverWaits, clientWaits, server_is_waiting
<1>e. sgroup'.epoch = sgroup.epoch /\ sgroup'.secret = sgroup.secret /\ sgroup'.pending = commit
  BY <1>10, <1>a DEF Group
<1>11. /\ toClient' = Append(Append(toClient, first), second) /\ toServer' = toServer
       /\ codec'["server"] = after_encrypt(used) /\ codec'["client"] = codec["client"]
  BY <1>1, <1>9 DEF toServer, toClient, TypeInv, TypeOK, Party
<1>12. /\ codec'["server"].send_key = codec["server"].send_key
       /\ codec'["server"].recv_key = codec["server"].recv_key
       /\ codec'["server"].recv_seq = codec["server"].recv_seq
       /\ codec'["server"].send_seq = codec["server"].send_seq + 1 + 1
  BY <1>7, <1>11 DEF after_encrypt, Codec
<1>13. /\ first \in Record /\ second \in Record
       /\ first.key = codec["server"].send_key /\ first.seq = codec["server"].send_seq
       /\ first.payload = ConnectionUpdate(commit, requested)
       /\ second.key = codec["server"].send_key
       /\ second.seq = codec["server"].send_seq + 1
       /\ second.payload.type = "Application"
  <2>1. NextBytes("server") \in InnerPlaintext /\ NextBytes("server").type = "Application"
    BY <1>1, NextBytesType DEF TypeInv, Party
  <2>2. ConnectionUpdate(commit, requested) \in InnerPlaintext
    BY <1>6, MessageTypes
  <2>3. first \in Record /\ second \in Record
    BY <1>7, <2>1, <2>2, CodecType DEF Party
  <2> QED
    BY <1>7, <2>1, <2>3 DEF encrypt
<1>f. first.payload.type = "ConnectionUpdate" /\ first.payload.mls_commit = commit
  BY <1>13 DEF ConnectionUpdate
<1> HIDE DEF first, second
<1>14. /\ toServer \in Seq(Record) /\ toClient \in Seq(Record) /\ Len(toClient) \in Nat
       /\ Append(toClient, first) \in Seq(Record)
       /\ Len(Append(toClient, first)) = Len(toClient) + 1
       /\ Len(toClient') = Len(toClient) + 2
       /\ \A i \in 1 .. Len(toClient) : toClient'[i] = toClient[i]
  <2>1. toServer \in Seq(Record) /\ toClient \in Seq(Record)
    BY <1>1, PartTypes DEF TypeInv
  <2>2. /\ Append(toClient, first) \in Seq(Record) /\ Len(toClient) \in Nat
        /\ Len(Append(toClient, first)) = Len(toClient) + 1
        /\ \A i \in 1 .. Len(toClient) : Append(toClient, first)[i] = toClient[i]
    BY <1>13, <2>1, AppendRecord
  <2>3. /\ Len(toClient') = Len(toClient) + 2
        /\ \A i \in 1 .. Len(toClient) : toClient'[i] = Append(toClient, first)[i]
    BY <1>11, <1>13, <2>2, AppendRecord
  <2> QED
    BY <2>1, <2>2, <2>3
<1>15. PICK m \in 0 .. Len(toServer), n \in 0 .. Len(toClient) : Phase(m, n)
  BY DEF IndInv
<1>16. n \in Nat /\ m \in 0 .. Len(toServer') /\ n \in 0 .. Len(toClient')
       /\ n \in 0 .. Len(Append(toClient, first))
  BY <1>11, <1>14, <1>15
<1>17. OnlyAt(toClient', {"EpochKeyUpdate", "ConnectionConfirmation"}, n)
  <2>1. OnlyAt(Append(toClient, first), {"EpochKeyUpdate", "ConnectionConfirmation"}, n)
    BY <1>13, <1>14, <1>15, <1>16, <1>f, OnlyAtAppendOther DEF Phase
  <2> QED
    BY <1>11, <1>13, <1>14, <1>16, <2>1, OnlyAtAppendOther
<1>18. KeysChangeAt(toClient', n, codec'["client"].recv_key, codec'["server"].send_key)
  <2>1. KeysChangeAt(Append(toClient, first), n, codec["client"].recv_key,
                     codec["server"].send_key)
    BY <1>13, <1>14, <1>15, KeysAppend DEF Phase
  <2> QED
    BY <1>11, <1>12, <1>13, <1>14, <1>16, <2>1, KeysAppend
<1>19. n > 0 => toClient'[n] = toClient[n]
  BY <1>14, <1>15
<1>20. Offer(toClient, n, NoCommit) => Offer(toClient', n, commit)
  <2>1. SUFFICES ASSUME Offer(toClient, n, NoCommit) PROVE Offer(toClient', n, commit)
    OBVIOUS
  <2>2. Offer(Append(toClient, first), n, commit)
    BY <1>6, <1>13, <1>14, <1>15, <1>f, <2>1, OfferAppend
  <2> QED
    BY <1>11, <1>13, <1>14, <1>16, <2>2, OfferAppendOther
<1>21. Phase(m, n)'
  <2>1. CASE Idle(m, n)
    <3>1. Idle(m, n)'
      BY <1>4, <1>10, <1>20, <1>e, <2>1 DEF Idle, SameEpoch
    <3> QED
      BY <1>11, <1>12, <1>15, <1>17, <1>18, <1>19, <3>1 DEF Phase
  <2>2. CASE Ahead(m, n)
    <3>1. UpdateUnderWay(toServer[m].payload)
      BY <1>3, <2>2 DEF Ahead, ConfirmationUnderWay
    <3>2. UpdateUnderWay(toServer[m].payload)'
      BY <1>3, <1>10, <1>11, <1>e, <3>1 DEF UpdateUnderWay
    <3>3. Ahead(m, n)'
      BY <1>10, <1>11, <2>2, <3>2 DEF Ahead
    <3> QED
      BY <1>11, <1>12, <1>15, <1>17, <1>18, <1>19, <3>3 DEF Phase
  <2>3. CASE Answered(m, n)
    <3>1. Answered(m, n)'
      BY <1>4, <1>10, <1>19, <1>20, <1>e, <2>3 DEF Answered, SameEpoch
    <3> QED
      BY <1>11, <1>12, <1>15, <1>17, <1>18, <1>19, <3>1 DEF Phase
  <2> QED
    BY <1>15, <2>1, <2>2, <2>3 DEF Phase
<1>22. Numbered'
  <2>1. Consecutive(toClient, held["client"], codec["client"].recv_seq, codec["server"].send_seq)
    BY DEF IndInv, Numbered
  <2>2. /\ held["client"] \in {0, 1} /\ codec["client"].recv_seq \in Nat
        /\ codec["server"].send_seq \in Nat
    BY <1>1, PartTypes DEF TypeInv, Party
  <2>3. Consecutive(Append(toClient, first), held["client"], codec["client"].recv_seq,
                    codec["server"].send_seq + 1)
    BY <1>13, <1>14, <2>1, <2>2, ConsecutiveAppend
  <2>4. Consecutive(toClient', held["client"], codec["client"].recv_seq,
                    codec["server"].send_seq + 1 + 1)
    <3>1. codec["server"].send_seq + 1 \in Nat
      BY <2>2
    <3> QED
      BY <1>11, <1>13, <1>14, <2>2, <2>3, <3>1, ConsecutiveAppend
  <2> QED
    BY <1>9, <1>11, <1>12, <2>4 DEF IndInv, Numbered
<1>23. Pending' /\ Sessions' /\ Keys' /\ Ages'
  <2>1. Pending'
    BY <1>6, <1>10, <1>e DEF IndInv, Pending
  <2>2. Sessions'
    <3>1. hs'["server"].group.epoch = hs["server"].group.epoch
      BY <1>e DEF sgroup
    <3> QED
      BY <1>10, <3>1 DEF IndInv, Sessions, Party, cgroup
  <2>3. Keys'
    BY <1>10, <1>11, <1>12, <1>e DEF IndInv, Keys
  <2>4. Ages'
    <3>1. /\ cgroup.secret \in Nat /\ sgroup.secret \in Nat
      BY <1>1, PartTypes DEF TypeInv, Group
    <3> QED
      BY <1>6, <1>9, <1>10, <1>11, <1>a, <1>b, <1>e, <3>1 DEF IndInv, Ages
  <2> QED
    BY <2>1, <2>2, <2>3, <2>4
<1> QED
  BY <1>1, <1>9, <1>16, <1>21, <1>22, <1>23 DEF IndInv, TypeInv, NoError

\* What process_read_message on a signaling message does, given the result of
\* the state machine.
LEMMA Processes ==
    ASSUME IndInv, NEW p \in Party, ProcessSignaling(p)
    PROVE  LET q == inbox[p]
               r == process_signaling_message(p, q[1].payload)
               used == IF r.message # NoMessage THEN after_encrypt(codec[p]) ELSE codec[p]
           IN  /\ q \in Seq(Record) /\ Len(q) >= 1
               /\ q[1].payload \in InnerPlaintext /\ q[1].payload.type \in SignalingType
               /\ held[p] = 1 /\ held'[p] = 0 /\ held'[Peer(p)] = held[Peer(p)]
               /\ hs'[p] = r.state /\ hs'[Peer(p)] = hs[Peer(p)]
               /\ commits' = commits + r.made
               /\ r.error = "ok" => error' = error
               /\ codec'[p] = update_traffic_secrets(used, p, r.secret_update)
               /\ codec'[Peer(p)] = codec[Peer(p)]
               /\ inbox'[p] = Tail(q)
               /\ inbox'[Peer(p)] = IF r.message # NoMessage
                                    THEN Append(inbox[Peer(p)], encrypt(codec[p], r.message))
                                    ELSE inbox[Peer(p)]
<1> DEFINE q == inbox[p]
           r == process_signaling_message(p, q[1].payload)
           used == IF r.message # NoMessage THEN after_encrypt(codec[p]) ELSE codec[p]
<1>1. TypeInv /\ Peer(p) \in Party /\ Peer(p) # p
  BY IndInvType DEF Peer, Party
<1>2. q \in Seq(Record) /\ Len(q) >= 1 /\ held[p] = 1
  BY <1>1 DEF TypeInv, TypeOK, ProcessSignaling
<1>3. Head(q) = q[1] /\ q[1].payload \in InnerPlaintext
  <2>1. Head(q) = q[1] /\ 1 \in 1 .. Len(q)
    BY <1>2, HeadTail
  <2> QED
    BY <1>2, <2>1, RecordsOf
<1>4. q[1].payload.type \in SignalingType
  BY <1>3 DEF ProcessSignaling, InnerPlaintext
<1>5. /\ hs' = [hs EXCEPT ![p] = r.state]
      /\ commits' = commits + r.made
      /\ error' = [error EXCEPT ![p] = r.error]
      /\ codec' = [codec EXCEPT ![p] = update_traffic_secrets(used, p, r.secret_update)]
      /\ inbox' = [i \in Party |->
                      IF i = p THEN Tail(inbox[i])
                      ELSE IF r.message # NoMessage
                           THEN Append(inbox[i], encrypt(codec[p], r.message))
                           ELSE inbox[i]]
      /\ held' = [held EXCEPT ![p] = 0]
      /\ error[p] = "ok"
  BY <1>3 DEF ProcessSignaling
<1> HIDE DEF r
<1>6. hs'[p] = r.state /\ hs'[Peer(p)] = hs[Peer(p)]
  BY <1>1, <1>5 DEF TypeInv, TypeOK
<1>7. /\ codec'[p] = update_traffic_secrets(used, p, r.secret_update)
      /\ codec'[Peer(p)] = codec[Peer(p)]
      /\ held'[p] = 0 /\ held'[Peer(p)] = held[Peer(p)]
  <2> HIDE DEF used
  <2> QED
    BY <1>1, <1>5 DEF TypeInv, TypeOK
<1>8. r.error = "ok" => error' = error
  BY <1>1, <1>5 DEF TypeInv, TypeOK
<1>9. /\ inbox'[p] = Tail(q)
      /\ inbox'[Peer(p)] = IF r.message # NoMessage
                           THEN Append(inbox[Peer(p)], encrypt(codec[p], r.message))
                           ELSE inbox[Peer(p)]
  BY <1>1, <1>5
<1> QED
  BY <1>2, <1>3, <1>4, <1>5, <1>6, <1>7, <1>8, <1>9 DEF r

\* A waiting client drops a ConnectionUpdate of the server.
LEMMA ClientIgnores ==
    ASSUME IndInv, ProcessSignaling("client"), clientWaits,
           toClient[1].payload.type = "ConnectionUpdate"
    PROVE  IndInv'
<1>1. TypeInv /\ TypeInv'
  BY IndInvType, TypeNext DEF Next, Party
<1>2. process_signaling_message("client", toClient[1].payload) =
        Done(hs["client"], 0, NoMessage, NoSecretUpdate)
  BY DEF process_signaling_message, client_receive_signaling_message, clientWaits
<1>3. /\ toClient \in Seq(Record) /\ Len(toClient) >= 1 /\ held["client"] = 1
      /\ toServer \in Seq(Record)
      /\ held'["client"] = 0 /\ held'["server"] = held["server"]
      /\ hs'["client"] = hs["client"] /\ hs'["server"] = hs["server"]
      /\ commits' = commits /\ error' = error
      /\ codec'["client"] = codec["client"] /\ codec'["server"] = codec["server"]
      /\ toClient' = Tail(toClient) /\ toServer' = toServer
  <2>1. /\ commits \in Nat /\ codec["client"] \in Codec /\ toServer \in Seq(Record)
    BY <1>1, PartTypes DEF TypeInv, TypeOK
  <2>2. update_traffic_secrets(codec["client"], "client", NoSecretUpdate) = codec["client"]
    BY <2>1, SecretChange DEF Party
  <2> QED
    BY <1>2, <2>1, <2>2, Processes DEF Done, toClient, toServer, Peer, Party
<1>4. hs' = hs
  <2>1. hs = [p \in Party |-> hs[p]] /\ hs' = [p \in Party |-> hs'[p]]
    BY <1>1 DEF TypeInv, TypeOK
  <2>2. \A p \in Party : hs'[p] = hs[p]
    BY <1>3 DEF Party
  <2> QED
    BY <2>1, <2>2, Zenon
<1>5. Pending' /\ Sessions' /\ Keys' /\ Ages'
  BY <1>3, <1>4, QuietStep DEF Party
<1>6. Numbered'
  BY <1>1, <1>3, PartTypes, ConsecutiveTail DEF IndInv, TypeInv, Numbered, Party
<1>7. /\ Len(Tail(toClient)) = Len(toClient) - 1
      /\ \A i \in 1 .. Len(toClient) - 1 : Tail(toClient)[i] = toClient[i + 1]
  BY <1>3, HeadTail
<1>8. PICK m \in 0 .. Len(toServer), n \in 0 .. Len(toClient) : Phase(m, n)
  BY DEF IndInv
<1> DEFINE l == IF n = 0 THEN 0 ELSE n - 1
<1>9. n # 1 /\ n \in Nat /\ l \in 0 .. Len(toClient') /\ (l = 0 <=> n = 0)
  BY <1>3, <1>7, <1>8 DEF Phase, OnlyAt
<1>10. OnlyAt(toClient', {"EpochKeyUpdate", "ConnectionConfirmation"}, l)
  BY <1>3, <1>8, <1>9, OnlyAtTail DEF Phase
<1>11. KeysChangeAt(toClient', l, codec["client"].recv_key, codec["server"].send_key)
  BY <1>3, <1>8, <1>9, KeysTail DEF Phase
<1>12. n > 0 => l > 0 /\ toClient'[l] = toClient[n]
  BY <1>3, <1>7, <1>8, <1>9
<1>13. n > 0 /\ Offer(toClient, n, sgroup.pending) => Offer(toClient', l, sgroup.pending)
  BY <1>3, <1>9, OfferTail
<1> HIDE DEF l
<1>14. Phase(m, l)'
  <2>1. CASE Ahead(m, n)
    <3>1. Ahead(m, l)'
      BY <1>3, <1>4, <1>9, <2>1
         DEF Ahead, UpdateUnderWay, ConfirmationUnderWay, cgroup, sgroup, clientWaits, serverWaits
    <3> QED
      BY <1>3, <1>8, <1>9, <1>10, <1>11, <3>1 DEF Phase, Ahead
  <2>2. CASE Answered(m, n)
    <3>1. Answered(m, l)'
      BY <1>3, <1>4, <1>9, <1>12, <1>13, <2>2
         DEF Answered, SameEpoch, cgroup, sgroup, clientWaits
    <3> QED
      BY <1>3, <1>8, <1>9, <1>10, <1>11, <1>12, <3>1 DEF Phase, Answered
  <2> QED
    BY <1>8, <2>1, <2>2 DEF Phase, Idle
<1> QED
  BY <1>1, <1>3, <1>5, <1>6, <1>8, <1>9, <1>14 DEF IndInv, TypeInv, NoError

\* The EpochKeyUpdate that a client waits for ends the key update.
LEMMA ClientConfirmed ==
    ASSUME IndInv, ProcessSignaling("client"),
           toClient[1].payload.type \in {"EpochKeyUpdate", "ConnectionConfirmation"}
    PROVE  IndInv'
<1>1. TypeInv /\ TypeInv'
  BY IndInvType, TypeNext DEF Next, Party
<1>2. /\ toClient \in Seq(Record) /\ Len(toClient) >= 1 /\ held["client"] = 1
      /\ toServer \in Seq(Record) /\ codec["client"] \in Codec /\ commits \in Nat
      /\ cgroup.secret \in Nat /\ hs["client"] \in Handshake
  BY <1>1, Processes, PartTypes DEF TypeInv, TypeOK, Party, toClient, Group
<1>3. PICK m \in 0 .. Len(toServer), n \in 0 .. Len(toClient) : Phase(m, n)
  BY DEF IndInv
<1>4. n = 1
  BY <1>2, <1>3 DEF Phase, OnlyAt
<1>5. /\ clientWaits /\ m = 0 /\ SameEpoch
      /\ toClient[1].payload.type = "EpochKeyUpdate"
      /\ toClient[1].payload.epoch = cgroup.epoch
      /\ Offer(toClient, 1, sgroup.pending)
      /\ Answered(m, n)
  BY <1>3, <1>4 DEF Phase, Idle, Ahead, Answered
<1> DEFINE st == [hs["client"] EXCEPT !.internal_state = Running]
<1>6. process_signaling_message("client", toClient[1].payload) =
        Done(st, 0, NoMessage, ServerSecret(cgroup.secret))
  <2>1. /\ hs["client"].internal_state.tag \in
              {"WaitingForEpochKeyUpdate", "WaitingForEpochKeyUpdateReturn"}
        /\ hs["client"].internal_state.secrets = cgroup.secret
    BY <1>5 DEF IndInv, Sessions
  <2>2. client_receive_confirmation(hs["client"], toClient[1].payload,
            {"WaitingForEpochKeyUpdate", "WaitingForEpochKeyUpdateReturn"},
            ServerSecret(hs["client"].internal_state.secrets)) =
          Done(st, 0, NoMessage, ServerSecret(cgroup.secret))
    BY <1>5, <2>1 DEF client_receive_confirmation, process_epoch_key_update, cgroup
  <2> QED
    BY <1>5, <2>2 DEF process_signaling_message, client_receive_signaling_message
<1>7. /\ held'["client"] = 0 /\ held'["server"] = held["server"]
      /\ hs'["client"] = st /\ hs'["server"] = hs["server"]
      /\ commits' = commits /\ error' = error
      /\ codec'["client"] = [codec["client"] EXCEPT !.recv_key =
                                expand_secret(cgroup.secret, "server")]
      /\ codec'["server"] = codec["server"]
      /\ toClient' = Tail(toClient) /\ toServer' = toServer
  <2>1. update_traffic_secrets(codec["client"], "client", ServerSecret(cgroup.secret)) =
          [codec["client"] EXCEPT !.recv_key = expand_secret(cgroup.secret, "server")]
    BY <1>2, SecretChange
  <2> HIDE DEF st
  <2> QED
    BY <1>2, <1>6, <2>1, Processes DEF Done, toClient, toServer, Peer, Party
<1>8. /\ codec'["client"].recv_key = expand_secret(cgroup.secret, "server")
      /\ codec'["client"].send_key = codec["client"].send_key
      /\ codec'["client"].recv_seq = codec["client"].recv_seq
      /\ codec'["client"].send_seq = codec["client"].send_seq
  BY <1>2, <1>7 DEF Codec
<1>9. /\ hs'["client"].epoch = hs["client"].epoch
      /\ hs'["client"].internal_state = Running
      /\ cgroup' = cgroup /\ sgroup' = sgroup
      /\ serverWaits' = serverWaits /\ ~clientWaits'
  <2>1. /\ hs'["client"].epoch = hs["client"].epoch
        /\ hs'["client"].internal_state = Running
        /\ hs'["client"].group = hs["client"].group
    BY <1>2, <1>7 DEF Handshake
  <2> QED
    BY <1>7, <2>1 DEF cgroup, sgroup, serverWaits, clientWaits, client_is_waiting, Running
<1> HIDE DEF st
<1>10. codec'["client"].recv_key = codec["server"].send_key
  BY <1>5, <1>8 DEF IndInv, Keys, SameEpoch
<1>11. Len(Tail(toClient)) = Len(toClient) - 1
  BY <1>2, HeadTail
<1>12. OnlyAt(toClient', {"EpochKeyUpdate", "ConnectionConfirmation"}, 0)
  <2>1. OnlyAt(toClient, {"EpochKeyUpdate", "ConnectionConfirmation"}, 1)
    BY <1>3, <1>4 DEF Phase
  <2>2. OnlyAt(Tail(toClient), {"EpochKeyUpdate", "ConnectionConfirmation"},
               IF 1 = 0 THEN 0 ELSE 1 - 1)
    BY <1>2, <2>1, OnlyAtTail
  <2> QED
    BY <1>7, <2>2
<1>13. KeysChangeAt(toClient', 0, codec'["client"].recv_key, codec'["server"].send_key)
  <2>1. KeysChangeAt(toClient, 1, codec["client"].recv_key, codec["server"].send_key)
    BY <1>3, <1>4 DEF Phase
  <2> QED
    BY <1>2, <1>7, <1>10, <2>1, KeysTailSwitch
<1>14. Offer(toClient', 0, sgroup.pending)
  <2>1. Offer(Tail(toClient), IF 1 = 0 THEN 0 ELSE 1 - 1, sgroup.pending)
    BY <1>2, <1>5, OfferTail
  <2> QED
    BY <1>7, <2>1
<1>15. Idle(0, 0)'
  BY <1>5, <1>9, <1>14 DEF Idle, SameEpoch
<1>16. Phase(0, 0)'
  BY <1>3, <1>5, <1>7, <1>8, <1>12, <1>13, <1>15 DEF Phase
<1>17. 0 \in 0 .. Len(toServer') /\ 0 \in 0 .. Len(toClient')
  BY <1>2, <1>7, <1>11, LenProperties
<1>18. Numbered'
  BY <1>1, <1>2, <1>7, <1>8, PartTypes, ConsecutiveTail DEF IndInv, TypeInv, Numbered, Party
<1>19. Pending' /\ Sessions' /\ Keys' /\ Ages'
  <2>1. Pending'
    BY <1>9 DEF IndInv, Pending
  <2>2. Sessions'
    BY <1>7, <1>9 DEF IndInv, Sessions, Party, cgroup, sgroup
  <2>3. Keys'
    BY <1>7, <1>8, <1>9 DEF IndInv, Keys
  <2>4. Ages'
    BY <1>2, <1>5, <1>7, <1>8, <1>9 DEF IndInv, Ages, SameEpoch, expand_secret
  <2> QED
    BY <2>1, <2>2, <2>3, <2>4
<1> QED
  BY <1>1, <1>7, <1>16, <1>17, <1>18, <1>19 DEF IndInv, TypeInv, NoError

\* A client that follows the server's pending commit goes ahead of it, either
\* with an update of its own on top of that commit or with a confirmation.
LEMMA ClientReplies ==
    ASSUME IndInv, ProcessSignaling("client"), ~clientWaits, serverWaits,
           toClient[1].payload.type = "ConnectionUpdate",
           NEW st \in Handshake, NEW made \in {0, 1}, NEW reply \in InnerPlaintext,
           process_signaling_message("client", toClient[1].payload) =
               Done(st, made, reply, ClientSecret(st.group.secret)),
           st.epoch = st.group.epoch, st.group.pending = NoCommit,
           st.internal_state.secrets = st.group.secret,
           sgroup.secret <= st.group.secret, st.group.secret <= commits + made,
           \/ /\ reply.type = "ConnectionUpdate" /\ ~reply.update_requested
              /\ st.internal_state.tag = "WaitingForEpochKeyUpdate"
              /\ reply.mls_commit.id = st.group.secret
              /\ reply.mls_commit.epoch + 1 = st.group.epoch
              /\ reply.mls_commit.epoch = sgroup.epoch + 1
              /\ reply.mls_commit.base = sgroup.pending.id
           \/ /\ reply.type = "EpochKeyUpdate"
              /\ st.internal_state.tag = "WaitingForEpochKeyUpdateReturn"
              /\ reply.epoch = st.group.epoch
              /\ st.group.epoch = sgroup.epoch + 1
              /\ st.group.secret = sgroup.pending.id
    PROVE  IndInv'
<1>1. TypeInv /\ TypeInv'
  BY IndInvType, TypeNext DEF Next, Party
<1>2. /\ toClient \in Seq(Record) /\ Len(toClient) >= 1 /\ held["client"] = 1
      /\ toServer \in Seq(Record) /\ codec["client"] \in Codec /\ commits \in Nat
      /\ Len(toServer) \in Nat
  BY <1>1, Processes, PartTypes, LenProperties DEF TypeInv, TypeOK, Party, toClient
<1>3. st.group.secret \in Nat
  BY DEF Handshake, Group
<1> DEFINE e == encrypt(codec["client"], reply)
           used == after_encrypt(codec["client"])
<1>4. /\ e \in Record /\ e.seq = codec["client"].send_seq /\ e.key = codec["client"].send_key
      /\ e.payload = reply
      /\ used \in Codec
      /\ used.send_seq = codec["client"].send_seq + 1
      /\ used.recv_seq = codec["client"].recv_seq
      /\ used.recv_key = codec["client"].recv_key
  BY <1>2, CodecType DEF encrypt, after_encrypt, Codec, Party
<1>5. reply # NoMessage /\ reply.type \in SignalingType
  BY DEF NoMessage, Application, SignalingType
<1>6. /\ held'["client"] = 0 /\ held'["server"] = held["server"]
      /\ hs'["client"] = st /\ hs'["server"] = hs["server"]
      /\ commits' = commits + made /\ error' = error
      /\ codec'["client"] = [used EXCEPT !.send_key =
                                expand_secret(st.group.secret, "client")]
      /\ codec'["server"] = codec["server"]
      /\ toClient' = Tail(toClient) /\ toServer' = Append(toServer, e)
  <2>1. update_traffic_secrets(used, "client", ClientSecret(st.group.secret)) =
          [used EXCEPT !.send_key = expand_secret(st.group.secret, "client")]
    BY <1>3, <1>4, SecretChange
  <2> DEFINE r == process_signaling_message("client", toClient[1].payload)
  <2>2. /\ r.error = "ok" /\ r.state = st /\ r.made = made /\ r.message = reply
        /\ r.secret_update = ClientSecret(st.group.secret)
    BY DEF Done
  <2>3. LET after == IF r.message # NoMessage THEN used ELSE codec["client"]
        IN  /\ held'["client"] = 0 /\ held'["server"] = held["server"]
            /\ hs'["client"] = r.state /\ hs'["server"] = hs["server"]
            /\ commits' = commits + r.made
            /\ r.error = "ok" => error' = error
            /\ codec'["client"] = update_traffic_secrets(after, "client", r.secret_update)
            /\ codec'["server"] = codec["server"]
            /\ toClient' = Tail(toClient)
            /\ toServer' = IF r.message # NoMessage
                           THEN Append(toServer, encrypt(codec["client"], r.message))
                           ELSE toServer
    BY Processes DEF toClient, toServer, Peer, Party
  <2> HIDE DEF r, used
  <2> QED
    BY <1>5, <2>1, <2>2, <2>3
<1>7. /\ codec'["client"].send_key = expand_secret(st.group.secret, "client")
      /\ codec'["client"].recv_key = codec["client"].recv_key
      /\ codec'["client"].recv_seq = codec["client"].recv_seq
      /\ codec'["client"].send_seq = codec["client"].send_seq + 1
  <2> HIDE DEF used
  <2> QED
    BY <1>4, <1>6 DEF Codec
<1> HIDE DEF e, used
<1>8. /\ cgroup' = st.group /\ sgroup' = sgroup
      /\ serverWaits' = serverWaits /\ clientWaits'
      /\ hs'["client"].internal_state.tag = st.internal_state.tag
  BY <1>6 DEF cgroup, sgroup, serverWaits, clientWaits, client_is_waiting
<1>9. PICK m \in 0 .. Len(toServer), n \in 0 .. Len(toClient) : Phase(m, n)
  BY DEF IndInv
<1>10. m = 0 /\ n = 0 /\ SameEpoch
  BY <1>9 DEF Phase, Idle, Ahead, Answered
<1>11. PICK l \in Nat : l = Len(toServer) + 1
  BY <1>2
<1>12. /\ Len(toServer') = l /\ toServer'[l] = e
       /\ Len(toClient') = Len(toClient) - 1
  BY <1>2, <1>4, <1>6, <1>11, AppendRecord, HeadTail
<1>13. OnlyAt(toServer', SignalingType, l)
  BY <1>2, <1>4, <1>5, <1>6, <1>9, <1>10, <1>11, OnlyAtAppendSwitch DEF Phase
<1>14. KeysChangeAt(toServer', l, codec'["server"].recv_key, codec'["client"].send_key)
  BY <1>2, <1>4, <1>6, <1>7, <1>9, <1>10, <1>11, KeysAppendSwitch DEF Phase
<1>15. OnlyAt(toClient', {"EpochKeyUpdate", "ConnectionConfirmation"}, 0)
  <2>1. OnlyAt(toClient, {"EpochKeyUpdate", "ConnectionConfirmation"}, 0)
    BY <1>9, <1>10 DEF Phase
  <2> QED
    BY <1>2, <1>6, <2>1, OnlyAtTail
<1>16. KeysChangeAt(toClient', 0, codec'["client"].recv_key, codec'["server"].send_key)
  <2>1. KeysChangeAt(toClient, 0, codec["client"].recv_key, codec["server"].send_key)
    BY <1>9, <1>10 DEF Phase
  <2>2. KeysChangeAt(Tail(toClient), 0, codec["client"].recv_key, codec["server"].send_key)
    BY <1>2, <2>1, HeadTail DEF KeysChangeAt
  <2> QED
    BY <1>6, <1>7, <2>2
<1>17. Ahead(l, 0)'
  <2>1. l > 0 /\ toServer'[l].payload = reply
    BY <1>2, <1>4, <1>11, <1>12
  <2>2. (UpdateUnderWay(reply) \/ ConfirmationUnderWay(reply))'
    BY <1>8 DEF UpdateUnderWay, ConfirmationUnderWay
  <2>3. UpdateUnderWay(reply)' => UpdateUnderWay(toServer[l].payload)'
    BY <2>1 DEF UpdateUnderWay
  <2>4. ConfirmationUnderWay(reply)' => ConfirmationUnderWay(toServer[l].payload)'
    BY <2>1 DEF ConfirmationUnderWay
  <2> QED
    BY <1>8, <2>1, <2>2, <2>3, <2>4 DEF Ahead
<1>18. Phase(l, 0)'
  BY <1>13, <1>14, <1>15, <1>16, <1>17 DEF Phase
<1>19. l \in 0 .. Len(toServer') /\ 0 \in 0 .. Len(toClient')
  BY <1>2, <1>12, LenProperties
<1>20. Numbered'
  <2>1. /\ Consecutive(toServer, held["server"], codec["server"].recv_seq,
                       codec["client"].send_seq)
        /\ Consecutive(toClient, 1, codec["client"].recv_seq, codec["server"].send_seq)
    BY <1>2 DEF IndInv, Numbered
  <2>2. /\ held["server"] \in {0, 1}
        /\ codec["server"].recv_seq \in Nat /\ codec["client"].recv_seq \in Nat
        /\ codec["client"].send_seq \in Nat /\ codec["server"].send_seq \in Nat
    BY <1>1, PartTypes DEF TypeInv, Party
  <2>3. Consecutive(toServer', held["server"], codec["server"].recv_seq,
                    codec["client"].send_seq + 1)
    BY <1>2, <1>4, <1>6, <2>1, <2>2, ConsecutiveAppend
  <2>4. Consecutive(toClient', 0, codec["client"].recv_seq, codec["server"].send_seq)
    BY <1>2, <1>6, <2>1, <2>2, ConsecutiveTail
  <2> QED
    BY <1>6, <1>7, <2>3, <2>4 DEF Numbered
<1>21. Pending' /\ Sessions' /\ Keys' /\ Ages'
  <2>1. Pending'
    BY <1>8 DEF IndInv, Pending
  <2>2. Sessions'
    BY <1>6, <1>8 DEF IndInv, Sessions, Party
  <2>3. Keys'
    BY <1>6, <1>7, <1>8 DEF IndInv, Keys
  <2>4. Ages'
    <3>1. sgroup.pending.id \in Nat
      BY <1>1, PartTypes DEF TypeInv, Group, Commit
    <3>2. Ages
      BY DEF IndInv
    <3> QED
      BY <1>2, <1>3, <1>6, <1>7, <1>8, <3>1, <3>2 DEF Ages
  <2> QED
    BY <2>1, <2>2, <2>3, <2>4
<1> QED
  BY <1>1, <1>6, <1>18, <1>19, <1>20, <1>21 DEF IndInv, TypeInv, NoError

\* process_read_message on a signaling message, by the client.
LEMMA ClientProcesses == ASSUME IndInv, ProcessSignaling("client") PROVE IndInv'
<1>1. TypeInv /\ "client" \in Party
  BY IndInvType DEF Party
<1>2. /\ toClient \in Seq(Record) /\ Len(toClient) >= 1
      /\ toClient[1].payload \in InnerPlaintext /\ toClient[1].payload.type \in SignalingType
      /\ cgroup \in Group /\ sgroup \in Group /\ commits \in Nat
      /\ hs["client"] \in Handshake
  BY <1>1, Processes, PartTypes DEF TypeInv, TypeOK, toClient
<1>3. CASE toClient[1].payload.type \in {"EpochKeyUpdate", "ConnectionConfirmation"}
  BY <1>3, ClientConfirmed
<1>4. CASE toClient[1].payload.type = "ConnectionUpdate" /\ clientWaits
  BY <1>4, ClientIgnores
<1>5. CASE toClient[1].payload.type = "ConnectionUpdate" /\ ~clientWaits
  <2>1. PICK commit \in Commit : commit = toClient[1].payload.mls_commit
    BY <1>2 DEF InnerPlaintext
  <2>2. PICK fresh \in Nat : fresh = commits + 1
    BY <1>2
  <2>3. /\ serverWaits /\ commit = sgroup.pending /\ SameEpoch
        /\ commit.epoch = cgroup.epoch /\ commit.base = cgroup.secret
    <3>1. Offer(toClient, 0, sgroup.pending) /\ SameEpoch
      BY <1>5 DEF IndInv, Phase, Idle, Ahead, Answered
    <3>2. commit = sgroup.pending /\ sgroup.pending # NoCommit
      BY <1>2, <1>5, <2>1, <3>1 DEF Offer
    <3> QED
      BY <3>1, <3>2 DEF IndInv, Pending, SameEpoch
  <2>4. cgroup.pending = NoCommit /\ sgroup.secret < commit.id /\ commit.id <= commits
    BY <2>3 DEF IndInv, Pending, Ages
  <2> DEFINE processed == process_mls_update(hs["client"].group,
                                             toClient[1].payload.mls_commit, FALSE)
  <2>5. processed.ok /\ processed.group = After(commit)
    BY <1>2, <2>1, <2>3, <2>4, CommitFollowed DEF cgroup
  <2>6. /\ After(commit) \in Group /\ After(commit).epoch = commit.epoch + 1
        /\ After(commit).secret = commit.id /\ After(commit).pending = NoCommit
        /\ commit.epoch \in Nat /\ commit.id \in Nat
    <3>1. NoCommit \in Commit
      BY DEF NoCommit, Commit
    <3> QED
      BY <3>1 DEF After, Group, Commit
  <2> DEFINE followed == Moved(hs["client"], After(commit))
  <2>7. process_signaling_message("client", toClient[1].payload) =
          IF toClient[1].payload.update_requested
          THEN self_update_and_merge(followed, FALSE, fresh)
          ELSE Done(Entered(followed, Waiting("WaitingForEpochKeyUpdateReturn", NoCommit,
                                              After(commit).secret)),
                    0, create_epoch_key_update(followed.group),
                    ClientSecret(After(commit).secret))
    <3>1. process_signaling_message("client", toClient[1].payload) =
            client_process_update(hs["client"], toClient[1].payload, fresh)
      BY <1>5, <2>2 DEF process_signaling_message, client_receive_signaling_message, clientWaits
    <3> DEFINE follows == Moved(hs["client"], processed.group)
    <3>2. client_process_update(hs["client"], toClient[1].payload, fresh) =
            IF ~processed.ok
            THEN Failed("ConnectionUpdateError",
                        [hs["client"] EXCEPT !.group = processed.group])
            ELSE IF toClient[1].payload.update_requested
                 THEN self_update_and_merge(follows, FALSE, fresh)
                 ELSE Done(Entered(follows,
                                   Waiting("WaitingForEpochKeyUpdateReturn", NoCommit,
                                           processed.group.secret)),
                           0, create_epoch_key_update(follows.group),
                           ClientSecret(processed.group.secret))
      BY DEF client_process_update, Moved, Entered
    <3> HIDE DEF processed
    <3> QED
      BY <2>5, <3>1, <3>2, Zenon
  <2>8. /\ followed \in Handshake /\ followed.group = After(commit)
        /\ followed.epoch = commit.epoch + 1
    <3>1. Running \in Internal
      BY MessageTypes
    <3> QED
      BY <1>2, <2>6, <3>1, SessionMoves
  <2> HIDE DEF followed
  <2>9. CASE ~toClient[1].payload.update_requested
    <3>1. PICK st \in Handshake :
            /\ st = Entered(followed, Waiting("WaitingForEpochKeyUpdateReturn", NoCommit,
                                              commit.id))
            /\ st.epoch = commit.epoch + 1 /\ st.group = After(commit)
            /\ st.internal_state = Waiting("WaitingForEpochKeyUpdateReturn", NoCommit, commit.id)
      <4>1. Waiting("WaitingForEpochKeyUpdateReturn", NoCommit, commit.id) \in Internal
        BY <2>6 DEF Waiting, Internal, ClientTag, NoCommit, Commit
      <4> QED
        BY <2>6, <2>8, <4>1, SessionMoves
    <3> DEFINE reply == EpochKeyUpdate(commit.epoch + 1)
    <3>2. process_signaling_message("client", toClient[1].payload) =
            Done(st, 0, reply, ClientSecret(commit.id))
      BY <2>6, <2>7, <2>8, <2>9, <3>1 DEF create_epoch_key_update
    <3>3. reply \in InnerPlaintext /\ reply.type = "EpochKeyUpdate"
          /\ reply.epoch = commit.epoch + 1
      BY <2>6, MessageTypes DEF EpochKeyUpdate
    <3>4. /\ st.epoch = st.group.epoch /\ st.group.pending = NoCommit
          /\ st.internal_state.secrets = st.group.secret
          /\ st.internal_state.tag = "WaitingForEpochKeyUpdateReturn"
          /\ st.group.secret = commit.id /\ st.group.epoch = commit.epoch + 1
      BY <2>6, <3>1 DEF Waiting
    <3>5. /\ sgroup.secret <= commit.id /\ commit.id <= commits + 0
          /\ commit.epoch = sgroup.epoch
      BY <1>2, <2>3, <2>4, <2>6 DEF SameEpoch, Group
    <3> HIDE DEF reply
    <3> QED
      BY <1>5, <2>3, <3>2, <3>3, <3>4, <3>5, ClientReplies
  <2>10. CASE toClient[1].payload.update_requested
    <3>1. PICK own \in Commit : own = CommitOn(After(commit), fresh)
      BY <1>2, <2>2, <2>6, CommitOnFacts
    <3>2. /\ fresh > 0 /\ own.epoch = commit.epoch + 1 /\ own.base = commit.id
          /\ own.id = fresh /\ After(own) \in Group
          /\ After(own).epoch = commit.epoch + 1 + 1 /\ After(own).secret = fresh
          /\ After(own).pending = NoCommit
      <4>1. fresh > 0
        BY <1>2, <2>2
      <4> QED
        BY <2>6, <3>1, <4>1, CommitOnFacts DEF After
    <3> DEFINE st == [epoch |-> commit.epoch + 1 + 1,
                      internal_state |-> Waiting("WaitingForEpochKeyUpdate", own, fresh),
                      group |-> After(own)]
               reply == ConnectionUpdate(own, FALSE)
    <3>3. process_signaling_message("client", toClient[1].payload) =
            Done(st, 1, reply, ClientSecret(fresh))
      <4>1. self_update_and_merge(followed, FALSE, fresh) =
              Done([epoch |-> After(commit).epoch + 1,
                    internal_state |-> Waiting("WaitingForEpochKeyUpdate", own, fresh),
                    group |-> After(own)],
                   1, ConnectionUpdate(own, FALSE), ClientSecret(fresh))
        <5>1. followed.group.pending = NoCommit
          BY <2>6, <2>8
        <5>2. own = CommitOn(followed.group, fresh)
          BY <2>8, <3>1
        <5>3. followed \in Handshake /\ fresh \in Nat /\ fresh > 0 /\ FALSE \in BOOLEAN
          BY <2>2, <2>8, <3>2
        <5>4. self_update_and_merge(followed, FALSE, fresh) =
                Done([epoch |-> followed.group.epoch + 1,
                      internal_state |-> Waiting("WaitingForEpochKeyUpdate",
                                                 CommitOn(followed.group, fresh), fresh),
                      group |-> After(CommitOn(followed.group, fresh))],
                     1, ConnectionUpdate(CommitOn(followed.group, fresh), FALSE),
                     ClientSecret(fresh))
          BY <5>1, <5>3, ClientMerges
        <5> QED
          BY <2>8, <5>2, <5>4
      <4>2. After(commit).epoch + 1 = commit.epoch + 1 + 1
        BY <2>6
      <4> QED
        BY <2>7, <2>10, <4>1, <4>2
    <3>4. st \in Handshake
      <4>1. Waiting("WaitingForEpochKeyUpdate", own, fresh) \in Internal
        BY DEF Waiting, Internal, ClientTag
      <4> QED
        BY <2>6, <3>2, <4>1 DEF Handshake
    <3>5. reply \in InnerPlaintext /\ reply.type = "ConnectionUpdate"
          /\ reply.mls_commit = own /\ ~reply.update_requested
      BY MessageTypes DEF ConnectionUpdate
    <3>6. /\ st.epoch = st.group.epoch /\ st.group.pending = NoCommit
          /\ st.internal_state.secrets = st.group.secret
          /\ st.internal_state.tag = "WaitingForEpochKeyUpdate"
          /\ st.group.secret = fresh /\ st.group.epoch = commit.epoch + 1 + 1
      BY <3>2 DEF Waiting
    <3>7. /\ sgroup.secret <= fresh /\ fresh <= commits + 1
          /\ commit.epoch = sgroup.epoch
      BY <1>2, <2>2, <2>3, <2>4, <2>6 DEF SameEpoch, Group
    <3> HIDE DEF st, reply
    <3> QED
      BY <1>5, <2>3, <3>2, <3>3, <3>4, <3>5, <3>6, <3>7, ClientReplies
  <2> QED
    BY <2>9, <2>10
<1> QED
  BY <1>2, <1>3, <1>4, <1>5 DEF SignalingType

\* A server that has caught up with the client answers with the epoch they
\* now share.
LEMMA ServerAnswers ==
    ASSUME IndInv, ProcessSignaling("server"), Phase(1, 0), clientWaits,
           NEW st \in Handshake,
           process_signaling_message("server", toServer[1].payload) =
               Done(st, 0, EpochKeyUpdate(st.group.epoch), Both(st.group.secret)),
           st.epoch = st.group.epoch, st.internal_state = Running,
           st.group = cgroup, st.group.epoch >= 1
    PROVE  IndInv'
<1>1. TypeInv /\ TypeInv'
  BY IndInvType, TypeNext DEF Next, Party
<1>2. /\ toServer \in Seq(Record) /\ Len(toServer) >= 1 /\ held["server"] = 1
      /\ toClient \in Seq(Record) /\ codec["server"] \in Codec /\ commits \in Nat
      /\ Len(toClient) \in Nat
  BY <1>1, Processes, PartTypes, LenProperties DEF TypeInv, TypeOK, Party, toServer
<1>3. st.group.secret \in Nat /\ st.group.epoch \in Nat /\ st.group.pending = NoCommit
  BY DEF Handshake, Group, IndInv, Pending
<1>4. PICK reply \in InnerPlaintext :
        /\ reply = EpochKeyUpdate(st.group.epoch)
        /\ reply.type = "EpochKeyUpdate" /\ reply.epoch = st.group.epoch
        /\ reply # NoMessage
  BY <1>3, MessageTypes DEF EpochKeyUpdate, NoMessage, Application
<1> DEFINE e == encrypt(codec["server"], reply)
           used == after_encrypt(codec["server"])
<1>5. /\ e \in Record /\ e.seq = codec["server"].send_seq /\ e.key = codec["server"].send_key
      /\ e.payload = reply
      /\ used \in Codec
      /\ used.send_seq = codec["server"].send_seq + 1
      /\ used.recv_seq = codec["server"].recv_seq
  BY <1>2, CodecType DEF encrypt, after_encrypt, Codec, Party
<1>6. /\ held'["server"] = 0 /\ held'["client"] = held["client"]
      /\ hs'["server"] = st /\ hs'["client"] = hs["client"]
      /\ commits' = commits /\ error' = error
      /\ codec'["server"] = [used EXCEPT !.send_key = expand_secret(st.group.secret, "server"),
                                         !.recv_key = expand_secret(st.group.secret, "client")]
      /\ codec'["client"] = codec["client"]
      /\ toServer' = Tail(toServer) /\ toClient' = Append(toClient, e)
  <2>1. update_traffic_secrets(used, "server", Both(st.group.secret)) =
          [used EXCEPT !.send_key = expand_secret(st.group.secret, "server"),
                       !.recv_key = expand_secret(st.group.secret, "client")]
    BY <1>3, <1>5, SecretChange
  <2> DEFINE r == process_signaling_message("server", toServer[1].payload)
  <2>2. /\ r.error = "ok" /\ r.state = st /\ r.made = 0 /\ r.message = reply
        /\ r.secret_update = Both(st.group.secret)
    BY <1>4 DEF Done
  <2>3. LET after == IF r.message # NoMessage THEN used ELSE codec["server"]
        IN  /\ held'["server"] = 0 /\ held'["client"] = held["client"]
            /\ hs'["server"] = r.state /\ hs'["client"] = hs["client"]
            /\ commits' = commits + r.made
            /\ r.error = "ok" => error' = error
            /\ codec'["server"] = update_traffic_secrets(after, "server", r.secret_update)
            /\ codec'["client"] = codec["client"]
            /\ toServer' = Tail(toServer)
            /\ toClient' = IF r.message # NoMessage
                           THEN Append(toClient, encrypt(codec["server"], r.message))
                           ELSE toClient
    BY Processes DEF toClient, toServer, Peer, Party
  <2> HIDE DEF r, used
  <2> QED
    BY <1>2, <1>4, <2>1, <2>2, <2>3
<1>7. /\ codec'["server"].send_key = expand_secret(st.group.secret, "server")
      /\ codec'["server"].recv_key = expand_secret(st.group.secret, "client")
      /\ codec'["server"].recv_seq = codec["server"].recv_seq
      /\ codec'["server"].send_seq = codec["server"].send_seq + 1
  <2> HIDE DEF used
  <2> QED
    BY <1>5, <1>6 DEF Codec
<1> HIDE DEF e, used
<1>8. /\ cgroup' = cgroup /\ sgroup' = cgroup
      /\ ~serverWaits' /\ clientWaits'
  BY <1>6 DEF cgroup, sgroup, serverWaits, clientWaits, server_is_waiting, Running
<1>9. codec'["server"].recv_key = codec["client"].send_key
  BY <1>7 DEF IndInv, Keys
<1>10. PICK l \in Nat : l = Len(toClient) + 1
  BY <1>2
<1>11. /\ Len(toClient') = l /\ toClient'[l] = e
       /\ Len(toServer') = Len(toServer) - 1
  BY <1>2, <1>5, <1>6, <1>10, AppendRecord, HeadTail
<1>12. OnlyAt(toClient', {"EpochKeyUpdate", "ConnectionConfirmation"}, l)
  <2>1. e.payload.type \in {"EpochKeyUpdate", "ConnectionConfirmation"}
    BY <1>4, <1>5
  <2>2. OnlyAt(toClient, {"EpochKeyUpdate", "ConnectionConfirmation"}, 0)
    BY DEF Phase
  <2> QED
    BY <1>2, <1>5, <1>6, <1>10, <2>1, <2>2, OnlyAtAppendSwitch
<1>13. KeysChangeAt(toClient', l, codec'["client"].recv_key, codec'["server"].send_key)
  <2>1. KeysChangeAt(toClient, 0, codec["client"].recv_key, codec["server"].send_key)
    BY DEF Phase
  <2> QED
    BY <1>2, <1>5, <1>6, <1>10, <2>1, KeysAppendSwitch
<1>14. OnlyAt(toServer', SignalingType, 0)
  <2>1. OnlyAt(toServer, SignalingType, 1)
    BY DEF Phase
  <2>2. OnlyAt(Tail(toServer), SignalingType, IF 1 = 0 THEN 0 ELSE 1 - 1)
    BY <1>2, <2>1, OnlyAtTail
  <2> QED
    BY <1>6, <2>2
<1>15. KeysChangeAt(toServer', 0, codec'["server"].recv_key, codec'["client"].send_key)
  <2>1. KeysChangeAt(toServer, 1, codec["server"].recv_key, codec["client"].send_key)
    BY DEF Phase
  <2> QED
    BY <1>2, <1>6, <1>9, <2>1, KeysTailSwitch
<1>16. Offer(toClient', l, NoCommit)
  <2>1. toClient' \in Seq(Record)
    BY <1>2, <1>5, <1>6, AppendRecord
  <2> QED
    BY <1>11, <2>1, OfferNone
<1>17. l > 0 /\ toClient'[l].payload = reply
  BY <1>2, <1>5, <1>10, <1>11
<1>18. Answered(0, l)'
  BY <1>3, <1>4, <1>8, <1>16, <1>17 DEF Answered, SameEpoch
<1>19. Phase(0, l)'
  <2>1. toClient'[l].payload.type = "EpochKeyUpdate"
    BY <1>4, <1>17
  <2> QED
    BY <1>12, <1>13, <1>14, <1>15, <1>18, <2>1 DEF Phase
<1>20. 0 \in 0 .. Len(toServer') /\ l \in 0 .. Len(toClient')
  BY <1>2, <1>11, LenProperties
<1>21. Numbered'
  <2>1. /\ Consecutive(toClient, held["client"], codec["client"].recv_seq,
                       codec["server"].send_seq)
        /\ Consecutive(toServer, 1, codec["server"].recv_seq, codec["client"].send_seq)
    BY <1>2 DEF IndInv, Numbered
  <2>2. /\ held["client"] \in {0, 1}
        /\ codec["server"].recv_seq \in Nat /\ codec["client"].recv_seq \in Nat
        /\ codec["client"].send_seq \in Nat /\ codec["server"].send_seq \in Nat
    BY <1>1, PartTypes DEF TypeInv, Party
  <2>3. Consecutive(toClient', held["client"], codec["client"].recv_seq,
                    codec["server"].send_seq + 1)
    BY <1>2, <1>5, <1>6, <2>1, <2>2, ConsecutiveAppend
  <2>4. Consecutive(toServer', 0, codec["server"].recv_seq, codec["client"].send_seq)
    BY <1>2, <1>6, <2>1, <2>2, ConsecutiveTail
  <2> QED
    BY <1>6, <1>7, <2>3, <2>4 DEF Numbered
<1>22. Pending' /\ Sessions' /\ Keys' /\ Ages'
  <2>1. Pending'
    BY <1>3, <1>8 DEF Pending
  <2>2. Sessions'
    BY <1>6, <1>8 DEF IndInv, Sessions, Party
  <2>3. Keys'
    BY <1>6, <1>7, <1>8 DEF IndInv, Keys
  <2>4. Ages'
    <3>1. /\ sgroup.secret \in Nat /\ cgroup.secret \in Nat
          /\ codec["client"].recv_key.secret \in Nat
      BY <1>1, PartTypes DEF TypeInv, Group, Key, Party
    <3> QED
      BY <1>2, <1>6, <1>8, <3>1 DEF IndInv, Ages
  <2> QED
    BY <2>1, <2>2, <2>3, <2>4
<1> QED
  BY <1>1, <1>6, <1>19, <1>20, <1>21, <1>22 DEF IndInv, TypeInv, NoError

\* process_read_message on a signaling message, by the server.
LEMMA ServerProcesses == ASSUME IndInv, ProcessSignaling("server") PROVE IndInv'
<1>1. TypeInv /\ "server" \in Party
  BY IndInvType DEF Party
<1>2. /\ toServer \in Seq(Record) /\ Len(toServer) >= 1
      /\ toServer[1].payload \in InnerPlaintext /\ toServer[1].payload.type \in SignalingType
      /\ cgroup \in Group /\ sgroup \in Group /\ hs["server"] \in Handshake
  BY <1>1, Processes, PartTypes DEF TypeInv, TypeOK, toServer
<1>3. Phase(1, 0) /\ Ahead(1, 0) /\ clientWaits
  <2>1. PICK m \in 0 .. Len(toServer), n \in 0 .. Len(toClient) : Phase(m, n)
    BY DEF IndInv
  <2>2. m = 1
    BY <1>2, <2>1 DEF Phase, OnlyAt
  <2>3. n = 0 /\ Ahead(1, 0) /\ clientWaits
    BY <2>1, <2>2 DEF Phase, Idle, Ahead, Answered
  <2> QED
    BY <2>1, <2>2, <2>3
<1>4. /\ cgroup.pending = NoCommit /\ sgroup.epoch >= 1
      /\ cgroup.epoch \in Nat /\ sgroup.epoch \in Nat /\ cgroup.secret \in Nat
      /\ serverWaits => sgroup.pending # NoCommit
      /\ sgroup = hs["server"].group
  BY <1>2 DEF IndInv, Pending, Group, sgroup
<1>5. \A g \in Group : /\ g.epoch = cgroup.epoch /\ g.secret = cgroup.secret
                       /\ g.pending = NoCommit
                       => g = cgroup
  BY <1>2, <1>4 DEF Group
<1>6. CASE UpdateUnderWay(toServer[1].payload)
  <2>1. PICK commit \in Commit : commit = toServer[1].payload.mls_commit
    BY <1>2 DEF InnerPlaintext
  <2>2. /\ commit.id = cgroup.secret /\ commit.epoch + 1 = cgroup.epoch
        /\ toServer[1].payload.type = "ConnectionUpdate"
        /\ ~toServer[1].payload.update_requested
        /\ \/ commit.epoch = sgroup.epoch /\ commit.base = sgroup.secret
           \/ /\ commit.epoch = sgroup.epoch + 1
              /\ commit.base = sgroup.pending.id /\ serverWaits
    BY <1>6, <2>1 DEF UpdateUnderWay
  <2> DEFINE processed == process_mls_update(hs["server"].group,
                                             toServer[1].payload.mls_commit, TRUE)
  <2>3. processed.ok /\ processed.group = After(commit)
    <3>1. CASE commit.epoch = sgroup.epoch /\ commit.base = sgroup.secret
      BY <1>2, <1>4, <2>1, <3>1, CommitFollowed
    <3>2. CASE /\ commit.epoch = sgroup.epoch + 1
               /\ commit.base = sgroup.pending.id /\ serverWaits
      BY <1>2, <1>4, <2>1, <3>2, PendingConfirmed
    <3> QED
      BY <2>2, <3>1, <3>2
  <2>4. After(commit) \in Group /\ After(commit) = cgroup
    <3>1. /\ After(commit) \in Group /\ After(commit).epoch = commit.epoch + 1
          /\ After(commit).secret = commit.id /\ After(commit).pending = NoCommit
      BY DEF After, Group, Commit, NoCommit
    <3> QED
      BY <1>5, <2>2, <3>1
  <2>5. process_signaling_message("server", toServer[1].payload) =
          server_process_update(hs["server"], toServer[1].payload, commits + 1)
    BY <2>2 DEF process_signaling_message, server_receive_signaling_message
  <2>6. server_process_update(hs["server"], toServer[1].payload, commits + 1) =
          IF ~processed.ok
          THEN Failed("ConnectionUpdateError",
                      [hs["server"] EXCEPT !.group = processed.group])
          ELSE IF toServer[1].payload.update_requested
               THEN self_update_and_wait(server_follow(hs["server"], processed.group), FALSE,
                                         commits + 1, Both(processed.group.secret))
               ELSE Done(server_follow(hs["server"], processed.group), 0,
                         create_epoch_key_update(
                             server_follow(hs["server"], processed.group).group),
                         Both(processed.group.secret))
    BY DEF server_process_update
  <2> HIDE DEF processed
  <2>7. PICK st \in Handshake :
          /\ st = server_follow(hs["server"], processed.group)
          /\ st.epoch = cgroup.epoch /\ st.internal_state = Running /\ st.group = cgroup
    <3>1. Running \in Internal
      BY MessageTypes
    <3>2. server_follow(hs["server"], processed.group) =
            [epoch |-> cgroup.epoch, internal_state |-> Running, group |-> cgroup]
      BY <2>3, <2>4, Zenon DEF server_follow
    <3>3. [epoch |-> cgroup.epoch, internal_state |-> Running, group |-> cgroup] \in Handshake
      BY <1>2, <1>4, <3>1 DEF Handshake
    <3> QED
      BY <3>2, <3>3
  <2>8. process_signaling_message("server", toServer[1].payload) =
          Done(st, 0, create_epoch_key_update(st.group), Both(cgroup.secret))
    BY <2>2, <2>3, <2>4, <2>5, <2>6, <2>7, Zenon
  <2>9. create_epoch_key_update(st.group) = EpochKeyUpdate(st.group.epoch)
    BY DEF create_epoch_key_update
  <2>10. cgroup.epoch >= 1
    BY <1>4, <2>2 DEF Commit
  <2> QED
    BY <1>3, <2>7, <2>8, <2>9, <2>10, ServerAnswers
<1>7. CASE ConfirmationUnderWay(toServer[1].payload)
  <2>1. /\ serverWaits /\ toServer[1].payload.type = "EpochKeyUpdate"
        /\ toServer[1].payload.epoch = cgroup.epoch /\ cgroup.epoch = sgroup.epoch + 1
        /\ cgroup.secret = sgroup.pending.id
    BY <1>7 DEF ConfirmationUnderWay
  <2>2. merge_update(hs["server"].group) = cgroup
    <3>1. merge_update(sgroup) = [epoch |-> sgroup.epoch + 1, secret |-> sgroup.pending.id,
                                  pending |-> NoCommit]
      BY <1>4, <2>1 DEF merge_update
    <3> QED
      BY <1>2, <1>4, <1>5, <2>1, <3>1, MessageTypes DEF Group
  <2> DEFINE merged == Moved(hs["server"], merge_update(hs["server"].group))
  <2>3. server_receive_epoch_key_update(hs["server"], toServer[1].payload) =
          IF ~server_is_waiting(hs["server"])
          THEN Failed("UnexpectedMessage", hs["server"])
          ELSE IF ~process_epoch_key_update(merged.group, toServer[1].payload)
               THEN Failed("EpochMismatch", merged)
               ELSE Done(Entered(merged, Running), 0, create_epoch_key_update(merged.group),
                         Both(merged.group.secret))
    BY DEF server_receive_epoch_key_update, Moved, Entered
  <2>4. Running \in Internal
    BY MessageTypes
  <2>5. merged \in Handshake /\ merged.epoch = cgroup.epoch /\ merged.group = cgroup
    BY <1>2, <2>2, <2>4, SessionMoves
  <2> HIDE DEF merged
  <2>6. PICK st \in Handshake :
          /\ st = Entered(merged, Running)
          /\ st.epoch = cgroup.epoch /\ st.internal_state = Running /\ st.group = cgroup
    BY <1>2, <2>4, <2>5, SessionMoves
  <2>7. process_signaling_message("server", toServer[1].payload) =
          server_receive_epoch_key_update(hs["server"], toServer[1].payload)
    BY <2>1 DEF process_signaling_message, server_receive_signaling_message
  <2>8. process_signaling_message("server", toServer[1].payload) =
          Done(st, 0, create_epoch_key_update(st.group), Both(cgroup.secret))
    <3>1. process_epoch_key_update(merged.group, toServer[1].payload)
      BY <2>1, <2>5 DEF process_epoch_key_update
    <3>2. server_is_waiting(hs["server"])
      BY <2>1 DEF serverWaits
    <3> QED
      BY <2>3, <2>5, <2>6, <2>7, <3>1, <3>2, Zenon
  <2>9. create_epoch_key_update(st.group) = EpochKeyUpdate(st.group.epoch)
    BY DEF create_epoch_key_update
  <2>10. cgroup.epoch >= 1
    BY <1>4, <2>1
  <2> QED
    BY <1>3, <2>6, <2>8, <2>9, <2>10, ServerAnswers
<1> QED
  BY <1>3, <1>6, <1>7 DEF Ahead

-----------------------------------------------------------------------------
(***************************************************************************)
(* The invariant, and what follows from it.                                *)
(***************************************************************************)

\* A new connection is idle, with the keys of the first epoch.
LEMMA IndInvInit == Init => IndInv
<1> SUFFICES ASSUME Init PROVE IndInv
  OBVIOUS
<1>1. TypeInv
  BY TypeInit
<1>2. "client" \in Party /\ "server" \in Party /\ \A p \in Party : p \in {"client", "server"}
  BY DEF Party
<1>3. /\ toServer = << >> /\ toClient = << >> /\ held["client"] = 0 /\ held["server"] = 0
      /\ commits = 0
  BY <1>2 DEF Init, toServer, toClient
<1>4. hs["client"] = client_start /\ hs["server"] = server_start
  BY <1>2 DEF Init
<1>5. /\ cgroup = create_server_session /\ sgroup = create_server_session
      /\ hs["client"].internal_state = Running /\ hs["server"].internal_state = Running
      /\ hs["client"].epoch = create_server_session.epoch
      /\ hs["server"].epoch = create_server_session.epoch
  BY <1>4 DEF client_start, server_start, cgroup, sgroup
<1>6. ~clientWaits /\ ~serverWaits
  BY <1>5 DEF clientWaits, serverWaits, client_is_waiting, server_is_waiting, Running
<1>7. /\ create_server_session.epoch = 1 /\ create_server_session.secret = 0
      /\ create_server_session.pending = NoCommit
  BY DEF create_server_session
<1>8. /\ codec["client"] = new_codec("client", 0, HandshakeRecords)
      /\ codec["server"] = new_codec("server", 0, HandshakeRecords)
  BY <1>2, <1>7 DEF Init
<1>9. /\ codec["client"].send_key = expand_secret(0, "client")
      /\ codec["client"].recv_key = expand_secret(0, "server")
      /\ codec["server"].send_key = expand_secret(0, "server")
      /\ codec["server"].recv_key = expand_secret(0, "client")
      /\ \A p \in Party : /\ codec[p].send_seq = HandshakeRecords
                          /\ codec[p].recv_seq = HandshakeRecords
  BY <1>2, <1>8 DEF new_codec, Peer
<1>10. NoError
  BY DEF Init, NoError
<1>11. Numbered
  BY <1>2, <1>3, <1>9, BoundsAssumption DEF Numbered, Consecutive
<1>12. Pending
  BY <1>5, <1>6, <1>7 DEF Pending
<1>13. Sessions
  BY <1>2, <1>5, <1>6 DEF Sessions, cgroup, sgroup
<1>14. Keys
  BY <1>5, <1>7, <1>9 DEF Keys
<1>15. Ages
  BY <1>3, <1>5, <1>6, <1>7, <1>9 DEF Ages, expand_secret
<1>16. Phase(0, 0)
  <2>1. Idle(0, 0)
    BY <1>3, <1>5, <1>6, <1>7 DEF Idle, SameEpoch, Offer
  <2>2. OnlyAt(toServer, SignalingType, 0)
        /\ OnlyAt(toClient, {"EpochKeyUpdate", "ConnectionConfirmation"}, 0)
    BY <1>3 DEF OnlyAt
  <2>3. /\ KeysChangeAt(toServer, 0, codec["server"].recv_key, codec["client"].send_key)
        /\ KeysChangeAt(toClient, 0, codec["client"].recv_key, codec["server"].send_key)
    BY <1>3, <1>9 DEF KeysChangeAt
  <2> QED
    BY <2>1, <2>2, <2>3 DEF Phase
<1>17. 0 \in 0 .. Len(toServer) /\ 0 \in 0 .. Len(toClient)
  BY <1>3
<1> QED
  BY <1>1, <1>10, <1>11, <1>12, <1>13, <1>14, <1>15, <1>16, <1>17 DEF IndInv, TypeInv

\* Every step of a connection whose client requests no updates keeps it.
LEMMA IndInvNext ==
    ASSUME ClientRequests \subseteq {FALSE}
    PROVE  IndInv /\ [Next]_vars => IndInv'
<1> SUFFICES ASSUME IndInv, [Next]_vars PROVE IndInv'
  OBVIOUS
<1>1. ASSUME NEW p \in Party, SendBytes(p) PROVE IndInv'
  BY <1>1, ClientSends, ServerSends DEF Party
<1>2. ASSUME NEW p \in Party, SendBytesUpdate(p) PROVE IndInv'
  BY <1>2, ClientUpdates, ServerUpdates DEF Party
<1>3. ASSUME NEW p \in Party, ReadMessage(p) PROVE IndInv'
  BY <1>3, Reads
<1>4. ASSUME NEW p \in Party, ProcessApplication(p) PROVE IndInv'
  BY <1>4, ClientDelivers, ServerDelivers DEF Party
<1>5. ASSUME NEW p \in Party, ProcessSignaling(p) PROVE IndInv'
  BY <1>5, ClientProcesses, ServerProcesses DEF Party
<1>6. CASE UNCHANGED vars
  <2>1. /\ hs' = hs /\ codec' = codec /\ inbox' = inbox /\ held' = held /\ sent' = sent
        /\ delivered' = delivered /\ commits' = commits /\ error' = error
    BY <1>6 DEF vars
  <2>2. toServer' = toServer /\ toClient' = toClient
    BY <2>1 DEF toServer, toClient
  <2>3. TypeOK' /\ NoError' /\ Numbered'
    BY <2>1, <2>2 DEF IndInv, TypeOK, NoError, Numbered
  <2>4. Pending' /\ Sessions' /\ Keys' /\ Ages'
    BY <2>1, QuietStep
  <2>5. PICK m \in 0 .. Len(toServer), n \in 0 .. Len(toClient) : Phase(m, n)
    BY DEF IndInv
  <2>6. Phase(m, n)'
    <3>1. (Idle(m, n) \/ Ahead(m, n) \/ Answered(m, n))'
      BY <2>1, <2>2, <2>5
         DEF Phase, Idle, Ahead, Answered, SameEpoch, UpdateUnderWay, ConfirmationUnderWay,
             cgroup, sgroup, clientWaits, serverWaits
    <3> QED
      BY <2>1, <2>2, <2>5, <3>1 DEF Phase
  <2> QED
    BY <2>2, <2>3, <2>4, <2>5, <2>6 DEF IndInv
<1> QED
  BY <1>1, <1>2, <1>3, <1>4, <1>5, <1>6 DEF Next

\* The inductive invariant holds of every connection in which the client asks
\* for no update of the server's, which MlsHandshake::update_handshake never
\* does.
THEOREM Invariance ==
    ASSUME ClientRequests \subseteq {FALSE}
    PROVE  Spec => []IndInv
BY IndInvInit, IndInvNext, PTL DEF Spec

\* In such a connection every record decrypts: both sides switch ciphers at
\* the same record, however their updates cross.
THEOREM EveryRecordDecrypts ==
    ASSUME ClientRequests \subseteq {FALSE}
    PROVE  Spec => []RecordsDecrypt
BY Invariance, IndInvDecrypts, PTL

\* No application of such a connection is ever given an error.
THEOREM NoApplicationError ==
    ASSUME ClientRequests \subseteq {FALSE}
    PROVE  Spec => []NoError
<1>1. IndInv => NoError
  BY DEF IndInv
<1> QED
  BY <1>1, Invariance, PTL

\* The groups of the two members never fork.
THEOREM GroupsNeverFork ==
    ASSUME ClientRequests \subseteq {FALSE}
    PROVE  Spec => []NoFork
<1>1. ASSUME IndInv PROVE NoFork
  <2>1. PICK m \in 0 .. Len(toServer), n \in 0 .. Len(toClient) : Phase(m, n)
    BY <1>1 DEF IndInv
  <2>2. /\ cgroup.epoch \in Nat /\ sgroup.epoch \in Nat
        /\ toServer \in Seq(Record)
    BY <1>1, PartTypes DEF IndInv, Group
  <2>3. CASE SameEpoch
    BY <2>2, <2>3 DEF SameEpoch, NoFork, cgroup, sgroup
  <2>4. CASE Ahead(m, n) /\ ConfirmationUnderWay(toServer[m].payload)
    BY <2>2, <2>4 DEF ConfirmationUnderWay, NoFork, cgroup, sgroup
  <2>5. CASE Ahead(m, n) /\ UpdateUnderWay(toServer[m].payload)
    <3>1. m \in 1 .. Len(toServer)
      BY <2>1, <2>2, <2>5 DEF Ahead
    <3>2. PICK commit \in Commit : commit = toServer[m].payload.mls_commit
      <4>1. toServer[m].payload \in InnerPlaintext
        BY <2>2, <3>1, RecordsOf
      <4> QED
        BY <4>1 DEF InnerPlaintext
    <3>3. /\ commit.id = cgroup.secret /\ commit.epoch + 1 = cgroup.epoch
          /\ \/ commit.epoch = sgroup.epoch /\ commit.base = sgroup.secret
             \/ commit.epoch = sgroup.epoch + 1
      BY <2>5, <3>2 DEF UpdateUnderWay
    <3>4. commit.epoch \in Nat
      BY DEF Commit
    <3>5. CASE commit.epoch = sgroup.epoch + 1
      BY <2>2, <3>3, <3>4, <3>5 DEF NoFork, cgroup, sgroup
    <3>6. CASE commit.epoch = sgroup.epoch /\ commit.base = sgroup.secret
      <4>1. commit = [epoch |-> sgroup.epoch, base |-> sgroup.secret, id |-> cgroup.secret]
        BY <3>3, <3>6 DEF Commit
      <4>2. \E i \in 1 .. Len(inbox["server"]) :
              LET c == inbox["server"][i].payload.mls_commit
              IN  c = [epoch |-> sgroup.epoch, base |-> sgroup.secret, id |-> cgroup.secret]
        BY <3>1, <3>2, <4>1 DEF toServer
      <4>3. sgroup.epoch <= cgroup.epoch /\ cgroup.epoch # sgroup.epoch
        BY <2>2, <3>3, <3>6
      <4> QED
        BY <4>2, <4>3 DEF NoFork, cgroup, sgroup
    <3> QED
      BY <3>3, <3>5, <3>6
  <2> QED
    BY <2>1, <2>3, <2>4, <2>5 DEF Phase, Idle, Ahead, Answered
<1> QED
  BY <1>1, Invariance, PTL

\* When nothing is in flight both parties agree on epoch, group and keys, and
\* nobody waits.
THEOREM AgreementAtRest ==
    ASSUME ClientRequests \subseteq {FALSE}
    PROVE  Spec => []QuiescentAgreement
<1>1. ASSUME IndInv, Quiescent PROVE QuiescentAgreement
  <2>1. PICK m \in 0 .. Len(toServer), n \in 0 .. Len(toClient) : Phase(m, n)
    BY <1>1 DEF IndInv
  <2>2. toServer = << >> /\ toClient = << >>
    BY <1>1 DEF Quiescent, toServer, toClient, Party
  <2>3. m = 0 /\ n = 0
    BY <2>1, <2>2
  <2>4. ~clientWaits /\ SameEpoch /\ Offer(toClient, 0, sgroup.pending)
    BY <2>1, <2>3 DEF Phase, Idle, Ahead, Answered
  <2>5. sgroup.pending = NoCommit
    BY <2>2, <2>4 DEF Offer
  <2>6. ~serverWaits /\ cgroup.pending = NoCommit
    BY <1>1, <2>5 DEF IndInv, Pending
  <2>7. cgroup = sgroup
    <3>1. cgroup \in Group /\ sgroup \in Group
      BY <1>1, PartTypes DEF IndInv
    <3> QED
      BY <2>4, <2>5, <2>6, <3>1 DEF SameEpoch, Group
  <2>8. /\ hs["client"].internal_state = Running /\ hs["server"].internal_state = Running
        /\ \A p \in Party : hs[p].epoch = hs[p].group.epoch
    BY <1>1, <2>4, <2>6 DEF IndInv, Sessions
  <2>9. /\ codec["client"].send_key = codec["server"].recv_key
        /\ codec["server"].send_key = codec["client"].recv_key
        /\ codec["client"].send_key.secret = cgroup.secret
        /\ codec["server"].send_key.secret = sgroup.secret
    BY <1>1, <2>1, <2>3 DEF IndInv, Keys, Phase, KeysChangeAt, expand_secret
  <2>10. /\ codec["client"].send_seq = codec["server"].recv_seq
         /\ codec["server"].send_seq = codec["client"].recv_seq
    <3>1. /\ \A p \in Party : codec[p].send_seq \in Nat /\ codec[p].recv_seq \in Nat
          /\ held["client"] \in {0, 1} /\ held["server"] \in {0, 1}
      BY <1>1, PartTypes DEF IndInv
    <3> QED
      BY <1>1, <2>2, <3>1 DEF IndInv, Numbered, Consecutive, Party
  <2> QED
    BY <2>5, <2>7, <2>8, <2>9, <2>10 DEF QuiescentAgreement, Party, Peer, cgroup, sgroup
<1>2. IndInv => QuiescentAgreement
  BY <1>1 DEF QuiescentAgreement
<1> QED
  BY <1>2, Invariance, PTL

-----------------------------------------------------------------------------
(***************************************************************************)
(* The action properties.                                                  *)
(***************************************************************************)

\* Whom a step of p leaves alone.
LEMMA PeerUntouched ==
    ASSUME TypeInv, NEW p \in Party,
           \/ SendBytes(p) \/ SendBytesUpdate(p) \/ ReadMessage(p)
           \/ ProcessApplication(p) \/ ProcessSignaling(p)
    PROVE  hs'[Peer(p)] = hs[Peer(p)] /\ codec'[Peer(p)] = codec[Peer(p)]
<1>1. Peer(p) \in Party /\ Peer(p) # p
  BY PeerFacts
<1>2. hs \in [Party -> Handshake] /\ codec \in [Party -> Codec]
  BY DEF TypeInv, TypeOK
<1>3. (\E state : hs' = [hs EXCEPT ![p] = state]) \/ hs' = hs
  BY DEF SendBytes, SendBytesUpdate, ReadMessage, ProcessApplication, ProcessSignaling
<1>4. (\E c : codec' = [codec EXCEPT ![p] = c]) \/ codec' = codec
  <2>1. ASSUME SendBytes(p) PROVE codec' = [codec EXCEPT ![p] = after_encrypt(codec[p])]
    BY <2>1 DEF SendBytes
  <2>2. ASSUME ReadMessage(p)
        PROVE  codec' = codec \/ codec' = [codec EXCEPT ![p] = after_decrypt(codec[p])]
    BY <2>2 DEF ReadMessage
  <2>3. ASSUME SendBytesUpdate(p)
        PROVE  (\E c : codec' = [codec EXCEPT ![p] = c]) \/ codec' = codec
    BY <2>3 DEF SendBytesUpdate
  <2>4. ASSUME ProcessSignaling(p) PROVE \E c : codec' = [codec EXCEPT ![p] = c]
    BY <2>4 DEF ProcessSignaling
  <2> QED
    BY <2>1, <2>2, <2>3, <2>4 DEF ProcessApplication
<1> QED
  BY <1>1, <1>2, <1>3, <1>4

\* Sending without an update, reading, and delivering leave the state machine
\* and the keys of the party alone.
LEMMA QuietActions ==
    ASSUME TypeInv, NEW p \in Party,
           SendBytes(p) \/ ReadMessage(p) \/ ProcessApplication(p)
    PROVE  /\ hs' = hs
           /\ codec'[p].send_key = codec[p].send_key
           /\ codec'[p].recv_key = codec[p].recv_key
<1>1. hs' = hs
  BY DEF SendBytes, ReadMessage, ProcessApplication
<1>2. codec[p] \in Codec /\ codec \in [Party -> Codec]
  BY DEF TypeInv, TypeOK
<1>3. codec'[p] \in {codec[p], after_encrypt(codec[p]), after_decrypt(codec[p])}
  BY <1>2 DEF SendBytes, ReadMessage, ProcessApplication
<1> QED
  BY <1>1, <1>2, <1>3 DEF after_encrypt, after_decrypt, Codec

\* The server's own update stays in the epoch, and under its keys.
LEMMA ServerUpdateStays ==
    ASSUME IndInv, SendBytesUpdate("server")
    PROVE  /\ sgroup'.epoch = sgroup.epoch /\ sgroup'.secret = sgroup.secret
<1>1. TypeInv /\ "server" \in Party
  BY IndInvType DEF Party
<1>2. PICK requested :
        hs' = [hs EXCEPT !["server"] = server_update(hs["server"], requested, commits + 1).state]
  BY DEF SendBytesUpdate, update_handshake
<1> DEFINE made == update(sgroup, commits + 1)
<1>3. /\ made.group.epoch = sgroup.epoch /\ made.group.secret = sgroup.secret
  BY <1>1, PartTypes DEF TypeInv, update, Group
<1>4. server_update(hs["server"], requested, commits + 1).state.group \in {sgroup, made.group}
  <2>1. hs["server"] \in Handshake
    BY <1>1, PartTypes DEF TypeInv
  <2>2. self_update_and_wait(hs["server"], requested, commits + 1, NoSecretUpdate) =
          IF made.ok
          THEN Done([hs["server"] EXCEPT !.internal_state = WaitingForUpdate,
                                         !.group = made.group],
                    1, ConnectionUpdate(made.commit, requested), NoSecretUpdate)
          ELSE Failed("ResumptionError", [hs["server"] EXCEPT !.group = made.group])
    BY DEF self_update_and_wait, sgroup
  <2> HIDE DEF made
  <2>3. self_update_and_wait(hs["server"], requested, commits + 1,
                             NoSecretUpdate).state.group = made.group
    <3> DEFINE waits == [hs["server"] EXCEPT !.internal_state = WaitingForUpdate,
                                             !.group = made.group]
               fails == [hs["server"] EXCEPT !.group = made.group]
    <3>1. waits.group = made.group /\ fails.group = made.group
      BY <2>1 DEF Handshake
    <3>2. self_update_and_wait(hs["server"], requested, commits + 1, NoSecretUpdate) =
            IF made.ok
            THEN Done(waits, 1, ConnectionUpdate(made.commit, requested), NoSecretUpdate)
            ELSE Failed("ResumptionError", fails)
      BY <2>2
    <3> HIDE DEF waits, fails
    <3>3. /\ Done(waits, 1, ConnectionUpdate(made.commit, requested), NoSecretUpdate).state
               = waits
          /\ Failed("ResumptionError", fails).state = fails
      BY DEF Done, Failed
    <3> QED
      BY <3>1, <3>2, <3>3, Zenon
  <2> QED
    BY <2>3 DEF server_update, Failed, sgroup
<1> HIDE DEF made
<1> QED
  BY <1>1, <1>2, <1>3, <1>4 DEF TypeInv, TypeOK, sgroup

\* After the server has handled a signaling message both are in one epoch.
LEMMA ServerCatchesUp ==
    ASSUME IndInv, IndInv', ProcessSignaling("server")
    PROVE  SameEpoch'
<1>1. /\ toServer \in Seq(Record) /\ Len(toServer) >= 1
      /\ toServer[1].payload.type \in SignalingType /\ toServer' = Tail(toServer)
  BY Processes DEF Party, toServer
<1>2. PICK m \in 0 .. Len(toServer), n \in 0 .. Len(toClient) : Phase(m, n)
  BY DEF IndInv
<1>3. OnlyAt(toServer, SignalingType, m) /\ m \in Nat /\ m = 1
  BY <1>1, <1>2 DEF Phase, OnlyAt
<1>4. OnlyAt(toServer', SignalingType, 0)
  <2>1. OnlyAt(Tail(toServer), SignalingType, IF m = 0 THEN 0 ELSE m - 1)
    BY <1>1, <1>3, OnlyAtTail
  <2> QED
    BY <1>1, <1>3, <2>1
<1>5. PICK i \in 0 .. Len(toServer'), j \in 0 .. Len(toClient') : Phase(i, j)'
  BY DEF IndInv
<1>6. i = 0
  BY <1>4, <1>5 DEF Phase, OnlyAt
<1> QED
  BY <1>5, <1>6 DEF Phase, Idle, Ahead, Answered

\* The server's group moves only to the epoch that the client is in already.
THEOREM ServerOnlyFollows ==
    ASSUME ClientRequests \subseteq {FALSE}
    PROVE  Spec => ServerFollowsClient
<1> DEFINE Step == hs'["server"].group.epoch # hs["server"].group.epoch =>
                     /\ hs'["server"].group.epoch = hs'["client"].group.epoch
                     /\ hs'["server"].group.secret = hs'["client"].group.secret
<1>1. ASSUME IndInv, IndInv', [Next]_vars PROVE [Step]_hs
  <2>1. TypeInv
    BY <1>1, IndInvType
  <2>2. CASE \E p \in Party : SendBytes(p) \/ ReadMessage(p) \/ ProcessApplication(p)
    BY <2>1, <2>2, QuietActions
  <2>3. CASE SendBytesUpdate("client") \/ ProcessSignaling("client")
    BY <2>1, <2>3, PeerUntouched DEF Party, Peer
  <2>4. CASE SendBytesUpdate("server")
    BY <1>1, <2>4, ServerUpdateStays DEF sgroup
  <2>5. CASE ProcessSignaling("server")
    BY <1>1, <2>5, ServerCatchesUp DEF SameEpoch, cgroup, sgroup
  <2>6. CASE UNCHANGED vars
    BY <2>6 DEF vars
  <2> QED
    BY <1>1, <2>2, <2>3, <2>4, <2>5, <2>6 DEF Next, Party
<1> QED
  BY <1>1, Invariance, PTL DEF Spec, ServerFollowsClient

\* A waiting client makes no update, and its group stays as it is whatever
\* signaling message it handles; an update of the server it ignores altogether.
LEMMA WaitingClientStays ==
    ASSUME IndInv, clientWaits
    PROVE  /\ ~SendBytesUpdate("client")
           /\ ProcessSignaling("client") =>
                /\ cgroup' = cgroup
                /\ toClient[1].payload.type = "ConnectionUpdate" =>
                     codec'["client"] = codec["client"]
<1>1. TypeInv /\ "client" \in Party
  BY IndInvType DEF Party
<1>2. ~SendBytesUpdate("client")
  BY DEF SendBytesUpdate, update_handshake, client_update, clientWaits, Failed
<1>3. ASSUME ProcessSignaling("client"), toClient[1].payload.type = "ConnectionUpdate"
      PROVE  cgroup' = cgroup /\ codec'["client"] = codec["client"]
  <2>1. process_signaling_message("client", toClient[1].payload) =
          Done(hs["client"], 0, NoMessage, NoSecretUpdate)
    BY <1>3 DEF process_signaling_message, client_receive_signaling_message, clientWaits
  <2>2. update_traffic_secrets(codec["client"], "client", NoSecretUpdate) = codec["client"]
    BY <1>1, PartTypes, SecretChange DEF TypeInv
  <2> QED
    BY <1>1, <1>3, <2>1, <2>2, Processes DEF Done, toClient, cgroup
<1>4. ASSUME ProcessSignaling("client"), toClient[1].payload.type # "ConnectionUpdate"
      PROVE  cgroup' = cgroup
  <2> DEFINE r == process_signaling_message("client", toClient[1].payload)
             taken == [hs["client"] EXCEPT !.internal_state = Running]
  <2>1. hs'["client"] = r.state /\ toClient[1].payload.type \in SignalingType
    BY <1>1, <1>4, Processes DEF toClient
  <2>2. \E expected, u :
          r = client_receive_confirmation(hs["client"], toClient[1].payload, expected, u)
    BY <1>4, <2>1
       DEF process_signaling_message, client_receive_signaling_message, SignalingType
  <2>3. \A expected, u :
          client_receive_confirmation(hs["client"], toClient[1].payload, expected, u).state
            = taken
    BY DEF client_receive_confirmation, Failed, Done
  <2>4. taken.group = hs["client"].group
    BY <1>1, PartTypes DEF TypeInv, Handshake
  <2> HIDE DEF r, taken
  <2> QED
    BY <2>1, <2>2, <2>3, <2>4 DEF cgroup
<1> QED
  BY <1>2, <1>3, <1>4

\* What the client does never takes it back to an older secret.
LEMMA ClientMovesForward ==
    ASSUME IndInv, IndInv', SendBytesUpdate("client") \/ ProcessSignaling("client")
    PROVE  /\ cgroup'.secret >= cgroup.secret
           /\ codec'["client"].recv_key.secret >= codec["client"].recv_key.secret
<1>1. TypeInv /\ "client" \in Party /\ Peer("client") = "server"
  BY IndInvType DEF Party, Peer
<1>2. sgroup' = sgroup /\ codec'["server"] = codec["server"]
  BY <1>1, PeerUntouched DEF sgroup
<1>3. /\ cgroup.secret \in Nat /\ sgroup.secret \in Nat /\ cgroup'.secret \in Nat
      /\ codec["client"].recv_key.secret \in Nat
  <2>1. TypeOK /\ TypeOK'
    BY DEF IndInv
  <2>2. cgroup \in Group /\ sgroup \in Group /\ codec["client"].recv_key \in Key
    BY <1>1, <2>1, PartTypes
  <2>3. cgroup' \in Group
    <3>1. hs'["client"] \in Handshake
      BY <1>1, <2>1 DEF TypeOK
    <3> QED
      BY <3>1 DEF cgroup, Handshake
  <2> QED
    BY <2>2, <2>3 DEF Group, Key
<1>4. PICK m \in 0 .. Len(toServer), n \in 0 .. Len(toClient) : Phase(m, n)
  BY DEF IndInv
<1>5. cgroup'.secret >= cgroup.secret
  <2>1. CASE clientWaits
    BY <1>3, <2>1, WaitingClientStays
  <2>2. CASE ~clientWaits
    <3>1. cgroup.secret = sgroup.secret
      BY <1>4, <2>2 DEF Phase, Idle, Ahead, Answered, SameEpoch
    <3>2. sgroup'.secret <= cgroup'.secret
      BY DEF IndInv, Ages
    <3> QED
      BY <1>2, <1>3, <3>1, <3>2
  <2> QED
    BY <2>1, <2>2
<1>6. codec'["client"].recv_key.secret >= codec["client"].recv_key.secret
  <2>1. PICK i \in 0 .. Len(toServer'), j \in 0 .. Len(toClient') : Phase(i, j)'
    BY DEF IndInv
  <2>2. CASE j = 0
    <3>1. codec'["client"].recv_key = codec["server"].send_key
      BY <1>2, <2>1, <2>2 DEF Phase, KeysChangeAt
    <3>2. codec["server"].send_key.secret = sgroup.secret
      BY DEF IndInv, Keys, expand_secret
    <3>3. codec["client"].recv_key.secret <= sgroup.secret
      BY DEF IndInv, Ages
    <3> QED
      BY <1>3, <3>1, <3>2, <3>3
  <2>3. CASE j # 0 /\ ProcessSignaling("client")
    <3>1. /\ toClient \in Seq(Record) /\ Len(toClient) >= 1 /\ toClient' = Tail(toClient)
          /\ toClient[1].payload.type \in SignalingType
      BY <1>1, <2>3, Processes DEF toClient
    <3>2. j > 0 /\ j \in 1 .. Len(toClient') /\ toClient'[j].payload.type = "EpochKeyUpdate"
      BY <2>1, <2>3, <3>1, LenProperties, HeadTail DEF Phase
    <3>3. j + 1 \in 1 .. Len(toClient) /\ toClient[j + 1].payload.type = "EpochKeyUpdate"
      BY <3>1, <3>2, HeadTail
    <3>4. OnlyAt(toClient, {"EpochKeyUpdate", "ConnectionConfirmation"}, n)
      BY <1>4 DEF Phase
    <3>5. n = j + 1 /\ toClient[1].payload.type = "ConnectionUpdate"
      BY <3>1, <3>2, <3>3, <3>4 DEF OnlyAt, SignalingType
    <3>6. clientWaits
      BY <1>4, <3>2, <3>5 DEF Phase, Idle, Ahead, Answered
    <3> QED
      BY <1>3, <2>3, <3>5, <3>6, WaitingClientStays
  <2>4. CASE j # 0 /\ SendBytesUpdate("client")
    <3>1. toClient' = toClient /\ toClient \in Seq(Record)
      <4>1. (\E q : inbox' = [inbox EXCEPT !["server"] = q]) \/ inbox' = inbox
        BY <2>4 DEF SendBytesUpdate, Peer
      <4>2. inbox \in [Party -> Seq(Record)]
        BY <1>1 DEF TypeInv, TypeOK
      <4> QED
        BY <1>1, <4>1, <4>2 DEF toClient, Party
    <3>2. j \in 1 .. Len(toClient) /\ toClient[j].payload.type = "EpochKeyUpdate"
      BY <2>1, <2>4, <3>1, LenProperties DEF Phase
    <3>3. n = j
      BY <1>4, <3>2 DEF Phase, OnlyAt
    <3>4. clientWaits
      BY <1>4, <3>2, <3>3 DEF Phase, Idle, Ahead, Answered
    <3> QED
      BY <2>4, <3>4, WaitingClientStays
  <2> QED
    BY <2>2, <2>3, <2>4
<1> QED
  BY <1>5, <1>6

\* No party ever goes back to an older key in either direction.
THEOREM KeysOnlyMoveForward ==
    ASSUME ClientRequests \subseteq {FALSE}
    PROVE  Spec => KeysMoveForward
<1> DEFINE Forward(p) == /\ codec'[p].send_key.secret >= codec[p].send_key.secret
                         /\ codec'[p].recv_key.secret >= codec[p].recv_key.secret
<1>1. ASSUME IndInv, IndInv', [Next]_vars PROVE [\A p \in Party : Forward(p)]_codec
  <2>1. TypeInv /\ "client" \in Party /\ "server" \in Party
    BY <1>1, IndInvType DEF Party
  <2>2. \A p \in Party : codec[p].send_key.secret \in Nat /\ codec[p].recv_key.secret \in Nat
    BY <2>1, PartTypes DEF TypeInv, Key
  <2>3. /\ codec["client"].send_key.secret = cgroup.secret
        /\ codec["server"].send_key.secret = sgroup.secret
        /\ codec["server"].recv_key.secret = sgroup.secret
        /\ codec'["client"].send_key.secret = cgroup'.secret
        /\ codec'["server"].send_key.secret = sgroup'.secret
        /\ codec'["server"].recv_key.secret = sgroup'.secret
    BY <1>1 DEF IndInv, Keys, expand_secret
  <2>4. ASSUME NEW p \in Party, codec'[p] = codec[p] PROVE Forward(p)
    BY <2>2, <2>4
  <2>5. ASSUME NEW p \in Party, SendBytes(p) \/ ReadMessage(p) \/ ProcessApplication(p)
        PROVE  \A q \in Party : Forward(q)
    <3>1. Forward(p)
      BY <2>1, <2>2, <2>5, QuietActions
    <3>2. Peer(p) \in Party /\ Forward(Peer(p)) /\ \A q \in Party : q = p \/ q = Peer(p)
      BY <2>1, <2>4, <2>5, PeerUntouched, PeerFacts DEF Party, Peer
    <3> HIDE DEF Forward
    <3> QED
      BY <3>1, <3>2
  <2>6. CASE SendBytesUpdate("client") \/ ProcessSignaling("client")
    <3>1. Forward("server")
      BY <2>1, <2>4, <2>6, PeerUntouched DEF Peer
    <3>2. Forward("client")
      BY <1>1, <2>3, <2>6, ClientMovesForward
    <3> HIDE DEF Forward
    <3> QED
      BY <3>1, <3>2 DEF Party
  <2>7. CASE SendBytesUpdate("server") \/ ProcessSignaling("server")
    <3>1. Forward("client") /\ cgroup' = cgroup
      BY <2>1, <2>4, <2>7, PeerUntouched DEF Peer, cgroup
    <3>2. sgroup'.secret >= sgroup.secret
      <4>1. sgroup.secret \in Nat /\ cgroup.secret \in Nat /\ sgroup.secret <= cgroup.secret
        BY <1>1, <2>1, PartTypes DEF TypeInv, Group, IndInv, Ages
      <4>2. sgroup'.secret = sgroup.secret \/ sgroup'.secret = cgroup'.secret
        BY <1>1, <2>7, ServerUpdateStays, ServerCatchesUp DEF SameEpoch
      <4> QED
        BY <3>1, <4>1, <4>2
    <3>3. Forward("server")
      BY <2>3, <3>2
    <3> HIDE DEF Forward
    <3> QED
      BY <3>1, <3>3 DEF Party
  <2>8. CASE UNCHANGED vars
    BY <2>8 DEF vars
  <2> HIDE DEF Forward
  <2> QED
    BY <1>1, <2>5, <2>6, <2>7, <2>8 DEF Next, Party
<1> QED
  BY <1>1, Invariance, PTL DEF Spec, KeysMoveForward

-----------------------------------------------------------------------------
\* The connection as a secure channel.

\* What handlers send is a signaling message.
Announces(r) == r.error = "ok" => r.message.type \in SignalingType

Replies(r) == r.message = NoMessage \/ r.message.type \in SignalingType

LEMMA ResultKinds ==
    \A state, made, secret, commit, requested, e, kind :
        /\ LET r == Done(state, made, ConnectionUpdate(commit, requested), secret)
           IN  Announces(r) /\ Replies(r)
        /\ Replies(Done(state, made, EpochKeyUpdate(e), secret))
        /\ Replies(Done(state, made, NoMessage, secret))
        /\ kind # "ok" => Announces(Failed(kind, state))
        /\ Replies(Failed(kind, state))
BY DEF Done, Failed, ConnectionUpdate, EpochKeyUpdate, Announces, Replies, SignalingType

LEMMA UpdatesAnnounce ==
    ASSUME NEW p \in Party, NEW requested
    PROVE  Announces(update_handshake(p, requested))
<1>1. ASSUME NEW state, NEW fresh
      PROVE  Announces(client_update(state, requested, fresh))
  BY ResultKinds DEF client_update, self_update_and_merge
<1>2. ASSUME NEW state, NEW fresh
      PROVE  Announces(server_update(state, requested, fresh))
  BY ResultKinds DEF server_update, self_update_and_wait
<1> QED
  BY <1>1, <1>2 DEF update_handshake

LEMMA HandlersReply ==
    ASSUME NEW p \in Party, NEW message, message.type \in SignalingType
    PROVE  Replies(process_signaling_message(p, message))
<1> USE ResultKinds
<1>1. ASSUME NEW state, NEW requested, NEW fresh, NEW u
      PROVE  /\ Replies(self_update_and_merge(state, requested, fresh))
             /\ Replies(self_update_and_wait(state, requested, fresh, u))
  BY DEF self_update_and_merge, self_update_and_wait
<1>2. ASSUME NEW state, NEW fresh
      PROVE  Replies(client_receive_signaling_message(state, message, fresh))
  <2>1. Replies(client_process_update(state, message, fresh))
    BY <1>1 DEF client_process_update, create_epoch_key_update
  <2>2. \A expected, u : Replies(client_receive_confirmation(state, message, expected, u))
    BY DEF client_receive_confirmation
  <2> QED
    BY <2>1, <2>2 DEF client_receive_signaling_message, SignalingType
<1>3. ASSUME NEW state, NEW fresh
      PROVE  Replies(server_receive_signaling_message(state, message, fresh))
  <2>1. Replies(server_process_update(state, message, fresh))
    BY <1>1 DEF server_process_update, create_epoch_key_update
  <2>2. Replies(server_receive_epoch_key_update(state, message))
    BY DEF server_receive_epoch_key_update, create_epoch_key_update
  <2> QED
    BY <2>1, <2>2 DEF server_receive_signaling_message, SignalingType
<1> QED
  BY <1>2, <1>3 DEF process_signaling_message

\* The application bytes in q are those after d, up to s, in order.
Carries(q, d, s) ==
    LET bytes == {i \in 1 .. Len(q) : q[i].payload.type = "Application"}
    IN  /\ d <= s
        /\ \A i \in bytes : d < q[i].payload.data /\ q[i].payload.data <= s
        /\ \A i, j \in bytes : i < j => q[i].payload.data < q[j].payload.data
        /\ \A n \in d + 1 .. s : \E i \in bytes : q[i].payload.data = n

\* In both directions.
InOrder == \A p \in Party : Carries(inbox[p], delivered[p], sent[Peer(p)])

LEMMA DataType ==
    ASSUME NEW q \in Seq(Record)
    PROVE  Len(q) \in Nat /\ \A i \in 1 .. Len(q) : q[i].payload.data \in Nat
BY RecordsOf, LenProperties DEF InnerPlaintext

\* A signaling message changes nothing for the application.
LEMMA CarriesSignaling ==
    ASSUME NEW q \in Seq(Record), NEW d \in Nat, NEW s \in Nat, Carries(q, d, s),
           NEW a \in Record, a.payload.type # "Application"
    PROVE  Carries(Append(q, a), d, s)
<1>1. \A i \in 1 .. Len(q) + 1 : Append(q, a)[i].payload.type = "Application" =>
         i \in 1 .. Len(q) /\ Append(q, a)[i] = q[i]
  BY AppendRecord
<1>2. Len(Append(q, a)) = Len(q) + 1 /\ \A i \in 1 .. Len(q) : Append(q, a)[i] = q[i]
  BY AppendRecord
<1>3. {i \in 1 .. Len(Append(q, a)) : Append(q, a)[i].payload.type = "Application"} =
        {i \in 1 .. Len(q) : q[i].payload.type = "Application"}
  BY <1>1, <1>2, DataType
<1> QED
  BY <1>2, <1>3 DEF Carries

\* The next bytes are appended.
LEMMA CarriesNext ==
    ASSUME NEW q \in Seq(Record), NEW d \in Nat, NEW s \in Nat, Carries(q, d, s),
           NEW a \in Record, a.payload.type = "Application", a.payload.data = s + 1
    PROVE  Carries(Append(q, a), d, s + 1)
<1> DEFINE t == Append(q, a)
<1>1. /\ Len(q) \in Nat /\ Len(t) = Len(q) + 1 /\ t[Len(q) + 1] = a
      /\ \A i \in 1 .. Len(q) : t[i] = q[i] /\ q[i].payload.data \in Nat
  BY AppendRecord, DataType
<1> HIDE DEF t
<1>2. d <= s + 1
  BY DEF Carries
<1>3. ASSUME NEW i \in 1 .. Len(t), t[i].payload.type = "Application"
      PROVE  d < t[i].payload.data /\ t[i].payload.data <= s + 1
  BY <1>1, <1>3 DEF Carries
<1>4. ASSUME NEW i \in 1 .. Len(t), t[i].payload.type = "Application",
             NEW j \in 1 .. Len(t), t[j].payload.type = "Application", i < j
      PROVE  t[i].payload.data < t[j].payload.data
  <2>1. i \in 1 .. Len(q) /\ t[i] = q[i] /\ q[i].payload.data <= s
    BY <1>1, <1>4 DEF Carries
  <2>2. CASE j = Len(q) + 1
    BY <1>1, <2>1, <2>2
  <2>3. CASE j # Len(q) + 1
    <3>1. j \in 1 .. Len(q) /\ t[j] = q[j]
      BY <1>1, <2>3
    <3> QED
      BY <1>4, <2>1, <3>1 DEF Carries
  <2> QED
    BY <2>2, <2>3
<1>5. ASSUME NEW n \in d + 1 .. s + 1
      PROVE  \E i \in 1 .. Len(t) : t[i].payload.type = "Application" /\ t[i].payload.data = n
  <2>1. CASE n = s + 1
    BY <1>1, <2>1
  <2>2. CASE n # s + 1
    <3>1. n \in d + 1 .. s
      BY <2>2
    <3>2. PICK i \in 1 .. Len(q) : q[i].payload.type = "Application" /\ q[i].payload.data = n
      BY <3>1 DEF Carries
    <3> QED
      BY <1>1, <3>2
  <2> QED
    BY <2>1, <2>2
<1> QED
  BY <1>2, <1>3, <1>4, <1>5 DEF Carries, t

\* Taking a signaling message changes nothing for the application either.
LEMMA CarriesTail ==
    ASSUME NEW q \in Seq(Record), Len(q) >= 1, NEW d \in Nat, NEW s \in Nat,
           Carries(q, d, s), q[1].payload.type # "Application"
    PROVE  Carries(Tail(q), d, s)
<1> DEFINE t == Tail(q)
<1>1. /\ Len(q) \in Nat /\ Len(t) = Len(q) - 1
      /\ \A i \in 1 .. Len(t) : t[i] = q[i + 1] /\ i + 1 \in 1 .. Len(q)
  BY HeadTail, DataType
<1> HIDE DEF t
<1>2. ASSUME NEW n \in d + 1 .. s
      PROVE  \E i \in 1 .. Len(t) : t[i].payload.type = "Application" /\ t[i].payload.data = n
  <2>1. PICK i \in 1 .. Len(q) : q[i].payload.type = "Application" /\ q[i].payload.data = n
    BY DEF Carries
  <2>2. i # 1 /\ i - 1 \in 1 .. Len(t) /\ t[i - 1] = q[i]
    BY <1>1, <2>1
  <2> QED
    BY <2>1, <2>2
<1>3. ASSUME NEW i \in 1 .. Len(t), t[i].payload.type = "Application"
      PROVE  d < t[i].payload.data /\ t[i].payload.data <= s
  <2>1. t[i] = q[i + 1] /\ i + 1 \in 1 .. Len(q)
    BY <1>1
  <2>2. d < q[i + 1].payload.data /\ q[i + 1].payload.data <= s
    BY <1>3, <2>1 DEF Carries
  <2> QED
    BY <2>1, <2>2
<1>4. ASSUME NEW i \in 1 .. Len(t), t[i].payload.type = "Application",
             NEW j \in 1 .. Len(t), t[j].payload.type = "Application", i < j
      PROVE  t[i].payload.data < t[j].payload.data
  <2>1. /\ t[i] = q[i + 1] /\ i + 1 \in 1 .. Len(q)
        /\ t[j] = q[j + 1] /\ j + 1 \in 1 .. Len(q) /\ i + 1 < j + 1
    BY <1>1, <1>4
  <2>2. q[i + 1].payload.data < q[j + 1].payload.data
    BY <1>4, <2>1 DEF Carries
  <2> QED
    BY <2>1, <2>2
<1>5. d <= s
  BY DEF Carries
<1> QED
  BY <1>2, <1>3, <1>4, <1>5 DEF Carries, t

\* The first application bytes are the next ones to be delivered.
LEMMA CarriesDelivery ==
    ASSUME NEW q \in Seq(Record), Len(q) >= 1, NEW d \in Nat, NEW s \in Nat,
           Carries(q, d, s), q[1].payload.type = "Application"
    PROVE  q[1].payload.data = d + 1 /\ d < s /\ Carries(Tail(q), d + 1, s)
<1> DEFINE t == Tail(q)
<1>1. /\ Len(q) \in Nat /\ Len(t) = Len(q) - 1
      /\ \A i \in 1 .. Len(q) : q[i].payload.data \in Nat
      /\ \A i \in 1 .. Len(t) : t[i] = q[i + 1] /\ i + 1 \in 1 .. Len(q)
  BY HeadTail, DataType
<1> HIDE DEF t
<1>2. 1 \in 1 .. Len(q) /\ d < q[1].payload.data /\ q[1].payload.data <= s
  BY <1>1 DEF Carries
<1>3. q[1].payload.data = d + 1
  <2>1. PICK i \in 1 .. Len(q) : q[i].payload.type = "Application" /\ q[i].payload.data = d + 1
    BY <1>1, <1>2 DEF Carries
  <2>2. i = 1 \/ q[1].payload.data < q[i].payload.data
    BY <1>1, <1>2, <2>1 DEF Carries
  <2> QED
    BY <1>1, <1>2, <2>1, <2>2
<1>4. ASSUME NEW i \in 1 .. Len(t), t[i].payload.type = "Application"
      PROVE  d + 1 < t[i].payload.data /\ t[i].payload.data <= s
  <2>1. t[i] = q[i + 1] /\ i + 1 \in 1 .. Len(q) /\ 1 < i + 1
    BY <1>1
  <2>2. q[1].payload.data < q[i + 1].payload.data /\ q[i + 1].payload.data <= s
    BY <1>2, <1>4, <2>1 DEF Carries
  <2> QED
    BY <1>1, <1>3, <2>1, <2>2
<1>5. ASSUME NEW i \in 1 .. Len(t), t[i].payload.type = "Application",
             NEW j \in 1 .. Len(t), t[j].payload.type = "Application", i < j
      PROVE  t[i].payload.data < t[j].payload.data
  <2>1. /\ t[i] = q[i + 1] /\ i + 1 \in 1 .. Len(q)
        /\ t[j] = q[j + 1] /\ j + 1 \in 1 .. Len(q) /\ i + 1 < j + 1
    BY <1>1, <1>5
  <2>2. q[i + 1].payload.data < q[j + 1].payload.data
    BY <1>5, <2>1 DEF Carries
  <2> QED
    BY <2>1, <2>2
<1>6. ASSUME NEW n \in (d + 1) + 1 .. s
      PROVE  \E i \in 1 .. Len(t) : t[i].payload.type = "Application" /\ t[i].payload.data = n
  <2>1. PICK i \in 1 .. Len(q) : q[i].payload.type = "Application" /\ q[i].payload.data = n
    BY DEF Carries
  <2>2. i # 1 /\ i - 1 \in 1 .. Len(t) /\ t[i - 1] = q[i]
    BY <1>1, <1>3, <2>1
  <2> QED
    BY <2>1, <2>2
<1>7. d + 1 <= s /\ d < s
  BY <1>1, <1>2
<1>8. Carries(t, d + 1, s)
  BY <1>4, <1>5, <1>6, <1>7 DEF Carries
<1> QED
  BY <1>3, <1>7, <1>8 DEF t

\* What is behind the names, for a party and its peer.
LEMMA ChannelTypes ==
    ASSUME IndInv, InOrder, NEW p \in Party
    PROVE  /\ Peer(p) \in Party /\ Peer(p) # p /\ Peer(Peer(p)) = p
           /\ \A q \in Party : q = p \/ q = Peer(p)
           /\ inbox \in [Party -> Seq(Record)] /\ codec \in [Party -> Codec]
           /\ sent \in [Party -> Nat] /\ delivered \in [Party -> Nat]
           /\ \A q \in Party : held[q] <= Len(inbox[q])
           /\ Carries(inbox[p], delivered[p], sent[Peer(p)])
           /\ Carries(inbox[Peer(p)], delivered[Peer(p)], sent[p])
<1>1. TypeInv
  BY IndInvType
<1>2. \A q \in Party : q = p \/ q = Peer(p)
  BY DEF Party, Peer
<1> QED
  BY <1>1, <1>2, PeerFacts DEF TypeInv, TypeOK, InOrder

\* send_bytes without an update sends the next bytes.
LEMMA SendIsSend ==
    ASSUME IndInv, InOrder, NEW p \in Party, SendBytes(p)
    PROVE  InOrder' /\ Channel!Send(p)
<1> DEFINE a == encrypt(codec[p], NextBytes(p))
<1>1. a \in Record /\ a.payload.type = "Application" /\ a.payload.data = sent[p] + 1
  <2>1. NextBytes(p) \in InnerPlaintext
    BY NextBytesType DEF IndInv
  <2>2. codec[p] \in Codec
    BY ChannelTypes
  <2> QED
    BY <2>1, <2>2, CodecType DEF encrypt, NextBytes, Application
<1>2. /\ inbox' = [inbox EXCEPT ![Peer(p)] = Append(@, a)]
      /\ sent' = [sent EXCEPT ![p] = @ + 1] /\ delivered' = delivered
  BY DEF SendBytes
<1> HIDE DEF a
<1>3. Carries(Append(inbox[Peer(p)], a), delivered[Peer(p)], sent[p] + 1)
  BY <1>1, ChannelTypes, CarriesNext
<1>4. InOrder'
  BY <1>2, <1>3, ChannelTypes DEF InOrder
<1> QED
  BY <1>2, <1>4 DEF Channel!Send

\* send_bytes with an update sends the bytes behind the signaling message.
LEMMA UpdateIsSend ==
    ASSUME IndInv, InOrder, NEW p \in Party, SendBytesUpdate(p)
    PROVE  InOrder' /\ (Channel!Send(p) \/ UNCHANGED <<sent, delivered>>)
<1>1. PICK requested \in Requests(p) :
        LET r       == update_handshake(p, requested)
            updated == update_traffic_secrets(after_encrypt(codec[p]), p, r.secret_update)
        IN  \/ /\ r.error = "ok"
               /\ inbox' = [inbox EXCEPT ![Peer(p)] =
                                Append(Append(@, encrypt(codec[p], r.message)),
                                       encrypt(updated, NextBytes(p)))]
               /\ sent' = [sent EXCEPT ![p] = @ + 1]
            \/ UNCHANGED <<inbox, sent>>
  BY DEF SendBytesUpdate
<1>2. delivered' = delivered
  BY DEF SendBytesUpdate
<1>3. CASE UNCHANGED <<inbox, sent>>
  BY <1>2, <1>3 DEF InOrder
<1>4. CASE ~UNCHANGED <<inbox, sent>>
  <2> DEFINE r == update_handshake(p, requested)
             updated == update_traffic_secrets(after_encrypt(codec[p]), p, r.secret_update)
             a == encrypt(codec[p], r.message)
             b == encrypt(updated, NextBytes(p))
  <2>1. r \in Result /\ r.message.type \in SignalingType
    BY <1>1, <1>4, HandlerType, UpdatesAnnounce DEF IndInv, Announces
  <2>2. codec[p] \in Codec /\ updated \in Codec
    <3>1. after_encrypt(codec[p]) \in Codec /\ codec[p] \in Codec
      BY CodecType, ChannelTypes
    <3> HIDE DEF r
    <3> QED
      BY <2>1, <3>1, CodecType DEF Result
  <2>3. a \in Record /\ a.payload.type # "Application"
    <3> HIDE DEF r
    <3> QED
      BY <2>1, <2>2, CodecType DEF Result, encrypt, SignalingType
  <2>4. b \in Record /\ b.payload.type = "Application" /\ b.payload.data = sent[p] + 1
    <3>1. NextBytes(p) \in InnerPlaintext
      BY NextBytesType DEF IndInv
    <3> HIDE DEF updated
    <3> QED
      BY <2>2, <3>1, CodecType DEF encrypt, NextBytes, Application
  <2>5. /\ inbox' = [inbox EXCEPT ![Peer(p)] = Append(Append(@, a), b)]
        /\ sent' = [sent EXCEPT ![p] = @ + 1]
    BY <1>1, <1>4
  <2> HIDE DEF a, b
  <2>6. /\ Append(inbox[Peer(p)], a) \in Seq(Record)
        /\ Carries(Append(inbox[Peer(p)], a), delivered[Peer(p)], sent[p])
    BY <2>3, ChannelTypes, CarriesSignaling, AppendRecord
  <2>7. Carries(Append(Append(inbox[Peer(p)], a), b), delivered[Peer(p)], sent[p] + 1)
    BY <2>4, <2>6, ChannelTypes, CarriesNext
  <2>8. InOrder'
    BY <1>2, <2>5, <2>7, ChannelTypes DEF InOrder
  <2> QED
    BY <1>2, <2>5, <2>8 DEF Channel!Send
<1> QED
  BY <1>3, <1>4

\* process_read_message on application bytes delivers the next ones.
LEMMA ProcessIsDeliver ==
    ASSUME IndInv, InOrder, NEW p \in Party, ProcessApplication(p)
    PROVE  InOrder' /\ Channel!Deliver(p)
<1> DEFINE q == inbox[p]
<1>1. q \in Seq(Record) /\ Len(q) >= 1 /\ Head(q) = q[1]
  BY ChannelTypes, HeadTail DEF ProcessApplication
<1>2. /\ q[1].payload.type = "Application" /\ sent' = sent
      /\ delivered' = [delivered EXCEPT ![p] = q[1].payload.data]
      /\ inbox' = [inbox EXCEPT ![p] = Tail(@)]
  BY <1>1 DEF ProcessApplication
<1>3. /\ q[1].payload.data = delivered[p] + 1 /\ delivered[p] < sent[Peer(p)]
      /\ Carries(Tail(q), delivered[p] + 1, sent[Peer(p)])
  <2>1. Carries(q, delivered[p], sent[Peer(p)])
    BY ChannelTypes
  <2>2. delivered[p] \in Nat /\ sent[Peer(p)] \in Nat
    BY ChannelTypes
  <2> HIDE DEF q
  <2> QED
    BY <1>1, <1>2, <2>1, <2>2, CarriesDelivery
<1>4. delivered' = [delivered EXCEPT ![p] = @ + 1]
  BY <1>2, <1>3, ChannelTypes
<1>5. InOrder'
  BY <1>2, <1>3, <1>4, ChannelTypes DEF InOrder
<1> QED
  BY <1>2, <1>3, <1>4, <1>5 DEF Channel!Deliver

\* process_read_message on a signaling message does not touch the applications.
LEMMA SignalingIsSilent ==
    ASSUME IndInv, InOrder, NEW p \in Party, ProcessSignaling(p)
    PROVE  InOrder' /\ UNCHANGED <<sent, delivered>>
<1>1. sent' = sent /\ delivered' = delivered
  BY DEF ProcessSignaling
<1> DEFINE q == inbox[p]
           r == process_signaling_message(p, q[1].payload)
           a == encrypt(codec[p], r.message)
<1>2. /\ q \in Seq(Record) /\ Len(q) >= 1
      /\ q[1].payload \in InnerPlaintext /\ q[1].payload.type \in SignalingType
      /\ inbox'[p] = Tail(q)
      /\ inbox'[Peer(p)] = IF r.message # NoMessage THEN Append(inbox[Peer(p)], a)
                           ELSE inbox[Peer(p)]
  BY Processes
<1>3. q[1].payload.type # "Application"
  BY <1>2 DEF SignalingType
<1>4. Carries(inbox'[p], delivered[p], sent[Peer(p)])
  <2>1. Carries(q, delivered[p], sent[Peer(p)])
    BY ChannelTypes
  <2>2. delivered[p] \in Nat /\ sent[Peer(p)] \in Nat
    BY ChannelTypes
  <2> QED
    BY <1>2, <1>3, <2>1, <2>2, CarriesTail
<1>5. Carries(inbox'[Peer(p)], delivered[Peer(p)], sent[p])
  <2>1. CASE r.message = NoMessage
    BY <1>2, <2>1, ChannelTypes
  <2>2. CASE r.message # NoMessage
    <3>1. r \in Result /\ r.message.type \in SignalingType
      BY <1>2, <1>3, <2>2, HandlerType, HandlersReply DEF IndInv, Replies
    <3>2. a \in Record /\ a.payload.type # "Application"
      <4>1. codec[p] \in Codec
        BY ChannelTypes
      <4> HIDE DEF r
      <4> QED
        BY <3>1, <4>1, CodecType DEF Result, encrypt, SignalingType
    <3> HIDE DEF a
    <3> QED
      BY <1>2, <2>2, <3>2, ChannelTypes, CarriesSignaling
  <2> QED
    BY <2>1, <2>2
<1>6. InOrder'
  BY <1>1, <1>4, <1>5, ChannelTypes DEF InOrder
<1> QED
  BY <1>1, <1>6

\* Every step of the connection is a step of the channel, or none.
LEMMA ChannelStep ==
    ASSUME IndInv, InOrder, [Next]_vars
    PROVE  InOrder' /\ [Channel!Next]_(Channel!vars)
<1> USE DEF Channel!vars
<1>1. ASSUME NEW p \in Party, SendBytes(p) PROVE InOrder' /\ Channel!Next
  BY <1>1, SendIsSend DEF Channel!Next
<1>2. ASSUME NEW p \in Party, SendBytesUpdate(p)
      PROVE  InOrder' /\ [Channel!Next]_(Channel!vars)
  BY <1>2, UpdateIsSend DEF Channel!Next
<1>3. ASSUME NEW p \in Party, ProcessApplication(p) PROVE InOrder' /\ Channel!Next
  BY <1>3, ProcessIsDeliver DEF Channel!Next
<1>4. ASSUME NEW p \in Party, ProcessSignaling(p)
      PROVE  InOrder' /\ UNCHANGED Channel!vars
  BY <1>4, SignalingIsSilent
<1>5. ASSUME NEW p \in Party, ReadMessage(p)
      PROVE  InOrder' /\ UNCHANGED Channel!vars
  <2>1. decrypt(codec[p], Head(inbox[p]))
    BY <1>5, IndInvDecrypts DEF RecordsDecrypt, ReadMessage
  <2> QED
    BY <1>5, <2>1 DEF ReadMessage, InOrder
<1>6. ASSUME UNCHANGED vars PROVE InOrder' /\ UNCHANGED Channel!vars
  BY <1>6 DEF vars, InOrder
<1> QED
  BY <1>1, <1>2, <1>3, <1>4, <1>5, <1>6 DEF Next

\* In a connection whose client requests no updates, whatever key updates the
\* two sides make: the application bytes of each side are delivered to the
\* other in the order of send_bytes, none twice, none skipped and none that
\* was not sent.
THEOREM ConnectionIsChannel ==
    ASSUME ClientRequests \subseteq {FALSE}
    PROVE  Spec => Channel!Safety
<1>1. Init => InOrder /\ Channel!Init
  <2> SUFFICES ASSUME Init PROVE InOrder /\ Channel!Init
    OBVIOUS
  <2>1. /\ \A p \in Party : inbox[p] = << >> /\ delivered[p] = 0 /\ sent[p] = 0
        /\ \A p \in Party : Peer(p) \in Party
    BY PeerFacts DEF Init
  <2>2. Carries(<< >>, 0, 0)
    BY DEF Carries
  <2> QED
    BY <2>1, <2>2 DEF InOrder, Init, Channel!Init
<1>2. IndInv /\ InOrder /\ [Next]_vars => InOrder' /\ [Channel!Next]_(Channel!vars)
  BY ChannelStep
<1> QED
  BY <1>1, <1>2, Invariance, PTL DEF Spec, Channel!Safety

-----------------------------------------------------------------------------
\* Every epoch has a secret of its own, so that an update that ends has changed
\* the key that it was to change.

\* A client that is ahead of the server has another secret than it.
EpochsDiffer == cgroup.epoch # sgroup.epoch => cgroup.secret # sgroup.secret

\* A self-update that succeeds moves the client to a fresh secret.
LEMMA MergeFresh ==
    ASSUME NEW state, state.group \in Group, NEW requested, NEW fresh \in Nat, fresh > 0,
           self_update_and_merge(state, requested, fresh).error = "ok"
    PROVE  /\ self_update_and_merge(state, requested, fresh).state.group.secret = fresh
           /\ self_update_and_merge(state, requested, fresh).state.internal_state.tag
                = "WaitingForEpochKeyUpdate"
<1> DEFINE made == update(state.group, fresh)
           commit == [epoch |-> state.group.epoch, base |-> state.group.secret, id |-> fresh]
<1>1. made.ok
  BY DEF self_update_and_merge, Failed
<1>2. made.group = [state.group EXCEPT !.pending = commit]
  BY <1>1 DEF update
<1>3. made.group.pending = commit /\ commit # NoCommit
  BY <1>2 DEF Group, NoCommit
<1>4. merge_update(made.group).secret = fresh
  BY <1>3 DEF merge_update
<1> HIDE DEF made
<1> QED
  BY <1>1, <1>4 DEF self_update_and_merge, Done, Waiting, made

\* The facts about the client's groups that the next lemmas use.
LEMMA SecretTypes ==
    ASSUME IndInv
    PROVE  /\ commits \in Nat /\ hs["client"].group \in Group /\ hs["client"] \in Handshake
           /\ cgroup.secret \in Nat /\ sgroup.secret \in Nat
           /\ cgroup.epoch \in Nat /\ sgroup.epoch \in Nat
           /\ cgroup.secret <= commits /\ sgroup.secret <= cgroup.secret
<1>1. TypeOK /\ Ages
  BY DEF IndInv
<1>2. cgroup \in Group /\ sgroup \in Group /\ commits \in Nat /\ hs["client"] \in Handshake
  BY <1>1, PartTypes DEF TypeOK
<1> QED
  BY <1>1, <1>2 DEF Group, Ages, cgroup

\* update_handshake of a client: a fresh secret, and the wait for the server.
LEMMA ClientUpdateFresh ==
    ASSUME IndInv, IndInv', SendBytesUpdate("client")
    PROVE  cgroup'.secret = commits + 1 /\ clientWaits'
<1>1. PICK requested :
        LET r == client_update(hs["client"], requested, commits + 1)
        IN  /\ r.error # "WaitingForResponse"
            /\ hs' = [hs EXCEPT !["client"] = r.state]
            /\ r.error # "ok" => error' = [error EXCEPT !["client"] = r.error]
  BY DEF SendBytesUpdate, update_handshake
<1> DEFINE r == client_update(hs["client"], requested, commits + 1)
<1>2. r = self_update_and_merge(hs["client"], requested, commits + 1)
  BY <1>1 DEF client_update, Failed
<1>3. r.error = "ok"
  <2>1. error'["client"] = "ok" /\ error \in [Party -> ErrorKind]
    BY DEF IndInv, NoError, TypeOK, Party
  <2> QED
    BY <1>1, <2>1 DEF Party
<1>4. r.state.group.secret = commits + 1 /\ r.state.internal_state.tag = "WaitingForEpochKeyUpdate"
  BY <1>2, <1>3, SecretTypes, MergeFresh
<1>5. hs'["client"] = r.state
  BY <1>1 DEF IndInv, TypeOK, Party
<1> QED
  BY <1>4, <1>5 DEF cgroup, clientWaits, client_is_waiting

\* A client that answers the server's update with one of its own, likewise.
LEMMA ClientAnswerFresh ==
    ASSUME IndInv, IndInv', ProcessSignaling("client"), ~clientWaits,
           hs'["client"].internal_state.tag = "WaitingForEpochKeyUpdate"
    PROVE  cgroup'.secret = commits + 1
<1> DEFINE message == toClient[1].payload
           r == process_signaling_message("client", message)
<1>1. message \in InnerPlaintext /\ message.type \in SignalingType /\ hs'["client"] = r.state
  BY Processes DEF Party, toClient
<1>2. r = client_receive_signaling_message(hs["client"], message, commits + 1)
  BY DEF process_signaling_message
<1>3. r.error = "ok"
  <2>1. error'["client"] = "ok" /\ error \in [Party -> ErrorKind]
    BY DEF IndInv, NoError, TypeOK, Party
  <2>2. Head(inbox["client"]) = toClient[1]
    BY Processes, HeadTail DEF Party, toClient
  <2>3. error' = [error EXCEPT !["client"] = r.error]
    BY <2>2 DEF ProcessSignaling
  <2> QED
    BY <2>1, <2>3 DEF Party
<1>4. CASE message.type # "ConnectionUpdate"
  <2>1. \A expected, u :
          client_receive_confirmation(hs["client"], message, expected, u).state
            = [hs["client"] EXCEPT !.internal_state = Running]
    BY DEF client_receive_confirmation, Failed, Done
  <2>2. r.state = [hs["client"] EXCEPT !.internal_state = Running]
    BY <1>1, <1>2, <1>4, <2>1 DEF client_receive_signaling_message, SignalingType
  <2>3. r.state.internal_state.tag = "Running"
    BY <2>2, SecretTypes DEF Handshake, Running
  <2> QED
    BY <1>1, <2>3
<1>5. CASE message.type = "ConnectionUpdate"
  <2> DEFINE processed == process_mls_update(hs["client"].group, message.mls_commit, FALSE)
             followed == [hs["client"] EXCEPT !.epoch = processed.group.epoch,
                                              !.group = processed.group]
  <2>1. r = client_process_update(hs["client"], message, commits + 1)
    BY <1>2, <1>5 DEF client_receive_signaling_message, clientWaits
  <2>2. processed.group \in Group
    <3>1. message.mls_commit \in Commit
      BY <1>1 DEF InnerPlaintext
    <3> QED
      BY <3>1, SecretTypes, ProcessType
  <2> HIDE DEF processed
  <2>3. followed.group = processed.group
    BY SecretTypes DEF Handshake
  <2>4. CASE processed.ok /\ message.update_requested
    <3>1. r = self_update_and_merge(followed, FALSE, commits + 1)
      BY <2>1, <2>4 DEF client_process_update, processed
    <3> HIDE DEF r, followed
    <3>2. followed.group \in Group /\ commits + 1 \in Nat /\ commits + 1 > 0
      BY <2>2, <2>3, SecretTypes
    <3>3. self_update_and_merge(followed, FALSE, commits + 1).error = "ok"
      BY <1>3, <3>1
    <3>4. r.state.group.secret = commits + 1
      BY <3>1, <3>2, <3>3, MergeFresh
    <3> QED
      BY <1>1, <3>4 DEF cgroup
  <2>5. CASE ~processed.ok
    <3>1. r = Failed("ConnectionUpdateError", [hs["client"] EXCEPT !.group = processed.group])
      BY <2>1, <2>5 DEF client_process_update, processed
    <3> QED
      BY <1>3, <3>1 DEF Failed
  <2>6. CASE processed.ok /\ ~message.update_requested
    <3> DEFINE waits == Waiting("WaitingForEpochKeyUpdateReturn", NoCommit, processed.group.secret)
    <3>1. r = Done([followed EXCEPT !.internal_state = waits], 0,
                   create_epoch_key_update(followed.group), ClientSecret(processed.group.secret))
      BY <2>1, <2>6 DEF client_process_update, processed
    <3>2. [followed EXCEPT !.internal_state = waits].internal_state = waits
      BY SecretTypes DEF Handshake
    <3>3. waits.tag = "WaitingForEpochKeyUpdateReturn"
      BY DEF Waiting
    <3> HIDE DEF waits, followed
    <3>4. r.state = [followed EXCEPT !.internal_state = waits]
      BY <3>1 DEF Done
    <3> QED
      BY <1>1, <3>2, <3>3, <3>4
  <2> QED
    BY <2>4, <2>5, <2>6
<1> QED
  BY <1>4, <1>5

\* Every step keeps the secrets of different epochs apart.
LEMMA EpochsDifferStep ==
    ASSUME IndInv, IndInv', EpochsDiffer, [Next]_vars
    PROVE  EpochsDiffer'
<1>1. TypeInv /\ "client" \in Party /\ "server" \in Party
      /\ Peer("client") = "server" /\ Peer("server") = "client"
  BY IndInvType DEF Party, Peer
<1>2. CASE \E p \in Party : SendBytes(p) \/ ReadMessage(p) \/ ProcessApplication(p)
  BY <1>1, <1>2, QuietActions DEF EpochsDiffer, cgroup, sgroup
<1>3. CASE SendBytesUpdate("client") \/ ProcessSignaling("client")
  <2>1. sgroup' = sgroup
    BY <1>1, <1>3, PeerUntouched DEF sgroup
  <2>2. CASE clientWaits
    BY <1>3, <2>1, <2>2, WaitingClientStays DEF EpochsDiffer
  <2>3. CASE SendBytesUpdate("client")
    BY <2>1, <2>3, ClientUpdateFresh, SecretTypes DEF EpochsDiffer
  <2>4. CASE ProcessSignaling("client") /\ ~clientWaits
    <3>1. PICK i \in 0 .. Len(toServer'), j \in 0 .. Len(toClient') : Phase(i, j)'
      BY DEF IndInv
    <3>2. CASE SameEpoch'
      BY <3>2 DEF SameEpoch, EpochsDiffer
    <3>3. CASE ConfirmationUnderWay(toServer[i].payload)'
      <4>1. /\ cgroup'.secret = sgroup'.pending.id /\ sgroup'.secret < sgroup'.pending.id
        BY <3>3 DEF ConfirmationUnderWay, IndInv, Ages
      <4> QED
        BY <2>1, <4>1, SecretTypes DEF EpochsDiffer
    <3>4. CASE UpdateUnderWay(toServer[i].payload)'
      <4>1. hs'["client"].internal_state.tag = "WaitingForEpochKeyUpdate"
        BY <3>4 DEF UpdateUnderWay
      <4> QED
        BY <2>1, <2>4, <4>1, ClientAnswerFresh, SecretTypes DEF EpochsDiffer
    <3> QED
      BY <3>1, <3>2, <3>3, <3>4 DEF Phase, Idle, Ahead, Answered
  <2> QED
    BY <1>3, <2>2, <2>3, <2>4
<1>4. CASE SendBytesUpdate("server")
  <2>1. cgroup' = cgroup
    BY <1>1, <1>4, PeerUntouched DEF cgroup
  <2> QED
    BY <1>4, <2>1, ServerUpdateStays DEF EpochsDiffer
<1>5. CASE ProcessSignaling("server")
  BY <1>5, ServerCatchesUp DEF SameEpoch, EpochsDiffer
<1>6. CASE UNCHANGED vars
  BY <1>6 DEF vars, EpochsDiffer, cgroup, sgroup
<1> QED
  BY <1>2, <1>3, <1>4, <1>5, <1>6 DEF Next, Party

LEMMA EpochsDifferInit == Init => EpochsDiffer
BY DEF Init, EpochsDiffer, cgroup, sgroup, client_start, server_start, Party

\* After an update of its own a party waits; a client has changed its sending
\* key by then, a server has not.
LEMMA UpdateThenWait ==
    ASSUME IndInv, IndInv'
    PROVE  /\ SendBytesUpdate("client") =>
                clientWaits' /\ codec'["client"].send_key # codec["client"].send_key
           /\ SendBytesUpdate("server") =>
                serverWaits' /\ codec'["server"].send_key = codec["server"].send_key
<1>1. /\ codec["client"].send_key = expand_secret(cgroup.secret, "client")
      /\ codec'["client"].send_key = expand_secret(cgroup'.secret, "client")
      /\ codec["server"].send_key = expand_secret(sgroup.secret, "server")
      /\ codec'["server"].send_key = expand_secret(sgroup'.secret, "server")
  BY DEF IndInv, Keys
<1>2. ASSUME SendBytesUpdate("client")
      PROVE  clientWaits' /\ codec'["client"].send_key # codec["client"].send_key
  <2>1. cgroup'.secret = commits + 1 /\ clientWaits'
    BY <1>2, ClientUpdateFresh
  <2>2. cgroup'.secret # cgroup.secret
    BY <2>1, SecretTypes
  <2> QED
    BY <1>1, <2>1, <2>2 DEF expand_secret
<1>3. ASSUME SendBytesUpdate("server")
      PROVE  serverWaits' /\ codec'["server"].send_key = codec["server"].send_key
  <2>1. sgroup'.secret = sgroup.secret
    BY <1>3, ServerUpdateStays
  <2>2. PICK requested :
          LET r == server_update(hs["server"], requested, commits + 1)
          IN  /\ r.error # "WaitingForResponse"
              /\ hs' = [hs EXCEPT !["server"] = r.state]
              /\ r.error # "ok" => error' = [error EXCEPT !["server"] = r.error]
    BY <1>3 DEF SendBytesUpdate, update_handshake
  <2> DEFINE r == server_update(hs["server"], requested, commits + 1)
  <2>3. r.error = "ok"
    <3>1. error'["server"] = "ok" /\ error \in [Party -> ErrorKind]
      BY DEF IndInv, NoError, TypeOK, Party
    <3> QED
      BY <2>2, <3>1 DEF Party
  <2>4. r = self_update_and_wait(hs["server"], requested, commits + 1, NoSecretUpdate)
    BY <2>2 DEF server_update, Failed
  <2>5. \E g : r.state = [hs["server"] EXCEPT !.internal_state = WaitingForUpdate, !.group = g]
    <3> DEFINE g == update(hs["server"].group, commits + 1).group
    <3>1. r.state = [hs["server"] EXCEPT !.internal_state = WaitingForUpdate, !.group = g]
      BY <2>3, <2>4 DEF self_update_and_wait, Failed, Done
    <3> QED
      BY <3>1
  <2>6. hs["server"] \in Handshake /\ hs'["server"] = r.state
    BY <2>2 DEF IndInv, TypeOK, Party
  <2>7. hs'["server"].internal_state = WaitingForUpdate
    <3> HIDE DEF r
    <3> QED
      BY <2>5, <2>6 DEF Handshake
  <2>8. serverWaits'
    BY <2>7 DEF serverWaits, server_is_waiting, WaitingForUpdate
  <2> QED
    BY <1>1, <2>1, <2>8
<1> QED
  BY <1>2, <1>3

\* A server that handles a signaling message gets a new sending key.
LEMMA ServerChangesKey ==
    ASSUME IndInv, IndInv', EpochsDiffer, ProcessSignaling("server")
    PROVE  codec'["server"].send_key # codec["server"].send_key
<1>1. /\ toServer \in Seq(Record) /\ Len(toServer) >= 1
      /\ toServer[1].payload.type \in SignalingType
  BY Processes DEF Party, toServer
<1>2. PICK m \in 0 .. Len(toServer), n \in 0 .. Len(toClient) : Phase(m, n)
  BY DEF IndInv
<1>3. m = 1
  BY <1>1, <1>2 DEF Phase, OnlyAt
<1>4. cgroup.epoch # sgroup.epoch
  <2>1. toServer[1].payload.mls_commit.epoch \in Nat
    <3>1. toServer[1].payload \in InnerPlaintext
      BY <1>1, RecordsOf
    <3> QED
      BY <3>1 DEF InnerPlaintext, Commit
  <2>2. UpdateUnderWay(toServer[1].payload) \/ ConfirmationUnderWay(toServer[1].payload)
    BY <1>2, <1>3 DEF Phase, Idle, Ahead, Answered
  <2> QED
    BY <2>1, <2>2, SecretTypes DEF UpdateUnderWay, ConfirmationUnderWay
<1>5. cgroup' = cgroup
  <2>1. TypeInv /\ "server" \in Party /\ Peer("server") = "client"
    BY IndInvType DEF Party, Peer
  <2> QED
    BY <2>1, PeerUntouched DEF cgroup
<1>6. sgroup'.secret # sgroup.secret
  BY <1>4, <1>5, ServerCatchesUp DEF SameEpoch, EpochsDiffer
<1> QED
  BY <1>6 DEF IndInv, Keys, expand_secret

-----------------------------------------------------------------------------
(***************************************************************************)
(* What the server sends: offers, with application bytes behind them, and  *)
(* answers, none of which is an offer if the client requests no updates.   *)
(***************************************************************************)

\* Every offer of the records q is directly followed by application bytes.
Leads(q) ==
    \A i \in 1 .. Len(q) :
        q[i].payload.type = "ConnectionUpdate" =>
            i + 1 \in 1 .. Len(q) /\ q[i + 1].payload.type = "Application"

OffersLead == Leads(toClient)

LEMMA LeadsAppend ==
    ASSUME NEW q \in Seq(Record), Leads(q), NEW a \in Record, a.payload.type # "ConnectionUpdate"
    PROVE  Leads(Append(q, a))
<1>1. /\ Len(q) \in Nat /\ Len(Append(q, a)) = Len(q) + 1 /\ Append(q, a)[Len(q) + 1] = a
      /\ \A i \in 1 .. Len(q) : Append(q, a)[i] = q[i]
  BY AppendRecord
<1> DEFINE t == Append(q, a)
<1> HIDE DEF t
<1> SUFFICES ASSUME NEW i \in 1 .. Len(t), t[i].payload.type = "ConnectionUpdate"
             PROVE  i + 1 \in 1 .. Len(t) /\ t[i + 1].payload.type = "Application"
  BY DEF Leads, t
<1>2. i \in 1 .. Len(q) /\ t[i] = q[i]
  BY <1>1 DEF t
<1>3. i + 1 \in 1 .. Len(q) /\ q[i + 1].payload.type = "Application"
  BY <1>2 DEF Leads
<1> QED
  BY <1>1, <1>3 DEF t

LEMMA LeadsOffer ==
    ASSUME NEW q \in Seq(Record), Leads(q), NEW a \in Record, NEW b \in Record,
           b.payload.type = "Application"
    PROVE  Leads(Append(Append(q, a), b))
<1> DEFINE s == Append(q, a)
           t == Append(s, b)
<1>1. /\ Len(q) \in Nat /\ s \in Seq(Record) /\ Len(s) = Len(q) + 1
      /\ \A i \in 1 .. Len(q) : s[i] = q[i]
  BY AppendRecord
<1> HIDE DEF s
<1>2. Len(t) = Len(s) + 1 /\ t[Len(s) + 1] = b /\ \A i \in 1 .. Len(s) : t[i] = s[i]
  BY <1>1, AppendRecord
<1> HIDE DEF t
<1>3. ASSUME NEW i \in 1 .. Len(t), t[i].payload.type = "ConnectionUpdate"
      PROVE  i + 1 \in 1 .. Len(t) /\ t[i + 1].payload.type = "Application"
  <2>1. CASE i \in 1 .. Len(q)
    <3>1. t[i] = q[i]
      BY <1>1, <1>2, <2>1
    <3>2. i + 1 \in 1 .. Len(q) /\ q[i + 1].payload.type = "Application"
      BY <1>3, <2>1, <3>1 DEF Leads
    <3>3. t[i + 1] = q[i + 1]
      BY <1>1, <1>2, <3>2
    <3> QED
      BY <1>1, <1>2, <3>2, <3>3
  <2>2. CASE i = Len(q) + 1
    <3>1. i + 1 = Len(s) + 1 /\ i + 1 \in 1 .. Len(t)
      BY <1>1, <1>2, <2>2
    <3> QED
      BY <1>2, <3>1
  <2>3. CASE i = Len(s) + 1
    <3>1. t[i] = b
      BY <1>2, <2>3
    <3> QED
      BY <1>3, <3>1
  <2> QED
    BY <1>1, <1>2, <2>1, <2>2, <2>3
<1> QED
  BY <1>3 DEF Leads, s, t

LEMMA LeadsTail ==
    ASSUME NEW q \in Seq(Record), Len(q) >= 1, Leads(q)
    PROVE  Leads(Tail(q))
<1> DEFINE t == Tail(q)
<1>1. /\ Len(q) \in Nat /\ Len(t) = Len(q) - 1
      /\ \A i \in 1 .. Len(t) : t[i] = q[i + 1] /\ i + 1 \in 1 .. Len(q)
  BY HeadTail, DataType
<1> HIDE DEF t
<1>2. ASSUME NEW i \in 1 .. Len(t), t[i].payload.type = "ConnectionUpdate"
      PROVE  i + 1 \in 1 .. Len(t) /\ t[i + 1].payload.type = "Application"
  <2>1. (i + 1) + 1 \in 1 .. Len(q) /\ q[(i + 1) + 1].payload.type = "Application"
    BY <1>1, <1>2 DEF Leads
  <2>2. i + 1 \in 1 .. Len(t)
    BY <1>1, <2>1
  <2> QED
    BY <1>1, <2>1, <2>2
<1> QED
  BY <1>2 DEF Leads, t

\* What a handler sends, if anything, is an EpochKeyUpdate.
Confirms(r) == r.message = NoMessage \/ r.message.type = "EpochKeyUpdate"

\* The server answers a message without a request with an EpochKeyUpdate.
LEMMA ServerOnlyConfirms ==
    ASSUME NEW state, NEW message, NEW fresh, message.type \in SignalingType,
           message.type = "ConnectionUpdate" => ~message.update_requested
    PROVE  Confirms(server_receive_signaling_message(state, message, fresh))
<1>1. \A kind, s : Confirms(Failed(kind, s))
  BY DEF Failed, Confirms
<1>2. \A s, made, group, u : Confirms(Done(s, made, create_epoch_key_update(group), u))
  BY DEF Done, create_epoch_key_update, EpochKeyUpdate, Confirms
<1>3. message.type = "ConnectionUpdate" => Confirms(server_process_update(state, message, fresh))
  BY <1>1, <1>2 DEF server_process_update
<1>4. Confirms(server_receive_epoch_key_update(state, message))
  BY <1>1, <1>2 DEF server_receive_epoch_key_update
<1> QED
  BY <1>1, <1>3, <1>4 DEF server_receive_signaling_message, SignalingType

\* The client's messages make no requests.
LEMMA NothingRequested ==
    ASSUME IndInv, NEW i \in 1 .. Len(toServer), toServer[i].payload.type = "ConnectionUpdate"
    PROVE  ~toServer[i].payload.update_requested
<1>1. PICK m \in 0 .. Len(toServer), n \in 0 .. Len(toClient) : Phase(m, n)
  BY DEF IndInv
<1>2. i = m
  BY <1>1 DEF Phase, OnlyAt, SignalingType
<1>3. m > 0
  BY <1>2
<1>4. Ahead(m, n)
  BY <1>1, <1>3 DEF Phase, Idle, Answered
<1> QED
  BY <1>2, <1>4 DEF Ahead, UpdateUnderWay, ConfirmationUnderWay

LEMMA OffersLeadStep ==
    ASSUME IndInv, OffersLead, [Next]_vars
    PROVE  OffersLead'
<1>1. /\ toClient \in Seq(Record) /\ inbox \in [Party -> Seq(Record)] /\ codec \in [Party -> Codec]
      /\ "client" \in Party /\ "server" \in Party /\ Peer("server") = "client"
      /\ Peer("client") = "server" /\ Leads(toClient) /\ TypeOK
  <2>1. TypeInv
    BY IndInvType
  <2> QED
    BY <2>1 DEF TypeInv, TypeOK, Party, Peer, toClient, OffersLead
<1>2. ASSUME inbox'["client"] = inbox["client"] PROVE OffersLead'
  BY <1>1, <1>2 DEF OffersLead, toClient
<1>3. ASSUME SendBytes("client") \/ SendBytesUpdate("client") PROVE OffersLead'
  <2>1. (\E x : inbox' = [inbox EXCEPT !["server"] = x]) \/ inbox' = inbox
    BY <1>1, <1>3 DEF SendBytes, SendBytesUpdate
  <2> QED
    BY <1>1, <1>2, <2>1
<1>4. ASSUME SendBytes("server") PROVE OffersLead'
  <2> DEFINE b == encrypt(codec["server"], NextBytes("server"))
  <2>1. b \in Record /\ b.payload.type = "Application"
    <3>1. NextBytes("server") \in InnerPlaintext
      BY <1>1, <1>4, NextBytesType
    <3> QED
      BY <1>1, <3>1, CodecType DEF encrypt, NextBytes, Application
  <2>2. inbox' = [inbox EXCEPT !["client"] = Append(@, b)]
    BY <1>1, <1>4 DEF SendBytes
  <2> HIDE DEF b
  <2>3. Leads(Append(toClient, b))
    BY <1>1, <2>1, LeadsAppend
  <2> QED
    BY <1>1, <2>2, <2>3 DEF OffersLead, toClient
<1>5. ASSUME SendBytesUpdate("server") PROVE OffersLead'
  <2>1. PICK requested \in Requests("server") :
          LET r       == update_handshake("server", requested)
              updated == update_traffic_secrets(after_encrypt(codec["server"]), "server", r.secret_update)
          IN  \/ /\ r.error = "ok"
                 /\ inbox' = [inbox EXCEPT !["client"] =
                                  Append(Append(@, encrypt(codec["server"], r.message)),
                                         encrypt(updated, NextBytes("server")))]
              \/ inbox' = inbox
    BY <1>1, <1>5 DEF SendBytesUpdate
  <2>2. CASE inbox' = inbox
    BY <1>2, <2>2
  <2>3. CASE inbox' # inbox
    <3> DEFINE r == update_handshake("server", requested)
               updated == update_traffic_secrets(after_encrypt(codec["server"]), "server", r.secret_update)
               a == encrypt(codec["server"], r.message)
               b == encrypt(updated, NextBytes("server"))
    <3>1. r \in Result
      BY <1>1, HandlerType
    <3>2. codec["server"] \in Codec /\ updated \in Codec
      <4>1. after_encrypt(codec["server"]) \in Codec /\ codec["server"] \in Codec
        BY <1>1, CodecType
      <4> HIDE DEF r
      <4> QED
        BY <1>1, <3>1, <4>1, CodecType DEF Result
    <3>3. a \in Record
      <4> HIDE DEF r
      <4> QED
        BY <1>1, <3>1, <3>2, CodecType DEF Result
    <3>4. b \in Record /\ b.payload.type = "Application"
      <4>1. NextBytes("server") \in InnerPlaintext
        BY <1>1, <1>5, NextBytesType
      <4> HIDE DEF updated
      <4> QED
        BY <1>1, <3>2, <4>1, CodecType DEF encrypt, NextBytes, Application
    <3>5. inbox' = [inbox EXCEPT !["client"] = Append(Append(@, a), b)]
      BY <2>1, <2>3
    <3> HIDE DEF a, b
    <3>6. Leads(Append(Append(toClient, a), b))
      BY <1>1, <3>3, <3>4, LeadsOffer
    <3> QED
      BY <1>1, <3>5, <3>6 DEF OffersLead, toClient
  <2> QED
    BY <2>2, <2>3
<1>6. ASSUME NEW p \in Party, ReadMessage(p) PROVE OffersLead'
  <2>1. decrypt(codec[p], Head(inbox[p]))
    BY <1>6, IndInvDecrypts DEF RecordsDecrypt, ReadMessage
  <2> QED
    BY <1>2, <1>6, <2>1 DEF ReadMessage
<1>7. ASSUME NEW p \in Party, ProcessApplication(p) PROVE OffersLead'
  <2>1. inbox' = [inbox EXCEPT ![p] = Tail(@)] /\ Len(inbox[p]) >= 1
    <3>1. held[p] <= Len(inbox[p]) /\ held[p] = 1 /\ Len(inbox[p]) \in Nat
      BY <1>1, <1>7, IndInvType DEF TypeInv, TypeOK, ProcessApplication
    <3> QED
      BY <1>7, <3>1 DEF ProcessApplication
  <2>2. CASE p = "client"
    <3>1. Leads(Tail(toClient))
      BY <1>1, <2>1, <2>2, LeadsTail DEF toClient
    <3> QED
      BY <1>1, <2>1, <2>2, <3>1 DEF OffersLead, toClient
  <2>3. CASE p # "client"
    BY <1>1, <1>2, <2>1, <2>3
  <2> QED
    BY <2>2, <2>3
<1>8. ASSUME ProcessSignaling("client") PROVE OffersLead'
  <2>1. inbox'["client"] = Tail(toClient) /\ Len(toClient) >= 1
    BY <1>1, <1>8, Processes DEF toClient
  <2>2. Leads(Tail(toClient))
    BY <1>1, <2>1, LeadsTail
  <2> QED
    BY <2>1, <2>2 DEF OffersLead, toClient
<1>9. ASSUME ProcessSignaling("server") PROVE OffersLead'
  <2> DEFINE q == inbox["server"]
             r == process_signaling_message("server", q[1].payload)
             a == encrypt(codec["server"], r.message)
  <2>1. /\ q \in Seq(Record) /\ Len(q) >= 1
        /\ q[1].payload \in InnerPlaintext /\ q[1].payload.type \in SignalingType
        /\ inbox'["client"] = IF r.message # NoMessage THEN Append(inbox["client"], a)
                              ELSE inbox["client"]
    BY <1>1, <1>9, Processes
  <2>2. CASE r.message = NoMessage
    BY <1>2, <2>1, <2>2
  <2>3. CASE r.message # NoMessage
    <3>1. 1 \in 1 .. Len(toServer) /\ q = toServer
      BY <2>1 DEF toServer
    <3>2. q[1].payload.type = "ConnectionUpdate" => ~q[1].payload.update_requested
      BY <3>1, NothingRequested
    <3>3. r.message.type = "EpochKeyUpdate"
      <4>1. r = server_receive_signaling_message(hs["server"], q[1].payload, commits + 1)
        BY DEF process_signaling_message
      <4>2. Confirms(r)
        BY <2>1, <3>2, <4>1, ServerOnlyConfirms
      <4> QED
        BY <2>3, <4>2 DEF Confirms
    <3>4. r \in Result
      BY <1>1, <2>1, HandlerType DEF SignalingType
    <3>5. a \in Record /\ a.payload.type # "ConnectionUpdate"
      <4> HIDE DEF r
      <4> QED
        BY <1>1, <3>3, <3>4, CodecType DEF Result, encrypt
    <3> HIDE DEF a
    <3>6. Leads(Append(toClient, a))
      BY <1>1, <3>5, LeadsAppend
    <3> QED
      BY <2>1, <2>3, <3>6 DEF OffersLead, toClient
  <2> QED
    BY <2>2, <2>3
<1>10. ASSUME UNCHANGED vars PROVE OffersLead'
  BY <1>2, <1>10 DEF vars
<1> QED
  BY <1>3, <1>4, <1>5, <1>6, <1>7, <1>8, <1>9, <1>10 DEF Next, Party

\* In a connection whose client requests no updates, every offer of the server
\* has application bytes directly behind it.
THEOREM OffersAreLed ==
    ASSUME ClientRequests \subseteq {FALSE}
    PROVE  Spec => []OffersLead
<1>1. Init => OffersLead
  BY DEF Init, OffersLead, Leads, toClient, Party
<1>2. IndInv /\ OffersLead /\ [Next]_vars => OffersLead'
  BY OffersLeadStep
<1> QED
  BY <1>1, <1>2, Invariance, PTL DEF Spec

=============================================================================
