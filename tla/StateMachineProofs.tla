------------------------- MODULE StateMachineProofs -------------------------
(***************************************************************************)
(* What the operators return that the modules of the connection share: the *)
(* MLS group, the two state machines and the record codec.                 *)
(***************************************************************************)
EXTENDS ClientStateMachine, ServerStateMachine, TlsAead, Sequences, SequenceTheorems, TLAPS

\* The internal states of a party.
Tag(p) == IF p = "client" THEN ClientTag ELSE ServerTag

\* The results of the handlers.
Result ==
    [error : ErrorKind, state : Handshake, made : Nat,
     message : InnerPlaintext, secret_update : SecretUpdates]

\* MlsSession::update returns a commit and a group.
LEMMA UpdateType ==
    ASSUME NEW g \in Group, NEW fresh \in Nat
    PROVE  update(g, fresh) \in [ok : BOOLEAN, commit : Commit, group : Group]
BY DEF update, Group, Commit, NoCommit

\* MlsSession::merge_update returns a group.
LEMMA MergeType ==
    ASSUME NEW g \in Group
    PROVE  merge_update(g) \in Group
BY DEF merge_update, Group, Commit, NoCommit

\* MlsSession::process_mls_update returns a group.
LEMMA ProcessType ==
    ASSUME NEW g \in Group, NEW c \in Commit, NEW drop \in BOOLEAN
    PROVE  process_mls_update(g, c, drop) \in [ok : BOOLEAN, group : Group]
<1>1. resolve_pending(g, c, drop) \in Group
  BY MergeType DEF resolve_pending, Group, Commit, NoCommit
<1> QED
  BY <1>1 DEF process_mls_update, Group, Commit, NoCommit

\* The constructors of plaintexts and secret updates.
LEMMA MessageTypes ==
    /\ \A n \in Nat : /\ Application(n) \in InnerPlaintext
                      /\ EpochKeyUpdate(n) \in InnerPlaintext
                      /\ ClientSecret(n) \in SecretUpdates
                      /\ ServerSecret(n) \in SecretUpdates
                      /\ Both(n) \in SecretUpdates
    /\ \A c \in Commit, b \in BOOLEAN : ConnectionUpdate(c, b) \in InnerPlaintext
    /\ NoMessage \in InnerPlaintext
    /\ NoSecretUpdate \in SecretUpdates
    /\ NoCommit \in Commit
    /\ Running \in Internal
BY DEF Application, EpochKeyUpdate, ConnectionUpdate, InnerPlaintext, NoMessage,
       SignalingType, Commit, NoCommit, ClientSecret, ServerSecret, Both,
       NoSecretUpdate, SecretUpdates, Running, Internal, ClientTag, ServerTag

\* The client's own update leaves it in one of its states.
LEMMA ClientMergeType ==
    ASSUME NEW state \in Handshake, state.internal_state.tag \in ClientTag,
           NEW requested \in BOOLEAN, NEW fresh \in Nat
    PROVE  /\ self_update_and_merge(state, requested, fresh) \in Result
           /\ self_update_and_merge(state, requested, fresh).state.internal_state.tag
                \in ClientTag
<1> DEFINE made == update(state.group, fresh)
           merged == merge_update(made.group)
           waits == Waiting("WaitingForEpochKeyUpdate", made.commit, merged.secret)
<1>1. made \in [ok : BOOLEAN, commit : Commit, group : Group]
  BY UpdateType DEF Handshake
<1>2. merged \in Group
  BY <1>1, MergeType
<1>3. CASE made.ok
  <2>1. self_update_and_merge(state, requested, fresh) =
          Done([epoch |-> merged.epoch, internal_state |-> waits, group |-> merged],
               1, ConnectionUpdate(made.commit, requested), ClientSecret(merged.secret))
    BY <1>3 DEF self_update_and_merge
  <2> HIDE DEF made, merged
  <2>2. /\ waits \in Internal
        /\ waits.tag \in ClientTag
    BY <1>1, <1>2 DEF Waiting, Internal, ClientTag, Group
  <2> HIDE DEF waits
  <2>3. /\ ConnectionUpdate(made.commit, requested) \in InnerPlaintext
        /\ ClientSecret(merged.secret) \in SecretUpdates
        /\ merged.epoch \in Nat
    BY <1>1, <1>2, MessageTypes DEF Group
  <2> QED
    BY <1>2, <2>1, <2>2, <2>3 DEF Done, Result, Handshake, ErrorKind
<1>4. CASE ~made.ok
  <2> HIDE DEF made
  <2> QED
    BY <1>1, <1>4, MessageTypes
       DEF self_update_and_merge, made, Failed, Result, Handshake, ErrorKind
<1> QED
  BY <1>3, <1>4

\* ClientHandshakeState::update leaves the client in one of its states.
LEMMA ClientUpdateType ==
    ASSUME NEW state \in Handshake, state.internal_state.tag \in ClientTag,
           NEW requested \in BOOLEAN, NEW fresh \in Nat
    PROVE  /\ client_update(state, requested, fresh) \in Result
           /\ client_update(state, requested, fresh).state.internal_state.tag \in ClientTag
<1>1. CASE client_is_waiting(state)
  BY <1>1, MessageTypes DEF client_update, Failed, Result, ErrorKind
<1>2. CASE ~client_is_waiting(state)
  BY <1>2, ClientMergeType DEF client_update
<1> QED
  BY <1>1, <1>2

\* ClientHandshakeState::process_update likewise.
LEMMA ClientProcessType ==
    ASSUME NEW state \in Handshake, state.internal_state.tag \in ClientTag,
           NEW message \in InnerPlaintext, NEW fresh \in Nat
    PROVE  /\ client_process_update(state, message, fresh) \in Result
           /\ client_process_update(state, message, fresh).state.internal_state.tag
                \in ClientTag
<1> DEFINE processed == process_mls_update(state.group, message.mls_commit, FALSE)
           followed == [state EXCEPT !.epoch = processed.group.epoch,
                                     !.group = processed.group]
           waits == Waiting("WaitingForEpochKeyUpdateReturn", NoCommit, processed.group.secret)
<1>1. processed \in [ok : BOOLEAN, group : Group]
  BY ProcessType DEF Handshake, InnerPlaintext
<1>2. /\ processed.group \in Group
      /\ processed.group.epoch \in Nat
      /\ processed.group.secret \in Nat
  <2> HIDE DEF processed
  <2> QED BY <1>1 DEF Group
<1>3. CASE ~processed.ok
  <2>1. client_process_update(state, message, fresh) =
          Failed("ConnectionUpdateError", [state EXCEPT !.group = processed.group])
    BY <1>3 DEF client_process_update
  <2> HIDE DEF processed
  <2> QED
    BY <1>2, <2>1, MessageTypes DEF Failed, Result, Handshake, ErrorKind
<1>4. /\ followed \in Handshake
      /\ followed.internal_state.tag \in ClientTag
  <2> HIDE DEF processed
  <2> QED BY <1>2 DEF Handshake
<1>5. CASE processed.ok /\ message.update_requested
  <2>1. client_process_update(state, message, fresh) =
          self_update_and_merge(followed, FALSE, fresh)
    BY <1>5 DEF client_process_update
  <2> HIDE DEF followed
  <2> QED
    BY <1>4, <2>1, ClientMergeType
<1>6. CASE processed.ok /\ ~message.update_requested
  <2>1. client_process_update(state, message, fresh) =
          Done([followed EXCEPT !.internal_state = waits], 0,
               create_epoch_key_update(followed.group), ClientSecret(processed.group.secret))
    BY <1>6 DEF client_process_update
  <2> HIDE DEF processed
  <2>2. /\ waits \in Internal
        /\ waits.tag \in ClientTag
    BY <1>2, MessageTypes DEF Waiting, Internal, ClientTag
  <2> HIDE DEF waits, followed
  <2>3. /\ create_epoch_key_update(followed.group) \in InnerPlaintext
        /\ ClientSecret(processed.group.secret) \in SecretUpdates
    BY <1>2, <1>4, MessageTypes DEF create_epoch_key_update, Handshake, Group
  <2> QED
    BY <1>4, <2>1, <2>2, <2>3 DEF Done, Result, Handshake, ErrorKind
<1> QED
  BY <1>1, <1>3, <1>5, <1>6

\* Every signaling message leaves the client in one of its states.
LEMMA ClientReceiveType ==
    ASSUME NEW state \in Handshake, state.internal_state.tag \in ClientTag,
           NEW message \in InnerPlaintext, message.type # "Application",
           NEW fresh \in Nat
    PROVE  /\ client_receive_signaling_message(state, message, fresh) \in Result
           /\ client_receive_signaling_message(state, message, fresh).state.internal_state.tag
                \in ClientTag
<1>1. message.type \in SignalingType
  BY DEF InnerPlaintext
<1>2. ASSUME NEW expected, NEW u \in SecretUpdates
      PROVE  /\ client_receive_confirmation(state, message, expected, u) \in Result
             /\ client_receive_confirmation(state, message, expected, u).state.internal_state.tag
                  \in ClientTag
  <2> DEFINE taken == [state EXCEPT !.internal_state = Running]
  <2>1. taken \in Handshake /\ taken.internal_state.tag \in ClientTag
    BY MessageTypes DEF Handshake, Running, ClientTag
  <2> HIDE DEF taken
  <2> QED
    BY <1>2, <2>1, MessageTypes
       DEF client_receive_confirmation, taken, Failed, Done, Result, ErrorKind
<1>3. CASE message.type = "ConnectionUpdate" /\ client_is_waiting(state)
  BY <1>3, MessageTypes DEF client_receive_signaling_message, Done, Result, ErrorKind
<1>4. CASE message.type = "ConnectionUpdate" /\ ~client_is_waiting(state)
  BY <1>4, ClientProcessType DEF client_receive_signaling_message
<1>5. CASE message.type = "ConnectionConfirmation"
  BY <1>2, <1>5, MessageTypes DEF client_receive_signaling_message
<1>6. CASE message.type = "EpochKeyUpdate"
  <2>1. ServerSecret(state.internal_state.secrets) \in SecretUpdates
    BY MessageTypes DEF Handshake, Internal
  <2> QED
    BY <1>2, <1>6, <2>1 DEF client_receive_signaling_message
<1> QED
  BY <1>1, <1>3, <1>4, <1>5, <1>6 DEF SignalingType

\* The server's own update leaves it in one of its states.
LEMMA ServerWaitType ==
    ASSUME NEW state \in Handshake, state.internal_state.tag \in ServerTag,
           NEW requested \in BOOLEAN, NEW fresh \in Nat, NEW u \in SecretUpdates
    PROVE  /\ self_update_and_wait(state, requested, fresh, u) \in Result
           /\ self_update_and_wait(state, requested, fresh, u).state.internal_state.tag
                \in ServerTag
<1> DEFINE made == update(state.group, fresh)
<1>1. made \in [ok : BOOLEAN, commit : Commit, group : Group]
  BY UpdateType DEF Handshake
<1>2. WaitingForUpdate \in Internal /\ WaitingForUpdate.tag \in ServerTag
  BY MessageTypes DEF WaitingForUpdate, Internal, ServerTag
<1>3. self_update_and_wait(state, requested, fresh, u) =
        IF made.ok
        THEN Done([state EXCEPT !.internal_state = WaitingForUpdate, !.group = made.group],
                  1, ConnectionUpdate(made.commit, requested), u)
        ELSE Failed("ResumptionError", [state EXCEPT !.group = made.group])
  BY DEF self_update_and_wait
<1> HIDE DEF made
<1>4. ConnectionUpdate(made.commit, requested) \in InnerPlaintext
  BY <1>1, MessageTypes
<1>5. CASE made.ok
  <2> DEFINE waits == [state EXCEPT !.internal_state = WaitingForUpdate, !.group = made.group]
  <2>1. waits \in Handshake /\ waits.internal_state.tag \in ServerTag
    BY <1>1, <1>2 DEF Handshake
  <2>2. self_update_and_wait(state, requested, fresh, u) =
          Done(waits, 1, ConnectionUpdate(made.commit, requested), u)
    BY <1>3, <1>5
  <2> HIDE DEF waits
  <2> QED
    BY <1>4, <2>1, <2>2 DEF Done, Result, ErrorKind
<1>6. CASE ~made.ok
  BY <1>1, <1>3, <1>6, MessageTypes DEF Failed, Result, Handshake, ErrorKind
<1> QED
  BY <1>5, <1>6

\* ServerHandshakeState::update leaves the server in one of its states.
LEMMA ServerUpdateType ==
    ASSUME NEW state \in Handshake, state.internal_state.tag \in ServerTag,
           NEW requested \in BOOLEAN, NEW fresh \in Nat
    PROVE  /\ server_update(state, requested, fresh) \in Result
           /\ server_update(state, requested, fresh).state.internal_state.tag \in ServerTag
<1>1. CASE server_is_waiting(state)
  BY <1>1, MessageTypes DEF server_update, Failed, Result, ErrorKind
<1>2. CASE ~server_is_waiting(state)
  BY <1>2, MessageTypes, ServerWaitType DEF server_update
<1> QED
  BY <1>1, <1>2

\* Every signaling message leaves the server in one of its states.
LEMMA ServerReceiveType ==
    ASSUME NEW state \in Handshake, state.internal_state.tag \in ServerTag,
           NEW message \in InnerPlaintext, message.type # "Application",
           NEW fresh \in Nat
    PROVE  /\ server_receive_signaling_message(state, message, fresh) \in Result
           /\ server_receive_signaling_message(state, message, fresh).state.internal_state.tag
                \in ServerTag
<1>1. message.type \in SignalingType
  BY DEF InnerPlaintext
<1>2. CASE message.type = "ConnectionUpdate"
  <2> DEFINE processed == process_mls_update(state.group, message.mls_commit, TRUE)
             followed == server_follow(state, processed.group)
             both == Both(processed.group.secret)
  <2>1. processed \in [ok : BOOLEAN, group : Group]
    BY ProcessType DEF Handshake, InnerPlaintext
  <2>2. server_receive_signaling_message(state, message, fresh) =
          IF ~processed.ok
          THEN Failed("ConnectionUpdateError", [state EXCEPT !.group = processed.group])
          ELSE IF message.update_requested
               THEN self_update_and_wait(followed, FALSE, fresh, both)
               ELSE Done(followed, 0, create_epoch_key_update(followed.group), both)
    BY <1>2 DEF server_receive_signaling_message, server_process_update
  <2> HIDE DEF processed
  <2>3. processed.group.epoch \in Nat /\ processed.group.secret \in Nat
    BY <2>1 DEF Group
  <2>4. /\ followed \in Handshake
        /\ followed.internal_state.tag \in ServerTag
        /\ followed.group \in Group
        /\ both \in SecretUpdates
    BY <2>1, <2>3, MessageTypes DEF server_follow, Handshake, Running, ServerTag
  <2> HIDE DEF followed, both
  <2>5. create_epoch_key_update(followed.group) \in InnerPlaintext
    BY <2>4, MessageTypes DEF create_epoch_key_update, Group
  <2>6. CASE ~processed.ok
    BY <2>1, <2>2, <2>6, MessageTypes DEF Failed, Result, Handshake, ErrorKind
  <2>7. CASE processed.ok /\ message.update_requested
    BY <2>2, <2>4, <2>7, ServerWaitType
  <2>8. CASE processed.ok /\ ~message.update_requested
    BY <2>2, <2>4, <2>5, <2>8 DEF Done, Result, ErrorKind
  <2> QED
    BY <2>6, <2>7, <2>8
<1>3. CASE message.type = "ConnectionConfirmation"
  BY <1>3, MessageTypes DEF server_receive_signaling_message, Failed, Result, ErrorKind
<1>4. CASE message.type = "EpochKeyUpdate"
  <2> DEFINE merged == [state EXCEPT !.epoch = merge_update(state.group).epoch,
                                     !.group = merge_update(state.group)]
             followed == [merged EXCEPT !.internal_state = Running]
  <2>1. merge_update(state.group) \in Group /\ merge_update(state.group).epoch \in Nat
    BY MergeType DEF Handshake, Group
  <2>2. merged \in Handshake /\ merged.internal_state.tag \in ServerTag
    BY <2>1 DEF Handshake
  <2>3. server_receive_signaling_message(state, message, fresh) =
          IF ~server_is_waiting(state)
          THEN Failed("UnexpectedMessage", state)
          ELSE IF ~process_epoch_key_update(merged.group, message)
               THEN Failed("EpochMismatch", merged)
               ELSE Done(followed, 0, create_epoch_key_update(merged.group),
                         Both(merged.group.secret))
    BY <1>4 DEF server_receive_signaling_message, server_receive_epoch_key_update
  <2> HIDE DEF merged
  <2>4. /\ followed \in Handshake
        /\ followed.internal_state.tag \in ServerTag
    BY <2>2, MessageTypes DEF Handshake, Running, ServerTag
  <2>5. /\ create_epoch_key_update(merged.group) \in InnerPlaintext
        /\ Both(merged.group.secret) \in SecretUpdates
    BY <2>2, MessageTypes DEF create_epoch_key_update, Group, Handshake
  <2> HIDE DEF followed
  <2> QED
    BY <2>2, <2>3, <2>4, <2>5, MessageTypes DEF Failed, Done, Result, ErrorKind
<1> QED
  BY <1>1, <1>2, <1>3, <1>4 DEF SignalingType

\* The two parties.
LEMMA PeerFacts == \A p \in Party : Peer(p) \in Party /\ Peer(p) # p /\ Peer(Peer(p)) = p
BY DEF Peer, Party

\* The codec keeps its type, and what it encrypts is a record.
LEMMA CodecType ==
    ASSUME NEW p \in Party, NEW c \in Codec
    PROVE  /\ after_encrypt(c) \in Codec
           /\ after_decrypt(c) \in Codec
           /\ \A u \in SecretUpdates : update_traffic_secrets(c, p, u) \in Codec
           /\ \A m \in InnerPlaintext : encrypt(c, m) \in Record
<1>1. after_encrypt(c) \in Codec /\ after_decrypt(c) \in Codec
  BY DEF after_encrypt, after_decrypt, Codec
<1>2. \A s \in Nat : expand_secret(s, p) \in Key /\ expand_secret(s, Peer(p)) \in Key
  BY PeerFacts DEF expand_secret, Key
<1>3. ASSUME NEW u \in SecretUpdates PROVE update_traffic_secrets(c, p, u) \in Codec
  <2>1. u.secret \in Nat
    BY DEF SecretUpdates
  <2> QED
    BY <1>2, <2>1 DEF update_traffic_secrets, Codec
<1>4. \A m \in InnerPlaintext : encrypt(c, m) \in Record
  BY DEF encrypt, Record, Codec
<1> QED
  BY <1>1, <1>3, <1>4

\* The first record of a channel, and the others.
LEMMA HeadTail ==
    ASSUME NEW s \in Seq(Record), Len(s) >= 1
    PROVE  /\ s # << >>
           /\ Head(s) = s[1]
           /\ Head(s) \in Record
           /\ Tail(s) \in Seq(Record)
           /\ Len(Tail(s)) = Len(s) - 1
           /\ \A i \in 1 .. Len(s) - 1 : Tail(s)[i] = s[i + 1]
BY HeadTailProperties

\* A record is appended at the end.
LEMMA AppendRecord ==
    ASSUME NEW s \in Seq(Record), NEW a \in Record
    PROVE  /\ Append(s, a) \in Seq(Record)
           /\ Len(Append(s, a)) = Len(s) + 1
           /\ Len(s) \in Nat
           /\ Append(s, a)[Len(s) + 1] = a
           /\ \A i \in 1 .. Len(s) : Append(s, a)[i] = s[i]
BY AppendProperties, LenProperties
-----------------------------------------------------------------------------
(***************************************************************************)
(* What the handlers do in the states that the connection reaches.         *)
(***************************************************************************)

\* A member's group after a commit.
After(commit) ==
    [epoch |-> commit.epoch + 1, secret |-> commit.id, pending |-> NoCommit]

\* The commit a member makes on its group.
CommitOn(group, fresh) ==
    [epoch |-> group.epoch, base |-> group.secret, id |-> fresh]

\* A fresh commit is made in the member's epoch, on its secret.
LEMMA CommitOnFacts ==
    ASSUME NEW g \in Group, NEW fresh \in Nat, fresh > 0
    PROVE  /\ CommitOn(g, fresh) \in Commit
           /\ CommitOn(g, fresh) # NoCommit
           /\ CommitOn(g, fresh).epoch = g.epoch
           /\ CommitOn(g, fresh).base = g.secret
           /\ CommitOn(g, fresh).id = fresh
           /\ After(CommitOn(g, fresh)) \in Group
BY DEF CommitOn, After, Group, Commit, NoCommit

\* A session that follows its group, and one that enters an internal state.
Moved(state, group) == [state EXCEPT !.epoch = group.epoch, !.group = group]

Entered(state, internal) == [state EXCEPT !.internal_state = internal]

\* Both change what they say and nothing else.
LEMMA SessionMoves ==
    ASSUME NEW state \in Handshake, NEW g \in Group, NEW i \in Internal
    PROVE  /\ Moved(state, g) \in Handshake
           /\ Moved(state, g).epoch = g.epoch /\ Moved(state, g).group = g
           /\ Entered(state, i) \in Handshake
           /\ Entered(state, i).epoch = state.epoch
           /\ Entered(state, i).group = state.group
           /\ Entered(state, i).internal_state = i
BY DEF Handshake, Group, Moved, Entered

\* Without a pending commit a client update succeeds and is merged at once.
LEMMA ClientMerges ==
    ASSUME NEW state \in Handshake, NEW requested \in BOOLEAN, NEW fresh \in Nat, fresh > 0,
           state.group.pending = NoCommit
    PROVE  LET commit == CommitOn(state.group, fresh)
           IN  self_update_and_merge(state, requested, fresh) =
                 Done([epoch |-> state.group.epoch + 1,
                       internal_state |-> Waiting("WaitingForEpochKeyUpdate", commit, fresh),
                       group |-> After(commit)],
                      1, ConnectionUpdate(commit, requested), ClientSecret(fresh))
<1> DEFINE commit == CommitOn(state.group, fresh)
           made == update(state.group, fresh)
<1>1. state.group \in Group
  BY DEF Handshake
<1>2. /\ made.ok /\ made.commit = commit
      /\ made.group = [state.group EXCEPT !.pending = commit]
  BY DEF update, CommitOn
<1>3. /\ commit \in Commit /\ commit # NoCommit /\ commit.epoch = state.group.epoch
      /\ commit.id = fresh
  BY <1>1, CommitOnFacts
<1> HIDE DEF made, commit
<1>4. merge_update(made.group) = After(commit)
  BY <1>1, <1>2, <1>3 DEF merge_update, After, Group
<1>5. /\ After(commit).epoch = state.group.epoch + 1
      /\ After(commit).secret = fresh
  BY <1>3 DEF After
<1>6. self_update_and_merge(state, requested, fresh) =
        Done([epoch |-> merge_update(made.group).epoch,
              internal_state |-> Waiting("WaitingForEpochKeyUpdate", made.commit,
                                         merge_update(made.group).secret),
              group |-> merge_update(made.group)],
             1, ConnectionUpdate(made.commit, requested),
             ClientSecret(merge_update(made.group).secret))
  BY <1>2 DEF made, self_update_and_merge
<1> QED
  BY <1>2, <1>4, <1>5, <1>6 DEF commit

\* Without a pending commit a server update succeeds and stays pending.
LEMMA ServerWaits ==
    ASSUME NEW state \in Handshake, NEW requested \in BOOLEAN, NEW fresh \in Nat,
           state.group.pending = NoCommit, ~server_is_waiting(state)
    PROVE  LET commit == CommitOn(state.group, fresh)
           IN  server_update(state, requested, fresh) =
                 Done([state EXCEPT !.internal_state = WaitingForUpdate,
                                    !.group = [state.group EXCEPT !.pending = commit]],
                      1, ConnectionUpdate(commit, requested), NoSecretUpdate)
<1> DEFINE made == update(state.group, fresh)
<1>1. /\ made.ok /\ made.commit = CommitOn(state.group, fresh)
      /\ made.group = [state.group EXCEPT !.pending = CommitOn(state.group, fresh)]
  BY DEF update, CommitOn
<1>2. server_update(state, requested, fresh) =
        Done([state EXCEPT !.internal_state = WaitingForUpdate, !.group = made.group], 1,
             ConnectionUpdate(made.commit, requested), NoSecretUpdate)
  BY <1>1 DEF self_update_and_wait, server_update
<1> HIDE DEF made
<1> QED
  BY <1>1, <1>2

\* A commit made on a group without pending commit is followed.
LEMMA CommitFollowed ==
    ASSUME NEW g \in Group, NEW c \in Commit, NEW drop \in BOOLEAN,
           drop \/ g.pending = NoCommit,
           c.epoch = g.epoch, c.base = g.secret
    PROVE  /\ process_mls_update(g, c, drop).ok
           /\ process_mls_update(g, c, drop).group = After(c)
<1> DEFINE resolved == resolve_pending(g, c, drop)
<1>1. resolved.epoch = g.epoch /\ resolved.secret = g.secret
  BY DEF resolve_pending, Group, Commit
<1> HIDE DEF resolved
<1> QED
  BY <1>1 DEF resolved, process_mls_update, After

\* A commit made on top of the pending commit confirms that one.
LEMMA PendingConfirmed ==
    ASSUME NEW g \in Group, NEW c \in Commit, NEW drop \in BOOLEAN,
           g.pending # NoCommit,
           c.epoch = g.epoch + 1, c.base = g.pending.id
    PROVE  /\ process_mls_update(g, c, drop).ok
           /\ process_mls_update(g, c, drop).group = After(c)
<1> DEFINE resolved == resolve_pending(g, c, drop)
<1>1. resolved.epoch = g.epoch + 1 /\ resolved.secret = g.pending.id
  BY DEF resolve_pending, merge_update, Group, Commit
<1> HIDE DEF resolved
<1> QED
  BY <1>1 DEF resolved, process_mls_update, After

-----------------------------------------------------------------------------
(***************************************************************************)
(* What the handlers give to be sent.                                      *)
(***************************************************************************)

\* What Done and Failed carry.
LEMMA AnswerFields ==
    /\ \A st, n, m, u : /\ Done(st, n, m, u).error = "ok"
                        /\ Done(st, n, m, u).message = m
                        /\ Done(st, n, m, u).secret_update = u
    /\ \A e, st : /\ Failed(e, st).error = e
                  /\ Failed(e, st).message = NoMessage
                  /\ Failed(e, st).secret_update = NoSecretUpdate
    /\ \A c, b : ConnectionUpdate(c, b).type = "ConnectionUpdate"
    /\ \A g : create_epoch_key_update(g).type = "EpochKeyUpdate"
    /\ NoMessage.type = "Application"
BY DEF Done, Failed, ConnectionUpdate, create_epoch_key_update, EpochKeyUpdate, NoMessage,
       Application

\* What is sent is a signaling message, and a failure sends nothing.
Clean(r) ==
    /\ r.message = NoMessage \/ r.message.type # "Application"
    /\ r.error # "ok" => r.message = NoMessage /\ r.secret_update = NoSecretUpdate

LEMMA CleanResults ==
    /\ \A st, n, u : Clean(Done(st, n, NoMessage, u))
    /\ \A st, n, c, b, u : Clean(Done(st, n, ConnectionUpdate(c, b), u))
    /\ \A st, n, g, u : Clean(Done(st, n, create_epoch_key_update(g), u))
    /\ \A e, st : Clean(Failed(e, st))
BY AnswerFields DEF Clean

LEMMA CleanUpdates ==
    ASSUME NEW state, NEW requested, NEW fresh, NEW u
    PROVE  /\ Clean(self_update_and_merge(state, requested, fresh))
           /\ Clean(self_update_and_wait(state, requested, fresh, u))
           /\ Clean(client_update(state, requested, fresh))
           /\ Clean(server_update(state, requested, fresh))
           /\ client_update(state, requested, fresh).error = "ok" =>
                client_update(state, requested, fresh).message # NoMessage
           /\ server_update(state, requested, fresh).error = "ok" =>
                server_update(state, requested, fresh).message # NoMessage
<1>1. /\ Clean(self_update_and_merge(state, requested, fresh))
      /\ self_update_and_merge(state, requested, fresh).error = "ok" =>
           self_update_and_merge(state, requested, fresh).message # NoMessage
  BY CleanResults, AnswerFields DEF self_update_and_merge
<1>2. /\ \A v : Clean(self_update_and_wait(state, requested, fresh, v))
      /\ \A v : self_update_and_wait(state, requested, fresh, v).error = "ok" =>
           self_update_and_wait(state, requested, fresh, v).message # NoMessage
  BY CleanResults, AnswerFields DEF self_update_and_wait
<1> QED
  BY <1>1, <1>2, CleanResults, AnswerFields DEF client_update, server_update

LEMMA CleanAnswers ==
    ASSUME NEW state, NEW message, NEW fresh, message.type \in SignalingType
    PROVE  /\ Clean(client_receive_signaling_message(state, message, fresh))
           /\ Clean(server_receive_signaling_message(state, message, fresh))
<1>1. Clean(client_process_update(state, message, fresh))
  BY CleanResults, CleanUpdates DEF client_process_update
<1>2. \A expected, u : Clean(client_receive_confirmation(state, message, expected, u))
  BY CleanResults DEF client_receive_confirmation
<1>3. Clean(server_process_update(state, message, fresh))
  BY CleanResults, CleanUpdates DEF server_process_update
<1>4. Clean(server_receive_epoch_key_update(state, message))
  BY CleanResults DEF server_receive_epoch_key_update
<1> QED
  BY <1>1, <1>2, <1>3, <1>4, CleanResults
     DEF client_receive_signaling_message, server_receive_signaling_message, SignalingType

=============================================================================
