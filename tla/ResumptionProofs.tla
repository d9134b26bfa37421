-------------------------- MODULE ResumptionProofs --------------------------
(***************************************************************************)
(* Proofs about session resumption, for any number of updates, broken      *)
(* connections and restarts.                                               *)
(***************************************************************************)
EXTENDS Resumption, StateMachineProofs

client == hs["client"]
server == hs["server"]
cgroup == client.group
sgroup == server.group
ctag == client.internal_state.tag
ccommit == client.internal_state.mls_message

toServer == queue["server"]
toClient == queue["client"]

SameEpoch == cgroup.epoch = sgroup.epoch /\ cgroup.secret = sgroup.secret

\* The server follows a commit made in this epoch on this secret, if need be
\* after its own pending commit.
Reaches(epoch, secret) ==
    \/ epoch = sgroup.epoch /\ secret = sgroup.secret
    \/ /\ sgroup.pending # NoCommit
       /\ epoch = sgroup.epoch + 1 /\ secret = sgroup.pending.id

\* The client has made and merged a commit, and remembers it.
Committed ==
    /\ cgroup = After(ccommit)
    /\ client.epoch = cgroup.epoch
    /\ client.internal_state.secrets = cgroup.secret

\* What the row says of the client's state.  It is not stored when the client
\* resumes.
Stored ==
    /\ ctag # "WaitingForConnectionConfirmation" => row = store_update(client)
    /\ ctag = "WaitingForConnectionConfirmation" =>
         \/ /\ row.internal_state.tag \in FreshTags
            /\ ~behind => row.epoch # cgroup.epoch
         \/ /\ row.internal_state = [client.internal_state EXCEPT
                                       !.tag = "WaitingForEpochKeyUpdate"]
            /\ row.epoch = client.epoch

\* While the client has only known states that are not behind, the server
\* follows what it offers, unless it has done so already.
Offers ==
    ~behind =>
        /\ ctag \in FreshTags =>
             /\ cgroup.pending = NoCommit /\ client.epoch = cgroup.epoch
             /\ Reaches(cgroup.epoch, cgroup.secret)
        /\ ctag \notin FreshTags =>
             ccommit \in followed \/ Reaches(ccommit.epoch, ccommit.base)

-----------------------------------------------------------------------------
\* The server's offer, if it has one.
Offer == IF sgroup.pending = NoCommit THEN {<< >>}
         ELSE {<<ConnectionUpdate(sgroup.pending, b)>> : b \in BOOLEAN}

\* Updates of the server that the client will ignore.
Stale == {ConnectionUpdate(c, b) : c \in Commit, b \in BOOLEAN}

\* A connection with an idle client.
Idle ==
    /\ client.internal_state = Running
    /\ toServer = << >> /\ toClient \in Offer
    /\ SameEpoch
    /\ traffic["client"].server_secret = cgroup.secret

\* The client is ahead, and what it has to say to the server under way.
Ahead ==
    /\ toClient = << >> \/ (server_is_waiting(server) /\ \E s \in Stale : toClient = <<s>>)
    /\ \/ /\ ctag = "WaitingForEpochKeyUpdate"
          /\ toServer = <<ConnectionUpdate(ccommit, FALSE)>>
          /\ Reaches(ccommit.epoch, ccommit.base)
       \/ /\ ctag = "WaitingForEpochKeyUpdateReturn"
          /\ toServer = <<EpochKeyUpdate(cgroup.epoch)>>
          /\ sgroup.pending # NoCommit
          /\ cgroup.epoch = sgroup.epoch + 1 /\ cgroup.secret = sgroup.pending.id

\* What a waiting client gets from a server that has caught up.
Answer == IF ctag = "WaitingForConnectionConfirmation"
          THEN ConnectionConfirmation(cgroup.epoch) ELSE EpochKeyUpdate(cgroup.epoch)

\* The server has caught up, and its answer is under way.
Answered ==
    /\ ctag # "Running"
    /\ toServer = << >>
    /\ \/ toClient = <<Answer>> /\ sgroup.pending = NoCommit
       \/ (\E s \in Stale : toClient = <<s, Answer>>) /\ sgroup.pending = NoCommit
       \/ (\E b \in BOOLEAN : toClient = <<Answer, ConnectionUpdate(sgroup.pending, b)>>)
            /\ sgroup.pending # NoCommit
       \/ (\E s \in Stale, b \in BOOLEAN :
              toClient = <<s, Answer, ConnectionUpdate(sgroup.pending, b)>>)
            /\ sgroup.pending # NoCommit
    /\ SameEpoch
    /\ ctag \notin FreshTags => ccommit \in followed
    /\ ctag = "WaitingForConnectionConfirmation" =>
         traffic["client"].server_secret = cgroup.secret

\* A connection that is up.
Up ==
    /\ cgroup.pending = NoCommit
    /\ client.epoch = cgroup.epoch /\ server.epoch = sgroup.epoch
    /\ server.internal_state = IF sgroup.pending = NoCommit THEN Running ELSE WaitingForUpdate
    /\ sgroup.pending # NoCommit =>
         sgroup.pending.epoch = sgroup.epoch /\ sgroup.pending.base = sgroup.secret
    /\ traffic["server"] = SameSecret(sgroup.secret)
    /\ traffic["client"].client_secret = cgroup.secret
    /\ ctag # "Running" => client.internal_state.secrets = cgroup.secret
    /\ Idle \/ Ahead \/ Answered

\* A client that resumes, and one that has no connection.
Resuming ==
    /\ ctag = "WaitingForConnectionConfirmation"
    /\ toClient = << >> /\ toServer = <<ResumptionMessage(ccommit)>>
    /\ traffic["client"] = SameSecret(cgroup.secret)

Down == toClient = << >> /\ toServer = << >>

OnParty(f) == f = [p \in Party |-> f[p]]

\* The inductive invariant.
ResInv ==
    /\ TypeOK
    /\ OnParty(queue)
    /\ error # "ok" => behind /\ link = "down"
    /\ link = "down" => Down
    /\ error = "ok" =>
         /\ ctag \in ClientTag
         /\ ctag \in {"WaitingForEpochKeyUpdate", "WaitingForConnectionConfirmation"} => Committed
         /\ Stored /\ Offers
         /\ link = "resuming" => Resuming
         /\ link = "up" => Up

-----------------------------------------------------------------------------
(***************************************************************************)
(* Operators.                                                              *)
(***************************************************************************)

\* Messages behind others.
LEMMA AppendMessage ==
    ASSUME NEW s \in Seq(InnerPlaintext), NEW t \in Seq(InnerPlaintext),
           NEW e \in InnerPlaintext, Len(t) = Len(s) + 1, t[Len(s) + 1] = e,
           \A i \in 1 .. Len(s) : t[i] = s[i]
    PROVE  Append(s, e) = t
<1> DEFINE u == Append(s, e)
<1>1. /\ u \in Seq(InnerPlaintext) /\ Len(u) = Len(s) + 1 /\ Len(s) \in Nat
      /\ \A i \in 1 .. Len(s) : u[i] = s[i]
      /\ u[Len(s) + 1] = e
  BY AppendProperties, LenProperties
<1> HIDE DEF u
<1>2. \A i \in 1 .. Len(u) : u[i] = t[i]
  BY <1>1
<1>3. u = t
  BY <1>1, <1>2, SeqEqual
<1> QED
  BY <1>3 DEF u

\* Short sequences.
LEMMA Tuples ==
    ASSUME NEW a, NEW b, NEW c
    PROVE  /\ Head(<<a>>) = a /\ Tail(<<a>>) = << >> /\ <<a>> # << >>
           /\ Head(<<a, b>>) = a /\ Tail(<<a, b>>) = <<b>> /\ <<a, b>> # << >>
           /\ Head(<<a, b, c>>) = a /\ Tail(<<a, b, c>>) = <<b, c>> /\ <<a, b, c>> # << >>
           /\ Append(<< >>, a) = <<a>>
<1>1. Head(<<a>>) = a /\ Head(<<a, b>>) = a /\ Head(<<a, b, c>>) = a
  OBVIOUS
<1>2. <<a>> # << >> /\ <<a, b>> # << >> /\ <<a, b, c>> # << >>
  OBVIOUS
<1>3. Tail(<<a>>) = << >>
  OBVIOUS
<1>4. Tail(<<a, b>>) = <<b>>
  OBVIOUS
<1>5. Tail(<<a, b, c>>) = <<b, c>>
  OBVIOUS
<1>6. Append(<< >>, a) = <<a>>
  OBVIOUS
<1> QED
  BY <1>1, <1>2, <1>3, <1>4, <1>5, <1>6

LEMMA AppendTuples ==
    ASSUME NEW a \in InnerPlaintext, NEW b \in InnerPlaintext, NEW c \in InnerPlaintext
    PROVE  Append(<<a>>, b) = <<a, b>> /\ Append(<<a, b>>, c) = <<a, b, c>>
<1> DEFINE s == <<a>>
           t == <<a, b>>
           u == <<a, b, c>>
<1>1. /\ s \in Seq(InnerPlaintext) /\ t \in Seq(InnerPlaintext) /\ u \in Seq(InnerPlaintext)
      /\ Len(s) = 1 /\ Len(t) = 2 /\ Len(u) = 3
  OBVIOUS
<1>2. s[1] = a /\ t[1] = a /\ t[2] = b /\ u[1] = a /\ u[2] = b /\ u[3] = c
  OBVIOUS
<1> HIDE DEF s, t, u
<1>3. Append(s, b) = t
  <2>1. Len(t) = Len(s) + 1 /\ t[Len(s) + 1] = b /\ \A i \in 1 .. Len(s) : t[i] = s[i]
    BY <1>1, <1>2
  <2> QED
    BY <1>1, <2>1, AppendMessage
<1>4. Append(t, c) = u
  <2>1. Len(u) = Len(t) + 1 /\ u[Len(t) + 1] = c /\ \A i \in 1 .. Len(t) : u[i] = t[i]
    BY <1>1, <1>2
  <2> QED
    BY <1>1, <2>1, AppendMessage
<1> QED
  BY <1>3, <1>4 DEF s, t, u

\* TrafficSecrets::update.
LEMMA TrafficUpdates ==
    ASSUME NEW t \in [client_secret : Nat, server_secret : Nat], NEW s \in Nat
    PROVE  /\ \A u \in SecretUpdates :
                traffic_update(t, u) \in [client_secret : Nat, server_secret : Nat]
           /\ traffic_update(t, NoSecretUpdate) = t
           /\ traffic_update(t, Both(s)) = SameSecret(s)
           /\ traffic_update(t, ClientSecret(s)).client_secret = s
           /\ traffic_update(t, ClientSecret(s)).server_secret = t.server_secret
           /\ traffic_update(t, ServerSecret(s)).client_secret = t.client_secret
           /\ traffic_update(t, ServerSecret(s)).server_secret = s
           /\ SameSecret(s).client_secret = s /\ SameSecret(s).server_secret = s
BY DEF traffic_update, SecretUpdates, NoSecretUpdate, Both, ClientSecret, ServerSecret,
       SameSecret

\* The group after a commit.
LEMMA AfterFields ==
    ASSUME NEW c \in Commit
    PROVE  /\ After(c) \in Group /\ After(c).epoch = c.epoch + 1 /\ After(c).secret = c.id
           /\ After(c).pending = NoCommit
BY MessageTypes DEF After, Group, Commit

\* Messages are told apart by their types.
LEMMA Kinds ==
    /\ \A c, b : /\ ConnectionUpdate(c, b).type = "ConnectionUpdate"
                 /\ ConnectionUpdate(c, b).mls_commit = c
                 /\ ConnectionUpdate(c, b).update_requested = b
                 /\ ConnectionUpdate(c, b) # NoMessage
    /\ \A c : /\ ResumptionMessage(c).mls_commit = c /\ ResumptionMessage(c) # NoMessage
    /\ \A e : /\ EpochKeyUpdate(e).type = "EpochKeyUpdate" /\ EpochKeyUpdate(e).epoch = e
              /\ EpochKeyUpdate(e) # NoMessage
              /\ ConnectionConfirmation(e).type = "ConnectionConfirmation"
              /\ ConnectionConfirmation(e).epoch = e
              /\ ConnectionConfirmation(e) # NoMessage
BY DEF ConnectionUpdate, ResumptionMessage, EpochKeyUpdate, ConnectionConfirmation, NoMessage,
       Application

\* The parts of a state.
LEMMA Parts ==
    ASSUME TypeOK
    PROVE  /\ client \in Handshake /\ server \in Handshake
           /\ cgroup \in Group /\ sgroup \in Group
           /\ client.internal_state \in Internal /\ client.epoch \in Nat
           /\ ccommit \in Commit /\ client.internal_state.secrets \in Nat
           /\ cgroup.epoch \in Nat /\ cgroup.secret \in Nat
           /\ sgroup.epoch \in Nat /\ sgroup.secret \in Nat /\ sgroup.pending \in Commit
           /\ traffic["client"] \in [client_secret : Nat, server_secret : Nat]
           /\ traffic["server"] \in [client_secret : Nat, server_secret : Nat]
           /\ commits + 1 \in Nat /\ commits + 1 > 0
<1>1. client \in Handshake /\ server \in Handshake /\ commits \in Nat
  BY DEF TypeOK, client, server, Party
<1>2. cgroup \in Group /\ sgroup \in Group /\ client.internal_state \in Internal
      /\ client.epoch \in Nat
  BY <1>1 DEF cgroup, sgroup, Handshake
<1>3. /\ traffic["client"] \in [client_secret : Nat, server_secret : Nat]
      /\ traffic["server"] \in [client_secret : Nat, server_secret : Nat]
  BY DEF TypeOK, Party
<1>4. ccommit \in Commit /\ client.internal_state.secrets \in Nat
  BY <1>2 DEF ccommit, Internal
<1>5. /\ cgroup.epoch \in Nat /\ cgroup.secret \in Nat
      /\ sgroup.epoch \in Nat /\ sgroup.secret \in Nat /\ sgroup.pending \in Commit
  BY <1>2 DEF Group
<1> QED
  BY <1>1, <1>2, <1>3, <1>4, <1>5

\* What the result of a handler of p does: p's state and secrets change, q is
\* p's peer and gets the message.
Acts(p, q, s, message, u, sofar) ==
    /\ hs' \in [Party -> Handshake] /\ commits' \in Nat
    /\ traffic' \in [Party -> [client_secret : Nat, server_secret : Nat]]
    /\ hs'[p] = s /\ hs'[q] = hs[q]
    /\ traffic'[p] = traffic_update(traffic[p], u) /\ traffic'[q] = traffic[q]
    /\ OnParty(queue')
    /\ queue'[p] = sofar[p]
    /\ message = NoMessage => queue'[q] = sofar[q]
    /\ message # NoMessage => queue'[q] = Append(sofar[q], message)

LEMMA ClientApplied ==
    ASSUME TypeOK, NEW s \in Handshake, NEW m \in Nat, NEW message, NEW u \in SecretUpdates,
           NEW sofar, OnParty(sofar), Apply("client", Done(s, m, message, u), sofar)
    PROVE  Acts("client", "server", s, message, u, sofar) /\ commits' = commits + m
<1> DEFINE v == Append(sofar["server"], message)
           w == traffic_update(traffic["client"], u)
<1>1. /\ hs \in [Party -> Handshake] /\ commits \in Nat
      /\ traffic \in [Party -> [client_secret : Nat, server_secret : Nat]]
  BY DEF TypeOK
<1>2. w \in [client_secret : Nat, server_secret : Nat]
  BY <1>1, TrafficUpdates DEF Party
<1>3. /\ hs' = [hs EXCEPT !["client"] = s] /\ commits' = commits + m
      /\ traffic' = [traffic EXCEPT !["client"] = w]
      /\ message = NoMessage => queue' = sofar
      /\ message # NoMessage => queue' = [sofar EXCEPT !["server"] = v]
  BY DEF Apply, Done
<1> HIDE DEF v, w
<1>4. /\ hs' \in [Party -> Handshake] /\ commits' \in Nat
      /\ hs'["client"] = s /\ hs'["server"] = hs["server"]
  BY <1>1, <1>3 DEF Party
<1>5. /\ traffic' \in [Party -> [client_secret : Nat, server_secret : Nat]]
      /\ traffic'["client"] = w
      /\ traffic'["server"] = traffic["server"]
  BY <1>1, <1>2, <1>3 DEF Party
<1>6. /\ OnParty(queue')
      /\ queue'["client"] = sofar["client"]
      /\ message = NoMessage => queue'["server"] = sofar["server"]
      /\ message # NoMessage => queue'["server"] = v
  BY <1>3 DEF OnParty, Party
<1> QED
  BY <1>3, <1>4, <1>5, <1>6 DEF v, w, Acts

LEMMA ServerApplied ==
    ASSUME TypeOK, NEW s \in Handshake, NEW m \in Nat, NEW message, NEW u \in SecretUpdates,
           NEW sofar, OnParty(sofar), Apply("server", Done(s, m, message, u), sofar)
    PROVE  Acts("server", "client", s, message, u, sofar) /\ commits' = commits + m
<1> DEFINE v == Append(sofar["client"], message)
           w == traffic_update(traffic["server"], u)
<1>1. /\ hs \in [Party -> Handshake] /\ commits \in Nat
      /\ traffic \in [Party -> [client_secret : Nat, server_secret : Nat]]
  BY DEF TypeOK
<1>2. w \in [client_secret : Nat, server_secret : Nat]
  BY <1>1, TrafficUpdates DEF Party
<1>3. /\ hs' = [hs EXCEPT !["server"] = s] /\ commits' = commits + m
      /\ traffic' = [traffic EXCEPT !["server"] = w]
      /\ message = NoMessage => queue' = sofar
      /\ message # NoMessage => queue' = [sofar EXCEPT !["client"] = v]
  BY DEF Apply, Done
<1> HIDE DEF v, w
<1>4. /\ hs' \in [Party -> Handshake] /\ commits' \in Nat
      /\ hs'["server"] = s /\ hs'["client"] = hs["client"]
  BY <1>1, <1>3 DEF Party
<1>5. /\ traffic' \in [Party -> [client_secret : Nat, server_secret : Nat]]
      /\ traffic'["server"] = w
      /\ traffic'["client"] = traffic["client"]
  BY <1>1, <1>2, <1>3 DEF Party
<1>6. /\ OnParty(queue')
      /\ queue'["server"] = sofar["server"]
      /\ message = NoMessage => queue'["client"] = sofar["client"]
      /\ message # NoMessage => queue'["client"] = v
  BY <1>3 DEF OnParty, Party
<1> QED
  BY <1>3, <1>4, <1>5, <1>6 DEF v, w, Acts

-----------------------------------------------------------------------------
(***************************************************************************)
(* Each action preserves the invariant.                                    *)
(***************************************************************************)

\* Whatever happens on a connection that is up keeps the types that the
\* action does not change.
LEMMA TypesKept ==
    ASSUME TypeOK, hs' \in [Party -> Handshake], commits' \in Nat,
           traffic' \in [Party -> [client_secret : Nat, server_secret : Nat]],
           row' = row \/ row' = store_update(client'), error' \in ErrorKind,
           link' \in {"up", "down", "resuming"}, followed' \subseteq Commit,
           UNCHANGED <<breaks, restarts, behind>>
    PROVE  TypeOK'
<1>1. client' \in Handshake
  BY DEF client, Party
<1>2. store_update(client') \in [epoch : Nat, internal_state : Internal]
  BY <1>1 DEF store_update, Handshake
<1> QED
  BY <1>2 DEF TypeOK

\* The client's own update.
LEMMA ClientUpdates ==
    ASSUME ResInv, Update("client")
    PROVE  ResInv'
<1> DEFINE n == commits + 1
           c == CommitOn(cgroup, n)
           s == [epoch |-> cgroup.epoch + 1,
                 internal_state |-> Waiting("WaitingForEpochKeyUpdate", c, n),
                 group |-> After(c)]
           r == client_update(client, FALSE, n)
<1>1. /\ TypeOK /\ OnParty(queue) /\ link = "up" /\ error = "ok"
      /\ Up /\ Offers
  BY DEF ResInv, Update
<1>2. /\ r.error # "WaitingForResponse" /\ error' = r.error
      /\ Apply("client", r, queue)
      /\ row' = IF r.error = "ok" THEN store_update(r.state) ELSE row
      /\ UNCHANGED <<link, breaks, restarts, followed, behind>>
  BY DEF Update, client
<1>3. /\ client \in Handshake /\ cgroup \in Group /\ n \in Nat /\ n > 0
      /\ sgroup.pending \in Commit
      /\ traffic["client"] \in [client_secret : Nat, server_secret : Nat]
  BY <1>1, Parts
<1> HIDE DEF n
<1>4. ~client_is_waiting(client)
  BY <1>2 DEF client_update, Failed
<1>5. Idle /\ cgroup.pending = NoCommit
  BY <1>1, <1>4 DEF Up, Ahead, Answered, client_is_waiting, ctag
<1>6. r = Done(s, 1, ConnectionUpdate(c, FALSE), ClientSecret(n))
  BY <1>3, <1>4, <1>5, ClientMerges DEF client_update, cgroup
<1> HIDE DEF r
<1>7. /\ c \in Commit /\ c # NoCommit /\ c.epoch = cgroup.epoch /\ c.base = cgroup.secret
      /\ c.id = n /\ After(c) \in Group
      /\ After(c).epoch = c.epoch + 1 /\ After(c).secret = n /\ After(c).pending = NoCommit
  BY <1>3, CommitOnFacts, AfterFields
<1> HIDE DEF c
<1>8. /\ s \in Handshake /\ s.group = After(c) /\ s.epoch = After(c).epoch
      /\ s.internal_state.tag = "WaitingForEpochKeyUpdate"
      /\ s.internal_state.mls_message = c /\ s.internal_state.secrets = n
  BY <1>3, <1>7 DEF Waiting, Handshake, Internal, ClientTag, Group
<1> HIDE DEF s
<1>9. r.state = s /\ r.error = "ok"
  BY <1>6 DEF Done
<1>10. Acts("client", "server", s, ConnectionUpdate(c, FALSE), ClientSecret(n), queue)
  <2> DEFINE m == 1
             message == ConnectionUpdate(c, FALSE)
             u == ClientSecret(n)
  <2>1. m \in Nat /\ u \in SecretUpdates /\ r = Done(s, m, message, u)
    BY <1>3, <1>6, MessageTypes
  <2> HIDE DEF m, message, u
  <2>2. Acts("client", "server", s, message, u, queue)
    BY <1>1, <1>2, <1>8, <2>1, ClientApplied
  <2> QED
    BY <2>2 DEF message, u
<1>11. /\ client' = s /\ server' = server /\ cgroup' = After(c) /\ sgroup' = sgroup
       /\ ctag' = "WaitingForEpochKeyUpdate" /\ ccommit' = c
       /\ toClient' = toClient
  BY <1>8, <1>10 DEF Acts, client, server, cgroup, sgroup, ctag, ccommit, toClient
<1>12. toServer' = <<ConnectionUpdate(c, FALSE)>>
  <2> DEFINE message == ConnectionUpdate(c, FALSE)
  <2>1. message # NoMessage
    BY Kinds
  <2>2. Acts("client", "server", s, message, ClientSecret(n), queue)
    BY <1>10
  <2> HIDE DEF message
  <2>3. queue["server"] = << >>
    BY <1>5 DEF Idle, toServer
  <2>4. queue'["server"] = Append(<< >>, message)
    BY <2>1, <2>2, <2>3 DEF Acts
  <2>5. Append(<< >>, message) = <<message>>
    OBVIOUS
  <2> QED
    BY <2>4, <2>5 DEF message, toServer
<1>13. traffic'["client"].client_secret = n
  BY <1>3, <1>10, TrafficUpdates DEF Acts
<1>14. TypeOK'
  BY <1>1, <1>2, <1>9, <1>10, <1>11, TypesKept DEF Acts, TypeOK
<1>15. Reaches(ccommit.epoch, ccommit.base)'
  BY <1>5, <1>7, <1>11 DEF Reaches, Idle, SameEpoch
<1>16. Committed' /\ Stored' /\ Offers'
  BY <1>2, <1>7, <1>8, <1>9, <1>11, <1>15 DEF Committed, Stored, Offers, FreshTags
<1>17. Ahead'
  <2>1. toClient' = << >> \/ (server_is_waiting(server') /\ \E t \in Stale : toClient' = <<t>>)
    BY <1>1, <1>3, <1>5, <1>11 DEF Idle, Offer, Up, Stale, server_is_waiting, WaitingForUpdate
  <2> QED
    BY <1>11, <1>12, <1>15, <2>1 DEF Ahead, Stale
<1>18. Up'
  BY <1>1, <1>7, <1>8, <1>10, <1>11, <1>13, <1>17 DEF Acts, Up
<1> QED
  BY <1>1, <1>2, <1>9, <1>10, <1>11, <1>14, <1>16, <1>18 DEF Acts, ResInv, ClientTag

\* The server's own update.
LEMMA ServerUpdates ==
    ASSUME ResInv, Update("server")
    PROVE  ResInv'
<1> DEFINE n == commits + 1
           c == CommitOn(sgroup, n)
           g == [sgroup EXCEPT !.pending = c]
           s == [server EXCEPT !.internal_state = WaitingForUpdate, !.group = g]
<1>1. /\ TypeOK /\ OnParty(queue) /\ link = "up" /\ error = "ok"
      /\ Up /\ Offers /\ Stored /\ ctag \in ClientTag
      /\ ctag \in {"WaitingForEpochKeyUpdate", "WaitingForConnectionConfirmation"} => Committed
  BY DEF ResInv, Update
<1>2. PICK requested \in ServerRequests :
        /\ server_update(server, requested, n).error # "WaitingForResponse"
        /\ error' = server_update(server, requested, n).error
        /\ Apply("server", server_update(server, requested, n), queue)
        /\ row' = row
        /\ UNCHANGED <<link, breaks, restarts, followed, behind>>
  BY DEF Update, server
<1> DEFINE r == server_update(server, requested, n)
           message == ConnectionUpdate(c, requested)
<1>3. /\ server \in Handshake /\ sgroup \in Group /\ n \in Nat /\ n > 0
      /\ requested \in BOOLEAN
      /\ sgroup.epoch \in Nat /\ sgroup.secret \in Nat
      /\ traffic["server"] \in [client_secret : Nat, server_secret : Nat]
  BY <1>1, Parts, ResumptionAssumption
<1> HIDE DEF n
<1>4. ~server_is_waiting(server)
  BY <1>2 DEF server_update, Failed
<1>5. sgroup.pending = NoCommit
  BY <1>1, <1>4 DEF Up, server_is_waiting, WaitingForUpdate
<1>6. r = Done(s, 1, message, NoSecretUpdate)
  BY <1>3, <1>4, <1>5, ServerWaits DEF sgroup
<1> HIDE DEF r
<1>7. /\ c \in Commit /\ c # NoCommit /\ c.epoch = sgroup.epoch /\ c.base = sgroup.secret
      /\ c.id = n
  BY <1>3, CommitOnFacts
<1> HIDE DEF c
<1>8. /\ s \in Handshake /\ s.group = g /\ s.epoch = server.epoch
      /\ s.internal_state = WaitingForUpdate
      /\ g \in Group /\ g.epoch = sgroup.epoch /\ g.secret = sgroup.secret /\ g.pending = c
  BY <1>3, <1>7, MessageTypes
     DEF WaitingForUpdate, Handshake, Internal, ServerTag, Group
<1> HIDE DEF s, g
<1>9. r.error = "ok" /\ message # NoMessage
  BY <1>6, Kinds DEF Done
<1>10. Acts("server", "client", s, message, NoSecretUpdate, queue)
  <2> DEFINE m == 1
             u == NoSecretUpdate
  <2>1. m \in Nat /\ u \in SecretUpdates /\ r = Done(s, m, message, u)
    BY <1>3, <1>6, MessageTypes
  <2> HIDE DEF m, message, u
  <2>2. Acts("server", "client", s, message, u, queue)
    BY <1>1, <1>2, <1>8, <2>1, ServerApplied DEF r
  <2> QED
    BY <2>2 DEF u
<1> HIDE DEF message
<1>11. /\ client' = client /\ server' = s /\ cgroup' = cgroup /\ sgroup' = g
       /\ ctag' = ctag /\ ccommit' = ccommit /\ toServer' = toServer
       /\ toClient' = Append(toClient, message)
       /\ traffic'["client"] = traffic["client"]
  BY <1>8, <1>9, <1>10 DEF Acts, client, server, cgroup, sgroup, ctag, ccommit, toClient, toServer
<1>12. traffic'["server"] = traffic["server"]
  BY <1>3, <1>10, TrafficUpdates DEF Acts
<1>13. error' = "ok"
  BY <1>2, <1>9 DEF r
<1>14. TypeOK'
  BY <1>1, <1>2, <1>10, <1>13, TypesKept DEF Acts, TypeOK, ErrorKind
<1>15. ASSUME NEW e, NEW x, Reaches(e, x) PROVE Reaches(e, x)'
  BY <1>5, <1>8, <1>11, <1>15 DEF Reaches
<1>16. (ctag \in {"WaitingForEpochKeyUpdate", "WaitingForConnectionConfirmation"} => Committed)'
       /\ Stored' /\ Offers'
  BY <1>1, <1>2, <1>11, <1>15 DEF Committed, Stored, Offers
<1>17. message \in Stale /\ message \in InnerPlaintext
  BY <1>3, <1>7, MessageTypes DEF message, Stale
<1>18. ASSUME Idle PROVE Idle'
  <2>1. toClient' = <<message>>
    <3>1. toClient = << >>
      BY <1>5, <1>18 DEF Idle, Offer
    <3> QED
      BY <1>11, <3>1
  <2>2. toClient' \in Offer'
    BY <1>3, <1>7, <1>8, <1>11, <2>1 DEF Offer, message
  <2> QED
    BY <1>8, <1>11, <1>18, <2>2 DEF Idle, SameEpoch
<1>19. ASSUME Ahead PROVE Ahead'
  <2>1. toClient = << >> /\ ctag = "WaitingForEpochKeyUpdate"
    BY <1>4, <1>5, <1>19 DEF Ahead
  <2>2. toClient' = <<message>>
    BY <1>11, <2>1
  <2>3. server_is_waiting(server')
    BY <1>8, <1>11 DEF server_is_waiting, WaitingForUpdate
  <2>4. toServer = <<ConnectionUpdate(ccommit, FALSE)>> /\ Reaches(ccommit.epoch, ccommit.base)
    BY <1>19, <2>1 DEF Ahead
  <2>5. Reaches(ccommit.epoch, ccommit.base)'
    BY <1>11, <1>15, <2>4
  <2> QED
    BY <1>11, <1>17, <2>1, <2>2, <2>3, <2>4, <2>5 DEF Ahead, Stale
<1>20. ASSUME Answered PROVE Answered'
  <2>1. Answer' = Answer /\ Answer \in InnerPlaintext
    BY <1>1, <1>11, Parts, MessageTypes DEF Answer, ConnectionConfirmation, InnerPlaintext,
       SignalingType, Commit
  <2>2. /\ toClient = <<Answer>> \/ \E t \in Stale : toClient = <<t, Answer>>
    BY <1>5, <1>20 DEF Answered
  <2>3. \A t \in Stale : t \in InnerPlaintext
    BY MessageTypes DEF Stale
  <2>4. CASE toClient = <<Answer>>
    <3>1. toClient' = <<Answer, message>>
      <4> HIDE DEF Answer
      <4> QED BY <1>11, <1>17, <2>1, <2>4, AppendTuples
    <3> QED
      BY <1>2, <1>3, <1>7, <1>8, <1>11, <1>20, <2>1, <3>1 DEF Answered, SameEpoch, message
  <2>5. CASE \E t \in Stale : toClient = <<t, Answer>>
    <3>1. PICK t \in Stale : toClient = <<t, Answer>>
      BY <2>5
    <3>2. toClient' = <<t, Answer, message>>
      BY <1>11, <1>17, <2>1, <2>3, <3>1, AppendTuples
    <3> QED
      BY <1>2, <1>3, <1>7, <1>8, <1>11, <1>20, <2>1, <3>2 DEF Answered, SameEpoch, message
  <2> QED
    BY <2>2, <2>4, <2>5
<1>21. Up'
  BY <1>1, <1>3, <1>7, <1>8, <1>11, <1>12, <1>18, <1>19, <1>20 DEF Up
<1> QED
  BY <1>1, <1>2, <1>10, <1>11, <1>13, <1>14, <1>16, <1>21 DEF Acts, ResInv

\* What is left of the queues when a party takes its next message.
Taken(p) == [queue EXCEPT ![p] = Tail(queue[p])]

LEMMA TakenFields ==
    ASSUME OnParty(queue), NEW p \in Party, NEW q \in Party, p # q
    PROVE  /\ OnParty(Taken(p))
           /\ Taken(p)[p] = Tail(queue[p]) /\ Taken(p)[q] = queue[q]
<1> DEFINE t == Tail(queue[p])
<1>1. Taken(p) = [queue EXCEPT ![p] = t]
  BY DEF Taken
<1> HIDE DEF t
<1>2. OnParty(Taken(p)) /\ Taken(p)[p] = t /\ Taken(p)[q] = queue[q]
  BY <1>1 DEF OnParty
<1> QED
  BY <1>2 DEF t

\* A server that has a message before it catches up with the client.
LEMMA ServerCatchesUp ==
    ASSUME ResInv, link = "up", error = "ok", toServer # << >>,
           NEW s, s = [epoch |-> cgroup.epoch, internal_state |-> Running, group |-> cgroup]
    PROVE  /\ Ahead
           /\ server_receive_signaling_message(server, Head(toServer), commits + 1) =
                Done(s, 0, EpochKeyUpdate(cgroup.epoch), Both(cgroup.secret))
           /\ Tail(toServer) = << >>
           /\ ctag = "WaitingForEpochKeyUpdate" => Head(toServer).type = "ConnectionUpdate"
           /\ ctag # "WaitingForEpochKeyUpdate" => ctag = "WaitingForEpochKeyUpdateReturn"
           /\ Head(toServer).type = "ConnectionUpdate" => Head(toServer).mls_commit = ccommit
<1>1. TypeOK /\ Up /\ (ctag = "WaitingForEpochKeyUpdate" => Committed)
  BY DEF ResInv
<1>2. Ahead
  BY <1>1 DEF Up, Idle, Answered
<1>3. /\ server \in Handshake /\ sgroup \in Group /\ cgroup \in Group /\ ccommit \in Commit
      /\ commits + 1 \in Nat
  BY <1>1, Parts
<1>4. CASE ctag = "WaitingForEpochKeyUpdate"
  <2> DEFINE message == ConnectionUpdate(ccommit, FALSE)
             processed == process_mls_update(server.group, message.mls_commit, TRUE)
  <2>1. toServer = <<message>> /\ Reaches(ccommit.epoch, ccommit.base) /\ cgroup = After(ccommit)
    BY <1>1, <1>2, <1>4 DEF Ahead, Committed
  <2>2. message.type = "ConnectionUpdate" /\ message.mls_commit = ccommit
        /\ ~message.update_requested
    BY Kinds
  <2>3. Head(toServer) = message /\ Tail(toServer) = << >>
    <3> HIDE DEF message
    <3> QED BY <2>1
  <2> HIDE DEF message
  <2>4. processed.ok /\ processed.group = cgroup
    <3>1. process_mls_update(sgroup, ccommit, TRUE).ok
          /\ process_mls_update(sgroup, ccommit, TRUE).group = After(ccommit)
      BY <1>3, <2>1, CommitFollowed, PendingConfirmed DEF Reaches
    <3> QED
      BY <2>1, <2>2, <3>1 DEF sgroup
  <2>5. server_receive_signaling_message(server, message, commits + 1) =
          Done(server_follow(server, processed.group), 0,
               create_epoch_key_update(server_follow(server, processed.group).group),
               Both(processed.group.secret))
    BY <2>2, <2>4 DEF server_receive_signaling_message, server_process_update
  <2> HIDE DEF processed
  <2>6. server_follow(server, cgroup) = s /\ s.group = cgroup
    BY DEF server_follow
  <2>7. server_receive_signaling_message(server, message, commits + 1) =
          Done(s, 0, EpochKeyUpdate(cgroup.epoch), Both(cgroup.secret))
    BY <2>4, <2>5, <2>6 DEF create_epoch_key_update
  <2> QED
    BY <1>2, <1>4, <2>2, <2>3, <2>7
<1>5. CASE ctag # "WaitingForEpochKeyUpdate"
  <2> DEFINE message == EpochKeyUpdate(cgroup.epoch)
             merged == [server EXCEPT !.epoch = merge_update(server.group).epoch,
                                      !.group = merge_update(server.group)]
  <2>1. /\ toServer = <<message>> /\ ctag = "WaitingForEpochKeyUpdateReturn"
        /\ sgroup.pending # NoCommit
        /\ cgroup.epoch = sgroup.epoch + 1 /\ cgroup.secret = sgroup.pending.id
    BY <1>2, <1>5 DEF Ahead
  <2>2. message.type = "EpochKeyUpdate" /\ message.epoch = cgroup.epoch
    BY Kinds
  <2>3. Head(toServer) = message /\ Tail(toServer) = << >>
    <3> HIDE DEF message
    <3> QED BY <2>1
  <2> HIDE DEF message
  <2>4. merge_update(server.group) = cgroup
    BY <1>1, <1>3, <2>1 DEF merge_update, Up, Group, sgroup
  <2>5. merged.group = cgroup /\ [merged EXCEPT !.internal_state = Running] = s
    <3>1. merged = [server EXCEPT !.epoch = cgroup.epoch, !.group = cgroup]
      BY <2>4
    <3>2. merged \in Handshake /\ merged.epoch = cgroup.epoch /\ merged.group = cgroup
      <4> HIDE DEF merged
      <4> QED BY <1>3, <3>1 DEF Handshake, Group
    <3> HIDE DEF merged
    <3> QED
      BY <3>2 DEF Handshake
  <2>6. server_is_waiting(server)
    BY <1>1, <2>1 DEF Up, server_is_waiting, WaitingForUpdate
  <2>7. server_receive_signaling_message(server, message, commits + 1) =
          Done([merged EXCEPT !.internal_state = Running], 0,
               create_epoch_key_update(merged.group), Both(merged.group.secret))
    BY <2>2, <2>5, <2>6 DEF server_receive_signaling_message, server_receive_epoch_key_update,
       process_epoch_key_update
  <2> HIDE DEF merged
  <2>8. server_receive_signaling_message(server, message, commits + 1) =
          Done(s, 0, EpochKeyUpdate(cgroup.epoch), Both(cgroup.secret))
    BY <2>5, <2>7 DEF create_epoch_key_update
  <2> QED
    BY <1>2, <1>5, <2>1, <2>2, <2>3, <2>8
<1> QED
  BY <1>4, <1>5

\* The server processes a message.
LEMMA ServerReceives ==
    ASSUME ResInv, Receive("server")
    PROVE  ResInv'
<1> DEFINE s == [epoch |-> cgroup.epoch, internal_state |-> Running, group |-> cgroup]
           message == EpochKeyUpdate(cgroup.epoch)
           u == Both(cgroup.secret)
           r == server_receive_signaling_message(server, Head(toServer), commits + 1)
<1>1. /\ TypeOK /\ OnParty(queue) /\ link = "up" /\ error = "ok" /\ toServer # << >>
      /\ Up /\ Offers /\ Stored /\ ctag \in ClientTag
      /\ ctag \in {"WaitingForEpochKeyUpdate", "WaitingForConnectionConfirmation"} => Committed
  BY DEF ResInv, Receive, toServer
<1>2. /\ error' = r.error
      /\ Apply("server", r, Taken("server"))
      /\ row' = row
      /\ followed' = IF r.error = "ok" /\ Head(toServer).type = "ConnectionUpdate"
                     THEN followed \union {Head(toServer).mls_commit} ELSE followed
      /\ UNCHANGED <<link, breaks, restarts, behind>>
  BY DEF Receive, process_signaling_message, Taken, server, toServer
<1>3. /\ cgroup \in Group /\ cgroup.epoch \in Nat /\ cgroup.secret \in Nat /\ ccommit \in Commit
      /\ traffic["server"] \in [client_secret : Nat, server_secret : Nat]
  BY <1>1, Parts
<1>4. /\ Ahead /\ r = Done(s, 0, message, u) /\ Tail(toServer) = << >>
      /\ ctag = "WaitingForEpochKeyUpdate" => Head(toServer).type = "ConnectionUpdate"
      /\ ctag # "WaitingForEpochKeyUpdate" => ctag = "WaitingForEpochKeyUpdateReturn"
      /\ Head(toServer).type = "ConnectionUpdate" => Head(toServer).mls_commit = ccommit
  BY <1>1, ServerCatchesUp
<1>5. /\ s \in Handshake /\ s.group = cgroup /\ s.epoch = cgroup.epoch
      /\ s.internal_state = Running
  BY <1>3, MessageTypes DEF Handshake
<1> HIDE DEF s, r
<1>6. r.error = "ok" /\ message # NoMessage /\ message \in InnerPlaintext /\ u \in SecretUpdates
  BY <1>3, <1>4, Kinds, MessageTypes DEF Done
<1> HIDE DEF message, u
<1>7. /\ OnParty(Taken("server")) /\ Taken("server")["server"] = << >>
      /\ Taken("server")["client"] = toClient
  BY <1>1, <1>4, TakenFields DEF Party, toServer, toClient
<1>8. Acts("server", "client", s, message, u, Taken("server"))
  <2> DEFINE m == 0
  <2>1. m \in Nat /\ r = Done(s, m, message, u)
    BY <1>4
  <2> HIDE DEF m
  <2> QED
    BY <1>1, <1>2, <1>5, <1>6, <1>7, <2>1, ServerApplied
<1>9. /\ client' = client /\ server' = s /\ cgroup' = cgroup /\ sgroup' = cgroup
      /\ ctag' = ctag /\ ccommit' = ccommit /\ toServer' = << >>
      /\ toClient' = Append(toClient, message)
      /\ traffic'["client"] = traffic["client"]
  BY <1>5, <1>6, <1>7, <1>8
     DEF Acts, client, server, cgroup, sgroup, ctag, ccommit, toClient, toServer
<1>10. traffic'["server"] = SameSecret(cgroup.secret)
  BY <1>3, <1>8, TrafficUpdates DEF Acts, u
<1>11. /\ error' = "ok" /\ followed' \subseteq Commit
       /\ ctag = "WaitingForEpochKeyUpdate" => ccommit \in followed'
  BY <1>1, <1>2, <1>3, <1>4, <1>6 DEF TypeOK
<1>12. TypeOK'
  BY <1>1, <1>2, <1>8, <1>11, TypesKept DEF Acts, TypeOK, ErrorKind
<1>13. (ctag \in {"WaitingForEpochKeyUpdate", "WaitingForConnectionConfirmation"} => Committed)'
       /\ Stored'
  BY <1>1, <1>2, <1>9 DEF Committed, Stored
<1>14. Offers'
  BY <1>1, <1>2, <1>4, <1>9, <1>11 DEF Offers, Reaches, FreshTags
<1>15. Answer' = message
  BY <1>4, <1>9 DEF Answer, message
<1>16. toClient' = <<message>> \/ \E t \in Stale : toClient' = <<t, message>>
  <2>1. CASE toClient = << >>
    BY <1>9, <2>1
  <2>2. CASE \E t \in Stale : toClient = <<t>>
    <3>1. PICK t \in Stale : toClient = <<t>>
      BY <2>2
    <3>2. t \in InnerPlaintext
      BY MessageTypes DEF Stale
    <3> QED
      BY <1>6, <1>9, <3>1, <3>2, AppendTuples
  <2> QED
    BY <1>4, <2>1, <2>2 DEF Ahead
<1>17. Answered'
  <2>1. (sgroup.pending = NoCommit)'
    BY <1>1, <1>9 DEF Up
  <2>2. (\/ toClient = <<Answer>> \/ \E t \in Stale : toClient = <<t, Answer>>)'
    BY <1>15, <1>16 DEF Stale
  <2> QED
    BY <1>4, <1>9, <1>11, <2>1, <2>2 DEF Answered, SameEpoch, FreshTags
<1>18. Up'
  BY <1>1, <1>5, <1>9, <1>10, <1>17 DEF Up
<1> QED
  BY <1>1, <1>2, <1>8, <1>9, <1>11, <1>12, <1>13, <1>14, <1>18 DEF Acts, ResInv

\* A waiting client ignores the server's update.
LEMMA ClientIgnores ==
    ASSUME ResInv, Receive("client"), ctag # "Running", Head(toClient).type = "ConnectionUpdate"
    PROVE  ResInv'
<1> DEFINE r == client_receive_signaling_message(client, Head(toClient), commits + 1)
           message == NoMessage
           u == NoSecretUpdate
<1>1. /\ TypeOK /\ OnParty(queue) /\ link = "up" /\ error = "ok"
      /\ Up /\ Offers /\ Stored /\ ctag \in ClientTag
      /\ ctag \in {"WaitingForEpochKeyUpdate", "WaitingForConnectionConfirmation"} => Committed
  BY DEF ResInv, Receive
<1>2. client_is_waiting(client) /\ Ignored(Head(toClient))
  BY DEF client_is_waiting, Ignored, ctag, client
<1>3. /\ error' = r.error
      /\ Apply("client", r, Taken("client"))
      /\ row' = row
      /\ UNCHANGED <<link, breaks, restarts, followed, behind>>
  BY <1>2 DEF Receive, process_signaling_message, Taken, client, toClient
<1>4. /\ client \in Handshake
      /\ traffic["client"] \in [client_secret : Nat, server_secret : Nat]
  BY <1>1, Parts
<1>5. r = Done(client, 0, message, u)
  BY <1>2 DEF client_receive_signaling_message
<1> HIDE DEF r
<1>6. r.error = "ok" /\ message = NoMessage /\ u \in SecretUpdates
  BY <1>5, MessageTypes DEF Done
<1> HIDE DEF message, u
<1>7. /\ OnParty(Taken("client")) /\ Taken("client")["server"] = toServer
      /\ Taken("client")["client"] = Tail(toClient)
  BY <1>1, TakenFields DEF Party, toServer, toClient
<1>8. Acts("client", "server", client, message, u, Taken("client"))
  <2> DEFINE m == 0
             s == client
  <2>1. m \in Nat /\ r = Done(s, m, message, u) /\ s \in Handshake
    BY <1>4, <1>5
  <2> HIDE DEF m, s
  <2>2. Acts("client", "server", s, message, u, Taken("client"))
    BY <1>1, <1>3, <1>6, <1>7, <2>1, ClientApplied
  <2> QED
    BY <2>2 DEF s
<1>9. /\ client' = client /\ server' = server /\ cgroup' = cgroup /\ sgroup' = sgroup
      /\ ctag' = ctag /\ ccommit' = ccommit /\ toServer' = toServer
      /\ toClient' = Tail(toClient)
      /\ traffic'["server"] = traffic["server"]
  BY <1>6, <1>7, <1>8
     DEF Acts, client, server, cgroup, sgroup, ctag, ccommit, toClient, toServer
<1>10. traffic'["client"] = traffic["client"]
  BY <1>4, <1>8, TrafficUpdates DEF Acts, u
<1>11. TypeOK'
  BY <1>1, <1>3, <1>6, <1>8, TypesKept DEF Acts, TypeOK, ErrorKind
<1>12. (ctag \in {"WaitingForEpochKeyUpdate", "WaitingForConnectionConfirmation"} => Committed)'
       /\ Stored' /\ Offers'
  BY <1>1, <1>3, <1>9 DEF Committed, Stored, Offers, Reaches
<1>13. ~Idle
  BY DEF Idle, Running, ctag
<1>14. ASSUME Ahead PROVE Ahead'
  <2>1. toClient # << >> => toClient' = << >>
    <3>1. CASE \E t \in Stale : toClient = <<t>>
      BY <1>9, <3>1
    <3> QED
      BY <1>14, <3>1 DEF Ahead
  <2>2. toClient # << >>
    BY DEF Receive, toClient
  <2> QED
    BY <1>9, <1>14, <2>1, <2>2 DEF Ahead, Reaches
<1>15. ASSUME Answered PROVE Answered'
  <2>1. Answer.type # "ConnectionUpdate" /\ Answer' = Answer
    BY <1>9, Kinds DEF Answer
  <2>2. /\ toClient # <<Answer>>
        /\ \A b \in BOOLEAN : toClient # <<Answer, ConnectionUpdate(sgroup.pending, b)>>
    BY <2>1
  <2>3. CASE \E t \in Stale : toClient = <<t, Answer>> /\ sgroup.pending = NoCommit
    <3>1. toClient' = <<Answer>>
      BY <1>9, <2>3
    <3> QED
      BY <1>3, <1>9, <1>10, <1>15, <2>1, <2>3, <3>1 DEF Answered, SameEpoch
  <2>4. CASE \E t \in Stale, b \in BOOLEAN :
                 toClient = <<t, Answer, ConnectionUpdate(sgroup.pending, b)>>
                 /\ sgroup.pending # NoCommit
    <3>1. \E b \in BOOLEAN : toClient' = <<Answer, ConnectionUpdate(sgroup.pending, b)>>
      BY <1>9, <2>4
    <3> QED
      BY <1>3, <1>9, <1>10, <1>15, <2>1, <2>4, <3>1 DEF Answered, SameEpoch
  <2> QED
    BY <1>15, <2>2, <2>3, <2>4 DEF Answered
<1>16. Up'
  BY <1>1, <1>9, <1>10, <1>13, <1>14, <1>15 DEF Up
<1> QED
  BY <1>1, <1>3, <1>6, <1>8, <1>9, <1>11, <1>12, <1>16 DEF Acts, ResInv

\* The answer ends the client's wait.
LEMMA ClientConfirms ==
    ASSUME ResInv, Receive("client"), Head(toClient).type # "ConnectionUpdate"
    PROVE  ResInv'
<1> DEFINE r == client_receive_signaling_message(client, Head(toClient), commits + 1)
           s == [client EXCEPT !.internal_state = Running]
           message == NoMessage
           u == IF ctag = "WaitingForConnectionConfirmation" THEN NoSecretUpdate
                ELSE ServerSecret(cgroup.secret)
<1>1. /\ TypeOK /\ OnParty(queue) /\ link = "up" /\ error = "ok" /\ toClient # << >>
      /\ Up /\ ctag \in ClientTag
  BY DEF ResInv, Receive, toClient
<1>2. ~Ignored(Head(toClient))
  BY DEF Ignored
<1>3. /\ error' = r.error
      /\ Apply("client", r, Taken("client"))
      /\ row' = IF r.error = "ok" THEN store_update(r.state) ELSE row
      /\ UNCHANGED <<link, breaks, restarts, followed, behind>>
  BY <1>2 DEF Receive, process_signaling_message, Taken, client, toClient
<1>4. /\ client \in Handshake /\ cgroup \in Group /\ cgroup.secret \in Nat
      /\ traffic["client"] \in [client_secret : Nat, server_secret : Nat]
  BY <1>1, Parts
<1>5. \A c, b : ConnectionUpdate(c, b).type = "ConnectionUpdate"
  BY Kinds
<1>6. \A t \in Stale : t.type = "ConnectionUpdate"
  BY <1>5 DEF Stale
<1>7. Answered
  <2>1. ~Idle
    <3>1. ASSUME Idle PROVE FALSE
      <4>1. \E b \in BOOLEAN : toClient = <<ConnectionUpdate(sgroup.pending, b)>>
        BY <1>1, <3>1 DEF Idle, Offer
      <4>2. PICK b \in BOOLEAN : toClient = <<ConnectionUpdate(sgroup.pending, b)>>
        BY <4>1
      <4>3. Head(toClient) = ConnectionUpdate(sgroup.pending, b)
        BY <4>2
      <4> QED
        BY <1>5, <4>3
    <3> QED
      BY <3>1
  <2>2. ~Ahead
    <3>1. ~ \E t \in Stale : toClient = <<t>>
      BY <1>6
    <3> QED
      BY <1>1, <3>1 DEF Ahead
  <2> QED
    BY <1>1, <2>1, <2>2 DEF Up
<1>8. /\ Head(toClient) = Answer
      /\ Tail(toClient) \in Offer
  <2>1. CASE toClient = <<Answer>> /\ sgroup.pending = NoCommit
    BY <2>1 DEF Offer
  <2>2. CASE (\E b \in BOOLEAN : toClient = <<Answer, ConnectionUpdate(sgroup.pending, b)>>)
             /\ sgroup.pending # NoCommit
    <3>1. PICK b \in BOOLEAN : toClient = <<Answer, ConnectionUpdate(sgroup.pending, b)>>
      BY <2>2
    <3>2. Head(toClient) = Answer /\ Tail(toClient) = <<ConnectionUpdate(sgroup.pending, b)>>
      BY <3>1
    <3> QED
      BY <2>2, <3>2 DEF Offer
  <2>3. ~ \E t \in Stale : toClient = <<t, Answer>>
    BY <1>6
  <2>4. ~ \E t \in Stale, b \in BOOLEAN :
            toClient = <<t, Answer, ConnectionUpdate(sgroup.pending, b)>>
    BY <1>6
  <2> QED
    BY <1>7, <2>1, <2>2, <2>3, <2>4 DEF Answered
<1>9. r = Done(s, 0, message, u)
  <2>1. client.group = cgroup /\ client.internal_state.tag = ctag
    BY DEF cgroup, ctag
  <2>2. CASE ctag = "WaitingForConnectionConfirmation"
    <3>1. /\ Answer.type = "ConnectionConfirmation" /\ Answer.epoch = cgroup.epoch
      BY <2>2, Kinds DEF Answer
    <3> QED
      BY <1>8, <2>1, <2>2, <3>1
         DEF client_receive_signaling_message, client_receive_confirmation,
             process_epoch_key_update
  <2>3. CASE ctag # "WaitingForConnectionConfirmation"
    <3>1. /\ Answer.type = "EpochKeyUpdate" /\ Answer.epoch = cgroup.epoch
      BY <2>3, Kinds DEF Answer
    <3>2. /\ ctag \in {"WaitingForEpochKeyUpdate", "WaitingForEpochKeyUpdateReturn"}
          /\ client.internal_state.secrets = cgroup.secret
      BY <1>1, <1>7, <2>3 DEF ClientTag, Answered, Up
    <3> QED
      BY <1>8, <2>1, <2>3, <3>1, <3>2
         DEF client_receive_signaling_message, client_receive_confirmation,
             process_epoch_key_update
  <2> QED
    BY <2>2, <2>3
<1>10. /\ s \in Handshake /\ s.group = cgroup /\ s.epoch = client.epoch
       /\ s.internal_state = Running
  BY <1>4, MessageTypes DEF Handshake, cgroup
<1> HIDE DEF r, s
<1>11. r.error = "ok" /\ r.state = s /\ message = NoMessage
  BY <1>9 DEF Done
<1>12. u \in SecretUpdates
  BY <1>4, MessageTypes
<1> HIDE DEF message, u
<1>13. /\ OnParty(Taken("client")) /\ Taken("client")["server"] = toServer
       /\ Taken("client")["client"] = Tail(toClient)
  BY <1>1, TakenFields DEF Party, toServer, toClient
<1>14. Acts("client", "server", s, message, u, Taken("client"))
  <2> DEFINE m == 0
  <2>1. m \in Nat /\ r = Done(s, m, message, u)
    BY <1>9
  <2> HIDE DEF m
  <2> QED
    BY <1>1, <1>3, <1>10, <1>12, <1>13, <2>1, ClientApplied
<1>15. /\ client' = s /\ server' = server /\ cgroup' = cgroup /\ sgroup' = sgroup
       /\ ctag' = "Running" /\ toServer' = toServer
       /\ toClient' = Tail(toClient)
       /\ traffic'["server"] = traffic["server"]
  BY <1>10, <1>11, <1>13, <1>14
     DEF Acts, client, server, cgroup, sgroup, ctag, toClient, toServer, Running
<1>16. traffic'["client"] = SameSecret(cgroup.secret)
  <2>1. traffic'["client"] = traffic_update(traffic["client"], u)
    BY <1>14 DEF Acts
  <2>2. traffic["client"].client_secret = cgroup.secret
    BY <1>1 DEF Up
  <2>3. ctag = "WaitingForConnectionConfirmation" => traffic["client"].server_secret = cgroup.secret
    BY <1>7 DEF Answered
  <2> QED
    BY <1>4, <2>1, <2>2, <2>3
       DEF u, traffic_update, SameSecret, NoSecretUpdate, ServerSecret
<1>17. TypeOK'
  BY <1>1, <1>3, <1>11, <1>14, <1>15, TypesKept DEF Acts, TypeOK, ErrorKind
<1>18. SameEpoch /\ SameEpoch' /\ cgroup.pending = NoCommit /\ client.epoch = cgroup.epoch
  BY <1>1, <1>7, <1>15 DEF SameEpoch, Answered, Up
<1>19. (ctag \in {"WaitingForEpochKeyUpdate", "WaitingForConnectionConfirmation"} => Committed)'
       /\ Stored' /\ Offers'
  BY <1>3, <1>10, <1>11, <1>15, <1>18 DEF Stored, Offers, Reaches, FreshTags, SameEpoch
<1>20. Idle'
  <2>1. (toClient \in Offer)'
    BY <1>8, <1>15 DEF Offer
  <2>2. (traffic["client"].server_secret = cgroup.secret)'
    BY <1>4, <1>15, <1>16, TrafficUpdates
  <2> QED
    BY <1>7, <1>10, <1>15, <1>18, <2>1, <2>2 DEF Idle, Answered
<1>21. Up'
  <2>1. (traffic["client"].client_secret = cgroup.secret)'
    BY <1>4, <1>15, <1>16, TrafficUpdates
  <2> QED
    BY <1>1, <1>10, <1>15, <1>18, <1>20, <2>1 DEF Up
<1> QED
  BY <1>1, <1>3, <1>11, <1>14, <1>15, <1>17, <1>19, <1>21 DEF Acts, ResInv, ClientTag

\* What an idle client makes of the server's update: it enters the server's
\* epoch, or makes a commit of its own there.
LEMMA ClientTakesOffer ==
    ASSUME TypeOK, ctag = "Running", cgroup.pending = NoCommit,
           sgroup.pending.epoch = cgroup.epoch, sgroup.pending.base = cgroup.secret,
           NEW b \in BOOLEAN, NEW message, message = ConnectionUpdate(sgroup.pending, b),
           NEW n \in Nat, n > 0
    PROVE  LET d == After(sgroup.pending)
               c == CommitOn(d, n)
           IN  client_receive_signaling_message(client, message, n) =
                 IF b THEN Done([epoch |-> d.epoch + 1,
                                 internal_state |-> Waiting("WaitingForEpochKeyUpdate", c, n),
                                 group |-> After(c)],
                                1, ConnectionUpdate(c, FALSE), ClientSecret(n))
                 ELSE Done([epoch |-> d.epoch,
                            internal_state |-> Waiting("WaitingForEpochKeyUpdateReturn",
                                                       NoCommit, d.secret),
                            group |-> d],
                           0, EpochKeyUpdate(d.epoch), ClientSecret(d.secret))
<1> DEFINE d == After(sgroup.pending)
           processed == process_mls_update(client.group, message.mls_commit, FALSE)
           f == [client EXCEPT !.epoch = processed.group.epoch, !.group = processed.group]
<1>1. /\ client \in Handshake /\ cgroup \in Group /\ sgroup.pending \in Commit
  BY Parts
<1>2. /\ message.type = "ConnectionUpdate" /\ message.mls_commit = sgroup.pending
      /\ message.update_requested = b
  BY Kinds
<1>3. processed.ok /\ processed.group = d
  BY <1>1, <1>2, CommitFollowed DEF cgroup
<1>4. d \in Group /\ d.pending = NoCommit /\ d.epoch \in Nat
  BY <1>1, AfterFields DEF Group
<1>5. ~client_is_waiting(client)
  BY DEF client_is_waiting, ctag
<1>6. client_receive_signaling_message(client, message, n) =
        IF b THEN self_update_and_merge(f, FALSE, n)
        ELSE Done([f EXCEPT !.internal_state = Waiting("WaitingForEpochKeyUpdateReturn",
                                                       NoCommit, processed.group.secret)],
                  0, create_epoch_key_update(f.group), ClientSecret(processed.group.secret))
  BY <1>2, <1>3, <1>5 DEF client_receive_signaling_message, client_process_update
<1> HIDE DEF d, processed
<1>7. f \in Handshake /\ f.group = d /\ f.epoch = d.epoch
  BY <1>1, <1>3, <1>4 DEF Handshake
<1> HIDE DEF f
<1>8. self_update_and_merge(f, FALSE, n) =
        Done([epoch |-> f.group.epoch + 1,
              internal_state |-> Waiting("WaitingForEpochKeyUpdate", CommitOn(f.group, n), n),
              group |-> After(CommitOn(f.group, n))],
             1, ConnectionUpdate(CommitOn(f.group, n), FALSE), ClientSecret(n))
  BY <1>4, <1>7, ClientMerges
<1>9. [f EXCEPT !.internal_state = Waiting("WaitingForEpochKeyUpdateReturn", NoCommit, d.secret)] =
        [epoch |-> d.epoch,
         internal_state |-> Waiting("WaitingForEpochKeyUpdateReturn", NoCommit, d.secret),
         group |-> d]
  BY <1>7 DEF Handshake
<1>10. create_epoch_key_update(f.group) = EpochKeyUpdate(d.epoch)
  BY <1>7 DEF create_epoch_key_update
<1>11. CASE b
  BY <1>6, <1>7, <1>8, <1>11 DEF d
<1>12. CASE ~b
  <2>1. client_receive_signaling_message(client, message, n) =
          Done([epoch |-> d.epoch,
                internal_state |-> Waiting("WaitingForEpochKeyUpdateReturn", NoCommit, d.secret),
                group |-> d], 0, EpochKeyUpdate(d.epoch), ClientSecret(d.secret))
    BY <1>3, <1>6, <1>9, <1>10, <1>12
  <2> QED
    BY <1>12, <2>1 DEF d
<1> QED
  BY <1>11, <1>12

\* An idle client follows the server's update.
LEMMA ClientFollows ==
    ASSUME ResInv, Receive("client"), ctag = "Running"
    PROVE  ResInv'
<1> DEFINE n == commits + 1
           r == client_receive_signaling_message(client, Head(toClient), n)
           d == After(sgroup.pending)
           c == CommitOn(d, n)
<1>1. /\ TypeOK /\ OnParty(queue) /\ link = "up" /\ error = "ok" /\ toClient # << >>
      /\ Up /\ ctag \in ClientTag
  BY DEF ResInv, Receive, toClient
<1>2. ~Ignored(Head(toClient))
  BY DEF Ignored, ctag, client_is_waiting, client
<1>3. /\ error' = r.error
      /\ Apply("client", r, Taken("client"))
      /\ row' = IF r.error = "ok" THEN store_update(r.state) ELSE row
      /\ UNCHANGED <<link, breaks, restarts, followed, behind>>
  BY <1>2 DEF Receive, process_signaling_message, Taken, client, toClient
<1>4. /\ client \in Handshake /\ cgroup \in Group /\ sgroup.pending \in Commit
      /\ sgroup.epoch \in Nat
      /\ traffic["client"] \in [client_secret : Nat, server_secret : Nat]
      /\ n \in Nat /\ n > 0
  BY <1>1, Parts
<1> HIDE DEF n
<1>5. Idle
  BY <1>1 DEF Up, Ahead, Answered
<1>6. /\ SameEpoch /\ cgroup.pending = NoCommit /\ toServer = << >>
      /\ sgroup.pending # NoCommit
      /\ sgroup.pending.epoch = sgroup.epoch /\ sgroup.pending.base = sgroup.secret
  BY <1>1, <1>5 DEF Idle, Up, Offer
<1>7. PICK b \in BOOLEAN : toClient = <<ConnectionUpdate(sgroup.pending, b)>>
  BY <1>5, <1>6 DEF Idle, Offer
<1>8. Head(toClient) = ConnectionUpdate(sgroup.pending, b) /\ Tail(toClient) = << >>
  BY <1>7
<1>9. r = IF b THEN Done([epoch |-> d.epoch + 1,
                          internal_state |-> Waiting("WaitingForEpochKeyUpdate", c, n),
                          group |-> After(c)],
                         1, ConnectionUpdate(c, FALSE), ClientSecret(n))
          ELSE Done([epoch |-> d.epoch,
                     internal_state |-> Waiting("WaitingForEpochKeyUpdateReturn",
                                                NoCommit, d.secret),
                     group |-> d],
                    0, EpochKeyUpdate(d.epoch), ClientSecret(d.secret))
  <2> DEFINE message == ConnectionUpdate(sgroup.pending, b)
  <2>1. Head(toClient) = message
    BY <1>8
  <2>2. sgroup.pending.epoch = cgroup.epoch /\ sgroup.pending.base = cgroup.secret
    BY <1>6 DEF SameEpoch
  <2>3. message = ConnectionUpdate(sgroup.pending, b)
    OBVIOUS
  <2> HIDE DEF message
  <2> QED
    BY <1>1, <1>4, <1>6, <2>1, <2>2, <2>3, ClientTakesOffer
<1> HIDE DEF r
<1>10. /\ d \in Group /\ d.epoch = sgroup.epoch + 1 /\ d.secret = sgroup.pending.id
       /\ d.pending = NoCommit /\ d.epoch \in Nat /\ d.secret \in Nat
  BY <1>4, <1>6, AfterFields DEF Group
<1> HIDE DEF d
<1>11. /\ c \in Commit /\ c.epoch = d.epoch /\ c.base = d.secret /\ c.id = n
       /\ After(c) \in Group /\ After(c).epoch = c.epoch + 1 /\ After(c).secret = n
       /\ After(c).pending = NoCommit
  <2>1. c \in Commit /\ c.epoch = d.epoch /\ c.base = d.secret /\ c.id = n
    BY <1>4, <1>10, CommitOnFacts
  <2> HIDE DEF c
  <2> QED
    BY <2>1, AfterFields
<1> HIDE DEF c
<1> DEFINE g == IF b THEN After(c) ELSE d
           i == IF b THEN Waiting("WaitingForEpochKeyUpdate", c, n)
                ELSE Waiting("WaitingForEpochKeyUpdateReturn", NoCommit, d.secret)
           s == [epoch |-> g.epoch, internal_state |-> i, group |-> g]
           m == IF b THEN 1 ELSE 0
           message == IF b THEN ConnectionUpdate(c, FALSE) ELSE EpochKeyUpdate(d.epoch)
           u == ClientSecret(g.secret)
<1>12. r = Done(s, m, message, u)
  <2>1. CASE b
    BY <1>9, <1>11, <2>1
  <2>2. CASE ~b
    BY <1>9, <2>2
  <2> QED
    BY <2>1, <2>2
<1>13. /\ g \in Group /\ g.pending = NoCommit /\ g.epoch \in Nat /\ g.secret \in Nat
       /\ i \in Internal /\ i.secrets = g.secret
       /\ i.tag = IF b THEN "WaitingForEpochKeyUpdate" ELSE "WaitingForEpochKeyUpdateReturn"
       /\ b => i.mls_message = c
  BY <1>4, <1>10, <1>11, MessageTypes DEF Waiting, Internal, ClientTag, Group
<1>14. m \in Nat /\ message # NoMessage
  BY Kinds
<1> HIDE DEF g, i
<1>15. /\ s \in Handshake /\ s.group = g /\ s.epoch = g.epoch /\ s.internal_state = i
  BY <1>13 DEF Handshake
<1>16. u \in SecretUpdates
  BY <1>13, MessageTypes
<1> HIDE DEF s, m, message, u
<1>17. /\ OnParty(Taken("client")) /\ Taken("client")["server"] = << >>
       /\ Taken("client")["client"] = << >>
  BY <1>1, <1>6, <1>8, TakenFields DEF Party, toServer, toClient
<1>18. Acts("client", "server", s, message, u, Taken("client"))
  BY <1>1, <1>3, <1>12, <1>14, <1>15, <1>16, <1>17, ClientApplied
<1>19. r.error = "ok" /\ r.state = s
  BY <1>12 DEF Done
<1>20. /\ client' = s /\ server' = server /\ cgroup' = g /\ sgroup' = sgroup
       /\ ctag' = i.tag /\ ccommit' = i.mls_message
       /\ toClient' = << >> /\ toServer' = Append(<< >>, message)
       /\ traffic'["server"] = traffic["server"]
  BY <1>14, <1>15, <1>17, <1>18
     DEF Acts, client, server, cgroup, sgroup, ctag, ccommit, toClient, toServer
<1>21. toServer' = <<message>>
  BY <1>20
<1>22. traffic'["client"].client_secret = g.secret
  BY <1>4, <1>13, <1>18, TrafficUpdates DEF Acts, u
<1>23. TypeOK'
  BY <1>1, <1>3, <1>18, <1>19, <1>20, TypesKept DEF Acts, TypeOK, ErrorKind
<1>24. Stored'
  BY <1>3, <1>13, <1>19, <1>20 DEF Stored
<1>25. CASE b
  <2>1. ccommit' = c /\ cgroup' = After(c) /\ ctag' = "WaitingForEpochKeyUpdate"
    BY <1>13, <1>20, <1>25 DEF g
  <2>2. Reaches(ccommit.epoch, ccommit.base)'
    BY <1>6, <1>10, <1>11, <1>20, <2>1 DEF Reaches
  <2>3. Committed' /\ Offers'
    BY <1>13, <1>15, <1>20, <2>1, <2>2 DEF Committed, Offers, FreshTags
  <2>4. (toServer = <<ConnectionUpdate(ccommit, FALSE)>>)'
    BY <1>21, <1>25, <2>1 DEF message
  <2>5. Ahead'
    BY <1>20, <2>1, <2>2, <2>4 DEF Ahead
  <2>6. Up'
    BY <1>1, <1>13, <1>15, <1>20, <1>22, <2>5 DEF Up
  <2> QED
    BY <1>1, <1>3, <1>18, <1>19, <1>23, <1>24, <2>1, <2>3, <2>6 DEF Acts, ResInv, ClientTag
<1>26. CASE ~b
  <2>1. cgroup' = d /\ ctag' = "WaitingForEpochKeyUpdateReturn"
    BY <1>13, <1>20, <1>26 DEF g
  <2>2. Reaches(cgroup.epoch, cgroup.secret)'
    BY <1>6, <1>10, <1>20, <2>1 DEF Reaches
  <2>3. Offers'
    BY <1>10, <1>13, <1>15, <1>20, <2>1, <2>2 DEF Offers, FreshTags
  <2>4. (toServer = <<EpochKeyUpdate(cgroup.epoch)>>)'
    BY <1>21, <1>26, <2>1 DEF message
  <2>5. Ahead'
    BY <1>6, <1>10, <1>20, <2>1, <2>4 DEF Ahead
  <2>6. Up'
    BY <1>1, <1>13, <1>15, <1>20, <1>22, <2>5 DEF Up
  <2> QED
    BY <1>1, <1>3, <1>18, <1>19, <1>23, <1>24, <2>1, <2>3, <2>6 DEF Acts, ResInv, ClientTag
<1> QED
  BY <1>25, <1>26

\* The client processes a message.
LEMMA ClientReceives ==
    ASSUME ResInv, Receive("client")
    PROVE  ResInv'
BY ClientIgnores, ClientConfirms, ClientFollows

-----------------------------------------------------------------------------
\* What resume makes of the client's state.
LEMMA ResumeResult ==
    ASSUME TypeOK, NEW n \in Nat, n > 0
    PROVE  LET c == CommitOn(cgroup, n)
           IN  client_resume(client, n) =
                 IF ctag \notin FreshTags
                 THEN Done([epoch |-> client.epoch,
                            internal_state |-> Waiting("WaitingForConnectionConfirmation", ccommit,
                                                       client.internal_state.secrets),
                            group |-> cgroup],
                           0, ResumptionMessage(ccommit), Both(client.internal_state.secrets))
                 ELSE IF cgroup.pending = NoCommit
                 THEN Done([epoch |-> After(c).epoch,
                            internal_state |-> Waiting("WaitingForConnectionConfirmation", c, n),
                            group |-> After(c)],
                           1, ResumptionMessage(c), Both(n))
                 ELSE Failed("ResumptionError", [client EXCEPT !.internal_state = Running])
<1> DEFINE again == ctag \notin FreshTags
           made == update(cgroup, n)
           c == CommitOn(cgroup, n)
<1>1. cgroup \in Group
  BY Parts
<1>2. /\ client.group = cgroup /\ client.internal_state.tag = ctag
      /\ client.internal_state.mls_message = ccommit
  BY DEF cgroup, ctag, ccommit
<1>3. client_resume(client, n) = resume_with(client, again, n)
  BY <1>2 DEF client_resume
<1>4. CASE again
  BY <1>2, <1>3, <1>4 DEF resume_with
<1>5. CASE ~again /\ cgroup.pending = NoCommit
  <2>1. /\ made.ok /\ made.commit = c
        /\ made.group = [cgroup EXCEPT !.pending = c]
    BY <1>5 DEF update, CommitOn
  <2>2. /\ c \in Commit /\ c # NoCommit /\ c.epoch = cgroup.epoch /\ c.id = n
    BY <1>1, CommitOnFacts
  <2>3. resume_with(client, again, n) =
          Done([epoch |-> merge_update(made.group).epoch,
                internal_state |-> Waiting("WaitingForConnectionConfirmation", made.commit,
                                           merge_update(made.group).secret),
                group |-> merge_update(made.group)],
               1, ResumptionMessage(made.commit), Both(merge_update(made.group).secret))
    BY <1>2, <1>5, <2>1 DEF resume_with
  <2> HIDE DEF made, c
  <2>4. merge_update(made.group) = After(c)
    BY <1>1, <2>1, <2>2 DEF merge_update, After, Group
  <2>5. After(c).secret = n
    BY <2>2, AfterFields
  <2> QED
    BY <1>3, <1>5, <2>1, <2>3, <2>4, <2>5 DEF c
<1>6. CASE ~again /\ cgroup.pending # NoCommit
  <2>1. ~made.ok
    BY <1>6 DEF update
  <2>2. resume_with(client, again, n) =
          Failed("ResumptionError", [client EXCEPT !.internal_state = Running])
    BY <1>2, <1>6, <2>1 DEF resume_with
  <2> QED
    BY <1>3, <1>6, <2>2
<1> QED
  BY <1>4, <1>5, <1>6

\* A handler that fails does what one does that has nothing to say.
LEMMA FailedApplies ==
    ASSUME NEW p, NEW e, NEW s, NEW sofar, Apply(p, Failed(e, s), sofar)
    PROVE  Apply(p, Done(s, 0, NoMessage, NoSecretUpdate), sofar)
BY DEF Apply, Done, Failed

\* The client resumes, or fails to.
LEMMA ClientResumes ==
    ASSUME ResInv, Resume
    PROVE  ResInv'
<1> DEFINE n == commits + 1
           r == client_resume(client, n)
<1>1. /\ TypeOK /\ OnParty(queue) /\ link = "down" /\ error = "ok"
      /\ toServer = << >> /\ toClient = << >>
      /\ Offers /\ Stored /\ ctag \in ClientTag
      /\ ctag \in {"WaitingForEpochKeyUpdate", "WaitingForConnectionConfirmation"} => Committed
  BY DEF ResInv, Resume, Down
<1>2. /\ link' = IF r.error = "ok" THEN "resuming" ELSE "down"
      /\ error' = r.error
      /\ Apply("client", r, queue)
      /\ UNCHANGED <<row, breaks, restarts, followed, behind>>
  BY DEF Resume, client
<1>3. /\ client \in Handshake /\ cgroup \in Group /\ ccommit \in Commit
      /\ client.internal_state \in Internal /\ client.epoch \in Nat
      /\ client.internal_state.secrets \in Nat /\ cgroup.epoch \in Nat
      /\ traffic["client"] \in [client_secret : Nat, server_secret : Nat]
      /\ n \in Nat /\ n > 0
  BY <1>1, Parts
<1> HIDE DEF n
<1>4. CASE ctag \in FreshTags /\ cgroup.pending # NoCommit
  <2> DEFINE s == [client EXCEPT !.internal_state = Running]
             u == NoSecretUpdate
             m == 0
  <2>1. r = Failed("ResumptionError", s)
    BY <1>1, <1>3, <1>4, ResumeResult
  <2>2. s \in Handshake /\ s.internal_state = Running /\ u \in SecretUpdates /\ m \in Nat
    BY <1>3, MessageTypes DEF Handshake
  <2>3. Apply("client", Done(s, m, NoMessage, u), queue)
    BY <1>2, <2>1, FailedApplies
  <2>4. r.error = "ResumptionError"
    BY <2>1 DEF Failed
  <2> HIDE DEF r, s, u, m
  <2>5. Acts("client", "server", s, NoMessage, u, queue)
    BY <1>1, <2>2, <2>3, ClientApplied
  <2>6. behind /\ behind' /\ error' # "ok" /\ link' = "down" /\ error' \in ErrorKind
    BY <1>1, <1>2, <1>4, <2>4 DEF Offers, TypeOK, ErrorKind
  <2>7. TypeOK'
    BY <1>1, <1>2, <2>5, <2>6, TypesKept DEF Acts, TypeOK
  <2>8. ctag' = "Running" /\ Down'
    BY <1>1, <2>2, <2>5 DEF Acts, ctag, client, Running, Down, toServer, toClient
  <2> QED
    BY <2>5, <2>6, <2>7, <2>8 DEF Acts, ResInv, ClientTag
<1>5. CASE ~(ctag \in FreshTags /\ cgroup.pending # NoCommit)
  <2> DEFINE again == ctag \notin FreshTags
             c == IF again THEN ccommit ELSE CommitOn(cgroup, n)
             i == Waiting("WaitingForConnectionConfirmation", c, After(c).secret)
             s == [epoch |-> After(c).epoch, internal_state |-> i, group |-> After(c)]
             m == IF again THEN 0 ELSE 1
             message == ResumptionMessage(c)
             u == Both(After(c).secret)
  <2>1. again => /\ ctag \in {"WaitingForEpochKeyUpdate", "WaitingForConnectionConfirmation"}
                 /\ cgroup = After(ccommit) /\ client.epoch = After(ccommit).epoch
                 /\ client.internal_state.secrets = After(ccommit).secret
    BY <1>1 DEF ClientTag, FreshTags, Committed
  <2>2. ~again => /\ cgroup.pending = NoCommit
                  /\ CommitOn(cgroup, n) \in Commit /\ CommitOn(cgroup, n).id = n
                  /\ CommitOn(cgroup, n).epoch = cgroup.epoch
                  /\ CommitOn(cgroup, n).base = cgroup.secret
    BY <1>3, <1>5, CommitOnFacts
  <2>3. c \in Commit
    BY <1>3, <2>2
  <2>4. ~again => After(c).secret = n
    BY <2>2, AfterFields
  <2>5. r = Done(s, m, message, u)
    <3>1. CASE again
      BY <1>1, <1>3, <2>1, <3>1, ResumeResult
    <3>2. CASE ~again
      BY <1>1, <1>3, <2>2, <2>4, <3>2, ResumeResult
    <3> QED
      BY <3>1, <3>2
  <2>6. m \in Nat
    OBVIOUS
  <2>7. /\ again => c = ccommit
        /\ ~again => /\ c.epoch = cgroup.epoch /\ c.base = cgroup.secret
                     /\ cgroup.pending = NoCommit
    BY <2>2
  <2> HIDE DEF r, c, m
  <2>8. /\ After(c) \in Group /\ After(c).secret \in Nat /\ After(c).epoch = c.epoch + 1
        /\ After(c).epoch \in Nat
    BY <2>3, AfterFields DEF Group
  <2>9. /\ i \in Internal /\ i.tag = "WaitingForConnectionConfirmation" /\ i.mls_message = c
        /\ i.secrets = After(c).secret
    BY <2>3, <2>8 DEF Waiting, Internal, ClientTag
  <2>10. message # NoMessage /\ u \in SecretUpdates
    BY <2>8, Kinds, MessageTypes
  <2> HIDE DEF i
  <2>11. /\ s \in Handshake /\ s.epoch = After(c).epoch /\ s.internal_state = i
         /\ s.group = After(c)
    BY <2>8, <2>9 DEF Handshake
  <2> HIDE DEF s, message, u
  <2>12. r.error = "ok"
    BY <2>5 DEF Done
  <2>13. Acts("client", "server", s, message, u, queue)
    BY <1>1, <1>2, <2>5, <2>6, <2>10, <2>11, ClientApplied
  <2>14. /\ client' = s /\ cgroup' = After(c) /\ sgroup' = sgroup
         /\ ctag' = "WaitingForConnectionConfirmation" /\ ccommit' = c
         /\ toClient' = << >> /\ toServer' = Append(<< >>, message)
    BY <1>1, <2>9, <2>10, <2>11, <2>13
       DEF Acts, client, server, cgroup, sgroup, ctag, ccommit, toClient, toServer
  <2>15. toServer' = <<message>>
    BY <2>14
  <2>16. traffic'["client"] = SameSecret(After(c).secret)
    BY <1>3, <2>8, <2>13, TrafficUpdates DEF Acts, u
  <2>17. error' = "ok" /\ link' = "resuming"
    BY <1>2, <2>12
  <2>18. TypeOK'
    BY <1>1, <1>2, <2>13, <2>17, TypesKept DEF Acts, TypeOK, ErrorKind
  <2>19. Committed' /\ Resuming'
    BY <2>9, <2>11, <2>14, <2>15, <2>16 DEF Committed, Resuming, message
  <2>20. Offers'
    BY <1>1, <1>2, <2>7, <2>14 DEF Offers, Reaches, FreshTags
  <2>21. Stored'
    <3>1. CASE ~again
      <4>1. row = store_update(client)
        BY <1>1, <3>1 DEF Stored, FreshTags
      <4>2. row.internal_state.tag = ctag /\ row.epoch = client.epoch
        BY <4>1 DEF store_update, ctag
      <4>3. ~behind => client.epoch = cgroup.epoch
        BY <1>1, <3>1 DEF Offers
      <4> QED
        BY <1>2, <1>3, <2>7, <2>8, <2>14, <3>1, <4>2, <4>3 DEF Stored
    <3>2. CASE again
      <4>1. [i EXCEPT !.tag = "WaitingForEpochKeyUpdate"] =
              [client.internal_state EXCEPT !.tag = "WaitingForEpochKeyUpdate"]
        BY <1>3, <2>1, <2>7, <2>9, <3>2 DEF Internal, ccommit
      <4>2. s.epoch = client.epoch /\ cgroup' = cgroup
        BY <2>1, <2>7, <2>11, <2>14, <3>2
      <4>3. CASE ctag = "WaitingForConnectionConfirmation"
        BY <1>1, <1>2, <2>11, <2>14, <4>1, <4>2, <4>3 DEF Stored
      <4>4. CASE ctag = "WaitingForEpochKeyUpdate"
        <5>1. row.internal_state = client.internal_state /\ row.epoch = client.epoch
          BY <1>1, <4>4 DEF Stored, store_update
        <5>2. [client.internal_state EXCEPT !.tag = "WaitingForEpochKeyUpdate"] =
                client.internal_state
          BY <1>3, <4>4 DEF Internal, ctag
        <5> QED
          BY <1>2, <2>11, <2>14, <4>1, <4>2, <5>1, <5>2 DEF Stored
      <4> QED
        BY <2>1, <3>2, <4>3, <4>4
    <3> QED
      BY <3>1, <3>2
  <2> QED
    BY <2>13, <2>14, <2>17, <2>18, <2>19, <2>20, <2>21 DEF Acts, ResInv, ClientTag
<1> QED
  BY <1>4, <1>5

\* process_resumption follows the commits that the server reaches, and only them.
LEMMA StartResult ==
    ASSUME TypeOK, NEW message, message = ResumptionMessage(ccommit)
    PROVE  LET c == ccommit
               g == process_mls_update(sgroup, c, TRUE).group
           IN  process_resumption(sgroup, message) =
                 IF Reaches(c.epoch, c.base)
                 THEN Done(server_follow(server_start, After(c)), 0,
                           ConnectionConfirmation(After(c).epoch), Both(After(c).secret))
                 ELSE Failed("ConnectionUpdateError", server_follow(server_start, g))
<1> DEFINE c == ccommit
           processed == process_mls_update(sgroup, c, TRUE)
<1>1. /\ c \in Commit /\ sgroup \in Group
  BY Parts
<1>2. message.mls_commit = c
  BY Kinds
<1>3. CASE Reaches(c.epoch, c.base)
  <2>1. processed.ok /\ processed.group = After(c)
    BY <1>1, <1>3, CommitFollowed, PendingConfirmed DEF Reaches
  <2>2. process_resumption(sgroup, message) =
          Done(server_follow(server_start, processed.group), 0,
               ConnectionConfirmation(processed.group.epoch), Both(processed.group.secret))
    BY <1>2, <2>1 DEF process_resumption
  <2> QED
    BY <1>3, <2>1, <2>2
<1>4. CASE ~Reaches(c.epoch, c.base)
  <2>1. ~processed.ok
    <3> DEFINE resolved == resolve_pending(sgroup, c, TRUE)
    <3>1. /\ c.epoch = sgroup.epoch + 1 /\ sgroup.pending # NoCommit =>
               resolved.epoch = sgroup.epoch + 1 /\ resolved.secret = sgroup.pending.id
          /\ ~(c.epoch = sgroup.epoch + 1 /\ sgroup.pending # NoCommit) =>
               resolved.epoch = sgroup.epoch /\ resolved.secret = sgroup.secret
      BY <1>1 DEF resolve_pending, merge_update, Group, Commit
    <3> HIDE DEF resolved
    <3>2. ~(c.epoch = resolved.epoch /\ c.base = resolved.secret)
      BY <1>4, <3>1 DEF Reaches
    <3> QED
      BY <3>2 DEF process_mls_update, resolved
  <2>2. process_resumption(sgroup, message) =
          Failed("ConnectionUpdateError", server_follow(server_start, processed.group))
    BY <1>2, <2>1 DEF process_resumption
  <2> QED
    BY <1>4, <2>2
<1> QED
  BY <1>3, <1>4

\* The server takes up the session again, or refuses to.
LEMMA ServerStarts ==
    ASSUME ResInv, ServerStart
    PROVE  ResInv'
<1> DEFINE r == process_resumption(sgroup, Head(toServer))
           c == ccommit
           q == [queue EXCEPT !["server"] = << >>]
<1>1. /\ TypeOK /\ OnParty(queue) /\ link = "resuming" /\ error = "ok"
      /\ Offers /\ Stored /\ Resuming /\ ctag \in ClientTag
      /\ ctag \in {"WaitingForEpochKeyUpdate", "WaitingForConnectionConfirmation"} => Committed
  BY DEF ResInv, ServerStart, TypeOK
<1>2. /\ link' = IF r.error = "ok" THEN "up" ELSE "down"
      /\ Apply("server", r, q)
      /\ followed' = IF r.error = "ok" THEN followed \union {Head(toServer).mls_commit}
                     ELSE followed
      /\ UNCHANGED <<row, error, breaks, restarts, behind>>
  BY DEF ServerStart, server, sgroup, toServer
<1>3. /\ c \in Commit /\ sgroup \in Group /\ cgroup \in Group
      /\ cgroup.epoch \in Nat /\ cgroup.secret \in Nat
      /\ traffic["server"] \in [client_secret : Nat, server_secret : Nat]
  BY <1>1, Parts
<1>4. /\ ctag = "WaitingForConnectionConfirmation" /\ toClient = << >>
      /\ Head(toServer) = ResumptionMessage(c) /\ Head(toServer).mls_commit = c
      /\ traffic["client"] = SameSecret(cgroup.secret)
  <2>1. toServer = <<ResumptionMessage(c)>>
    BY <1>1 DEF Resuming
  <2>2. ResumptionMessage(c).mls_commit = c
    BY Kinds
  <2> QED
    BY <1>1, <2>1, <2>2 DEF Resuming
<1>5. /\ cgroup = After(c) /\ client.epoch = cgroup.epoch
      /\ client.internal_state.secrets = cgroup.secret
  BY <1>1, <1>4 DEF Committed
<1>6. cgroup.pending = NoCommit
  BY <1>3, <1>5, AfterFields
<1>7. OnParty(q) /\ q["server"] = << >> /\ q["client"] = toClient
  BY <1>1 DEF OnParty, Party, toClient
<1> HIDE DEF c, q
<1>8. CASE Reaches(c.epoch, c.base)
  <2> DEFINE s == server_follow(server_start, cgroup)
             message == ConnectionConfirmation(cgroup.epoch)
             u == Both(cgroup.secret)
             m == 0
  <2>1. r = Done(s, m, message, u)
    BY <1>1, <1>4, <1>5, <1>8, StartResult DEF c
  <2>2. /\ s \in Handshake /\ s.epoch = cgroup.epoch /\ s.internal_state = Running
        /\ s.group = cgroup
    BY <1>3, MessageTypes DEF server_follow, Handshake
  <2>3. message # NoMessage /\ u \in SecretUpdates /\ m \in Nat
    BY <1>3, Kinds, MessageTypes
  <2> HIDE DEF r, s, message, u, m
  <2>4. r.error = "ok"
    BY <2>1 DEF Done
  <2>5. Acts("server", "client", s, message, u, q)
    BY <1>1, <1>2, <1>7, <2>1, <2>2, <2>3, ServerApplied
  <2>6. /\ client' = client /\ server' = s /\ cgroup' = cgroup /\ sgroup' = cgroup
        /\ ctag' = ctag /\ ccommit' = c /\ toServer' = << >>
        /\ toClient' = Append(<< >>, message)
        /\ traffic'["client"] = traffic["client"]
    BY <1>4, <1>7, <2>2, <2>3, <2>5
       DEF Acts, client, server, cgroup, sgroup, ctag, ccommit, toClient, toServer, c
  <2>7. toClient' = <<message>> /\ Answer' = message
    BY <1>4, <2>6 DEF Answer, message
  <2>8. traffic'["server"] = SameSecret(cgroup.secret)
    BY <1>3, <2>5, TrafficUpdates DEF Acts, u
  <2>9. /\ error' = "ok" /\ link' = "up" /\ c \in followed' /\ followed' \subseteq Commit
    BY <1>1, <1>2, <1>3, <1>4, <2>4 DEF TypeOK
  <2>10. TypeOK'
    BY <1>1, <1>2, <2>5, <2>9, TypesKept DEF Acts, TypeOK, ErrorKind
  <2>11. Committed' /\ Stored' /\ Offers'
    BY <1>1, <1>2, <1>4, <1>5, <2>6, <2>9 DEF Committed, Stored, Offers, FreshTags
  <2>12. traffic'["client"].client_secret = cgroup.secret
         /\ traffic'["client"].server_secret = cgroup.secret
    BY <1>4, <2>6 DEF SameSecret
  <2>13. Answered'
    BY <1>4, <1>6, <2>6, <2>7, <2>9, <2>12 DEF Answered, SameEpoch
  <2>14. Up'
    BY <1>5, <1>6, <2>2, <2>6, <2>8, <2>12, <2>13 DEF Up
  <2> QED
    BY <1>1, <2>5, <2>6, <2>9, <2>10, <2>11, <2>14 DEF Acts, ResInv
<1>9. CASE ~Reaches(c.epoch, c.base)
  <2> DEFINE g == process_mls_update(sgroup, c, TRUE).group
             s == server_follow(server_start, g)
             u == NoSecretUpdate
             m == 0
  <2>1. r = Failed("ConnectionUpdateError", s)
    BY <1>1, <1>4, <1>9, StartResult DEF c
  <2>2. g \in Group
    BY <1>3, ProcessType
  <2> HIDE DEF g
  <2>3. s \in Handshake /\ u \in SecretUpdates /\ m \in Nat
    BY <2>2, MessageTypes DEF server_follow, Handshake, Group
  <2>4. r.error = "ConnectionUpdateError"
    BY <2>1 DEF Failed
  <2>5. Apply("server", Done(s, m, NoMessage, u), q)
    BY <1>2, <2>1, FailedApplies
  <2> HIDE DEF r, s, u, m
  <2>6. Acts("server", "client", s, NoMessage, u, q)
    BY <1>1, <1>7, <2>3, <2>5, ServerApplied
  <2>7. /\ client' = client /\ cgroup' = cgroup
        /\ ctag' = ctag /\ ccommit' = c /\ toServer' = << >> /\ toClient' = << >>
    BY <1>4, <1>7, <2>6 DEF Acts, client, cgroup, ctag, ccommit, toClient, toServer, c
  <2>8. error' = "ok" /\ link' = "down" /\ followed' = followed
    BY <1>1, <1>2, <2>4
  <2>9. TypeOK'
    BY <1>1, <1>2, <2>6, <2>8, TypesKept DEF Acts, TypeOK, ErrorKind
  <2>10. Committed' /\ Stored' /\ Offers' /\ Down'
    BY <1>1, <1>2, <1>4, <1>5, <1>9, <2>7, <2>8
       DEF Committed, Stored, Offers, FreshTags, Down, c
  <2> QED
    BY <1>1, <2>6, <2>7, <2>8, <2>9, <2>10 DEF Acts, ResInv
<1> QED
  BY <1>8, <1>9

\* The connection breaks.
LEMMA Breaks ==
    ASSUME ResInv, Break
    PROVE  ResInv'
<1>1. /\ TypeOK /\ link # "down" /\ error = "ok" /\ breaks < MaxBreaks
      /\ Offers /\ Stored /\ ctag \in ClientTag
      /\ ctag \in {"WaitingForEpochKeyUpdate", "WaitingForConnectionConfirmation"} => Committed
  BY DEF ResInv, Break
<1>2. /\ link' = "down" /\ breaks' = breaks + 1 /\ queue' = [p \in Party |-> << >>]
      /\ hs' = [hs EXCEPT !["server"].internal_state = Running]
      /\ UNCHANGED <<row, traffic, error, commits, restarts, followed, behind>>
  BY DEF Break
<1>3. /\ hs' \in [Party -> Handshake] /\ hs'["client"] = hs["client"]
      /\ hs'["server"].group = hs["server"].group
  <2> DEFINE s == [hs["server"] EXCEPT !.internal_state = Running]
  <2>1. hs \in [Party -> Handshake] /\ hs' = [hs EXCEPT !["server"] = s]
    BY <1>1, <1>2 DEF TypeOK
  <2>2. s \in Handshake /\ s.group = hs["server"].group
    BY <2>1, MessageTypes DEF Handshake, Party
  <2> HIDE DEF s
  <2> QED
    BY <2>1, <2>2 DEF Party
<1>4. TypeOK'
  BY <1>1, <1>2, <1>3, ResumptionAssumption DEF TypeOK
<1>5. /\ client' = client /\ cgroup' = cgroup /\ sgroup' = sgroup /\ ctag' = ctag
      /\ ccommit' = ccommit
  BY <1>3 DEF client, server, cgroup, sgroup, ctag, ccommit
<1>6. OnParty(queue') /\ Down'
  BY <1>2 DEF OnParty, Down, toServer, toClient, Party
<1>7. Stored' /\ Offers'
      /\ (ctag \in {"WaitingForEpochKeyUpdate", "WaitingForConnectionConfirmation"} => Committed)'
  BY <1>1, <1>2, <1>5 DEF Stored, Offers, Committed, Reaches
<1> QED
  BY <1>1, <1>2, <1>4, <1>5, <1>6, <1>7 DEF ResInv

\* A self-update under way has changed nothing, has left a commit pending, or has
\* moved the group to the next epoch.
LEMMA Stages ==
    ASSUME commits \in Nat, NEW g \in Group, NEW x \in UpdateStages(g)
    PROVE  /\ x \in Group
           /\ x = g \/ x.pending # NoCommit \/ x.epoch = g.epoch + 1
<1> DEFINE n == commits + 1
           made == update(g, n).group
<1>1. n \in Nat /\ n > 0
  OBVIOUS
<1>2. x = g \/ x = made \/ x = merge_update(made)
  BY DEF UpdateStages
<1> HIDE DEF n
<1>3. made \in Group
  BY <1>1, UpdateType
<1>4. made.pending # NoCommit /\ made.epoch = g.epoch
  <2>1. CASE g.pending = NoCommit
    <3>1. made = [g EXCEPT !.pending = CommitOn(g, n)]
      BY <2>1 DEF update, CommitOn
    <3> HIDE DEF made
    <3> QED
      BY <1>1, <3>1, CommitOnFacts DEF Group
  <2>2. CASE g.pending # NoCommit
    BY <2>2 DEF update
  <2> QED
    BY <2>1, <2>2
<1> HIDE DEF made
<1>5. merge_update(made) \in Group /\ merge_update(made).epoch = g.epoch + 1
  BY <1>3, <1>4, MergeType DEF merge_update
<1> QED
  BY <1>2, <1>3, <1>4, <1>5

\* What the client's database may hold when its process dies: only an idle
\* client and one that could resume have changed it already, and then the group
\* has a pending commit or is in a later epoch.
LEMMA CrashGroupFacts ==
    ASSUME ResInv, NEW group \in CrashGroups
    PROVE  /\ group \in Group
           /\ group = cgroup \/ group.pending # NoCommit \/ group.epoch > cgroup.epoch
           /\ ctag \notin FreshTags => group = cgroup
<1> DEFINE updating == \/ link = "up" /\ client.internal_state = Running
                       \/ link = "down" /\ ctag \in FreshTags
           following == /\ link = "up" /\ client.internal_state = Running
                        /\ toClient # << >>
           message == Head(toClient)
           processed == process_mls_update(cgroup, message.mls_commit, FALSE).group
<1>1. \/ group = cgroup
      \/ updating /\ group \in UpdateStages(cgroup)
      \/ following /\ (group = processed \/ group \in UpdateStages(processed))
  BY DEF CrashGroups, client, cgroup, ctag, toClient
<1>2. TypeOK
  BY DEF ResInv
<1>3. /\ cgroup \in Group /\ sgroup.pending \in Commit /\ cgroup.epoch \in Nat /\ commits \in Nat
  BY <1>2, Parts DEF TypeOK
<1>4. client.internal_state = Running => ctag \in FreshTags
  BY DEF Running, ctag, FreshTags
<1>5. ASSUME following PROVE processed \in Group /\ processed.epoch = cgroup.epoch + 1
  <2>1. Up /\ ctag = "Running"
    BY <1>2, <1>5 DEF ResInv, Running, ctag
  <2>2. Idle
    BY <2>1 DEF Up, Ahead, Answered
  <2>3. /\ SameEpoch /\ cgroup.pending = NoCommit /\ sgroup.pending # NoCommit
        /\ sgroup.pending.epoch = sgroup.epoch /\ sgroup.pending.base = sgroup.secret
    BY <1>5, <2>1, <2>2 DEF Idle, Up, Offer
  <2>4. PICK b \in BOOLEAN : toClient = <<ConnectionUpdate(sgroup.pending, b)>>
    BY <2>2, <2>3 DEF Idle, Offer
  <2>5. message = ConnectionUpdate(sgroup.pending, b)
    BY <2>4
  <2>6. message.mls_commit = sgroup.pending
    <3> HIDE DEF message
    <3> QED BY <2>5, Kinds
  <2>7. process_mls_update(cgroup, sgroup.pending, FALSE).group = After(sgroup.pending)
    BY <1>3, <2>3, CommitFollowed DEF SameEpoch
  <2>8. /\ After(sgroup.pending) \in Group
        /\ After(sgroup.pending).epoch = sgroup.pending.epoch + 1
    BY <1>3, AfterFields
  <2> HIDE DEF message
  <2> QED
    BY <2>3, <2>6, <2>7, <2>8 DEF SameEpoch
<1> HIDE DEF processed
<1>6. CASE updating /\ group \in UpdateStages(cgroup)
  BY <1>3, <1>4, <1>6, Stages
<1>7. CASE following /\ (group = processed \/ group \in UpdateStages(processed))
  <2>1. /\ group \in Group
        /\ group = processed \/ group.pending # NoCommit \/ group.epoch = processed.epoch + 1
    BY <1>3, <1>5, <1>7, Stages
  <2> QED
    BY <1>3, <1>4, <1>5, <1>7, <2>1
<1> QED
  BY <1>1, <1>3, <1>6, <1>7

\* The client restarts from its row and the stored group.
LEMMA Restarts ==
    ASSUME ResInv, Restart
    PROVE  ResInv'
<1>1. TypeOK
  BY DEF ResInv
<1>2. PICK group \in CrashGroups :
        /\ hs' = [hs EXCEPT !["client"] = load(row, group), !["server"].internal_state = Running]
        /\ behind' = (behind \/ row.epoch # group.epoch \/ group.pending # NoCommit)
  BY DEF Restart
<1>3. /\ restarts < MaxRestarts /\ restarts' = restarts + 1 /\ commits' = commits + 1
      /\ link' = "down" /\ queue' = [p \in Party |-> << >>]
      /\ UNCHANGED <<row, traffic, error, breaks, followed>>
  BY DEF Restart
<1>4. /\ group \in Group
      /\ group = cgroup \/ group.pending # NoCommit \/ group.epoch > cgroup.epoch
      /\ ctag \notin FreshTags => group = cgroup
  BY CrashGroupFacts
<1>5. /\ hs' \in [Party -> Handshake] /\ hs'["client"] = load(row, group)
      /\ hs'["server"].group = hs["server"].group
  <2> DEFINE s == [hs["server"] EXCEPT !.internal_state = Running]
             d == load(row, group)
  <2>1. /\ hs \in [Party -> Handshake]
        /\ hs' = [[hs EXCEPT !["client"] = d] EXCEPT !["server"].internal_state = Running]
    BY <1>1, <1>2 DEF TypeOK
  <2>2. s \in Handshake /\ s.group = hs["server"].group
    BY <2>1, MessageTypes DEF Handshake, Party
  <2>3. d \in Handshake
    BY <1>1, <1>4 DEF load, Handshake, TypeOK
  <2>4. hs' = [[hs EXCEPT !["client"] = d] EXCEPT !["server"] = s]
    <3> HIDE DEF d
    <3> QED BY <2>1
  <2> HIDE DEF s, d
  <2>5. hs' \in [Party -> Handshake] /\ hs'["client"] = d /\ hs'["server"] = s
    BY <2>1, <2>2, <2>3, <2>4 DEF Party
  <2> QED
    BY <2>2, <2>5 DEF d
<1>6. TypeOK'
  <2>1. behind' \in BOOLEAN
    BY <1>2
  <2>2. (/\ hs \in [Party -> Handshake]
         /\ row \in [epoch : Nat, internal_state : Internal]
         /\ link \in {"up", "down", "resuming"}
         /\ traffic \in [Party -> [client_secret : Nat, server_secret : Nat]]
         /\ error \in ErrorKind
         /\ commits \in Nat /\ breaks \in 0 .. MaxBreaks /\ restarts \in 0 .. MaxRestarts
         /\ followed \subseteq Commit)'
    BY <1>1, <1>3, <1>5, ResumptionAssumption DEF TypeOK
  <2> QED
    BY <2>1, <2>2 DEF TypeOK
<1>7. /\ client'.epoch = row.epoch /\ client'.internal_state = row.internal_state
      /\ cgroup' = group /\ sgroup' = sgroup
      /\ ctag' = row.internal_state.tag /\ ccommit' = row.internal_state.mls_message
      /\ store_update(client') = [epoch |-> row.epoch, internal_state |-> row.internal_state]
  BY <1>5 DEF client, server, cgroup, sgroup, ctag, ccommit, load, store_update
<1>8. OnParty(queue') /\ Down'
  BY <1>3 DEF OnParty, Down, toServer, toClient, Party
<1>9. CASE error # "ok"
  <2>1. behind'
    BY <1>2, <1>9 DEF ResInv
  <2> QED
    BY <1>3, <1>6, <1>8, <1>9, <2>1 DEF ResInv
<1>10. CASE error = "ok"
  <2>1. /\ Offers /\ Stored /\ ctag \in ClientTag
        /\ ctag \in {"WaitingForEpochKeyUpdate", "WaitingForConnectionConfirmation"} => Committed
    BY <1>10 DEF ResInv
  <2>2. row = [epoch |-> row.epoch, internal_state |-> row.internal_state]
    BY <1>1 DEF TypeOK
  <2>3. ctag # "WaitingForConnectionConfirmation" =>
          /\ row.epoch = client.epoch /\ row.internal_state = client.internal_state
          /\ row.internal_state.tag = ctag
    BY <2>1 DEF Stored, store_update, ctag
  <2>4. row.internal_state.tag \in FreshTags \union {"WaitingForEpochKeyUpdate"}
    <3>1. client.internal_state \in Internal
      BY <1>1, Parts
    <3> QED
      BY <2>1, <2>3, <3>1 DEF Stored, ClientTag, FreshTags, Internal
  <2>5. ASSUME row.internal_state.tag = "WaitingForEpochKeyUpdate"
        PROVE  /\ ctag \notin FreshTags /\ Committed
               /\ row.epoch = client.epoch /\ row.internal_state.mls_message = ccommit
               /\ row.internal_state.secrets = client.internal_state.secrets
    <3>1. client.internal_state \in Internal
      BY <1>1, Parts
    <3>2. /\ ctag \notin FreshTags /\ row.epoch = client.epoch
          /\ \/ row.internal_state = client.internal_state
             \/ row.internal_state =
                  [client.internal_state EXCEPT !.tag = "WaitingForEpochKeyUpdate"]
      BY <2>1, <2>3, <2>5 DEF Stored, FreshTags, ctag
    <3>3. /\ row.internal_state.mls_message = client.internal_state.mls_message
          /\ row.internal_state.secrets = client.internal_state.secrets
      BY <3>1, <3>2 DEF Internal
    <3> QED
      BY <2>1, <3>2, <3>3 DEF ClientTag, FreshTags, ccommit
  <2>6. (ctag \in {"WaitingForEpochKeyUpdate", "WaitingForConnectionConfirmation"} => Committed)'
    BY <1>4, <1>7, <2>4, <2>5 DEF Committed, FreshTags
  <2>7. Stored' /\ ctag' \in ClientTag
    BY <1>3, <1>7, <2>2, <2>4 DEF Stored, FreshTags, ClientTag
  <2>8. ASSUME ~behind', row.internal_state.tag \in FreshTags
        PROVE  Reaches(group.epoch, group.secret)
    <3>1. ~behind /\ row.epoch = group.epoch /\ group.pending = NoCommit
      BY <1>2, <2>8
    <3>2. ctag # "WaitingForConnectionConfirmation"
      <4>1. client.internal_state \in Internal
        BY <1>1, Parts
      <4>2. [client.internal_state EXCEPT !.tag = "WaitingForEpochKeyUpdate"].tag =
              "WaitingForEpochKeyUpdate"
        BY <4>1 DEF Internal
      <4>3. row.internal_state # [client.internal_state EXCEPT !.tag = "WaitingForEpochKeyUpdate"]
        BY <2>8, <4>2 DEF FreshTags
      <4> QED
        BY <1>4, <2>1, <3>1, <4>3 DEF Stored, FreshTags
    <3>3. ctag \in FreshTags /\ row.epoch = cgroup.epoch /\ Reaches(cgroup.epoch, cgroup.secret)
      BY <2>1, <2>3, <2>8, <3>1, <3>2 DEF Offers
    <3>4. cgroup.epoch \in Nat
      BY <1>1, Parts
    <3>5. group = cgroup
      BY <1>4, <3>1, <3>3, <3>4
    <3> QED
      BY <3>3, <3>5
  <2>9. ASSUME ~behind', row.internal_state.tag \notin FreshTags
        PROVE  ccommit' = ccommit /\ (ccommit \in followed \/ Reaches(ccommit.epoch, ccommit.base))
    <3>1. ~behind
      BY <1>2, <2>9
    <3>2. row.internal_state.tag = "WaitingForEpochKeyUpdate"
      BY <2>4, <2>9
    <3> QED
      BY <1>7, <2>1, <2>5, <3>1, <3>2 DEF Offers
  <2>10. Offers'
    BY <1>2, <1>3, <1>7, <2>8, <2>9 DEF Offers, Reaches
  <2> QED
    BY <1>3, <1>6, <1>8, <1>10, <2>6, <2>7, <2>10 DEF ResInv
<1> QED
  BY <1>9, <1>10

-----------------------------------------------------------------------------
(***************************************************************************)
(* The theorems.                                                           *)
(***************************************************************************)

\* A new connection satisfies the invariant.
LEMMA ResumptionInit ==
    ASSUME Init
    PROVE  ResInv
<1>1. /\ hs = [p \in Party |-> IF p = "client" THEN client_start ELSE server_start]
      /\ row = store_update(client_start) /\ link = "up"
      /\ queue = [p \in Party |-> << >>]
      /\ traffic = [p \in Party |-> SameSecret(create_server_session.secret)]
      /\ error = "ok" /\ commits = 0 /\ breaks = 0 /\ restarts = 0
      /\ followed = {} /\ behind = FALSE
  BY DEF Init
<1>2. /\ client = client_start /\ server = server_start
      /\ cgroup = create_server_session /\ sgroup = create_server_session
      /\ client.internal_state = Running /\ server.internal_state = Running
      /\ client.epoch = cgroup.epoch /\ server.epoch = sgroup.epoch
      /\ ctag = "Running" /\ toServer = << >> /\ toClient = << >>
  BY <1>1 DEF client, server, cgroup, sgroup, ctag, toServer, toClient, client_start,
     server_start, Party, Running
<1>3. create_server_session \in Group /\ create_server_session.pending = NoCommit
  BY MessageTypes DEF create_server_session, Group
<1>4. client_start \in Handshake /\ server_start \in Handshake
  BY <1>3, MessageTypes DEF client_start, server_start, Handshake, Group
<1>5. TypeOK
  <2>1. row \in [epoch : Nat, internal_state : Internal]
    BY <1>1, <1>4 DEF store_update, Handshake
  <2>2. traffic \in [Party -> [client_secret : Nat, server_secret : Nat]]
    BY <1>1, <1>3 DEF SameSecret, Group
  <2>3. hs \in [Party -> Handshake]
    BY <1>1, <1>4
  <2> QED
    <3>1. behind \in BOOLEAN
      BY <1>1
    <3>2. /\ link \in {"up", "down", "resuming"} /\ error \in ErrorKind
          /\ commits \in Nat /\ breaks \in 0 .. MaxBreaks /\ restarts \in 0 .. MaxRestarts
          /\ followed \subseteq Commit
      BY <1>1, ResumptionAssumption DEF ErrorKind
    <3> QED
      BY <2>1, <2>2, <2>3, <3>1, <3>2 DEF TypeOK
<1>6. OnParty(queue)
  BY <1>1 DEF OnParty
<1>7. Stored /\ Offers
  BY <1>1, <1>2, <1>3 DEF Stored, Offers, Reaches, FreshTags
<1>8. /\ traffic["server"] = SameSecret(sgroup.secret)
      /\ traffic["client"].client_secret = cgroup.secret
      /\ traffic["client"].server_secret = cgroup.secret
  BY <1>1, <1>2 DEF SameSecret, Party
<1>9. Idle /\ Up
  BY <1>2, <1>3, <1>8 DEF Idle, Up, Offer, SameEpoch
<1> QED
  BY <1>1, <1>2, <1>5, <1>6, <1>7, <1>9 DEF ResInv, ClientTag

LEMMA ResumptionStep ==
    ASSUME ResInv, [Next]_vars
    PROVE  ResInv'
<1>1. CASE Next
  BY <1>1, ClientUpdates, ServerUpdates, ServerReceives, ClientReceives, ClientResumes,
     ServerStarts, Breaks, Restarts DEF Next, Party
<1>2. CASE UNCHANGED vars
  <2>1. UNCHANGED <<hs, row, link, queue, traffic, error, commits, breaks, restarts, followed,
                    behind>>
    BY <1>2 DEF vars
  <2>2. /\ client' = client /\ server' = server /\ cgroup' = cgroup /\ sgroup' = sgroup
        /\ ctag' = ctag /\ ccommit' = ccommit /\ toServer' = toServer /\ toClient' = toClient
    BY <2>1 DEF client, server, cgroup, sgroup, ctag, ccommit, toServer, toClient
  <2>3. TypeOK => TypeOK'
    BY <2>1 DEF TypeOK
  <2>4. (Stored => Stored') /\ (Committed => Committed') /\ (Offers => Offers')
    BY <2>1, <2>2 DEF Stored, Committed, Offers, Reaches
  <2>5. (Idle => Idle') /\ (Resuming => Resuming') /\ (Down => Down')
    BY <2>1, <2>2 DEF Idle, Offer, SameEpoch, Resuming, Down
  <2>6. Ahead => Ahead'
    BY <2>1, <2>2 DEF Ahead, Reaches
  <2>7. Answered => Answered'
    <3>1. Answer' = Answer
      BY <2>2 DEF Answer
    <3> QED
      BY <2>1, <2>2, <3>1 DEF Answered, SameEpoch
  <2>8. Up => Up'
    BY <2>1, <2>2, <2>5, <2>6, <2>7 DEF Up
  <2> QED
    BY <2>1, <2>2, <2>3, <2>4, <2>5, <2>8 DEF ResInv
<1> QED
  BY <1>1, <1>2

\* Whatever breaks or restarts, the invariant holds.
THEOREM ResumptionInvariance == Spec => []ResInv
<1>1. Init => ResInv
  BY ResumptionInit
<1>2. ResInv /\ [Next]_vars => ResInv'
  BY ResumptionStep
<1> QED
  BY <1>1, <1>2, PTL DEF Spec

\* Every variable keeps its type, for any number of updates, breaks and restarts.
THEOREM ResumptionTypeCorrect == Spec => []TypeOK
<1>1. ResInv => TypeOK
  BY DEF ResInv
<1> QED
  BY <1>1, ResumptionInvariance, PTL

\* Both sides agree on every connection that is up and at rest, whatever the
\* connections before it lost.
THEOREM ResumedInAgreement == Spec => []ResumedAgreement
<1>1. ResInv => ResumedAgreement
  <2> SUFFICES ASSUME ResInv, link = "up", error = "ok", \A p \in Party : queue[p] = << >>
               PROVE  /\ hs["client"] = hs["server"]
                      /\ \A p \in Party :
                          /\ hs[p].internal_state = Running
                          /\ hs[p].group.pending = NoCommit
                          /\ traffic[p] = SameSecret(hs[p].group.secret)
    BY DEF ResumedAgreement
  <2>1. TypeOK /\ Up /\ toServer = << >> /\ toClient = << >>
    BY DEF ResInv, toServer, toClient, Party
  <2>2. Idle
    BY <2>1 DEF Up, Ahead, Answered
  <2>3. sgroup.pending = NoCommit
    BY <2>1, <2>2 DEF Idle, Offer
  <2>4. /\ client \in Handshake /\ server \in Handshake /\ cgroup \in Group /\ sgroup \in Group
        /\ traffic["client"] \in [client_secret : Nat, server_secret : Nat]
    BY <2>1, Parts
  <2>5. cgroup = sgroup
    BY <2>1, <2>2, <2>3, <2>4 DEF Up, Idle, SameEpoch, Group
  <2>6. client = server /\ client.internal_state = Running
    BY <2>1, <2>2, <2>3, <2>4, <2>5 DEF Up, Idle, Handshake, cgroup, sgroup
  <2>7. traffic["client"] = SameSecret(cgroup.secret) /\ traffic["server"] = SameSecret(sgroup.secret)
    BY <2>1, <2>2, <2>4 DEF Up, Idle, SameSecret
  <2> QED
    BY <2>3, <2>5, <2>6, <2>7 DEF client, server, cgroup, sgroup, Party
<1> QED
  BY <1>1, ResumptionInvariance, PTL

\* No handler reports an error on a connection that is up; the only error is that
\* of a resume after a restart from a row that was behind.
THEOREM ErrorsOnlyBehind == Spec => []NoErrorOnceResumed
<1>1. ResInv => NoErrorOnceResumed
  BY DEF ResInv, NoErrorOnceResumed
<1> QED
  BY <1>1, ResumptionInvariance, PTL

\* The server refuses only commits that it has processed before, unless the client
\* restarted from a row that was behind.
THEOREM RefusalsExplained == Spec => RefusedOnlyIfFollowed
<1>1. ResInv /\ [Next]_vars =>
        [link = "resuming" /\ link' = "down" /\ breaks' = breaks /\ restarts' = restarts =>
           behind \/ Head(queue["server"]).mls_commit \in followed]_vars
  <2> SUFFICES ASSUME ResInv, Next, link = "resuming", link' = "down", breaks' = breaks,
                      restarts' = restarts, ~behind
               PROVE  Head(queue["server"]).mls_commit \in followed
    BY DEF vars
  <2>1. TypeOK /\ error = "ok" /\ Offers /\ Resuming
    BY DEF ResInv
  <2>2. ServerStart
    <3>1. ~Break /\ ~Restart
      BY <2>1 DEF Break, Restart, TypeOK
    <3>2. \A p \in Party : ~Update(p) /\ ~Receive(p)
      BY DEF Update, Receive
    <3>3. ~Resume
      BY DEF Resume
    <3> QED
      BY <3>1, <3>2, <3>3 DEF Next
  <2> DEFINE message == Head(toServer)
             r == process_resumption(sgroup, message)
  <2>3. message = ResumptionMessage(ccommit)
    <3>1. toServer = <<ResumptionMessage(ccommit)>>
      BY <2>1 DEF Resuming
    <3> QED
      BY <3>1
  <2>4. r.error # "ok"
    BY <2>2 DEF ServerStart, sgroup, server, toServer
  <2> HIDE DEF message
  <2>5. message.mls_commit = ccommit
    BY <2>3, Kinds
  <2>6. ~Reaches(ccommit.epoch, ccommit.base)
    <3>1. ASSUME Reaches(ccommit.epoch, ccommit.base) PROVE FALSE
      <4>1. r = Done(server_follow(server_start, After(ccommit)), 0,
                     ConnectionConfirmation(After(ccommit).epoch), Both(After(ccommit).secret))
        BY <2>1, <2>3, <3>1, StartResult
      <4> QED
        BY <2>4, <4>1 DEF Done
    <3> QED
      BY <3>1
  <2>7. ccommit \in followed
    BY <2>1, <2>6 DEF Offers, Resuming, FreshTags
  <2> QED
    BY <2>5, <2>7 DEF message, toServer
<1> QED
  BY <1>1, ResumptionInvariance, PTL DEF Spec, RefusedOnlyIfFollowed

=============================================================================
