-------------------------- MODULE InitialHandshake --------------------------
(***************************************************************************)
(* From a TCP connection to an established one: the pre-handshakes of      *)
(* pre_handshake/ and the hello exchange of MlsHandshake, in the variants  *)
(* without protection (UnprotectedHandshakeState) and under the secret of  *)
(* a pre-handshake (ProtectedHandshakeState).  A side that is established  *)
(* uses the connection at once, while the other may still be at work or    *)
(* fail, so EncryptionProvider's operations run beside the handshake.      *)
(*                                                                         *)
(* The MLS group, the lock on the database and the rows that a handshake   *)
(* leaves there are the subject of MlsGroup and HandshakeStorage.          *)
(***************************************************************************)
EXTENDS ClientStateMachine, ServerStateMachine, TlsAead, Sequences

CONSTANTS
    ClientRequests, ServerRequests, MaxSends, MaxCommits,  \* as in EncryptionProvider
    Methods  \* pre-handshakes that the two applications choose from

Psks == {"psk1", "psk2"}

ASSUME MethodsAssumption ==
    /\ Methods \subseteq Psks \union {"none", "x25519"}
    /\ ClientRequests \subseteq BOOLEAN /\ ServerRequests \subseteq BOOLEAN
    /\ MaxSends \in Nat /\ MaxCommits \in Nat

VARIABLES
    config,  \* what the applications choose: config.method[p], and the key
             \* that the client expects of the server (the server's own is 1)
    stage,   \* stage[p]: how far p has come
    hs, codec, inbox, held, sent, delivered, commits, error  \* as in EncryptionProvider

connection == <<held, sent, delivered, commits, error>>

vars == <<config, stage, hs, codec, inbox, held, sent, delivered, commits, error>>

\* The provider's operations, once p is established.
Conn == INSTANCE EncryptionProvider WITH HandshakeRecords <- 0

-----------------------------------------------------------------------------
\* Secrets from before the group's, whose identities start at 0.  They are
\* compared with each other only: a side in the handshake never gets to open a
\* record of the connection.  A codec on the secret "Clear" stands for the plain
\* frames without a pre-handshake.
Clear == 1000

Psk(m) == IF m = "psk1" THEN 1001 ELSE 1002

\* The result of diffie_hellman with the peer's public key, and with 32 bytes
\* that are none.
Agreed == 1003
Garbage == 1004

\* Handshake messages travel the same stream as records do.
Message(type, key) == [Application(key) EXCEPT !.type = type]

ClientHello == Message("ClientHello", 0)

ServerHello == Message("ServerHello", 1)

\* 32 raw bytes that belong to no frame, and what is left of a frame whose
\* first 32 bytes were taken for a public key.
Raw(type) == [key |-> expand_secret(Clear, "client"), seq |-> 0, payload |-> Message(type, 0)]

IsFrame(r) == r.payload.type \notin {"PublicKey", "Fragment"}

HandshakeTypes == {"ClientHello", "ServerHello", "PublicKey", "Fragment"}

\* What travels the stream.
Frame == [key : Key, seq : Nat,
          payload : InnerPlaintext \union {Message(t, k) : t \in HandshakeTypes, k \in {0, 1}}]

\* MlsHandshakeState::None.
Uninitialized ==
    [epoch |-> 0, internal_state |-> Running,
     group |-> [epoch |-> 0, secret |-> 0, pending |-> NoCommit]]

Init ==
    /\ config \in [method : [Party -> Methods], server_verifying_key : {1, 2}]
    /\ stage = [p \in Party |-> "new"]
    /\ hs = [p \in Party |-> Uninitialized]
    /\ codec = [p \in Party |-> new_codec(p, Clear, 0)]
    /\ inbox = [p \in Party |-> << >>]
    /\ held = [p \in Party |-> 0]
    /\ sent = [p \in Party |-> 0]
    /\ delivered = [p \in Party |-> 0]
    /\ commits = 0
    /\ error = [p \in Party |-> "ok"]

-----------------------------------------------------------------------------
Ended == {"established", "failed"}

Move(p, from, to) == stage[p] = from /\ stage' = [stage EXCEPT ![p] = to]

\* new_from_stream: frames without protection.
NewFromStream(p) ==
    /\ config.method[p] = "none"
    /\ Move(p, "new", "connected")
    /\ UNCHANGED <<config, hs, codec, inbox, connection>>

\* new_with_pre_handshake with a Psk: nothing is exchanged.
PskHandshake(p) ==
    /\ config.method[p] \in Psks
    /\ Move(p, "new", "connected")
    /\ codec' = [codec EXCEPT ![p] = new_codec(p, Psk(config.method[p]), 0)]
    /\ UNCHANGED <<config, hs, inbox, connection>>

\* Mutant: the client, too, reads before it writes.
X25519Write_reading ==
    /\ config.method["client"] = "x25519"
    /\ inbox["client"] # << >>
    /\ Move("client", "new", "pre")
    /\ inbox' = [inbox EXCEPT !["server"] = Append(@, Raw("PublicKey"))]
    /\ UNCHANGED <<config, hs, codec, connection>>

\* X25519Handshake::client_handshake: the client writes its public key ...
X25519Write ==
    /\ config.method["client"] = "x25519"
    /\ Move("client", "new", "pre")
    /\ inbox' = [inbox EXCEPT !["server"] = Append(@, Raw("PublicKey"))]
    /\ UNCHANGED <<config, hs, codec, connection>>

\* read_exact takes 32 bytes, whatever they are: a public key as a whole, or
\* the beginning of a frame.
read_exact(queue) ==
    IF Head(queue).payload.type = "PublicKey"
    THEN [secret |-> Agreed, rest |-> Tail(queue)]
    ELSE [secret |-> Garbage, rest |-> <<Raw("Fragment")>> \o Tail(queue)]

\* ... and waits for the server's.
X25519Read ==
    /\ inbox["client"] # << >>
    /\ Move("client", "pre", "connected")
    /\ LET r == read_exact(inbox["client"])
       IN  /\ inbox' = [inbox EXCEPT !["client"] = r.rest]
           /\ codec' = [codec EXCEPT !["client"] = new_codec("client", r.secret, 0)]
    /\ UNCHANGED <<config, hs, connection>>

\* X25519Handshake::server_handshake.
X25519Answer ==
    /\ config.method["server"] = "x25519"
    /\ inbox["server"] # << >>
    /\ Move("server", "new", "connected")
    /\ LET r == read_exact(inbox["server"])
       IN  /\ inbox' = [inbox EXCEPT !["server"] = r.rest,
                                     !["client"] = Append(@, Raw("PublicKey"))]
           /\ codec' = [codec EXCEPT !["server"] = new_codec("server", r.secret, 0)]
    /\ UNCHANGED <<config, hs, connection>>

-----------------------------------------------------------------------------
\* p takes a frame off the stream and opens it.
Opens(p, type) ==
    /\ decrypt(codec[p], Head(inbox[p]))
    /\ Head(inbox[p]).payload.type = type

HasFrame(p) == inbox[p] # << >> /\ IsFrame(Head(inbox[p]))

\* Mutant: the client starts with new sequence numbers after a pre-handshake.
enter_connection_new(p, c) ==
    IF config.method[p] = "none" \/ p = "client"
    THEN new_codec(p, create_server_session.secret, 0)
    ELSE update_traffic_secrets(c, p, Both(create_server_session.secret))

\* The codec of p's connection: ProtectedChannels::new without a pre-handshake,
\* update_cipher after one, which keeps the sequence numbers.
enter_connection(p, c) ==
    IF config.method[p] = "none"
    THEN new_codec(p, create_server_session.secret, 0)
    ELSE update_traffic_secrets(c, p, Both(create_server_session.secret))

\* client_handshake up to the wait for the server's hello.
SendClientHello ==
    /\ Move("client", "connected", "wait")
    /\ inbox' = [inbox EXCEPT !["server"] = Append(@, encrypt(codec["client"], ClientHello))]
    /\ codec' = [codec EXCEPT !["client"] = after_encrypt(@)]
    /\ UNCHANGED <<config, hs, connection>>

\* server_handshake: ServerHandshake::start creates the group, and the hello
\* is sent.  A frame that does not decrypt or parse ends the handshake.
AnswerClientHello ==
    /\ HasFrame("server")
    /\ LET opened == after_decrypt(codec["server"])
       IN  IF Opens("server", "ClientHello")
           THEN /\ Move("server", "connected", "answered")
                /\ hs' = [hs EXCEPT !["server"] = server_start]
                /\ inbox' = [inbox EXCEPT !["server"] = Tail(@),
                                          !["client"] = Append(@, encrypt(opened, ServerHello))]
                /\ codec' = [codec EXCEPT !["server"] = after_encrypt(opened)]
           ELSE /\ Move("server", "connected", "failed")
                /\ inbox' = [inbox EXCEPT !["server"] = Tail(@)]
                /\ UNCHANGED <<hs, codec>>
    /\ UNCHANGED <<config, connection>>

\* server_handshake returns when the hello is written.
FinishServer ==
    /\ Move("server", "answered", "established")
    /\ codec' = [codec EXCEPT !["server"] = enter_connection("server", @)]
    /\ UNCHANGED <<config, hs, inbox, connection>>

\* Mutant: the server's verifying key is not compared.
accepts_any(hello) == TRUE

\* receive_server_hello accepts a welcome from the server it expects only.
accepts(hello) == hello.data = config.server_verifying_key

\* client_handshake from the server's hello to the end.
ReceiveServerHello ==
    /\ HasFrame("client")
    /\ inbox' = [inbox EXCEPT !["client"] = Tail(@)]
    /\ IF Opens("client", "ServerHello") /\ accepts(Head(inbox["client"]).payload)
       THEN /\ Move("client", "wait", "established")
            /\ hs' = [hs EXCEPT !["client"] = client_start]
            /\ codec' = [codec EXCEPT !["client"] = enter_connection("client", after_decrypt(@))]
       ELSE /\ Move("client", "wait", "failed")
            /\ UNCHANGED <<hs, codec>>
    /\ UNCHANGED <<config, connection>>

\* Bytes that are no frame may look like one, of any content; or their length
\* field makes p wait for more.
MisreadFrame(p) ==
    /\ inbox[p] # << >> /\ ~IsFrame(Head(inbox[p]))
    /\ Move(p, IF p = "client" THEN "wait" ELSE "connected", "failed")
    /\ UNCHANGED <<config, hs, codec, inbox, connection>>

\* A failed handshake drops the provider and with it the connection: the peer
\* reads its end, or an error if unread bytes reset it, or cannot write.
PeerGone(p) ==
    /\ stage[p] \notin Ended /\ stage[Peer(p)] = "failed"
    /\ stage' = [stage EXCEPT ![p] = "failed"]
    /\ UNCHANGED <<config, hs, codec, inbox, connection>>

\* The application gives up (drops the future of) a handshake.
Drop(p) ==
    /\ stage[p] \notin Ended
    /\ stage' = [stage EXCEPT ![p] = "failed"]
    /\ UNCHANGED <<config, hs, codec, inbox, connection>>

\* An operation of the established connection.
Use(p) ==
    /\ stage[p] = "established"
    /\ \/ Conn!SendBytes(p)
       \/ Conn!SendBytesUpdate(p)
       \/ Conn!ReadMessage(p)
       \/ Conn!ProcessApplication(p)
       \/ Conn!ProcessSignaling(p)
    /\ UNCHANGED <<config, stage>>

PreHandshake ==
    \/ \E p \in Party : NewFromStream(p) \/ PskHandshake(p)
    \/ X25519Write \/ X25519Read \/ X25519Answer

Hello == SendClientHello \/ AnswerClientHello \/ FinishServer \/ ReceiveServerHello

Next ==
    \/ PreHandshake
    \/ Hello
    \/ \E p \in Party : MisreadFrame(p) \/ PeerGone(p) \/ Drop(p) \/ Use(p)

\* A handshake that was called goes on when it can.  Nobody has to give up, to
\* send, or to misread bytes as a frame.
Fairness ==
    /\ WF_vars(X25519Write) /\ WF_vars(X25519Read) /\ WF_vars(X25519Answer)
    /\ WF_vars(SendClientHello) /\ WF_vars(AnswerClientHello)
    /\ WF_vars(FinishServer) /\ WF_vars(ReceiveServerHello)
    /\ \A p \in Party :
        WF_vars(NewFromStream(p)) /\ WF_vars(PskHandshake(p)) /\ WF_vars(PeerGone(p))

Spec == Init /\ [][Next]_vars

FairSpec == Spec /\ Fairness

-----------------------------------------------------------------------------
\* Every variable has its type.
TypeOK ==
    /\ config \in [method : [Party -> Methods], server_verifying_key : {1, 2}]
    /\ stage \in [Party -> {"new", "pre", "connected", "wait", "answered"} \union Ended]
    /\ hs \in [Party -> Handshake] /\ codec \in [Party -> Codec]
    /\ inbox \in [Party -> Seq(Frame)]
    /\ held \in [Party -> {0, 1}] /\ sent \in [Party -> 0 .. MaxSends]
    /\ delivered \in [Party -> 0 .. MaxSends] /\ commits \in Nat
    /\ error \in [Party -> ErrorKind]

\* No handshake succeeds against the wrong peer: a side is established only if
\* both applications chose the same pre-handshake and the same key, and the
\* client only with the server it expects, which holds the group then.
EstablishedTogether ==
    /\ \A p \in Party :
        stage[p] = "established" => config.method["client"] = config.method["server"]
    /\ stage["client"] = "established" =>
        config.server_verifying_key = 1 /\ hs["server"] # Uninitialized

\* A side may use the connection before the other has finished the handshake:
\* what it sends early is opened under the right key and number all the same,
\* key updates included, and no application is given an error.
EarlyRecordsOpen ==
    /\ error = [p \in Party |-> "ok"]
    /\ \A p \in Party :
        stage[p] = "established" /\ held[p] = 0 /\ inbox[p] # << >> =>
            decrypt(codec[p], Head(inbox[p]))

\* Both sides learn how the handshake ends, even if the other gives up, holds
\* another key or is another server, as long as both or none of them exchange
\* X25519 keys; otherwise they may wait for each other's bytes for ever.
HandshakesEnd ==
    (config.method["client"] = "x25519" <=> config.method["server"] = "x25519")
        ~> \A p \in Party : stage[p] \in Ended

-----------------------------------------------------------------------------
\* Records protected before the connection, which its numbers go on from.
PreRecords == IF config.method["client"] = "none" THEN 0 ELSE 1

FromZero(r) == [r EXCEPT !.seq = @ - PreRecords]

\* Records under way to p: at most one handshake message is ahead of them.
Records(p) ==
    IF inbox[p] # << >> /\ Head(inbox[p]).payload.type \in HandshakeTypes
    THEN Tail(inbox[p]) ELSE inbox[p]

states ==
    [p \in Party |-> IF stage[p] = "established" THEN hs[p]
                     ELSE IF p = "client" THEN client_start ELSE server_start]

codecs ==
    [p \in Party |->
        IF stage[p] = "established"
        THEN [codec[p] EXCEPT !.send_seq = @ - PreRecords, !.recv_seq = @ - PreRecords]
        ELSE new_codec(p, create_server_session.secret, 0)]

inboxes == [p \in Party |-> [i \in 1 .. Len(Records(p)) |-> FromZero(Records(p)[i])]]

Established == INSTANCE EncryptionProvider WITH
    HandshakeRecords <- 0, hs <- states, codec <- codecs, inbox <- inboxes

\* The handshake hands over to EncryptionProvider: seen from there, both sides
\* start at once, in the same epoch and with the same secret, numbers and
\* empty channels, and everything that happens in the handshake is invisible.
HandsOver == Established!Spec

=============================================================================
