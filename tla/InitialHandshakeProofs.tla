----------------------- MODULE InitialHandshakeProofs -----------------------
(***************************************************************************)
(* Proofs about the initial handshake, for every choice of pre-handshakes, *)
(* keys and expected servers, with early use of the connection.            *)
(***************************************************************************)
EXTENDS InitialHandshake, StateMachineProofs

\* The connection that the handshake hands over to, with what is proved of it.
Safe == INSTANCE EncryptionProviderProofs WITH
    HandshakeRecords <- 0, hs <- states, codec <- codecs, inbox <- inboxes

toServer == inbox["server"]
toClient == inbox["client"]

\* A record of the connection.
IsRecord(r) ==
    r \in Record /\ (r.payload.type = "Application" => r.payload.data \in 0 .. MaxSends)

AllRecords(s) == \A i \in 1 .. Len(s) : IsRecord(s[i])

\* What a pre-handshake gives.
Secrets(method) ==
    IF method = "none" THEN {Clear}
    ELSE IF method = "x25519" THEN {Agreed, Garbage} ELSE {Psk(method)}

\* The first bytes under way to p.
Starts(p, type) == inbox[p] # << >> /\ inbox[p][1].payload.type = type

\* p's codec when it enters the hello exchange.
Fresh(p) ==
    /\ codec[p].send_seq = 0 /\ codec[p].recv_seq = 0
    /\ \E s \in Secrets(config.method[p]) :
         /\ codec[p].send_key = expand_secret(s, p)
         /\ codec[p].recv_key = expand_secret(s, Peer(p))

\* Until the server answers the client's hello, at most one message is under
\* way to each side.
Before ==
    /\ stage["client"] # "established" /\ stage["server"] \notin {"answered", "established"}
    /\ \A p \in Party : Len(inbox[p]) <= 1
    /\ toServer # << >> =>
         Starts("server", "PublicKey") \/ Starts("server", "Fragment") \/ Starts("server", "ClientHello")
    /\ toClient # << >> => Starts("client", "PublicKey")
    /\ stage["client"] \in {"new", "connected"} => toServer = << >> /\ toClient = << >>
    /\ stage["client"] = "pre" => toServer = << >> \/ toClient = << >>
    /\ stage["client"] = "pre" => config.method["client"] = "x25519"
    /\ stage["server"] = "new" => toClient = << >>
    /\ Starts("server", "Fragment") => stage["client"] \in {"wait", "failed"}
    /\ Starts("server", "ClientHello") =>
         /\ toClient = << >> /\ stage["client"] \in {"wait", "failed"}
         /\ \E s \in Secrets(config.method["client"]) : toServer[1].key = expand_secret(s, "client")
    /\ \A p \in Party :
        /\ stage[p] = "new" => codec[p] = new_codec(p, Clear, 0)
        /\ stage[p] = "connected" => Fresh(p)
    /\ stage["client"] = "wait" => codec["client"].send_seq = 1 /\ codec["client"].recv_seq = 0

\* From then on both sides have the same secret, and the server's hello is
\* ahead of what the server sends.
After_hello ==
    /\ config.method["client"] = config.method["server"]
    /\ stage["server"] \in {"answered", "established", "failed"}
    /\ stage["client"] \in {"wait", "established", "failed"}
    /\ hs["server"].group.epoch >= 1
    /\ AllRecords(toServer)
    /\ toClient # << >> => IsRecord(toClient[1]) \/ toClient[1].payload = ServerHello
    /\ stage["client"] = "established" => AllRecords(toClient) /\ config.server_verifying_key = 1
    /\ stage["client"] = "wait" =>
         /\ toClient # << >> /\ toClient[1].payload = ServerHello
         /\ codec["client"].send_seq = 1 /\ codec["client"].recv_seq = 0
    /\ stage["server"] = "answered" =>
         /\ hs["server"] = server_start
         /\ codec["server"].send_seq = 1 /\ codec["server"].recv_seq = 1

\* The inductive invariant.
HandshakeInv ==
    /\ TypeOK
    /\ stage["client"] # "answered" /\ stage["server"] \notin {"pre", "wait"}
    /\ \A p \in Party :
        /\ hs[p].internal_state.tag \in Tag(p)
        /\ held[p] = 1 => stage[p] = "established" /\ inbox[p] # << >>
        /\ \A i \in 2 .. Len(inbox[p]) : IsRecord(inbox[p][i])
    /\ hs["server"] = Uninitialized => Before
    /\ hs["server"] # Uninitialized => After_hello

-----------------------------------------------------------------------------
(***************************************************************************)
(* Frames and sequences of frames.                                         *)
(***************************************************************************)

\* Secrets from before the group's are secrets, and different methods give
\* different ones.
LEMMA SecretFacts ==
    /\ \A m : Secrets(m) \subseteq Nat
    /\ Clear \in Nat /\ Agreed \in Nat /\ Garbage \in Nat /\ create_server_session.secret \in Nat
    /\ \A m, n \in Psks \union {"none", "x25519"} :
         \A s : s \in Secrets(m) /\ s \in Secrets(n) => m = n
BY DEF Secrets, Clear, Agreed, Garbage, Psk, Psks, create_server_session

\* The payloads of the handshake.
LEMMA HelloFacts ==
    /\ ClientHello.type = "ClientHello"
    /\ ServerHello.type = "ServerHello" /\ ServerHello.data = 1
    /\ \A t : Message(t, 0).type = t
    /\ \A n \in Nat : Application(n).type = "Application" /\ Application(n).data = n
BY DEF ClientHello, ServerHello, Message, Application

\* What travels is a frame.
LEMMA FrameFacts ==
    /\ \A r : IsRecord(r) => r \in Record /\ r \in Frame /\ r.payload.type \notin HandshakeTypes
    /\ Raw("PublicKey") \in Frame /\ Raw("PublicKey").payload.type = "PublicKey"
    /\ Raw("Fragment") \in Frame /\ Raw("Fragment").payload.type = "Fragment"
    /\ \A c \in Codec : /\ encrypt(c, ClientHello) \in Frame /\ encrypt(c, ServerHello) \in Frame
                        /\ encrypt(c, ClientHello).payload = ClientHello
                        /\ encrypt(c, ServerHello).payload = ServerHello
                        /\ encrypt(c, ClientHello).key = c.send_key
<1> DEFINE P == InnerPlaintext \union {Message(t, k) : t \in HandshakeTypes, k \in {0, 1}}
<1>1. /\ Message("PublicKey", 0) \in P /\ Message("Fragment", 0) \in P
      /\ ClientHello \in P /\ ServerHello \in P
  BY DEF HandshakeTypes, ClientHello, ServerHello
<1>2. expand_secret(Clear, "client") \in Key
  BY DEF expand_secret, Clear, Key, Party
<1>3. Frame = [key : Key, seq : Nat, payload : P]
  BY DEF Frame
<1>4. InnerPlaintext \subseteq P
  OBVIOUS
<1> HIDE DEF P
<1>5. \A r \in Record : r \in Frame /\ r.payload.type \notin HandshakeTypes
  BY <1>3, <1>4 DEF Record, HandshakeTypes, InnerPlaintext, SignalingType
<1>6. /\ Raw("PublicKey") \in Frame /\ Raw("PublicKey").payload.type = "PublicKey"
      /\ Raw("Fragment") \in Frame /\ Raw("Fragment").payload.type = "Fragment"
  BY <1>1, <1>2, <1>3, HelloFacts DEF Raw
<1>7. ASSUME NEW c \in Codec
      PROVE  /\ encrypt(c, ClientHello) \in Frame /\ encrypt(c, ServerHello) \in Frame
             /\ encrypt(c, ClientHello).payload = ClientHello
             /\ encrypt(c, ServerHello).payload = ServerHello
             /\ encrypt(c, ClientHello).key = c.send_key
  BY <1>1, <1>3 DEF encrypt, Codec
<1> QED
  BY <1>5, <1>6, <1>7 DEF IsRecord

\* The first frame and the others.
LEMMA FrameHeadTail ==
    ASSUME NEW s \in Seq(Frame), s # << >>
    PROVE  /\ Len(s) \in Nat /\ Len(s) >= 1
           /\ Head(s) = s[1] /\ Head(s) \in Frame
           /\ Tail(s) \in Seq(Frame)
           /\ Len(Tail(s)) = Len(s) - 1
           /\ \A i \in 1 .. Len(s) - 1 : Tail(s)[i] = s[i + 1]
<1>1. Len(s) \in Nat /\ Len(s) >= 1
  BY EmptySeq, LenProperties
<1> QED
  BY <1>1, HeadTailProperties

\* A frame is appended at the end.
LEMMA FrameAppend ==
    ASSUME NEW s \in Seq(Frame), NEW a \in Frame
    PROVE  /\ Append(s, a) \in Seq(Frame) /\ Append(s, a) # << >>
           /\ Len(Append(s, a)) = Len(s) + 1
           /\ Len(s) \in Nat
           /\ Append(s, a)[Len(s) + 1] = a
           /\ \A i \in 1 .. Len(s) : Append(s, a)[i] = s[i]
BY AppendProperties, LenProperties

\* A single frame.
LEMMA OneFrame ==
    ASSUME NEW a \in Frame
    PROVE  /\ Append(<< >>, a) \in Seq(Frame) /\ Append(<< >>, a) # << >>
           /\ Len(Append(<< >>, a)) = 1 /\ Append(<< >>, a)[1] = a
           /\ <<a>> \o << >> = Append(<< >>, a)
<1>1. << >> \in Seq(Frame) /\ Len(<< >>) = 0
  OBVIOUS
<1> QED
  BY <1>1, FrameAppend

\* Nothing is left of a single frame.
LEMMA NoneLeft ==
    ASSUME NEW s \in Seq(Frame), s # << >>, Len(s) <= 1
    PROVE  Tail(s) = << >> /\ Head(s) = s[1] /\ Head(s) \in Frame
<1> DEFINE n == Len(s)
           t == Tail(s)
<1>1. n \in Nat /\ n >= 1 /\ n <= 1 /\ t \in Seq(Frame) /\ Len(t) = n - 1
  BY FrameHeadTail
<1>2. Head(s) = s[1] /\ Head(s) \in Frame
  BY FrameHeadTail
<1> HIDE DEF n, t
<1>3. Len(t) = 0
  BY <1>1
<1>4. t = << >>
  BY <1>1, <1>3, EmptySeq
<1> QED
  BY <1>2, <1>4 DEF t

-----------------------------------------------------------------------------
(***************************************************************************)
(* The steps up to the server's answer.                                    *)
(***************************************************************************)

Stages == {"new", "pre", "connected", "wait", "answered"} \union Ended

\* Both sides, and who they are.
LEMMA Parties ==
    /\ Party = {"client", "server"} /\ "client" \in Party /\ "server" \in Party
    /\ Peer("client") = "server" /\ Peer("server") = "client"
BY DEF Party, Peer

\* A new codec.
LEMMA NewCodec ==
    ASSUME NEW p \in Party, NEW s \in Nat
    PROVE  /\ new_codec(p, s, 0) \in Codec
           /\ new_codec(p, s, 0).send_seq = 0 /\ new_codec(p, s, 0).recv_seq = 0
           /\ new_codec(p, s, 0).send_key = expand_secret(s, p)
           /\ new_codec(p, s, 0).recv_key = expand_secret(s, Peer(p))
BY PeerFacts DEF new_codec, expand_secret, Codec, Key

\* How the codec counts.
LEMMA CodecCounts ==
    ASSUME NEW c \in Codec
    PROVE  /\ after_encrypt(c).send_seq = c.send_seq + 1 /\ after_encrypt(c).recv_seq = c.recv_seq
           /\ after_decrypt(c).recv_seq = c.recv_seq + 1 /\ after_decrypt(c).send_seq = c.send_seq
BY DEF after_encrypt, after_decrypt, Codec

\* A step of the handshake that leaves the groups alone.
LEMMA QuietStep ==
    ASSUME HandshakeInv, UNCHANGED <<config, hs, connection>>,
           stage' \in [Party -> Stages], codec' \in [Party -> Codec],
           inbox' \in [Party -> Seq(Frame)],
           stage'["client"] # "answered", stage'["server"] \notin {"pre", "wait"},
           \A p \in Party :
               /\ held[p] = 1 => stage'[p] = "established" /\ inbox'[p] # << >>
               /\ \A i \in 2 .. Len(inbox'[p]) : IsRecord(inbox'[p][i]),
           hs["server"] = Uninitialized => Before',
           hs["server"] # Uninitialized => After_hello'
    PROVE  HandshakeInv'
<1>1. TypeOK'
  BY DEF HandshakeInv, TypeOK, connection, Stages
<1> QED
  BY <1>1 DEF HandshakeInv, connection

\* Before the server's answer nothing of the connection is under way.
LEMMA QuietBefore ==
    ASSUME HandshakeInv, UNCHANGED <<config, hs, connection>>, hs["server"] = Uninitialized,
           stage' \in [Party -> Stages], codec' \in [Party -> Codec],
           inbox' \in [Party -> Seq(Frame)],
           stage'["client"] # "answered", stage'["server"] \notin {"pre", "wait"},
           Before'
    PROVE  HandshakeInv'
<1>1. ASSUME NEW p \in Party
      PROVE  /\ held[p] = 1 => stage'[p] = "established" /\ inbox'[p] # << >>
             /\ \A i \in 2 .. Len(inbox'[p]) : IsRecord(inbox'[p][i])
  <2>1. held[p] # 1
    BY Parties DEF HandshakeInv, Before
  <2>2. Len(inbox'[p]) <= 1 /\ Len(inbox'[p]) \in Nat
    BY LenProperties DEF Before
  <2> QED
    BY <2>1, <2>2
<1> QED
  BY <1>1, QuietStep

\* Nothing is under way at first.
LEMMA HandshakeInit == Init => HandshakeInv
<1> SUFFICES ASSUME Init PROVE HandshakeInv
  OBVIOUS
<1>1. hs = [p \in Party |-> Uninitialized] /\ Uninitialized \in Handshake
  BY DEF Init, Uninitialized, Handshake, Internal, Running, ClientTag, ServerTag, Commit,
         NoCommit, Group
<1>2. codec \in [Party -> Codec] /\ \A p \in Party : codec[p] = new_codec(p, Clear, 0)
  BY NewCodec, SecretFacts DEF Init
<1>3. inbox \in [Party -> Seq(Frame)] /\ \A p \in Party : inbox[p] = << >> /\ Len(inbox[p]) = 0
  BY DEF Init
<1>4. \A p \in Party : Uninitialized.internal_state.tag \in Tag(p)
  BY DEF Uninitialized, Running, Tag, ClientTag, ServerTag
<1>5. TypeOK
  BY <1>1, <1>2, <1>3, MethodsAssumption DEF Init, TypeOK, Ended, ErrorKind
<1>6. stage = [p \in Party |-> "new"] /\ held = [p \in Party |-> 0]
  BY DEF Init
<1>7. Before
  BY <1>2, <1>3, <1>6, Parties DEF Before, Starts, toServer, toClient
<1> QED
  BY <1>1, <1>3, <1>4, <1>5, <1>6, <1>7, Parties DEF HandshakeInv

\* Only the first step of a side finds it in its first stage.
LEMMA NewIsBefore ==
    ASSUME HandshakeInv,
           \/ \E p \in Party : stage[p] \in {"new", "connected"}
           \/ stage["client"] = "pre"
    PROVE  hs["server"] = Uninitialized /\ Before
BY Parties DEF HandshakeInv, After_hello

\* Moving on.
LEMMA MoveFacts ==
    ASSUME HandshakeInv, NEW p \in Party, NEW from, NEW to \in Stages, Move(p, from, to)
    PROVE  /\ stage[p] = from /\ stage' \in [Party -> Stages]
           /\ stage'[p] = to /\ \A q \in Party : q # p => stage'[q] = stage[q]
BY DEF HandshakeInv, TypeOK, Move, Stages

\* new_from_stream and new_with_pre_handshake with a Psk.
LEMMA NewStep ==
    ASSUME HandshakeInv, NEW p \in Party, NewFromStream(p) \/ PskHandshake(p)
    PROVE  HandshakeInv'
<1>1. Move(p, "new", "connected") /\ UNCHANGED <<config, hs, inbox, connection>>
  BY DEF NewFromStream, PskHandshake
<1>2. /\ stage[p] = "new" /\ stage' \in [Party -> Stages]
      /\ stage'[p] = "connected" /\ \A q \in Party : q # p => stage'[q] = stage[q]
  BY <1>1, MoveFacts DEF Stages
<1>3. hs["server"] = Uninitialized /\ Before
  BY <1>2, NewIsBefore
<1>4. codec \in [Party -> Codec] /\ inbox \in [Party -> Seq(Frame)]
  BY DEF HandshakeInv, TypeOK
<1>5. /\ codec' \in [Party -> Codec] /\ \A q \in Party : q # p => codec'[q] = codec[q]
      /\ \E s \in Secrets(config.method[p]) : codec'[p] = new_codec(p, s, 0)
  <2>1. CASE NewFromStream(p)
    <3>1. Secrets(config.method[p]) = {Clear} /\ codec' = codec
      BY <2>1 DEF NewFromStream, Secrets
    <3> QED
      BY <1>2, <1>3, <1>4, <3>1 DEF Before
  <2>2. CASE PskHandshake(p)
    <3> DEFINE s == Psk(config.method[p])
    <3>1. Secrets(config.method[p]) = {s} /\ s \in Nat
      BY <2>2, SecretFacts DEF PskHandshake, Secrets, Psks
    <3>2. codec' = [codec EXCEPT ![p] = new_codec(p, s, 0)]
      BY <2>2 DEF PskHandshake
    <3> QED
      BY <1>4, <3>1, <3>2, NewCodec
  <2> QED
    BY <2>1, <2>2
<1>6. Fresh(p)'
  BY <1>1, <1>5, NewCodec, SecretFacts DEF Fresh
<1>7. Before'
  BY <1>1, <1>2, <1>3, <1>5, <1>6, Parties DEF Before, Starts, Fresh, toServer, toClient
<1> QED
  BY <1>1, <1>2, <1>3, <1>4, <1>5, <1>7, QuietBefore, Parties DEF HandshakeInv

\* The client writes its public key.
LEMMA WriteStep ==
    ASSUME HandshakeInv, X25519Write
    PROVE  HandshakeInv'
<1>1. /\ config.method["client"] = "x25519"
      /\ Move("client", "new", "pre") /\ UNCHANGED <<config, hs, codec, connection>>
      /\ inbox' = [inbox EXCEPT !["server"] = Append(@, Raw("PublicKey"))]
  BY DEF X25519Write
<1>2. /\ stage["client"] = "new" /\ stage' \in [Party -> Stages]
      /\ stage'["client"] = "pre" /\ stage'["server"] = stage["server"]
  BY <1>1, MoveFacts, Parties DEF Stages
<1>3. hs["server"] = Uninitialized /\ Before
  BY <1>2, NewIsBefore, Parties
<1>4. codec \in [Party -> Codec] /\ inbox \in [Party -> Seq(Frame)]
  BY DEF HandshakeInv, TypeOK
<1>5. inbox["server"] = << >> /\ inbox["client"] = << >>
  BY <1>2, <1>3 DEF Before, toServer, toClient
<1>6. /\ inbox' \in [Party -> Seq(Frame)] /\ inbox'["client"] = << >>
      /\ inbox'["server"] # << >> /\ Len(inbox'["server"]) = 1
      /\ inbox'["server"][1] = Raw("PublicKey")
  <2>1. Raw("PublicKey") \in Frame
    BY FrameFacts
  <2> DEFINE raw == Raw("PublicKey")
             s == Append(<< >>, raw)
  <2>2. s \in Seq(Frame) /\ s # << >> /\ Len(s) = 1 /\ s[1] = raw
    BY <2>1, OneFrame
  <2>3. inbox' = [inbox EXCEPT !["server"] = s]
    BY <1>1, <1>5
  <2> HIDE DEF s, raw
  <2>4. inbox' \in [Party -> Seq(Frame)] /\ inbox'["client"] = << >> /\ inbox'["server"] = s
    BY <1>4, <1>5, <2>2, <2>3, Parties
  <2> QED
    BY <2>2, <2>4 DEF raw
<1>7. Before'
  <2>1. inbox'["server"][1].payload.type = "PublicKey"
    BY <1>6, FrameFacts
  <2>2. Len(inbox'["client"]) = 0
    BY <1>6
  <2> QED
    BY <1>1, <1>2, <1>3, <1>6, <2>1, <2>2, Parties DEF Before, Starts, Fresh, toServer, toClient
<1> QED
  BY <1>1, <1>2, <1>3, <1>4, <1>6, <1>7, QuietBefore DEF HandshakeInv

\* Before the server's answer, whoever reads takes the only message off.
LEMMA ReadsOnly ==
    ASSUME HandshakeInv, Before, NEW p \in Party, inbox[p] # << >>
    PROVE  /\ Tail(inbox[p]) = << >> /\ Head(inbox[p]) = inbox[p][1] /\ Head(inbox[p]) \in Frame
           /\ read_exact(inbox[p]).secret \in Secrets("x25519")
           /\ read_exact(inbox[p]).rest =
                IF Starts(p, "PublicKey") THEN << >> ELSE Append(<< >>, Raw("Fragment"))
<1> DEFINE s == inbox[p]
<1>1. s \in Seq(Frame) /\ s # << >> /\ Len(s) <= 1
  BY DEF HandshakeInv, TypeOK, Before
<1> HIDE DEF s
<1>2. Tail(s) = << >> /\ Head(s) = s[1] /\ Head(s) \in Frame
  BY <1>1, NoneLeft
<1>3. <<Raw("Fragment")>> \o << >> = Append(<< >>, Raw("Fragment"))
  <2> DEFINE raw == Raw("Fragment")
  <2>1. raw \in Frame
    BY FrameFacts
  <2> HIDE DEF raw
  <2>2. <<raw>> \o << >> = Append(<< >>, raw)
    BY <2>1, OneFrame
  <2> QED
    BY <2>2 DEF raw
<1>4. /\ read_exact(s).secret \in Secrets("x25519")
      /\ read_exact(s).rest =
           IF s[1].payload.type = "PublicKey" THEN << >> ELSE Append(<< >>, Raw("Fragment"))
  BY <1>2, <1>3 DEF read_exact, Secrets
<1> QED
  BY <1>1, <1>2, <1>4 DEF s, Starts

\* The client reads the server's public key.
LEMMA ReadStep ==
    ASSUME HandshakeInv, X25519Read
    PROVE  HandshakeInv'
<1> DEFINE r == read_exact(inbox["client"])
<1>1. /\ inbox["client"] # << >>
      /\ Move("client", "pre", "connected") /\ UNCHANGED <<config, hs, connection>>
      /\ inbox' = [inbox EXCEPT !["client"] = r.rest]
      /\ codec' = [codec EXCEPT !["client"] = new_codec("client", r.secret, 0)]
  BY DEF X25519Read
<1>2. /\ stage["client"] = "pre" /\ stage' \in [Party -> Stages]
      /\ stage'["client"] = "connected" /\ stage'["server"] = stage["server"]
  BY <1>1, MoveFacts, Parties DEF Stages
<1>3. hs["server"] = Uninitialized /\ Before
  BY <1>2, NewIsBefore, Parties
<1>4. codec \in [Party -> Codec] /\ inbox \in [Party -> Seq(Frame)]
  BY DEF HandshakeInv, TypeOK
<1>5. inbox["server"] = << >> /\ Starts("client", "PublicKey") /\ config.method["client"] = "x25519"
  BY <1>1, <1>2, <1>3 DEF Before, toServer, toClient
<1>6. r.secret \in Secrets("x25519") /\ r.rest = << >>
  BY <1>1, <1>3, <1>5, ReadsOnly, Parties
<1> HIDE DEF r
<1>7. inbox' \in [Party -> Seq(Frame)] /\ inbox'["client"] = << >> /\ inbox'["server"] = << >>
  BY <1>1, <1>4, <1>5, <1>6, Parties
<1>8. /\ codec' \in [Party -> Codec] /\ codec'["server"] = codec["server"]
      /\ codec'["client"] = new_codec("client", r.secret, 0)
  BY <1>1, <1>4, <1>6, NewCodec, SecretFacts, Parties
<1>9. Fresh("client")'
  <2>1. r.secret \in Nat /\ r.secret \in Secrets(config.method["client"])
    BY <1>5, <1>6, SecretFacts
  <2> QED
    BY <1>1, <1>8, <2>1, NewCodec, Parties DEF Fresh
<1>10. Before'
  <2>1. Len(inbox'["client"]) = 0 /\ Len(inbox'["server"]) = 0
    BY <1>7
  <2> QED
    BY <1>1, <1>2, <1>3, <1>7, <1>8, <1>9, <2>1, Parties
       DEF Before, Starts, Fresh, toServer, toClient
<1> QED
  BY <1>1, <1>2, <1>3, <1>7, <1>8, <1>10, QuietBefore DEF HandshakeInv

\* The server reads 32 bytes and writes its public key.
LEMMA AnswerStep ==
    ASSUME HandshakeInv, X25519Answer
    PROVE  HandshakeInv'
<1> DEFINE r == read_exact(inbox["server"])
           raw == Raw("PublicKey")
           pk == Append(<< >>, raw)
<1>1. /\ inbox["server"] # << >> /\ config.method["server"] = "x25519"
      /\ Move("server", "new", "connected") /\ UNCHANGED <<config, hs, connection>>
      /\ inbox' = [inbox EXCEPT !["server"] = r.rest, !["client"] = Append(@, raw)]
      /\ codec' = [codec EXCEPT !["server"] = new_codec("server", r.secret, 0)]
  BY DEF X25519Answer
<1>2. /\ stage["server"] = "new" /\ stage' \in [Party -> Stages]
      /\ stage'["server"] = "connected" /\ stage'["client"] = stage["client"]
  BY <1>1, MoveFacts, Parties DEF Stages
<1>3. hs["server"] = Uninitialized /\ Before
  BY <1>2, NewIsBefore, Parties
<1>4. codec \in [Party -> Codec] /\ inbox \in [Party -> Seq(Frame)]
  BY DEF HandshakeInv, TypeOK
<1>5. inbox["client"] = << >>
  BY <1>2, <1>3 DEF Before, toServer, toClient
<1>6. /\ pk \in Seq(Frame) /\ pk # << >> /\ Len(pk) = 1 /\ pk[1].payload.type = "PublicKey"
  <2>1. raw \in Frame /\ raw.payload.type = "PublicKey"
    BY FrameFacts
  <2> HIDE DEF raw
  <2> QED
    BY <2>1, OneFrame
<1>7. /\ r.secret \in Secrets("x25519")
      /\ r.rest = IF Starts("server", "PublicKey") THEN << >> ELSE Append(<< >>, Raw("Fragment"))
  BY <1>1, <1>3, ReadsOnly, Parties
<1>8. /\ r.rest \in Seq(Frame) /\ Len(r.rest) <= 1
      /\ r.rest # << >> => r.rest[1].payload.type = "Fragment" /\ ~Starts("server", "PublicKey")
  <2> DEFINE f == Raw("Fragment")
  <2>1. f \in Frame /\ f.payload.type = "Fragment"
    BY FrameFacts
  <2>2. r.rest = IF Starts("server", "PublicKey") THEN << >> ELSE Append(<< >>, f)
    BY <1>7
  <2> HIDE DEF f, r
  <2>3. /\ Append(<< >>, f) \in Seq(Frame) /\ Len(Append(<< >>, f)) = 1
        /\ Append(<< >>, f)[1].payload.type = "Fragment"
    BY <2>1, OneFrame
  <2>4. << >> \in Seq(Frame) /\ Len(<< >>) = 0
    OBVIOUS
  <2> QED
    BY <2>2, <2>3, <2>4
<1> HIDE DEF r
<1>9. /\ inbox' \in [Party -> Seq(Frame)] /\ inbox'["client"] = pk /\ inbox'["server"] = r.rest
  <2>1. inbox' = [inbox EXCEPT !["server"] = r.rest, !["client"] = pk]
    BY <1>1, <1>5
  <2> HIDE DEF pk
  <2> QED
    BY <1>4, <1>6, <1>8, <2>1, Parties
<1> HIDE DEF pk
<1>10. /\ codec' \in [Party -> Codec] /\ codec'["client"] = codec["client"]
       /\ codec'["server"] = new_codec("server", r.secret, 0)
  BY <1>1, <1>4, <1>7, NewCodec, SecretFacts, Parties
<1>11. Fresh("server")'
  <2>1. r.secret \in Nat /\ r.secret \in Secrets(config.method["server"])
    BY <1>1, <1>7, SecretFacts
  <2> QED
    BY <1>1, <1>10, <2>1, NewCodec, Parties DEF Fresh
<1>12. stage["client"] \in {"pre", "wait", "failed"}
  BY <1>1, <1>3 DEF HandshakeInv, TypeOK, Before, toServer, Ended, Party
<1>13. stage["client"] = "pre" => r.rest = << >>
  BY <1>1, <1>3, <1>8 DEF Before, toServer, toClient, Starts
<1>14. Before'
  BY <1>1, <1>2, <1>3, <1>6, <1>8, <1>9, <1>10, <1>11, <1>12, <1>13, Parties
     DEF Before, Starts, Fresh, toServer, toClient
<1> QED
  BY <1>1, <1>2, <1>3, <1>9, <1>10, <1>14, QuietBefore DEF HandshakeInv

\* A handshake that fails leaves everything else as it is.
LEMMA FailStep ==
    ASSUME HandshakeInv, NEW p \in Party, stage[p] \notin Ended,
           stage' = [stage EXCEPT ![p] = "failed"],
           UNCHANGED <<config, hs, codec, inbox, connection>>
    PROVE  HandshakeInv'
<1>1. /\ stage' \in [Party -> Stages] /\ stage'[p] = "failed"
      /\ \A q \in Party : q # p => stage'[q] = stage[q]
  BY DEF HandshakeInv, TypeOK, Stages, Ended
<1>2. codec \in [Party -> Codec] /\ inbox \in [Party -> Seq(Frame)]
  BY DEF HandshakeInv, TypeOK
<1>3. stage'["client"] # "answered" /\ stage'["server"] \notin {"pre", "wait"}
  BY <1>1, Parties DEF HandshakeInv
<1>4. \A q \in Party :
        /\ held[q] = 1 => stage'[q] = "established" /\ inbox'[q] # << >>
        /\ \A i \in 2 .. Len(inbox'[q]) : IsRecord(inbox'[q][i])
  BY <1>1 DEF HandshakeInv, Ended
<1>5. ASSUME Before PROVE Before'
  BY <1>1, <1>5, Parties DEF Before, Starts, Fresh, toServer, toClient
<1>6. ASSUME After_hello PROVE After_hello'
  BY <1>1, <1>6, Parties DEF After_hello, AllRecords, toServer, toClient
<1>7. hs["server"] = Uninitialized => Before'
  BY <1>5 DEF HandshakeInv
<1>8. hs["server"] # Uninitialized => After_hello'
  BY <1>6 DEF HandshakeInv
<1> QED
  BY <1>1, <1>2, <1>3, <1>4, <1>7, <1>8, QuietStep

\* The client sends its hello.
LEMMA ClientHelloStep ==
    ASSUME HandshakeInv, SendClientHello
    PROVE  HandshakeInv'
<1> DEFINE a == encrypt(codec["client"], ClientHello)
           hello == Append(<< >>, a)
<1>1. /\ Move("client", "connected", "wait") /\ UNCHANGED <<config, hs, connection>>
      /\ inbox' = [inbox EXCEPT !["server"] = Append(@, a)]
      /\ codec' = [codec EXCEPT !["client"] = after_encrypt(@)]
  BY DEF SendClientHello
<1>2. /\ stage["client"] = "connected" /\ stage' \in [Party -> Stages]
      /\ stage'["client"] = "wait" /\ stage'["server"] = stage["server"]
  BY <1>1, MoveFacts, Parties DEF Stages
<1>3. hs["server"] = Uninitialized /\ Before
  BY <1>2, NewIsBefore, Parties
<1>4. codec \in [Party -> Codec] /\ inbox \in [Party -> Seq(Frame)]
  BY DEF HandshakeInv, TypeOK
<1>5. inbox["server"] = << >> /\ inbox["client"] = << >> /\ Fresh("client")
  BY <1>2, <1>3, Parties DEF Before, toServer, toClient
<1>6. /\ a \in Frame /\ a.payload = ClientHello /\ a.key = codec["client"].send_key
  BY <1>4, FrameFacts, Parties
<1> HIDE DEF a
<1>7. hello \in Seq(Frame) /\ hello # << >> /\ Len(hello) = 1 /\ hello[1] = a
  BY <1>6, OneFrame
<1>8. inbox' = [inbox EXCEPT !["server"] = hello]
  BY <1>1, <1>5
<1> HIDE DEF hello
<1>9. inbox' \in [Party -> Seq(Frame)] /\ inbox'["client"] = << >> /\ inbox'["server"] = hello
  BY <1>4, <1>5, <1>7, <1>8, Parties
<1>10. /\ codec' \in [Party -> Codec] /\ codec'["server"] = codec["server"]
       /\ codec'["client"].send_seq = 1 /\ codec'["client"].recv_seq = 0
  <2>1. after_encrypt(codec["client"]) \in Codec
    BY <1>4, CodecType, Parties
  <2>2. /\ after_encrypt(codec["client"]).send_seq = 1
        /\ after_encrypt(codec["client"]).recv_seq = 0
    BY <1>4, <1>5, CodecCounts, Parties DEF Fresh
  <2> QED
    BY <1>1, <1>4, <2>1, <2>2, Parties
<1>11. /\ hello[1].payload.type = "ClientHello"
       /\ \E s \in Secrets(config.method["client"]) : hello[1].key = expand_secret(s, "client")
  BY <1>5, <1>6, <1>7, HelloFacts DEF Fresh
<1>12. Before'
  <2>1. Len(inbox'["client"]) = 0
    BY <1>9
  <2> QED
    BY <1>1, <1>2, <1>3, <1>7, <1>9, <1>10, <1>11, <2>1, Parties
       DEF Before, Starts, Fresh, toServer, toClient
<1> QED
  BY <1>1, <1>2, <1>3, <1>9, <1>10, <1>12, QuietBefore DEF HandshakeInv

\* The two ends of the handshake.
LEMMA StartFacts ==
    /\ client_start \in Handshake /\ client_start.internal_state.tag \in ClientTag
    /\ server_start \in Handshake /\ server_start.internal_state.tag \in ServerTag
    /\ server_start.group.epoch >= 1 /\ server_start # Uninitialized
<1>1. create_server_session \in Group /\ create_server_session.epoch = 1
  BY DEF create_server_session, Group, Commit, NoCommit
<1>2. Running \in Internal /\ Running.tag \in ClientTag /\ Running.tag \in ServerTag
  BY MessageTypes DEF Running, ClientTag, ServerTag
<1>3. server_start.epoch = 1 /\ Uninitialized.epoch = 0
  BY <1>1 DEF server_start, Uninitialized
<1> QED
  BY <1>1, <1>2, <1>3 DEF client_start, server_start, Handshake, Group

\* The server answers the client's hello, or fails.
LEMMA ServerHelloStep ==
    ASSUME HandshakeInv, AnswerClientHello
    PROVE  HandshakeInv'
<1> DEFINE opened == after_decrypt(codec["server"])
           a == encrypt(opened, ServerHello)
           hello == Append(<< >>, a)
<1>1. HasFrame("server") /\ UNCHANGED <<config, connection>>
  BY DEF AnswerClientHello
<1>2. \/ /\ Opens("server", "ClientHello")
         /\ Move("server", "connected", "answered")
         /\ hs' = [hs EXCEPT !["server"] = server_start]
         /\ inbox' = [inbox EXCEPT !["server"] = Tail(@), !["client"] = Append(@, a)]
         /\ codec' = [codec EXCEPT !["server"] = after_encrypt(opened)]
      \/ /\ Move("server", "connected", "failed")
         /\ inbox' = [inbox EXCEPT !["server"] = Tail(@)]
         /\ UNCHANGED <<hs, codec>>
  BY DEF AnswerClientHello
<1>3. /\ stage["server"] = "connected" /\ stage' \in [Party -> Stages]
      /\ stage'["client"] = stage["client"]
  BY <1>2, MoveFacts, Parties DEF Stages, Ended
<1>4. hs["server"] = Uninitialized /\ Before
  BY <1>3, NewIsBefore, Parties
<1>5. codec \in [Party -> Codec] /\ inbox \in [Party -> Seq(Frame)] /\ hs \in [Party -> Handshake]
  BY DEF HandshakeInv, TypeOK
<1>6. /\ inbox["server"] # << >> /\ Tail(inbox["server"]) = << >>
      /\ Head(inbox["server"]) = inbox["server"][1]
  BY <1>1, <1>4, ReadsOnly, Parties DEF HasFrame
<1>7. Starts("server", "ClientHello") /\ Fresh("server")
  BY <1>1, <1>3, <1>4, <1>6, Parties DEF HasFrame, IsFrame, Before, Starts, toServer
<1>8. /\ inbox["client"] = << >> /\ stage["client"] \in {"wait", "failed"}
      /\ \E s \in Secrets(config.method["client"]) :
           inbox["server"][1].key = expand_secret(s, "client")
  BY <1>4, <1>7 DEF Before, toServer, toClient
<1>9. CASE /\ Opens("server", "ClientHello")
           /\ Move("server", "connected", "answered")
           /\ hs' = [hs EXCEPT !["server"] = server_start]
           /\ inbox' = [inbox EXCEPT !["server"] = Tail(@), !["client"] = Append(@, a)]
           /\ codec' = [codec EXCEPT !["server"] = after_encrypt(opened)]
  <2>1. stage'["server"] = "answered"
    BY <1>9, MoveFacts, Parties DEF Stages
  <2>2. config.method["client"] = config.method["server"]
    <3>1. PICK s \in Secrets(config.method["client"]) :
            inbox["server"][1].key = expand_secret(s, "client")
      BY <1>8
    <3>2. PICK t \in Secrets(config.method["server"]) :
            codec["server"].recv_key = expand_secret(t, "client")
      BY <1>7, Parties DEF Fresh
    <3>3. s = t
      BY <1>6, <1>9, <3>1, <3>2 DEF Opens, decrypt, expand_secret
    <3>4. /\ config.method["client"] \in Psks \union {"none", "x25519"}
          /\ config.method["server"] \in Psks \union {"none", "x25519"}
      BY MethodsAssumption, Parties DEF HandshakeInv, TypeOK
    <3> QED
      BY <3>1, <3>2, <3>3, <3>4, SecretFacts
  <2>3. opened \in Codec /\ opened.send_seq = 0 /\ opened.recv_seq = 1
    BY <1>5, <1>7, CodecType, CodecCounts, Parties DEF Fresh
  <2> HIDE DEF opened
  <2>4. /\ after_encrypt(opened) \in Codec /\ after_encrypt(opened).send_seq = 1
        /\ after_encrypt(opened).recv_seq = 1
    BY <2>3, CodecType, CodecCounts, Parties
  <2>5. a \in Frame /\ a.payload = ServerHello
    BY <2>3, FrameFacts
  <2>6. /\ codec' \in [Party -> Codec] /\ codec'["client"] = codec["client"]
        /\ codec'["server"].send_seq = 1 /\ codec'["server"].recv_seq = 1
    BY <1>5, <1>9, <2>4, Parties
  <2> HIDE DEF a
  <2>7. hello \in Seq(Frame) /\ hello # << >> /\ Len(hello) = 1 /\ hello[1] = a
    BY <2>5, OneFrame
  <2>8. inbox' = [inbox EXCEPT !["server"] = << >>, !["client"] = hello]
    BY <1>6, <1>8, <1>9
  <2> HIDE DEF hello
  <2>9. inbox' \in [Party -> Seq(Frame)] /\ inbox'["client"] = hello /\ inbox'["server"] = << >>
    <3>1. << >> \in Seq(Frame)
      OBVIOUS
    <3> QED
      BY <1>5, <2>7, <2>8, <3>1, Parties
  <2>10. /\ hs' \in [Party -> Handshake] /\ hs'["client"] = hs["client"]
         /\ hs'["server"] = server_start
    BY <1>5, <1>9, StartFacts, Parties
  <2>11. TypeOK'
    BY <1>1, <1>3, <2>6, <2>9, <2>10 DEF HandshakeInv, TypeOK, connection, Stages
  <2>12. After_hello'
    <3>1. Len(inbox'["server"]) = 0
      BY <2>9
    <3>2. stage["client"] = "wait" => codec["client"].send_seq = 1 /\ codec["client"].recv_seq = 0
      BY <1>4 DEF Before
    <3> QED
      BY <1>1, <1>3, <1>8, <2>1, <2>2, <2>5, <2>6, <2>7, <2>9, <2>10, <3>1, <3>2, StartFacts
         DEF After_hello, AllRecords, toServer, toClient
  <2>13. ASSUME NEW p \in Party
         PROVE  /\ hs'[p].internal_state.tag \in Tag(p)
                /\ held'[p] # 1
                /\ \A i \in 2 .. Len(inbox'[p]) : IsRecord(inbox'[p][i])
    <3>1. hs'[p].internal_state.tag \in Tag(p)
      BY <2>10, StartFacts, Parties DEF HandshakeInv, Tag
    <3>2. held'[p] # 1
      BY <1>1, <1>4, Parties DEF HandshakeInv, Before, connection
    <3>3. Len(inbox'[p]) <= 1 /\ Len(inbox'[p]) \in Nat
      BY <2>7, <2>9, Parties
    <3> QED
      BY <3>1, <3>2, <3>3
  <2> QED
    BY <1>3, <1>8, <2>1, <2>10, <2>11, <2>12, <2>13, StartFacts DEF HandshakeInv
<1>10. CASE /\ Move("server", "connected", "failed")
            /\ inbox' = [inbox EXCEPT !["server"] = Tail(@)]
            /\ UNCHANGED <<hs, codec>>
  <2>1. stage'["server"] = "failed"
    BY <1>10, MoveFacts, Parties DEF Stages, Ended
  <2>2. inbox' \in [Party -> Seq(Frame)] /\ inbox'["client"] = << >> /\ inbox'["server"] = << >>
    BY <1>5, <1>6, <1>8, <1>10, Parties
  <2>3. Before'
    <3>1. Len(inbox'["client"]) = 0 /\ Len(inbox'["server"]) = 0
      BY <2>2
    <3> QED
      BY <1>1, <1>3, <1>4, <1>8, <1>10, <2>1, <2>2, <3>1, Parties
         DEF Before, Starts, Fresh, toServer, toClient
  <2>4. stage'["client"] # "answered" /\ codec' \in [Party -> Codec]
    BY <1>3, <1>5, <1>8, <1>10
  <2> QED
    BY <1>1, <1>3, <1>4, <1>10, <2>1, <2>2, <2>3, <2>4, QuietBefore
<1> QED
  BY <1>2, <1>9, <1>10

-----------------------------------------------------------------------------
(***************************************************************************)
(* The steps from the server's answer on.                                  *)
(***************************************************************************)

\* The codec of a connection counts on from the handshake's records.
LEMMA EnterFacts ==
    ASSUME NEW p \in Party, NEW c \in Codec
    PROVE  /\ enter_connection(p, c) \in Codec
           /\ enter_connection(p, c).send_key = expand_secret(create_server_session.secret, p)
           /\ enter_connection(p, c).recv_key = expand_secret(create_server_session.secret, Peer(p))
           /\ config.method[p] = "none" =>
                enter_connection(p, c).send_seq = 0 /\ enter_connection(p, c).recv_seq = 0
           /\ config.method[p] # "none" =>
                /\ enter_connection(p, c).send_seq = c.send_seq
                /\ enter_connection(p, c).recv_seq = c.recv_seq
<1> DEFINE s == create_server_session.secret
           u == Both(s)
<1>1. s \in Nat
  BY SecretFacts
<1>2. u \in SecretUpdates /\ u.kind = "Both" /\ u.secret = s
  BY <1>1, MessageTypes DEF Both
<1>3. enter_connection(p, c) =
        IF config.method[p] = "none" THEN new_codec(p, s, 0) ELSE update_traffic_secrets(c, p, u)
  BY DEF enter_connection
<1> HIDE DEF s, u
<1>4. /\ update_traffic_secrets(c, p, u) \in Codec
      /\ update_traffic_secrets(c, p, u).send_seq = c.send_seq
      /\ update_traffic_secrets(c, p, u).recv_seq = c.recv_seq
      /\ update_traffic_secrets(c, p, u).send_key = expand_secret(s, p)
      /\ update_traffic_secrets(c, p, u).recv_key = expand_secret(s, Peer(p))
  <2>1. update_traffic_secrets(c, p, u) \in Codec
    BY <1>2, CodecType
  <2> QED
    BY <1>2, <2>1 DEF update_traffic_secrets, Codec
<1> QED
  BY <1>1, <1>3, <1>4, NewCodec DEF s

\* The server's hello is written.
LEMMA FinishStep ==
    ASSUME HandshakeInv, FinishServer
    PROVE  HandshakeInv'
<1>1. /\ Move("server", "answered", "established") /\ UNCHANGED <<config, hs, inbox, connection>>
      /\ codec' = [codec EXCEPT !["server"] = enter_connection("server", @)]
  BY DEF FinishServer
<1>2. /\ stage["server"] = "answered" /\ stage' \in [Party -> Stages]
      /\ stage'["server"] = "established" /\ stage'["client"] = stage["client"]
  BY <1>1, MoveFacts, Parties DEF Stages, Ended
<1>3. hs["server"] # Uninitialized /\ After_hello
  BY <1>2 DEF HandshakeInv, Before
<1>4. codec \in [Party -> Codec] /\ inbox \in [Party -> Seq(Frame)]
  BY DEF HandshakeInv, TypeOK
<1>5. codec' \in [Party -> Codec] /\ codec'["client"] = codec["client"]
  BY <1>1, <1>4, EnterFacts, Parties
<1>6. After_hello'
  BY <1>1, <1>2, <1>3, <1>5 DEF After_hello, AllRecords, toServer, toClient
<1>7. \A q \in Party :
        /\ held[q] = 1 => stage'[q] = "established" /\ inbox'[q] # << >>
        /\ \A i \in 2 .. Len(inbox'[q]) : IsRecord(inbox'[q][i])
  BY <1>1, <1>2, Parties DEF HandshakeInv
<1>8. stage'["client"] # "answered"
  BY <1>2 DEF HandshakeInv
<1> QED
  BY <1>1, <1>2, <1>3, <1>4, <1>5, <1>6, <1>7, <1>8, QuietStep

\* What follows the first frame are records.
LEMMA RecordsBehind ==
    ASSUME HandshakeInv, NEW p \in Party, inbox[p] # << >>
    PROVE  /\ Head(inbox[p]) = inbox[p][1] /\ Head(inbox[p]) \in Frame
           /\ Tail(inbox[p]) \in Seq(Frame) /\ AllRecords(Tail(inbox[p]))
           /\ Tail(inbox[p]) # << >> => IsRecord(Tail(inbox[p])[1])
           /\ \A i \in 2 .. Len(Tail(inbox[p])) : IsRecord(Tail(inbox[p])[i])
<1> DEFINE s == inbox[p]
           t == Tail(s)
<1>1. s \in Seq(Frame) /\ s # << >> /\ \A i \in 2 .. Len(s) : IsRecord(s[i])
  BY DEF HandshakeInv, TypeOK
<1> HIDE DEF s
<1>2. /\ Len(s) \in Nat /\ Len(s) >= 1 /\ Head(s) = s[1] /\ Head(s) \in Frame
      /\ t \in Seq(Frame) /\ Len(t) = Len(s) - 1
      /\ \A i \in 1 .. Len(s) - 1 : t[i] = s[i + 1]
  BY <1>1, FrameHeadTail
<1> HIDE DEF t
<1>3. ASSUME NEW i \in 1 .. Len(t) PROVE IsRecord(t[i])
  <2> DEFINE k == i + 1
  <2>1. k \in 2 .. Len(s) /\ t[i] = s[k]
    BY <1>2
  <2> HIDE DEF k
  <2> QED
    BY <1>1, <2>1
<1>4. t # << >> => 1 \in 1 .. Len(t)
  BY <1>2, EmptySeq, LenProperties
<1>5. \A i \in 2 .. Len(t) : i \in 1 .. Len(t)
  BY <1>2
<1>6. /\ Head(s) = s[1] /\ Head(s) \in Frame /\ t \in Seq(Frame) /\ AllRecords(t)
      /\ t # << >> => IsRecord(t[1])
      /\ \A i \in 2 .. Len(t) : IsRecord(t[i])
  BY <1>2, <1>3, <1>4, <1>5 DEF AllRecords
<1> QED
  BY <1>6 DEF s, t

\* The client gets the server's hello, or fails.
LEMMA ReceiveStep ==
    ASSUME HandshakeInv, ReceiveServerHello
    PROVE  HandshakeInv'
<1> DEFINE t == Tail(inbox["client"])
           c == enter_connection("client", after_decrypt(codec["client"]))
<1>1. HasFrame("client") /\ UNCHANGED <<config, connection>>
      /\ inbox' = [inbox EXCEPT !["client"] = t]
  BY DEF ReceiveServerHello
<1>2. \/ /\ accepts(Head(inbox["client"]).payload)
         /\ Move("client", "wait", "established")
         /\ hs' = [hs EXCEPT !["client"] = client_start]
         /\ codec' = [codec EXCEPT !["client"] = c]
      \/ /\ Move("client", "wait", "failed")
         /\ UNCHANGED <<hs, codec>>
  BY DEF ReceiveServerHello
<1>3. /\ stage["client"] = "wait" /\ stage' \in [Party -> Stages]
      /\ stage'["server"] = stage["server"]
  BY <1>2, MoveFacts, Parties DEF Stages, Ended
<1>4. codec \in [Party -> Codec] /\ inbox \in [Party -> Seq(Frame)] /\ hs \in [Party -> Handshake]
  BY DEF HandshakeInv, TypeOK
<1>5. inbox["client"] # << >> /\ IsFrame(Head(inbox["client"]))
  BY <1>1 DEF HasFrame
<1>6. /\ Head(inbox["client"]) = inbox["client"][1]
      /\ t \in Seq(Frame) /\ AllRecords(t) /\ (t # << >> => IsRecord(t[1]))
      /\ \A i \in 2 .. Len(t) : IsRecord(t[i])
  BY <1>5, RecordsBehind, Parties
<1>7. hs["server"] # Uninitialized /\ After_hello
  <2>1. ~Before
    BY <1>5, <1>6 DEF IsFrame, Before, Starts, toClient
  <2> QED
    BY <2>1 DEF HandshakeInv
<1>8. inbox["client"][1].payload = ServerHello
  BY <1>3, <1>7 DEF After_hello, toClient
<1> HIDE DEF t
<1>9. inbox' \in [Party -> Seq(Frame)] /\ inbox'["client"] = t /\ inbox'["server"] = inbox["server"]
  BY <1>1, <1>4, <1>6, Parties
<1>10. ASSUME NEW q \in Party
       PROVE  /\ held[q] = 1 => q = "server" /\ stage'[q] = "established" /\ inbox'[q] # << >>
              /\ \A i \in 2 .. Len(inbox'[q]) : IsRecord(inbox'[q][i])
  BY <1>3, <1>6, <1>9, Parties DEF HandshakeInv
<1>11. stage'["server"] \notin {"pre", "wait"}
  BY <1>3 DEF HandshakeInv
<1>12. CASE /\ accepts(Head(inbox["client"]).payload)
            /\ Move("client", "wait", "established")
            /\ hs' = [hs EXCEPT !["client"] = client_start]
            /\ codec' = [codec EXCEPT !["client"] = c]
  <2>1. stage'["client"] = "established"
    BY <1>12, MoveFacts, Parties DEF Stages, Ended
  <2>2. config.server_verifying_key = 1
    BY <1>6, <1>8, <1>12, HelloFacts DEF accepts
  <2>3. c \in Codec
    BY <1>4, EnterFacts, CodecType, Parties
  <2> HIDE DEF c
  <2>4. codec' \in [Party -> Codec] /\ codec'["server"] = codec["server"]
    BY <1>4, <1>12, <2>3, Parties
  <2>5. /\ hs' \in [Party -> Handshake] /\ hs'["server"] = hs["server"]
        /\ hs'["client"] = client_start
    BY <1>4, <1>12, StartFacts, Parties
  <2>6. TypeOK'
    BY <1>1, <1>3, <1>9, <2>4, <2>5 DEF HandshakeInv, TypeOK, connection, Stages
  <2>7. After_hello'
    BY <1>1, <1>3, <1>6, <1>7, <1>9, <2>1, <2>2, <2>4, <2>5
       DEF After_hello, AllRecords, toServer, toClient
  <2>8. \A q \in Party : hs'[q].internal_state.tag \in Tag(q)
    BY <2>5, StartFacts, Parties DEF HandshakeInv, Tag
  <2>9. held' = held
    BY <1>1 DEF connection
  <2> QED
    BY <1>7, <1>10, <1>11, <2>1, <2>5, <2>6, <2>7, <2>8, <2>9 DEF HandshakeInv
<1>13. CASE Move("client", "wait", "failed") /\ UNCHANGED <<hs, codec>>
  <2>1. stage'["client"] = "failed"
    BY <1>13, MoveFacts, Parties DEF Stages, Ended
  <2>2. After_hello'
    BY <1>1, <1>3, <1>6, <1>7, <1>9, <1>13, <2>1
       DEF After_hello, AllRecords, toServer, toClient
  <2> QED
    BY <1>1, <1>3, <1>4, <1>7, <1>9, <1>10, <1>11, <1>13, <2>1, <2>2, QuietStep
<1> QED
  BY <1>2, <1>12, <1>13

-----------------------------------------------------------------------------
(***************************************************************************)
(* Use of the connection: the operators of the two instances of            *)
(* EncryptionProvider, the one that the parties use and the one that the   *)
(* handshake hands over to, are those of the components.                   *)
(***************************************************************************)

\* The parts of the operations that the parties use.
LEMMA ConnOperators ==
    /\ Conn!Party = Party
    /\ \A p : Conn!Peer(p) = Peer(p)
    /\ \A n : Conn!Application(n) = Application(n)
    /\ Conn!NoMessage = NoMessage
    /\ \A c : /\ Conn!after_encrypt(c) = after_encrypt(c)
              /\ Conn!after_decrypt(c) = after_decrypt(c)
    /\ \A c, m : Conn!encrypt(c, m) = encrypt(c, m) /\ Conn!decrypt(c, m) = decrypt(c, m)
    /\ \A c, p, u : Conn!update_traffic_secrets(c, p, u) = update_traffic_secrets(c, p, u)
<1>1. /\ Conn!Party = Party
      /\ \A p : Conn!Peer(p) = Peer(p)
      /\ \A n : Conn!Application(n) = Application(n)
      /\ Conn!NoMessage = NoMessage
  BY DEF Conn!Party, Party, Conn!Peer, Peer, Conn!Application, Application,
         Conn!NoMessage, NoMessage, Conn!NoCommit, NoCommit
<1>2. /\ \A c : /\ Conn!after_encrypt(c) = after_encrypt(c)
                /\ Conn!after_decrypt(c) = after_decrypt(c)
      /\ \A c, m : Conn!encrypt(c, m) = encrypt(c, m) /\ Conn!decrypt(c, m) = decrypt(c, m)
  BY DEF Conn!after_encrypt, after_encrypt, Conn!after_decrypt, after_decrypt,
         Conn!encrypt, encrypt, Conn!decrypt, decrypt
<1>3. \A c, p, u : Conn!update_traffic_secrets(c, p, u) = update_traffic_secrets(c, p, u)
  BY DEF Conn!update_traffic_secrets, update_traffic_secrets, Conn!own_kind, own_kind,
         Conn!expand_secret, expand_secret, Conn!Peer, Peer
<1> QED
  BY <1>1, <1>2, <1>3

\* The handlers that they call.
LEMMA ConnHandlers ==
    /\ \A p, requested :
         Conn!update_handshake(p, requested) =
            IF p = "client" THEN client_update(hs[p], requested, commits + 1)
                            ELSE server_update(hs[p], requested, commits + 1)
    /\ \A p, message :
         Conn!process_signaling_message(p, message) =
            IF p = "client" THEN client_receive_signaling_message(hs[p], message, commits + 1)
                            ELSE server_receive_signaling_message(hs[p], message, commits + 1)
<1>1. ASSUME NEW g, NEW c, NEW drop
      PROVE  Conn!process_mls_update(g, c, drop) = process_mls_update(g, c, drop)
  BY
   DEF Conn!NoCommit, NoCommit, Conn!merge_update, merge_update,
       Conn!resolve_pending, resolve_pending, Conn!process_mls_update,
       process_mls_update
<1>2. ASSUME NEW state, NEW requested, NEW fresh, NEW u
      PROVE  /\ Conn!self_update_and_merge(state, requested, fresh)
                  = self_update_and_merge(state, requested, fresh)
             /\ Conn!self_update_and_wait(state, requested, fresh, u)
                  = self_update_and_wait(state, requested, fresh, u)
  BY
   DEF Conn!self_update_and_merge, self_update_and_merge,
       Conn!self_update_and_wait, self_update_and_wait, Conn!update, update,
       Conn!merge_update, merge_update, Conn!Waiting, Waiting,
       Conn!WaitingForUpdate, WaitingForUpdate, Conn!ConnectionUpdate,
       ConnectionUpdate, Conn!ClientSecret, ClientSecret, Conn!Done, Done,
       Conn!Failed, Failed, Conn!NoMessage, NoMessage, Conn!Application,
       Application, Conn!NoSecretUpdate, NoSecretUpdate, Conn!NoCommit, NoCommit
<1>3. ASSUME NEW state, NEW message, NEW fresh
      PROVE  Conn!client_process_update(state, message, fresh)
                = client_process_update(state, message, fresh)
  BY <1>1, <1>2
   DEF Conn!client_process_update, client_process_update,
       Conn!create_epoch_key_update, create_epoch_key_update, Conn!EpochKeyUpdate,
       EpochKeyUpdate, Conn!Waiting, Waiting, Conn!ClientSecret, ClientSecret,
       Conn!Done, Done, Conn!Failed, Failed, Conn!NoMessage, NoMessage,
       Conn!Application, Application, Conn!NoSecretUpdate, NoSecretUpdate,
       Conn!NoCommit, NoCommit
<1>4. ASSUME NEW state, NEW message, NEW fresh
      PROVE  Conn!server_process_update(state, message, fresh)
                = server_process_update(state, message, fresh)
  BY <1>1, <1>2
   DEF Conn!server_process_update, server_process_update, Conn!server_follow,
       server_follow, Conn!Running, Running, Conn!create_epoch_key_update,
       create_epoch_key_update, Conn!EpochKeyUpdate, EpochKeyUpdate, Conn!Both,
       Both, Conn!Done, Done, Conn!Failed, Failed, Conn!NoMessage, NoMessage,
       Conn!Application, Application, Conn!NoSecretUpdate, NoSecretUpdate,
       Conn!NoCommit, NoCommit
<1>5. ASSUME NEW state, NEW message, NEW fresh
      PROVE  Conn!client_receive_signaling_message(state, message, fresh)
                = client_receive_signaling_message(state, message, fresh)
  BY <1>3
   DEF Conn!client_receive_signaling_message, client_receive_signaling_message,
       Conn!client_receive_confirmation, client_receive_confirmation,
       Conn!client_is_waiting, client_is_waiting, Conn!process_epoch_key_update,
       process_epoch_key_update, Conn!Running, Running, Conn!ServerSecret,
       ServerSecret, Conn!Done, Done, Conn!Failed, Failed, Conn!NoMessage,
       NoMessage, Conn!Application, Application, Conn!NoSecretUpdate,
       NoSecretUpdate, Conn!NoCommit, NoCommit
<1>6. ASSUME NEW state, NEW message, NEW fresh
      PROVE  Conn!server_receive_signaling_message(state, message, fresh)
                = server_receive_signaling_message(state, message, fresh)
  BY <1>4
   DEF Conn!server_receive_signaling_message, server_receive_signaling_message,
       Conn!server_receive_epoch_key_update, server_receive_epoch_key_update,
       Conn!server_is_waiting, server_is_waiting, Conn!merge_update, merge_update,
       Conn!process_epoch_key_update, process_epoch_key_update,
       Conn!create_epoch_key_update, create_epoch_key_update, Conn!EpochKeyUpdate,
       EpochKeyUpdate, Conn!Running, Running, Conn!Both, Both, Conn!Done, Done,
       Conn!Failed, Failed, Conn!NoMessage, NoMessage, Conn!Application,
       Application, Conn!NoSecretUpdate, NoSecretUpdate, Conn!NoCommit, NoCommit
<1>7. ASSUME NEW state, NEW requested, NEW fresh
      PROVE  /\ Conn!client_update(state, requested, fresh)
                  = client_update(state, requested, fresh)
             /\ Conn!server_update(state, requested, fresh)
                  = server_update(state, requested, fresh)
  BY <1>2
   DEF Conn!client_update, client_update, Conn!server_update, server_update,
       Conn!client_is_waiting, client_is_waiting, Conn!server_is_waiting,
       server_is_waiting, Conn!Failed, Failed, Conn!NoMessage, NoMessage,
       Conn!Application, Application, Conn!NoSecretUpdate, NoSecretUpdate,
       Conn!NoCommit, NoCommit
<1> QED
  BY <1>5, <1>6, <1>7 DEF Conn!update_handshake, Conn!process_signaling_message

\* The same for the connection that the handshake hands over to.
LEMMA EstablishedOperators ==
    /\ Established!Party = Party
    /\ \A p : Established!Peer(p) = Peer(p)
    /\ \A n : Established!Application(n) = Application(n)
    /\ Established!NoMessage = NoMessage
    /\ \A c : /\ Established!after_encrypt(c) = after_encrypt(c)
              /\ Established!after_decrypt(c) = after_decrypt(c)
    /\ \A c, m : /\ Established!encrypt(c, m) = encrypt(c, m)
                 /\ Established!decrypt(c, m) = decrypt(c, m)
    /\ \A c, p, u : Established!update_traffic_secrets(c, p, u) = update_traffic_secrets(c, p, u)
<1>1. /\ Established!Party = Party
      /\ \A p : Established!Peer(p) = Peer(p)
      /\ \A n : Established!Application(n) = Application(n)
      /\ Established!NoMessage = NoMessage
  BY DEF Established!Party, Party, Established!Peer, Peer, Established!Application, Application,
         Established!NoMessage, NoMessage, Established!NoCommit, NoCommit
<1>2. /\ \A c : /\ Established!after_encrypt(c) = after_encrypt(c)
                /\ Established!after_decrypt(c) = after_decrypt(c)
      /\ \A c, m : /\ Established!encrypt(c, m) = encrypt(c, m)
                   /\ Established!decrypt(c, m) = decrypt(c, m)
  BY DEF Established!after_encrypt, after_encrypt, Established!after_decrypt, after_decrypt,
         Established!encrypt, encrypt, Established!decrypt, decrypt
<1>3. \A c, p, u : Established!update_traffic_secrets(c, p, u) = update_traffic_secrets(c, p, u)
  BY DEF Established!update_traffic_secrets, update_traffic_secrets, Established!own_kind, own_kind,
         Established!expand_secret, expand_secret, Established!Peer, Peer
<1> QED
  BY <1>1, <1>2, <1>3

\* Its handlers.
LEMMA EstablishedHandlers ==
    /\ \A p, requested :
         Established!update_handshake(p, requested) =
            IF p = "client" THEN client_update(states[p], requested, commits + 1)
                            ELSE server_update(states[p], requested, commits + 1)
    /\ \A p, message :
         Established!process_signaling_message(p, message) =
            IF p = "client" THEN client_receive_signaling_message(states[p], message, commits + 1)
                            ELSE server_receive_signaling_message(states[p], message, commits + 1)
<1>1. ASSUME NEW g, NEW c, NEW drop
      PROVE  Established!process_mls_update(g, c, drop) = process_mls_update(g, c, drop)
  BY
   DEF Established!NoCommit, NoCommit, Established!merge_update, merge_update,
       Established!resolve_pending, resolve_pending, Established!process_mls_update,
       process_mls_update
<1>2. ASSUME NEW state, NEW requested, NEW fresh, NEW u
      PROVE  /\ Established!self_update_and_merge(state, requested, fresh)
                  = self_update_and_merge(state, requested, fresh)
             /\ Established!self_update_and_wait(state, requested, fresh, u)
                  = self_update_and_wait(state, requested, fresh, u)
  BY
   DEF Established!self_update_and_merge, self_update_and_merge,
       Established!self_update_and_wait, self_update_and_wait, Established!update, update,
       Established!merge_update, merge_update, Established!Waiting, Waiting,
       Established!WaitingForUpdate, WaitingForUpdate, Established!ConnectionUpdate,
       ConnectionUpdate, Established!ClientSecret, ClientSecret, Established!Done, Done,
       Established!Failed, Failed, Established!NoMessage, NoMessage, Established!Application,
       Application, Established!NoSecretUpdate, NoSecretUpdate, Established!NoCommit, NoCommit
<1>3. ASSUME NEW state, NEW message, NEW fresh
      PROVE  Established!client_process_update(state, message, fresh)
                = client_process_update(state, message, fresh)
  BY <1>1, <1>2
   DEF Established!client_process_update, client_process_update,
       Established!create_epoch_key_update, create_epoch_key_update, Established!EpochKeyUpdate,
       EpochKeyUpdate, Established!Waiting, Waiting, Established!ClientSecret, ClientSecret,
       Established!Done, Done, Established!Failed, Failed, Established!NoMessage, NoMessage,
       Established!Application, Application, Established!NoSecretUpdate, NoSecretUpdate,
       Established!NoCommit, NoCommit
<1>4. ASSUME NEW state, NEW message, NEW fresh
      PROVE  Established!server_process_update(state, message, fresh)
                = server_process_update(state, message, fresh)
  BY <1>1, <1>2
   DEF Established!server_process_update, server_process_update, Established!server_follow,
       server_follow, Established!Running, Running, Established!create_epoch_key_update,
       create_epoch_key_update, Established!EpochKeyUpdate, EpochKeyUpdate, Established!Both,
       Both, Established!Done, Done, Established!Failed, Failed, Established!NoMessage, NoMessage,
       Established!Application, Application, Established!NoSecretUpdate, NoSecretUpdate,
       Established!NoCommit, NoCommit
<1>5. ASSUME NEW state, NEW message, NEW fresh
      PROVE  Established!client_receive_signaling_message(state, message, fresh)
                = client_receive_signaling_message(state, message, fresh)
  BY <1>3
   DEF Established!client_receive_signaling_message, client_receive_signaling_message,
       Established!client_receive_confirmation, client_receive_confirmation,
       Established!client_is_waiting, client_is_waiting, Established!process_epoch_key_update,
       process_epoch_key_update, Established!Running, Running, Established!ServerSecret,
       ServerSecret, Established!Done, Done, Established!Failed, Failed, Established!NoMessage,
       NoMessage, Established!Application, Application, Established!NoSecretUpdate,
       NoSecretUpdate, Established!NoCommit, NoCommit
<1>6. ASSUME NEW state, NEW message, NEW fresh
      PROVE  Established!server_receive_signaling_message(state, message, fresh)
                = server_receive_signaling_message(state, message, fresh)
  BY <1>4
   DEF Established!server_receive_signaling_message, server_receive_signaling_message,
       Established!server_receive_epoch_key_update, server_receive_epoch_key_update,
       Established!server_is_waiting, server_is_waiting, Established!merge_update, merge_update,
       Established!process_epoch_key_update, process_epoch_key_update,
       Established!create_epoch_key_update, create_epoch_key_update, Established!EpochKeyUpdate,
       EpochKeyUpdate, Established!Running, Running, Established!Both, Both, Established!Done, Done,
       Established!Failed, Failed, Established!NoMessage, NoMessage, Established!Application,
       Application, Established!NoSecretUpdate, NoSecretUpdate, Established!NoCommit, NoCommit
<1>7. ASSUME NEW state, NEW requested, NEW fresh
      PROVE  /\ Established!client_update(state, requested, fresh)
                  = client_update(state, requested, fresh)
             /\ Established!server_update(state, requested, fresh)
                  = server_update(state, requested, fresh)
  BY <1>2
   DEF Established!client_update, client_update, Established!server_update, server_update,
       Established!client_is_waiting, client_is_waiting, Established!server_is_waiting,
       server_is_waiting, Established!Failed, Failed, Established!NoMessage, NoMessage,
       Established!Application, Application, Established!NoSecretUpdate, NoSecretUpdate,
       Established!NoCommit, NoCommit
<1> QED
  BY <1>5, <1>6, <1>7 DEF Established!update_handshake, Established!process_signaling_message

-----------------------------------------------------------------------------
(***************************************************************************)
(* Use of the connection keeps the invariant.                              *)
(***************************************************************************)

\* No handler takes the server's group back to before the handshake.
LEMMA EpochsStay ==
    ASSUME NEW state \in Handshake, state.internal_state.tag \in ServerTag, state.group.epoch >= 1,
           NEW fresh \in Nat
    PROVE  /\ \A requested \in BOOLEAN :
                server_update(state, requested, fresh).state.group.epoch >= 1
           /\ \A message \in InnerPlaintext : message.type # "Application" =>
                server_receive_signaling_message(state, message, fresh).state.group.epoch >= 1
<1>1. state.group \in Group
  BY DEF Handshake
<1>2. \A g \in Group : g.epoch >= 1 => update(g, fresh).group.epoch >= 1
  BY DEF update, Group
<1>3. \A g \in Group : g.epoch >= 1 => merge_update(g) \in Group /\ merge_update(g).epoch >= 1
  BY MergeType DEF merge_update, Group
<1>4. ASSUME NEW g \in Group, g.epoch >= 1, NEW c \in Commit
      PROVE  process_mls_update(g, c, TRUE).group.epoch >= 1
  <2> DEFINE resolved == resolve_pending(g, c, TRUE)
  <2>1. resolved.epoch \in Nat /\ resolved.epoch >= 1
    BY <1>3, <1>4 DEF resolve_pending, Group
  <2> HIDE DEF resolved
  <2> DEFINE e == resolved.epoch
             n == process_mls_update(g, c, TRUE).group.epoch
  <2>2. n = e \/ n = e + 1
    BY DEF process_mls_update, resolved
  <2> HIDE DEF e, n
  <2>3. e \in Nat /\ e >= 1
    BY <2>1 DEF e
  <2>4. n >= 1
    BY <2>2, <2>3
  <2> QED
    BY <2>4 DEF n
<1>5. ASSUME NEW s \in Handshake, s.group.epoch >= 1, NEW requested, NEW u
      PROVE  self_update_and_wait(s, requested, fresh, u).state.group.epoch >= 1
  <2> DEFINE g == update(s.group, fresh).group
  <2>1. g.epoch >= 1
    BY <1>2, <1>5 DEF Handshake
  <2> HIDE DEF g
  <2>2. self_update_and_wait(s, requested, fresh, u).state.group = g
    BY DEF self_update_and_wait, Done, Failed, Handshake, g
  <2> QED
    BY <2>1, <2>2
<1>6. ASSUME NEW requested \in BOOLEAN
      PROVE  server_update(state, requested, fresh).state.group.epoch >= 1
  <2>1. Failed("WaitingForResponse", state).state = state
    BY DEF Failed
  <2> QED
    BY <1>5, <2>1 DEF server_update
<1>7. ASSUME NEW message \in InnerPlaintext, message.type # "Application"
      PROVE  server_receive_signaling_message(state, message, fresh).state.group.epoch >= 1
  <2>1. message.type \in SignalingType /\ message.mls_commit \in Commit
    BY <1>7 DEF InnerPlaintext
  <2>2. server_process_update(state, message, fresh).state.group.epoch >= 1
    <3> DEFINE processed == process_mls_update(state.group, message.mls_commit, TRUE)
               g == processed.group
               followed == server_follow(state, g)
    <3>1. g \in Group /\ g.epoch >= 1
      BY <1>1, <1>4, <2>1, ProcessType
    <3> HIDE DEF g
    <3>2. followed \in Handshake /\ followed.group = g
      BY <3>1, MessageTypes DEF server_follow, Handshake, Group
    <3> HIDE DEF followed
    <3>3. server_process_update(state, message, fresh).state \in
            {[state EXCEPT !.group = g],
             self_update_and_wait(followed, FALSE, fresh, Both(g.secret)).state, followed}
      BY DEF server_process_update, Done, Failed, g, followed
    <3>4. [state EXCEPT !.group = g].group = g
      BY DEF Handshake
    <3> QED
      BY <1>5, <3>1, <3>2, <3>3, <3>4
  <2>3. server_receive_epoch_key_update(state, message).state.group.epoch >= 1
    <3> DEFINE g == merge_update(state.group)
               merged == [state EXCEPT !.epoch = g.epoch, !.group = g]
    <3>1. g \in Group /\ g.epoch >= 1
      BY <1>1, <1>3
    <3> HIDE DEF g
    <3>2. merged.group = g /\ [merged EXCEPT !.internal_state = Running].group = g
      BY DEF Handshake
    <3>3. server_receive_epoch_key_update(state, message).state \in
            {state, merged, [merged EXCEPT !.internal_state = Running]}
      BY DEF server_receive_epoch_key_update, Done, Failed, g
    <3> HIDE DEF merged
    <3> QED
      BY <3>1, <3>2, <3>3
  <2>4. Failed("UnexpectedMessage", state).state = state
    BY DEF Failed
  <2> QED
    BY <2>1, <2>2, <2>3, <2>4 DEF server_receive_signaling_message, SignalingType
<1> QED
  BY <1>6, <1>7

\* u is s with more records behind it.
Extends(s, u) ==
    /\ u \in Seq(Frame)
    /\ s # << >> => u # << >> /\ u[1] = s[1]
    /\ s = << >> /\ u # << >> => IsRecord(u[1])
    /\ (\A i \in 2 .. Len(s) : IsRecord(s[i])) => \A i \in 2 .. Len(u) : IsRecord(u[i])
    /\ AllRecords(s) => AllRecords(u)

\* One record is appended.
LEMMA ExtendsByOne ==
    ASSUME NEW s \in Seq(Frame), NEW a, IsRecord(a)
    PROVE  Extends(s, Append(s, a)) /\ Append(s, a) \in Seq(Frame)
<1> DEFINE u == Append(s, a)
<1>1. a \in Frame
  BY FrameFacts
<1>2. /\ u \in Seq(Frame) /\ u # << >> /\ Len(u) = Len(s) + 1 /\ Len(s) \in Nat
      /\ u[Len(s) + 1] = a /\ \A i \in 1 .. Len(s) : u[i] = s[i]
  BY <1>1, FrameAppend
<1> HIDE DEF u
<1>3. s # << >> => u[1] = s[1]
  BY <1>2, EmptySeq
<1>4. s = << >> => Len(s) = 0
  OBVIOUS
<1>5. s = << >> => IsRecord(u[1])
  BY <1>2, <1>4
<1>6. ASSUME NEW i \in 1 .. Len(u), i \in 1 .. Len(s) => IsRecord(s[i]) PROVE IsRecord(u[i])
  BY <1>2, <1>6
<1>7. \A i \in 2 .. Len(u) : i \in 1 .. Len(u) /\ (i \in 1 .. Len(s) => i \in 2 .. Len(s))
  BY <1>2
<1> QED
  BY <1>2, <1>3, <1>5, <1>6, <1>7 DEF Extends, AllRecords, u

\* The same for two records.
LEMMA ExtendsByTwo ==
    ASSUME NEW s \in Seq(Frame), NEW a, IsRecord(a), NEW b, IsRecord(b)
    PROVE  Extends(s, Append(Append(s, a), b))
<1> DEFINE t == Append(s, a)
           u == Append(t, b)
<1>1. Extends(s, t) /\ t \in Seq(Frame) /\ t # << >>
  <2>1. a \in Frame
    BY FrameFacts
  <2> QED
    BY <2>1, ExtendsByOne, FrameAppend
<1> HIDE DEF t
<1>2. Extends(t, u)
  BY <1>1, ExtendsByOne
<1> HIDE DEF u
<1>3. Extends(s, u)
  BY <1>1, <1>2 DEF Extends
<1> QED
  BY <1>3 DEF t, u

\* A party that uses the connection has only records before it.
LEMMA UserFacts ==
    ASSUME HandshakeInv, NEW p \in Party, stage[p] = "established"
    PROVE  /\ hs["server"] # Uninitialized /\ After_hello /\ AllRecords(inbox[p])
           /\ Peer(p) \in Party /\ Peer(p) # p /\ \A q \in Party : q = p \/ q = Peer(p)
           /\ hs[p] \in Handshake /\ codec[p] \in Codec /\ commits \in Nat
           /\ sent[p] \in Nat /\ inbox[p] \in Seq(Frame) /\ inbox[Peer(p)] \in Seq(Frame)
           /\ inbox[p] # << >> =>
                /\ IsRecord(Head(inbox[p])) /\ Head(inbox[p]).payload \in InnerPlaintext
                /\ Tail(inbox[p]) \in Seq(Frame) /\ AllRecords(Tail(inbox[p]))
<1>1. hs["server"] # Uninitialized /\ After_hello
  BY Parties DEF HandshakeInv, Before
<1>2. AllRecords(inbox[p])
  BY <1>1, Parties DEF After_hello, toServer, toClient
<1>3. Peer(p) \in Party /\ Peer(p) # p /\ \A q \in Party : q = p \/ q = Peer(p)
  BY Parties
<1>4. /\ hs[p] \in Handshake /\ codec[p] \in Codec /\ commits \in Nat
      /\ sent[p] \in Nat /\ inbox[p] \in Seq(Frame) /\ inbox[Peer(p)] \in Seq(Frame)
  BY <1>3, MethodsAssumption DEF HandshakeInv, TypeOK
<1>5. ASSUME inbox[p] # << >>
      PROVE  /\ IsRecord(Head(inbox[p])) /\ Head(inbox[p]).payload \in InnerPlaintext
             /\ Tail(inbox[p]) \in Seq(Frame) /\ AllRecords(Tail(inbox[p]))
  <2>1. /\ Head(inbox[p]) = inbox[p][1] /\ Tail(inbox[p]) \in Seq(Frame)
        /\ AllRecords(Tail(inbox[p]))
    BY <1>5, RecordsBehind
  <2>2. 1 \in 1 .. Len(inbox[p])
    BY <1>4, <1>5, EmptySeq, LenProperties
  <2>3. IsRecord(Head(inbox[p]))
    BY <1>2, <2>1, <2>2 DEF AllRecords
  <2>4. Head(inbox[p]) \in Record
    BY <2>3, FrameFacts
  <2> QED
    BY <2>1, <2>3, <2>4 DEF Record
<1> QED
  BY <1>1, <1>2, <1>3, <1>4, <1>5

\* What a step of p in the connection may do.
LEMMA UseKeeps ==
    ASSUME HandshakeInv, NEW p \in Party, stage[p] = "established", UNCHANGED <<config, stage>>,
           hs' \in [Party -> Handshake], hs'[Peer(p)] = hs[Peer(p)],
           hs'[p].internal_state.tag \in Tag(p), p = "server" => hs'[p].group.epoch >= 1,
           codec' \in [Party -> Codec], codec'[Peer(p)] = codec[Peer(p)],
           inbox' \in [Party -> Seq(Frame)], AllRecords(inbox'[p]),
           Extends(inbox[Peer(p)], inbox'[Peer(p)]),
           held' \in [Party -> {0, 1}], held'[Peer(p)] = held[Peer(p)],
           held'[p] = 1 => inbox'[p] # << >>,
           sent' \in [Party -> 0 .. MaxSends], delivered' \in [Party -> 0 .. MaxSends],
           commits' \in Nat, error' \in [Party -> ErrorKind]
    PROVE  HandshakeInv'
<1> DEFINE q == Peer(p)
<1>1. /\ hs["server"] # Uninitialized /\ After_hello /\ AllRecords(inbox[p])
      /\ q \in Party /\ q # p /\ \A r \in Party : r = p \/ r = q
  BY UserFacts
<1>2. TypeOK'
  BY DEF HandshakeInv, TypeOK
<1>3. (p = "client" /\ q = "server") \/ (p = "server" /\ q = "client")
  BY Parties
<1>4. /\ inbox[q] # << >> => inbox'[q] # << >> /\ inbox'[q][1] = inbox[q][1]
      /\ inbox[q] = << >> /\ inbox'[q] # << >> => IsRecord(inbox'[q][1])
      /\ AllRecords(inbox[q]) => AllRecords(inbox'[q])
      /\ (\A i \in 2 .. Len(inbox[q]) : IsRecord(inbox[q][i])) =>
           \A i \in 2 .. Len(inbox'[q]) : IsRecord(inbox'[q][i])
  BY DEF Extends
<1> HIDE DEF q
<1>5. /\ hs'[q] = hs[q] /\ codec'[q] = codec[q] /\ held'[q] = held[q]
  BY DEF q
<1>6. inbox'[p] # << >> => IsRecord(inbox'[p][1])
  <2>1. inbox'[p] \in Seq(Frame)
    OBVIOUS
  <2>2. inbox'[p] # << >> => 1 \in 1 .. Len(inbox'[p])
    BY <2>1, EmptySeq, LenProperties
  <2> QED
    BY <2>2 DEF AllRecords
<1>7. hs'["server"].group.epoch >= 1
  BY <1>1, <1>3, <1>5 DEF After_hello
<1>8. After_hello'
  <2>1. CASE p = "client"
    <3>1. q = "server"
      BY <1>3, <2>1
    <3> QED
      BY <1>1, <1>4, <1>5, <1>6, <1>7, <2>1, <3>1 DEF After_hello, toServer, toClient, AllRecords
  <2>2. CASE p = "server"
    <3>1. q = "client"
      BY <1>3, <2>2
    <3> QED
      BY <1>1, <1>4, <1>5, <1>6, <1>7, <2>2, <3>1 DEF After_hello, toServer, toClient, AllRecords
  <2> QED
    BY <1>3, <2>1, <2>2
<1>9. ASSUME NEW r \in Party
      PROVE  /\ hs'[r].internal_state.tag \in Tag(r)
             /\ held'[r] = 1 => stage'[r] = "established" /\ inbox'[r] # << >>
             /\ \A i \in 2 .. Len(inbox'[r]) : IsRecord(inbox'[r][i])
  <2>1. CASE r = p
    <3>1. \A i \in 2 .. Len(inbox'[p]) : i \in 1 .. Len(inbox'[p])
      OBVIOUS
    <3> QED
      BY <2>1, <3>1 DEF AllRecords
  <2>2. CASE r = q
    BY <1>1, <1>4, <1>5, <2>2 DEF HandshakeInv
  <2> QED
    BY <1>1, <2>1, <2>2
<1>10. hs'["server"] # Uninitialized
  BY <1>7 DEF Uninitialized
<1>11. stage'["client"] # "answered" /\ stage'["server"] \notin {"pre", "wait"}
  BY DEF HandshakeInv
<1> QED
  BY <1>2, <1>8, <1>9, <1>10, <1>11 DEF HandshakeInv

\* What the handlers return to a party that uses the connection.
GoodResult(p, r) ==
    /\ r \in Result /\ r.state.internal_state.tag \in Tag(p)
    /\ p = "server" => r.state.group.epoch >= 1
    /\ \A c \in Codec : IsRecord(encrypt(c, r.message))

\* They return that.
LEMMA UseHandlers ==
    ASSUME HandshakeInv, NEW p \in Party, stage[p] = "established"
    PROVE  /\ \A requested \in Conn!Requests(p) : GoodResult(p, Conn!update_handshake(p, requested))
           /\ \A message \in InnerPlaintext : message.type # "Application" =>
                GoodResult(p, Conn!process_signaling_message(p, message))
<1> DEFINE fresh == commits + 1
<1>1. hs[p] \in Handshake /\ fresh \in Nat /\ hs[p].internal_state.tag \in Tag(p)
  BY UserFacts DEF HandshakeInv
<1>2. p = "server" => hs[p].group.epoch >= 1
  BY UserFacts DEF After_hello
<1>3. Conn!Requests(p) \subseteq BOOLEAN
  BY MethodsAssumption DEF Conn!Requests
<1> HIDE DEF fresh
<1>4. ASSUME NEW r \in Result, Clean(r), r.state.internal_state.tag \in Tag(p),
             p = "server" => r.state.group.epoch >= 1
      PROVE  GoodResult(p, r)
  <2> DEFINE m == r.message
  <2>1. m \in InnerPlaintext /\ (m = NoMessage \/ m.type # "Application")
    BY <1>4 DEF Result, Clean
  <2>2. NoMessage.data \in 0 .. MaxSends
    BY MethodsAssumption DEF NoMessage, Application
  <2> HIDE DEF m
  <2>3. ASSUME NEW c \in Codec PROVE encrypt(c, m) \in Record /\ encrypt(c, m).payload = m
    BY <2>1, CodecType DEF encrypt
  <2>4. \A c \in Codec : IsRecord(encrypt(c, m))
    BY <2>1, <2>2, <2>3 DEF IsRecord
  <2> QED
    BY <1>4, <2>4 DEF GoodResult, m
<1>5. ASSUME NEW requested \in Conn!Requests(p)
      PROVE  GoodResult(p, Conn!update_handshake(p, requested))
  <2>1. requested \in BOOLEAN
    BY <1>3
  <2>2. CASE p = "client"
    <3>1. Conn!update_handshake(p, requested) = client_update(hs[p], requested, fresh)
      BY <2>2, ConnHandlers DEF fresh
    <3> QED
      BY <1>1, <1>4, <2>1, <2>2, <3>1, ClientUpdateType, CleanUpdates DEF Tag
  <2>3. CASE p = "server"
    <3>1. Conn!update_handshake(p, requested) = server_update(hs[p], requested, fresh)
      BY <2>3, ConnHandlers DEF fresh
    <3>2. hs[p].internal_state.tag \in ServerTag
      BY <1>1, <2>3 DEF Tag
    <3>3. server_update(hs[p], requested, fresh).state.group.epoch >= 1
      BY <1>1, <1>2, <2>1, <2>3, <3>2, EpochsStay
    <3> QED
      BY <1>1, <1>4, <2>1, <2>3, <3>1, <3>2, <3>3, ServerUpdateType, CleanUpdates DEF Tag
  <2> QED
    BY <2>2, <2>3, Parties
<1>6. ASSUME NEW message \in InnerPlaintext, message.type # "Application"
      PROVE  GoodResult(p, Conn!process_signaling_message(p, message))
  <2>1. message.type \in SignalingType
    BY <1>6 DEF InnerPlaintext
  <2>2. CASE p = "client"
    <3>1. Conn!process_signaling_message(p, message)
            = client_receive_signaling_message(hs[p], message, fresh)
      BY <2>2, ConnHandlers DEF fresh
    <3> QED
      BY <1>1, <1>4, <1>6, <2>1, <2>2, <3>1, ClientReceiveType, CleanAnswers DEF Tag
  <2>3. CASE p = "server"
    <3>1. Conn!process_signaling_message(p, message)
            = server_receive_signaling_message(hs[p], message, fresh)
      BY <2>3, ConnHandlers DEF fresh
    <3>2. hs[p].internal_state.tag \in ServerTag
      BY <1>1, <2>3 DEF Tag
    <3>3. server_receive_signaling_message(hs[p], message, fresh).state.group.epoch >= 1
      BY <1>1, <1>2, <1>6, <2>3, <3>2, EpochsStay
    <3> QED
      BY <1>1, <1>4, <1>6, <2>1, <2>3, <3>1, <3>2, <3>3, ServerReceiveType, CleanAnswers DEF Tag
  <2> QED
    BY <2>2, <2>3, Parties
<1> QED
  BY <1>5, <1>6

\* send_bytes without an update.
LEMMA SendStep ==
    ASSUME HandshakeInv, NEW p \in Party, stage[p] = "established", UNCHANGED <<config, stage>>,
           Conn!SendBytes(p)
    PROVE  HandshakeInv'
<1> DEFINE q == Peer(p)
           m == Application(sent[p] + 1)
           a == encrypt(codec[p], m)
           c == after_encrypt(codec[p])
           more == Append(inbox[q], a)
<1>1. /\ sent[p] < MaxSends
      /\ inbox' = [inbox EXCEPT ![q] = more] /\ codec' = [codec EXCEPT ![p] = c]
      /\ sent' = [sent EXCEPT ![p] = sent[p] + 1]
      /\ UNCHANGED <<hs, held, delivered, commits, error>>
  BY ConnOperators DEF Conn!SendBytes, Conn!MaySend, Conn!NextBytes
<1>2. /\ q \in Party /\ q # p /\ codec[p] \in Codec /\ inbox[q] \in Seq(Frame)
      /\ AllRecords(inbox[p]) /\ sent[p] \in Nat
  BY UserFacts
<1>3. /\ inbox \in [Party -> Seq(Frame)] /\ codec \in [Party -> Codec]
      /\ sent \in [Party -> 0 .. MaxSends] /\ hs \in [Party -> Handshake]
      /\ held \in [Party -> {0, 1}] /\ delivered \in [Party -> 0 .. MaxSends] /\ commits \in Nat
      /\ error \in [Party -> ErrorKind]
  BY DEF HandshakeInv, TypeOK
<1>4. sent[p] + 1 \in 0 .. MaxSends
  BY <1>1, <1>2, MethodsAssumption
<1>5. m \in InnerPlaintext /\ m.type = "Application" /\ m.data = sent[p] + 1
  BY <1>2, MessageTypes, HelloFacts
<1> HIDE DEF m
<1>6. IsRecord(a)
  BY <1>2, <1>4, <1>5, CodecType DEF encrypt, IsRecord
<1>7. c \in Codec
  BY <1>2, CodecType
<1> HIDE DEF a, c
<1>8. Extends(inbox[q], more) /\ more \in Seq(Frame)
  BY <1>2, <1>6, ExtendsByOne
<1> HIDE DEF more
<1>9. /\ inbox' \in [Party -> Seq(Frame)] /\ inbox'[q] = more /\ inbox'[p] = inbox[p]
      /\ codec' \in [Party -> Codec] /\ codec'[q] = codec[q] /\ sent' \in [Party -> 0 .. MaxSends]
  BY <1>1, <1>2, <1>3, <1>4, <1>7, <1>8
<1>10. /\ hs'[p].internal_state.tag \in Tag(p) /\ (p = "server" => hs'[p].group.epoch >= 1)
       /\ (held'[p] = 1 => inbox'[p] # << >>)
  BY <1>1, <1>9, UserFacts DEF HandshakeInv, After_hello
<1> QED
  BY <1>1, <1>2, <1>3, <1>8, <1>9, <1>10, UseKeeps

\* send_bytes with an update.
LEMMA SendUpdateStep ==
    ASSUME HandshakeInv, NEW p \in Party, stage[p] = "established", UNCHANGED <<config, stage>>,
           Conn!SendBytesUpdate(p)
    PROVE  HandshakeInv'
<1> DEFINE q == Peer(p)
           m == Application(sent[p] + 1)
<1>0. PICK requested \in Conn!Requests(p) :
       LET r       == Conn!update_handshake(p, requested)
           updated == update_traffic_secrets(after_encrypt(codec[p]), p, r.secret_update)
       IN  /\ hs' = [hs EXCEPT ![p] = r.state]
           /\ commits' = commits + r.made
           /\ IF r.error = "ok"
              THEN /\ inbox' = [inbox EXCEPT ![q] = Append(Append(inbox[q], encrypt(codec[p], r.message)),
                                                           encrypt(updated, m))]
                   /\ codec' = [codec EXCEPT ![p] = after_encrypt(updated)]
                   /\ sent' = [sent EXCEPT ![p] = sent[p] + 1]
                   /\ error' = error
              ELSE /\ error' = [error EXCEPT ![p] = r.error]
                   /\ UNCHANGED <<inbox, codec, sent>>
  BY ConnOperators DEF Conn!SendBytesUpdate, Conn!NextBytes
<1>1. sent[p] < MaxSends /\ UNCHANGED <<held, delivered>>
  BY DEF Conn!SendBytesUpdate, Conn!MaySend
<1> DEFINE r == Conn!update_handshake(p, requested)
           used == after_encrypt(codec[p])
           updated == update_traffic_secrets(used, p, r.secret_update)
           c == after_encrypt(updated)
           a == encrypt(codec[p], r.message)
           b == encrypt(updated, m)
           more == Append(Append(inbox[q], a), b)
<1>2. /\ q \in Party /\ q # p /\ codec[p] \in Codec /\ inbox[q] \in Seq(Frame)
      /\ AllRecords(inbox[p]) /\ sent[p] \in Nat
  BY UserFacts
<1>3. /\ inbox \in [Party -> Seq(Frame)] /\ codec \in [Party -> Codec]
      /\ sent \in [Party -> 0 .. MaxSends] /\ hs \in [Party -> Handshake]
      /\ held \in [Party -> {0, 1}] /\ delivered \in [Party -> 0 .. MaxSends] /\ commits \in Nat
      /\ error \in [Party -> ErrorKind]
  BY DEF HandshakeInv, TypeOK
<1>4. sent[p] + 1 \in 0 .. MaxSends
  BY <1>1, <1>2, MethodsAssumption
<1>5. m \in InnerPlaintext /\ m.type = "Application" /\ m.data = sent[p] + 1
  BY <1>2, MessageTypes, HelloFacts
<1> HIDE DEF m
<1>6. GoodResult(p, r)
  BY UseHandlers
<1>7. /\ r.state \in Handshake /\ r.made \in Nat /\ r.error \in ErrorKind
      /\ r.secret_update \in SecretUpdates
  BY <1>6 DEF GoodResult, Result
<1>8. /\ hs' = [hs EXCEPT ![p] = r.state] /\ commits' = commits + r.made
      /\ r.error = "ok" =>
           /\ inbox' = [inbox EXCEPT ![q] = more] /\ codec' = [codec EXCEPT ![p] = c]
           /\ sent' = [sent EXCEPT ![p] = sent[p] + 1] /\ error' = error
      /\ r.error # "ok" =>
           error' = [error EXCEPT ![p] = r.error] /\ UNCHANGED <<inbox, codec, sent>>
  BY <1>0
<1>9. IsRecord(a)
  BY <1>2, <1>6 DEF GoodResult
<1> HIDE DEF r
<1>10. used \in Codec
  BY <1>2, CodecType
<1> HIDE DEF used
<1>11. updated \in Codec
  BY <1>7, <1>10, CodecType
<1> HIDE DEF updated, a
<1>12. IsRecord(b)
  BY <1>4, <1>5, <1>11, CodecType DEF encrypt, IsRecord
<1>13. c \in Codec
  BY <1>11, CodecType
<1> HIDE DEF b, c
<1>14. Extends(inbox[q], more)
  BY <1>2, <1>9, <1>12, ExtendsByTwo
<1>15. more \in Seq(Frame)
  BY <1>14 DEF Extends
<1> HIDE DEF more
<1>16. Extends(inbox[q], inbox[q])
  BY <1>2 DEF Extends
<1>17. /\ inbox' \in [Party -> Seq(Frame)] /\ Extends(inbox[q], inbox'[q]) /\ inbox'[p] = inbox[p]
       /\ codec' \in [Party -> Codec] /\ codec'[q] = codec[q] /\ sent' \in [Party -> 0 .. MaxSends]
       /\ error' \in [Party -> ErrorKind]
  <2>1. CASE r.error = "ok"
    <3>1. inbox' \in [Party -> Seq(Frame)] /\ inbox'[q] = more /\ inbox'[p] = inbox[p]
      BY <1>2, <1>3, <1>8, <1>15, <2>1
    <3>2. codec' \in [Party -> Codec] /\ codec'[q] = codec[q]
      BY <1>2, <1>3, <1>8, <1>13, <2>1
    <3>3. sent' \in [Party -> 0 .. MaxSends] /\ error' = error
      BY <1>3, <1>4, <1>8, <2>1
    <3> QED
      BY <1>3, <1>14, <3>1, <3>2, <3>3
  <2>2. CASE r.error # "ok"
    BY <1>2, <1>3, <1>7, <1>8, <1>16, <2>2
  <2> QED
    BY <2>1, <2>2
<1>18. hs' \in [Party -> Handshake] /\ hs'[p] = r.state /\ hs'[q] = hs[q] /\ commits' \in Nat
  BY <1>2, <1>3, <1>7, <1>8
<1>19. /\ hs'[p].internal_state.tag \in Tag(p) /\ (p = "server" => hs'[p].group.epoch >= 1)
       /\ (held'[p] = 1 => inbox'[p] # << >>)
  BY <1>1, <1>6, <1>17, <1>18 DEF GoodResult, HandshakeInv
<1> QED
  BY <1>1, <1>2, <1>3, <1>17, <1>18, <1>19, UseKeeps

\* read_message.
LEMMA ReadMessageStep ==
    ASSUME HandshakeInv, NEW p \in Party, stage[p] = "established", UNCHANGED <<config, stage>>,
           Conn!ReadMessage(p)
    PROVE  HandshakeInv'
<1> DEFINE q == Peer(p)
           c == after_decrypt(codec[p])
           rest == Tail(inbox[p])
<1>1. /\ inbox[p] # << >> /\ held[p] = 0
      /\ \/ /\ held' = [held EXCEPT ![p] = 1] /\ codec' = [codec EXCEPT ![p] = c]
            /\ UNCHANGED <<inbox, error>>
         \/ /\ inbox' = [inbox EXCEPT ![p] = rest]
            /\ error' = [error EXCEPT ![p] = "DecryptionError"]
            /\ UNCHANGED <<held, codec>>
      /\ UNCHANGED <<hs, sent, delivered, commits>>
  BY ConnOperators DEF Conn!ReadMessage
<1>2. /\ q \in Party /\ q # p /\ codec[p] \in Codec /\ inbox[q] \in Seq(Frame)
      /\ AllRecords(inbox[p]) /\ rest \in Seq(Frame) /\ AllRecords(rest)
  BY <1>1, UserFacts
<1>3. /\ inbox \in [Party -> Seq(Frame)] /\ codec \in [Party -> Codec]
      /\ sent \in [Party -> 0 .. MaxSends] /\ hs \in [Party -> Handshake]
      /\ held \in [Party -> {0, 1}] /\ delivered \in [Party -> 0 .. MaxSends] /\ commits \in Nat
      /\ error \in [Party -> ErrorKind]
  BY DEF HandshakeInv, TypeOK
<1>4. c \in Codec
  BY <1>2, CodecType
<1>5. Extends(inbox[q], inbox[q])
  BY <1>2 DEF Extends
<1> HIDE DEF c, rest
<1>6. /\ inbox' \in [Party -> Seq(Frame)] /\ AllRecords(inbox'[p]) /\ inbox'[q] = inbox[q]
      /\ codec' \in [Party -> Codec] /\ codec'[q] = codec[q]
      /\ held' \in [Party -> {0, 1}] /\ held'[q] = held[q] /\ (held'[p] = 1 => inbox'[p] # << >>)
      /\ error' \in [Party -> ErrorKind]
  <2>1. CASE /\ held' = [held EXCEPT ![p] = 1] /\ codec' = [codec EXCEPT ![p] = c]
             /\ UNCHANGED <<inbox, error>>
    BY <1>1, <1>2, <1>3, <1>4, <2>1
  <2>2. CASE /\ inbox' = [inbox EXCEPT ![p] = rest]
             /\ error' = [error EXCEPT ![p] = "DecryptionError"]
             /\ UNCHANGED <<held, codec>>
    <3>1. inbox' \in [Party -> Seq(Frame)] /\ inbox'[p] = rest /\ inbox'[q] = inbox[q]
      BY <1>2, <1>3, <2>2
    <3>2. error' \in [Party -> ErrorKind]
      BY <1>3, <2>2 DEF ErrorKind
    <3> QED
      BY <1>1, <1>2, <1>3, <2>2, <3>1, <3>2
  <2> QED
    BY <1>1, <2>1, <2>2
<1>7. /\ hs'[p].internal_state.tag \in Tag(p) /\ (p = "server" => hs'[p].group.epoch >= 1)
      /\ hs' \in [Party -> Handshake] /\ hs'[q] = hs[q]
  BY <1>1, <1>3, UserFacts DEF HandshakeInv, After_hello
<1>8. /\ sent' \in [Party -> 0 .. MaxSends] /\ delivered' \in [Party -> 0 .. MaxSends]
      /\ commits' \in Nat /\ Extends(inbox[q], inbox'[q])
  BY <1>1, <1>3, <1>5, <1>6
<1> QED
  BY <1>6, <1>7, <1>8, UseKeeps

\* process_read_message for application bytes.
LEMMA ProcessApplicationStep ==
    ASSUME HandshakeInv, NEW p \in Party, stage[p] = "established", UNCHANGED <<config, stage>>,
           Conn!ProcessApplication(p)
    PROVE  HandshakeInv'
<1> DEFINE q == Peer(p)
           rest == Tail(inbox[p])
           n == Head(inbox[p]).payload.data
<1>1. /\ held[p] = 1 /\ Head(inbox[p]).payload.type = "Application"
      /\ delivered' = [delivered EXCEPT ![p] = n]
      /\ inbox' = [inbox EXCEPT ![p] = rest] /\ held' = [held EXCEPT ![p] = 0]
      /\ UNCHANGED <<hs, codec, sent, commits, error>>
  BY DEF Conn!ProcessApplication
<1>2. inbox[p] # << >>
  BY <1>1 DEF HandshakeInv
<1>3. /\ q \in Party /\ q # p /\ codec[p] \in Codec /\ inbox[q] \in Seq(Frame)
      /\ rest \in Seq(Frame) /\ AllRecords(rest) /\ IsRecord(Head(inbox[p]))
  BY <1>2, UserFacts
<1>4. /\ inbox \in [Party -> Seq(Frame)] /\ codec \in [Party -> Codec]
      /\ sent \in [Party -> 0 .. MaxSends] /\ hs \in [Party -> Handshake]
      /\ held \in [Party -> {0, 1}] /\ delivered \in [Party -> 0 .. MaxSends] /\ commits \in Nat
      /\ error \in [Party -> ErrorKind]
  BY DEF HandshakeInv, TypeOK
<1>5. n \in 0 .. MaxSends
  BY <1>1, <1>3 DEF IsRecord
<1>6. Extends(inbox[q], inbox[q])
  BY <1>3 DEF Extends
<1> HIDE DEF n, rest
<1>7. /\ inbox' \in [Party -> Seq(Frame)] /\ AllRecords(inbox'[p]) /\ inbox'[q] = inbox[q]
      /\ held' \in [Party -> {0, 1}] /\ held'[q] = held[q] /\ held'[p] = 0
      /\ delivered' \in [Party -> 0 .. MaxSends]
  BY <1>1, <1>3, <1>4, <1>5
<1>8. /\ hs'[p].internal_state.tag \in Tag(p) /\ (p = "server" => hs'[p].group.epoch >= 1)
      /\ hs' \in [Party -> Handshake] /\ hs'[q] = hs[q]
  BY <1>1, <1>4, UserFacts DEF HandshakeInv, After_hello
<1>9. /\ codec' \in [Party -> Codec] /\ codec'[q] = codec[q] /\ sent' \in [Party -> 0 .. MaxSends]
      /\ commits' \in Nat /\ error' \in [Party -> ErrorKind]
      /\ Extends(inbox[q], inbox'[q]) /\ (held'[p] = 1 => inbox'[p] # << >>)
  BY <1>1, <1>4, <1>6, <1>7
<1> QED
  BY <1>7, <1>8, <1>9, UseKeeps

\* process_read_message for a signaling message.
LEMMA ProcessSignalingStep ==
    ASSUME HandshakeInv, NEW p \in Party, stage[p] = "established", UNCHANGED <<config, stage>>,
           Conn!ProcessSignaling(p)
    PROVE  HandshakeInv'
<1> DEFINE q == Peer(p)
           rest == Tail(inbox[p])
           m == Head(inbox[p]).payload
           r == Conn!process_signaling_message(p, m)
           used == IF r.message # NoMessage THEN after_encrypt(codec[p]) ELSE codec[p]
           c == update_traffic_secrets(used, p, r.secret_update)
           a == encrypt(codec[p], r.message)
           more == IF r.message # NoMessage THEN Append(inbox[q], a) ELSE inbox[q]
<1>1. /\ held[p] = 1 /\ m.type # "Application"
      /\ hs' = [hs EXCEPT ![p] = r.state] /\ commits' = commits + r.made
      /\ error' = [error EXCEPT ![p] = r.error] /\ codec' = [codec EXCEPT ![p] = c]
      /\ inbox' = [x \in Party |-> IF x = p THEN Tail(inbox[x])
                                   ELSE IF r.message # NoMessage THEN Append(inbox[x], a)
                                   ELSE inbox[x]]
      /\ held' = [held EXCEPT ![p] = 0] /\ UNCHANGED <<sent, delivered>>
  BY ConnOperators DEF Conn!ProcessSignaling
<1>2. inbox[p] # << >>
  BY <1>1 DEF HandshakeInv
<1>3. /\ q \in Party /\ q # p /\ codec[p] \in Codec /\ inbox[q] \in Seq(Frame)
      /\ rest \in Seq(Frame) /\ AllRecords(rest) /\ m \in InnerPlaintext
      /\ \A x \in Party : x = p \/ x = q
  BY <1>2, UserFacts
<1>4. /\ codec \in [Party -> Codec]
      /\ sent \in [Party -> 0 .. MaxSends] /\ hs \in [Party -> Handshake]
      /\ held \in [Party -> {0, 1}] /\ delivered \in [Party -> 0 .. MaxSends] /\ commits \in Nat
      /\ error \in [Party -> ErrorKind]
  BY DEF HandshakeInv, TypeOK
<1>5. inbox'[p] = rest /\ inbox'[q] = more
  BY <1>1, <1>3
<1> HIDE DEF m
<1>6. GoodResult(p, r)
  BY <1>1, <1>3, UseHandlers
<1> HIDE DEF r
<1>7. /\ r.state \in Handshake /\ r.made \in Nat /\ r.error \in ErrorKind
      /\ r.secret_update \in SecretUpdates
  BY <1>6 DEF GoodResult, Result
<1>8. IsRecord(a)
  BY <1>3, <1>6 DEF GoodResult
<1>9. used \in Codec
  BY <1>3, CodecType
<1> HIDE DEF used, a
<1>10. c \in Codec
  BY <1>7, <1>9, CodecType
<1>11. Extends(inbox[q], more) /\ more \in Seq(Frame)
  <2>1. Extends(inbox[q], inbox[q])
    BY <1>3 DEF Extends
  <2> QED
    BY <1>3, <1>8, <2>1, ExtendsByOne
<1> HIDE DEF c, more, rest
<1>12. inbox' \in [Party -> Seq(Frame)]
  <2>1. \A x \in Party : inbox'[x] \in Seq(Frame)
    BY <1>3, <1>5, <1>11
  <2>2. inbox' = [x \in Party |-> inbox'[x]]
    BY <1>1
  <2> QED
    BY <2>1, <2>2
<1>13. /\ codec' \in [Party -> Codec] /\ codec'[q] = codec[q]
       /\ held' \in [Party -> {0, 1}] /\ held'[q] = held[q] /\ held'[p] = 0
       /\ error' \in [Party -> ErrorKind]
  BY <1>1, <1>3, <1>4, <1>7, <1>10
<1>14. hs' \in [Party -> Handshake] /\ hs'[p] = r.state /\ hs'[q] = hs[q] /\ commits' \in Nat
  BY <1>1, <1>3, <1>4, <1>7
<1>15. hs'[p].internal_state.tag \in Tag(p) /\ (p = "server" => hs'[p].group.epoch >= 1)
  BY <1>6, <1>14 DEF GoodResult
<1>16. /\ AllRecords(inbox'[p]) /\ Extends(inbox[q], inbox'[q])
       /\ (held'[p] = 1 => inbox'[p] # << >>)
       /\ sent' \in [Party -> 0 .. MaxSends] /\ delivered' \in [Party -> 0 .. MaxSends]
  <2>1. AllRecords(inbox'[p]) /\ Extends(inbox[q], inbox'[q])
    BY <1>3, <1>5, <1>11
  <2>2. held'[p] = 1 => inbox'[p] # << >>
    BY <1>13
  <2>3. sent' \in [Party -> 0 .. MaxSends] /\ delivered' \in [Party -> 0 .. MaxSends]
    BY <1>1, <1>4
  <2> QED
    BY <2>1, <2>2, <2>3
<1> QED
  BY <1>12, <1>13, <1>14, <1>15, <1>16, UseKeeps

\* An operation of the established connection.
LEMMA UseStep ==
    ASSUME HandshakeInv, NEW p \in Party, Use(p)
    PROVE  HandshakeInv'
<1>1. stage[p] = "established" /\ UNCHANGED <<config, stage>>
  BY DEF Use
<1>2. \/ Conn!SendBytes(p) \/ Conn!SendBytesUpdate(p) \/ Conn!ReadMessage(p)
      \/ Conn!ProcessApplication(p) \/ Conn!ProcessSignaling(p)
  BY DEF Use
<1> QED
  BY <1>1, <1>2, SendStep, SendUpdateStep, ReadMessageStep, ProcessApplicationStep,
     ProcessSignalingStep

\* A handshake that ends without one.
LEMMA EndStep ==
    ASSUME HandshakeInv, NEW p \in Party, MisreadFrame(p) \/ PeerGone(p) \/ Drop(p)
    PROVE  HandshakeInv'
<1>1. /\ stage[p] \notin Ended /\ stage' = [stage EXCEPT ![p] = "failed"]
      /\ UNCHANGED <<config, hs, codec, inbox, connection>>
  BY DEF MisreadFrame, PeerGone, Drop, Move, Ended
<1> QED
  BY <1>1, FailStep

\* Every step keeps the invariant.
LEMMA HandshakeSteps == HandshakeInv /\ [Next]_vars => HandshakeInv'
<1> SUFFICES ASSUME HandshakeInv, [Next]_vars PROVE HandshakeInv'
  OBVIOUS
<1>1. CASE PreHandshake
  BY <1>1, NewStep, WriteStep, ReadStep, AnswerStep DEF PreHandshake
<1>2. CASE Hello
  BY <1>2, ClientHelloStep, ServerHelloStep, FinishStep, ReceiveStep DEF Hello
<1>3. CASE \E p \in Party : MisreadFrame(p) \/ PeerGone(p) \/ Drop(p) \/ Use(p)
  BY <1>3, EndStep, UseStep
<1>4. CASE UNCHANGED vars
  BY <1>4
     DEF vars, HandshakeInv, TypeOK, Before, After_hello, Starts, Fresh, toServer, toClient
<1> QED
  BY <1>1, <1>2, <1>3, <1>4 DEF Next

\* The invariant of the handshake: until the server answers the client's hello
\* one message at most is under way to each side, and afterwards both sides
\* have chosen the same, with the server's hello ahead of its records.
THEOREM HandshakeInvariance == Spec => []HandshakeInv
BY HandshakeInit, HandshakeSteps, PTL DEF Spec

\* Every variable has its type, for every choice of pre-handshakes and with
\* any number of operations of the connection.
THEOREM HandshakeTypeCorrect == Spec => []TypeOK
<1>1. HandshakeInv => TypeOK
  BY DEF HandshakeInv
<1> QED
  BY <1>1, HandshakeInvariance, PTL

\* No handshake succeeds against the wrong peer: what client_handshake and
\* server_handshake accept is from a side that chose the same pre-handshake
\* and key, and the client ends with the server that it expects.
THEOREM EstablishedAgree == Spec => []EstablishedTogether
<1>1. HandshakeInv => EstablishedTogether
  <2> SUFFICES ASSUME HandshakeInv PROVE EstablishedTogether
    OBVIOUS
  <2>1. (\E p \in Party : stage[p] = "established") => hs["server"] # Uninitialized /\ After_hello
    BY Parties DEF HandshakeInv, Before
  <2> QED
    BY <2>1, Parties DEF EstablishedTogether, After_hello
<1> QED
  BY <1>1, HandshakeInvariance, PTL

-----------------------------------------------------------------------------
(***************************************************************************)
(* What is seen from the established connection.                           *)
(***************************************************************************)

\* Records as the connection counts them.
Shift(s) == [i \in 1 .. Len(s) |-> FromZero(s[i])]

\* Frames as the connection counts them.
Shifted ==
    [key : Key, seq : Int,
     payload : InnerPlaintext \union {Message(t, k) : t \in HandshakeTypes, k \in {0, 1}}]

\* What travels, seen from there.
LEMMA SeenFrame ==
    ASSUME NEW r \in Frame
    PROVE  /\ FromZero(r) \in Shifted /\ FromZero(r).key = r.key
           /\ FromZero(r).payload = r.payload /\ FromZero(r).seq = r.seq - PreRecords
<1> DEFINE P == InnerPlaintext \union {Message(t, k) : t \in HandshakeTypes, k \in {0, 1}}
<1>1. Frame = [key : Key, seq : Nat, payload : P] /\ Shifted = [key : Key, seq : Int, payload : P]
  BY DEF Frame, Shifted
<1> HIDE DEF P
<1>2. PreRecords \in Int
  BY DEF PreRecords
<1> HIDE DEF PreRecords
<1>3. r.seq - PreRecords \in Int
  BY <1>1, <1>2
<1> QED
  BY <1>1, <1>3 DEF FromZero

\* Sequences of them.
LEMMA ShiftFacts ==
    ASSUME NEW s \in Seq(Frame)
    PROVE  /\ Shift(s) \in Seq(Shifted) /\ Len(Shift(s)) = Len(s)
           /\ \A i \in 1 .. Len(s) : Shift(s)[i] = FromZero(s[i])
           /\ Shift(s) = << >> <=> s = << >>
<1> DEFINE u == Shift(s)
           n == Len(s)
<1>1. n \in Nat /\ \A i \in 1 .. n : s[i] \in Frame
  BY LenProperties, ElementOfSeq
<1>2. \A i \in 1 .. n : FromZero(s[i]) \in Shifted
  BY <1>1, SeenFrame
<1>3. u = [i \in 1 .. n |-> FromZero(s[i])]
  BY DEF Shift
<1> HIDE DEF n
<1>4. u \in [1 .. n -> Shifted] /\ \A i \in 1 .. n : u[i] = FromZero(s[i])
  BY <1>2, <1>3
<1> HIDE DEF u
<1>5. u \in Seq(Shifted) /\ Len(u) = n
  <2>1. DOMAIN u = 1 .. n
    BY <1>3
  <2> QED
    BY <1>1, <1>4, <2>1, SeqDef, LenProperties
<1>6. u = << >> <=> s = << >>
  <2>1. Len(u) = 0 <=> u = << >>
    BY <1>5, EmptySeq
  <2>2. n = 0 <=> s = << >>
    BY EmptySeq DEF n
  <2> QED
    BY <1>5, <2>1, <2>2
<1> QED
  BY <1>4, <1>5, <1>6 DEF u, n

\* A frame is appended.
LEMMA ShiftAppend ==
    ASSUME NEW s \in Seq(Frame), NEW a \in Frame
    PROVE  Shift(Append(s, a)) = Append(Shift(s), FromZero(a))
<1> DEFINE t == Append(s, a)
           z == FromZero(a)
           u == Shift(s)
           v == Append(u, z)
           w == Shift(t)
           n == Len(s)
<1>1. /\ t \in Seq(Frame) /\ Len(t) = n + 1 /\ n \in Nat /\ t[n + 1] = a
      /\ \A i \in 1 .. n : t[i] = s[i]
  BY FrameAppend
<1>2. u \in Seq(Shifted) /\ Len(u) = n /\ \A i \in 1 .. n : u[i] = FromZero(s[i])
  BY ShiftFacts
<1>3. z \in Shifted
  BY SeenFrame
<1> HIDE DEF t, u
<1>4. w \in Seq(Shifted) /\ Len(w) = n + 1 /\ \A i \in 1 .. n + 1 : w[i] = FromZero(t[i])
  BY <1>1, ShiftFacts
<1> HIDE DEF z
<1>5. /\ v \in Seq(Shifted) /\ Len(v) = n + 1 /\ v[n + 1] = z
      /\ \A i \in 1 .. n : v[i] = u[i]
  BY <1>2, <1>3, AppendProperties
<1> HIDE DEF w, v, n
<1>6. ASSUME NEW i \in 1 .. n + 1 PROVE v[i] = w[i]
  <2>1. CASE i = n + 1
    BY <1>1, <1>4, <1>5, <2>1 DEF z
  <2>2. CASE i # n + 1
    <3>1. i \in 1 .. n
      BY <1>1, <2>2
    <3> QED
      BY <1>1, <1>2, <1>4, <1>5, <3>1
  <2> QED
    BY <2>1, <2>2
<1>7. v = w
  BY <1>4, <1>5, <1>6, SeqEqual
<1> QED
  BY <1>7 DEF t, u, v, w, z

\* The first frame is taken.
LEMMA ShiftTail ==
    ASSUME NEW s \in Seq(Frame), s # << >>
    PROVE  /\ Shift(Tail(s)) = Tail(Shift(s)) /\ Head(Shift(s)) = FromZero(Head(s))
           /\ Shift(s) # << >>
<1> DEFINE t == Tail(s)
           u == Shift(s)
           v == Tail(u)
           w == Shift(t)
           n == Len(s)
<1>1. /\ n \in Nat /\ n >= 1 /\ Head(s) = s[1] /\ t \in Seq(Frame)
      /\ Len(t) = n - 1 /\ \A i \in 1 .. n - 1 : t[i] = s[i + 1]
  BY FrameHeadTail
<1>2. u \in Seq(Shifted) /\ Len(u) = n /\ u # << >> /\ \A i \in 1 .. n : u[i] = FromZero(s[i])
  BY ShiftFacts
<1> HIDE DEF t, u
<1>3. w \in Seq(Shifted) /\ Len(w) = n - 1 /\ \A i \in 1 .. n - 1 : w[i] = FromZero(t[i])
  BY <1>1, ShiftFacts
<1>4. /\ Head(u) = u[1] /\ v \in Seq(Shifted) /\ Len(v) = n - 1
      /\ \A i \in 1 .. n - 1 : v[i] = u[i + 1]
  BY <1>2, HeadTailProperties
<1> HIDE DEF w, v, n
<1>5. ASSUME NEW i \in 1 .. n - 1 PROVE v[i] = w[i]
  <2> DEFINE j == i + 1
  <2>1. j \in 1 .. n
    BY <1>1
  <2>2. v[i] = u[j] /\ t[i] = s[j]
    BY <1>1, <1>4
  <2> HIDE DEF j
  <2> QED
    BY <1>2, <1>3, <2>1, <2>2
<1>6. v = w
  BY <1>3, <1>4, <1>5, SeqEqual
<1>7. Head(u) = FromZero(Head(s))
  BY <1>1, <1>2, <1>4
<1> QED
  BY <1>2, <1>6, <1>7 DEF t, u, v, w

\* The records of a stream, behind a message of the handshake.
Behind(s) ==
    IF s # << >> /\ Head(s).payload.type \in HandshakeTypes THEN Tail(s) ELSE s

\* Without one it is all records; and nothing but one has none.
LEMMA BehindFacts ==
    ASSUME NEW s \in Seq(Frame)
    PROVE  /\ Behind(s) \in Seq(Frame)
           /\ AllRecords(s) => Behind(s) = s
           /\ Behind(<< >>) = << >>
           /\ Len(s) <= 1 /\ (s # << >> => s[1].payload.type \in HandshakeTypes) => Behind(s) = << >>
<1>1. s # << >> => Head(s) = s[1] /\ Tail(s) \in Seq(Frame) /\ 1 \in 1 .. Len(s)
  BY FrameHeadTail
<1>2. s # << >> /\ AllRecords(s) => s[1].payload.type \notin HandshakeTypes
  BY <1>1, FrameFacts DEF AllRecords
<1>3. s # << >> /\ Len(s) <= 1 => Tail(s) = << >>
  BY NoneLeft
<1> QED
  BY <1>1, <1>2, <1>3 DEF Behind

\* What is appended behind it is appended to the records.
LEMMA BehindAppend ==
    ASSUME NEW s \in Seq(Frame), NEW a, IsRecord(a)
    PROVE  Append(s, a) \in Seq(Frame) /\ Behind(Append(s, a)) = Append(Behind(s), a)
<1> DEFINE t == Append(s, a)
           n == Len(s)
<1>1. a \in Frame /\ a.payload.type \notin HandshakeTypes
  BY FrameFacts
<1>2. /\ t \in Seq(Frame) /\ t # << >> /\ Len(t) = n + 1 /\ n \in Nat /\ t[n + 1] = a
      /\ \A i \in 1 .. n : t[i] = s[i]
  BY <1>1, FrameAppend
<1> HIDE DEF t
<1>3. Head(t) = t[1] /\ Tail(t) \in Seq(Frame) /\ Len(Tail(t)) = Len(t) - 1
      /\ \A i \in 1 .. Len(t) - 1 : Tail(t)[i] = t[i + 1]
  BY <1>2, FrameHeadTail
<1>4. CASE s = << >>
  <2>1. n = 0
    BY <1>4
  <2>2. Head(t) = a
    BY <1>2, <1>3, <2>1
  <2>3. Behind(t) = t /\ Behind(s) = s
    BY <1>1, <1>4, <2>2 DEF Behind
  <2> QED
    BY <1>2, <2>3 DEF t
<1>5. CASE s # << >>
  <2> DEFINE u == Tail(s)
             v == Append(u, a)
             w == Tail(t)
  <2>1. /\ n >= 1 /\ Head(s) = s[1] /\ u \in Seq(Frame) /\ Len(u) = n - 1
        /\ \A i \in 1 .. n - 1 : u[i] = s[i + 1]
    BY <1>5, FrameHeadTail
  <2>2. Head(t) = Head(s)
    BY <1>2, <1>3, <2>1
  <2> HIDE DEF u
  <2>3. /\ v \in Seq(Frame) /\ Len(v) = (n - 1) + 1 /\ v[(n - 1) + 1] = a
        /\ \A i \in 1 .. n - 1 : v[i] = u[i]
    BY <1>1, <2>1, FrameAppend
  <2>4. w \in Seq(Frame) /\ Len(w) = n /\ \A i \in 1 .. n : w[i] = t[i + 1]
    BY <1>2, <1>3
  <2> HIDE DEF v, w, n
  <2>5. (n - 1) + 1 = n
    BY <1>2
  <2>6. ASSUME NEW i \in 1 .. n PROVE v[i] = w[i]
    <3> DEFINE j == i + 1
    <3>1. CASE i = n
      BY <1>2, <2>3, <2>4, <2>5, <3>1
    <3>2. CASE i # n
      <4>1. i \in 1 .. n - 1 /\ j \in 1 .. n
        BY <1>2, <3>2
      <4>2. v[i] = u[i] /\ u[i] = s[j] /\ w[i] = t[j]
        BY <2>1, <2>3, <2>4, <4>1
      <4> HIDE DEF j
      <4> QED
        BY <1>2, <4>1, <4>2
    <3> QED
      BY <3>1, <3>2
  <2>7. v = w
    BY <2>3, <2>4, <2>5, <2>6, SeqEqual
  <2>8. Tail(t) = Append(Tail(s), a)
    BY <2>7 DEF v, w, u
  <2> QED
    BY <1>2, <1>5, <2>2, <2>8 DEF Behind, t
<1> QED
  BY <1>4, <1>5

\* The channels of the connection.
LEMMA SeenInboxes ==
    /\ inboxes = [p \in Party |-> Shift(Behind(inbox[p]))]
    /\ config' = config => inboxes' = [p \in Party |-> Shift(Behind(inbox'[p]))]
BY DEF inboxes, Records, Shift, Behind, FromZero, PreRecords

\* A step that changes nothing of them.
LEMMA SeenSame ==
    ASSUME config' = config, \A p \in Party : Behind(inbox'[p]) = Behind(inbox[p])
    PROVE  inboxes' = inboxes
BY SeenInboxes

\* A codec as the connection counts.
Zero(c) == [c EXCEPT !.send_seq = @ - PreRecords, !.recv_seq = @ - PreRecords]

\* A codec is its keys and its numbers.
LEMMA SameCodec ==
    ASSUME NEW c \in Codec, NEW d \in Codec, c.send_key = d.send_key, c.recv_key = d.recv_key,
           c.send_seq = d.send_seq, c.recv_seq = d.recv_seq
    PROVE  c = d
BY DEF Codec

\* A codec that enters the connection is a new one there.
LEMMA ZeroNew ==
    ASSUME NEW p \in Party, NEW c \in Codec,
           c.send_key = expand_secret(create_server_session.secret, p),
           c.recv_key = expand_secret(create_server_session.secret, Peer(p)),
           c.send_seq = PreRecords, c.recv_seq = PreRecords
    PROVE  Zero(c) = new_codec(p, create_server_session.secret, 0)
<1> DEFINE d == new_codec(p, create_server_session.secret, 0)
           e == [c EXCEPT !.send_seq = 0, !.recv_seq = 0]
<1>1. c.send_seq - PreRecords = 0 /\ c.recv_seq - PreRecords = 0
  BY DEF PreRecords
<1>2. Zero(c) = e
  BY <1>1 DEF Zero
<1>3. /\ e \in Codec /\ e.send_key = c.send_key /\ e.recv_key = c.recv_key
      /\ e.send_seq = 0 /\ e.recv_seq = 0
  BY DEF Codec
<1>4. /\ d \in Codec /\ d.send_seq = 0 /\ d.recv_seq = 0
      /\ d.send_key = expand_secret(create_server_session.secret, p)
      /\ d.recv_key = expand_secret(create_server_session.secret, Peer(p))
  BY NewCodec, SecretFacts
<1> HIDE DEF d, e
<1>5. e = d
  BY <1>3, <1>4, SameCodec
<1> QED
  BY <1>2, <1>5 DEF d

\* A step that cannot be seen from the connection.
LEMMA SameView ==
    ASSUME UNCHANGED <<config, connection>>,
           \A p \in Party :
               /\ Behind(inbox'[p]) = Behind(inbox[p])
               /\ states'[p] = states[p] /\ codecs'[p] = codecs[p]
    PROVE  UNCHANGED Established!vars
<1>1. inboxes' = inboxes
  BY SeenSame
<1>2. states' = states
  BY DEF states
<1>3. codecs' = codecs
  BY DEF codecs
<1> QED
  BY <1>1, <1>2, <1>3 DEF Established!vars, connection

\* Before the server's answer nothing can be seen.
LEMMA UnseenBefore ==
    ASSUME HandshakeInv, HandshakeInv', UNCHANGED <<config, connection>>,
           hs["server"] = Uninitialized, hs'["server"] = Uninitialized
    PROVE  UNCHANGED Established!vars
<1>1. Before /\ Before'
  BY DEF HandshakeInv
<1>2. /\ inbox \in [Party -> Seq(Frame)] /\ inbox' \in [Party -> Seq(Frame)]
  BY DEF HandshakeInv, TypeOK
<1>3. ASSUME NEW p \in Party
      PROVE  Behind(inbox'[p]) = Behind(inbox[p])
  <2>1. /\ Len(inbox[p]) <= 1 /\ (inbox[p] # << >> => inbox[p][1].payload.type \in HandshakeTypes)
    BY <1>1, Parties DEF Before, toServer, toClient, Starts, HandshakeTypes
  <2>2. /\ Len(inbox'[p]) <= 1 /\ (inbox'[p] # << >> => inbox'[p][1].payload.type \in HandshakeTypes)
    BY <1>1, Parties DEF Before, toServer, toClient, Starts, HandshakeTypes
  <2>3. Behind(inbox[p]) = << >> /\ Behind(inbox'[p]) = << >>
    BY <1>2, <2>1, <2>2, BehindFacts
  <2> QED
    BY <2>3
<1>4. ASSUME NEW p \in Party
      PROVE  states'[p] = states[p] /\ codecs'[p] = codecs[p]
  <2>1. stage[p] # "established" /\ stage'[p] # "established"
    BY <1>1, Parties DEF Before
  <2> QED
    BY <2>1 DEF states, codecs
<1> QED
  BY <1>3, <1>4, SameView

\* Nor can the end of a handshake that fails.
LEMMA UnseenEnd ==
    ASSUME HandshakeInv, NEW p \in Party, MisreadFrame(p) \/ PeerGone(p) \/ Drop(p)
    PROVE  UNCHANGED Established!vars
<1>1. /\ stage[p] # "established" /\ stage' = [stage EXCEPT ![p] = "failed"]
      /\ UNCHANGED <<config, hs, codec, inbox, connection>>
  BY DEF MisreadFrame, PeerGone, Drop, Move, Ended
<1>2. stage \in [Party -> Stages]
  BY DEF HandshakeInv, TypeOK, Stages
<1>3. \A q \in Party : stage'[q] = "established" <=> stage[q] = "established"
  BY <1>1, <1>2
<1>4. \A q \in Party : states'[q] = states[q] /\ codecs'[q] = codecs[q]
  BY <1>1, <1>3 DEF states, codecs, PreRecords
<1> QED
  BY <1>1, <1>4, SameView

\* server_handshake returns: the server's codec is that of a new connection.
LEMMA UnseenFinish ==
    ASSUME HandshakeInv, HandshakeInv', FinishServer
    PROVE  UNCHANGED Established!vars
<1> DEFINE c == enter_connection("server", codec["server"])
<1>1. /\ Move("server", "answered", "established") /\ UNCHANGED <<config, hs, inbox, connection>>
      /\ codec' = [codec EXCEPT !["server"] = c]
  BY DEF FinishServer
<1>2. /\ stage["server"] = "answered" /\ stage'["server"] = "established"
      /\ stage'["client"] = stage["client"]
  BY <1>1, MoveFacts, Parties DEF Stages, Ended
<1>3. /\ config.method["client"] = config.method["server"] /\ hs["server"] = server_start
      /\ codec["server"].send_seq = 1 /\ codec["server"].recv_seq = 1
  BY <1>2 DEF HandshakeInv, Before, After_hello
<1>4. codec \in [Party -> Codec]
  BY DEF HandshakeInv, TypeOK
<1>5. /\ c \in Codec /\ c.send_key = expand_secret(create_server_session.secret, "server")
      /\ c.recv_key = expand_secret(create_server_session.secret, Peer("server"))
      /\ c.send_seq = PreRecords /\ c.recv_seq = PreRecords
  BY <1>3, <1>4, EnterFacts, Parties DEF PreRecords
<1> HIDE DEF c
<1>6. Zero(c) = new_codec("server", create_server_session.secret, 0)
  BY <1>5, ZeroNew, Parties
<1>7. codec'["server"] = c /\ codec'["client"] = codec["client"]
  BY <1>1, <1>4, Parties
<1>8. codecs'["server"] = codecs["server"]
  BY <1>1, <1>2, <1>6, <1>7, Parties DEF codecs, Zero, PreRecords
<1>9. codecs'["client"] = codecs["client"]
  BY <1>1, <1>2, <1>7, Parties DEF codecs, PreRecords
<1>10. states'["server"] = states["server"] /\ states'["client"] = states["client"]
  BY <1>1, <1>2, <1>3, Parties DEF states
<1> QED
  BY <1>1, <1>8, <1>9, <1>10, SameView, Parties

\* client_handshake gets the server's hello, which was ahead of the records:
\* whether it accepts it cannot be seen.
LEMMA UnseenReceive ==
    ASSUME HandshakeInv, HandshakeInv', ReceiveServerHello
    PROVE  UNCHANGED Established!vars
<1> DEFINE t == Tail(inbox["client"])
           e == after_decrypt(codec["client"])
           c == enter_connection("client", e)
<1>1. /\ HasFrame("client") /\ UNCHANGED <<config, connection>>
      /\ inbox' = [inbox EXCEPT !["client"] = t]
  BY DEF ReceiveServerHello
<1>2. \/ /\ Move("client", "wait", "established")
         /\ hs' = [hs EXCEPT !["client"] = client_start]
         /\ codec' = [codec EXCEPT !["client"] = c]
      \/ /\ Move("client", "wait", "failed")
         /\ UNCHANGED <<hs, codec>>
  BY DEF ReceiveServerHello
<1>3. /\ stage["client"] = "wait" /\ stage'["server"] = stage["server"]
  BY <1>2, MoveFacts, Parties DEF Stages, Ended
<1>4. codec \in [Party -> Codec] /\ inbox \in [Party -> Seq(Frame)] /\ hs \in [Party -> Handshake]
  BY DEF HandshakeInv, TypeOK
<1>5. inbox["client"] # << >> /\ IsFrame(Head(inbox["client"]))
  BY <1>1 DEF HasFrame
<1>6. Head(inbox["client"]) = inbox["client"][1] /\ t \in Seq(Frame) /\ AllRecords(t)
  BY <1>5, RecordsBehind, Parties
<1>7. After_hello
  <2>1. ~Before
    BY <1>5, <1>6 DEF IsFrame, Before, Starts, toClient
  <2> QED
    BY <2>1 DEF HandshakeInv
<1>8. /\ Head(inbox["client"]).payload.type \in HandshakeTypes
      /\ codec["client"].send_seq = 1 /\ codec["client"].recv_seq = 0
  BY <1>3, <1>6, <1>7, HelloFacts DEF After_hello, toClient, HandshakeTypes
<1>9. Behind(inbox["client"]) = t
  BY <1>5, <1>8 DEF Behind
<1>10. Behind(t) = t
  BY <1>6, BehindFacts
<1> HIDE DEF t
<1>11. inbox'["client"] = t /\ inbox'["server"] = inbox["server"]
  BY <1>1, <1>4, Parties
<1>12. \A p \in Party : Behind(inbox'[p]) = Behind(inbox[p])
  BY <1>9, <1>10, <1>11, Parties
<1>13. e \in Codec /\ e.send_seq = 1 /\ e.recv_seq = 1
  BY <1>4, <1>8, CodecType, CodecCounts, Parties
<1> HIDE DEF e
<1>14. /\ c \in Codec /\ c.send_key = expand_secret(create_server_session.secret, "client")
       /\ c.recv_key = expand_secret(create_server_session.secret, Peer("client"))
       /\ c.send_seq = PreRecords /\ c.recv_seq = PreRecords
  BY <1>13, EnterFacts, Parties DEF PreRecords
<1> HIDE DEF c
<1>15. Zero(c) = new_codec("client", create_server_session.secret, 0)
  BY <1>14, ZeroNew, Parties
<1>16. CASE /\ Move("client", "wait", "established")
            /\ hs' = [hs EXCEPT !["client"] = client_start]
            /\ codec' = [codec EXCEPT !["client"] = c]
  <2>1. stage'["client"] = "established"
    BY <1>16, MoveFacts, Parties DEF Stages, Ended
  <2>2. /\ codec'["client"] = c /\ codec'["server"] = codec["server"]
        /\ hs'["client"] = client_start /\ hs'["server"] = hs["server"]
    BY <1>4, <1>16, Parties
  <2>3. codecs'["client"] = codecs["client"]
    BY <1>1, <1>3, <1>15, <2>1, <2>2, Parties DEF codecs, Zero, PreRecords
  <2>4. codecs'["server"] = codecs["server"]
    BY <1>1, <1>3, <2>2, Parties DEF codecs, PreRecords
  <2>5. states'["server"] = states["server"] /\ states'["client"] = states["client"]
    BY <1>3, <2>1, <2>2, Parties DEF states
  <2> QED
    BY <1>1, <1>12, <2>3, <2>4, <2>5, SameView, Parties
<1>17. CASE Move("client", "wait", "failed") /\ UNCHANGED <<hs, codec>>
  <2>1. stage'["client"] = "failed"
    BY <1>17, MoveFacts, Parties DEF Stages, Ended
  <2>2. \A p \in Party : states'[p] = states[p] /\ codecs'[p] = codecs[p]
    BY <1>1, <1>3, <1>17, <2>1, Parties DEF states, codecs, PreRecords
  <2> QED
    BY <1>1, <1>12, <2>2, SameView
<1> QED
  BY <1>2, <1>16, <1>17

\* The server's answer: the client's hello was all there was, and the server's
\* is all there is.
LEMMA UnseenAnswer ==
    ASSUME HandshakeInv, HandshakeInv', AnswerClientHello
    PROVE  UNCHANGED Established!vars
<1> DEFINE a == encrypt(after_decrypt(codec["server"]), ServerHello)
           hello == Append(<< >>, a)
<1>1. HasFrame("server") /\ UNCHANGED <<config, connection>>
  BY DEF AnswerClientHello
<1>2. \/ /\ Opens("server", "ClientHello") /\ Move("server", "connected", "answered")
         /\ hs' = [hs EXCEPT !["server"] = server_start]
         /\ inbox' = [inbox EXCEPT !["server"] = Tail(@), !["client"] = Append(@, a)]
      \/ Move("server", "connected", "failed") /\ UNCHANGED hs
  BY DEF AnswerClientHello
<1>3. stage["server"] = "connected" /\ stage'["client"] = stage["client"]
  BY <1>2, MoveFacts, Parties DEF Stages, Ended
<1>4. hs["server"] = Uninitialized /\ Before
  BY <1>3, NewIsBefore, Parties
<1>5. CASE Move("server", "connected", "failed") /\ UNCHANGED hs
  BY <1>1, <1>4, <1>5, UnseenBefore
<1>6. CASE /\ Opens("server", "ClientHello") /\ Move("server", "connected", "answered")
           /\ hs' = [hs EXCEPT !["server"] = server_start]
           /\ inbox' = [inbox EXCEPT !["server"] = Tail(@), !["client"] = Append(@, a)]
  <2>1. inbox \in [Party -> Seq(Frame)] /\ codec \in [Party -> Codec]
    BY DEF HandshakeInv, TypeOK
  <2>2. inbox["server"] # << >> /\ Head(inbox["server"]).payload.type = "ClientHello"
    BY <1>1, <1>6 DEF HasFrame, Opens
  <2>3. Tail(inbox["server"]) = << >> /\ Head(inbox["server"]) = inbox["server"][1]
    BY <1>4, <2>1, <2>2, NoneLeft, Parties DEF Before
  <2>4. inbox["client"] = << >>
    BY <1>4, <2>2, <2>3 DEF Before, Starts, toClient
  <2>5. a \in Frame /\ a.payload = ServerHello
    BY <2>1, CodecType, FrameFacts, Parties
  <2> HIDE DEF a
  <2>6. hello \in Seq(Frame) /\ hello # << >> /\ Len(hello) <= 1 /\ hello[1] = a
    <3>1. hello \in Seq(Frame) /\ hello # << >> /\ Len(hello) = 1 /\ hello[1] = a
      BY <2>5, OneFrame
    <3> HIDE DEF hello
    <3> QED
      BY <3>1
  <2>7. inbox'["server"] = << >> /\ inbox'["client"] = hello
    BY <1>6, <2>1, <2>3, <2>4, Parties
  <2> HIDE DEF hello
  <2>8. /\ Behind(hello) = << >> /\ Behind(inbox["server"]) = << >> /\ Behind(<< >>) = << >>
    <3>1. a.payload.type \in HandshakeTypes
      BY <2>5, HelloFacts DEF HandshakeTypes
    <3>2. Behind(hello) = << >>
      BY <2>6, <3>1, BehindFacts
    <3>3. Behind(inbox["server"]) = << >>
      BY <2>2, <2>3 DEF Behind, HandshakeTypes
    <3>4. Behind(<< >>) = << >>
      BY DEF Behind
    <3> QED
      BY <3>2, <3>3, <3>4
  <2>9. \A p \in Party : Behind(inbox'[p]) = Behind(inbox[p])
    BY <2>4, <2>7, <2>8, Parties
  <2>10. stage'["server"] = "answered" /\ stage["client"] # "established"
    BY <1>4, <1>6, MoveFacts, Parties DEF Before, Stages, Ended
  <2>11. \A p \in Party : states'[p] = states[p] /\ codecs'[p] = codecs[p]
    BY <1>3, <2>10, Parties DEF states, codecs
  <2> QED
    BY <1>1, <2>9, <2>11, SameView
<1> QED
  BY <1>2, <1>5, <1>6

\* No step of the handshake can be seen from the connection.
LEMMA Unseen ==
    ASSUME HandshakeInv, HandshakeInv',
           PreHandshake \/ Hello \/ \E p \in Party : MisreadFrame(p) \/ PeerGone(p) \/ Drop(p)
    PROVE  UNCHANGED Established!vars
<1>1. CASE PreHandshake \/ SendClientHello
  <2>1. UNCHANGED <<config, hs, connection>>
    BY <1>1 DEF PreHandshake, NewFromStream, PskHandshake, X25519Write, X25519Read, X25519Answer,
                SendClientHello
  <2>2. \/ \E p \in Party : stage[p] \in {"new", "connected"}
        \/ stage["client"] = "pre"
    BY <1>1, Parties
       DEF PreHandshake, NewFromStream, PskHandshake, X25519Write, X25519Read, X25519Answer,
           SendClientHello, Move
  <2>3. hs["server"] = Uninitialized
    BY <2>2, NewIsBefore
  <2> QED
    BY <2>1, <2>3, UnseenBefore
<1>2. CASE AnswerClientHello
  BY <1>2, UnseenAnswer
<1>3. CASE FinishServer
  BY <1>3, UnseenFinish
<1>4. CASE ReceiveServerHello
  BY <1>4, UnseenReceive
<1>5. CASE \E p \in Party : MisreadFrame(p) \/ PeerGone(p) \/ Drop(p)
  BY <1>5, UnseenEnd
<1> QED
  BY <1>1, <1>2, <1>3, <1>4, <1>5 DEF Hello

-----------------------------------------------------------------------------
(***************************************************************************)
(* Use of the connection is an operation of EncryptionProvider.            *)
(***************************************************************************)

\* Codecs as the connection counts.
ShiftedCodec == [send_key : Key, recv_key : Key, send_seq : Int, recv_seq : Int]

\* Such a codec, too, is its keys and its numbers.
LEMMA SameShifted ==
    ASSUME NEW c \in ShiftedCodec, NEW d \in ShiftedCodec,
           c.send_key = d.send_key, c.recv_key = d.recv_key,
           c.send_seq = d.send_seq, c.recv_seq = d.recv_seq
    PROVE  c = d
BY DEF ShiftedCodec

\* What the operators do to such a codec.
LEMMA ShiftedFacts ==
    ASSUME NEW p \in Party, NEW c \in ShiftedCodec
    PROVE  /\ after_encrypt(c) \in ShiftedCodec
           /\ after_encrypt(c).send_key = c.send_key /\ after_encrypt(c).recv_key = c.recv_key
           /\ after_encrypt(c).send_seq = c.send_seq + 1 /\ after_encrypt(c).recv_seq = c.recv_seq
           /\ after_decrypt(c) \in ShiftedCodec
           /\ after_decrypt(c).send_key = c.send_key /\ after_decrypt(c).recv_key = c.recv_key
           /\ after_decrypt(c).send_seq = c.send_seq /\ after_decrypt(c).recv_seq = c.recv_seq + 1
           /\ \A u \in SecretUpdates :
                /\ update_traffic_secrets(c, p, u) \in ShiftedCodec
                /\ update_traffic_secrets(c, p, u).send_seq = c.send_seq
                /\ update_traffic_secrets(c, p, u).recv_seq = c.recv_seq
                /\ update_traffic_secrets(c, p, u).send_key =
                     IF u.kind \in {own_kind(p), "Both"} THEN expand_secret(u.secret, p)
                     ELSE c.send_key
                /\ update_traffic_secrets(c, p, u).recv_key =
                     IF u.kind \in {own_kind(Peer(p)), "Both"} THEN expand_secret(u.secret, Peer(p))
                     ELSE c.recv_key
<1>1. /\ after_encrypt(c) \in ShiftedCodec
      /\ after_encrypt(c).send_key = c.send_key /\ after_encrypt(c).recv_key = c.recv_key
      /\ after_encrypt(c).send_seq = c.send_seq + 1 /\ after_encrypt(c).recv_seq = c.recv_seq
  BY DEF after_encrypt, ShiftedCodec
<1>2. /\ after_decrypt(c) \in ShiftedCodec
      /\ after_decrypt(c).send_key = c.send_key /\ after_decrypt(c).recv_key = c.recv_key
      /\ after_decrypt(c).send_seq = c.send_seq /\ after_decrypt(c).recv_seq = c.recv_seq + 1
  BY DEF after_decrypt, ShiftedCodec
<1>3. ASSUME NEW u \in SecretUpdates
      PROVE  /\ update_traffic_secrets(c, p, u) \in ShiftedCodec
             /\ update_traffic_secrets(c, p, u).send_seq = c.send_seq
             /\ update_traffic_secrets(c, p, u).recv_seq = c.recv_seq
             /\ update_traffic_secrets(c, p, u).send_key =
                  IF u.kind \in {own_kind(p), "Both"} THEN expand_secret(u.secret, p)
                  ELSE c.send_key
             /\ update_traffic_secrets(c, p, u).recv_key =
                  IF u.kind \in {own_kind(Peer(p)), "Both"} THEN expand_secret(u.secret, Peer(p))
                  ELSE c.recv_key
  <2> DEFINE k == IF u.kind \in {own_kind(p), "Both"} THEN expand_secret(u.secret, p)
                  ELSE c.send_key
             l == IF u.kind \in {own_kind(Peer(p)), "Both"} THEN expand_secret(u.secret, Peer(p))
                  ELSE c.recv_key
  <2>1. u.secret \in Nat
    BY DEF SecretUpdates
  <2>2. expand_secret(u.secret, p) \in Key /\ expand_secret(u.secret, Peer(p)) \in Key
    BY <2>1, PeerFacts DEF expand_secret, Key
  <2>3. k \in Key /\ l \in Key
    BY <2>2 DEF ShiftedCodec
  <2>4. update_traffic_secrets(c, p, u) = [c EXCEPT !.send_key = k, !.recv_key = l]
    BY DEF update_traffic_secrets
  <2> HIDE DEF k, l
  <2>5. /\ [c EXCEPT !.send_key = k, !.recv_key = l] \in ShiftedCodec
        /\ [c EXCEPT !.send_key = k, !.recv_key = l].send_key = k
        /\ [c EXCEPT !.send_key = k, !.recv_key = l].recv_key = l
        /\ [c EXCEPT !.send_key = k, !.recv_key = l].send_seq = c.send_seq
        /\ [c EXCEPT !.send_key = k, !.recv_key = l].recv_seq = c.recv_seq
    BY <2>3 DEF ShiftedCodec
  <2> QED
    BY <2>4, <2>5 DEF k, l
<1> QED
  BY <1>1, <1>2, <1>3

\* The connection counts from zero, in every record and codec alike.
LEMMA ZeroCommutes ==
    ASSUME NEW p \in Party, NEW c \in Codec
    PROVE  /\ Zero(after_encrypt(c)) = after_encrypt(Zero(c))
           /\ Zero(after_decrypt(c)) = after_decrypt(Zero(c))
           /\ \A u \in SecretUpdates :
                Zero(update_traffic_secrets(c, p, u)) = update_traffic_secrets(Zero(c), p, u)
           /\ \A m : encrypt(Zero(c), m) = FromZero(encrypt(c, m))
           /\ \A r \in Frame : decrypt(Zero(c), FromZero(r)) = decrypt(c, r)
<1>0. PreRecords \in Int
  BY DEF PreRecords
<1> HIDE DEF PreRecords
<1>1. \A d \in Codec : d \in ShiftedCodec /\ d.send_seq \in Nat /\ d.recv_seq \in Nat
  BY DEF Codec, ShiftedCodec
<1>2. ASSUME NEW d \in Codec
      PROVE  /\ Zero(d) \in ShiftedCodec
             /\ Zero(d).send_key = d.send_key /\ Zero(d).recv_key = d.recv_key
             /\ Zero(d).send_seq = d.send_seq - PreRecords
             /\ Zero(d).recv_seq = d.recv_seq - PreRecords
  <2> DEFINE m == d.send_seq - PreRecords
             n == d.recv_seq - PreRecords
  <2>1. m \in Int /\ n \in Int
    BY <1>0, <1>1
  <2>2. Zero(d) = [d EXCEPT !.send_seq = m, !.recv_seq = n]
    BY DEF Zero
  <2> HIDE DEF m, n
  <2>3. /\ [d EXCEPT !.send_seq = m, !.recv_seq = n] \in ShiftedCodec
        /\ [d EXCEPT !.send_seq = m, !.recv_seq = n].send_key = d.send_key
        /\ [d EXCEPT !.send_seq = m, !.recv_seq = n].recv_key = d.recv_key
        /\ [d EXCEPT !.send_seq = m, !.recv_seq = n].send_seq = m
        /\ [d EXCEPT !.send_seq = m, !.recv_seq = n].recv_seq = n
    BY <2>1 DEF Codec, ShiftedCodec
  <2> QED
    BY <2>2, <2>3 DEF m, n
<1>3. \A i \in Nat : (i + 1) - PreRecords = (i - PreRecords) + 1
  BY <1>0
<1>4. /\ after_encrypt(c) \in Codec /\ after_decrypt(c) \in Codec
      /\ \A u \in SecretUpdates : update_traffic_secrets(c, p, u) \in Codec
  BY CodecType
<1> DEFINE z == Zero(c)
<1>5. /\ z \in ShiftedCodec /\ c \in ShiftedCodec
      /\ z.send_key = c.send_key /\ z.recv_key = c.recv_key
      /\ z.send_seq = c.send_seq - PreRecords /\ z.recv_seq = c.recv_seq - PreRecords
      /\ c.send_seq \in Nat /\ c.recv_seq \in Nat
  BY <1>1, <1>2
<1> HIDE DEF z
<1>6. Zero(after_encrypt(c)) = after_encrypt(z)
  <2> DEFINE d == after_encrypt(c)
             x == Zero(d)
             y == after_encrypt(z)
  <2>1. /\ d.send_key = c.send_key /\ d.recv_key = c.recv_key
        /\ d.send_seq = c.send_seq + 1 /\ d.recv_seq = c.recv_seq /\ d \in Codec
    BY <1>4, <1>5, ShiftedFacts
  <2>2. /\ y \in ShiftedCodec /\ y.send_key = z.send_key /\ y.recv_key = z.recv_key
        /\ y.send_seq = z.send_seq + 1 /\ y.recv_seq = z.recv_seq
    BY <1>5, ShiftedFacts
  <2> HIDE DEF d, y
  <2>3. /\ x \in ShiftedCodec /\ x.send_key = d.send_key /\ x.recv_key = d.recv_key
        /\ x.send_seq = d.send_seq - PreRecords /\ x.recv_seq = d.recv_seq - PreRecords
    BY <1>2, <2>1
  <2> HIDE DEF x
  <2>4. x.send_seq = y.send_seq
    BY <1>3, <1>5, <2>1, <2>2, <2>3
  <2>5. x = y
    BY <1>5, <2>1, <2>2, <2>3, <2>4, SameShifted
  <2> QED
    BY <2>5 DEF x, y, d
<1>7. Zero(after_decrypt(c)) = after_decrypt(z)
  <2> DEFINE d == after_decrypt(c)
             x == Zero(d)
             y == after_decrypt(z)
  <2>1. /\ d.send_key = c.send_key /\ d.recv_key = c.recv_key
        /\ d.send_seq = c.send_seq /\ d.recv_seq = c.recv_seq + 1 /\ d \in Codec
    BY <1>4, <1>5, ShiftedFacts
  <2>2. /\ y \in ShiftedCodec /\ y.send_key = z.send_key /\ y.recv_key = z.recv_key
        /\ y.send_seq = z.send_seq /\ y.recv_seq = z.recv_seq + 1
    BY <1>5, ShiftedFacts
  <2> HIDE DEF d, y
  <2>3. /\ x \in ShiftedCodec /\ x.send_key = d.send_key /\ x.recv_key = d.recv_key
        /\ x.send_seq = d.send_seq - PreRecords /\ x.recv_seq = d.recv_seq - PreRecords
    BY <1>2, <2>1
  <2> HIDE DEF x
  <2>4. x.recv_seq = y.recv_seq
    BY <1>3, <1>5, <2>1, <2>2, <2>3
  <2>5. x = y
    BY <1>5, <2>1, <2>2, <2>3, <2>4, SameShifted
  <2> QED
    BY <2>5 DEF x, y, d
<1>8. ASSUME NEW u \in SecretUpdates
      PROVE  Zero(update_traffic_secrets(c, p, u)) = update_traffic_secrets(z, p, u)
  <2> DEFINE d == update_traffic_secrets(c, p, u)
             x == Zero(d)
             y == update_traffic_secrets(z, p, u)
  <2>1. y \in ShiftedCodec /\ y.send_key = d.send_key /\ y.recv_key = d.recv_key
    BY <1>5, ShiftedFacts
  <2>2. y.send_seq = z.send_seq /\ y.recv_seq = z.recv_seq
    BY <1>5, ShiftedFacts
  <2>3. d.send_seq = c.send_seq /\ d.recv_seq = c.recv_seq /\ d \in Codec
    BY <1>4, <1>5, ShiftedFacts
  <2> HIDE DEF d, y
  <2>4. /\ x \in ShiftedCodec /\ x.send_key = d.send_key /\ x.recv_key = d.recv_key
        /\ x.send_seq = d.send_seq - PreRecords /\ x.recv_seq = d.recv_seq - PreRecords
    BY <1>2, <2>3
  <2> HIDE DEF x
  <2>5. x = y
    BY <1>5, <2>1, <2>2, <2>3, <2>4, SameShifted
  <2> QED
    BY <2>5 DEF x, y, d
<1>9. ASSUME NEW m PROVE encrypt(z, m) = FromZero(encrypt(c, m))
  BY <1>5 DEF encrypt, FromZero
<1>10. ASSUME NEW r \in Frame PROVE decrypt(z, FromZero(r)) = decrypt(c, r)
  <2> DEFINE x == FromZero(r)
  <2>1. x.key = r.key /\ x.seq = r.seq - PreRecords /\ r.seq \in Nat
    BY SeenFrame DEF Frame
  <2> HIDE DEF x
  <2>2. x.seq = z.recv_seq <=> r.seq = c.recv_seq
    BY <1>0, <1>5, <2>1
  <2> QED
    BY <1>5, <2>1, <2>2 DEF decrypt, x
<1> QED
  BY <1>6, <1>7, <1>8, <1>9, <1>10 DEF z

\* A party that uses the connection, as seen from there.
LEMMA SeenUser ==
    ASSUME HandshakeInv, NEW p \in Party, stage[p] = "established"
    PROVE  /\ states[p] = hs[p] /\ codecs[p] = Zero(codec[p])
           /\ inboxes[p] = Shift(inbox[p]) /\ inboxes[Peer(p)] = Shift(Behind(inbox[Peer(p)]))
           /\ \A requested :
                Established!update_handshake(p, requested) = Conn!update_handshake(p, requested)
           /\ \A message :
                Established!process_signaling_message(p, message)
                    = Conn!process_signaling_message(p, message)
<1>1. states[p] = hs[p] /\ codecs[p] = Zero(codec[p])
  BY DEF states, codecs, Zero
<1>2. Behind(inbox[p]) = inbox[p]
  BY UserFacts, BehindFacts
<1>3. inboxes[p] = Shift(inbox[p]) /\ inboxes[Peer(p)] = Shift(Behind(inbox[Peer(p)]))
  BY <1>2, SeenInboxes, PeerFacts
<1> QED
  BY <1>1, <1>3, ConnHandlers, EstablishedHandlers

\* What such a party changes, as seen from there.
LEMMA SeenChange ==
    ASSUME HandshakeInv, NEW p \in Party, stage[p] = "established", UNCHANGED <<config, stage>>
    PROVE  /\ \A h : hs' = [hs EXCEPT ![p] = h] => states' = [states EXCEPT ![p] = h]
           /\ \A c : codec' = [codec EXCEPT ![p] = c] => codecs' = [codecs EXCEPT ![p] = Zero(c)]
           /\ hs' = hs => states' = states
           /\ codec' = codec => codecs' = codecs
           /\ inbox' = inbox => inboxes' = inboxes
<1>1. hs \in [Party -> Handshake] /\ codec \in [Party -> Codec]
  BY DEF HandshakeInv, TypeOK
<1>2. ASSUME NEW h, hs' = [hs EXCEPT ![p] = h] PROVE states' = [states EXCEPT ![p] = h]
  BY <1>1, <1>2 DEF states
<1>3. ASSUME NEW c, codec' = [codec EXCEPT ![p] = c] PROVE codecs' = [codecs EXCEPT ![p] = Zero(c)]
  <2>1. \A q \in Party : codec'[q] = IF q = p THEN c ELSE codec[q]
    BY <1>1, <1>3
  <2>2. \A q \in Party : codecs'[q] = IF q = p THEN Zero(c) ELSE codecs[q]
    BY <2>1 DEF codecs, Zero, PreRecords
  <2>3. codecs = [q \in Party |-> codecs[q]] /\ codecs' = [q \in Party |-> codecs'[q]]
    BY DEF codecs
  <2> QED
    BY <2>2, <2>3
<1>4. hs' = hs => states' = states
  BY DEF states
<1>5. codec' = codec => codecs' = codecs
  BY DEF codecs, PreRecords
<1>6. inbox' = inbox => inboxes' = inboxes
  BY SeenSame
<1> QED
  BY <1>2, <1>3, <1>4, <1>5, <1>6

\* It sends a record, or two, or takes one.
LEMMA SeenTraffic ==
    ASSUME HandshakeInv, NEW p \in Party, stage[p] = "established", UNCHANGED <<config, stage>>
    PROVE  /\ \A a : IsRecord(a) /\ inbox' = [inbox EXCEPT ![Peer(p)] = Append(inbox[Peer(p)], a)]
                => inboxes' = [inboxes EXCEPT ![Peer(p)] = Append(inboxes[Peer(p)], FromZero(a))]
           /\ \A a, b : /\ IsRecord(a) /\ IsRecord(b)
                        /\ inbox' = [inbox EXCEPT ![Peer(p)] = Append(Append(inbox[Peer(p)], a), b)]
                => inboxes' = [inboxes EXCEPT ![Peer(p)] =
                                 Append(Append(inboxes[Peer(p)], FromZero(a)), FromZero(b))]
           /\ inbox[p] # << >> =>
                /\ inboxes[p] # << >> /\ Head(inboxes[p]) = FromZero(Head(inbox[p]))
                /\ Shift(Tail(inbox[p])) = Tail(inboxes[p])
                /\ inbox' = [inbox EXCEPT ![p] = Tail(inbox[p])]
                     => inboxes' = [inboxes EXCEPT ![p] = Tail(inboxes[p])]
<1> DEFINE q == Peer(p)
           s == inbox[q]
           t == Behind(s)
<1>1. /\ q \in Party /\ q # p /\ s \in Seq(Frame) /\ inbox[p] \in Seq(Frame)
      /\ \A r \in Party : r = p \/ r = q
  BY UserFacts
<1>2. inbox \in [Party -> Seq(Frame)]
  BY DEF HandshakeInv, TypeOK
<1>3. /\ inboxes = [r \in Party |-> Shift(Behind(inbox[r]))]
      /\ inboxes' = [r \in Party |-> Shift(Behind(inbox'[r]))]
  BY SeenInboxes
<1>4. inboxes[p] = Shift(inbox[p]) /\ inboxes[q] = Shift(t)
  BY SeenUser
<1>5. t \in Seq(Frame)
  BY <1>1, BehindFacts
<1> HIDE DEF q, s, t
<1>6. ASSUME NEW a, IsRecord(a)
      PROVE  /\ Append(s, a) \in Seq(Frame) /\ Append(t, a) \in Seq(Frame)
             /\ Behind(Append(s, a)) = Append(t, a)
             /\ Shift(Append(t, a)) = Append(Shift(t), FromZero(a))
  <2>1. a \in Frame
    BY <1>6, FrameFacts
  <2>2. Append(s, a) \in Seq(Frame) /\ Behind(Append(s, a)) = Append(t, a)
    BY <1>1, <1>6, BehindAppend DEF t
  <2>3. Append(t, a) \in Seq(Frame)
    BY <1>5, <2>1, FrameAppend
  <2> QED
    BY <1>5, <2>1, <2>2, <2>3, ShiftAppend
<1>7. ASSUME NEW u, inbox' = [inbox EXCEPT ![q] = u]
      PROVE  inboxes' = [inboxes EXCEPT ![q] = Shift(Behind(u))]
  BY <1>1, <1>2, <1>3, <1>7
<1>8. ASSUME NEW a, IsRecord(a), inbox' = [inbox EXCEPT ![q] = Append(s, a)]
      PROVE  inboxes' = [inboxes EXCEPT ![q] = Append(inboxes[q], FromZero(a))]
  <2> DEFINE u == Append(s, a)
  <2> HIDE DEF u
  <2>1. inboxes' = [inboxes EXCEPT ![q] = Shift(Behind(u))]
    BY <1>7, <1>8 DEF u
  <2>2. Shift(Behind(u)) = Append(inboxes[q], FromZero(a))
    BY <1>4, <1>6, <1>8 DEF u
  <2> QED
    BY <2>1, <2>2
<1>9. ASSUME NEW a, NEW b, IsRecord(a), IsRecord(b),
             inbox' = [inbox EXCEPT ![q] = Append(Append(s, a), b)]
      PROVE  inboxes' = [inboxes EXCEPT ![q] =
                           Append(Append(inboxes[q], FromZero(a)), FromZero(b))]
  <2> DEFINE u == Append(s, a)
             v == Append(t, a)
             w == Append(u, b)
  <2>1. u \in Seq(Frame) /\ v \in Seq(Frame) /\ Behind(u) = v
    BY <1>6, <1>9
  <2>2. Shift(v) = Append(inboxes[q], FromZero(a))
    BY <1>4, <1>6, <1>9
  <2> HIDE DEF u, v
  <2>3. Behind(w) = Append(v, b)
    BY <1>9, <2>1, BehindAppend
  <2>4. b \in Frame
    BY <1>9, FrameFacts
  <2>5. Shift(Append(v, b)) = Append(Shift(v), FromZero(b))
    BY <2>1, <2>4, ShiftAppend
  <2> HIDE DEF w
  <2>6. inboxes' = [inboxes EXCEPT ![q] = Shift(Behind(w))]
    BY <1>7, <1>9 DEF w, u
  <2> QED
    BY <2>2, <2>3, <2>5, <2>6
<1>10. ASSUME inbox[p] # << >>
       PROVE  /\ inboxes[p] # << >> /\ Head(inboxes[p]) = FromZero(Head(inbox[p]))
              /\ Shift(Tail(inbox[p])) = Tail(inboxes[p])
              /\ inbox' = [inbox EXCEPT ![p] = Tail(inbox[p])]
                   => inboxes' = [inboxes EXCEPT ![p] = Tail(inboxes[p])]
  <2> DEFINE i == inbox[p]
             rest == Tail(i)
  <2>1. inboxes[p] # << >> /\ Head(inboxes[p]) = FromZero(Head(i)) /\ Shift(rest) = Tail(inboxes[p])
    BY <1>1, <1>4, <1>10, ShiftTail
  <2>2. rest \in Seq(Frame) /\ AllRecords(rest)
    BY <1>10, UserFacts
  <2>3. Behind(rest) = rest
    BY <2>2, BehindFacts
  <2> HIDE DEF rest
  <2>4. ASSUME inbox' = [inbox EXCEPT ![p] = rest]
        PROVE  inboxes' = [inboxes EXCEPT ![p] = Shift(rest)]
    BY <1>2, <1>3, <2>3, <2>4
  <2> QED
    BY <2>1, <2>4 DEF rest
<1> QED
  BY <1>8, <1>9, <1>10 DEF q, s

\* send_bytes without an update.
LEMMA SeenSend ==
    ASSUME HandshakeInv, NEW p \in Party, stage[p] = "established", UNCHANGED <<config, stage>>,
           Conn!SendBytes(p)
    PROVE  Established!SendBytes(p)
<1> DEFINE q == Peer(p)
           m == Application(sent[p] + 1)
           a == encrypt(codec[p], m)
           c == after_encrypt(codec[p])
<1>1. /\ error[p] = "ok" /\ sent[p] < MaxSends
      /\ inbox' = [inbox EXCEPT ![q] = Append(inbox[q], a)] /\ codec' = [codec EXCEPT ![p] = c]
      /\ sent' = [sent EXCEPT ![p] = sent[p] + 1]
      /\ UNCHANGED <<hs, held, delivered, commits, error>>
  BY ConnOperators DEF Conn!SendBytes, Conn!MaySend, Conn!NextBytes
<1>2. codec[p] \in Codec /\ sent[p] \in Nat
  BY UserFacts
<1>3. IsRecord(a)
  <2>1. m \in InnerPlaintext /\ m.type = "Application" /\ m.data = sent[p] + 1
    BY <1>2, MessageTypes, HelloFacts
  <2>2. sent[p] + 1 \in 0 .. MaxSends
    BY <1>1, <1>2, MethodsAssumption
  <2> HIDE DEF m
  <2> QED
    BY <1>2, <2>1, <2>2, CodecType DEF encrypt, IsRecord
<1>4. FromZero(a) = encrypt(codecs[p], m) /\ Zero(c) = after_encrypt(codecs[p])
  BY <1>2, SeenUser, ZeroCommutes
<1> HIDE DEF m, a, c, q
<1>5. inboxes' = [inboxes EXCEPT ![q] = Append(inboxes[q], FromZero(a))]
  BY <1>1, <1>3, SeenTraffic DEF q
<1>6. codecs' = [codecs EXCEPT ![p] = Zero(c)] /\ states' = states
  BY <1>1, SeenChange
<1>7. /\ Established!MaySend(p) /\ Established!NextBytes(p) = m /\ Established!Peer(p) = q
  BY <1>1, EstablishedOperators DEF Established!MaySend, Established!NextBytes, m, q
<1>8. /\ inboxes' = [inboxes EXCEPT ![q] = Append(@, Established!encrypt(codecs[p], m))]
      /\ codecs' = [codecs EXCEPT ![p] = Established!after_encrypt(@)]
  BY <1>4, <1>5, <1>6, EstablishedOperators
<1> QED
  BY <1>1, <1>6, <1>7, <1>8 DEF Established!SendBytes

\* send_bytes with an update.
LEMMA SeenUpdate ==
    ASSUME HandshakeInv, NEW p \in Party, stage[p] = "established", UNCHANGED <<config, stage>>,
           Conn!SendBytesUpdate(p)
    PROVE  Established!SendBytesUpdate(p)
<1> DEFINE q == Peer(p)
           m == Application(sent[p] + 1)
<1>0. PICK requested \in Conn!Requests(p) :
       LET r       == Conn!update_handshake(p, requested)
           updated == update_traffic_secrets(after_encrypt(codec[p]), p, r.secret_update)
       IN  /\ r.error # "WaitingForResponse"
           /\ hs' = [hs EXCEPT ![p] = r.state]
           /\ commits' = commits + r.made
           /\ IF r.error = "ok"
              THEN /\ inbox' = [inbox EXCEPT ![q] =
                                  Append(Append(inbox[q], encrypt(codec[p], r.message)),
                                         encrypt(updated, m))]
                   /\ codec' = [codec EXCEPT ![p] = after_encrypt(updated)]
                   /\ sent' = [sent EXCEPT ![p] = sent[p] + 1]
                   /\ error' = error
              ELSE /\ error' = [error EXCEPT ![p] = r.error]
                   /\ UNCHANGED <<inbox, codec, sent>>
  BY ConnOperators DEF Conn!SendBytesUpdate, Conn!NextBytes
<1>1. /\ error[p] = "ok" /\ sent[p] < MaxSends /\ commits < MaxCommits
      /\ UNCHANGED <<held, delivered>>
  BY DEF Conn!SendBytesUpdate, Conn!MaySend
<1> DEFINE r == Conn!update_handshake(p, requested)
           used == after_encrypt(codec[p])
           updated == update_traffic_secrets(used, p, r.secret_update)
           c == after_encrypt(updated)
           a == encrypt(codec[p], r.message)
           b == encrypt(updated, m)
<1>2. /\ r.error # "WaitingForResponse"
      /\ hs' = [hs EXCEPT ![p] = r.state] /\ commits' = commits + r.made
      /\ r.error = "ok" =>
           /\ inbox' = [inbox EXCEPT ![q] = Append(Append(inbox[q], a), b)]
           /\ codec' = [codec EXCEPT ![p] = c]
           /\ sent' = [sent EXCEPT ![p] = sent[p] + 1] /\ error' = error
      /\ r.error # "ok" =>
           error' = [error EXCEPT ![p] = r.error] /\ UNCHANGED <<inbox, codec, sent>>
  BY <1>0
<1>3. codec[p] \in Codec /\ sent[p] \in Nat
  BY UserFacts
<1>4. GoodResult(p, r)
  BY UseHandlers
<1>5. r = Established!update_handshake(p, requested) /\ codecs[p] = Zero(codec[p])
  BY SeenUser
<1> HIDE DEF r
<1>6. r.secret_update \in SecretUpdates /\ IsRecord(a)
  BY <1>3, <1>4 DEF GoodResult, Result
<1>7. used \in Codec /\ Zero(used) = after_encrypt(codecs[p]) /\ FromZero(a) = encrypt(codecs[p], r.message)
  BY <1>3, <1>5, CodecType, ZeroCommutes
<1> HIDE DEF used, a
<1>8. updated \in Codec /\ Zero(updated) = update_traffic_secrets(Zero(used), p, r.secret_update)
  BY <1>6, <1>7, CodecType, ZeroCommutes
<1> HIDE DEF updated
<1>9. Zero(c) = after_encrypt(Zero(updated)) /\ FromZero(b) = encrypt(Zero(updated), m)
  BY <1>8, ZeroCommutes
<1>10. IsRecord(b)
  <2>1. m \in InnerPlaintext /\ m.type = "Application" /\ m.data = sent[p] + 1
    BY <1>3, MessageTypes, HelloFacts
  <2>2. sent[p] + 1 \in 0 .. MaxSends
    BY <1>1, <1>3, MethodsAssumption
  <2> HIDE DEF m
  <2> QED
    BY <1>8, <2>1, <2>2, CodecType DEF encrypt, IsRecord
<1> HIDE DEF b, c, m, q
<1>11. states' = [states EXCEPT ![p] = r.state]
  BY <1>2, SeenChange
<1>12. ASSUME r.error = "ok"
       PROVE  /\ inboxes' = [inboxes EXCEPT ![q] =
                               Append(Append(inboxes[q], FromZero(a)), FromZero(b))]
              /\ codecs' = [codecs EXCEPT ![p] = Zero(c)]
  <2>1. inbox' = [inbox EXCEPT ![q] = Append(Append(inbox[q], a), b)]
    BY <1>2, <1>12
  <2>2. codec' = [codec EXCEPT ![p] = c]
    BY <1>2, <1>12
  <2>3. inboxes' = [inboxes EXCEPT ![q] = Append(Append(inboxes[q], FromZero(a)), FromZero(b))]
    BY <1>6, <1>10, <2>1, SeenTraffic DEF q
  <2> QED
    BY <2>2, <2>3, SeenChange
<1>13. r.error # "ok" => UNCHANGED <<inboxes, codecs>>
  BY <1>2, SeenChange
<1>14. /\ Established!MaySend(p) /\ Established!NextBytes(p) = m /\ Established!Peer(p) = q
       /\ Established!Requests(p) = Conn!Requests(p)
  BY <1>1, EstablishedOperators
     DEF Established!MaySend, Established!NextBytes, Established!Requests, Conn!Requests, m, q
<1> DEFINE view == Established!update_traffic_secrets(Established!after_encrypt(codecs[p]), p,
                                                    r.secret_update)
<1>15. view = Zero(updated)
  BY <1>7, <1>8, EstablishedOperators
<1> HIDE DEF view
<1>16. r.error = "ok" =>
         /\ inboxes' = [inboxes EXCEPT ![q] =
                          Append(Append(@, Established!encrypt(codecs[p], r.message)),
                                 Established!encrypt(view, m))]
         /\ codecs' = [codecs EXCEPT ![p] = Established!after_encrypt(view)]
  BY <1>7, <1>9, <1>12, <1>15, EstablishedOperators
<1>17. \E x \in Established!Requests(p) :
          LET s == Established!update_handshake(p, x)
              changed == Established!update_traffic_secrets(Established!after_encrypt(codecs[p]), p,
                                                            s.secret_update)
          IN  /\ s.error # "WaitingForResponse"
              /\ states' = [states EXCEPT ![p] = s.state]
              /\ commits' = commits + s.made
              /\ IF s.error = "ok"
                 THEN /\ inboxes' = [inboxes EXCEPT ![q] =
                                       Append(Append(@, Established!encrypt(codecs[p], s.message)),
                                              Established!encrypt(changed, m))]
                      /\ codecs' = [codecs EXCEPT ![p] = Established!after_encrypt(changed)]
                      /\ sent' = [sent EXCEPT ![p] = @ + 1]
                      /\ error' = error
                 ELSE /\ error' = [error EXCEPT ![p] = s.error]
                      /\ UNCHANGED <<inboxes, codecs, sent>>
  <2>1. requested \in Established!Requests(p)
    BY <1>14
  <2> WITNESS requested \in Established!Requests(p)
  <2> QED
    BY <1>2, <1>5, <1>11, <1>13, <1>16 DEF view
<1> QED
  BY <1>1, <1>14, <1>17 DEF Established!SendBytesUpdate

\* read_message.
LEMMA SeenRead ==
    ASSUME HandshakeInv, NEW p \in Party, stage[p] = "established", UNCHANGED <<config, stage>>,
           Conn!ReadMessage(p)
    PROVE  Established!ReadMessage(p)
<1> DEFINE h == Head(inbox[p])
           c == after_decrypt(codec[p])
<1>1. /\ error[p] = "ok" /\ inbox[p] # << >> /\ held[p] = 0
      /\ decrypt(codec[p], h) =>
           /\ held' = [held EXCEPT ![p] = 1] /\ codec' = [codec EXCEPT ![p] = c]
           /\ UNCHANGED <<inbox, error>>
      /\ ~decrypt(codec[p], h) =>
           /\ inbox' = [inbox EXCEPT ![p] = Tail(inbox[p])]
           /\ error' = [error EXCEPT ![p] = "DecryptionError"]
           /\ UNCHANGED <<held, codec>>
      /\ UNCHANGED <<hs, sent, delivered, commits>>
  BY ConnOperators DEF Conn!ReadMessage
<1>2. codec[p] \in Codec /\ h \in Frame
  BY <1>1, UserFacts, FrameFacts
<1>3. codecs[p] = Zero(codec[p])
  BY SeenUser
<1>4. /\ inboxes[p] # << >> /\ Head(inboxes[p]) = FromZero(h)
      /\ inbox' = [inbox EXCEPT ![p] = Tail(inbox[p])]
           => inboxes' = [inboxes EXCEPT ![p] = Tail(inboxes[p])]
  BY <1>1, SeenTraffic
<1> HIDE DEF h
<1>5. Established!decrypt(codecs[p], Head(inboxes[p])) = decrypt(codec[p], h)
  BY <1>2, <1>3, <1>4, ZeroCommutes, EstablishedOperators
<1>6. Zero(c) = Established!after_decrypt(codecs[p])
  BY <1>2, <1>3, ZeroCommutes, EstablishedOperators
<1> HIDE DEF c
<1>7. /\ codec' = [codec EXCEPT ![p] = c] => codecs' = [codecs EXCEPT ![p] = Zero(c)]
      /\ codec' = codec => codecs' = codecs /\ (inbox' = inbox => inboxes' = inboxes)
      /\ inbox' = inbox => inboxes' = inboxes
      /\ states' = states
  BY <1>1, SeenChange
<1>8. CASE decrypt(codec[p], h)
  <2>1. codecs' = [codecs EXCEPT ![p] = Established!after_decrypt(@)]
    BY <1>1, <1>6, <1>7, <1>8
  <2>2. inboxes' = inboxes
    BY <1>1, <1>7, <1>8
  <2> QED
    BY <1>1, <1>4, <1>5, <1>7, <1>8, <2>1, <2>2 DEF Established!ReadMessage
<1>9. CASE ~decrypt(codec[p], h)
  <2>1. inboxes' = [inboxes EXCEPT ![p] = Tail(@)]
    BY <1>1, <1>4, <1>9
  <2>2. codecs' = codecs
    BY <1>1, <1>7, <1>9
  <2> QED
    BY <1>1, <1>4, <1>5, <1>7, <1>9, <2>1, <2>2 DEF Established!ReadMessage
<1> QED
  BY <1>8, <1>9

\* process_read_message for application bytes.
LEMMA SeenApplication ==
    ASSUME HandshakeInv, NEW p \in Party, stage[p] = "established", UNCHANGED <<config, stage>>,
           Conn!ProcessApplication(p)
    PROVE  Established!ProcessApplication(p)
<1> DEFINE h == Head(inbox[p])
<1>1. /\ error[p] = "ok" /\ held[p] = 1 /\ h.payload.type = "Application"
      /\ delivered' = [delivered EXCEPT ![p] = h.payload.data]
      /\ inbox' = [inbox EXCEPT ![p] = Tail(inbox[p])] /\ held' = [held EXCEPT ![p] = 0]
      /\ UNCHANGED <<hs, codec, sent, commits, error>>
  BY DEF Conn!ProcessApplication
<1>2. inbox[p] # << >>
  BY <1>1 DEF HandshakeInv
<1>3. h \in Frame
  BY <1>2, UserFacts, FrameFacts
<1>4. Head(inboxes[p]) = FromZero(h) /\ inboxes' = [inboxes EXCEPT ![p] = Tail(inboxes[p])]
  BY <1>1, <1>2, SeenTraffic
<1> HIDE DEF h
<1>5. Head(inboxes[p]).payload = h.payload
  BY <1>3, <1>4, SeenFrame
<1>6. states' = states /\ codecs' = codecs
  BY <1>1, SeenChange
<1>7. inboxes' = [inboxes EXCEPT ![p] = Tail(@)]
  BY <1>4
<1> QED
  BY <1>1, <1>5, <1>6, <1>7 DEF Established!ProcessApplication

\* process_read_message for a signaling message.
LEMMA SeenSignaling ==
    ASSUME HandshakeInv, NEW p \in Party, stage[p] = "established", UNCHANGED <<config, stage>>,
           Conn!ProcessSignaling(p)
    PROVE  Established!ProcessSignaling(p)
<1> DEFINE q == Peer(p)
           h == Head(inbox[p])
           m == h.payload
           r == Conn!process_signaling_message(p, m)
           responded == r.message # NoMessage
           used == IF responded THEN after_encrypt(codec[p]) ELSE codec[p]
           c == update_traffic_secrets(used, p, r.secret_update)
           a == encrypt(codec[p], r.message)
<1>1. /\ error[p] = "ok" /\ held[p] = 1 /\ m.type # "Application"
      /\ hs' = [hs EXCEPT ![p] = r.state] /\ commits' = commits + r.made
      /\ error' = [error EXCEPT ![p] = r.error] /\ codec' = [codec EXCEPT ![p] = c]
      /\ inbox' = [x \in Party |-> IF x = p THEN Tail(inbox[x])
                                   ELSE IF responded THEN Append(inbox[x], a) ELSE inbox[x]]
      /\ held' = [held EXCEPT ![p] = 0] /\ UNCHANGED <<sent, delivered>>
  BY ConnOperators DEF Conn!ProcessSignaling
<1>2. inbox[p] # << >>
  BY <1>1 DEF HandshakeInv
<1>3. /\ q \in Party /\ q # p /\ codec[p] \in Codec /\ h \in Frame /\ m \in InnerPlaintext
      /\ inbox[q] \in Seq(Frame) /\ Tail(inbox[p]) \in Seq(Frame) /\ AllRecords(Tail(inbox[p]))
      /\ \A x \in Party : x = p \/ x = q
  BY <1>2, UserFacts, FrameFacts
<1>4. Head(inboxes[p]) = FromZero(h) /\ Shift(Tail(inbox[p])) = Tail(inboxes[p])
  BY <1>2, SeenTraffic
<1>5. inbox'[p] = Tail(inbox[p]) /\ inbox'[q] = IF responded THEN Append(inbox[q], a) ELSE inbox[q]
  BY <1>1, <1>3
<1>6. Head(inboxes[p]).payload = m
  BY <1>3, <1>4, SeenFrame
<1> HIDE DEF h, m
<1>7. GoodResult(p, r)
  BY <1>1, <1>3, UseHandlers
<1>8. /\ r = Established!process_signaling_message(p, m) /\ codecs[p] = Zero(codec[p])
      /\ inboxes[q] = Shift(Behind(inbox[q]))
  BY SeenUser
<1> HIDE DEF r
<1>9. r.secret_update \in SecretUpdates /\ IsRecord(a)
  BY <1>3, <1>7 DEF GoodResult, Result
<1>10. /\ used \in Codec
       /\ Zero(used) = IF responded THEN after_encrypt(codecs[p]) ELSE codecs[p]
       /\ FromZero(a) = encrypt(codecs[p], r.message)
  BY <1>3, <1>8, CodecType, ZeroCommutes
<1> HIDE DEF responded, used, a
<1>11. Zero(c) = update_traffic_secrets(Zero(used), p, r.secret_update)
  BY <1>9, <1>10, ZeroCommutes
<1> HIDE DEF c, q
<1>12. states' = [states EXCEPT ![p] = r.state] /\ codecs' = [codecs EXCEPT ![p] = Zero(c)]
  BY <1>1, SeenChange
<1>13. inboxes'[p] = Tail(inboxes[p])
  <2> DEFINE rest == Tail(inbox[p])
  <2>1. inboxes'[p] = Shift(Behind(rest))
    BY <1>5, SeenInboxes
  <2>2. Behind(rest) = rest
    BY <1>3, BehindFacts
  <2> QED
    BY <1>4, <2>1, <2>2
<1>14. inboxes'[q] = IF responded THEN Append(inboxes[q], FromZero(a)) ELSE inboxes[q]
  <2> DEFINE t == Behind(inbox[q])
             u == inbox'[q]
  <2>1. inboxes'[q] = Shift(Behind(u))
    BY <1>3, SeenInboxes
  <2>2. t \in Seq(Frame)
    BY <1>3, BehindFacts
  <2>3. a \in Frame
    BY <1>9, FrameFacts
  <2>4. Behind(u) = IF responded THEN Append(t, a) ELSE t
    BY <1>3, <1>5, <1>9, BehindAppend
  <2> HIDE DEF t, u
  <2>5. Shift(Append(t, a)) = Append(Shift(t), FromZero(a))
    BY <2>2, <2>3, ShiftAppend
  <2>6. inboxes[q] = Shift(t)
    BY <1>8 DEF t
  <2> QED
    BY <2>1, <2>4, <2>5, <2>6
<1> DEFINE z == encrypt(codecs[p], r.message)
<1>15. inboxes' = [x \in Party |-> IF x = p THEN Tail(inboxes[x])
                                   ELSE IF responded THEN Append(inboxes[x], z) ELSE inboxes[x]]
  <2>1. inboxes' = [x \in Party |-> inboxes'[x]]
    BY SeenInboxes
  <2>2. \A x \in Party : inboxes'[x] = IF x = p THEN Tail(inboxes[x])
                                       ELSE IF responded THEN Append(inboxes[x], z) ELSE inboxes[x]
    BY <1>3, <1>10, <1>13, <1>14
  <2> HIDE DEF z
  <2> QED
    BY <2>1, <2>2
<1>16. codecs' = [codecs EXCEPT ![p] =
                    update_traffic_secrets(IF responded THEN after_encrypt(codecs[p]) ELSE codecs[p],
                                           p, r.secret_update)]
  BY <1>10, <1>11, <1>12
<1> QED
  BY <1>1, <1>6, <1>8, <1>12, <1>15, <1>16, EstablishedOperators
     DEF Established!ProcessSignaling, responded

\* The handshake hands over to EncryptionProvider: with any pre-handshakes,
\* keys and servers, through failures and with early use of the connection,
\* what the two sides do with it is what they do with a connection in which
\* both start at once, in the same epoch and with the same secret and numbers.
THEOREM HandsOverToConnection == Spec => HandsOver
<1>1. Init => Established!Init
  <2> SUFFICES ASSUME Init PROVE Established!Init
    OBVIOUS
  <2>1. /\ inbox = [p \in Party |-> << >>] /\ stage = [p \in Party |-> "new"]
        /\ held = [p \in Party |-> 0] /\ sent = [p \in Party |-> 0]
        /\ delivered = [p \in Party |-> 0] /\ commits = 0 /\ error = [p \in Party |-> "ok"]
    BY DEF Init
  <2>2. \A p \in Party : stage[p] # "established"
    BY <2>1
  <2>3. /\ states = [p \in Party |-> IF p = "client" THEN client_start ELSE server_start]
        /\ codecs = [p \in Party |-> new_codec(p, create_server_session.secret, 0)]
    BY <2>2 DEF states, codecs
  <2>4. inboxes = [p \in Party |-> << >>]
    <3>1. << >> \in Seq(Frame)
      OBVIOUS
    <3>2. Behind(<< >>) = << >> /\ Shift(<< >>) = << >>
      BY <3>1, BehindFacts, ShiftFacts
    <3> QED
      BY <2>1, <3>2, SeenInboxes
  <2>5. /\ Established!client_start = client_start /\ Established!server_start = server_start
        /\ Established!create_server_session = create_server_session
    BY DEF Established!client_start, client_start, Established!server_start, server_start,
           Established!create_server_session, create_server_session, Established!Running, Running,
           Established!NoCommit, NoCommit
  <2>6. \A p, s : Established!new_codec(p, s, 0) = new_codec(p, s, 0)
    BY DEF Established!new_codec, new_codec, Established!expand_secret, expand_secret,
           Established!Peer, Peer
  <2> QED
    BY <2>1, <2>3, <2>4, <2>5, <2>6, EstablishedOperators DEF Established!Init
<1>2. HandshakeInv /\ HandshakeInv' /\ [Next]_vars => [Established!Next]_(Established!vars)
  <2> SUFFICES ASSUME HandshakeInv, HandshakeInv', [Next]_vars
               PROVE  [Established!Next]_(Established!vars)
    OBVIOUS
  <2>1. CASE PreHandshake \/ Hello \/ \E p \in Party : MisreadFrame(p) \/ PeerGone(p) \/ Drop(p)
    BY <2>1, Unseen
  <2>2. ASSUME NEW p \in Party, Use(p) PROVE Established!Next
    <3>1. stage[p] = "established" /\ UNCHANGED <<config, stage>>
      BY <2>2 DEF Use
    <3>2. \/ Conn!SendBytes(p) \/ Conn!SendBytesUpdate(p) \/ Conn!ReadMessage(p)
          \/ Conn!ProcessApplication(p) \/ Conn!ProcessSignaling(p)
      BY <2>2 DEF Use
    <3>3. \/ Established!SendBytes(p) \/ Established!SendBytesUpdate(p)
          \/ Established!ReadMessage(p) \/ Established!ProcessApplication(p)
          \/ Established!ProcessSignaling(p)
      BY <3>1, <3>2, SeenSend, SeenUpdate, SeenRead, SeenApplication, SeenSignaling
    <3> QED
      BY <3>3, EstablishedOperators DEF Established!Next
  <2>3. CASE UNCHANGED vars
    <3>1. UNCHANGED <<config, stage, hs, codec, inbox, connection>>
      BY <2>3 DEF vars, connection
    <3>2. \A p \in Party : states'[p] = states[p] /\ codecs'[p] = codecs[p]
      BY <3>1 DEF states, codecs, PreRecords
    <3> QED
      BY <3>1, <3>2, SameView
  <2> QED
    BY <2>1, <2>2, <2>3 DEF Next
<1> QED
  BY <1>1, <1>2, HandshakeInvariance, PTL DEF Spec, HandsOver, Established!Spec

\* What is proved of connections is proved of this one.
LEMMA SafeConnection == Established!Spec => Safe!Spec
<1>1. Established!Init => Safe!Init
  BY
   DEF Established!Init, Safe!Init, Established!client_start, Safe!client_start,
       Established!server_start, Safe!server_start, Established!create_server_session,
       Safe!create_server_session, Established!Running, Safe!Running, Established!NoCommit,
       Safe!NoCommit, Established!new_codec, Safe!new_codec, Established!expand_secret,
       Safe!expand_secret, Established!Peer, Safe!Peer, Established!Party, Safe!Party
<1>2. \A p, requested : Established!update_handshake(p, requested) = Safe!update_handshake(p, requested)
  BY
   DEF Established!merge_update, Safe!merge_update, Established!update, Safe!update,
       Established!NoCommit, Safe!NoCommit, Established!self_update_and_merge,
       Safe!self_update_and_merge, Established!self_update_and_wait, Safe!self_update_and_wait,
       Established!Waiting, Safe!Waiting, Established!WaitingForUpdate, Safe!WaitingForUpdate,
       Established!ConnectionUpdate, Safe!ConnectionUpdate, Established!ClientSecret,
       Safe!ClientSecret, Established!Done, Safe!Done, Established!Failed, Safe!Failed,
       Established!NoMessage, Safe!NoMessage, Established!Application, Safe!Application,
       Established!NoSecretUpdate, Safe!NoSecretUpdate, Established!client_is_waiting,
       Safe!client_is_waiting, Established!server_is_waiting, Safe!server_is_waiting,
       Established!client_update, Safe!client_update, Established!server_update,
       Safe!server_update, Established!update_handshake, Safe!update_handshake
<1>3. \A p, message :
         Established!process_signaling_message(p, message) = Safe!process_signaling_message(p, message)
  <2>1. ASSUME NEW g, NEW c, NEW drop
        PROVE  Established!process_mls_update(g, c, drop) = Safe!process_mls_update(g, c, drop)
    BY
   DEF Established!process_mls_update, Safe!process_mls_update, Established!resolve_pending,
       Safe!resolve_pending, Established!merge_update, Safe!merge_update, Established!NoCommit,
       Safe!NoCommit
  <2>2. ASSUME NEW s, NEW requested, NEW fresh, NEW u
        PROVE  /\ Established!self_update_and_merge(s, requested, fresh)
                    = Safe!self_update_and_merge(s, requested, fresh)
               /\ Established!self_update_and_wait(s, requested, fresh, u)
                    = Safe!self_update_and_wait(s, requested, fresh, u)
    BY
   DEF Established!self_update_and_merge, Safe!self_update_and_merge,
       Established!self_update_and_wait, Safe!self_update_and_wait, Established!update,
       Safe!update, Established!merge_update, Safe!merge_update, Established!Waiting,
       Safe!Waiting, Established!WaitingForUpdate, Safe!WaitingForUpdate,
       Established!ConnectionUpdate, Safe!ConnectionUpdate, Established!ClientSecret,
       Safe!ClientSecret, Established!Done, Safe!Done, Established!Failed, Safe!Failed,
       Established!NoMessage, Safe!NoMessage, Established!Application, Safe!Application,
       Established!NoSecretUpdate, Safe!NoSecretUpdate, Established!NoCommit, Safe!NoCommit
  <2>3. ASSUME NEW s, NEW m, NEW fresh
        PROVE  Established!client_process_update(s, m, fresh) = Safe!client_process_update(s, m, fresh)
    BY <2>1, <2>2
   DEF Established!client_process_update, Safe!client_process_update,
       Established!create_epoch_key_update, Safe!create_epoch_key_update,
       Established!EpochKeyUpdate, Safe!EpochKeyUpdate, Established!Waiting, Safe!Waiting,
       Established!ClientSecret, Safe!ClientSecret, Established!Done, Safe!Done,
       Established!Failed, Safe!Failed, Established!NoMessage, Safe!NoMessage,
       Established!Application, Safe!Application, Established!NoSecretUpdate, Safe!NoSecretUpdate,
       Established!NoCommit, Safe!NoCommit
  <2>4. ASSUME NEW s, NEW m, NEW fresh
        PROVE  Established!server_process_update(s, m, fresh) = Safe!server_process_update(s, m, fresh)
    BY <2>1, <2>2
   DEF Established!server_process_update, Safe!server_process_update, Established!server_follow,
       Safe!server_follow, Established!create_epoch_key_update, Safe!create_epoch_key_update,
       Established!EpochKeyUpdate, Safe!EpochKeyUpdate, Established!Running, Safe!Running,
       Established!Both, Safe!Both, Established!Done, Safe!Done, Established!Failed, Safe!Failed,
       Established!NoMessage, Safe!NoMessage, Established!Application, Safe!Application,
       Established!NoSecretUpdate, Safe!NoSecretUpdate, Established!NoCommit, Safe!NoCommit
  <2>5. ASSUME NEW s, NEW m, NEW fresh
        PROVE  Established!client_receive_signaling_message(s, m, fresh)
                 = Safe!client_receive_signaling_message(s, m, fresh)
    BY <2>3
   DEF Established!client_receive_signaling_message, Safe!client_receive_signaling_message,
       Established!client_receive_confirmation, Safe!client_receive_confirmation,
       Established!client_is_waiting, Safe!client_is_waiting,
       Established!process_epoch_key_update, Safe!process_epoch_key_update, Established!Running,
       Safe!Running, Established!ServerSecret, Safe!ServerSecret, Established!Done, Safe!Done,
       Established!Failed, Safe!Failed, Established!NoMessage, Safe!NoMessage,
       Established!Application, Safe!Application, Established!NoSecretUpdate, Safe!NoSecretUpdate,
       Established!NoCommit, Safe!NoCommit
  <2>6. ASSUME NEW s, NEW m, NEW fresh
        PROVE  Established!server_receive_signaling_message(s, m, fresh)
                 = Safe!server_receive_signaling_message(s, m, fresh)
    BY <2>4
   DEF Established!server_receive_signaling_message, Safe!server_receive_signaling_message,
       Established!server_receive_epoch_key_update, Safe!server_receive_epoch_key_update,
       Established!server_is_waiting, Safe!server_is_waiting, Established!merge_update,
       Safe!merge_update, Established!process_epoch_key_update, Safe!process_epoch_key_update,
       Established!create_epoch_key_update, Safe!create_epoch_key_update,
       Established!EpochKeyUpdate, Safe!EpochKeyUpdate, Established!Running, Safe!Running,
       Established!Both, Safe!Both, Established!Done, Safe!Done, Established!Failed, Safe!Failed,
       Established!NoMessage, Safe!NoMessage, Established!Application, Safe!Application,
       Established!NoSecretUpdate, Safe!NoSecretUpdate, Established!NoCommit, Safe!NoCommit
  <2> QED
    BY <2>5, <2>6 DEF Established!process_signaling_message, Safe!process_signaling_message
<1>4. /\ Established!Party = Safe!Party /\ Established!NoMessage = Safe!NoMessage
      /\ \A p : Established!Peer(p) = Safe!Peer(p)
      /\ \A n : Established!Application(n) = Safe!Application(n)
      /\ \A c : /\ Established!after_encrypt(c) = Safe!after_encrypt(c)
                /\ Established!after_decrypt(c) = Safe!after_decrypt(c)
      /\ \A c, m : /\ Established!encrypt(c, m) = Safe!encrypt(c, m)
                   /\ Established!decrypt(c, m) = Safe!decrypt(c, m)
      /\ \A c, p, u : Established!update_traffic_secrets(c, p, u) = Safe!update_traffic_secrets(c, p, u)
  BY
   DEF Established!Party, Safe!Party, Established!NoMessage, Safe!NoMessage,
       Established!Application, Safe!Application, Established!NoCommit, Safe!NoCommit,
       Established!Peer, Safe!Peer, Established!expand_secret, Safe!expand_secret,
       Established!own_kind, Safe!own_kind, Established!update_traffic_secrets,
       Safe!update_traffic_secrets, Established!encrypt, Safe!encrypt, Established!after_encrypt,
       Safe!after_encrypt, Established!decrypt, Safe!decrypt, Established!after_decrypt,
       Safe!after_decrypt
<1>5. ASSUME NEW p, Established!SendBytes(p) PROVE Safe!SendBytes(p)
  BY <1>4, <1>5
   DEF Established!SendBytes, Safe!SendBytes, Established!MaySend, Safe!MaySend,
       Established!NextBytes, Safe!NextBytes
<1>6. ASSUME NEW p, Established!SendBytesUpdate(p) PROVE Safe!SendBytesUpdate(p)
  BY <1>2, <1>4, <1>6
   DEF Established!SendBytesUpdate, Safe!SendBytesUpdate, Established!MaySend, Safe!MaySend,
       Established!NextBytes, Safe!NextBytes, Established!Requests, Safe!Requests
<1>7. ASSUME NEW p, Established!ReadMessage(p) PROVE Safe!ReadMessage(p)
  BY <1>4, <1>7 DEF Established!ReadMessage, Safe!ReadMessage
<1>8. ASSUME NEW p, Established!ProcessApplication(p) PROVE Safe!ProcessApplication(p)
  BY <1>8 DEF Established!ProcessApplication, Safe!ProcessApplication
<1>9. ASSUME NEW p, Established!ProcessSignaling(p) PROVE Safe!ProcessSignaling(p)
  BY <1>3, <1>4, <1>9 DEF Established!ProcessSignaling, Safe!ProcessSignaling
<1>10. Established!Next => Safe!Next
  BY <1>4, <1>5, <1>6, <1>7, <1>8, <1>9 DEF Established!Next, Safe!Next
<1> QED
  BY <1>1, <1>10, PTL DEF Established!Spec, Safe!Spec, Established!vars, Safe!vars

\* What is sent before the peer has finished the handshake is opened under the
\* right key and number, and no application is given an error, if the client
\* asks for no update of the server's, which MlsHandshake::update_handshake
\* never does.
THEOREM EarlyRecords ==
    ASSUME ClientRequests \subseteq {FALSE}
    PROVE  Spec => []EarlyRecordsOpen
<1>1. Safe!Spec => []Safe!NoError
  BY MethodsAssumption, Safe!NoApplicationError
<1>2. Safe!Spec => []Safe!RecordsDecrypt
  BY MethodsAssumption, Safe!EveryRecordDecrypts
<1>3. HandshakeInv /\ Safe!NoError /\ Safe!RecordsDecrypt => EarlyRecordsOpen
  <2> SUFFICES ASSUME HandshakeInv, Safe!NoError, Safe!RecordsDecrypt PROVE EarlyRecordsOpen
    OBVIOUS
  <2>1. Safe!Party = Party /\ \A c, r : Safe!decrypt(c, r) = decrypt(c, r)
    BY DEF Safe!Party, Party, Safe!decrypt, decrypt
  <2>2. error \in [Party -> ErrorKind] /\ \A p \in Party : error[p] = "ok"
    BY <2>1 DEF Safe!NoError, HandshakeInv, TypeOK
  <2>3. error = [p \in Party |-> "ok"]
    BY <2>2
  <2>4. ASSUME NEW p \in Party, stage[p] = "established", held[p] = 0, inbox[p] # << >>
        PROVE  decrypt(codec[p], Head(inbox[p]))
    <3> DEFINE h == Head(inbox[p])
    <3>1. codec[p] \in Codec /\ h \in Frame
      BY <2>4, UserFacts, FrameFacts
    <3>2. codecs[p] = Zero(codec[p])
      BY <2>4, SeenUser
    <3>3. inboxes[p] # << >> /\ Head(inboxes[p]) = FromZero(h)
      <4>1. inbox[p] \in Seq(Frame) /\ inboxes[p] = Shift(inbox[p])
        BY <2>4, UserFacts, SeenUser
      <4> QED
        BY <2>4, <4>1, ShiftTail
    <3> HIDE DEF h
    <3>4. decrypt(codecs[p], Head(inboxes[p]))
      BY <2>1, <2>4, <3>3 DEF Safe!RecordsDecrypt
    <3>5. decrypt(codecs[p], FromZero(h)) = decrypt(codec[p], h)
      BY <3>1, <3>2, ZeroCommutes
    <3>6. decrypt(codec[p], h)
      BY <3>3, <3>4, <3>5
    <3> QED
      BY <3>6 DEF h
  <2> QED
    BY <2>3, <2>4 DEF EarlyRecordsOpen
<1> QED
  BY <1>1, <1>2, <1>3, HandshakeInvariance, HandsOverToConnection, SafeConnection, PTL DEF HandsOver

=============================================================================
