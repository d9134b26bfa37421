-------------------- MODULE EncryptionProviderProperties --------------------
(***************************************************************************)
(* The correctness properties of an established connection.                *)
(***************************************************************************)
EXTENDS EncryptionProvider

\* Every variable of the connection has its type.
TypeOK ==
    /\ hs \in [Party -> Handshake]
    /\ hs["client"].internal_state.tag \in ClientTag
    /\ hs["server"].internal_state.tag \in ServerTag
    /\ codec \in [Party -> Codec]
    /\ inbox \in [Party -> Seq(Record)]
    /\ held \in [Party -> {0, 1}]
    /\ sent \in [Party -> Nat]
    /\ delivered \in [Party -> Nat]
    /\ commits \in Nat
    /\ error \in [Party -> ErrorKind]

\* The record a party reads next is sealed under the key and the sequence
\* number its codec expects, however the key updates of the two sides cross:
\* the switch of the cipher after the signaling message on one side
\* (send_bytes, process_read_message) and after its processing on the other
\* meet at the same record.
RecordsDecrypt ==
    \A p \in Party :
        held[p] = 0 /\ inbox[p] # << >> => decrypt(codec[p], Head(inbox[p]))

\* No application is ever given an error: no signaling message is unexpected,
\* no confirmed epoch differs from one's own, no commit is refused, no
\* self-update meets a pending commit, and no record fails to decrypt.
NoError == \A p \in Party : error[p] = "ok"

\* The two members never fork: the server is not ahead of the client, members
\* in the same epoch share its secret, and a client that is one epoch ahead
\* got there by the server's pending commit or by one of its own that the
\* server can still follow.
NoFork ==
    LET c == hs["client"].group
        s == hs["server"].group
    IN  /\ s.epoch <= c.epoch
        /\ c.epoch = s.epoch => c.secret = s.secret
        /\ c.epoch = s.epoch + 1 =>
             \/ c.secret = s.pending.id
             \/ \E i \in 1 .. Len(inbox["server"]) :
                  LET commit == inbox["server"][i].payload.mls_commit
                  IN  commit = [epoch |-> s.epoch, base |-> s.secret, id |-> c.secret]

\* Nothing is in flight towards either party.
Quiescent == \A p \in Party : inbox[p] = << >>

\* Once all messages are processed nobody waits for anything, no commit is
\* pending, the session epochs are the groups' epochs, both members are in the
\* same epoch, and each side's sending key is the other side's receiving key
\* and comes from that epoch's secret.
QuiescentAgreement ==
    Quiescent =>
        \A p \in Party :
            /\ hs[p].internal_state = Running
            /\ hs[p].group = hs[Peer(p)].group
            /\ hs[p].group.pending = NoCommit
            /\ hs[p].epoch = hs[p].group.epoch
            /\ codec[p].send_key = codec[Peer(p)].recv_key
            /\ codec[p].send_key.secret = hs[p].group.secret
            /\ codec[p].send_seq = codec[Peer(p)].recv_seq

\* The server never commits to an epoch on its own: whenever its group moves
\* on, it moves to the very epoch that the client is in already, be it with
\* the client's commit or with its own (server.rs leaves its commits pending).
ServerFollowsClient ==
    [][hs'["server"].group.epoch # hs["server"].group.epoch =>
         /\ hs'["server"].group.epoch = hs'["client"].group.epoch
         /\ hs'["server"].group.secret = hs'["client"].group.secret]_hs

\* Keys only move forward: no party ever goes back to sending or receiving
\* under a secret older than the one it uses.
KeysMoveForward ==
    [][\A p \in Party :
         /\ codec'[p].send_key.secret >= codec[p].send_key.secret
         /\ codec'[p].recv_key.secret >= codec[p].recv_key.secret]_codec

\* The connection is a secure channel to its applications.
Channel == INSTANCE SecureChannel

\* Application bytes arrive in order, exactly once, and all of them arrive.
ImplementsSecureChannel == Channel!Spec

\* A client that waits for the server's answer gets it, also when the server
\* started an update of its own at the same time.
ClientAnswered ==
    client_is_waiting(hs["client"]) ~> ~client_is_waiting(hs["client"])

\* A server that waits for the client's answer gets one: its update is either
\* confirmed or overridden.
ServerAnswered ==
    server_is_waiting(hs["server"]) ~> ~server_is_waiting(hs["server"])

\* A server update takes effect even if a client update overrides the server's
\* commit: whatever secret the server sends with while it waits, it eventually
\* sends with another one.
ServerUpdateTakesEffect ==
    \A k \in 0 .. MaxCommits :
        (server_is_waiting(hs["server"]) /\ codec["server"].send_key.secret = k)
            ~> (codec["server"].send_key.secret # k)

=============================================================================
