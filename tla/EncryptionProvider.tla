------------------------- MODULE EncryptionProvider -------------------------
(***************************************************************************)
(* An established connection: a client and a server EncryptionProvider     *)
(* (encryption_provider/mod.rs), each with its handshake state machine and *)
(* its record codec, over one TCP connection.  It starts where handshake() *)
(* returns on both sides and covers sending application bytes, reading,    *)
(* and the key updates that the two sides start whenever their update      *)
(* policies say so, crossing each other in every possible way.             *)
(*                                                                         *)
(* Each operation of a provider takes &mut self and the peer sees nothing  *)
(* of it but the records it writes, so an operation is one step; the       *)
(* channel holds any number of records.                                    *)
(***************************************************************************)
EXTENDS ClientStateMachine, ServerStateMachine, TlsAead, Sequences

CONSTANTS
    ClientRequests,   \* values the client passes for update_requested
    ServerRequests,   \* values the server passes for update_requested
    HandshakeRecords, \* records each side protected before the connection was
                      \* established: 1 after a pre-handshake, 0 without one
    MaxSends,         \* bound on send_bytes calls per party
    MaxCommits        \* bound on the commits that update policies may cause

ASSUME RequestsAssumption ==
    ClientRequests \subseteq BOOLEAN /\ ServerRequests \subseteq BOOLEAN

ASSUME BoundsAssumption ==
    HandshakeRecords \in Nat /\ MaxSends \in Nat /\ MaxCommits \in Nat

VARIABLES
    hs,        \* hs[p]: p's handshake state machine and stored MLS group
    codec,     \* codec[p]: p's TlsAeadCodec
    inbox,     \* inbox[p]: records sent to p that p has not finished with
    held,      \* held[p]: how many of them p has read (decrypted), but not yet
               \* passed to process_read_message: 0 or 1
    sent,      \* sent[p]: number of send_bytes calls that p's application made
    delivered, \* delivered[p]: the last application bytes p's application got
    commits,   \* number of MLS commits made so far
    error      \* error[p]: the error p's application was given, or "ok"

vars == <<hs, codec, inbox, held, sent, delivered, commits, error>>

-----------------------------------------------------------------------------

Init ==
    /\ hs = [p \in Party |-> IF p = "client" THEN client_start ELSE server_start]
    /\ codec = [p \in Party |-> new_codec(p, create_server_session.secret, HandshakeRecords)]
    /\ inbox = [p \in Party |-> << >>]
    /\ held = [p \in Party |-> 0]
    /\ sent = [p \in Party |-> 0]
    /\ delivered = [p \in Party |-> 0]
    /\ commits = 0
    /\ error = [p \in Party |-> "ok"]

\* MlsHandshake::update_handshake dispatches to the party's state machine.
update_handshake(p, requested) ==
    IF p = "client" THEN client_update(hs[p], requested, commits + 1)
                    ELSE server_update(hs[p], requested, commits + 1)

\* MlsHandshake::process_signaling_message likewise.
process_signaling_message(p, message) ==
    IF p = "client" THEN client_receive_signaling_message(hs[p], message, commits + 1)
                    ELSE server_receive_signaling_message(hs[p], message, commits + 1)

Requests(p) == IF p = "client" THEN ClientRequests ELSE ServerRequests

\* The bytes of the n-th send_bytes call are identified by n.
NextBytes(p) == Application(sent[p] + 1)

\* The application may call p: it got no error, and calls are bounded.
MaySend(p) == error[p] = "ok" /\ sent[p] < MaxSends

\* send_bytes when no update happens: the policy says that none is due, or an
\* update is due but the state machine still waits for the peer.
SendBytes(p) ==
    /\ MaySend(p)
    /\ inbox' = [inbox EXCEPT ![Peer(p)] = Append(@, encrypt(codec[p], NextBytes(p)))]
    /\ codec' = [codec EXCEPT ![p] = after_encrypt(@)]
    /\ sent' = [sent EXCEPT ![p] = @ + 1]
    /\ UNCHANGED <<hs, held, delivered, commits, error>>

\* send_bytes when an update is due and the state machine is not waiting: the
\* signaling message goes out under the old key, then the cipher changes, then
\* the bytes follow.  The policy is free to find an update due at any call.
SendBytesUpdate(p) ==
    /\ MaySend(p)
    /\ commits < MaxCommits
    /\ \E requested \in Requests(p) :
        LET r       == update_handshake(p, requested)
            updated == update_traffic_secrets(after_encrypt(codec[p]), p, r.secret_update)
        IN  /\ r.error # "WaitingForResponse"
            /\ hs' = [hs EXCEPT ![p] = r.state]
            /\ commits' = commits + r.made
            /\ IF r.error = "ok"
               THEN /\ inbox' = [inbox EXCEPT ![Peer(p)] =
                                    Append(Append(@, encrypt(codec[p], r.message)),
                                           encrypt(updated, NextBytes(p)))]
                    /\ codec' = [codec EXCEPT ![p] = after_encrypt(updated)]
                    /\ sent' = [sent EXCEPT ![p] = @ + 1]
                    /\ error' = error
               ELSE /\ error' = [error EXCEPT ![p] = r.error]
                    /\ UNCHANGED <<inbox, codec, sent>>
    /\ UNCHANGED <<held, delivered>>

\* read_message (poll_next): take the next record off the stream and decrypt
\* it.  A record that does not decrypt is gone, and the error is reported.
\* The application hands a message to process_read_message before it reads on.
ReadMessage(p) ==
    /\ error[p] = "ok"
    /\ held[p] = 0
    /\ inbox[p] # << >>
    /\ IF decrypt(codec[p], Head(inbox[p]))
       THEN /\ held' = [held EXCEPT ![p] = 1]
            /\ codec' = [codec EXCEPT ![p] = after_decrypt(@)]
            /\ UNCHANGED <<inbox, error>>
       ELSE /\ inbox' = [inbox EXCEPT ![p] = Tail(@)]
            /\ error' = [error EXCEPT ![p] = "DecryptionError"]
            /\ UNCHANGED <<held, codec>>
    /\ UNCHANGED <<hs, sent, delivered, commits>>

\* process_read_message, arm Application: the bytes go to the application.
ProcessApplication(p) ==
    /\ error[p] = "ok"
    /\ held[p] = 1
    /\ Head(inbox[p]).payload.type = "Application"
    /\ delivered' = [delivered EXCEPT ![p] = Head(inbox[p]).payload.data]
    /\ inbox' = [inbox EXCEPT ![p] = Tail(@)]
    /\ held' = [held EXCEPT ![p] = 0]
    /\ UNCHANGED <<hs, codec, sent, commits, error>>

\* process_read_message, arm Signaling: the state machine handles the message,
\* its response goes out under the old key, then the cipher changes.
ProcessSignaling(p) ==
    /\ error[p] = "ok"
    /\ held[p] = 1
    /\ Head(inbox[p]).payload.type # "Application"
    /\ LET r         == process_signaling_message(p, Head(inbox[p]).payload)
           responded == r.message # NoMessage
           used      == IF responded THEN after_encrypt(codec[p]) ELSE codec[p]
       IN  /\ hs' = [hs EXCEPT ![p] = r.state]
           /\ commits' = commits + r.made
           /\ error' = [error EXCEPT ![p] = r.error]
           /\ codec' = [codec EXCEPT ![p] = update_traffic_secrets(used, p, r.secret_update)]
           /\ inbox' = [q \in Party |->
                            IF q = p THEN Tail(inbox[q])
                            ELSE IF responded
                                 THEN Append(inbox[q], encrypt(codec[p], r.message))
                                 ELSE inbox[q]]
    /\ held' = [held EXCEPT ![p] = 0]
    /\ UNCHANGED <<sent, delivered>>

Next ==
    \E p \in Party :
        \/ SendBytes(p)
        \/ SendBytesUpdate(p)
        \/ ReadMessage(p)
        \/ ProcessApplication(p)
        \/ ProcessSignaling(p)

\* Applications keep reading: a record that has arrived is read, and a message
\* that was read is processed.  Nobody has to send.
Fairness ==
    \A p \in Party : WF_vars(ReadMessage(p) \/ ProcessApplication(p) \/ ProcessSignaling(p))

Spec == Init /\ [][Next]_vars

FairSpec == Spec /\ Fairness

=============================================================================
