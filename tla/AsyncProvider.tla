--------------------------- MODULE AsyncProvider ----------------------------
(***************************************************************************)
(* The established connection in the steps between the await points of     *)
(* send_bytes and process_read_message.  What an operation sends is        *)
(* encrypted into the sink's buffer and written to a TCP connection that   *)
(* holds a bounded number of records; the cipher changes only when the     *)
(* signaling message is flushed.  While an operation is blocked its party  *)
(* does not read, because operations take &mut self.                       *)
(*                                                                         *)
(* Without faults this implements EncryptionProvider, where an operation   *)
(* is one step.  The faults are what happens to connections beyond that:   *)
(* the future of an operation is dropped, messages are read ahead of       *)
(* processing, and a side shuts down, or ends without shutting down.       *)
(***************************************************************************)
EXTENDS ClientStateMachine, ServerStateMachine, TlsAead, Sequences

CONSTANTS
    ClientRequests, ServerRequests, HandshakeRecords, MaxSends, MaxCommits,
    Capacity,   \* records that TCP holds in one direction
    HighWater,  \* records that the sink buffers before poll_ready waits
    ReadAhead,  \* messages an application may have read and not processed
    Faults      \* subset of {"cancel", "shutdown", "drop"}

ASSUME AsyncAssumption ==
    /\ Capacity \in Nat \ {0} /\ HighWater \in Nat \ {0} /\ ReadAhead \in Nat \ {0}
    /\ Faults \subseteq {"cancel", "shutdown", "drop"}
    /\ ClientRequests \subseteq BOOLEAN /\ ServerRequests \subseteq BOOLEAN
    /\ HandshakeRecords \in Nat /\ MaxSends \in Nat /\ MaxCommits \in Nat

VARIABLES
    hs, codec,  \* as in EncryptionProvider
    op,         \* op[p]: the operation that p is in the middle of
    buffer,     \* buffer[p]: records in p's sink, not yet written
    tcp,        \* tcp[p]: records written to p, not yet read
    held,       \* held[p]: records p has read and not yet processed
    sent,       \* sent[p]: application messages that p has encrypted
    delivered,  \* delivered[p]: the last message that p's application got
    received,   \* received[p]: how many messages it got
    commits, error,
    closed,     \* closed[p]: p has shut down its side
    dropped,    \* dropped[p]: p's provider is gone
    ended       \* ended[p]: p has read the end of the stream

vars == <<hs, codec, op, buffer, tcp, held, sent, delivered, received, commits, error,
          closed, dropped, ended>>

\* An operation: the signaling message it still has to send, the change of
\* the cipher that follows it, and the bytes it sends last (0: none).
Op(stage, message, secret_update, bytes) ==
    [stage |-> stage, message |-> message, secret_update |-> secret_update, bytes |-> bytes]

NoOp == Op("none", NoMessage, NoSecretUpdate, 0)

\* What the operation sends next.
Item(o) == IF o.message # NoMessage THEN o.message ELSE Application(o.bytes)

-----------------------------------------------------------------------------
\* The records that the rest of p's operation will produce, and the codec it
\* will leave behind: the operation seen as one step.
Completed(p) ==
    LET o        == op[p]
        now      == o.stage = "ready"
        first    == IF now THEN <<encrypt(codec[p], Item(o))>> ELSE << >>
        used     == IF now THEN after_encrypt(codec[p]) ELSE codec[p]
        switched == update_traffic_secrets(used, p, o.secret_update)
        last     == o.message # NoMessage /\ o.bytes # 0
    IN  [records |-> first \o (IF last THEN <<encrypt(switched, Application(o.bytes))>>
                               ELSE << >>),
         codec   |-> IF last THEN after_encrypt(switched) ELSE switched,
         sent    |-> IF last \/ (now /\ o.bytes # 0) THEN o.bytes ELSE sent[p]]

Atomic == INSTANCE EncryptionProvider WITH
    codec <- [p \in Party |-> Completed(p).codec],
    inbox <- [p \in Party |-> held[p] \o tcp[p] \o buffer[Peer(p)] \o Completed(Peer(p)).records],
    held  <- [p \in Party |-> Len(held[p])],
    sent  <- [p \in Party |-> Completed(p).sent]

-----------------------------------------------------------------------------
Init ==
    /\ hs = [p \in Party |-> IF p = "client" THEN client_start ELSE server_start]
    /\ codec = [p \in Party |-> new_codec(p, create_server_session.secret, HandshakeRecords)]
    /\ op = [p \in Party |-> NoOp]
    /\ buffer = [p \in Party |-> << >>]
    /\ tcp = [p \in Party |-> << >>]
    /\ held = [p \in Party |-> << >>]
    /\ sent = [p \in Party |-> 0]
    /\ delivered = [p \in Party |-> 0]
    /\ received = [p \in Party |-> 0]
    /\ commits = 0
    /\ error = [p \in Party |-> "ok"]
    /\ closed = [p \in Party |-> FALSE]
    /\ dropped = [p \in Party |-> FALSE]
    /\ ended = [p \in Party |-> FALSE]

\* The application may call p's provider: also after shutdown, which closes
\* only the writer.
Idle(p) == error[p] = "ok" /\ ~dropped[p] /\ op[p] = NoOp

\* send_bytes up to its first send: no update, or update_handshake.  After
\* shutdown applications do not call it: its flush could only fail.
SendBytes(p) ==
    /\ Idle(p) /\ ~closed[p] /\ sent[p] < MaxSends
    /\ \/ /\ op' = [op EXCEPT ![p] = Op("ready", NoMessage, NoSecretUpdate, sent[p] + 1)]
          /\ UNCHANGED <<hs, commits, error>>
       \/ /\ commits < MaxCommits
          /\ \E requested \in Atomic!Requests(p) :
               LET r == Atomic!update_handshake(p, requested)
               IN  /\ r.error # "WaitingForResponse"
                   /\ hs' = [hs EXCEPT ![p] = r.state]
                   /\ commits' = commits + r.made
                   /\ error' = [error EXCEPT ![p] = r.error]
                   /\ op' = IF r.error # "ok" THEN op ELSE
                            [op EXCEPT ![p] =
                                Op("ready", r.message, r.secret_update, sent[p] + 1)]
    /\ UNCHANGED <<codec, buffer, tcp, held, sent, delivered, received, closed, dropped, ended>>

\* poll_ready and start_send: the item is encrypted into the buffer.
StartSend(p) ==
    /\ op[p].stage = "ready" /\ ~dropped[p]
    /\ Len(buffer[p]) < HighWater
    /\ buffer' = [buffer EXCEPT ![p] = Append(@, encrypt(codec[p], Item(op[p])))]
    /\ codec' = [codec EXCEPT ![p] = after_encrypt(@)]
    /\ sent' = IF Item(op[p]).type = "Application" THEN [sent EXCEPT ![p] = op[p].bytes] ELSE sent
    /\ op' = [op EXCEPT ![p].stage = "flush"]
    /\ UNCHANGED <<hs, tcp, held, delivered, received, commits, error, closed, dropped, ended>>

\* try_empty_buffer and the writes of the inner sink, while a send, a flush or
\* a close is polled: TCP takes a record when it has room.  After shutdown it
\* takes none.
Write(p) ==
    /\ op[p].stage # "none" /\ ~closed[p] /\ ~dropped[p]
    /\ buffer[p] # << >> /\ Len(tcp[Peer(p)]) < Capacity
    /\ tcp' = [tcp EXCEPT ![Peer(p)] = Append(@, Head(buffer[p]))]
    /\ buffer' = [buffer EXCEPT ![p] = Tail(@)]
    /\ UNCHANGED <<hs, codec, op, held, sent, delivered, received, commits, error,
                   closed, dropped, ended>>

\* Mutant: the cipher is not changed after the signaling message.
Flushed_noswitch(p) ==
    /\ op[p].stage = "flush" /\ buffer[p] = << >> /\ ~dropped[p]
    /\ op' = [op EXCEPT ![p] = IF @.message # NoMessage /\ @.bytes # 0
                               THEN Op("ready", NoMessage, NoSecretUpdate, @.bytes)
                               ELSE NoOp]
    /\ UNCHANGED <<hs, codec, buffer, tcp, held, sent, delivered, received, commits, error,
                   closed, dropped, ended>>

\* poll_flush is ready: after the signaling message update_cipher follows and
\* then the bytes, if there are any.
Flushed(p) ==
    /\ op[p].stage = "flush" /\ buffer[p] = << >> /\ ~dropped[p]
    /\ codec' = [codec EXCEPT ![p] = update_traffic_secrets(@, p, op[p].secret_update)]
    /\ op' = [op EXCEPT ![p] = IF @.message # NoMessage /\ @.bytes # 0
                               THEN Op("ready", NoMessage, NoSecretUpdate, @.bytes)
                               ELSE NoOp]
    /\ UNCHANGED <<hs, buffer, tcp, held, sent, delivered, received, commits, error,
                   closed, dropped, ended>>

\* read_message.
ReadMessage(p) ==
    /\ Idle(p) /\ Len(held[p]) < ReadAhead /\ tcp[p] # << >>
    /\ tcp' = [tcp EXCEPT ![p] = Tail(@)]
    /\ IF decrypt(codec[p], Head(tcp[p]))
       THEN /\ held' = [held EXCEPT ![p] = Append(@, Head(tcp[p]))]
            /\ codec' = [codec EXCEPT ![p] = after_decrypt(@)]
            /\ error' = error
       ELSE /\ error' = [error EXCEPT ![p] = "DecryptionError"]
            /\ UNCHANGED <<held, codec>>
    /\ UNCHANGED <<hs, op, buffer, sent, delivered, received, commits, closed, dropped, ended>>

\* read_message at the end of the stream, which looks the same after the peer's
\* shutdown and after the peer's end without one.
ReadEnd(p) ==
    /\ Idle(p) /\ tcp[p] = << >> /\ (closed[Peer(p)] \/ dropped[Peer(p)])
    /\ ended' = [ended EXCEPT ![p] = TRUE]
    /\ UNCHANGED <<hs, codec, op, buffer, tcp, held, sent, delivered, received, commits,
                   error, closed, dropped>>

\* process_read_message, arm Application.
ProcessApplication(p) ==
    /\ Idle(p) /\ held[p] # << >> /\ Head(held[p]).payload.type = "Application"
    /\ delivered' = [delivered EXCEPT ![p] = Head(held[p]).payload.data]
    /\ received' = [received EXCEPT ![p] = @ + 1]
    /\ held' = [held EXCEPT ![p] = Tail(@)]
    /\ UNCHANGED <<hs, codec, op, buffer, tcp, sent, commits, error, closed, dropped, ended>>

\* process_read_message, arm Signaling, up to the send of the response; if
\* there is none the cipher changes at once.
ProcessSignaling(p) ==
    /\ Idle(p) /\ held[p] # << >> /\ Head(held[p]).payload.type # "Application"
    /\ LET r == Atomic!process_signaling_message(p, Head(held[p]).payload)
       IN  /\ hs' = [hs EXCEPT ![p] = r.state]
           /\ commits' = commits + r.made
           /\ error' = [error EXCEPT ![p] = r.error]
           /\ IF r.message = NoMessage
              THEN /\ codec' = [codec EXCEPT ![p] = update_traffic_secrets(@, p, r.secret_update)]
                   /\ op' = op
              ELSE /\ op' = [op EXCEPT ![p] = Op("ready", r.message, r.secret_update, 0)]
                   /\ codec' = codec
    /\ held' = [held EXCEPT ![p] = Tail(@)]
    /\ UNCHANGED <<buffer, tcp, sent, delivered, received, closed, dropped, ended>>

\* The future of p's operation is suspended: poll_ready waits above the high
\* water mark, a flush or a close waits until everything is written.
Suspended(p) ==
    /\ op[p] # NoOp /\ buffer[p] # << >> /\ ~dropped[p]
    /\ op[p].stage = "ready" => Len(buffer[p]) >= HighWater

\* Mutant: a cancelled send starts again with the same bytes.
Cancel_retrying(p) ==
    /\ "cancel" \in Faults /\ Suspended(p)
    /\ op' = [op EXCEPT ![p] = IF @.message = NoMessage /\ @.bytes # 0
                               THEN Op("ready", NoMessage, NoSecretUpdate, @.bytes) ELSE NoOp]
    /\ UNCHANGED <<hs, codec, buffer, tcp, held, sent, delivered, received, commits,
                   error, closed, dropped, ended>>

\* The future of the operation is dropped while it is suspended.  What is in
\* the buffer stays there for the next operation.  An operation that returns
\* here because its write fails leaves the same state.
Cancel(p) ==
    /\ "cancel" \in Faults /\ Suspended(p)
    /\ op' = [op EXCEPT ![p] = NoOp]
    /\ UNCHANGED <<hs, codec, buffer, tcp, held, sent, delivered, received, commits,
                   error, closed, dropped, ended>>

\* process_read_message is dropped while process_signaling_message waits for
\* the database: the message in hand is lost.  (A send_bytes that is dropped
\* while update_handshake waits has changed nothing.)
CancelLocked(p) ==
    /\ "cancel" \in Faults
    /\ Idle(p) /\ held[p] # << >> /\ Head(held[p]).payload.type # "Application"
    /\ held' = [held EXCEPT ![p] = Tail(@)]
    /\ UNCHANGED <<hs, codec, op, buffer, tcp, sent, delivered, received, commits,
                   error, closed, dropped, ended>>

\* shutdown.
Shutdown(p) ==
    /\ "shutdown" \in Faults /\ Idle(p) /\ ~closed[p]
    /\ op' = [op EXCEPT ![p] = Op("close", NoMessage, NoSecretUpdate, 0)]
    /\ UNCHANGED <<hs, codec, buffer, tcp, held, sent, delivered, received, commits,
                   error, closed, dropped, ended>>

\* Mutant: the sink closes without emptying its buffer.
PollClose_unflushed(p) ==
    /\ op[p].stage = "close" /\ ~dropped[p]
    /\ closed' = [closed EXCEPT ![p] = TRUE]
    /\ op' = [op EXCEPT ![p] = NoOp]
    /\ UNCHANGED <<hs, codec, buffer, tcp, held, sent, delivered, received, commits,
                   error, dropped, ended>>

\* poll_close: the buffer is emptied, then the TCP connection is closed.
PollClose(p) ==
    /\ op[p].stage = "close" /\ buffer[p] = << >> /\ ~dropped[p]
    /\ closed' = [closed EXCEPT ![p] = TRUE]
    /\ op' = [op EXCEPT ![p] = NoOp]
    /\ UNCHANGED <<hs, codec, buffer, tcp, held, sent, delivered, received, commits,
                   error, dropped, ended>>

\* p's provider is dropped without shutdown, or its process dies: the operation
\* goes no further and what is in the sink is never written.
Drop(p) ==
    /\ "drop" \in Faults /\ ~dropped[p]
    /\ dropped' = [dropped EXCEPT ![p] = TRUE]
    /\ UNCHANGED <<hs, codec, op, buffer, tcp, held, sent, delivered, received, commits,
                   error, closed, ended>>

Next ==
    \E p \in Party :
        \/ SendBytes(p) \/ StartSend(p) \/ Write(p) \/ Flushed(p)
        \/ ReadMessage(p) \/ ReadEnd(p) \/ ProcessApplication(p) \/ ProcessSignaling(p)
        \/ Cancel(p) \/ CancelLocked(p) \/ Shutdown(p) \/ PollClose(p) \/ Drop(p)

\* Operations that were started go on, and applications keep reading.
Fairness ==
    \A p \in Party :
        /\ WF_vars(StartSend(p)) /\ WF_vars(Write(p)) /\ WF_vars(Flushed(p))
        /\ WF_vars(ReadMessage(p) \/ ProcessApplication(p) \/ ProcessSignaling(p))

Spec == Init /\ [][Next]_vars

FairSpec == Spec /\ Fairness

-----------------------------------------------------------------------------
\* Every variable has its type.
TypeOK ==
    /\ hs \in [Party -> Handshake] /\ codec \in [Party -> Codec]
    /\ op \in [Party -> [stage : {"none", "ready", "flush", "close"}, message : InnerPlaintext,
                         secret_update : SecretUpdates, bytes : 0 .. MaxSends]]
    /\ buffer \in [Party -> Seq(Record)] /\ tcp \in [Party -> Seq(Record)]
    /\ held \in [Party -> Seq(Record)]
    /\ sent \in [Party -> 0 .. MaxSends] /\ delivered \in [Party -> 0 .. MaxSends]
    /\ received \in [Party -> 0 .. MaxSends]
    /\ commits \in Nat /\ error \in [Party -> ErrorKind]
    /\ closed \in [Party -> BOOLEAN] /\ dropped \in [Party -> BOOLEAN]
    /\ ended \in [Party -> BOOLEAN]

\* Operations may be taken as single steps: the connection in steps between
\* awaits, with TCP buffers of any size, implements EncryptionProvider.
ImplementsAtomic == Atomic!Spec

\* p waits for room in TCP.
Blocked(p) == op[p].stage # "none" /\ buffer[p] # << >> /\ Len(tcp[Peer(p)]) >= Capacity

\* Answers to signaling messages never fill the connection: a party that is
\* blocked in an answer, and so cannot read, is blocked behind application
\* bytes of its own.  One that only reads is never blocked, even if its peer
\* does not read at all.
AnswersNeverFill ==
    \A p \in Party :
        Blocked(p) /\ op[p].bytes = 0 =>
            \E i \in 1 .. Len(tcp[Peer(p)]) : tcp[Peer(p)][i].payload.type = "Application"

\* Bytes that were sent arrive, through key updates and with a TCP connection
\* that holds a single record (applications send MaxSends times at most, so the
\* reader catches up), unless both sides are blocked; by AnswersNeverFill that
\* takes application bytes of both in the connection.
AllDelivered ==
    []<>(\/ \A p \in Party : delivered[Peer(p)] = sent[p]
         \/ \A p \in Party : Blocked(p))

\* Futures that are dropped in the middle of an operation, messages that are
\* read ahead of processing, shutdowns and sides that end without one may end a
\* connection with an error or too early, but the n-th message that is delivered
\* is the n-th that was sent: nothing is left out, repeated or out of order.
InOrderOnce ==
    \A p \in Party : delivered[p] = received[p] /\ received[p] <= sent[Peer(p)]

\* A party that reads the end of the stream after its peer's shutdown, and has
\* processed what it read, has been delivered everything that its peer encrypted,
\* also what a dropped send had left in the sink's buffer.  Of a peer that ended
\* without shutdown, where read_message returns Ok(None) all the same, this says
\* nothing: what was in its sink is lost, and InOrderOnce is all that is left.
NoLossAtEnd ==
    \A p \in Party :
        ended[p] /\ closed[Peer(p)] /\ held[p] = << >> => delivered[p] = sent[Peer(p)]

=============================================================================
