# MLS-TLS: a verification project

MLS-TLS protects a TCP connection between one client and one server with TLS 1.3 style
records whose keys come from a two-member MLS group. Each side may update the group at any time,
so the keys change under running traffic, without a pause and without acknowledgement of
application data. This project models the system in TLA+, from the initial handshake over the
established connection to the resumption of a broken one, checks it with TLC, and proves with TLAPS
the safety properties of the initial handshake and of its hand-over to the established connection, of
that connection, in atomic operations and between its await points, of its update policies, of the
databases behind many handshakes, of resumption, and of the way of a message through records, frames
and a byte stream.

Source paths below are relative to `src/src/`.

## Inventory

| Component | State | Operations | What makes it correct |
|---|---|---|---|
| `mls_handshake/state_machine/mls_group.rs` (MLS session) | group id, session epoch; in the database the OpenMLS group with its epoch and at most one pending commit | create, `update`, `merge_update`, `process_mls_update`, epoch confirmation, `delete` | the members never fork; a pending commit is merged exactly if the peer follows it |
| `state_machine/client.rs` | `ClientInternalState`: Running, or one of three waits with the secrets to switch to | hello exchange, `update`, `receive_signaling_message`, `resume` | every wait ends; no message is unexpected; a client update has priority |
| `state_machine/server.rs` | `ServerInternalState`: Running or WaitingForUpdate | hello exchange, resumption, `update`, `receive_signaling_message` | gives way to the client; moves only where the client is |
| `mls_handshake/mod.rs` (dispatcher) | which machine, the shared database connection | `server_handshake`, `client_handshake`, `update_handshake`, `process_signaling_message`, `delete` | says which direction's secret changes |
| `tls_aead/mod.rs`, `key_generation.rs` (codec) | a key, an IV and a counter per direction | `encrypt`, `decrypt`, `update_traffic_secrets` | key and counter of reader and writer meet at each record |
| `tls_aead/codec.rs`, `stream_sink.rs` | frame buffer, the cipher shared by sink and stream | framing, `poll_ready`, `start_send`, `poll_flush`, `poll_close`, `poll_next` | FIFO, no loss |
| `encryption_provider/mod.rs` | the above per connection, the update policy | handshake, `send_bytes`, `read_bytes`, `read_message` with `process_read_message`, `shutdown`, `delete` | a reliable ordered channel, whatever the key updates do |
| `encryption_provider/update_policy.rs` | last update, bytes since | `update_is_due`, `reset`, `increment_bytes_transferred` | an update is due when time or traffic says so |
| `mls_handshake/persistence.rs` | one row per client profile | `store`, `load`, `store_update`, `delete`, `delete_old_versions` | the row belongs to a stored group |
| `pre_handshake/` | none after it returned | PSK, X25519 | both sides derive the same secret |
| `openmls_provider.rs`, `messages.rs`, `authentication.rs`, `handshake.rs`, `lib.rs` | none | glue, wire types, traits | |

The components interact by calls within one party and by records between the parties: a provider
asks its state machine to update or to process a message, gets a message for the peer and a
`SecretUpdate` for its own codec, sends the one and then applies the other. What is hard:

* updates of the two sides cross, and each side resolves the crossing alone (client ignores,
  server gives way);
* each direction's key changes at a different moment on each side, at a record that nobody
  acknowledges;
* a message may be read long before it is processed, with sends in between;
* a wait that never ends is silent: `send_bytes` swallows `WaitingForResponse`;
* an operation is several steps with awaits between them, at which its future may be dropped, and
  it does not read while it writes;
* a side may use the connection before the other has finished the handshake;
* a client holds the lock of its database across a round trip to a server that needs a lock, too;
* processes die between two statements, and connections break with answers under way.

`PROJECT.json` lists these hazards with their lines.

## Modules

| Module | Models |
|---|---|
| `MlsGroup` | `mls_group.rs` on an abstract OpenMLS group: epoch, secret, pending commit |
| `Signaling` | the plaintexts, the shape of the two state machines, secret updates, results of handlers |
| `ClientStateMachine` | the handlers of `client.rs` after the hello exchange |
| `ServerStateMachine` | the handlers of `server.rs` after the hello exchange |
| `TlsAead` | the codec: keys by secret and direction, counters, seal and open |
| `EncryptionProvider` | both parties and the TCP connection: the state machine |
| `SecureChannel` | abstract specification: what the connection promises the applications |
| `EncryptionProviderProperties` | the properties |
| `EncryptionProviderInductive` | the inductive invariant |
| `MCEncryptionProvider` | the module that TLC is run on |
| `StateMachineProofs` | lemmas on the shared operators: handlers, secrets, records, sequences |
| `EncryptionProviderProofs` | the proofs about the connection |
| `AsyncProviderProofs`, `InitialHandshakeProofs`, `HandshakeStorageProofs`, `UpdatePolicyProofs`, `ResumptionProofs`, `TlsRecordsProofs` | the proofs about these modules |
| `AsyncProvider` | the same connection between the await points of its operations: the sink's buffer, bounded TCP buffers, dropped futures, read-ahead, `shutdown`, dropped providers |
| `InitialHandshake` | pre-handshakes and the hello exchange, beside `EncryptionProvider`'s operations of a side that is done |
| `HandshakeStorage` | handshakes and deletes on shared databases: locks, SQL statements, crashes |
| `Resumption` | `resume` and `process_resumption`, broken connections, restarts from the stored row |
| `UpdatePolicy` | `update_policy.rs`, with the connection's `send_bytes` deciding by it |
| `TlsRecords` | serialization, splitting into records, frames, a byte stream cut anywhere |
| `MCAsyncProvider`, `MCInitialHandshake`, `MCHandshakeStorage`, `MCResumption`, `MCUpdatePolicy`, `MCTlsRecords` | what TLC is run on |

How they compose: `MlsGroup`, `Signaling`, the two state machines and `TlsAead` are shared by all
modules that need them. `AsyncProvider` implements `EncryptionProvider` (`ImplementsAtomic`),
which implements `SecureChannel`. `InitialHandshake` runs `EncryptionProvider`'s actions once a side is
established and is shown to hand over to its specification (`HandsOver`). `UpdatePolicy` runs the same
actions under a policy. `HandshakeStorage` and `TlsRecords` stand alone: they look at the database and
at bytes, of which the others abstract.

State machines and codec are functions from a state and an input to a result; the variables and
actions are in `EncryptionProvider`, which composes them the way the provider does. A handler's
result has the state it leaves behind also when it fails, because the code changes state before
some of its error returns: `mem::take` leaves Running (client.rs:281, 296), `process_mls_update`
resolves the pending commit before it looks at the new one (mls_group.rs:140-148), the server merges
before it compares epochs (server.rs:189-191).

| Action | Code |
|---|---|
| `SendBytes` | `send_bytes`, no update due or the machine still waits (the swallowed `WaitingForResponse`) |
| `SendBytesUpdate` | `send_bytes` with an update: `update_handshake`, send the message, `update_cipher`, send the bytes |
| `ReadMessage` | `read_message`: take a record off the stream and decrypt it |
| `ProcessApplication`, `ProcessSignaling` | the two arms of `process_read_message` |

`read_bytes` is the loop of `ReadMessage` and the two arms. Variables: `hs` (machine and stored
group), `codec`, `inbox` (records under way), `held` (a message read and not yet processed), `sent`
and `delivered` (application bytes, identified by their number), `commits` (which also supplies
fresh commit identities), `error`. `held` is the number, 0 or 1, of records at the head of the
inbox that have been read.

Abstractions:

* A commit is its epoch, the secret it was made on and an identity; the secret of an epoch is named
  by the commit that led to it. Processing succeeds exactly in the right epoch on the right secret.
  OpenMLS itself is external: it refuses a self-update over a pending commit, and merging without a
  pending commit changes nothing.
* A key is a secret with a direction; a record opens exactly under its key and number.
* The policy is free to find an update due at any call, which covers every policy.
* An operation of `EncryptionProvider` is one step, and channels hold any number of records.
  `AsyncProvider` shows that this loses nothing.
* A party that was given an error makes no further calls.
* The application processes a message before it reads the next one (not so in `AsyncProvider`).
* `store_update` rewrites the client's row with the state a handler leaves behind. The row is read
  back only by a later handshake, never by an established connection, so it is not part of this
  state.
* The arms for `KeyUpdate` are `todo!()` and nobody creates one. `ConnectionConfirmation` is handled,
  and is created only by a resumption: `Resumption` has it.

`Init` of `EncryptionProvider` is the state in which `handshake()` has returned on both sides: group in epoch 1, counters at
`HandshakeRecords` (1 if the hellos went through a pre-handshake's codec, which goes on counting, 0
otherwise).

### AsyncProvider

`op` is the operation a party is in the middle of: the signaling message it still has to send, the
change of the cipher that follows it, the bytes that come last. `SendBytes` and `ProcessSignaling` run
the handler and stop at the first send; `StartSend` is `poll_ready` with `start_send` (encrypt into the
buffer), `Write` is `try_empty_buffer` into a TCP connection with `Capacity` records, `Flushed` is the
end of `poll_flush` with the `update_cipher` that follows. `Cancel` drops a suspended future and
leaves the buffer as it is, which is also what an operation leaves behind whose write fails;
`CancelLocked` drops `process_read_message` while it waits for the database, and the signaling message
in hand is lost. `Shutdown` and `PollClose` close the writer; the party may go on reading and processing,
its answers are never written, and applications do not call `send_bytes` any more. `Drop` is a provider
that is dropped without `shutdown`, or a process that dies: its operation goes no further and its
buffer is never written. `ReadEnd` is the `Ok(None)` of `read_message`, which is the same after a
shutdown and after a drop, whatever the reader still has to process. The sink's own buffer and that of
`FramedWrite` are one queue whose limit is `HighWater`. The refinement mapping completes every
operation at once: `Completed(p)` are the records and the codec that the rest of p's operation will
produce.

### InitialHandshake

Each application chooses its pre-handshake, and the client the key that it expects of the server,
in `config`; the choices need not agree. `NewFromStream`, `PskHandshake`, `X25519Write`, `X25519Read` and
`X25519Answer` are the constructors, `SendClientHello`, `AnswerClientHello`, `FinishServer` and
`ReceiveServerHello` the hello exchange. A codec on the secret `Clear` stands for frames without
protection. `read_exact` takes 32 bytes of whatever is there, and what remains of a frame is no frame:
it is misread as one (`MisreadFrame`) or its length makes the reader wait. `Drop` is an application
that gives up, `PeerGone` what the other side then reads. `Use` is any operation of `EncryptionProvider`.

### HandshakeStorage

A session is one run of a client's handshake with its server. The client's stages are those of
`client_handshake` under its lock, with the statements of `delete` and `store` as steps of their own
(`DeleteGroup`, `DeleteRow`, `Store`); `Handle` is any later handler with its `store_update`, `Drop` and
`ServerDrop` are the two arms of `delete()`. `delete()` leaves the provider as it is, so an application
may call it again (which finds no row, or that of a newer session) or call a handler, which then finds
no group and fails. `Crash` ends every session on a database's host;
later sessions are the ones still idle. Message contents are left out; a hello may be refused.

### Resumption

Records are left out. `Break` loses everything in flight and the server's internal state; `Resume`,
`ServerStart` (with `process_resumption`) and `Receive` are the handlers; `Restart` is a crash of the
client, which comes back with its row and with a group that may already be ahead of the row, if the crash
fell into an update (`CrashGroups`). `row` follows the calls of `store` and `store_update`, which `resume`
does not make. `followed` and `behind` record, for the properties, which commits the server has
processed and whether a restart found the row behind the group.

### UpdatePolicy

A policy has a time-based and a traffic-based part or only one or none of them. `used` and
`since` record, for the properties, the bytes sent under the present sending key and when its use began.
Operations are single steps: a send whose future is dropped at encryption_provider/mod.rs:479, with its
bytes encrypted or not, is not counted at line 481, so each dropped send may add its size to what
`UsageBounded` allows.
The clock is passed to `send_bytes` by the caller and taken not to go back.

### TlsRecords

One direction, bytes as numbers, sizes scaled down: a header of two bytes, a tag of one that stands for
what it authenticates (the sequence number and the length), chunks of `MaxRecordSize`. `Arrive(n)` moves
any number of bytes into `FramedRead`'s buffer.

## Properties

The established connection:


* `RecordsDecrypt`, `NoError`: every record opens under the reader's key and number; no application
  is given an error of any kind.
* `NoFork`: the server is never ahead; in the same epoch both have its secret; a client one epoch
  ahead got there by the server's pending commit or by one that is still under way to the server.
* `QuiescentAgreement`: with nothing in flight, nobody waits, nothing is pending, groups, session
  epochs, keys and counters agree.
* `ServerFollowsClient`: a step that moves the server's group moves it to the client's present epoch.
* `KeysMoveForward`: no key is replaced by an older one.
* `ImplementsSecureChannel`: the connection refines `SecureChannel`: bytes arrive once, in order,
  nothing else arrives, and all of them arrive.
* `ClientAnswered`, `ServerUpdateTakesEffect`, `ServerAnswered`: waits end, and an update by the
  server leads to new keys even if the client's update overrides it.

Between awaits (`AsyncProvider`):

* `ImplementsAtomic`: operations may be taken as single steps, whatever the size of the TCP buffers.
* `AnswersNeverFill`: a party that is blocked in an answer is blocked behind application bytes of its
  own, so one that only reads never blocks. (Two applications that both send without reading
  do block each other, as over any TCP connection.)
* `AllDelivered`: all bytes arrive, through key updates and one-record buffers, unless both sides block
  each other, which takes application bytes of both.
* `InOrderOnce`: with dropped futures, read-ahead, shutdowns and dropped providers, a connection may end
  with an error or too early, but what was delivered is a prefix of what was sent.
* `NoLossAtEnd`: who reads the end of the stream after the peer's `shutdown`, and has processed what it
  read, has got all that was encrypted. This is not so if the peer's provider was dropped or its process
  died: what a dropped send left in the sink is then lost, and `read_message` returns the same
  `Ok(None)`, from which the reader cannot tell.

The initial handshake and its database:

* `EstablishedTogether`: no side is established unless both chose the same pre-handshake and key, the
  client only with the server it expects.
* `EarlyRecordsOpen`, `HandsOver`: records sent before the peer has finished open under the right key and
  number; from the connection's point of view both sides start at once.
* `HandshakesEnd` (`InitialHandshake`): both sides learn how it ends unless exactly one of them exchanges
  X25519 keys; then each may wait for bytes of the other.
* `NoConflict`, `OneTracePerCrash`, `DisplacedNeverWrites`: `store` never meets a row; outside of locked
  sections rows and groups belong together but for one trace per crash; a session that a later
  handshake displaced never writes the row.
* `HandshakesEnd` (`HandshakeStorage`): handshakes end although locks are held across a round trip, with a
  host that is server and client on one database. This needs that hosts do not connect in a circle.

Resumption: `ResumedAgreement` (on a connection at rest everything agrees, whatever was lost before),
`NoErrorOnceResumed`, `RefusedOnlyIfFollowed` (the only causes of a refusal are a commit that the
server has processed already and a row behind its group), `ResumesUnlessLost` (a client that keeps
trying is connected again, except in these two cases), `Reconnects` (without the exceptions).

Policy: `UsageBounded`, `FreshKeys`: a party that waits for nothing sends at most the threshold and one
message under a key, and under a key younger than the duration, although the policy is reset when an
update starts and the server's key changes later or by the client's update. While it waits for its peer
there is no bound.

Records: `ReadsSucceed`, `MessagesIntact`, `AllReturned`.

## Runs

| Run | Configuration | Shows |
|---|---|---|
| `connection` | `MCConnection.cfg`: 3 sends per party, 4 commits, both values of the server's request flag, pre-handshake, fairness | types, all safety invariants and action properties, the invariant of the proofs, the refinement of `SecureChannel` with its liveness, `ClientAnswered`, `ServerUpdateTakesEffect`; about 50,000 states |
| `client_requests` | `MCClientRequests.cfg`: client passes TRUE | **violation** of `ServerAnswered`, see Findings |
| `async` | `MCAsync.cfg`: 3 sends, 4 commits, buffers of one record, fairness | types, `AnswersNeverFill`, refinement of `EncryptionProvider`, `AllDelivered`; 179,000 states |
| `async_faults` | `MCAsyncFaults.cfg`: 2 sends, 2 commits, cancel, shutdown, drop, two messages read ahead | `InOrderOnce`, `NoLossAtEnd`; 3.9 million states |
| `handshake` | `MCHandshake.cfg`: all pairs of none, two PSKs and X25519; expected or other server; 3 sends and commits, fairness | types, `EstablishedTogether`, `EarlyRecordsOpen`, `HandsOver`, `HandshakesEnd`; 136,000 states |
| `storage` | `MCStorage.cfg`: two sessions of a profile A to B, one B to C, 2 crashes, fairness | types, `NoConflict`, `OneTracePerCrash`, `DisplacedNeverWrites`, `HandshakesEnd`; 609,000 states |
| `delete_crash` | `MCDeleteCrash.cfg`: one crash | **violation** of `DeleteSucceeds` |
| `resumption` | `MCResumption.cfg`: 4 updates, 3 breaks, 2 restarts, fairness | types, `ResumedAgreement`, `NoErrorOnceResumed`, `RefusedOnlyIfFollowed`, `ResumesUnlessLost`; 143,000 states |
| `lost_confirmation` | `MCLostConfirmation.cfg`: 3 breaks, fairness | **violation** of `Reconnects` |
| `policy` | `MCPolicy.cfg`: threshold 2, duration 1, 4 sends, 3 commits | types, `UsageBounded`, `FreshKeys`; a million states |
| `records` | `MCRecords.cfg`: two messages up to exactly one record, fairness | `ReadsSucceed`, `MessagesIntact`, `AllReturned` |
| `large_messages` | `MCLargeMessages.cfg`: a message of two records | **violation** of `ReadsSucceed` |

Bounds. `MaxSends` bounds the `send_bytes` calls per party and `MaxCommits` the commits that sends
may start (an answer to a request is not blocked by it). A crossing needs one send with an update
from each side; three sends and four commits allow an update that crosses, is overridden, and is
followed by a second crossing with application records before, between and behind, which reaches
every phase of the inductive invariant from every other. The proofs do not depend on the bounds: they hold for all
values. Deadlock checking is off everywhere because applications may stop: a connection rests, a
session is over, a client has no connection to resume.

`Capacity` and `HighWater` are 1 because small buffers block most; `ReadAhead` 2 is the least that
reads past a key switch. Two sessions of a profile, each of which may also be deleted by its
application, and two crashes let a crash hit what follows another. Three breaks let a resumption break and its repetition break again; two restarts let a client
restart from a row that a restart has left behind. A threshold of two messages and four sends let a
policy fire, wait and fire again; three commits let two updates cross and a third follow. Two messages of
up to one record of four bytes, cut at every byte, meet every boundary of header, body and next
frame; sizes do not enter otherwise.

`ServerRequests` has both values: `update_handshake` passes false, and the state machine's own test
passes true (`state_machine/tests.rs:57`); everything holds for both. `ClientRequests` is {FALSE},
as in `update_handshake` (mls_handshake/mod.rs:175).

Fairness. `FairSpec` asks of each party only that it goes on reading and processing, which is what
`read_bytes` does in its loop and what an application that wants its data does. Nobody has to
send, and no update has to be due. Records are not lost: the transport is TCP. In the other modules,
too, fairness is only on steps that a future which is polled takes by itself: the
steps of a started operation or handshake, TCP's delivery, and in `Resumption` a client that goes on
trying. It is weak, except for the locks of `HandshakeStorage`: tokio's mutex is given to its waiters in
the order in which they came, so who waits for a lock gets it also if others, such as applications that
call `delete()` again and again, take it in between; strong fairness of taking the lock says this. There is none for sends,
dropped futures, crashes, breaks, or for bytes that happen to look like a frame.

## Findings

`client_requests`: if a client update requests an update back, the server answers with a
`ConnectionUpdate` and waits ("We're sending an update, so we're now waiting for a response",
server.rs:220). The client, in `WaitingForEpochKeyUpdate`, ignores it ("If we're waiting for
something from the server, we ignore everything else", client.rs:265-267) and goes on waiting for an
`EpochKeyUpdate` that the server did not send. Both wait from then on. The provider never
requests an update as a client, so the case is latent; the branch at server.rs:217-231 is there for it.

`lost_confirmation`: "If we want to resume and we haven't gotten a confirmation from the server
regarding our most recent update, we just resume use that update for the resumption"
(client.rs:173-175). If the server has processed that update and only its confirmation was lost, it refuses
the commit of an epoch it has left, now and at every later attempt: the session cannot be resumed.
`resume` is only used by tests so far (mls_handshake/mod.rs:128 has the TODO). `RefusedOnlyIfFollowed`
shows that, a restart from a row that is behind its group aside, this is the only way to be refused.

`delete_crash`: `delete` removes the group and then the row, in two statements without a transaction
(persistence.rs:105-118). If the process dies in between, the row is left without its group, and every
later `delete`, also the one at the start of each handshake of that profile, fails with
`InvalidSessionId` before it gets to the row.

`large_messages`: `encrypt` splits what does not fit a record of 32768 bytes (tls_aead/mod.rs:297), but the
reader takes each record for a whole `InnerPlaintext` (encryption_provider/mod.rs:531): a message
that `send_bytes` accepted is an error at the reader. (RFC 8446, which the module's documentation
refers to, has 2^14 bytes as the largest record; `TLS_MAX_RECORD_SIZE` is `2 << 14`, twice that.)

## Proofs

Every theorem holds for all values of the constants that satisfy the assumptions of the module: sets of
requests are sets of Booleans and bounds are natural numbers (`RequestsAssumption`,
`BoundsAssumption`, `AsyncAssumption`, `ResumptionAssumption`, `MethodsAssumption`,
`RecordsAssumption`), and what is said below.

**The connection** (`EncryptionProviderProofs`). `TypeCorrect` is the type invariant. The safety
theorems also assume `ClientRequests \subseteq {FALSE}`; the run `client_requests` shows why that is needed. None of the properties is inductive: that the next record decrypts
depends on the key of every record behind it, and that an answer is expected depends on the
message that caused it, which may be anywhere in the channel. `IndInv` describes the whole
connection by two positions: `m`, of the only signaling message under way to the server, and `n`,
of the only `EpochKeyUpdate` under way to the client (0 if there is none). They are
the records after which the sender changed its sending key, so records up to them are under the
receiver's key and later ones under the sender's. With the client's internal state they give
three phases:

* *Idle* (m = n = 0): the client waits for nothing, both groups are in the same epoch, and the server
  may have an offer (its pending commit) under way;
* *Ahead* (m > 0): the client has moved on, with a commit of its own, on top of the server's pending
  one or not, or with the server's; message m tells the server;
* *Answered* (n > 0): the server has followed, and message n tells the client; a new offer may be
  behind it.

To this come numbering of records (`Numbered`), when a commit is pending (`Pending`), what sessions
and waits remember (`Sessions`), which secret each key comes from (`Keys`), and the order of secrets
(`Ages`, for `KeysMoveForward`). An offer that is under way while the client is ahead is ignored when
it arrives, which is why nothing is said of it in that phase.

`IndInv` is proved to be inductive action by action and phase by phase (`Invariance`), and from it
`EveryRecordDecrypts`, `NoApplicationError`, `GroupsNeverFork` and `AgreementAtRest`; then the action
properties `ServerOnlyFollows` and `KeysOnlyMoveForward`, and the safety half of the refinement of
`SecureChannel`, `ConnectionIsChannel`: with `IndInv` no record is an error, and the application bytes
under way are, in this order, those that were sent and not delivered. `OffersAreLed` says what the
server's records look like: it makes offers in `send_bytes` only, so each has application bytes directly
behind it, and what it answers with is never an offer, since the client's messages request none.

**Between await points** (`AsyncProviderProofs`). `AsyncInv` says of what is under way to p (in p's
hands, in TCP, in the sink of its peer) that its application messages are those with the numbers
`delivered[p] + 1` to `sent[Peer(p)]`, in this order, as long as p has not failed. To this
come what an operation in progress has still to do, and that who has closed has only answers left,
which are never written. It is
inductive for all faults, buffer sizes and requests, since it does not depend on keys: a record that
does not decrypt ends the connection. It gives `DeliversInOrderOnce` and `NothingLostAtEnd`.

`OperationsAreSteps` is the refinement that lets the rest of the project take operations for
single steps: `AsyncProvider` implements `EncryptionProvider` (`ImplementsAtomic`). An operation maps
to one step at the moment at which its handler runs or its bytes are encrypted; the parts that it has
still to do count as done, and those that the sink still holds as sent. It assumes
`"cancel" \notin Faults` and `ReadAhead = 1`: a dropped future leaves an operation half done, and
messages may be read ahead under a key that an earlier one would change; `EncryptionProvider` has
neither, and the run `async_faults` checks what remains true of them. Shutdowns and dropped providers are
allowed: for `EncryptionProvider` they are a party that stops.

`AnswersNeverBlock` is `AnswersNeverFill` for every size of the two buffers. Without dropped futures the
sink holds nothing but the record that is being flushed (`BufferInv`, inductive with `AsyncInv`), so a
party that is blocked in an answer has that one record left, and it is the last one under way. The
rest is taken over from the connection through the refinement: `SafeConnection` makes what
`EncryptionProviderProofs` proves available under the mapping of `ImplementsAtomic`. By `IndInv` a
signaling message of the client is the only one under way, so TCP, which is full and holds at least a
record, holds application bytes. The server's answer is the only one under way, too, but there may be
offers in front of it: by `OffersLead` it is none itself, and each of them has bytes behind it. Hence the
assumptions are those of `OperationsAreSteps` and of the connection. In the same way
`NoErrorBetweenAwaits` takes over that no application is given an error.

**The initial handshake** (`InitialHandshakeProofs`), for every set of pre-handshakes, equal or different
choices of the two sides, and with early use of the connection. `HandshakeInv` has two halves. As long as
the server has no group (`Before`), at most one message is under way to each side, and a side that has
passed its pre-handshake has a codec on one of the secrets that its method can give. The secrets of
different methods are different, so when the server opens the client's hello both sides chose the
same. From then on (`After_hello`) the choices agree, the client is at least waiting for the hello,
everything under way to the server is a record of the connection, and the server's hello is ahead of
everything under way to a client that waits for it. `HandshakeTypeCorrect` and `EstablishedAgree` follow.

`HandsOverToConnection` is the refinement of `EncryptionProvider`. A side that is not established counts as
one at the start of the connection; a hello that is ahead of records is left out; records and codecs count
from zero (`FromZero`), also after a pre-handshake, whose codec keeps counting. So every step of the
handshake is a stutter: an entered codec (`enter_connection`) is a new one with the handshake's record
subtracted. Every step of `Use` is the same operation in `EncryptionProvider`. `EarlyRecords` takes the
theorems about the connection over: it instantiates `EncryptionProviderProofs` with this mapping, and so
assumes `ClientRequests \subseteq {FALSE}`.

**Many handshakes** (`HandshakeStorageProofs`), for any number of sessions, profiles, databases and
crashes. `StorageAssumption` says that sessions of one profile use one client database, that a client
and its server do not share one, and that sessions and profiles are finite. `StorageInv` ties each stage
of a handshake or a delete to the lock that it holds and to what it can then count on in the groups
and rows (`Locked`, `Progress`), and counts the groups without row and the rows without group that no
locked section is about to put right (`Traces`): a crash, which gives up the lock in the middle,
is the only step that adds one. It gives `StoreNeverConflicts`, `TracesOfCrashes` and, with the stages,
`DisplacedStaysOut`.

**The update policy** (`UpdatePolicyProofs`), for every threshold and duration and every set of message
sizes with a largest one (`PolicyAssumption`), if the client requests no update back. `PolicyInv` adds
to `IndInv` that the policy knows of all bytes sent under the present key and of when that key came
into use. A server resets its policy when it offers an update and gets the key with the client's answer;
while it waits nothing is said, and the key that it then gets is new. The theorems are
`UsageIsBounded` and `KeysAreFresh`.

**Resumption** (`ResumptionProofs`), for any number of updates, broken connections and restarts. While
the connection is up, `ResInv` has the three phases of `IndInv` on queues of signaling messages;
then there are a client that resumes, and one without a connection. What carries over
from one connection to the next is `Offers`: unless the client restarted from a row behind its group,
the server can follow what the client would offer, if need be after merging its own pending commit, or
has followed it already. `Stored` says what the row keeps of this, since a restart takes the client
back to it. The theorems are `ResumedInAgreement`, `ErrorsOnlyBehind` and `RefusalsExplained`.

**Records** (`TlsRecordsProofs`), for every size of a record, any number of messages and every way
of cutting the stream, if a message with its header of two bytes fits a record
(`MaxLength + 2 <= MaxRecordSize`); the run `large_messages` shows why that is needed. Bytes of messages may
look like frames, so that `decode` is right depends on where it starts. `RecordsInv` says that the bytes
between the sender and `decode`, in the stream or in the buffer, are the frames of the messages
that are not delivered yet: there are positions `start[i]` at which the frame of message i begins
(`LaidOut`). The positions exist rather than being computed, so that a new message only adds one and
nothing has to be proved by induction over the messages. Since the buffer begins where the next frame
does, `decode` either waits for the rest of it or takes exactly this frame; its record has the number that the
reader expects, the tag of that number and length, and the bytes of that message. The theorems are
`EveryReadSucceeds` and `MessagesArriveIntact`.

Every invariant and every action property of the runs is stated by a theorem. Only model-checked are
the properties that need fairness, which are outside the prover: `ClientAnswered`,
`ServerUpdateTakesEffect`, `ResumesUnlessLost`, `HandshakesEnd` of handshakes and of their storage,
`AllDelivered`, `AllReturned`, and the liveness half of the refinement of `SecureChannel`.

## Not modelled

* `delete_old_versions`: dead code, and there is only one version. (With a second one, `load` would
  not see rows of the first, `delete` would leave them, and `store` would conflict with them.)
* `KeyUpdate`: its arms are `todo!()`. Alerts: declared, never used.
* `encrypt_with_header`, `decrypt_with_header`: not used by the connection.
* HKDF labels and AEAD internals (a key and a number are identities), wire formats of MLS, the JSON of
  the stored row.
* `openmls_provider.rs`, `authentication.rs`, `handshake.rs`, `lib.rs`: glue and declarations without state.
* `initialize_storage`: schema migrations.
* Errors of TCP itself, such as a reset of the connection. A write that fails leaves the state of a
  dropped future (`Cancel` in `AsyncProvider`), except that `send_bytes` then still counts its bytes in the
  policy. A read that fails ends the connection with an error, which may happen to any party at any time
  and delivers nothing.
