-------------------------- MODULE HandshakeStorage --------------------------
(***************************************************************************)
(* Many handshakes on shared databases: client_handshake, server_handshake *)
(* and the later operations of MlsHandshake, each behind the lock of its   *)
(* database (Arc<Mutex<Connection>>), with the SQL statements of           *)
(* persistence.rs as steps of their own, so that a process can die between *)
(* two of them.  A client holds the lock of its database from before it    *)
(* deletes the previous session of its profile until it has stored the new *)
(* one, across the round trip to the server.                               *)
(*                                                                         *)
(* A session is one run of a client's handshake with its server and what   *)
(* becomes of it; it names the MLS group that it creates.                  *)
(***************************************************************************)
EXTENDS Naturals, FiniteSets

CONSTANTS
    Session, Profile, Database,
    ProfileOf,   \* ProfileOf[s]: the client_id of the session, in its client's database
    ClientDb,    \* ClientDb[s], ServerDb[s]: the databases of its two ends
    ServerDb,
    NoSession,   \* no row, or nobody holds the lock
    MaxCrashes   \* bound on crashes of processes

ASSUME StorageAssumption ==
    /\ ProfileOf \in [Session -> Profile]
    /\ ClientDb \in [Session -> Database] /\ ServerDb \in [Session -> Database]
    /\ \A s \in Session : ClientDb[s] # ServerDb[s]
    /\ \A s, t \in Session : ProfileOf[s] = ProfileOf[t] => ClientDb[s] = ClientDb[t]
    /\ IsFiniteSet(Session) /\ IsFiniteSet(Profile)
    /\ NoSession \notin Session /\ MaxCrashes \in Nat

VARIABLES
    lock,     \* lock[d]: the session for which the lock of d is held
    groups,   \* groups[d]: MLS groups that database d holds
    rows,     \* rows[p]: the session of profile p in handshake_states
    client,   \* client[s]: where the client's end of s is
    server,   \* server[s]: where the server's end of s is
    wire,     \* wire[s]: the hello that is under way, or "closed"
    error,    \* error[s]: what the client's application was told
    crashes

vars == <<lock, groups, rows, client, server, wire, error, crashes>>

Init ==
    /\ lock = [d \in Database |-> NoSession]
    /\ groups = [d \in Database |-> {}]
    /\ rows = [p \in Profile |-> NoSession]
    /\ client = [s \in Session |-> "idle"]
    /\ server = [s \in Session |-> "read"]
    /\ wire = [s \in Session |-> "none"]
    /\ error = [s \in Session |-> "ok"]
    /\ crashes = 0

Row(s) == rows[ProfileOf[s]]

Free(d) == lock[d] = NoSession

\* The guard is dropped: the lock of d is released if s held it.
Release(d, s) == [lock EXCEPT ![d] = IF @ = s THEN NoSession ELSE @]

At(s, from, to) == client[s] = from /\ client' = [client EXCEPT ![s] = to]

\* The client's operation fails with e: the lock guard and the socket are dropped.
Fail(s, e) ==
    /\ client' = [client EXCEPT ![s] = "failed"]
    /\ error' = [error EXCEPT ![s] = e]
    /\ wire' = [wire EXCEPT ![s] = "closed"]
    /\ lock' = Release(ClientDb[s], s)

-----------------------------------------------------------------------------
\* The application calls handshake().
Begin(s) ==
    /\ At(s, "idle", "lock")
    /\ UNCHANGED <<lock, groups, rows, server, wire, error, crashes>>

\* client_handshake: self.connection.lock().await.
ClientLock(s) ==
    /\ At(s, "lock", "delete")
    /\ Free(ClientDb[s])
    /\ lock' = [lock EXCEPT ![ClientDb[s]] = s]
    /\ UNCHANGED <<groups, rows, server, wire, error, crashes>>

\* ClientHandshakeState::delete up to the group: load the row of the profile
\* and delete its group.  A client may be here at the start of its handshake
\* ("delete") or because its application calls delete() ("drop").
DeletesFrom == {"delete", "drop"}

\* delete() leaves the session as it is: its application may call it, or a
\* handler, again.
AfterDelete(at) == IF at = "delete" THEN "start" ELSE "established"

AtRow(at) == IF at = "delete" THEN "delete_row" ELSE "drop_row"

\* The lock is given up when delete() returns; a handshake goes on with it.
LockAfterDelete(s, at) == IF at = "delete" THEN lock ELSE Release(ClientDb[s], s)

\* Mutant: the row is deleted, its group is left in the database.
DeleteGroup_rowOnly(s) ==
    /\ client[s] \in DeletesFrom
    /\ client' = [client EXCEPT ![s] = AtRow(@)]
    /\ UNCHANGED <<lock, groups, rows, server, wire, error, crashes>>

DeleteGroup(s) ==
    /\ client[s] \in DeletesFrom
    /\ \/ /\ Row(s) = NoSession
          /\ client' = [client EXCEPT ![s] = AfterDelete(@)]
          /\ lock' = LockAfterDelete(s, client[s])
          /\ UNCHANGED <<groups, wire, error>>
       \/ /\ Row(s) \in groups[ClientDb[s]]
          /\ groups' = [groups EXCEPT ![ClientDb[s]] = @ \ {Row(s)}]
          /\ client' = [client EXCEPT ![s] = AtRow(@)]
          /\ UNCHANGED <<lock, wire, error>>
       \/ /\ Row(s) \notin groups[ClientDb[s]] \union {NoSession}
          /\ IF client[s] = "delete" THEN Fail(s, "InvalidSessionId")
             ELSE /\ client' = [client EXCEPT ![s] = AfterDelete(@)]
                  /\ error' = [error EXCEPT ![s] = "InvalidSessionId"]
                  /\ lock' = Release(ClientDb[s], s)
                  /\ UNCHANGED wire
          /\ UNCHANGED groups
    /\ UNCHANGED <<rows, server, crashes>>

\* ClientHandshakeState::delete, second statement.
DeleteRow(s) ==
    /\ \E at \in DeletesFrom :
         /\ At(s, AtRow(at), AfterDelete(at))
         /\ lock' = LockAfterDelete(s, at)
    /\ rows' = [rows EXCEPT ![ProfileOf[s]] = NoSession]
    /\ UNCHANGED <<groups, server, wire, error, crashes>>

\* Mutant: the lock is given up while the client waits for the ServerHello.
Start_unlocked(s) ==
    /\ At(s, "start", "wait")
    /\ wire' = [wire EXCEPT ![s] = IF @ = "closed" THEN @ ELSE "ClientHello"]
    /\ lock' = Release(ClientDb[s], s)
    /\ UNCHANGED <<groups, rows, server, error, crashes>>

\* ClientHandshake::start and the send of the ClientHello.  Over a connection
\* that the server has closed, the send or the read that follows fails.
Start(s) ==
    /\ At(s, "start", "wait")
    /\ wire' = [wire EXCEPT ![s] = IF @ = "closed" THEN @ ELSE "ClientHello"]
    /\ UNCHANGED <<lock, groups, rows, server, error, crashes>>

\* Mutant: the server takes the lock before it reads the ClientHello.
ServerLock_early(s) ==
    /\ server[s] = "read"
    /\ Free(ServerDb[s])
    /\ lock' = [lock EXCEPT ![ServerDb[s]] = s]
    /\ server' = [server EXCEPT ![s] = "start"]
    /\ UNCHANGED <<groups, rows, client, wire, error, crashes>>

\* server_handshake: the first message has been read, then the lock is taken.
ServerLock(s) ==
    /\ server[s] = "read" /\ wire[s] = "ClientHello"
    /\ Free(ServerDb[s])
    /\ lock' = [lock EXCEPT ![ServerDb[s]] = s]
    /\ server' = [server EXCEPT ![s] = "start"]
    /\ UNCHANGED <<groups, rows, client, wire, error, crashes>>

\* server_handshake when the stream ends before a ClientHello.
NoClientHello(s) ==
    /\ server[s] = "read" /\ wire[s] = "closed"
    /\ server' = [server EXCEPT ![s] = "failed"]
    /\ UNCHANGED <<lock, groups, rows, client, wire, error, crashes>>

\* ServerHandshake::start, which stores the group, and the send of its answer,
\* after which the lock is released; a ClientHello that is refused closes the
\* connection.
ServerStart(s) ==
    /\ server[s] = "start" /\ wire[s] \in {"ClientHello", "closed"}
    /\ \/ /\ server' = [server EXCEPT ![s] = "established"]
          /\ groups' = [groups EXCEPT ![ServerDb[s]] = @ \union {s}]
          /\ wire' = [wire EXCEPT ![s] = IF @ = "closed" THEN @ ELSE "ServerHello"]
       \/ /\ server' = [server EXCEPT ![s] = "failed"]
          /\ wire' = [wire EXCEPT ![s] = "closed"]
          /\ UNCHANGED groups
    /\ lock' = Release(ServerDb[s], s)
    /\ UNCHANGED <<rows, client, error, crashes>>

\* MlsHandshake::delete, the server's arm: there is no row, only the group.
\* Called again, it finds no group and changes nothing.
ServerDrop(s) ==
    /\ server[s] = "established" /\ Free(ServerDb[s])
    /\ server' = [server EXCEPT ![s] = "dropped"]
    /\ groups' = [groups EXCEPT ![ServerDb[s]] = @ \ {s}]
    /\ UNCHANGED <<lock, rows, client, wire, error, crashes>>

\* receive_server_hello: the client joins the group, which is stored, unless
\* the welcome does not verify.
ReceiveServerHello(s) ==
    /\ client[s] = "wait" /\ wire[s] = "ServerHello"
    /\ \/ /\ client' = [client EXCEPT ![s] = "store"]
          /\ groups' = [groups EXCEPT ![ClientDb[s]] = @ \union {s}]
          /\ UNCHANGED <<lock, wire, error>>
       \/ Fail(s, "UnexpectedVerifyingKey") /\ UNCHANGED groups
    /\ UNCHANGED <<rows, server, crashes>>

\* The stream ends before a ServerHello.
NoServerHello(s) ==
    /\ client[s] = "wait" /\ wire[s] = "closed"
    /\ Fail(s, "DecodingError")
    /\ UNCHANGED <<groups, rows, server, crashes>>

\* Mutant: the row is inserted under the session's id instead of the profile's.
Store_bySession(s) ==
    /\ client[s] = "store"
    /\ rows' = [k \in Profile \union {s} |-> IF k = s THEN s ELSE rows[k]]
    /\ client' = [client EXCEPT ![s] = "established"]
    /\ lock' = Release(ClientDb[s], s)
    /\ UNCHANGED <<groups, server, wire, error, crashes>>

\* ClientHandshakeState::store, an INSERT: a second row of a profile violates
\* the primary key.  The lock is released when client_handshake returns.
Store(s) ==
    /\ client[s] = "store"
    /\ \/ /\ Row(s) = NoSession
          /\ rows' = [rows EXCEPT ![ProfileOf[s]] = s]
          /\ client' = [client EXCEPT ![s] = "established"]
          /\ lock' = Release(ClientDb[s], s)
          /\ UNCHANGED <<wire, error>>
       \/ /\ Row(s) # NoSession
          /\ Fail(s, "Persistence")
          /\ UNCHANGED rows
    /\ UNCHANGED <<groups, server, crashes>>

\* update_handshake or process_signaling_message of an established client: the
\* group is loaded, then store_update rewrites the profile's row, if any.  After
\* a delete the group is gone, and the call fails.
Handle(s) ==
    /\ client[s] = "established" /\ Free(ClientDb[s])
    /\ \/ /\ s \in groups[ClientDb[s]]
          /\ rows' = [rows EXCEPT ![ProfileOf[s]] = IF @ = NoSession THEN @ ELSE s]
          /\ UNCHANGED error
       \/ /\ s \notin groups[ClientDb[s]]
          /\ error' = [error EXCEPT ![s] = "SessionGone"]
          /\ UNCHANGED rows
    /\ UNCHANGED <<lock, groups, client, server, wire, crashes>>

\* MlsHandshake::delete, the client's arm, up to the lock.
Drop(s) ==
    /\ At(s, "established", "drop")
    /\ Free(ClientDb[s])
    /\ lock' = [lock EXCEPT ![ClientDb[s]] = s]
    /\ UNCHANGED <<groups, rows, server, wire, error, crashes>>

\* The application gives up: the future of the handshake is dropped at one of
\* its awaits.
Cancel(s) ==
    /\ client[s] \in {"lock", "wait"}
    /\ Fail(s, "cancelled")
    /\ UNCHANGED <<groups, rows, server, crashes>>

\* The process that has database d open dies; what it does next is a session
\* that is idle now.
Crash(d) ==
    /\ crashes < MaxCrashes
    /\ crashes' = crashes + 1
    /\ lock' = [lock EXCEPT ![d] = NoSession]
    /\ LET clients == {s \in Session : ClientDb[s] = d /\ client[s] # "idle"}
           servers == {s \in Session : ServerDb[s] = d /\ client[s] # "idle"}
       IN  /\ clients \union servers # {}
           /\ client' = [s \in Session |-> IF s \in clients THEN "dead" ELSE client[s]]
           /\ server' = [s \in Session |-> IF s \in servers THEN "dead" ELSE server[s]]
           /\ wire' = [s \in Session |-> IF s \in clients \union servers THEN "closed"
                                         ELSE wire[s]]
    /\ UNCHANGED <<groups, rows, error>>

ClientStep(s) ==
    DeleteGroup(s) \/ DeleteRow(s) \/ Start(s) \/ ReceiveServerHello(s)
        \/ NoServerHello(s) \/ Store(s)

Next ==
    \/ \E s \in Session :
         \/ Begin(s) \/ ClientLock(s) \/ ClientStep(s) \/ Handle(s) \/ Drop(s) \/ Cancel(s)
         \/ ServerLock(s) \/ NoClientHello(s) \/ ServerStart(s) \/ ServerDrop(s)
    \/ \E d \in Database : Crash(d)

\* A handshake goes on by itself, a server serves whoever says hello, and who
\* waits for a lock gets it although others take it too: tokio's Mutex is given
\* to its waiters in the order in which they came.  (A session's two ends never
\* wait for their locks at the same time.)
Fairness ==
    \A s \in Session :
        /\ SF_vars(ClientLock(s) \/ ServerLock(s))
        /\ WF_vars(ClientStep(s)) /\ WF_vars(ServerStart(s))

Spec == Init /\ [][Next]_vars

FairSpec == Spec /\ Fairness

-----------------------------------------------------------------------------
\* What an application can be told.
ErrorKinds == {"ok", "InvalidSessionId", "UnexpectedVerifyingKey", "DecodingError",
               "Persistence", "SessionGone", "cancelled"}

\* Every variable has its type.
TypeOK ==
    /\ lock \in [Database -> Session \union {NoSession}]
    /\ groups \in [Database -> SUBSET Session]
    /\ rows \in [Profile -> Session \union {NoSession}]
    /\ client \in [Session -> {"idle", "lock", "delete", "delete_row", "start", "wait",
                                "store", "established", "drop", "drop_row", "failed",
                                "dead"}]
    /\ server \in [Session -> {"read", "start", "established", "dropped", "failed", "dead"}]
    /\ wire \in [Session -> {"none", "ClientHello", "ServerHello", "closed"}]
    /\ error \in [Session -> ErrorKinds]
    /\ crashes \in 0 .. MaxCrashes

\* store never meets a row: between the delete and the INSERT of a handshake no
\* other handshake of the same profile gets to store its own.
NoConflict == \A s \in Session : error[s] # "Persistence"

OrphanGroups == {s \in Session : s \in groups[ClientDb[s]] /\ Row(s) # s}

BrokenRows == {p \in Profile : rows[p] # NoSession
                               /\ rows[p] \notin groups[ClientDb[rows[p]]]}

\* Rows and groups belong together: outside of a locked section, a group
\* without its row or a row without its group is the trace of a crash, and one
\* crash leaves at most one of them.
OneTracePerCrash ==
    (\A d \in Database : Free(d)) =>
        Cardinality(OrphanGroups) + Cardinality(BrokenRows) <= crashes

\* A session that was displaced by a later handshake of its profile never
\* writes the row again (its group is gone before store_update is reached):
\* only the store of a handshake puts a session into a row.
DisplacedNeverWrites ==
    [][\A p \in Profile : rows'[p] \notin {rows[p], NoSession} => client[rows'[p]] = "store"]_rows

\* The client's end of s is between its call of handshake() and its result.
UnderWay(s) == client[s] \in {"lock", "delete", "delete_row", "start", "wait", "store"}

\* If no database is used in both roles around a circle, every handshake that
\* was begun ends, in success or failure, although each holds the lock of its
\* database while it waits for a server that needs the lock of its own, and
\* although applications go on calling delete() and handlers: sessions are
\* finitely many and begin once, so in the end none is under way.
HandshakesEnd == <>[](\A s \in Session : ~UnderWay(s))

\* delete does what it says: "Delete the handshake state and the underlying MLS
\* group state from the database."  It never stumbles over a row that an
\* earlier delete left behind.
DeleteSucceeds == \A s \in Session : error[s] # "InvalidSessionId"

=============================================================================
