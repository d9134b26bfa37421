----------------------------- MODULE Resumption -----------------------------
(***************************************************************************)
(* Session resumption: the client resumes over a new connection after the  *)
(* old one broke (ClientHandshakeState::resume, ServerHandshake::start     *)
(* with a Resumption).  A break loses whatever is in flight, and with it   *)
(* the server's internal state, which lives only as long as a connection.  *)
(* The groups are in the databases of the two parties; the client's state  *)
(* is in memory and, as of the last store, in a row of its database, from  *)
(* which a restarted client loads it.                                      *)
(*                                                                         *)
(* Records are left out: a queue per party carries the handshake messages. *)
(***************************************************************************)
EXTENDS ClientStateMachine, ServerStateMachine, Sequences

CONSTANTS
    ServerRequests,  \* values the server passes for update_requested
    MaxUpdates,      \* bound on the commits that calls of update may cause
    MaxBreaks,       \* bound on broken connections
    MaxRestarts      \* bound on restarts of the client's process

ASSUME ResumptionAssumption ==
    /\ ServerRequests \subseteq BOOLEAN
    /\ MaxUpdates \in Nat /\ MaxBreaks \in Nat /\ MaxRestarts \in Nat

VARIABLES
    hs,        \* hs[p]: p's handshake state and stored MLS group
    row,       \* the client's stored handshake state
    link,      \* the connection: "up", "down", or "resuming" until it is accepted
    queue,     \* queue[p]: messages under way to p
    traffic,   \* traffic[p]: the TrafficSecrets p uses
    error,     \* the first error that a handler reported on a live connection
    commits,   \* number of commits made so far
    breaks, restarts,
    followed,  \* history: the commits of the client that the server has processed
    behind     \* history: a restart found the row behind the stored group

vars == <<hs, row, link, queue, traffic, error, commits, breaks, restarts, followed, behind>>

SameSecret(secret) == [client_secret |-> secret, server_secret |-> secret]

\* What update_traffic_secrets does to the secrets behind a codec's keys.
traffic_update(secrets, u) ==
    [client_secret |-> IF u.kind \in {"ClientSecret", "Both"} THEN u.secret
                       ELSE secrets.client_secret,
     server_secret |-> IF u.kind \in {"ServerSecret", "Both"} THEN u.secret
                       ELSE secrets.server_secret]

\* HandshakePayloadOut::Resumption.
ResumptionMessage(commit) == [ConnectionUpdate(commit, FALSE) EXCEPT !.type = "Resumption"]

\* Mutant: the row also keeps the group.
store_update_all(state) == state

\* store / store_update write the state, not the group, which OpenMLS stores itself.
store_update(state) == [epoch |-> state.epoch, internal_state |-> state.internal_state]

\* load: the state of the row, together with the group the database holds.
load(stored, group) ==
    [epoch |-> stored.epoch, internal_state |-> stored.internal_state, group |-> group]

Init ==
    /\ hs = [p \in Party |-> IF p = "client" THEN client_start ELSE server_start]
    /\ row = store_update(client_start)
    /\ link = "up"
    /\ queue = [p \in Party |-> << >>]
    /\ traffic = [p \in Party |-> SameSecret(create_server_session.secret)]
    /\ error = "ok"
    /\ commits = 0 /\ breaks = 0 /\ restarts = 0
    /\ followed = {} /\ behind = FALSE

-----------------------------------------------------------------------------
\* The states in which resume makes a fresh commit.
FreshTags == {"Running", "WaitingForEpochKeyUpdateReturn"}

\* The body of resume: the commit that is waiting is sent again, or a fresh one
\* is made and merged.
resume_with(state, again, fresh) ==
    LET made   == update(state.group, fresh)
        group  == IF again THEN state.group ELSE merge_update(made.group)
        commit == IF again THEN state.internal_state.mls_message ELSE made.commit
        secret == IF again THEN state.internal_state.secrets ELSE group.secret
    IN  IF ~again /\ ~made.ok
        THEN Failed("ResumptionError", [state EXCEPT !.internal_state = Running])
        ELSE Done([epoch |-> IF again THEN state.epoch ELSE group.epoch,
                   internal_state |-> Waiting("WaitingForConnectionConfirmation",
                                              commit, secret),
                   group |-> group],
                  IF again THEN 0 ELSE 1, ResumptionMessage(commit), Both(secret))

\* Mutant: an update that the server has not confirmed is superseded by a fresh one.
client_resume_fresh(state, fresh) == resume_with(state, FALSE, fresh)

\* Mutant: resume does not wait for the confirmation.
client_resume_running(state, fresh) ==
    LET r == resume_with(state, state.internal_state.tag \notin FreshTags, fresh)
    IN  [r EXCEPT !.state.internal_state = Running]

\* ClientHandshakeState::resume.
client_resume(state, fresh) ==
    resume_with(state, state.internal_state.tag \notin FreshTags, fresh)

\* Mutant: the server keeps a pending commit of its own.
process_resumption_keeping(group, message) ==
    LET processed == process_mls_update(group, message.mls_commit, FALSE)
    IN  IF ~processed.ok
        THEN Failed("ConnectionUpdateError", server_follow(server_start, processed.group))
        ELSE Done(server_follow(server_start,
                                [processed.group EXCEPT !.pending = group.pending]),
                  0, ConnectionConfirmation(processed.group.epoch),
                  Both(processed.group.secret))

\* Mutant: the server refuses to resume while a commit of its own is pending.
process_resumption_refusing(group, message) ==
    IF group.pending # NoCommit
    THEN Failed("ConnectionUpdateError", server_follow(server_start, group))
    ELSE process_resumption_keeping(group, message)

\* ServerHandshake::process_resumption: a new state machine around the stored
\* group, whose pending commit gives way to the client's.
process_resumption(group, message) ==
    LET processed == process_mls_update(group, message.mls_commit, TRUE)
        state     == server_follow(server_start, processed.group)
    IN  IF ~processed.ok
        THEN Failed("ConnectionUpdateError", state)
        ELSE Done(state, 0, ConnectionConfirmation(processed.group.epoch),
                  Both(processed.group.secret))

process_signaling_message(p, message) ==
    IF p = "client" THEN client_receive_signaling_message(hs[p], message, commits + 1)
                    ELSE server_receive_signaling_message(hs[p], message, commits + 1)

-----------------------------------------------------------------------------
\* What a handler's result does to party p, to its row and to the peer's queue.
Apply(p, r, sofar) ==
    /\ hs' = [hs EXCEPT ![p] = r.state]
    /\ commits' = commits + r.made
    /\ traffic' = [traffic EXCEPT ![p] = traffic_update(@, r.secret_update)]
    /\ queue' = IF r.message = NoMessage THEN sofar
                ELSE [sofar EXCEPT ![IF p = "client" THEN "server" ELSE "client"] =
                          Append(@, r.message)]

\* update_handshake on a live connection; a party that waits is told to.
Update(p) ==
    /\ link = "up" /\ error = "ok" /\ commits < MaxUpdates
    /\ \E requested \in IF p = "client" THEN {FALSE} ELSE ServerRequests :
         LET r == IF p = "client" THEN client_update(hs[p], requested, commits + 1)
                                  ELSE server_update(hs[p], requested, commits + 1)
         IN  /\ r.error # "WaitingForResponse"
             /\ error' = r.error
             /\ Apply(p, r, queue)
             /\ row' = IF p = "client" /\ r.error = "ok" THEN store_update(r.state) ELSE row
    /\ UNCHANGED <<link, breaks, restarts, followed, behind>>

\* A client that waits ignores the server's update and returns before the row
\* is stored; every other success stores it.
Ignored(message) == message.type = "ConnectionUpdate" /\ client_is_waiting(hs["client"])

\* process_signaling_message on a live connection.
Receive(p) ==
    /\ link = "up" /\ error = "ok"
    /\ queue[p] # << >>
    /\ LET message == Head(queue[p])
           r       == process_signaling_message(p, message)
       IN  /\ error' = r.error
           /\ Apply(p, r, [queue EXCEPT ![p] = Tail(@)])
           /\ row' = IF p = "client" /\ r.error = "ok" /\ ~Ignored(message)
                     THEN store_update(r.state) ELSE row
           /\ followed' = IF p = "server" /\ r.error = "ok"
                               /\ message.type = "ConnectionUpdate"
                          THEN followed \union {message.mls_commit} ELSE followed
    /\ UNCHANGED <<link, breaks, restarts, behind>>

\* The client resumes over a new connection.  The row is not stored.
Resume ==
    /\ link = "down" /\ error = "ok"
    /\ LET r == client_resume(hs["client"], commits + 1)
       IN  /\ link' = IF r.error = "ok" THEN "resuming" ELSE "down"
           /\ error' = r.error
           /\ Apply("client", r, queue)
    /\ UNCHANGED <<row, breaks, restarts, followed, behind>>

\* ServerHandshake::start with a Resumption: it is accepted, or the handshake
\* fails and the connection is closed.
ServerStart ==
    /\ link = "resuming"
    /\ LET message == Head(queue["server"])
           r       == process_resumption(hs["server"].group, message)
       IN  /\ link' = IF r.error = "ok" THEN "up" ELSE "down"
           /\ Apply("server", r, [queue EXCEPT !["server"] = << >>])
           /\ followed' = IF r.error = "ok" THEN followed \union {message.mls_commit}
                          ELSE followed
    /\ UNCHANGED <<row, error, breaks, restarts, behind>>

\* The connection breaks: everything in flight is lost, and so is the server's
\* state machine, whose internal state is not stored.
Break ==
    /\ link # "down" /\ breaks < MaxBreaks
    /\ link' = "down"
    /\ breaks' = breaks + 1
    /\ queue' = [p \in Party |-> << >>]
    /\ hs' = [hs EXCEPT !["server"].internal_state = Running]
    /\ UNCHANGED <<row, traffic, error, commits, restarts, followed, behind>>

\* What the database may hold of a group while a self-update is in progress.
UpdateStages(group) ==
    LET made == update(group, commits + 1).group
    IN  {group, made, merge_update(made)}

\* The groups that the client's database may hold when its process dies: the
\* present one, or one that a handler has already changed (update, resume, the
\* processing of a server's commit) before the row was stored.
CrashGroups ==
    LET client == hs["client"]
        updating == \/ link = "up" /\ client.internal_state = Running
                    \/ link = "down" /\ client.internal_state.tag \in FreshTags
        following == /\ link = "up" /\ client.internal_state = Running
                     /\ queue["client"] # << >>
        message == Head(queue["client"])
        processed == process_mls_update(client.group, message.mls_commit, FALSE).group
    IN  {client.group}
        \union (IF updating THEN UpdateStages(client.group) ELSE {})
        \union (IF following /\ message.type = "ConnectionUpdate"
                THEN IF message.update_requested THEN UpdateStages(processed) ELSE {processed}
                ELSE {})

\* The client's process dies and comes back with what its database holds.
Restart ==
    /\ restarts < MaxRestarts
    /\ restarts' = restarts + 1
    /\ \E group \in CrashGroups :
         /\ hs' = [hs EXCEPT !["client"] = load(row, group),
                             !["server"].internal_state = Running]
         /\ behind' = (behind \/ row.epoch # group.epoch \/ group.pending # NoCommit)
    /\ commits' = commits + 1
    /\ link' = "down"
    /\ queue' = [p \in Party |-> << >>]
    /\ UNCHANGED <<row, traffic, error, breaks, followed>>

Next ==
    \/ \E p \in Party : Update(p) \/ Receive(p)
    \/ Resume
    \/ ServerStart
    \/ Break
    \/ Restart

\* The client keeps trying to resume, and both sides process what arrives.
Fairness == WF_vars(Resume) /\ WF_vars(ServerStart) /\ \A p \in Party : WF_vars(Receive(p))

Spec == Init /\ [][Next]_vars

FairSpec == Spec /\ Fairness

-----------------------------------------------------------------------------
\* Every variable has its type.
TypeOK ==
    /\ hs \in [Party -> Handshake]
    /\ row \in [epoch : Nat, internal_state : Internal]
    /\ link \in {"up", "down", "resuming"}
    /\ traffic \in [Party -> [client_secret : Nat, server_secret : Nat]]
    /\ error \in ErrorKind
    /\ commits \in Nat /\ breaks \in 0 .. MaxBreaks /\ restarts \in 0 .. MaxRestarts
    /\ followed \subseteq Commit
    /\ behind \in BOOLEAN

\* Whatever was lost before, on a connection that is up and at rest both sides
\* are in the same epoch, nobody waits, no commit is pending, and the traffic
\* secrets match (what the state machine's test asserts after its resumption).
ResumedAgreement ==
    link = "up" /\ error = "ok" /\ (\A p \in Party : queue[p] = << >>) =>
        /\ hs["client"] = hs["server"]
        /\ \A p \in Party :
            /\ hs[p].internal_state = Running
            /\ hs[p].group.pending = NoCommit
            /\ traffic[p] = SameSecret(hs[p].group.secret)

\* No handler reports an error on a connection that was established or
\* resumed: what an earlier connection left behind never surfaces later.
NoErrorOnceResumed == error # "ok" => behind /\ link = "down"

\* process_resumption refuses a commit only if the server has processed that
\* very commit before, or if the client restarted from a row that was behind
\* its stored group.
RefusedOnlyIfFollowed ==
    [][link = "resuming" /\ link' = "down" /\ breaks' = breaks /\ restarts' = restarts =>
         behind \/ Head(queue["server"]).mls_commit \in followed]_vars

Resumed == link = "up" /\ hs["client"].internal_state = Running

\* The client would offer a commit that the server has processed: only the
\* confirmation was lost.
ConfirmationLost ==
    /\ link = "down"
    /\ hs["client"].internal_state.tag \notin FreshTags
    /\ hs["client"].internal_state.mls_message \in followed

\* A client whose connection broke is connected again in the end and waits for
\* nothing, whatever updates of either side were lost, unless a confirmation
\* was lost or the client restarted from a row behind its group.
ResumesUnlessLost == link = "down" ~> Resumed \/ ConfirmationLost \/ behind

\* A client whose connection broke is eventually connected again: an update that
\* was not confirmed is used for the resumption.
Reconnects == link = "down" ~> Resumed

=============================================================================
