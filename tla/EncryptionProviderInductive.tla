--------------------- MODULE EncryptionProviderInductive ---------------------
(***************************************************************************)
(* The inductive invariant behind the safety properties of an established  *)
(* connection.                                                             *)
(*                                                                         *)
(* At any time at most one record in each direction matters to the keys:   *)
(* the one after which the sender changed its sending key.  Towards the    *)
(* server that is the client's only unprocessed signaling message, towards *)
(* the client the server's only unprocessed EpochKeyUpdate.  The positions *)
(* m and n of these records (0 if there is none) and the client's internal *)
(* state give the three phases of a key update.                            *)
(***************************************************************************)
EXTENDS EncryptionProviderProperties

toServer == inbox["server"]
toClient == inbox["client"]

cgroup == hs["client"].group
sgroup == hs["server"].group

clientWaits == client_is_waiting(hs["client"])
serverWaits == server_is_waiting(hs["server"])

\* k is the position in q of the only record with one of these types.
OnlyAt(q, types, k) ==
    /\ k \in 0 .. Len(q)
    /\ \A i \in 1 .. Len(q) : q[i].payload.type \in types <=> i = k

\* Records up to position k are under the receiver's key, later ones under the
\* sender's; if there is no switch in between the two keys are the same.
KeysChangeAt(q, k, recv_key, send_key) ==
    /\ \A i \in 1 .. Len(q) : q[i].key = IF i <= k THEN recv_key ELSE send_key
    /\ k = 0 => recv_key = send_key

\* The records of q are numbered consecutively, from the one that the receiver
\* expects next (or holds) up to the next number of the sender.
Consecutive(q, taken, recv_seq, send_seq) ==
    /\ taken <= Len(q)
    /\ \A i \in 1 .. Len(q) : q[i].seq + taken + 1 = recv_seq + i
    /\ send_seq + taken = recv_seq + Len(q)

Numbered ==
    /\ Consecutive(toServer, held["server"], codec["server"].recv_seq,
                   codec["client"].send_seq)
    /\ Consecutive(toClient, held["client"], codec["client"].recv_seq,
                   codec["server"].send_seq)

\* The client merges its commits at once; the server holds a commit, made in
\* its present epoch, exactly while it waits.
Pending ==
    /\ cgroup.pending = NoCommit
    /\ sgroup.epoch >= 1
    /\ serverWaits <=> sgroup.pending # NoCommit
    /\ serverWaits => /\ sgroup.pending.epoch = sgroup.epoch
                      /\ sgroup.pending.base = sgroup.secret

\* The sessions remember the epochs of their groups, and a waiting client
\* remembers the secrets of the epoch it is in.
Sessions ==
    /\ \A p \in Party : hs[p].epoch = hs[p].group.epoch
    /\ clientWaits =>
         /\ hs["client"].internal_state.tag \in
                {"WaitingForEpochKeyUpdate", "WaitingForEpochKeyUpdateReturn"}
         /\ hs["client"].internal_state.secrets = cgroup.secret
    /\ ~clientWaits => hs["client"].internal_state = Running
    /\ ~serverWaits => hs["server"].internal_state = Running

\* All keys but the client's receiving key come from the group's secret.
Keys ==
    /\ codec["client"].send_key = expand_secret(cgroup.secret, "client")
    /\ codec["server"].recv_key = expand_secret(sgroup.secret, "client")
    /\ codec["server"].send_key = expand_secret(sgroup.secret, "server")

\* Secrets are numbered in the order in which they came into use.
Ages ==
    /\ codec["client"].recv_key.secret <= sgroup.secret
    /\ sgroup.secret <= cgroup.secret
    /\ cgroup.secret <= commits
    /\ serverWaits => sgroup.secret < sgroup.pending.id /\ sgroup.pending.id <= commits

SameEpoch == cgroup.epoch = sgroup.epoch /\ cgroup.secret = sgroup.secret

\* Behind position k of q there is a ConnectionUpdate iff there is a pending
\* commit, it is the only one, and it carries the pending commit.
Offer(q, k, pending) ==
    /\ \A i \in 1 .. Len(q) :
         i > k /\ q[i].payload.type = "ConnectionUpdate" =>
            /\ pending # NoCommit
            /\ q[i].payload.mls_commit = pending
            /\ \A j \in 1 .. Len(q) :
                 j > k /\ q[j].payload.type = "ConnectionUpdate" => j = i
    /\ pending # NoCommit =>
         \E i \in 1 .. Len(q) : i > k /\ q[i].payload.type = "ConnectionUpdate"

\* The client waits for nothing.
Idle(m, n) ==
    /\ ~clientWaits /\ m = 0 /\ n = 0
    /\ SameEpoch
    /\ Offer(toClient, 0, sgroup.pending)

\* The client's update, possibly on top of the server's pending one.
UpdateUnderWay(message) ==
    /\ message.type = "ConnectionUpdate"
    /\ hs["client"].internal_state.tag = "WaitingForEpochKeyUpdate"
    /\ ~message.update_requested
    /\ message.mls_commit.id = cgroup.secret
    /\ message.mls_commit.epoch + 1 = cgroup.epoch
    /\ \/ /\ message.mls_commit.epoch = sgroup.epoch
          /\ message.mls_commit.base = sgroup.secret
       \/ /\ message.mls_commit.epoch = sgroup.epoch + 1
          /\ message.mls_commit.base = sgroup.pending.id
          /\ serverWaits

\* The client's confirmation of the server's update.
ConfirmationUnderWay(message) ==
    /\ message.type = "EpochKeyUpdate"
    /\ hs["client"].internal_state.tag = "WaitingForEpochKeyUpdateReturn"
    /\ message.epoch = cgroup.epoch
    /\ cgroup.epoch = sgroup.epoch + 1
    /\ cgroup.secret = sgroup.pending.id
    /\ serverWaits

\* The client is ahead of the server, and its signaling message under way.
Ahead(m, n) ==
    /\ clientWaits /\ m > 0 /\ n = 0
    /\ UpdateUnderWay(toServer[m].payload) \/ ConfirmationUnderWay(toServer[m].payload)

\* The server has caught up, and its EpochKeyUpdate is under way.
Answered(m, n) ==
    /\ clientWaits /\ m = 0 /\ n > 0
    /\ toClient[n].payload.epoch = cgroup.epoch
    /\ SameEpoch
    /\ Offer(toClient, n, sgroup.pending)

\* The phase of the connection, and the channels in it.
Phase(m, n) ==
    /\ OnlyAt(toServer, SignalingType, m)
    /\ OnlyAt(toClient, {"EpochKeyUpdate", "ConnectionConfirmation"}, n)
    /\ n > 0 => toClient[n].payload.type = "EpochKeyUpdate"
    /\ KeysChangeAt(toServer, m, codec["server"].recv_key, codec["client"].send_key)
    /\ KeysChangeAt(toClient, n, codec["client"].recv_key, codec["server"].send_key)
    /\ Idle(m, n) \/ Ahead(m, n) \/ Answered(m, n)

\* The inductive invariant of the established connection.
IndInv ==
    /\ TypeOK
    /\ NoError
    /\ Numbered
    /\ Pending
    /\ Sessions
    /\ Keys
    /\ Ages
    /\ \E m \in 0 .. Len(toServer), n \in 0 .. Len(toClient) : Phase(m, n)

=============================================================================
