------------------------------ MODULE MlsGroup ------------------------------
(***************************************************************************)
(* The two-member MLS group behind a connection: what OpenMLS keeps per    *)
(* member (external) and the operations of MlsSession in                   *)
(* state_machine/mls_group.rs on it.                                       *)
(*                                                                         *)
(* Cryptography is abstracted to identities.  A commit carries the epoch   *)
(* it was made in, the secret it was made on, and an identity of its own;  *)
(* merging it moves a member to the next epoch, whose secret is identified *)
(* by the commit.  Identity 0 is the secret of the epoch that the welcome  *)
(* message establishes.  The traffic secrets exported in an epoch are      *)
(* determined by the epoch's secret, so the same identity names them.      *)
(***************************************************************************)
EXTENDS Naturals

Commit == [epoch : Nat, base : Nat, id : Nat]

\* No commit is pending.  Real commits have identities from 1 on.
NoCommit == [epoch |-> 0, base |-> 0, id |-> 0]

\* What one member stores of the group.
Group == [epoch : Nat, secret : Nat, pending : Commit]

\* The group is built in epoch 0; adding the client moves it to epoch 1, and
\* the client joins there through the welcome message.
create_server_session == [epoch |-> 1, secret |-> 0, pending |-> NoCommit]

\* MlsSession::update.  OpenMLS refuses a self-update over a pending commit.
update(group, fresh) ==
    LET commit == [epoch |-> group.epoch, base |-> group.secret, id |-> fresh]
    IN  IF group.pending = NoCommit
        THEN [ok |-> TRUE, commit |-> commit,
              group |-> [group EXCEPT !.pending = commit]]
        ELSE [ok |-> FALSE, commit |-> NoCommit, group |-> group]

\* MlsSession::merge_update.  Without a pending commit OpenMLS changes nothing
\* and reports success.
merge_update(group) ==
    IF group.pending = NoCommit
    THEN group
    ELSE [epoch   |-> group.epoch + 1,
          secret  |-> group.pending.id,
          pending |-> NoCommit]

\* Mutant: the pending commit is merged one epoch too early.
resolve_pending_early(group, commit, drop_pending_commit) ==
    IF commit.epoch = group.epoch /\ group.pending # NoCommit
    THEN merge_update(group)
    ELSE IF drop_pending_commit
         THEN [group EXCEPT !.pending = NoCommit]
         ELSE group

\* What process_mls_update does to the stored group before it looks at the
\* commit: a commit from the next epoch confirms our own pending one, any
\* other one supersedes it if the caller gives way (drop_pending_commit).
resolve_pending(group, commit, drop_pending_commit) ==
    IF commit.epoch = group.epoch + 1 /\ group.pending # NoCommit
    THEN merge_update(group)
    ELSE IF drop_pending_commit
         THEN [group EXCEPT !.pending = NoCommit]
         ELSE group

\* MlsSession::process_mls_update.  process_message decrypts and authenticates
\* the commit only in the epoch, and on the secret, that it was made for.  A
\* commit that is refused leaves the pending commit already resolved.
process_mls_update(group, commit, drop_pending_commit) ==
    LET resolved == resolve_pending(group, commit, drop_pending_commit)
    IN  IF commit.epoch = resolved.epoch /\ commit.base = resolved.secret
        THEN [ok |-> TRUE,
              group |-> [epoch   |-> resolved.epoch + 1,
                         secret  |-> commit.id,
                         pending |-> NoCommit]]
        ELSE [ok |-> FALSE, group |-> resolved]

=============================================================================
