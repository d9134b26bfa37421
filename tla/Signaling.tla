----------------------------- MODULE Signaling ------------------------------
(***************************************************************************)
(* The plaintexts that travel over an established connection               *)
(* (InnerPlaintext of encryption_provider/mod.rs) and the signaling        *)
(* messages of messages.rs inside them, together with the common shape of  *)
(* the two handshake state machines and of what their handlers return.     *)
(***************************************************************************)
EXTENDS MlsGroup

Party == {"client", "server"}

SignalingType == {"ConnectionUpdate", "ConnectionConfirmation", "EpochKeyUpdate"}

\* One record shape for all plaintexts; the fields that a type does not use
\* keep the values given by the constructors below.
InnerPlaintext ==
    [type : SignalingType \union {"Application"}, data : Nat, epoch : Nat,
     mls_commit : Commit, update_requested : BOOLEAN]

Application(bytes) ==
    [type |-> "Application", data |-> bytes, epoch |-> 0,
     mls_commit |-> NoCommit, update_requested |-> FALSE]

ConnectionUpdate(commit, requested) ==
    [type |-> "ConnectionUpdate", data |-> 0, epoch |-> 0,
     mls_commit |-> commit, update_requested |-> requested]

EpochKeyUpdate(e) ==
    [type |-> "EpochKeyUpdate", data |-> 0, epoch |-> e,
     mls_commit |-> NoCommit, update_requested |-> FALSE]

ConnectionConfirmation(e) ==
    [type |-> "ConnectionConfirmation", data |-> 0, epoch |-> e,
     mls_commit |-> NoCommit, update_requested |-> FALSE]

\* "No message": used where the code returns None for the response.
NoMessage == Application(0)

ClientTag == {"Running", "WaitingForConnectionConfirmation",
              "WaitingForEpochKeyUpdate", "WaitingForEpochKeyUpdateReturn"}

ServerTag == {"Running", "WaitingForUpdate"}

\* ClientInternalState and ServerInternalState: the variant, the message of
\* a PendingUpdate and the traffic secrets that the variant carries.
Internal == [tag : ClientTag \union ServerTag, mls_message : Commit, secrets : Nat]

Running == [tag |-> "Running", mls_message |-> NoCommit, secrets |-> 0]

\* ClientHandshakeState / ServerHandshakeState: the session's epoch, the
\* internal state, and the group that the party's database holds.
Handshake == [epoch : Nat, internal_state : Internal, group : Group]

\* Option<SecretUpdate>: which direction's secret changes, and to what.
SecretUpdates == [kind : {"None", "ClientSecret", "ServerSecret", "Both"}, secret : Nat]

NoSecretUpdate == [kind |-> "None", secret |-> 0]

\* Mutant: the client takes over both directions before the server confirmed.
ClientSecretBoth(s) == [kind |-> "Both", secret |-> s]

ClientSecret(s) == [kind |-> "ClientSecret", secret |-> s]

ServerSecret(s) == [kind |-> "ServerSecret", secret |-> s]

\* Mutant: the server takes over the client's direction only.
BothClientOnly(s) == [kind |-> "ClientSecret", secret |-> s]

Both(s) == [kind |-> "Both", secret |-> s]

\* The errors that handlers and the codec report; "ok" is the absence of one.
ErrorKind == {"ok", "WaitingForResponse", "ResumptionError", "ConnectionUpdateError",
              "UnexpectedMessage", "EpochMismatch", "DecryptionError"}

\* What a handler returns: the state it leaves behind, whether it succeeded
\* ("ok"), the number of commits it made, the message for the peer and the
\* update of the traffic secrets.
Failed(error, state) ==
    [error |-> error, state |-> state, made |-> 0,
     message |-> NoMessage, secret_update |-> NoSecretUpdate]

Done(state, made, message, secret_update) ==
    [error |-> "ok", state |-> state, made |-> made,
     message |-> message, secret_update |-> secret_update]

\* MlsSession::process_epoch_key_update: the confirmed epoch is our own.
process_epoch_key_update(group, message) == message.epoch = group.epoch

\* HandshakeState::create_epoch_key_update.
create_epoch_key_update(group) == EpochKeyUpdate(group.epoch)

=============================================================================
