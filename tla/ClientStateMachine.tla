------------------------- MODULE ClientStateMachine -------------------------
(***************************************************************************)
(* The client half of the handshake state machine after the hello          *)
(* exchange: the handlers of state_machine/client.rs as functions from a   *)
(* state and an input to a result.                                         *)
(***************************************************************************)
EXTENDS Signaling

Waiting(tag, commit, secret) ==
    [tag |-> tag, mls_message |-> commit, secrets |-> secret]

\* receive_server_hello: the client joins the group in the state Running.
client_start ==
    [epoch |-> create_server_session.epoch, internal_state |-> Running,
     group |-> create_server_session]

\* Mutant: the wait for the server's own key update is forgotten.
client_is_waiting_for_own_update(state) ==
    state.internal_state.tag \in {"WaitingForConnectionConfirmation",
                                  "WaitingForEpochKeyUpdate"}

\* is_waiting_for_response.
client_is_waiting(state) == state.internal_state.tag # "Running"

\* A self-update that the client merges at once, without waiting for the
\* server, and announces with a ConnectionUpdate.
self_update_and_merge(state, requested, fresh) ==
    LET made   == update(state.group, fresh)
        merged == merge_update(made.group)
    IN  IF made.ok
        THEN Done([epoch |-> merged.epoch,
                   internal_state |-> Waiting("WaitingForEpochKeyUpdate",
                                              made.commit, merged.secret),
                   group |-> merged],
                  1, ConnectionUpdate(made.commit, requested),
                  ClientSecret(merged.secret))
        ELSE Failed("ResumptionError", [state EXCEPT !.group = made.group])

\* ClientHandshakeState::update.
client_update(state, requested, fresh) ==
    IF client_is_waiting(state)
    THEN Failed("WaitingForResponse", state)
    ELSE self_update_and_merge(state, requested, fresh)

\* ClientHandshakeState::process_update: follow the server's commit, then
\* either confirm its epoch or, if the server asked for it, answer with an
\* update of our own.
client_process_update(state, message, fresh) ==
    LET processed == process_mls_update(state.group, message.mls_commit, FALSE)
        followed  == [state EXCEPT !.epoch = processed.group.epoch,
                                   !.group = processed.group]
        secret    == processed.group.secret
    IN  IF ~processed.ok
        THEN Failed("ConnectionUpdateError", [state EXCEPT !.group = processed.group])
        ELSE IF message.update_requested
             THEN self_update_and_merge(followed, FALSE, fresh)
             ELSE Done([followed EXCEPT !.internal_state =
                            Waiting("WaitingForEpochKeyUpdateReturn", NoCommit, secret)],
                       0, create_epoch_key_update(followed.group),
                       ClientSecret(secret))

\* The arm of receive_signaling_message for an EpochKeyUpdate or a
\* ConnectionConfirmation.  The internal state is taken out first, which
\* leaves Running behind even if the message is then refused.
client_receive_confirmation(state, message, expected, secret_update) ==
    LET taken == [state EXCEPT !.internal_state = Running]
    IN  IF state.internal_state.tag \notin expected
        THEN Failed("UnexpectedMessage", taken)
        ELSE IF ~process_epoch_key_update(state.group, message)
             THEN Failed("EpochMismatch", taken)
             ELSE Done(taken, 0, NoMessage, secret_update)

\* ClientHandshakeState::receive_signaling_message.
client_receive_signaling_message(state, message, fresh) ==
    CASE message.type = "ConnectionUpdate" ->
            IF client_is_waiting(state)
            THEN Done(state, 0, NoMessage, NoSecretUpdate)
            ELSE client_process_update(state, message, fresh)
      [] message.type = "ConnectionConfirmation" ->
            client_receive_confirmation(state, message,
                {"WaitingForConnectionConfirmation"}, NoSecretUpdate)
      [] message.type = "EpochKeyUpdate" ->
            client_receive_confirmation(state, message,
                {"WaitingForEpochKeyUpdate", "WaitingForEpochKeyUpdateReturn"},
                ServerSecret(state.internal_state.secrets))

=============================================================================
