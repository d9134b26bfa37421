------------------------- MODULE ServerStateMachine -------------------------
(***************************************************************************)
(* The server half of the handshake state machine after the hello          *)
(* exchange: the handlers of state_machine/server.rs as functions from a   *)
(* state and an input to a result.                                         *)
(***************************************************************************)
EXTENDS Signaling

WaitingForUpdate == [tag |-> "WaitingForUpdate", mls_message |-> NoCommit, secrets |-> 0]

\* process_client_hello: the server creates the group and starts Running.
server_start ==
    [epoch |-> create_server_session.epoch, internal_state |-> Running,
     group |-> create_server_session]

\* is_waiting_for_response.
server_is_waiting(state) == state.internal_state.tag = "WaitingForUpdate"

\* A self-update that stays pending until the client's answer, announced with
\* a ConnectionUpdate.
self_update_and_wait(state, requested, fresh, secret_update) ==
    LET made == update(state.group, fresh)
    IN  IF made.ok
        THEN Done([state EXCEPT !.internal_state = WaitingForUpdate,
                                !.group = made.group],
                  1, ConnectionUpdate(made.commit, requested), secret_update)
        ELSE Failed("ResumptionError", [state EXCEPT !.group = made.group])

\* Mutant: the server merges its own update without waiting for the client.
server_update_merging(state, requested, fresh) ==
    IF server_is_waiting(state)
    THEN Failed("WaitingForResponse", state)
    ELSE LET r == self_update_and_wait(state, requested, fresh, NoSecretUpdate)
         IN  [r EXCEPT !.state.group = merge_update(@)]

\* Mutant: the server sends under its update's secret before the client answers.
server_update_eager(state, requested, fresh) ==
    IF server_is_waiting(state)
    THEN Failed("WaitingForResponse", state)
    ELSE self_update_and_wait(state, requested, fresh, ServerSecret(fresh))

\* ServerHandshakeState::update.  No secret changes before the client answers.
server_update(state, requested, fresh) ==
    IF server_is_waiting(state)
    THEN Failed("WaitingForResponse", state)
    ELSE self_update_and_wait(state, requested, fresh, NoSecretUpdate)

\* Mutant: a client update does not end the wait for an answer to our own.
server_follow_still_waiting(state, group) ==
    [state EXCEPT !.epoch = group.epoch, !.group = group]

\* A client update overrides any internal state of the server.
server_follow(state, group) ==
    [epoch |-> group.epoch, internal_state |-> Running, group |-> group]

\* ServerHandshakeState::process_update: the client's update overrides
\* whatever the server waits for.
server_process_update(state, message, fresh) ==
    LET processed == process_mls_update(state.group, message.mls_commit, TRUE)
        followed  == server_follow(state, processed.group)
        both      == Both(processed.group.secret)
    IN  IF ~processed.ok
        THEN Failed("ConnectionUpdateError", [state EXCEPT !.group = processed.group])
        ELSE IF message.update_requested
             THEN self_update_and_wait(followed, FALSE, fresh, both)
             ELSE Done(followed, 0, create_epoch_key_update(followed.group), both)

\* The arm of receive_signaling_message for an EpochKeyUpdate: the client
\* follows our update, so we merge it, and only then compare the epochs.
server_receive_epoch_key_update(state, message) ==
    LET merged == [state EXCEPT !.epoch = merge_update(state.group).epoch,
                                !.group = merge_update(state.group)]
    IN  IF ~server_is_waiting(state)
        THEN Failed("UnexpectedMessage", state)
        ELSE IF ~process_epoch_key_update(merged.group, message)
             THEN Failed("EpochMismatch", merged)
             ELSE Done([merged EXCEPT !.internal_state = Running], 0,
                       create_epoch_key_update(merged.group),
                       Both(merged.group.secret))

\* Mutant: the server, too, gives its own update priority over the client's.
server_receive_own_priority(state, message, fresh) ==
    CASE message.type = "ConnectionUpdate" ->
            IF server_is_waiting(state)
            THEN Done(state, 0, NoMessage, NoSecretUpdate)
            ELSE server_process_update(state, message, fresh)
      [] message.type = "ConnectionConfirmation" ->
            Failed("UnexpectedMessage", state)
      [] message.type = "EpochKeyUpdate" ->
            server_receive_epoch_key_update(state, message)

\* ServerHandshakeState::receive_signaling_message.
server_receive_signaling_message(state, message, fresh) ==
    CASE message.type = "ConnectionUpdate" ->
            server_process_update(state, message, fresh)
      [] message.type = "ConnectionConfirmation" ->
            Failed("UnexpectedMessage", state)
      [] message.type = "EpochKeyUpdate" ->
            server_receive_epoch_key_update(state, message)

=============================================================================
