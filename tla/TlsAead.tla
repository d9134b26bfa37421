------------------------------ MODULE TlsAead -------------------------------
(***************************************************************************)
(* The record protection of tls_aead/mod.rs: one codec per party, shared   *)
(* by its sink and its stream.  A key is identified by the traffic secret  *)
(* it is expanded from and by the direction (the party that sends with     *)
(* it); a record is its key, its sequence number and its plaintext.  The   *)
(* AEAD (external) opens a record exactly under the key and the nonce it   *)
(* was sealed with.                                                        *)
(***************************************************************************)
EXTENDS Signaling

Key == [secret : Nat, sender : Party]

Codec == [send_key : Key, recv_key : Key, send_seq : Nat, recv_seq : Nat]

Record == [key : Key, seq : Nat, payload : InnerPlaintext]

Peer(p) == IF p = "client" THEN "server" ELSE "client"

\* expand_client_secret / expand_server_secret: one key per direction.
expand_secret(secret, sender) == [secret |-> secret, sender |-> sender]

\* TlsAeadCodec::new, after `seq` records in each direction.
new_codec(p, secret, seq) ==
    [send_key |-> expand_secret(secret, p), recv_key |-> expand_secret(secret, Peer(p)),
     send_seq |-> seq, recv_seq |-> seq]

\* The kind of update that replaces the secret party p sends with.
own_kind(p) == IF p = "client" THEN "ClientSecret" ELSE "ServerSecret"

\* Mutant: sequence numbers start again with a new key.
update_traffic_secrets_reset(codec, p, u) ==
    [codec EXCEPT
        !.send_key = IF u.kind \in {own_kind(p), "Both"}
                     THEN expand_secret(u.secret, p) ELSE @,
        !.recv_key = IF u.kind \in {own_kind(Peer(p)), "Both"}
                     THEN expand_secret(u.secret, Peer(p)) ELSE @,
        !.send_seq = 0,
        !.recv_seq = 0]

\* TlsAeadCodec::update_traffic_secrets.  Sequence numbers go on.
update_traffic_secrets(codec, p, u) ==
    [codec EXCEPT
        !.send_key = IF u.kind \in {own_kind(p), "Both"}
                     THEN expand_secret(u.secret, p) ELSE @,
        !.recv_key = IF u.kind \in {own_kind(Peer(p)), "Both"}
                     THEN expand_secret(u.secret, Peer(p)) ELSE @]

\* TlsAeadCodec::encrypt for a plaintext that fits one record.
encrypt(codec, plaintext) ==
    [key |-> codec.send_key, seq |-> codec.send_seq, payload |-> plaintext]

\* Mutant: the sequence number runs backwards.
after_encrypt_down(codec) == [codec EXCEPT !.send_seq = @ - 1]

after_encrypt(codec) == [codec EXCEPT !.send_seq = @ + 1]

\* TlsAeadCodec::decrypt succeeds, and then moves to the next number.
decrypt(codec, record) ==
    record.key = codec.recv_key /\ record.seq = codec.recv_seq

after_decrypt(codec) == [codec EXCEPT !.recv_seq = @ + 1]

=============================================================================
