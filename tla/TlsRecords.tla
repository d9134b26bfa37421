----------------------------- MODULE TlsRecords -----------------------------
(***************************************************************************)
(* From messages to bytes and back, in one direction of a connection: the  *)
(* serialization of InnerPlaintext, the splitting into records of          *)
(* TlsAeadCodec::encrypt, the frames of TlsFrameCodec, a TCP stream that   *)
(* may be cut anywhere, and the way back through decode, decrypt and       *)
(* poll_next.                                                              *)
(*                                                                         *)
(* Sizes are scaled down: a header is a type and a one-byte length, the    *)
(* tag of the AEAD one number that binds the sequence number and the       *)
(* associated data, and the largest chunk has MaxRecordSize bytes (32768   *)
(* in the code).                                                           *)
(***************************************************************************)
EXTENDS Naturals, SequencesExt

CONSTANTS
    MaxRecordSize,  \* TLS_MAX_RECORD_SIZE
    Bytes,          \* values of the bytes that applications send
    MaxLength,      \* bound on the length of a message
    MaxMessages     \* bound on the number of messages

ASSUME RecordsAssumption ==
    MaxRecordSize \in Nat \ {0} /\ Bytes \subseteq 0 .. 9 /\ MaxLength \in Nat /\ MaxMessages \in Nat

VARIABLES
    messages,   \* the messages that were sent
    send_seq, recv_seq,
    stream,     \* bytes that were written and have not arrived
    src,        \* bytes in the buffer of FramedRead
    delivered,  \* what poll_next returned: messages
    errors      \* and how many errors

vars == <<messages, send_seq, recv_seq, stream, src, delivered, errors>>

TLS_APP_DATA == 23
TLS_HDR_SIZE == 2
TLS_AEAD_TAG_SIZE == 1

-----------------------------------------------------------------------------
\* InnerPlaintext: a byte for the variant (0 or 1), the length, the bytes.
Plaintexts == [variant : {0, 1}, data : UNION {[1 .. n -> Bytes] : n \in 0 .. MaxLength}]

tls_serialize(m) == <<m.variant, Len(m.data)>> \o m.data

\* tls_deserialize reads from the front and does not look at what is left.
tls_deserialize(b) ==
    IF Len(b) >= 2 /\ b[1] \in {0, 1} /\ Len(b) >= 2 + b[2]
    THEN [ok |-> TRUE, message |-> [variant |-> b[1], data |-> SubSeq(b, 3, 2 + b[2])]]
    ELSE [ok |-> FALSE, message |-> [variant |-> 0, data |-> << >>]]

\* Mutant: chunks_exact, which leaves out an incomplete chunk.
chunks_exact(b) ==
    [i \in 1 .. Len(b) \div MaxRecordSize |->
        SubSeq(b, (i - 1) * MaxRecordSize + 1, i * MaxRecordSize)]

\* The chunks that encrypt splits its data into.
chunks(b) ==
    [i \in 1 .. (Len(b) + MaxRecordSize - 1) \div MaxRecordSize |->
        SubSeq(b, (i - 1) * MaxRecordSize + 1, Min({i * MaxRecordSize, Len(b)}))]

Tag(seq, length) == 1000 + 100 * seq + length

\* Mutant: the authenticated length leaves out the type byte.
associated_length_short(chunk) == Len(chunk) + TLS_AEAD_TAG_SIZE

\* The length in the associated data.
associated_length(chunk) == Len(chunk) + TLS_AEAD_TAG_SIZE + 1

\* TlsAeadCodec::encrypt for one chunk: the type byte is appended and the
\* whole sealed under the next number and the header to come.
encrypt(chunk, seq) == chunk \o <<TLS_APP_DATA, Tag(seq, associated_length(chunk))>>

\* TlsFrameCodec::encode.
encode(data) == <<TLS_APP_DATA, Len(data)>> \o data

\* Mutant: a frame is taken only when there are bytes behind it.
decode_ready_late(b) == Len(b) >= TLS_HDR_SIZE /\ Len(b) > b[2] + TLS_HDR_SIZE

\* TlsFrameCodec::decode finds a frame.
decode_ready(b) == Len(b) >= TLS_HDR_SIZE /\ Len(b) >= b[2] + TLS_HDR_SIZE

\* TlsFrameCodec::decode.
decode(b) ==
    LET end == b[2] + TLS_HDR_SIZE
    IN  [length |-> b[2], data |-> SubSeq(b, TLS_HDR_SIZE + 1, end),
         rest |-> SubSeq(b, end + 1, Len(b))]

\* TlsAeadCodec::decrypt: the tag is right; tag and type byte are removed.
decrypt_ok(frame, seq) == frame.data # << >> /\ Last(frame.data) = Tag(seq, frame.length)

decrypt(frame) == SubSeq(frame.data, 1, Len(frame.data) - 2)

-----------------------------------------------------------------------------
Init ==
    /\ messages = << >> /\ stream = << >> /\ src = << >> /\ delivered = << >>
    /\ send_seq = 0 /\ recv_seq = 0 /\ errors = 0

\* send: start_send serializes and encrypts into the buffer, and every record
\* of the buffer becomes a frame.
Send(m) ==
    /\ Len(messages) < MaxMessages
    /\ LET parts  == chunks(tls_serialize(m))
           frames == [i \in DOMAIN parts |-> encode(encrypt(parts[i], send_seq + i - 1))]
       IN  /\ stream' = stream \o FlattenSeq(frames)
           /\ send_seq' = send_seq + Len(parts)
    /\ messages' = Append(messages, m)
    /\ UNCHANGED <<recv_seq, src, delivered, errors>>

\* TCP delivers some of the bytes.
Arrive(n) ==
    /\ n \in 1 .. Len(stream)
    /\ src' = src \o SubSeq(stream, 1, n)
    /\ stream' = SubSeq(stream, n + 1, Len(stream))
    /\ UNCHANGED <<messages, send_seq, recv_seq, delivered, errors>>

\* poll_next: one frame, decrypted, is one message.
PollNext ==
    /\ decode_ready(src)
    /\ LET frame == decode(src)
           read  == tls_deserialize(decrypt(frame))
       IN  /\ src' = frame.rest
           /\ IF decrypt_ok(frame, recv_seq)
              THEN /\ recv_seq' = recv_seq + 1
                   /\ delivered' = IF read.ok THEN Append(delivered, read.message) ELSE delivered
                   /\ errors' = IF read.ok THEN errors ELSE errors + 1
              ELSE /\ errors' = errors + 1
                   /\ UNCHANGED <<recv_seq, delivered>>
    /\ UNCHANGED <<messages, send_seq, stream>>

Next ==
    \/ \E m \in Plaintexts : Send(m)
    \/ \E n \in 1 .. Len(stream) : Arrive(n)
    \/ PollNext

\* What was written arrives, and the reader polls.
Fairness == WF_vars(\E n \in 1 .. Len(stream) : Arrive(n)) /\ WF_vars(PollNext)

Spec == Init /\ [][Next]_vars

FairSpec == Spec /\ Fairness

-----------------------------------------------------------------------------
\* Messages of any size and content: poll_next never returns an error for what
\* a peer's send_bytes accepted.
ReadsSucceed == errors = 0

\* However the stream is cut or run together, what poll_next returns are the
\* messages that were sent, in order, with all of their bytes.
MessagesIntact == IsPrefix(delivered, messages)

\* Every message that was sent is returned in the end; none stays behind in the
\* buffer for want of another byte.
AllReturned ==
    \A n \in 1 .. MaxMessages : Len(messages) >= n ~> Len(delivered) >= n

=============================================================================
