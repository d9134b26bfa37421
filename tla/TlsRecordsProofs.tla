-------------------------- MODULE TlsRecordsProofs --------------------------
(***************************************************************************)
(* Proofs about messages, records, frames and bytes, for every size of a   *)
(* record, any number of messages and every way to cut the stream.         *)
(***************************************************************************)
EXTENDS TlsRecords, Integers, SequenceTheorems, TLAPS

\* The frame of a message that is the record with number n.
Frame(m, n) == encode(encrypt(tls_serialize(m), n))

\* The bytes of the wire, behind base bytes that are decoded already, are the
\* frames of the messages of ms after the first d; that of the i-th message
\* follows the byte start[i].  A message is one record, so their numbers agree.
LaidOut(ms, d, wire, base, start) ==
    /\ start[d + 1] = base
    /\ start[Len(ms) + 1] = base + Len(wire)
    /\ \A i, j \in d + 1 .. Len(ms) + 1 : i <= j => start[i] <= start[j]
    /\ \A i \in d + 1 .. Len(ms) :
         /\ start[i + 1] = start[i] + Len(Frame(ms[i], i - 1))
         /\ \A k \in 1 .. Len(Frame(ms[i], i - 1)) :
              wire[start[i] - base + k] = Frame(ms[i], i - 1)[k]

RecordsInv ==
    /\ messages \in Seq(Plaintexts) /\ delivered \in Seq(Plaintexts)
    /\ src \in Seq(Nat) /\ stream \in Seq(Nat)
    /\ errors = 0
    /\ send_seq = Len(messages) /\ recv_seq = Len(delivered)
    /\ Len(delivered) <= Len(messages)
    /\ \A i \in 1 .. Len(delivered) : delivered[i] = messages[i]
    /\ \E base \in Nat, start \in [1 .. Len(messages) + 1 -> Nat] :
         LaidOut(messages, Len(delivered), src \o stream, base, start)

-----------------------------------------------------------------------------
(***************************************************************************)
(* Frames of messages that fit one record.                                 *)
(***************************************************************************)

\* Two pieces of bytes, one behind the other.
LEMMA Join ==
    ASSUME NEW s \in Seq(Nat), NEW t \in Seq(Nat)
    PROVE  /\ s \o t \in Seq(Nat) /\ Len(s \o t) = Len(s) + Len(t)
           /\ \A i \in 1 .. Len(s) : (s \o t)[i] = s[i]
           /\ \A i \in 1 .. Len(t) : (s \o t)[Len(s) + i] = t[i]
<1> DEFINE v == s \o t
<1>1. Len(s) \in Nat /\ Len(t) \in Nat
  OBVIOUS
<1>2. /\ v \in Seq(Nat) /\ Len(v) = Len(s) + Len(t)
      /\ \A i \in 1 .. Len(s) + Len(t) : v[i] = IF i <= Len(s) THEN s[i] ELSE t[i - Len(s)]
  BY ConcatProperties
<1> HIDE DEF v
<1>3. ASSUME NEW i \in 1 .. Len(s) PROVE v[i] = s[i]
  <2>1. i \in 1 .. Len(s) + Len(t) /\ i <= Len(s)
    BY <1>1
  <2> QED
    BY <1>2, <2>1
<1>4. ASSUME NEW i \in 1 .. Len(t) PROVE v[Len(s) + i] = t[i]
  <2> DEFINE k == Len(s) + i
  <2>1. k \in 1 .. Len(s) + Len(t) /\ ~(k <= Len(s)) /\ k - Len(s) = i
    BY <1>1
  <2> HIDE DEF k
  <2>2. v[k] = t[k - Len(s)]
    BY <1>2, <2>1
  <2> QED
    BY <2>1, <2>2 DEF k
<1> QED
  BY <1>2, <1>3, <1>4 DEF v

\* Three pieces.
LEMMA JoinThree ==
    ASSUME NEW s \in Seq(Nat), NEW t \in Seq(Nat), NEW u \in Seq(Nat)
    PROVE  (s \o t) \o u = s \o (t \o u)
BY ConcatAssociative

\* A message, its bytes, its record and its frame.
LEMMA Sizes ==
    ASSUME NEW m \in Plaintexts, NEW n \in Nat
    PROVE  /\ Len(m.data) \in 0 .. MaxLength /\ m.data \in Seq(Nat) /\ m.variant \in {0, 1}
           /\ tls_serialize(m) \in Seq(Nat) /\ Len(tls_serialize(m)) = 2 + Len(m.data)
           /\ encrypt(tls_serialize(m), n) \in Seq(Nat)
           /\ Len(encrypt(tls_serialize(m), n)) = 4 + Len(m.data)
           /\ encode(encrypt(tls_serialize(m), n)) \in Seq(Nat)
           /\ Len(encode(encrypt(tls_serialize(m), n))) = 6 + Len(m.data)
<1>1. PICK l \in 0 .. MaxLength : m.data \in [1 .. l -> Bytes]
  BY DEF Plaintexts
<1>2. Bytes \subseteq Nat /\ MaxLength \in Nat
  BY RecordsAssumption
<1> DEFINE d == m.data
<1> HIDE DEF d
<1>3. d \in Seq(Nat) /\ Len(d) = l /\ l \in Nat
  <2>1. l \in Nat /\ d \in [1 .. l -> Bytes]
    BY <1>1, <1>2 DEF d
  <2>2. \A i \in 1 .. l : d[i] \in Nat
    BY <1>2, <2>1
  <2>3. d \in [1 .. l -> Nat]
    BY <2>1, <2>2
  <2> QED
    BY <2>1, <2>3
<1>4. m.variant \in {0, 1}
  BY DEF Plaintexts
<1>5. <<m.variant, Len(m.data)>> \in Seq(Nat) /\ Len(<<m.variant, Len(m.data)>>) = 2
  BY <1>3, <1>4 DEF d
<1>6. tls_serialize(m) \in Seq(Nat) /\ Len(tls_serialize(m)) = 2 + Len(m.data)
  BY <1>3, <1>5, ConcatProperties DEF d, tls_serialize
<1> DEFINE b == tls_serialize(m)
           t == <<TLS_APP_DATA, Tag(n, associated_length(b))>>
<1> HIDE DEF b
<1>7. t \in Seq(Nat) /\ Len(t) = 2
  BY <1>3, <1>6 DEF b, d, TLS_APP_DATA, Tag, associated_length, TLS_AEAD_TAG_SIZE
<1>8. encrypt(b, n) \in Seq(Nat) /\ Len(encrypt(b, n)) = 4 + Len(m.data)
  BY <1>3, <1>6, <1>7, ConcatProperties DEF b, d, encrypt
<1>9. /\ <<TLS_APP_DATA, Len(encrypt(b, n))>> \in Seq(Nat)
      /\ Len(<<TLS_APP_DATA, Len(encrypt(b, n))>>) = 2
  BY <1>3, <1>8 DEF d, TLS_APP_DATA
<1>10. encode(encrypt(b, n)) \in Seq(Nat) /\ Len(encode(encrypt(b, n))) = 6 + Len(m.data)
  BY <1>3, <1>8, <1>9, ConcatProperties DEF d, encode
<1> QED
  BY <1>1, <1>3, <1>4, <1>6, <1>8, <1>10 DEF b, d

\* A message that is not larger than a record is one chunk.
LEMMA OneChunk ==
    ASSUME NEW b \in Seq(Nat), Len(b) >= 1, Len(b) <= MaxRecordSize
    PROVE  chunks(b) = <<b>>
<1>1. MaxRecordSize \in Nat \ {0} /\ Len(b) \in Nat
  BY RecordsAssumption
<1>2. (Len(b) + MaxRecordSize - 1) \div MaxRecordSize = 1
  <2> DEFINE M == MaxRecordSize
             a == Len(b) + M - 1
             q == a \div M
  <2>1. a \in Nat /\ a >= M /\ a < 2 * M
    BY <1>1
  <2>2. q \in Int /\ M * q <= a /\ a < M * (q + 1)
    BY <1>1, <2>1
  <2> HIDE DEF q, a
  <2>3. q >= 2 => M * q >= M * 2
    BY <1>1, <2>2
  <2>4. q <= 0 => M * (q + 1) <= M
    BY <1>1, <2>2
  <2>5. q = 1
    BY <1>1, <2>1, <2>2, <2>3, <2>4
  <2> QED
    BY <2>5 DEF q, a
<1>3. Min({1 * MaxRecordSize, Len(b)}) = Len(b)
  BY <1>1 DEF Min
<1>4. SubSeq(b, (1 - 1) * MaxRecordSize + 1, Len(b)) = b
  BY <1>1, SubSeqFull
<1>5. chunks(b) = [i \in 1 .. 1 |-> b]
  <2> DEFINE piece(i) == SubSeq(b, (i - 1) * MaxRecordSize + 1, Min({i * MaxRecordSize, Len(b)}))
  <2>1. piece(1) = b
    BY <1>3, <1>4
  <2>2. chunks(b) = [i \in 1 .. 1 |-> piece(i)]
    BY <1>2 DEF chunks
  <2> HIDE DEF piece
  <2> QED
    BY <2>1, <2>2
<1> QED
  BY <1>5

\* The frames of a single record are its bytes.
LEMMA FlattenOne == ASSUME NEW f PROVE FlattenSeq(<<f>>) = f
<1> DEFINE Def(g) == g = [i \in 1 .. 1 |-> IF i = 1 THEN <<f>>[i] ELSE g[i - 1] \o <<f>>[i]]
           flat == [i \in 1 .. 1 |-> f]
<1>1. Def(flat)
  OBVIOUS
<1>2. \A g : Def(g) => g[1] = f
  OBVIOUS
<1>3. Def(CHOOSE g : Def(g))
  BY <1>1
<1> QED
  BY <1>2, <1>3 DEF FlattenSeq

\* What the reader makes of the record of a message is the message.
LEMMA RecordRead ==
    ASSUME NEW m \in Plaintexts, NEW n \in Nat
    PROVE  LET e == encrypt(tls_serialize(m), n)
           IN  /\ e # << >> /\ Last(e) = Tag(n, Len(e))
               /\ SubSeq(e, 1, Len(e) - 2) = tls_serialize(m)
               /\ tls_deserialize(tls_serialize(m)) = [ok |-> TRUE, message |-> m]
<1> DEFINE b == tls_serialize(m)
           t == <<TLS_APP_DATA, Tag(n, associated_length(b))>>
           e == b \o t
           h == <<m.variant, Len(m.data)>>
           d == m.data
<1>1. /\ b \in Seq(Nat) /\ Len(b) = 2 + Len(d) /\ Len(d) \in Nat /\ d \in Seq(Nat)
      /\ m.variant \in {0, 1}
  BY Sizes
<1>2. b = h \o d /\ h \in Seq(Nat) /\ Len(h) = 2 /\ h[1] = m.variant /\ h[2] = Len(d)
  BY <1>1 DEF tls_serialize
<1>3. associated_length(b) = Len(b) + 2
  BY <1>1 DEF associated_length, TLS_AEAD_TAG_SIZE
<1>4. t \in Seq(Nat) /\ Len(t) = 2 /\ t[2] = Tag(n, Len(b) + 2)
  <2> DEFINE g == Tag(n, Len(b) + 2)
  <2>1. g \in Nat
    <3> DEFINE l == Len(b)
    <3>1. l \in Nat
      BY <1>1
    <3> HIDE DEF l
    <3>2. Tag(n, l + 2) \in Nat
      BY <3>1 DEF Tag
    <3> QED
      BY <3>2 DEF l
  <2>2. t = <<23, g>>
    BY <1>3 DEF TLS_APP_DATA
  <2> HIDE DEF g, t
  <2>3. t \in Seq(Nat) /\ Len(t) = 2 /\ t[2] = g
    BY <2>1, <2>2
  <2> QED
    BY <2>3 DEF g
<1>5. m = [variant |-> m.variant, data |-> d]
  BY DEF Plaintexts
<1> HIDE DEF b, t, h, d
<1>6. /\ e \in Seq(Nat) /\ Len(e) = Len(b) + 2
      /\ \A i \in 1 .. Len(b) : e[i] = b[i]
      /\ \A i \in 1 .. 2 : e[Len(b) + i] = t[i]
  <2>1. /\ e \in Seq(Nat) /\ Len(e) = Len(b) + Len(t)
        /\ \A i \in 1 .. Len(b) : e[i] = b[i]
        /\ \A i \in 1 .. Len(t) : e[Len(b) + i] = t[i]
    BY <1>1, <1>4, Join, Zenon
  <2> QED
    BY <1>4, <2>1, Zenon
<1>7. e = encrypt(b, n)
  BY DEF encrypt, t
<1> HIDE DEF e
<1>8. e[Len(e)] = t[2]
  <2>1. 2 \in 1 .. 2
    OBVIOUS
  <2> QED
    BY <1>6, <2>1
<1>9. e # << >> /\ Last(e) = Tag(n, Len(e))
  BY <1>1, <1>4, <1>6, <1>8 DEF Last
<1>10. SubSeq(e, 1, Len(e) - 2) = b
  <2>1. Len(e) - 2 = Len(b) /\ \A i \in 1 .. Len(b) : e[i] \in Nat /\ e[i] = b[i]
    BY <1>1, <1>6
  <2>2. /\ SubSeq(e, 1, Len(b)) \in Seq(Nat) /\ Len(SubSeq(e, 1, Len(b))) = Len(b)
        /\ \A i \in 1 .. Len(b) : SubSeq(e, 1, Len(b))[i] = e[i]
    BY <1>1, <2>1, SubSeqProperties
  <2> QED
    BY <1>1, <2>1, <2>2, SeqEqual
<1>11. b[1] = m.variant /\ b[2] = Len(d) /\ \A i \in 1 .. Len(d) : b[i + 2] = d[i]
  <2>1. /\ \A i \in 1 .. 2 : b[i] = h[i]
        /\ \A i \in 1 .. Len(d) : b[2 + i] = d[i]
    <3>1. /\ \A i \in 1 .. Len(h) : b[i] = h[i]
          /\ \A i \in 1 .. Len(d) : b[Len(h) + i] = d[i]
      BY <1>1, <1>2, Join, Zenon
    <3> QED
      BY <1>2, <3>1, Zenon
  <2>2. \A i \in 1 .. Len(d) : i + 2 = 2 + i
    BY <1>1
  <2>3. 1 \in 1 .. 2 /\ 2 \in 1 .. 2
    OBVIOUS
  <2>4. b[1] = h[1] /\ b[2] = h[2]
    BY <2>1, <2>3
  <2>5. \A i \in 1 .. Len(d) : b[i + 2] = d[i]
    BY <2>1, <2>2, Zenon
  <2> QED
    BY <1>2, <2>4, <2>5, Zenon
<1>12. SubSeq(b, 3, 2 + b[2]) = d
  <2>1. \A i \in 3 .. 2 + Len(d) : b[i] \in Nat
    BY <1>1
  <2>2. /\ SubSeq(b, 3, 2 + Len(d)) \in Seq(Nat) /\ Len(SubSeq(b, 3, 2 + Len(d))) = Len(d)
        /\ \A i \in 1 .. Len(d) : SubSeq(b, 3, 2 + Len(d))[i] = b[i + 2]
    BY <1>1, <2>1, SubSeqProperties
  <2> QED
    BY <1>1, <1>11, <2>2, SeqEqual
<1>13. tls_deserialize(b) = [ok |-> TRUE, message |-> m]
  <2>1. Len(b) >= 2 /\ b[1] \in {0, 1} /\ Len(b) >= 2 + b[2]
    BY <1>1, <1>11
  <2>2. tls_deserialize(b)
          = [ok |-> TRUE, message |-> [variant |-> b[1], data |-> SubSeq(b, 3, 2 + b[2])]]
    BY <2>1, Zenon DEF tls_deserialize
  <2> QED
    BY <1>5, <1>11, <1>12, <2>2, Zenon
<1> QED
  BY <1>7, <1>9, <1>10, <1>13 DEF b

\* decode takes a frame off the front of the bytes.
LEMMA DecodeFrame ==
    ASSUME NEW e \in Seq(Nat), NEW w \in Seq(Nat), Len(w) >= Len(encode(e)),
           \A k \in 1 .. Len(encode(e)) : w[k] = encode(e)[k]
    PROVE  /\ Len(encode(e)) = Len(e) + 2
           /\ decode(w) = [length |-> Len(e), data |-> e,
                           rest |-> SubSeq(w, Len(encode(e)) + 1, Len(w))]
<1> DEFINE h == <<TLS_APP_DATA, Len(e)>>
           f == encode(e)
<1>1. Len(e) \in Nat /\ Len(w) \in Nat
  OBVIOUS
<1>2. h \in Seq(Nat) /\ Len(h) = 2 /\ h[2] = Len(e) /\ f = h \o e
  BY <1>1 DEF TLS_APP_DATA, encode
<1> HIDE DEF h, f
<1>3. /\ f \in Seq(Nat) /\ Len(f) = 2 + Len(e)
      /\ \A i \in 1 .. 2 : f[i] = h[i]
      /\ \A i \in 1 .. Len(e) : f[2 + i] = e[i]
  <2>1. /\ f \in Seq(Nat) /\ Len(f) = Len(h) + Len(e)
        /\ \A i \in 1 .. Len(h) : f[i] = h[i]
        /\ \A i \in 1 .. Len(e) : f[Len(h) + i] = e[i]
    BY <1>2, Join, Zenon
  <2> QED
    BY <1>2, <2>1, Zenon
<1>4. Len(w) >= Len(e) + 2 /\ \A k \in 1 .. Len(e) + 2 : w[k] = f[k]
  BY <1>1, <1>3 DEF f
<1>5. w[2] = Len(e)
  <2>1. 2 \in 1 .. 2 /\ 2 \in 1 .. Len(e) + 2
    BY <1>1
  <2> QED
    BY <1>2, <1>3, <1>4, <2>1
<1>6. SubSeq(w, 3, Len(e) + 2) = e
  <2>1. \A i \in 3 .. Len(e) + 2 : w[i] \in Nat
    BY <1>1, <1>4
  <2>2. /\ SubSeq(w, 3, Len(e) + 2) \in Seq(Nat) /\ Len(SubSeq(w, 3, Len(e) + 2)) = Len(e)
        /\ \A i \in 1 .. Len(e) : SubSeq(w, 3, Len(e) + 2)[i] = w[i + 2]
    BY <1>1, <2>1, SubSeqProperties
  <2>3. ASSUME NEW i \in 1 .. Len(e) PROVE w[i + 2] = e[i]
    <3>1. i + 2 \in 1 .. Len(e) + 2 /\ 2 + i = i + 2
      BY <1>1
    <3> QED
      BY <1>3, <1>4, <3>1
  <2> QED
    BY <2>2, <2>3, SeqEqual
<1> QED
  <2>1. Len(e) + 2 = Len(f) /\ TLS_HDR_SIZE = 2 /\ 2 + 1 = 3
    BY <1>1, <1>3 DEF TLS_HDR_SIZE
  <2>2. decode(w) = [length |-> w[2], data |-> SubSeq(w, 3, w[2] + 2),
                     rest |-> SubSeq(w, (w[2] + 2) + 1, Len(w))]
    BY <2>1, Zenon DEF decode
  <2> QED
    BY <1>5, <1>6, <2>1, <2>2, Zenon DEF f

-----------------------------------------------------------------------------
(***************************************************************************)
(* The layout of the wire.                                                 *)
(***************************************************************************)

\* A frame is more than its header.
LEMMA FrameType ==
    ASSUME NEW m \in Plaintexts, NEW n \in Nat
    PROVE  Frame(m, n) \in Seq(Nat) /\ Len(Frame(m, n)) \in Nat /\ Len(Frame(m, n)) >= 6
<1>1. /\ Frame(m, n) \in Seq(Nat) /\ Len(Frame(m, n)) = 6 + Len(m.data)
      /\ Len(m.data) \in 0 .. MaxLength
  BY Sizes, Zenon DEF Frame
<1> DEFINE l == Len(m.data)
<1> HIDE DEF l
<1>2. l \in Nat
  BY <1>1, RecordsAssumption DEF l
<1>3. 6 + l \in Nat /\ 6 + l >= 6
  BY <1>2
<1> QED
  BY <1>1, <1>3, Zenon DEF l

\* A further message and its frame.
LEMMA LayAppend ==
    ASSUME NEW ms \in Seq(Plaintexts), NEW d \in 0 .. Len(ms), NEW wire \in Seq(Nat),
           NEW base \in Nat, NEW start \in [1 .. Len(ms) + 1 -> Nat],
           LaidOut(ms, d, wire, base, start), NEW m \in Plaintexts
    PROVE  \E next \in [1 .. Len(ms) + 2 -> Nat] :
             LaidOut(Append(ms, m), d, wire \o Frame(m, Len(ms)), base, next)
<1> DEFINE l == Len(ms)
           f == Frame(m, l)
           more == Append(ms, m)
           new == wire \o f
           next == [i \in 1 .. l + 2 |-> IF i = l + 2 THEN start[l + 1] + Len(f) ELSE start[i]]
<1>1. /\ l \in Nat /\ Len(wire) \in Nat /\ d <= l /\ d \in Nat /\ f \in Seq(Nat) /\ Len(f) \in Nat
      /\ Len(more) = l + 1 /\ more[l + 1] = m
  <2>1. l \in Nat /\ Len(wire) \in Nat /\ d <= l /\ d \in Nat
    OBVIOUS
  <2>2. f \in Seq(Nat) /\ Len(f) \in Nat
    BY <2>1, FrameType, Zenon
  <2> QED
    BY <2>1, <2>2
<1>2. \A i \in 1 .. l : more[i] = ms[i]
  OBVIOUS
<1>3. /\ new \in Seq(Nat) /\ Len(new) = Len(wire) + Len(f)
      /\ \A i \in 1 .. Len(wire) : new[i] = wire[i]
      /\ \A i \in 1 .. Len(f) : new[Len(wire) + i] = f[i]
  BY <1>1, Join, Zenon
<1>4. next \in [1 .. l + 2 -> Nat]
  <2> DEFINE c == Len(f)
  <2>1. c \in Nat
    BY <1>1
  <2> HIDE DEF c, f
  <2>2. \A i \in 1 .. l + 2 : i # l + 2 => i \in 1 .. l + 1
    BY <1>1
  <2>3. l + 1 \in 1 .. l + 1
    BY <1>1
  <2>4. start[l + 1] + c \in Nat
    <3> DEFINE x == start[l + 1]
    <3>1. x \in Nat
      BY <2>3, Zenon
    <3> HIDE DEF x
    <3>2. x + c \in Nat
      BY <2>1, <3>1
    <3> QED
      BY <3>2 DEF x
  <2>5. \A i \in 1 .. l + 2 : (IF i = l + 2 THEN start[l + 1] + c ELSE start[i]) \in Nat
    BY <2>2, <2>4
  <2> QED
    BY <2>5 DEF c
<1>5. next[l + 2] = start[l + 1] + Len(f) /\ \A i \in 1 .. l + 1 : next[i] = start[i]
  BY <1>1
<1>6. start[d + 1] = base /\ start[l + 1] = base + Len(wire)
  BY DEF LaidOut
<1> HIDE DEF f, more, new, next
<1>7. next[d + 1] = base /\ next[l + 2] = base + Len(new)
  BY <1>1, <1>3, <1>5, <1>6
<1>8. ASSUME NEW i \in d + 1 .. l + 1
      PROVE  /\ next[i + 1] = next[i] + Len(Frame(more[i], i - 1))
             /\ \A k \in 1 .. Len(Frame(more[i], i - 1)) :
                  new[next[i] - base + k] = Frame(more[i], i - 1)[k]
  <2>1. CASE i = l + 1
    <3>1. Frame(more[i], i - 1) = f
      <4>1. i - 1 = l /\ more[i] = m
        BY <1>1, <2>1
      <4> QED
        BY <4>1 DEF f
    <3>2. next[i] = base + Len(wire) /\ next[i + 1] = base + Len(wire) + Len(f)
      BY <1>1, <1>5, <1>6, <2>1
    <3>3. next[i] - base = Len(wire)
      BY <1>1, <3>2
    <3>4. next[i + 1] = next[i] + Len(f)
      BY <1>1, <3>2
    <3> QED
      BY <1>3, <3>1, <3>3, <3>4, Zenon
  <2>2. CASE i # l + 1
    <3>1. i \in d + 1 .. l /\ i \in 1 .. l /\ i + 1 \in 1 .. l + 1 /\ i \in 1 .. l + 1
      BY <1>1, <2>2
    <3>2. more[i] = ms[i] /\ next[i] = start[i] /\ next[i + 1] = start[i + 1]
      BY <1>2, <1>5, <3>1
    <3>3. Len(Frame(ms[i], i - 1)) \in Nat
      <4>1. ms[i] \in Plaintexts /\ i - 1 \in Nat
        BY <1>1, <3>1
      <4> QED
        BY <4>1, Sizes DEF Frame
    <3> DEFINE g == Frame(ms[i], i - 1)
    <3>4. /\ start[i + 1] = start[i] + Len(g)
          /\ \A k \in 1 .. Len(g) : wire[start[i] - base + k] = g[k]
          /\ base <= start[i] /\ start[i + 1] <= base + Len(wire)
      <4>1. d + 1 \in d + 1 .. l + 1 /\ l + 1 \in d + 1 .. l + 1 /\ i + 1 \in d + 1 .. l + 1
        BY <1>1, <3>1
      <4>2. d + 1 <= i /\ i + 1 <= l + 1
        BY <1>1, <3>1
      <4>3. start[d + 1] <= start[i] /\ start[i + 1] <= start[l + 1]
        BY <4>1, <4>2, Zenon DEF LaidOut
      <4>4. /\ start[i + 1] = start[i] + Len(g)
            /\ \A k \in 1 .. Len(g) : wire[start[i] - base + k] = g[k]
        BY <3>1, Zenon DEF LaidOut
      <4> QED
        BY <1>6, <4>3, <4>4, Zenon
    <3>5. start[i] \in Nat
      BY <3>1
    <3> HIDE DEF g
    <3>6. ASSUME NEW k \in 1 .. Len(g) PROVE new[start[i] - base + k] = g[k]
      <4>1. start[i] - base + k \in 1 .. Len(wire)
        <5> DEFINE x == start[i]
                   c == Len(g)
                   w == Len(wire)
        <5>1. x \in Nat /\ c \in Nat /\ w \in Nat /\ k \in 1 .. c /\ base <= x /\ x + c <= base + w
          BY <1>1, <3>3, <3>4, <3>5 DEF g
        <5> HIDE DEF x, c, w
        <5>2. x - base + k \in 1 .. w
          BY <5>1
        <5> QED
          BY <5>2 DEF x, w
      <4> QED
        BY <1>3, <3>4, <4>1
    <3> QED
      BY <3>2, <3>4, <3>6, Zenon DEF g
  <2> QED
    BY <2>1, <2>2
<1>9. ASSUME NEW i \in d + 1 .. l + 2, NEW j \in d + 1 .. l + 2, i <= j
      PROVE  next[i] <= next[j]
  <2> DEFINE x == start[l + 1]
             c == Len(f)
  <2>1. l + 1 \in 1 .. l + 1 /\ l + 1 \in d + 1 .. l + 1 /\ c \in Nat
    BY <1>1
  <2>2. x \in Nat
    BY <2>1, Zenon
  <2> HIDE DEF x, c
  <2>3. x <= x + c
    BY <2>1, <2>2
  <2>4. CASE i = l + 2 /\ j = l + 2
    BY <1>5, <2>1, <2>2, <2>4 DEF x, c
  <2>5. CASE i # l + 2 /\ j = l + 2
    <3>1. i \in 1 .. l + 1 /\ i \in d + 1 .. l + 1 /\ i <= l + 1
      BY <1>1, <2>5
    <3>2. start[i] <= x
      BY <2>1, <3>1, Zenon DEF LaidOut, x
    <3>3. start[i] \in Nat
      BY <3>1, Zenon
    <3>4. next[i] = start[i] /\ next[j] = x + c
      BY <1>5, <2>5, <3>1, Zenon DEF x, c
    <3> DEFINE y == start[i]
    <3> HIDE DEF y
    <3>5. y <= x + c
      BY <2>1, <2>2, <3>2, <3>3 DEF y
    <3> QED
      BY <3>4, <3>5, Zenon DEF y
  <2>6. CASE j # l + 2
    <3>1. i \in 1 .. l + 1 /\ i \in d + 1 .. l + 1 /\ j \in 1 .. l + 1 /\ j \in d + 1 .. l + 1
      BY <1>1, <1>9, <2>6
    <3>2. start[i] <= start[j]
      BY <1>9, <3>1, Zenon DEF LaidOut
    <3> QED
      BY <1>5, <3>1, <3>2, Zenon
  <2> QED
    BY <1>1, <1>9, <2>4, <2>5, <2>6
<1>10. LaidOut(more, d, new, base, next)
  <2>1. Len(more) + 1 = l + 2
    BY <1>1
  <2> QED
    BY <1>1, <1>7, <1>8, <1>9, <2>1, Zenon DEF LaidOut
<1> QED
  BY <1>4, <1>10, Zenon DEF more, new, f

\* The frame at the front of the wire: if the reader has its header and its
\* bytes, they are those of the next message, and the others follow.
LEMMA LayDecode ==
    ASSUME NEW ms \in Seq(Plaintexts), NEW d \in 0 .. Len(ms), NEW s \in Seq(Nat),
           NEW t \in Seq(Nat), NEW base \in Nat, NEW start \in [1 .. Len(ms) + 1 -> Nat],
           LaidOut(ms, d, s \o t, base, start), decode_ready(s)
    PROVE  LET f == Frame(ms[d + 1], d)
           IN  /\ d < Len(ms) /\ Len(s) >= Len(f) /\ \A k \in 1 .. Len(f) : s[k] = f[k]
               /\ SubSeq(s, Len(f) + 1, Len(s)) \in Seq(Nat)
               /\ LaidOut(ms, d + 1, SubSeq(s, Len(f) + 1, Len(s)) \o t, base + Len(f), start)
<1> DEFINE l == Len(ms)
           wire == s \o t
           f == Frame(ms[d + 1], d)
           e == encrypt(tls_serialize(ms[d + 1]), d)
           rest == SubSeq(s, Len(f) + 1, Len(s))
           new == rest \o t
<1>1. l \in Nat /\ d \in Nat /\ d <= l /\ Len(s) \in Nat /\ Len(t) \in Nat
  OBVIOUS
<1>2. /\ wire \in Seq(Nat) /\ Len(wire) = Len(s) + Len(t)
      /\ \A i \in 1 .. Len(s) : wire[i] = s[i]
      /\ \A i \in 1 .. Len(t) : wire[Len(s) + i] = t[i]
  BY Join, Zenon
<1>3. Len(s) >= 2 /\ Len(s) >= s[2] + 2
  BY DEF decode_ready, TLS_HDR_SIZE
<1>4. start[d + 1] = base /\ start[l + 1] = base + Len(wire)
  BY DEF LaidOut
<1>5. d < l
  <2>1. CASE d = l
    <3>1. base = base + Len(wire)
      BY <1>4, <2>1
    <3> QED
      BY <1>1, <1>2, <1>3, <3>1
  <2> QED
    BY <1>1, <2>1
<1>6. d + 1 \in 1 .. l /\ d + 1 \in d + 1 .. l /\ (d + 1) - 1 = d /\ ms[d + 1] \in Plaintexts
  BY <1>1, <1>5
<1>7. f \in Seq(Nat) /\ Len(f) \in Nat /\ Len(f) >= 6
  BY <1>1, <1>6, FrameType, Zenon
<1>8. /\ start[(d + 1) + 1] = base + Len(f)
      /\ \A k \in 1 .. Len(f) : wire[base - base + k] = f[k]
  BY <1>4, <1>6, Zenon DEF LaidOut
<1>9. base - base = 0 /\ \A k \in 1 .. Len(f) : 0 + k = k
  BY <1>7
<1>10. \A k \in 1 .. Len(f) : wire[k] = f[k]
  BY <1>8, <1>9, Zenon
<1>11. e \in Seq(Nat) /\ f = encode(e)
  BY <1>1, <1>6, Sizes, Zenon DEF Frame
<1> HIDE DEF wire, f, e, rest, new
<1>12. Len(f) = Len(e) + 2 /\ f[2] = Len(e)
  <2>1. Len(e) \in Nat /\ <<TLS_APP_DATA, Len(e)>> \in Seq(Nat) /\ Len(<<TLS_APP_DATA, Len(e)>>) = 2
    BY <1>11 DEF TLS_APP_DATA
  <2> DEFINE h == <<TLS_APP_DATA, Len(e)>>
  <2>2. h[2] = Len(e) /\ 2 \in 1 .. 2
    OBVIOUS
  <2>3. f = h \o e
    BY <1>11 DEF encode
  <2>4. h \in Seq(Nat) /\ Len(h) = 2
    BY <2>1, Zenon
  <2> HIDE DEF h
  <2>5. Len(f) = Len(h) + Len(e) /\ \A i \in 1 .. Len(h) : f[i] = h[i]
    <3>1. Len(h \o e) = Len(h) + Len(e) /\ \A i \in 1 .. Len(h) : (h \o e)[i] = h[i]
      BY <1>11, <2>4, Join, Zenon
    <3> QED
      BY <2>3, <3>1, Zenon
  <2> QED
    BY <2>1, <2>2, <2>4, <2>5
<1>13. s[2] = Len(e)
  <2>1. 2 \in 1 .. Len(f) /\ 2 \in 1 .. Len(s)
    BY <1>1, <1>3, <1>7
  <2> QED
    BY <1>2, <1>10, <1>12, <2>1, Zenon
<1>14. Len(s) >= Len(f)
  BY <1>3, <1>11, <1>12, <1>13
<1>15. \A k \in 1 .. Len(f) : s[k] = f[k]
  <2>1. \A k \in 1 .. Len(f) : k \in 1 .. Len(s)
    BY <1>1, <1>7, <1>14
  <2> QED
    BY <1>2, <1>10, <2>1, Zenon
<1>16. /\ rest \in Seq(Nat) /\ Len(rest) = Len(s) - Len(f)
       /\ \A i \in 1 .. Len(s) - Len(f) : rest[i] = s[Len(f) + i]
  <2> DEFINE c == Len(f)
  <2> HIDE DEF c
  <2>1. c \in Nat /\ c + 1 \in Int /\ \A i \in c + 1 .. Len(s) : s[i] \in Nat
    <3>1. c \in Nat
      BY <1>7 DEF c
    <3>2. c + 1 \in Int /\ \A i \in c + 1 .. Len(s) : i \in 1 .. Len(s)
      BY <1>1, <3>1
    <3> QED
      BY <3>1, <3>2, ElementOfSeq, Zenon
  <2>2. rest = SubSeq(s, c + 1, Len(s))
    BY DEF rest, c
  <2>3. /\ rest \in Seq(Nat)
        /\ Len(rest) = IF c + 1 <= Len(s) THEN Len(s) - (c + 1) + 1 ELSE 0
        /\ \A i \in 1 .. Len(s) - (c + 1) + 1 : rest[i] = s[(c + 1) + i - 1]
    BY <1>1, <2>1, <2>2, SubSeqProperties
  <2>4. Len(s) >= c
    BY <1>14 DEF c
  <2>5. /\ Len(s) - (c + 1) + 1 = Len(s) - c /\ \A i \in Int : (c + 1) + i - 1 = c + i
        /\ (IF c + 1 <= Len(s) THEN Len(s) - (c + 1) + 1 ELSE 0) = Len(s) - c
    BY <1>1, <2>1, <2>4
  <2>6. Len(rest) = Len(s) - c /\ \A i \in 1 .. Len(s) - c : rest[i] = s[c + i]
    <3>1. \A i \in 1 .. Len(s) - c : i \in Int
      OBVIOUS
    <3> QED
      BY <2>3, <2>5, <3>1, Zenon
  <2> QED
    BY <2>3, <2>6 DEF c
<1>17. /\ new \in Seq(Nat) /\ Len(new) = Len(rest) + Len(t)
       /\ \A i \in 1 .. Len(rest) : new[i] = rest[i]
       /\ \A i \in 1 .. Len(t) : new[Len(rest) + i] = t[i]
  BY <1>16, Join, Zenon DEF new
<1>18. Len(new) = Len(wire) - Len(f)
  BY <1>1, <1>2, <1>7, <1>16, <1>17
<1>19. ASSUME NEW i \in 1 .. Len(new) PROVE new[i] = wire[Len(f) + i]
  <2>1. CASE i <= Len(rest)
    <3>1. i \in 1 .. Len(rest) /\ i \in 1 .. Len(s) - Len(f) /\ Len(f) + i \in 1 .. Len(s)
      BY <1>1, <1>7, <1>14, <1>16, <1>17, <2>1
    <3> QED
      BY <1>2, <1>16, <1>17, <3>1
  <2>2. CASE ~(i <= Len(rest))
    <3> DEFINE j == i - Len(rest)
    <3>1. j \in 1 .. Len(t) /\ Len(rest) + j = i /\ Len(s) + j = Len(f) + i
      BY <1>1, <1>7, <1>14, <1>16, <1>17, <2>2
    <3> HIDE DEF j
    <3> QED
      BY <1>2, <1>17, <3>1
  <2> QED
    BY <2>1, <2>2
<1>20. LaidOut(ms, d + 1, new, base + Len(f), start)
  <2> DEFINE c == Len(f)
  <2>1. ASSUME NEW i \in (d + 1) + 1 .. l
        PROVE  /\ start[i + 1] = start[i] + Len(Frame(ms[i], i - 1))
               /\ \A k \in 1 .. Len(Frame(ms[i], i - 1)) :
                    new[start[i] - (base + c) + k] = Frame(ms[i], i - 1)[k]
    <3> DEFINE g == Frame(ms[i], i - 1)
               x == start[i]
    <3>1. /\ i \in d + 1 .. l /\ i \in 1 .. l + 1 /\ i - 1 \in Nat /\ ms[i] \in Plaintexts
          /\ i \in d + 1 .. l + 1 /\ i + 1 \in d + 1 .. l + 1 /\ i + 1 <= l + 1
          /\ l + 1 \in d + 1 .. l + 1 /\ (d + 1) + 1 \in d + 1 .. l + 1 /\ (d + 1) + 1 <= i
      BY <1>1
    <3>2. /\ start[i + 1] = x + Len(g)
          /\ \A k \in 1 .. Len(g) : wire[x - base + k] = g[k]
      BY <3>1, Zenon DEF LaidOut, wire
    <3>3. base + c <= x /\ start[i + 1] <= base + Len(wire)
      BY <1>4, <1>8, <3>1, Zenon DEF LaidOut, wire
    <3>4. x \in Nat /\ Len(g) \in Nat
      BY <3>1, FrameType, Zenon
    <3>5. ASSUME NEW k \in 1 .. Len(g) PROVE new[x - (base + c) + k] = g[k]
      <4> DEFINE y == Len(g)
                 w == Len(wire)
      <4>1. y \in Nat /\ w \in Nat /\ c \in Nat /\ x \in Nat /\ k \in 1 .. y /\ base + c <= x
        BY <1>2, <1>7, <3>3, <3>4
      <4>2. x + y <= base + w
        BY <3>2, <3>3, Zenon
      <4> HIDE DEF x, y, w, c, g
      <4>3. x - (base + c) + k \in 1 .. w - c /\ c + (x - (base + c) + k) = x - base + k
        BY <4>1, <4>2
      <4>4. new[x - (base + c) + k] = wire[c + (x - (base + c) + k)]
        BY <1>18, <1>19, <4>3, Zenon DEF w, c
      <4> QED
        BY <3>2, <4>3, <4>4, Zenon
    <3> QED
      BY <3>2, <3>5, Zenon
  <2>2. base + c + Len(new) = base + Len(wire)
    BY <1>1, <1>2, <1>7, <1>18
  <2>3. \A i \in (d + 1) + 1 .. l + 1 : i \in d + 1 .. l + 1
    BY <1>1
  <2>4. \A i, j \in (d + 1) + 1 .. l + 1 : i <= j => start[i] <= start[j]
    BY <2>3, Zenon DEF LaidOut
  <2> QED
    BY <1>4, <1>8, <2>1, <2>2, <2>4, Zenon DEF LaidOut
<1> QED
  BY <1>5, <1>14, <1>15, <1>16, <1>20, Zenon DEF f, new, rest

-----------------------------------------------------------------------------
(***************************************************************************)
(* The steps.                                                              *)
(***************************************************************************)

\* Send puts one frame on the stream.
LEMMA OneFrame ==
    ASSUME MaxLength + 2 <= MaxRecordSize, NEW m \in Plaintexts, NEW n \in Nat
    PROVE  LET parts  == chunks(tls_serialize(m))
               frames == [i \in DOMAIN parts |-> encode(encrypt(parts[i], n + i - 1))]
           IN  FlattenSeq(frames) = Frame(m, n) /\ Len(parts) = 1
<1> DEFINE b == tls_serialize(m)
           parts == chunks(b)
           frames == [i \in DOMAIN parts |-> encode(encrypt(parts[i], n + i - 1))]
<1>1. b \in Seq(Nat) /\ Len(b) = 2 + Len(m.data) /\ Len(m.data) \in 0 .. MaxLength
  BY Sizes, Zenon
<1>2. Len(b) >= 1 /\ Len(b) <= MaxRecordSize
  <2> DEFINE l == Len(m.data)
  <2>1. l \in 0 .. MaxLength /\ MaxLength \in Nat /\ MaxRecordSize \in Nat
    BY <1>1, RecordsAssumption
  <2> HIDE DEF l
  <2>2. 2 + l >= 1 /\ 2 + l <= MaxRecordSize
    BY <2>1
  <2> QED
    BY <1>1, <2>2, Zenon DEF l
<1> HIDE DEF b
<1>3. parts = <<b>>
  BY <1>1, <1>2, OneChunk
<1>4. n + 1 - 1 = n /\ Len(<<b>>) = 1 /\ DOMAIN <<b>> = 1 .. 1 /\ <<b>>[1] = b
  OBVIOUS
<1>5. frames = [i \in 1 .. 1 |-> encode(encrypt(<<b>>[i], n + i - 1))]
  BY <1>3, <1>4, Zenon
<1>6. frames = <<Frame(m, n)>>
  <2> DEFINE part(i) == encode(encrypt(<<b>>[i], n + i - 1))
  <2>1. part(1) = Frame(m, n)
    BY <1>4, Zenon DEF Frame, b
  <2>2. frames = [i \in 1 .. 1 |-> part(i)]
    BY <1>5, Zenon
  <2> HIDE DEF part, frames
  <2> QED
    BY <2>1, <2>2
<1>7. FlattenSeq(frames) = Frame(m, n)
  BY <1>6, FlattenOne, Zenon
<1> QED
  BY <1>3, <1>4, <1>7, Zenon DEF b

LEMMA RecordsInit == Init => RecordsInv
<1> SUFFICES ASSUME Init PROVE RecordsInv
  OBVIOUS
<1>1. /\ messages = << >> /\ delivered = << >> /\ src = << >> /\ stream = << >>
      /\ send_seq = 0 /\ recv_seq = 0 /\ errors = 0
  BY DEF Init
<1> DEFINE start == [i \in 1 .. 1 |-> 0]
<1>2. start \in [1 .. 1 -> Nat] /\ start[0 + 1] = 0
  OBVIOUS
<1>3. Len(<< >>) = 0 /\ << >> \o << >> = << >> /\ 0 + 1 .. 0 + 1 = {1} /\ 0 + 1 .. 0 = {} /\ 0 + 0 = 0
  OBVIOUS
<1>4. \A i, j \in 0 + 1 .. 0 + 1 : start[i] <= start[j]
  OBVIOUS
<1> HIDE DEF start
<1>5. LaidOut(<< >>, 0, << >>, 0, start)
  BY <1>2, <1>3, <1>4 DEF LaidOut
<1>6. \E base \in Nat, first \in [1 .. Len(messages) + 1 -> Nat] :
        LaidOut(messages, Len(delivered), src \o stream, base, first)
  BY <1>1, <1>2, <1>3, <1>5
<1>7. << >> \in Seq(Plaintexts) /\ << >> \in Seq(Nat)
  OBVIOUS
<1> QED
  BY <1>1, <1>3, <1>6, <1>7 DEF RecordsInv

LEMMA SendRecords ==
    ASSUME MaxLength + 2 <= MaxRecordSize, RecordsInv, NEW m \in Plaintexts, Send(m)
    PROVE  RecordsInv'
<1> DEFINE l == Len(messages)
           d == Len(delivered)
           f == Frame(m, l)
<1>1. /\ messages \in Seq(Plaintexts) /\ delivered \in Seq(Plaintexts) /\ src \in Seq(Nat)
      /\ stream \in Seq(Nat) /\ errors = 0 /\ send_seq = l /\ recv_seq = d /\ d <= l
      /\ \A i \in 1 .. d : delivered[i] = messages[i]
  BY DEF RecordsInv
<1>2. l \in Nat /\ d \in Nat
  BY <1>1
<1>3. /\ stream' = stream \o f /\ send_seq' = l + 1 /\ messages' = Append(messages, m)
      /\ UNCHANGED <<recv_seq, src, delivered, errors>>
  BY <1>1, <1>2, OneFrame DEF Send
<1>4. f \in Seq(Nat)
  BY <1>2, FrameType, Zenon
<1>5. PICK base \in Nat, start \in [1 .. l + 1 -> Nat] :
        LaidOut(messages, d, src \o stream, base, start)
  BY DEF RecordsInv
<1>6. src \o stream \in Seq(Nat) /\ (src \o stream) \o f = src \o (stream \o f)
  <2> HIDE DEF f
  <2>1. src \o stream \in Seq(Nat)
    BY <1>1, Join, Zenon
  <2>2. (src \o stream) \o f = src \o (stream \o f)
    BY <1>1, <1>4, JoinThree, Zenon
  <2> QED
    BY <2>1, <2>2
<1>7. PICK next \in [1 .. l + 2 -> Nat] :
        LaidOut(Append(messages, m), d, (src \o stream) \o f, base, next)
  <2>1. d \in 0 .. l
    BY <1>1, <1>2
  <2> QED
    BY <1>1, <1>5, <1>6, <2>1, LayAppend, Zenon
<1> HIDE DEF f
<1>8. /\ Append(messages, m) \in Seq(Plaintexts) /\ Len(Append(messages, m)) = l + 1
      /\ \A i \in 1 .. l : Append(messages, m)[i] = messages[i]
  BY <1>1
<1>9. Len(messages') + 1 = l + 2 /\ d <= l + 1 /\ \A i \in 1 .. d : i \in 1 .. l
  BY <1>1, <1>2, <1>3, <1>8
<1>10. stream \o f \in Seq(Nat)
  BY <1>1, <1>4, ConcatProperties, Zenon
<1>11. LaidOut(messages', Len(delivered'), src' \o stream', base, next)
  BY <1>3, <1>6, <1>7, Zenon
<1>12. next \in [1 .. Len(messages') + 1 -> Nat]
  BY <1>7, <1>9, Zenon
<1>13. \A i \in 1 .. Len(delivered') : delivered'[i] = messages'[i]
  BY <1>1, <1>3, <1>8, <1>9, Zenon
<1> QED
  BY <1>1, <1>3, <1>8, <1>9, <1>10, <1>11, <1>12, <1>13, Zenon DEF RecordsInv

LEMMA ArriveRecords ==
    ASSUME RecordsInv, NEW n, Arrive(n)
    PROVE  RecordsInv'
<1> DEFINE some == SubSeq(stream, 1, n)
           others == SubSeq(stream, n + 1, Len(stream))
<1>1. /\ n \in 1 .. Len(stream) /\ src' = src \o some /\ stream' = others
      /\ UNCHANGED <<messages, send_seq, recv_seq, delivered, errors>>
  BY DEF Arrive
<1>2. src \in Seq(Nat) /\ stream \in Seq(Nat) /\ Len(stream) \in Nat
  BY DEF RecordsInv
<1>3. some \o others = stream
  <2>1. 1 \in 1 .. Len(stream) + 1 /\ n \in 1 - 1 .. Len(stream) /\ Len(stream) \in n .. Len(stream)
    BY <1>1, <1>2
  <2>2. some \o others = SubSeq(stream, 1, Len(stream))
    BY <1>2, <2>1, ConcatAdjacentSubSeq, Zenon
  <2> QED
    BY <1>2, <2>2, SubSeqFull, Zenon
<1>4. some \in Seq(Nat) /\ others \in Seq(Nat)
  <2>1. /\ n \in Int /\ n + 1 \in Int /\ 1 \in Int /\ Len(stream) \in Int
        /\ \A i \in 1 .. n : stream[i] \in Nat
        /\ \A i \in n + 1 .. Len(stream) : stream[i] \in Nat
    BY <1>1, <1>2
  <2> QED
    BY <2>1, SubSeqProperties, Zenon
<1> HIDE DEF some, others
<1>5. src' \in Seq(Nat) /\ stream' \in Seq(Nat) /\ src' \o stream' = src \o stream
  <2>1. src \o some \in Seq(Nat)
    BY <1>2, <1>4, Join, Zenon
  <2>2. (src \o some) \o others = src \o (some \o others)
    BY <1>2, <1>4, JoinThree, Zenon
  <2> QED
    BY <1>1, <1>3, <1>4, <2>1, <2>2, Zenon
<1> QED
  BY <1>1, <1>5 DEF RecordsInv

LEMMA PollRecords ==
    ASSUME RecordsInv, PollNext
    PROVE  RecordsInv'
<1> DEFINE l == Len(messages)
           d == Len(delivered)
           m == messages[d + 1]
           e == encrypt(tls_serialize(m), d)
           f == Frame(m, d)
           rest == SubSeq(src, Len(f) + 1, Len(src))
<1>1. /\ messages \in Seq(Plaintexts) /\ delivered \in Seq(Plaintexts) /\ src \in Seq(Nat)
      /\ stream \in Seq(Nat) /\ errors = 0 /\ send_seq = l /\ recv_seq = d /\ d <= l
      /\ \A i \in 1 .. d : delivered[i] = messages[i]
  BY DEF RecordsInv
<1>2. l \in Nat /\ d \in Nat /\ d \in 0 .. l
  BY <1>1
<1>3. PICK base \in Nat, start \in [1 .. l + 1 -> Nat] :
        LaidOut(messages, d, src \o stream, base, start)
  BY DEF RecordsInv
<1>4. /\ d < l /\ Len(src) >= Len(f) /\ \A k \in 1 .. Len(f) : src[k] = f[k]
      /\ rest \in Seq(Nat)
      /\ LaidOut(messages, d + 1, rest \o stream, base + Len(f), start)
  BY <1>1, <1>2, <1>3, LayDecode, Zenon DEF PollNext
<1>5. m \in Plaintexts /\ d + 1 \in Nat
  BY <1>1, <1>2, <1>4
<1>6. e \in Seq(Nat) /\ f = encode(e) /\ Len(f) \in Nat
  BY <1>2, <1>5, Sizes, FrameType, Zenon DEF Frame
<1>7. decode(src) = [length |-> Len(e), data |-> e, rest |-> rest]
  BY <1>1, <1>4, <1>6, DecodeFrame, Zenon
<1>8. /\ e # << >> /\ Last(e) = Tag(d, Len(e)) /\ SubSeq(e, 1, Len(e) - 2) = tls_serialize(m)
      /\ tls_deserialize(tls_serialize(m)) = [ok |-> TRUE, message |-> m]
  BY <1>2, <1>5, RecordRead, Zenon
<1> HIDE DEF e, f, rest, m
<1>9. /\ src' = rest /\ recv_seq' = recv_seq + 1 /\ delivered' = Append(delivered, m)
      /\ errors' = errors /\ UNCHANGED <<messages, send_seq, stream>>
  <2> DEFINE frame == decode(src)
             read == tls_deserialize(decrypt(frame))
  <2>1. frame.data = e /\ frame.length = Len(e) /\ frame.rest = rest
    BY <1>7
  <2>2. decrypt_ok(frame, recv_seq)
    BY <1>1, <1>8, <2>1, Zenon DEF decrypt_ok
  <2>3. decrypt(frame) = tls_serialize(m)
    BY <1>8, <2>1, Zenon DEF decrypt
  <2>4. read.ok = TRUE /\ read.message = m
    BY <1>8, <2>3
  <2>5. /\ src' = frame.rest
        /\ IF decrypt_ok(frame, recv_seq)
           THEN /\ recv_seq' = recv_seq + 1
                /\ delivered' = IF read.ok THEN Append(delivered, read.message) ELSE delivered
                /\ errors' = IF read.ok THEN errors ELSE errors + 1
           ELSE /\ errors' = errors + 1
                /\ UNCHANGED <<recv_seq, delivered>>
        /\ UNCHANGED <<messages, send_seq, stream>>
    BY DEF PollNext
  <2> HIDE DEF frame, read
  <2> QED
    BY <2>1, <2>2, <2>4, <2>5
<1>10. /\ Append(delivered, m) \in Seq(Plaintexts) /\ Len(Append(delivered, m)) = d + 1
       /\ Append(delivered, m)[d + 1] = m /\ \A i \in 1 .. d : Append(delivered, m)[i] = delivered[i]
  BY <1>1, <1>5
<1>11. /\ d + 1 <= l /\ base + Len(f) \in Nat
       /\ \A i \in 1 .. d + 1 : i = d + 1 \/ i \in 1 .. d
  BY <1>2, <1>4, <1>6
<1>12. \A i \in 1 .. d + 1 : Append(delivered, m)[i] = messages[i]
  BY <1>1, <1>10, <1>11, Zenon DEF m
<1>13. LaidOut(messages', Len(delivered'), src' \o stream', base + Len(f), start)
  BY <1>4, <1>9, <1>10, Zenon
<1>14. \E x \in Nat, first \in [1 .. Len(messages') + 1 -> Nat] :
         LaidOut(messages', Len(delivered'), src' \o stream', x, first)
  BY <1>3, <1>9, <1>11, <1>13, Zenon
<1>15. recv_seq' = d + 1 /\ errors' = 0 /\ send_seq' = Len(messages')
  BY <1>1, <1>9, Zenon
<1> QED
  BY <1>1, <1>4, <1>9, <1>10, <1>11, <1>12, <1>14, <1>15, Zenon DEF RecordsInv

-----------------------------------------------------------------------------
\* What is on the wire are the frames of the messages not yet delivered, and
\* what was delivered are the messages before them, as long as a message with
\* its header fits a record of encrypt.
THEOREM RecordsInvariance ==
    ASSUME MaxLength + 2 <= MaxRecordSize
    PROVE  Spec => []RecordsInv
<1>1. RecordsInv /\ [Next]_vars => RecordsInv'
  <2> SUFFICES ASSUME RecordsInv, [Next]_vars PROVE RecordsInv'
    OBVIOUS
  <2>1. CASE Next
    BY <2>1, SendRecords, ArriveRecords, PollRecords DEF Next
  <2>2. CASE UNCHANGED vars
    BY <2>2 DEF vars, RecordsInv
  <2> QED
    BY <2>1, <2>2
<1> QED
  BY <1>1, RecordsInit, PTL DEF Spec

\* poll_next never returns an error for a message that fits a record, whatever
\* its bytes and however the stream is cut.
THEOREM EveryReadSucceeds ==
    ASSUME MaxLength + 2 <= MaxRecordSize
    PROVE  Spec => []ReadsSucceed
<1>1. RecordsInv => ReadsSucceed
  BY DEF RecordsInv, ReadsSucceed
<1> QED
  BY <1>1, RecordsInvariance, PTL

\* What poll_next returns are the messages that were sent, in order and with
\* all of their bytes.
THEOREM MessagesArriveIntact ==
    ASSUME MaxLength + 2 <= MaxRecordSize
    PROVE  Spec => []MessagesIntact
<1>1. RecordsInv => MessagesIntact
  <2> SUFFICES ASSUME RecordsInv PROVE MessagesIntact
    OBVIOUS
  <2>1. /\ messages \in Seq(Plaintexts) /\ delivered \in Seq(Plaintexts)
        /\ Len(delivered) <= Len(messages)
        /\ \A i \in 1 .. Len(delivered) : delivered[i] = messages[i]
    BY DEF RecordsInv
  <2> QED
    BY <2>1 DEF MessagesIntact, IsPrefix
<1> QED
  BY <1>1, RecordsInvariance, PTL

=============================================================================
