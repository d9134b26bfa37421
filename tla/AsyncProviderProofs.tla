------------------------- MODULE AsyncProviderProofs -------------------------
(***************************************************************************)
(* Proofs about the connection in steps between awaits, for every size of  *)
(* the TCP connection and of the sink's buffer, and about what it makes of *)
(* dropped futures, messages read ahead and shutdowns.                     *)
(***************************************************************************)
EXTENDS AsyncProvider, StateMachineProofs

\* What is under way to p.
Flow(p) == held[p] \o tcp[p] \o buffer[Peer(p)]

\* The application messages of the records s are those with the numbers from
\* first + 1 up to last, in this order.
Numbers(s, first, last) ==
    LET IsApp(i) == s[i].payload.type = "Application"
        data(i)  == s[i].payload.data
    IN  /\ \A i \in 1 .. Len(s) : IsApp(i) => data(i) \in first + 1 .. last
        /\ \A n \in first + 1 .. last : \E i \in 1 .. Len(s) : IsApp(i) /\ data(i) = n
        /\ \A i, j \in 1 .. Len(s) : IsApp(i) /\ IsApp(j) /\ i < j => data(i) < data(j)

\* The operations that p may be in the middle of.
OpInv(p) ==
    LET o == op[p]
    IN  /\ o.stage \in {"none", "close"} =>
             o.message = NoMessage /\ o.secret_update = NoSecretUpdate /\ o.bytes = 0
        /\ o.message = NoMessage \/ o.message.type # "Application"
        /\ o.message = NoMessage => o.secret_update = NoSecretUpdate
        /\ o.stage = "ready" /\ o.message = NoMessage => o.bytes # 0
        /\ (o.stage = "ready" \/ o.message # NoMessage) /\ o.bytes # 0 => o.bytes = sent[p] + 1

\* What is under way to a party that has not failed, or has failed after the
\* end of the stream, is what its application still has to get.  This counts
\* what is in the sink of a peer that is gone, although it is never written.
FlowInv(p) ==
    /\ delivered[p] = received[p] /\ received[p] <= sent[Peer(p)]
    /\ error[p] = "ok" \/ ended[p] => Numbers(Flow(p), delivered[p], sent[Peer(p)])

\* No application message is among the records s.
NoApplication(s) == \A i \in 1 .. Len(s) : s[i].payload.type # "Application"

\* A party that has closed its side has only answers left, which are never
\* written, and one that has read the end of the stream has nothing to read.
EndInv(p) ==
    /\ closed[p] => NoApplication(buffer[p]) /\ op[p].bytes = 0 /\ op[p].stage # "close"
    /\ ended[p] => (closed[Peer(p)] \/ dropped[Peer(p)]) /\ tcp[p] = << >>

AsyncInv ==
    /\ TypeOK
    /\ \A p \in Party :
        /\ hs[p].internal_state.tag \in Tag(p)
        /\ Len(held[p]) <= ReadAhead
        /\ OpInv(p) /\ FlowInv(p) /\ EndInv(p)

-----------------------------------------------------------------------------
(***************************************************************************)
(* Sequences of records.                                                   *)
(***************************************************************************)

\* A record in front of others.
LEMMA InFront ==
    ASSUME NEW h \in Record, NEW w \in Seq(Record)
    PROVE  /\ <<h>> \o w \in Seq(Record) /\ <<h>> \o w # << >>
           /\ Head(<<h>> \o w) = h /\ Tail(<<h>> \o w) = w
<1> DEFINE v == <<h>> \o w
<1>1. <<h>> \in Seq(Record) /\ Len(<<h>>) = 1 /\ <<h>>[1] = h /\ Len(w) \in Nat
  BY LenProperties
<1>2. /\ v \in Seq(Record) /\ Len(v) = 1 + Len(w)
      /\ \A i \in 1 .. 1 + Len(w) : v[i] = IF i <= 1 THEN <<h>>[i] ELSE w[i - 1]
  BY <1>1, ConcatProperties
<1> HIDE DEF v
<1>3. Len(v) >= 1 /\ Len(v) - 1 = Len(w) /\ v[1] = h
  BY <1>1, <1>2
<1>4. /\ v # << >> /\ Head(v) = v[1] /\ Tail(v) \in Seq(Record) /\ Len(Tail(v)) = Len(v) - 1
      /\ \A i \in 1 .. Len(v) - 1 : Tail(v)[i] = v[i + 1]
  BY <1>2, <1>3, HeadTail
<1>5. ASSUME NEW i \in 1 .. Len(w) PROVE Tail(v)[i] = w[i]
  <2>1. i + 1 \in 1 .. 1 + Len(w) /\ ~(i + 1 <= 1) /\ (i + 1) - 1 = i
    BY <1>1
  <2>2. v[i + 1] = w[(i + 1) - 1]
    BY <1>2, <2>1
  <2> QED
    BY <1>3, <1>4, <2>1, <2>2
<1>6. Tail(v) = w
  BY <1>3, <1>4, <1>5, SeqEqual
<1> QED
  BY <1>2, <1>3, <1>4, <1>6 DEF v

\* A sequence is its first record in front of the others.
LEMMA FirstAndOthers ==
    ASSUME NEW t \in Seq(Record), t # << >>
    PROVE  Head(t) \in Record /\ Tail(t) \in Seq(Record) /\ t = <<Head(t)>> \o Tail(t)
<1>1. Len(t) \in Nat /\ Len(t) >= 1
  BY EmptySeq, LenProperties
<1>2. /\ Head(t) = t[1] /\ Head(t) \in Record /\ Tail(t) \in Seq(Record)
      /\ Len(Tail(t)) = Len(t) - 1
      /\ \A i \in 1 .. Len(t) - 1 : Tail(t)[i] = t[i + 1]
  BY <1>1, HeadTail
<1> DEFINE v == <<Head(t)>> \o Tail(t)
<1>3. <<Head(t)>> \in Seq(Record) /\ Len(<<Head(t)>>) = 1 /\ <<Head(t)>>[1] = t[1]
  BY <1>2
<1>4. /\ v \in Seq(Record) /\ Len(v) = 1 + Len(Tail(t))
      /\ \A i \in 1 .. 1 + Len(Tail(t)) :
            v[i] = IF i <= 1 THEN <<Head(t)>>[i] ELSE Tail(t)[i - 1]
  BY <1>2, <1>3, ConcatProperties
<1> HIDE DEF v
<1>5. Len(v) = Len(t)
  BY <1>1, <1>2, <1>4
<1>6. ASSUME NEW i \in 1 .. Len(v) PROVE v[i] = t[i]
  <2>1. CASE i = 1
    BY <1>1, <1>2, <1>3, <1>4, <1>5, <2>1
  <2>2. CASE i # 1
    <3>1. i - 1 \in 1 .. Len(t) - 1 /\ ~(i <= 1) /\ (i - 1) + 1 = i
      BY <1>1, <1>5, <2>2
    <3>2. v[i] = Tail(t)[i - 1]
      BY <1>1, <1>2, <1>4, <1>5, <3>1
    <3> QED
      BY <1>2, <3>1, <3>2
  <2> QED
    BY <2>1, <2>2
<1>7. v = t
  BY <1>4, <1>5, <1>6, SeqEqual
<1> QED
  BY <1>2, <1>7 DEF v

\* The first record of the second sequence moves to the first one.
LEMMA MoveOver ==
    ASSUME NEW s \in Seq(Record), NEW t \in Seq(Record), t # << >>
    PROVE  Append(s, Head(t)) \o Tail(t) = s \o t
<1>1. Head(t) \in Record /\ Tail(t) \in Seq(Record) /\ t = <<Head(t)>> \o Tail(t)
  BY FirstAndOthers
<1>2. Append(s, Head(t)) = s \o <<Head(t)>> /\ <<Head(t)>> \in Seq(Record)
  BY <1>1, AppendIsConcat
<1>3. (s \o <<Head(t)>>) \o Tail(t) = s \o (<<Head(t)>> \o Tail(t))
  BY <1>1, <1>2, ConcatAssociative
<1> QED
  BY <1>1, <1>2, <1>3

\* The first record of a concatenation, and the others.
LEMMA ConcatHead ==
    ASSUME NEW s \in Seq(Record), NEW t \in Seq(Record), s # << >>
    PROVE  /\ s \o t # << >> /\ Head(s \o t) = Head(s)
           /\ Tail(s \o t) = Tail(s) \o t
<1>1. Head(s) \in Record /\ Tail(s) \in Seq(Record) /\ s = <<Head(s)>> \o Tail(s)
  BY FirstAndOthers
<1>2. <<Head(s)>> \in Seq(Record) /\ Tail(s) \o t \in Seq(Record)
  BY <1>1, ConcatProperties
<1>3. (<<Head(s)>> \o Tail(s)) \o t = <<Head(s)>> \o (Tail(s) \o t)
  BY <1>1, <1>2, ConcatAssociative
<1> QED
  BY <1>1, <1>2, <1>3, InFront

\* Appending to the last of several sequences.
LEMMA ConcatAppend ==
    ASSUME NEW s \in Seq(Record), NEW t \in Seq(Record), NEW a \in Record
    PROVE  s \o Append(t, a) = Append(s \o t, a)
<1>1. Append(t, a) = t \o <<a>> /\ <<a>> \in Seq(Record)
  BY AppendIsConcat
<1>2. s \o (t \o <<a>>) = (s \o t) \o <<a>> /\ s \o t \in Seq(Record)
  BY <1>1, ConcatAssociative, ConcatProperties
<1> QED
  BY <1>1, <1>2, AppendIsConcat

\* The same for three sequences.
LEMMA MoveLast ==
    ASSUME NEW h \in Seq(Record), NEW t \in Seq(Record), NEW b \in Seq(Record), b # << >>
    PROVE  h \o Append(t, Head(b)) \o Tail(b) = h \o t \o b
<1>1. h \o t \in Seq(Record) /\ Head(b) \in Record
  BY FirstAndOthers, ConcatProperties
<1>2. h \o Append(t, Head(b)) = Append(h \o t, Head(b))
  BY <1>1, ConcatAppend
<1> QED
  BY <1>1, <1>2, MoveOver

LEMMA ThreeHead ==
    ASSUME NEW h \in Seq(Record), NEW t \in Seq(Record), NEW b \in Seq(Record), h # << >>
    PROVE  /\ h \o t \o b \in Seq(Record) /\ h \o t \o b # << >>
           /\ Head(h \o t \o b) = Head(h) /\ Tail(h \o t \o b) = Tail(h) \o t \o b
<1>1. /\ h \o t \in Seq(Record) /\ (h \o t) \o b \in Seq(Record)
      /\ h \o t # << >> /\ Head(h \o t) = Head(h) /\ Tail(h \o t) = Tail(h) \o t
  BY ConcatProperties, ConcatHead
<1>2. /\ (h \o t) \o b # << >> /\ Head((h \o t) \o b) = Head(h \o t)
      /\ Tail((h \o t) \o b) = Tail(h \o t) \o b
  BY <1>1, ConcatHead
<1> QED
  BY <1>1, <1>2

-----------------------------------------------------------------------------
(***************************************************************************)
(* Numbered messages.                                                      *)
(***************************************************************************)

\* The first record is the next message, and the others are numbered from there.
LEMMA NumbersFirst ==
    ASSUME NEW s \in Seq(Record), NEW first \in Nat, NEW last \in Nat, s # << >>,
           Numbers(s, first, last), Head(s).payload.type = "Application"
    PROVE  /\ Head(s).payload.data = first + 1 /\ first + 1 <= last
           /\ Numbers(Tail(s), first + 1, last)
<1>1. Len(s) \in Nat /\ Len(s) >= 1 /\ 1 \in 1 .. Len(s)
  BY EmptySeq, LenProperties
<1>2. /\ Head(s) = s[1] /\ Tail(s) \in Seq(Record) /\ Len(Tail(s)) = Len(s) - 1
      /\ \A i \in 1 .. Len(s) - 1 : Tail(s)[i] = s[i + 1]
  BY <1>1, HeadTail
<1>3. /\ \A i \in 1 .. Len(s) : s[i].payload.type = "Application" =>
            s[i].payload.data \in first + 1 .. last
      /\ \A n \in first + 1 .. last : \E i \in 1 .. Len(s) :
            s[i].payload.type = "Application" /\ s[i].payload.data = n
      /\ \A i, j \in 1 .. Len(s) :
            s[i].payload.type = "Application" /\ s[j].payload.type = "Application" /\ i < j
              => s[i].payload.data < s[j].payload.data
  BY DEF Numbers
<1>4. s[1].payload.data \in first + 1 .. last /\ first + 1 <= last
  BY <1>1, <1>2, <1>3
<1>5. s[1].payload.data = first + 1
  <2>1. PICK i \in 1 .. Len(s) :
            s[i].payload.type = "Application" /\ s[i].payload.data = first + 1
    BY <1>3, <1>4
  <2>2. i = 1 \/ 1 < i
    BY <1>1
  <2>3. 1 < i => s[1].payload.data < first + 1
    BY <1>1, <1>2, <1>3, <2>1
  <2> QED
    BY <1>4, <2>1, <2>2, <2>3
<1>6. ASSUME NEW i \in 1 .. Len(Tail(s)), Tail(s)[i].payload.type = "Application"
      PROVE  Tail(s)[i].payload.data \in (first + 1) + 1 .. last
  <2>1. i + 1 \in 1 .. Len(s) /\ 1 < i + 1 /\ Tail(s)[i] = s[i + 1]
    BY <1>1, <1>2
  <2>2. s[i + 1].payload.data \in first + 1 .. last
    BY <1>3, <1>6, <2>1
  <2>3. s[1].payload.data < s[i + 1].payload.data
    BY <1>1, <1>2, <1>3, <1>6, <2>1
  <2> QED
    BY <1>5, <2>1, <2>2, <2>3
<1>7. ASSUME NEW n \in (first + 1) + 1 .. last
      PROVE  \E i \in 1 .. Len(Tail(s)) :
                Tail(s)[i].payload.type = "Application" /\ Tail(s)[i].payload.data = n
  <2>1. PICK i \in 1 .. Len(s) :
            s[i].payload.type = "Application" /\ s[i].payload.data = n
    BY <1>3
  <2>2. i # 1
    BY <1>5, <2>1
  <2>3. i - 1 \in 1 .. Len(Tail(s)) /\ (i - 1) + 1 = i
    BY <1>1, <1>2, <2>2
  <2>4. Tail(s)[i - 1] = s[i]
    BY <1>2, <2>3
  <2> QED
    BY <2>1, <2>3, <2>4
<1>8. ASSUME NEW i \in 1 .. Len(Tail(s)), NEW j \in 1 .. Len(Tail(s)), i < j,
             Tail(s)[i].payload.type = "Application", Tail(s)[j].payload.type = "Application"
      PROVE  Tail(s)[i].payload.data < Tail(s)[j].payload.data
  <2>1. /\ i + 1 \in 1 .. Len(s) /\ j + 1 \in 1 .. Len(s) /\ i + 1 < j + 1
        /\ Tail(s)[i] = s[i + 1] /\ Tail(s)[j] = s[j + 1]
    BY <1>1, <1>2, <1>8
  <2> QED
    BY <1>3, <1>8, <2>1
<1> QED
  BY <1>2, <1>4, <1>5, <1>6, <1>7, <1>8 DEF Numbers

\* A signaling message in front does not count.
LEMMA NumbersSkip ==
    ASSUME NEW s \in Seq(Record), NEW first \in Nat, NEW last \in Nat, s # << >>,
           Numbers(s, first, last), Head(s).payload.type # "Application"
    PROVE  Numbers(Tail(s), first, last)
<1>1. Len(s) \in Nat /\ Len(s) >= 1
  BY EmptySeq, LenProperties
<1>2. /\ Head(s) = s[1] /\ Tail(s) \in Seq(Record) /\ Len(Tail(s)) = Len(s) - 1
      /\ \A i \in 1 .. Len(s) - 1 : Tail(s)[i] = s[i + 1]
  BY <1>1, HeadTail
<1>3. /\ \A i \in 1 .. Len(s) : s[i].payload.type = "Application" =>
            s[i].payload.data \in first + 1 .. last
      /\ \A n \in first + 1 .. last : \E i \in 1 .. Len(s) :
            s[i].payload.type = "Application" /\ s[i].payload.data = n
      /\ \A i, j \in 1 .. Len(s) :
            s[i].payload.type = "Application" /\ s[j].payload.type = "Application" /\ i < j
              => s[i].payload.data < s[j].payload.data
  BY DEF Numbers
<1>4. ASSUME NEW i \in 1 .. Len(Tail(s)), Tail(s)[i].payload.type = "Application"
      PROVE  Tail(s)[i].payload.data \in first + 1 .. last
  <2>1. i + 1 \in 1 .. Len(s) /\ Tail(s)[i] = s[i + 1]
    BY <1>1, <1>2
  <2> QED
    BY <1>3, <1>4, <2>1
<1>5. ASSUME NEW n \in first + 1 .. last
      PROVE  \E i \in 1 .. Len(Tail(s)) :
                Tail(s)[i].payload.type = "Application" /\ Tail(s)[i].payload.data = n
  <2>1. PICK i \in 1 .. Len(s) :
            s[i].payload.type = "Application" /\ s[i].payload.data = n
    BY <1>3
  <2>2. i # 1
    BY <1>2, <2>1
  <2>3. i - 1 \in 1 .. Len(Tail(s)) /\ (i - 1) + 1 = i
    BY <1>1, <1>2, <2>2
  <2>4. Tail(s)[i - 1] = s[i]
    BY <1>2, <2>3
  <2> QED
    BY <2>1, <2>3, <2>4
<1>6. ASSUME NEW i \in 1 .. Len(Tail(s)), NEW j \in 1 .. Len(Tail(s)), i < j,
             Tail(s)[i].payload.type = "Application", Tail(s)[j].payload.type = "Application"
      PROVE  Tail(s)[i].payload.data < Tail(s)[j].payload.data
  <2> DEFINE k == i + 1
             l == j + 1
  <2>1. /\ k \in 1 .. Len(s) /\ l \in 1 .. Len(s) /\ k < l
        /\ Tail(s)[i] = s[k] /\ Tail(s)[j] = s[l]
    BY <1>1, <1>2, <1>6
  <2> HIDE DEF k, l
  <2>2. s[k].payload.data < s[l].payload.data
    BY <1>3, <1>6, <2>1
  <2> QED
    BY <2>1, <2>2
<1> QED
  BY <1>2, <1>4, <1>5, <1>6 DEF Numbers

\* The next message at the end.
LEMMA NumbersNext ==
    ASSUME NEW s \in Seq(Record), NEW first \in Nat, NEW last \in Nat, first <= last,
           Numbers(s, first, last), NEW a \in Record,
           a.payload.type = "Application", a.payload.data = last + 1
    PROVE  Numbers(Append(s, a), first, last + 1)
<1> DEFINE u == Append(s, a)
<1>1. /\ Len(s) \in Nat /\ Len(u) = Len(s) + 1 /\ u[Len(s) + 1] = a
      /\ \A i \in 1 .. Len(s) : u[i] = s[i]
  BY AppendRecord
<1>2. /\ \A i \in 1 .. Len(s) : s[i].payload.type = "Application" =>
            s[i].payload.data \in first + 1 .. last
      /\ \A n \in first + 1 .. last : \E i \in 1 .. Len(s) :
            s[i].payload.type = "Application" /\ s[i].payload.data = n
      /\ \A i, j \in 1 .. Len(s) :
            s[i].payload.type = "Application" /\ s[j].payload.type = "Application" /\ i < j
              => s[i].payload.data < s[j].payload.data
  BY DEF Numbers
<1> HIDE DEF u
<1>3. ASSUME NEW i \in 1 .. Len(u), u[i].payload.type = "Application"
      PROVE  u[i].payload.data \in first + 1 .. last + 1
  BY <1>1, <1>2, <1>3
<1>4. ASSUME NEW n \in first + 1 .. last + 1
      PROVE  \E i \in 1 .. Len(u) : u[i].payload.type = "Application" /\ u[i].payload.data = n
  <2>1. CASE n = last + 1
    BY <1>1, <2>1
  <2>2. CASE n # last + 1
    <3>1. PICK i \in 1 .. Len(s) : s[i].payload.type = "Application" /\ s[i].payload.data = n
      BY <1>2, <2>2
    <3> QED
      BY <1>1, <3>1
  <2> QED
    BY <2>1, <2>2
<1>5. ASSUME NEW i \in 1 .. Len(u), NEW j \in 1 .. Len(u), i < j,
             u[i].payload.type = "Application", u[j].payload.type = "Application"
      PROVE  u[i].payload.data < u[j].payload.data
  <2>1. i \in 1 .. Len(s) /\ u[i] = s[i]
    BY <1>1, <1>5
  <2>2. s[i].payload.data \in first + 1 .. last
    BY <1>2, <1>5, <2>1
  <2>3. CASE j = Len(s) + 1
    BY <1>1, <2>1, <2>2, <2>3
  <2>4. CASE j \in 1 .. Len(s)
    BY <1>1, <1>2, <1>5, <2>1, <2>4
  <2> QED
    BY <1>1, <2>3, <2>4
<1>6. Numbers(u, first, last + 1)
  BY <1>3, <1>4, <1>5 DEF Numbers
<1> QED
  BY <1>6 DEF u

\* A signaling message at the end does not count.
LEMMA NumbersOther ==
    ASSUME NEW s \in Seq(Record), NEW first \in Nat, NEW last \in Nat,
           Numbers(s, first, last), NEW a \in Record, a.payload.type # "Application"
    PROVE  Numbers(Append(s, a), first, last)
<1> DEFINE u == Append(s, a)
<1>1. /\ Len(s) \in Nat /\ Len(u) = Len(s) + 1 /\ u[Len(s) + 1] = a
      /\ \A i \in 1 .. Len(s) : u[i] = s[i]
  BY AppendRecord
<1> HIDE DEF u
<1>2. \A i \in 1 .. Len(u) : u[i].payload.type = "Application" =>
        i \in 1 .. Len(s) /\ u[i] = s[i]
  BY <1>1
<1>3. \A i \in 1 .. Len(s) : i \in 1 .. Len(u) /\ u[i] = s[i]
  BY <1>1
<1>4. Numbers(u, first, last)
  BY <1>2, <1>3 DEF Numbers
<1> QED
  BY <1>4 DEF u

\* If no application message is under way, everything has arrived.
LEMMA NumbersNone ==
    ASSUME NEW s \in Seq(Record), NEW first \in Nat, NEW last \in Nat, first <= last,
           Numbers(s, first, last), NoApplication(s)
    PROVE  first = last
<1>1. \A n \in first + 1 .. last : FALSE
  BY DEF Numbers, NoApplication
<1> QED
  BY <1>1

-----------------------------------------------------------------------------
(***************************************************************************)
(* The handlers, as the operations call them.                              *)
(***************************************************************************)

\* The operators of the connection's instance are those of its components.
LEMMA AtomicHandlers ==
    /\ \A p, requested :
         Atomic!update_handshake(p, requested) =
            IF p = "client" THEN client_update(hs[p], requested, commits + 1)
                            ELSE server_update(hs[p], requested, commits + 1)
    /\ \A p, message :
         Atomic!process_signaling_message(p, message) =
            IF p = "client" THEN client_receive_signaling_message(hs[p], message, commits + 1)
                            ELSE server_receive_signaling_message(hs[p], message, commits + 1)
<1>1. ASSUME NEW g, NEW c, NEW drop
      PROVE  Atomic!process_mls_update(g, c, drop) = process_mls_update(g, c, drop)
  BY
   DEF Atomic!NoCommit, NoCommit, Atomic!merge_update, merge_update,
       Atomic!resolve_pending, resolve_pending, Atomic!process_mls_update,
       process_mls_update
<1>2. ASSUME NEW state, NEW requested, NEW fresh, NEW u
      PROVE  /\ Atomic!self_update_and_merge(state, requested, fresh)
                  = self_update_and_merge(state, requested, fresh)
             /\ Atomic!self_update_and_wait(state, requested, fresh, u)
                  = self_update_and_wait(state, requested, fresh, u)
  BY
   DEF Atomic!self_update_and_merge, self_update_and_merge,
       Atomic!self_update_and_wait, self_update_and_wait, Atomic!update, update,
       Atomic!merge_update, merge_update, Atomic!Waiting, Waiting,
       Atomic!WaitingForUpdate, WaitingForUpdate, Atomic!ConnectionUpdate,
       ConnectionUpdate, Atomic!ClientSecret, ClientSecret, Atomic!Done, Done,
       Atomic!Failed, Failed, Atomic!NoMessage, NoMessage, Atomic!Application,
       Application, Atomic!NoSecretUpdate, NoSecretUpdate, Atomic!NoCommit, NoCommit
<1>3. ASSUME NEW state, NEW message, NEW fresh
      PROVE  Atomic!client_process_update(state, message, fresh)
                = client_process_update(state, message, fresh)
  BY <1>1, <1>2
   DEF Atomic!client_process_update, client_process_update,
       Atomic!create_epoch_key_update, create_epoch_key_update, Atomic!EpochKeyUpdate,
       EpochKeyUpdate, Atomic!Waiting, Waiting, Atomic!ClientSecret, ClientSecret,
       Atomic!Done, Done, Atomic!Failed, Failed, Atomic!NoMessage, NoMessage,
       Atomic!Application, Application, Atomic!NoSecretUpdate, NoSecretUpdate,
       Atomic!NoCommit, NoCommit
<1>4. ASSUME NEW state, NEW message, NEW fresh
      PROVE  Atomic!server_process_update(state, message, fresh)
                = server_process_update(state, message, fresh)
  BY <1>1, <1>2
   DEF Atomic!server_process_update, server_process_update, Atomic!server_follow,
       server_follow, Atomic!Running, Running, Atomic!create_epoch_key_update,
       create_epoch_key_update, Atomic!EpochKeyUpdate, EpochKeyUpdate, Atomic!Both,
       Both, Atomic!Done, Done, Atomic!Failed, Failed, Atomic!NoMessage, NoMessage,
       Atomic!Application, Application, Atomic!NoSecretUpdate, NoSecretUpdate,
       Atomic!NoCommit, NoCommit
<1>5. ASSUME NEW state, NEW message, NEW fresh
      PROVE  Atomic!client_receive_signaling_message(state, message, fresh)
                = client_receive_signaling_message(state, message, fresh)
  BY <1>3
   DEF Atomic!client_receive_signaling_message, client_receive_signaling_message,
       Atomic!client_receive_confirmation, client_receive_confirmation,
       Atomic!client_is_waiting, client_is_waiting, Atomic!process_epoch_key_update,
       process_epoch_key_update, Atomic!Running, Running, Atomic!ServerSecret,
       ServerSecret, Atomic!Done, Done, Atomic!Failed, Failed, Atomic!NoMessage,
       NoMessage, Atomic!Application, Application, Atomic!NoSecretUpdate,
       NoSecretUpdate, Atomic!NoCommit, NoCommit
<1>6. ASSUME NEW state, NEW message, NEW fresh
      PROVE  Atomic!server_receive_signaling_message(state, message, fresh)
                = server_receive_signaling_message(state, message, fresh)
  BY <1>4
   DEF Atomic!server_receive_signaling_message, server_receive_signaling_message,
       Atomic!server_receive_epoch_key_update, server_receive_epoch_key_update,
       Atomic!server_is_waiting, server_is_waiting, Atomic!merge_update, merge_update,
       Atomic!process_epoch_key_update, process_epoch_key_update,
       Atomic!create_epoch_key_update, create_epoch_key_update, Atomic!EpochKeyUpdate,
       EpochKeyUpdate, Atomic!Running, Running, Atomic!Both, Both, Atomic!Done, Done,
       Atomic!Failed, Failed, Atomic!NoMessage, NoMessage, Atomic!Application,
       Application, Atomic!NoSecretUpdate, NoSecretUpdate, Atomic!NoCommit, NoCommit
<1>7. ASSUME NEW state, NEW requested, NEW fresh
      PROVE  /\ Atomic!client_update(state, requested, fresh)
                  = client_update(state, requested, fresh)
             /\ Atomic!server_update(state, requested, fresh)
                  = server_update(state, requested, fresh)
  BY <1>2
   DEF Atomic!client_update, client_update, Atomic!server_update, server_update,
       Atomic!client_is_waiting, client_is_waiting, Atomic!server_is_waiting,
       server_is_waiting, Atomic!Failed, Failed, Atomic!NoMessage, NoMessage,
       Atomic!Application, Application, Atomic!NoSecretUpdate, NoSecretUpdate,
       Atomic!NoCommit, NoCommit
<1> QED
  BY <1>5, <1>6, <1>7 DEF Atomic!update_handshake, Atomic!process_signaling_message

\* The types, one by one.
LEMMA Types ==
    ASSUME TypeOK, NEW p \in Party
    PROVE  /\ hs[p] \in Handshake /\ codec[p] \in Codec /\ commits \in Nat
           /\ op[p] \in [stage : {"none", "ready", "flush", "close"}, message : InnerPlaintext,
                         secret_update : SecretUpdates, bytes : 0 .. MaxSends]
           /\ buffer[p] \in Seq(Record) /\ tcp[p] \in Seq(Record) /\ held[p] \in Seq(Record)
           /\ sent[p] \in Nat /\ delivered[p] \in Nat /\ received[p] \in Nat
           /\ Peer(p) \in Party
BY AsyncAssumption, PeerFacts DEF TypeOK

\* What the handlers return to the operations that call them.
LEMMA Handlers ==
    ASSUME TypeOK, NEW p \in Party, hs[p].internal_state.tag \in Tag(p)
    PROVE  /\ \A requested \in Atomic!Requests(p) :
                LET r == Atomic!update_handshake(p, requested)
                IN  /\ r \in Result /\ r.state.internal_state.tag \in Tag(p) /\ Clean(r)
                    /\ r.error = "ok" => r.message # NoMessage
           /\ \A message \in InnerPlaintext : message.type # "Application" =>
                LET r == Atomic!process_signaling_message(p, message)
                IN  r \in Result /\ r.state.internal_state.tag \in Tag(p) /\ Clean(r)
<1>1. hs[p] \in Handshake /\ commits + 1 \in Nat
  BY Types
<1>2. Atomic!Requests(p) \subseteq BOOLEAN
  BY AsyncAssumption DEF Atomic!Requests
<1>3. ASSUME NEW requested \in Atomic!Requests(p)
      PROVE  LET r == Atomic!update_handshake(p, requested)
             IN  /\ r \in Result /\ r.state.internal_state.tag \in Tag(p) /\ Clean(r)
                 /\ r.error = "ok" => r.message # NoMessage
  BY <1>1, <1>2, AtomicHandlers, CleanUpdates, ClientUpdateType, ServerUpdateType
     DEF Tag
<1>4. ASSUME NEW message \in InnerPlaintext, message.type # "Application"
      PROVE  LET r == Atomic!process_signaling_message(p, message)
             IN  r \in Result /\ r.state.internal_state.tag \in Tag(p) /\ Clean(r)
  <2>1. message.type \in SignalingType
    BY <1>4 DEF InnerPlaintext
  <2> QED
    BY <1>1, <1>4, <2>1, AtomicHandlers, CleanAnswers, ClientReceiveType, ServerReceiveType
       DEF Tag
<1> QED
  BY <1>3, <1>4

-----------------------------------------------------------------------------
(***************************************************************************)
(* Every step keeps the invariant.                                         *)
(***************************************************************************)

LEMMA NoOpFields ==
    /\ NoOp \in [stage : {"none", "ready", "flush", "close"}, message : InnerPlaintext,
                 secret_update : SecretUpdates, bytes : 0 .. MaxSends]
    /\ NoOp.stage = "none" /\ NoOp.message = NoMessage
    /\ NoOp.secret_update = NoSecretUpdate /\ NoOp.bytes = 0
<1>1. NoMessage \in InnerPlaintext /\ NoSecretUpdate \in SecretUpdates /\ 0 \in 0 .. MaxSends
  BY MessageTypes, AsyncAssumption
<1> QED
  BY <1>1 DEF NoOp, Op

LEMMA SendStep ==
    ASSUME AsyncInv, NEW p \in Party, SendBytes(p)
    PROVE  AsyncInv'
<1> DEFINE q == Peer(p)
<1>1. q \in Party /\ q # p /\ Peer(q) = p /\ \A x \in Party : x = p \/ x = q
  BY DEF Peer, Party
<1> HIDE DEF q
<1>2. /\ error[p] = "ok" /\ ~closed[p] /\ op[p] = NoOp /\ sent[p] < MaxSends
      /\ UNCHANGED <<codec, buffer, tcp, held, sent, delivered, received, closed, dropped, ended>>
  BY DEF SendBytes, Idle
<1>3. PICK o : /\ o \in {NoOp} \union
                        [stage : {"ready"}, message : InnerPlaintext,
                         secret_update : SecretUpdates, bytes : {sent[p] + 1}]
               /\ o.message = NoMessage \/ o.message.type # "Application"
               /\ o.message = NoMessage => o.secret_update = NoSecretUpdate
               /\ op' = [op EXCEPT ![p] = o]
               /\ hs' \in [Party -> Handshake] /\ \A x \in Party : hs'[x].internal_state.tag \in Tag(x)
               /\ commits' \in Nat /\ error' \in [Party -> ErrorKind]
               /\ error'[q] = error[q]
  <2>1. CASE op' = [op EXCEPT ![p] = Op("ready", NoMessage, NoSecretUpdate, sent[p] + 1)]
             /\ UNCHANGED <<hs, commits, error>>
    <3> DEFINE o == Op("ready", NoMessage, NoSecretUpdate, sent[p] + 1)
    <3>1. o \in [stage : {"ready"}, message : InnerPlaintext,
                 secret_update : SecretUpdates, bytes : {sent[p] + 1}]
          /\ o.message = NoMessage /\ o.secret_update = NoSecretUpdate
      BY MessageTypes DEF Op
    <3> HIDE DEF o
    <3> QED
      BY <2>1, <3>1 DEF o, AsyncInv, TypeOK
  <2>2. CASE \E requested \in Atomic!Requests(p) :
               LET r == Atomic!update_handshake(p, requested)
               IN  /\ r.error # "WaitingForResponse"
                   /\ hs' = [hs EXCEPT ![p] = r.state]
                   /\ commits' = commits + r.made
                   /\ error' = [error EXCEPT ![p] = r.error]
                   /\ op' = IF r.error # "ok" THEN op ELSE
                            [op EXCEPT ![p] =
                                Op("ready", r.message, r.secret_update, sent[p] + 1)]
    <3>1. PICK requested \in Atomic!Requests(p) :
               LET r == Atomic!update_handshake(p, requested)
               IN  /\ hs' = [hs EXCEPT ![p] = r.state]
                   /\ commits' = commits + r.made
                   /\ error' = [error EXCEPT ![p] = r.error]
                   /\ op' = IF r.error # "ok" THEN op ELSE
                            [op EXCEPT ![p] =
                                Op("ready", r.message, r.secret_update, sent[p] + 1)]
      BY <2>2
    <3> DEFINE r == Atomic!update_handshake(p, requested)
    <3>2. /\ hs' = [hs EXCEPT ![p] = r.state]
          /\ commits' = commits + r.made
          /\ error' = [error EXCEPT ![p] = r.error]
          /\ op' = IF r.error # "ok" THEN op ELSE
                   [op EXCEPT ![p] = Op("ready", r.message, r.secret_update, sent[p] + 1)]
      BY <3>1
    <3>3. /\ r \in Result /\ r.state.internal_state.tag \in Tag(p) /\ Clean(r)
          /\ r.error = "ok" => r.message # NoMessage
      BY Handlers DEF AsyncInv
    <3> HIDE DEF r
    <3>4. /\ hs' \in [Party -> Handshake] /\ \A x \in Party : hs'[x].internal_state.tag \in Tag(x)
          /\ commits' \in Nat /\ error' \in [Party -> ErrorKind] /\ error'[q] = error[q]
      <4>1. /\ r.state \in Handshake /\ r.made \in Nat /\ r.error \in ErrorKind
            /\ hs \in [Party -> Handshake] /\ commits \in Nat /\ error \in [Party -> ErrorKind]
            /\ \A x \in Party : hs[x].internal_state.tag \in Tag(x)
        BY <3>3 DEF AsyncInv, TypeOK, Result
      <4>2. \A x \in Party : hs'[x].internal_state.tag \in Tag(x)
        BY <3>2, <3>3, <4>1
      <4> QED
        BY <1>1, <3>2, <4>1, <4>2
    <3>5. CASE r.error = "ok"
      <4> DEFINE o == Op("ready", r.message, r.secret_update, sent[p] + 1)
      <4>1. /\ o \in [stage : {"ready"}, message : InnerPlaintext,
                      secret_update : SecretUpdates, bytes : {sent[p] + 1}]
            /\ o.message = r.message
        BY <3>3 DEF Op, Result
      <4>2. op' = [op EXCEPT ![p] = o]
        BY <3>2, <3>5
      <4> HIDE DEF o
      <4> QED
        BY <3>3, <3>4, <3>5, <4>1, <4>2 DEF Clean
    <3>6. CASE r.error # "ok"
      <4>1. op' = [op EXCEPT ![p] = NoOp]
        BY <1>2, <3>2, <3>6 DEF AsyncInv, TypeOK
      <4> QED
        BY <3>4, <4>1, NoOpFields
    <3> QED
      BY <3>5, <3>6
  <2> QED
    BY <2>1, <2>2 DEF SendBytes
<1>4. sent[p] + 1 \in 0 .. MaxSends /\ sent[p] \in Nat
  BY <1>2, Types, AsyncAssumption DEF AsyncInv
<1>5. o \in [stage : {"none", "ready", "flush", "close"}, message : InnerPlaintext,
             secret_update : SecretUpdates, bytes : 0 .. MaxSends]
  BY <1>3, <1>4, NoOpFields
<1>6. TypeOK'
  BY <1>2, <1>3, <1>5 DEF AsyncInv, TypeOK
<1>7. op'[p] = o /\ op'[q] = op[q]
  BY <1>1, <1>3 DEF AsyncInv, TypeOK
<1>8. OpInv(p)' /\ OpInv(q)'
  BY <1>1, <1>2, <1>3, <1>4, <1>7, NoOpFields DEF AsyncInv, OpInv
<1>9. FlowInv(p)' /\ FlowInv(q)'
  BY <1>1, <1>2, <1>3 DEF AsyncInv, FlowInv, Flow
<1>10. EndInv(p)' /\ EndInv(q)'
  BY <1>1, <1>2, <1>7 DEF AsyncInv, EndInv
<1> QED
  BY <1>1, <1>2, <1>3, <1>6, <1>8, <1>9, <1>10 DEF AsyncInv

LEMMA StartStep ==
    ASSUME AsyncInv, NEW p \in Party, StartSend(p)
    PROVE  AsyncInv'
<1> DEFINE q == Peer(p)
           o == op[p]
           a == encrypt(codec[p], Item(o))
<1>1. q \in Party /\ q # p /\ Peer(q) = p /\ \A x \in Party : x = p \/ x = q
  BY DEF Peer, Party
<1> HIDE DEF q
<1>2. /\ o.stage = "ready"
      /\ buffer' = [buffer EXCEPT ![p] = Append(@, a)]
      /\ codec' = [codec EXCEPT ![p] = after_encrypt(@)]
      /\ sent' = IF Item(o).type = "Application" THEN [sent EXCEPT ![p] = o.bytes] ELSE sent
      /\ op' = [op EXCEPT ![p].stage = "flush"]
      /\ UNCHANGED <<hs, tcp, held, delivered, received, commits, error, closed, dropped, ended>>
  BY DEF StartSend
<1>3. /\ o \in [stage : {"none", "ready", "flush", "close"}, message : InnerPlaintext,
                secret_update : SecretUpdates, bytes : 0 .. MaxSends]
      /\ o.message \in InnerPlaintext /\ o.bytes \in Nat /\ o.bytes \in 0 .. MaxSends
  BY Types, AsyncAssumption DEF AsyncInv
<1>4. /\ o.message = NoMessage \/ o.message.type # "Application"
      /\ o.message = NoMessage => o.secret_update = NoSecretUpdate /\ o.bytes # 0
      /\ o.bytes # 0 => o.bytes = sent[p] + 1
  BY <1>2 DEF AsyncInv, OpInv
<1>5. /\ Item(o) \in InnerPlaintext /\ (Item(o).type = "Application" <=> o.message = NoMessage)
      /\ o.message = NoMessage => Item(o).data = o.bytes
  BY <1>3, <1>4, MessageTypes DEF Item, Application
<1>6. /\ a \in Record /\ a.payload = Item(o) /\ after_encrypt(codec[p]) \in Codec
  BY <1>5, Types, CodecType DEF AsyncInv, encrypt
<1> HIDE DEF a
<1>7. op'[p] = [o EXCEPT !.stage = "flush"] /\ op'[q] = op[q] /\ op' \in
        [Party -> [stage : {"none", "ready", "flush", "close"}, message : InnerPlaintext,
                   secret_update : SecretUpdates, bytes : 0 .. MaxSends]]
  BY <1>1, <1>2, <1>3 DEF AsyncInv, TypeOK
<1>8. /\ op'[p].stage = "flush" /\ op'[p].message = o.message /\ op'[p].bytes = o.bytes
      /\ op'[p].secret_update = o.secret_update
  BY <1>3, <1>7
<1> HIDE DEF o
<1>9. buffer' \in [Party -> Seq(Record)] /\ buffer'[p] = Append(buffer[p], a)
      /\ buffer'[q] = buffer[q]
  BY <1>1, <1>2, <1>6 DEF AsyncInv, TypeOK
<1>10. codec' \in [Party -> Codec]
  BY <1>2, <1>6 DEF AsyncInv, TypeOK
<1>11. /\ sent' \in [Party -> 0 .. MaxSends] /\ sent'[q] = sent[q] /\ sent[p] \in Nat
       /\ o.message = NoMessage => sent'[p] = sent[p] + 1
       /\ o.message # NoMessage => sent'[p] = sent[p]
  BY <1>1, <1>2, <1>3, <1>4, <1>5, Types DEF AsyncInv, TypeOK
<1>12. TypeOK'
  BY <1>2, <1>7, <1>9, <1>10, <1>11 DEF AsyncInv, TypeOK
<1>13. OpInv(p)' /\ OpInv(q)'
  BY <1>1, <1>4, <1>7, <1>8, <1>11 DEF AsyncInv, OpInv
<1>14. FlowInv(p)'
  BY <1>1, <1>2, <1>9, <1>11 DEF AsyncInv, FlowInv, Flow, q
<1>15. FlowInv(q)'
  <2>1. /\ delivered[q] \in Nat /\ received[q] \in Nat /\ held[q] \in Seq(Record)
        /\ tcp[q] \in Seq(Record) /\ buffer[p] \in Seq(Record)
    BY <1>1, Types DEF AsyncInv
  <2>2. /\ Flow(q) \in Seq(Record) /\ Flow(q)' = Append(Flow(q), a)
    <3>1. held[q] \o tcp[q] \in Seq(Record) /\ held[q] \o tcp[q] \o buffer[p] \in Seq(Record)
      BY <2>1, ConcatProperties
    <3>2. held[q] \o tcp[q] \o Append(buffer[p], a) = Append(held[q] \o tcp[q] \o buffer[p], a)
      BY <1>6, <2>1, <3>1, ConcatAppend
    <3> QED
      BY <1>1, <1>2, <1>9, <3>1, <3>2 DEF Flow
  <2>3. FlowInv(q)
    BY <1>1 DEF AsyncInv
  <2>4. delivered'[q] = received'[q] /\ received'[q] <= sent'[p]
    BY <1>1, <1>2, <1>11, <2>1, <2>3 DEF FlowInv
  <2>5. ASSUME error[q] = "ok" \/ ended[q]
        PROVE  Numbers(Append(Flow(q), a), delivered[q], sent'[p])
    <3>1. Numbers(Flow(q), delivered[q], sent[p]) /\ delivered[q] <= sent[p]
      BY <1>1, <2>3, <2>5 DEF FlowInv
    <3>2. CASE o.message = NoMessage
      <4>1. a.payload.type = "Application" /\ a.payload.data = sent[p] + 1
        BY <1>4, <1>5, <1>6, <3>2
      <4> QED
        BY <1>6, <1>11, <2>1, <2>2, <3>1, <3>2, <4>1, NumbersNext
    <3>3. CASE o.message # NoMessage
      <4>1. a.payload.type # "Application"
        BY <1>5, <1>6, <3>3
      <4> QED
        BY <1>6, <1>11, <2>1, <2>2, <3>1, <3>3, <4>1, NumbersOther
    <3> QED
      BY <3>2, <3>3
  <2> QED
    BY <1>1, <1>2, <2>2, <2>4, <2>5 DEF FlowInv
<1>16. ASSUME closed[p] PROVE NoApplication(Append(buffer[p], a)) /\ o.bytes = 0
  <2>1. NoApplication(buffer[p]) /\ o.bytes = 0
    BY <1>16 DEF AsyncInv, EndInv, o
  <2>2. a.payload.type # "Application"
    BY <1>4, <1>5, <1>6, <2>1
  <2>3. buffer[p] \in Seq(Record)
    BY Types DEF AsyncInv
  <2> QED
    BY <1>6, <2>1, <2>2, <2>3, AppendRecord DEF NoApplication
<1>17. EndInv(p)' /\ EndInv(q)'
  BY <1>1, <1>2, <1>7, <1>8, <1>9, <1>16 DEF AsyncInv, EndInv, q
<1> QED
  BY <1>1, <1>2, <1>12, <1>13, <1>14, <1>15, <1>17 DEF AsyncInv

LEMMA WriteStep ==
    ASSUME AsyncInv, NEW p \in Party, Write(p)
    PROVE  AsyncInv'
<1> DEFINE q == Peer(p)
<1>1. q \in Party /\ q # p /\ Peer(q) = p /\ \A x \in Party : x = p \/ x = q
  BY DEF Peer, Party
<1>2. /\ buffer[p] # << >> /\ ~closed[p] /\ ~dropped[p]
      /\ tcp' = [tcp EXCEPT ![q] = Append(@, Head(buffer[p]))]
      /\ buffer' = [buffer EXCEPT ![p] = Tail(@)]
      /\ UNCHANGED <<hs, codec, op, held, sent, delivered, received, commits, error,
                     closed, dropped, ended>>
  BY DEF Write
<1> HIDE DEF q
<1>3. /\ held[q] \in Seq(Record) /\ tcp[q] \in Seq(Record) /\ buffer[p] \in Seq(Record)
      /\ tcp \in [Party -> Seq(Record)] /\ buffer \in [Party -> Seq(Record)]
  BY <1>1, Types DEF AsyncInv, TypeOK
<1>4. Head(buffer[p]) \in Record /\ Tail(buffer[p]) \in Seq(Record)
  BY <1>2, <1>3, FirstAndOthers
<1>5. Append(tcp[q], Head(buffer[p])) \in Seq(Record)
  BY <1>3, <1>4, AppendRecord
<1>6. /\ tcp' \in [Party -> Seq(Record)] /\ buffer' \in [Party -> Seq(Record)]
      /\ tcp'[q] = Append(tcp[q], Head(buffer[p])) /\ tcp'[p] = tcp[p]
      /\ buffer'[p] = Tail(buffer[p]) /\ buffer'[q] = buffer[q]
  BY <1>1, <1>2, <1>3, <1>4, <1>5
<1>7. TypeOK'
  BY <1>2, <1>6 DEF AsyncInv, TypeOK
<1>8. Flow(p)' = Flow(p) /\ Flow(q)' = Flow(q)
  <2>1. held[q] \o Append(tcp[q], Head(buffer[p])) \o Tail(buffer[p])
          = held[q] \o tcp[q] \o buffer[p]
    BY <1>2, <1>3, MoveLast
  <2>2. Peer(p) = q
    BY DEF q
  <2> QED
    BY <1>1, <1>2, <1>6, <2>1, <2>2 DEF Flow
<1>9. FlowInv(p)' /\ FlowInv(q)'
  BY <1>1, <1>2, <1>8 DEF AsyncInv, FlowInv, q
<1>10. OpInv(p)' /\ OpInv(q)'
  BY <1>1, <1>2 DEF AsyncInv, OpInv
<1>11. ~closed[p] /\ ~ended[q]
  BY <1>1, <1>2 DEF AsyncInv, EndInv
<1>12. EndInv(p)' /\ EndInv(q)'
  BY <1>1, <1>2, <1>6, <1>11 DEF AsyncInv, EndInv, q
<1> QED
  BY <1>1, <1>2, <1>7, <1>9, <1>10, <1>12 DEF AsyncInv

\* The next operation, or what an operation goes on with.
Follows(p, o) ==
    /\ o \in [stage : {"none", "ready", "flush", "close"}, message : InnerPlaintext,
              secret_update : SecretUpdates, bytes : 0 .. MaxSends]
    /\ o.message = NoMessage /\ o.secret_update = NoSecretUpdate
    /\ o.stage = "ready" => o.bytes # 0 /\ o.bytes = sent[p] + 1
    /\ o.stage \in {"none", "close"} => o.bytes = 0

LEMMA OperationStep ==
    ASSUME AsyncInv, NEW p \in Party, NEW o, Follows(p, o),
           op' = [op EXCEPT ![p] = o], codec' \in [Party -> Codec],
           UNCHANGED <<hs, buffer, tcp, held, sent, delivered, received, commits, error,
                       dropped, ended>>,
           \/ closed' = closed /\ (~closed[p] \/ o = NoOp)
           \/ closed' = [closed EXCEPT ![p] = TRUE] /\ buffer[p] = << >> /\ o = NoOp
    PROVE  AsyncInv'
<1> DEFINE q == Peer(p)
<1>1. q \in Party /\ q # p /\ Peer(q) = p /\ Peer(p) = q /\ \A x \in Party : x = p \/ x = q
  BY DEF Peer, Party
<1> HIDE DEF q
<1>2. op'[p] = o /\ op'[q] = op[q] /\ op' \in
        [Party -> [stage : {"none", "ready", "flush", "close"}, message : InnerPlaintext,
                   secret_update : SecretUpdates, bytes : 0 .. MaxSends]]
  BY <1>1 DEF AsyncInv, TypeOK, Follows
<1>3. /\ closed' \in [Party -> BOOLEAN] /\ closed'[q] = closed[q]
      /\ closed'[p] => NoApplication(buffer[p]) /\ o = NoOp
  <2>1. NoApplication(<< >>)
    BY DEF NoApplication
  <2> QED
    BY <1>1, <2>1 DEF AsyncInv, TypeOK, EndInv
<1>4. TypeOK'
  BY <1>2, <1>3 DEF AsyncInv, TypeOK
<1>5. OpInv(p)' /\ OpInv(q)'
  BY <1>1, <1>2 DEF AsyncInv, OpInv, Follows
<1>6. FlowInv(p)' /\ FlowInv(q)'
  BY <1>1 DEF AsyncInv, FlowInv, Flow
<1>7. closed[p] => closed'[p]
  BY DEF AsyncInv, TypeOK
<1>8. EndInv(p)' /\ EndInv(q)'
  BY <1>1, <1>2, <1>3, <1>7, NoOpFields DEF AsyncInv, EndInv
<1> QED
  BY <1>1, <1>4, <1>5, <1>6, <1>8 DEF AsyncInv

LEMMA FollowsNoOp == ASSUME NEW p PROVE Follows(p, NoOp)
BY NoOpFields DEF Follows

LEMMA OtherSteps ==
    ASSUME AsyncInv, NEW p \in Party,
           Flushed(p) \/ Cancel(p) \/ Shutdown(p) \/ PollClose(p)
    PROVE  AsyncInv'
<1>1. /\ op[p] \in [stage : {"none", "ready", "flush", "close"}, message : InnerPlaintext,
                    secret_update : SecretUpdates, bytes : 0 .. MaxSends]
      /\ op[p].secret_update \in SecretUpdates /\ op[p].bytes \in 0 .. MaxSends
      /\ codec \in [Party -> Codec] /\ codec[p] \in Codec /\ sent[p] \in Nat
  BY Types DEF AsyncInv, TypeOK
<1>2. closed[p] => op[p].bytes = 0
  BY DEF AsyncInv, EndInv
<1>3. CASE Flushed(p)
  <2> DEFINE o == IF op[p].message # NoMessage /\ op[p].bytes # 0
                  THEN Op("ready", NoMessage, NoSecretUpdate, op[p].bytes) ELSE NoOp
  <2>1. /\ op' = [op EXCEPT ![p] = o] /\ op[p].stage = "flush" /\ closed' = closed
        /\ codec' = [codec EXCEPT ![p] = update_traffic_secrets(@, p, op[p].secret_update)]
        /\ UNCHANGED <<hs, buffer, tcp, held, sent, delivered, received, commits, error,
                       dropped, ended>>
    BY <1>3 DEF Flushed
  <2>2. codec' \in [Party -> Codec]
    <3>1. update_traffic_secrets(codec[p], p, op[p].secret_update) \in Codec
      BY <1>1, CodecType
    <3> QED
      BY <1>1, <2>1, <3>1
  <2>3. Follows(p, o)
    <3>1. CASE op[p].message # NoMessage /\ op[p].bytes # 0
      <4>1. op[p].bytes = sent[p] + 1
        BY <3>1 DEF AsyncInv, OpInv
      <4> DEFINE m == op[p].bytes
      <4>2. m \in 0 .. MaxSends /\ m # 0 /\ m = sent[p] + 1
        BY <1>1, <3>1, <4>1
      <4> HIDE DEF m
      <4>3. Follows(p, Op("ready", NoMessage, NoSecretUpdate, m))
        BY <4>2, MessageTypes DEF Follows, Op
      <4> QED
        BY <3>1, <4>3 DEF m
    <3>2. CASE ~(op[p].message # NoMessage /\ op[p].bytes # 0)
      BY <3>2, FollowsNoOp
    <3> QED
      BY <3>1, <3>2
  <2>4. ~closed[p] \/ o = NoOp
    BY <1>2
  <2> HIDE DEF o
  <2> QED
    BY <2>1, <2>2, <2>3, <2>4, OperationStep
<1>4. CASE Cancel(p)
  BY <1>1, <1>4, FollowsNoOp, OperationStep DEF Cancel
<1>5. CASE Shutdown(p)
  <2>1. Follows(p, Op("close", NoMessage, NoSecretUpdate, 0))
    BY MessageTypes, AsyncAssumption DEF Follows, Op
  <2> QED
    BY <1>1, <1>5, <2>1, OperationStep DEF Shutdown, Idle
<1>6. CASE PollClose(p)
  BY <1>1, <1>6, FollowsNoOp, OperationStep DEF PollClose
<1> QED
  BY <1>3, <1>4, <1>5, <1>6

LEMMA ReadStep ==
    ASSUME AsyncInv, NEW p \in Party, ReadMessage(p)
    PROVE  AsyncInv'
<1> DEFINE q == Peer(p)
           a == Head(tcp[p])
<1>1. q \in Party /\ q # p /\ Peer(q) = p /\ Peer(p) = q /\ \A x \in Party : x = p \/ x = q
  BY DEF Peer, Party
<1> HIDE DEF q
<1>2. /\ error[p] = "ok" /\ Len(held[p]) < ReadAhead /\ tcp[p] # << >>
      /\ tcp' = [tcp EXCEPT ![p] = Tail(@)]
      /\ \/ /\ held' = [held EXCEPT ![p] = Append(@, a)]
            /\ codec' = [codec EXCEPT ![p] = after_decrypt(@)]
            /\ error' = error
         \/ /\ error' = [error EXCEPT ![p] = "DecryptionError"]
            /\ UNCHANGED <<held, codec>>
      /\ UNCHANGED <<hs, op, buffer, sent, delivered, received, commits, closed, dropped, ended>>
  BY DEF ReadMessage, Idle
<1>3. /\ held[p] \in Seq(Record) /\ tcp[p] \in Seq(Record) /\ buffer[q] \in Seq(Record)
      /\ tcp \in [Party -> Seq(Record)] /\ held \in [Party -> Seq(Record)]
      /\ codec \in [Party -> Codec] /\ error \in [Party -> ErrorKind]
      /\ codec[p] \in Codec
  BY <1>1, Types DEF AsyncInv, TypeOK
<1>4. a \in Record /\ Tail(tcp[p]) \in Seq(Record)
  BY <1>2, <1>3, FirstAndOthers
<1>5. /\ Append(held[p], a) \in Seq(Record) /\ Len(Append(held[p], a)) = Len(held[p]) + 1
      /\ Len(held[p]) \in Nat /\ after_decrypt(codec[p]) \in Codec
  BY <1>3, <1>4, AppendRecord, CodecType
<1>6. tcp' \in [Party -> Seq(Record)] /\ tcp'[p] = Tail(tcp[p]) /\ tcp'[q] = tcp[q]
  BY <1>1, <1>2, <1>3, <1>4
<1>7. /\ held' \in [Party -> Seq(Record)] /\ held'[q] = held[q]
      /\ codec' \in [Party -> Codec] /\ error' \in [Party -> ErrorKind]
      /\ error'[q] = error[q]
      /\ held'[p] = held[p] \/ held'[p] = Append(held[p], a)
      /\ error'[p] = "ok" => held'[p] = Append(held[p], a)
  BY <1>1, <1>2, <1>3, <1>5 DEF ErrorKind
<1>8. Len(held'[p]) <= ReadAhead
  BY <1>2, <1>5, <1>7, AsyncAssumption
<1>9. TypeOK'
  BY <1>2, <1>6, <1>7 DEF AsyncInv, TypeOK
<1>10. OpInv(p)' /\ OpInv(q)'
  BY <1>1, <1>2 DEF AsyncInv, OpInv
<1>11. error'[p] = "ok" => Flow(p)' = Flow(p)
  <2>1. Append(held[p], a) \o Tail(tcp[p]) \o buffer[q] = held[p] \o tcp[p] \o buffer[q]
    BY <1>2, <1>3, MoveOver
  <2> QED
    BY <1>1, <1>2, <1>6, <1>7, <2>1 DEF Flow
<1>12. Flow(q)' = Flow(q)
  BY <1>1, <1>2, <1>6, <1>7 DEF Flow
<1>13. ~ended[p]
  BY <1>2 DEF AsyncInv, EndInv
<1>14. FlowInv(p)' /\ FlowInv(q)'
  BY <1>1, <1>2, <1>7, <1>11, <1>12, <1>13 DEF AsyncInv, FlowInv
<1>15. EndInv(p)' /\ EndInv(q)'
  BY <1>1, <1>2, <1>6, <1>7, <1>13 DEF AsyncInv, EndInv
<1> QED
  BY <1>1, <1>2, <1>7, <1>8, <1>9, <1>10, <1>14, <1>15 DEF AsyncInv

LEMMA EndStep ==
    ASSUME AsyncInv, NEW p \in Party, ReadEnd(p)
    PROVE  AsyncInv'
<1> DEFINE q == Peer(p)
<1>1. q \in Party /\ q # p /\ Peer(q) = p /\ Peer(p) = q /\ \A x \in Party : x = p \/ x = q
  BY DEF Peer, Party
<1> HIDE DEF q
<1>2. /\ error[p] = "ok" /\ tcp[p] = << >> /\ (closed[q] \/ dropped[q])
      /\ ended' = [ended EXCEPT ![p] = TRUE]
      /\ UNCHANGED <<hs, codec, op, buffer, tcp, held, sent, delivered, received, commits,
                     error, closed, dropped>>
  BY <1>1 DEF ReadEnd, Idle
<1>3. ended' \in [Party -> BOOLEAN] /\ ended'[q] = ended[q]
  BY <1>1, <1>2 DEF AsyncInv, TypeOK
<1>4. TypeOK' /\ OpInv(p)' /\ OpInv(q)' /\ FlowInv(p)' /\ FlowInv(q)'
  BY <1>1, <1>2, <1>3 DEF AsyncInv, TypeOK, OpInv, FlowInv, Flow
<1>5. EndInv(p)' /\ EndInv(q)'
  BY <1>1, <1>2, <1>3 DEF AsyncInv, EndInv
<1> QED
  BY <1>1, <1>2, <1>4, <1>5 DEF AsyncInv

\* Taking the first message that p holds.
LEMMA TakeHeld ==
    ASSUME AsyncInv, NEW p \in Party, held[p] # << >>, held' = [held EXCEPT ![p] = Tail(@)],
           UNCHANGED <<tcp, buffer>>
    PROVE  /\ Head(held[p]) \in Record /\ held' \in [Party -> Seq(Record)]
           /\ Flow(p) \in Seq(Record) /\ Flow(p) # << >> /\ Head(Flow(p)) = Head(held[p])
           /\ Flow(p)' = Tail(Flow(p)) /\ Flow(Peer(p))' = Flow(Peer(p))
           /\ \A x \in Party : Len(held'[x]) <= ReadAhead
<1> DEFINE q == Peer(p)
<1>1. q \in Party /\ q # p /\ Peer(q) = p /\ Peer(p) = q /\ \A x \in Party : x = p \/ x = q
  BY DEF Peer, Party
<1> HIDE DEF q
<1>2. /\ held[p] \in Seq(Record) /\ tcp[p] \in Seq(Record) /\ buffer[q] \in Seq(Record)
      /\ held \in [Party -> Seq(Record)] /\ Len(held[p]) <= ReadAhead
      /\ Len(held[q]) <= ReadAhead
  BY <1>1, Types DEF AsyncInv, TypeOK
<1>3. /\ Head(held[p]) \in Record /\ Tail(held[p]) \in Seq(Record)
      /\ Len(Tail(held[p])) = Len(held[p]) - 1 /\ Len(held[p]) \in Nat
  <2>1. Len(held[p]) \in Nat /\ Len(held[p]) >= 1
    BY <1>2, EmptySeq, LenProperties
  <2> QED
    BY <1>2, <2>1, HeadTail
<1>4. held' \in [Party -> Seq(Record)] /\ held'[p] = Tail(held[p]) /\ held'[q] = held[q]
  BY <1>1, <1>2, <1>3
<1>5. /\ held[p] \o tcp[p] \o buffer[q] \in Seq(Record)
      /\ held[p] \o tcp[p] \o buffer[q] # << >>
      /\ Head(held[p] \o tcp[p] \o buffer[q]) = Head(held[p])
      /\ Tail(held[p] \o tcp[p] \o buffer[q]) = Tail(held[p]) \o tcp[p] \o buffer[q]
  <2> DEFINE h == held[p]
             t == tcp[p]
             b == buffer[q]
  <2>1. h \in Seq(Record) /\ t \in Seq(Record) /\ b \in Seq(Record) /\ h # << >>
    BY <1>2
  <2> HIDE DEF h, t, b
  <2>2. /\ h \o t \o b \in Seq(Record) /\ h \o t \o b # << >>
        /\ Head(h \o t \o b) = Head(h) /\ Tail(h \o t \o b) = Tail(h) \o t \o b
    BY <2>1, ThreeHead
  <2> QED
    BY <2>2 DEF h, t, b
<1>6. /\ Flow(p) \in Seq(Record) /\ Flow(p) # << >> /\ Head(Flow(p)) = Head(held[p])
      /\ Flow(p)' = Tail(Flow(p)) /\ Flow(q)' = Flow(q)
  BY <1>1, <1>4, <1>5 DEF Flow
<1>7. \A x \in Party : Len(held'[x]) <= ReadAhead
  <2>1. Len(held'[p]) <= ReadAhead
    BY <1>2, <1>3, <1>4, AsyncAssumption
  <2> QED
    BY <1>1, <1>2, <1>4, <2>1
<1> QED
  BY <1>1, <1>3, <1>4, <1>6, <1>7

LEMMA ApplicationStep ==
    ASSUME AsyncInv, NEW p \in Party, ProcessApplication(p)
    PROVE  AsyncInv'
<1> DEFINE q == Peer(p)
           d == Head(held[p]).payload.data
<1>1. q \in Party /\ q # p /\ Peer(q) = p /\ Peer(p) = q /\ \A x \in Party : x = p \/ x = q
  BY DEF Peer, Party
<1> HIDE DEF q
<1>2. /\ error[p] = "ok" /\ held[p] # << >> /\ Head(held[p]).payload.type = "Application"
      /\ delivered' = [delivered EXCEPT ![p] = d]
      /\ received' = [received EXCEPT ![p] = @ + 1]
      /\ held' = [held EXCEPT ![p] = Tail(@)]
      /\ UNCHANGED <<hs, codec, op, buffer, tcp, sent, commits, error, closed, dropped, ended>>
  BY DEF ProcessApplication, Idle
<1>3. /\ held' \in [Party -> Seq(Record)]
      /\ Flow(p) \in Seq(Record) /\ Flow(p) # << >> /\ Head(Flow(p)) = Head(held[p])
      /\ Flow(p)' = Tail(Flow(p)) /\ Flow(q)' = Flow(q)
      /\ \A x \in Party : Len(held'[x]) <= ReadAhead
  BY <1>1, <1>2, TakeHeld
<1>4. /\ delivered[p] \in Nat /\ sent[q] \in Nat /\ received[p] \in Nat
      /\ sent[q] \in 0 .. MaxSends
  BY <1>1, Types DEF AsyncInv, TypeOK
<1>5. delivered[p] = received[p] /\ Numbers(Flow(p), delivered[p], sent[q])
  BY <1>1, <1>2 DEF AsyncInv, FlowInv
<1>6. /\ d = delivered[p] + 1 /\ delivered[p] + 1 <= sent[q]
      /\ Numbers(Tail(Flow(p)), delivered[p] + 1, sent[q])
  BY <1>2, <1>3, <1>4, <1>5, NumbersFirst
<1> HIDE DEF d
<1>7. /\ delivered' \in [Party -> 0 .. MaxSends] /\ received' \in [Party -> 0 .. MaxSends]
      /\ delivered'[p] = delivered[p] + 1 /\ received'[p] = received[p] + 1
      /\ delivered'[q] = delivered[q] /\ received'[q] = received[q]
  <2>1. delivered[p] + 1 \in 0 .. MaxSends /\ received[p] + 1 \in 0 .. MaxSends
    BY <1>4, <1>5, <1>6, AsyncAssumption
  <2> QED
    BY <1>1, <1>2, <1>6, <2>1 DEF AsyncInv, TypeOK
<1>8. TypeOK' /\ OpInv(p)' /\ OpInv(q)'
  BY <1>1, <1>2, <1>3, <1>7 DEF AsyncInv, TypeOK, OpInv
<1>9. FlowInv(p)'
  BY <1>1, <1>2, <1>3, <1>5, <1>6, <1>7 DEF FlowInv
<1>10. FlowInv(q)'
  BY <1>1, <1>2, <1>3, <1>7 DEF AsyncInv, FlowInv
<1>11. held'[q] = held[q]
  BY <1>1, <1>2 DEF AsyncInv, TypeOK
<1>12. EndInv(p)' /\ EndInv(q)'
  BY <1>1, <1>2, <1>3, <1>7, <1>11 DEF AsyncInv, EndInv
<1> QED
  BY <1>1, <1>2, <1>3, <1>8, <1>9, <1>10, <1>12 DEF AsyncInv

LEMMA SignalingStep ==
    ASSUME AsyncInv, NEW p \in Party, ProcessSignaling(p)
    PROVE  AsyncInv'
<1> DEFINE q == Peer(p)
           message == Head(held[p]).payload
           r == Atomic!process_signaling_message(p, message)
           o == Op("ready", r.message, r.secret_update, 0)
<1>1. q \in Party /\ q # p /\ Peer(q) = p /\ Peer(p) = q /\ \A x \in Party : x = p \/ x = q
  BY DEF Peer, Party
<1> HIDE DEF q
<1>2. /\ error[p] = "ok" /\ op[p] = NoOp
      /\ held[p] # << >> /\ message.type # "Application"
      /\ hs' = [hs EXCEPT ![p] = r.state]
      /\ commits' = commits + r.made
      /\ error' = [error EXCEPT ![p] = r.error]
      /\ held' = [held EXCEPT ![p] = Tail(@)]
      /\ UNCHANGED <<buffer, tcp, sent, delivered, received, closed, dropped, ended>>
  BY DEF ProcessSignaling, Idle
<1>3. \/ /\ codec' = [codec EXCEPT ![p] = update_traffic_secrets(@, p, r.secret_update)]
         /\ op' = op
      \/ /\ r.message # NoMessage /\ op' = [op EXCEPT ![p] = o] /\ codec' = codec
  BY DEF ProcessSignaling
<1>4. /\ Head(held[p]) \in Record /\ held' \in [Party -> Seq(Record)]
      /\ Flow(p) \in Seq(Record) /\ Flow(p) # << >> /\ Head(Flow(p)) = Head(held[p])
      /\ Flow(p)' = Tail(Flow(p)) /\ Flow(q)' = Flow(q)
      /\ \A x \in Party : Len(held'[x]) <= ReadAhead
  BY <1>1, <1>2, TakeHeld
<1>5. message \in InnerPlaintext
  BY <1>4 DEF Record
<1>6. r \in Result /\ r.state.internal_state.tag \in Tag(p) /\ Clean(r)
  BY <1>2, <1>5, Handlers DEF AsyncInv
<1>7. /\ r.state \in Handshake /\ r.made \in Nat /\ r.error \in ErrorKind
      /\ r.message \in InnerPlaintext /\ r.secret_update \in SecretUpdates
  <2> HIDE DEF r
  <2> QED
    BY <1>6 DEF Result
<1> HIDE DEF message, r
<1>8. /\ o \in [stage : {"none", "ready", "flush", "close"}, message : InnerPlaintext,
                secret_update : SecretUpdates, bytes : 0 .. MaxSends]
      /\ o.stage = "ready" /\ o.message = r.message /\ o.bytes = 0
  BY <1>7, AsyncAssumption DEF Op
<1> HIDE DEF o
<1>9. codec' \in [Party -> Codec]
  <2>1. /\ codec \in [Party -> Codec]
        /\ update_traffic_secrets(codec[p], p, r.secret_update) \in Codec
    BY <1>7, Types, CodecType DEF AsyncInv, TypeOK
  <2> QED
    BY <1>3, <2>1
<1>10. /\ op' \in [Party -> [stage : {"none", "ready", "flush", "close"},
                             message : InnerPlaintext,
                             secret_update : SecretUpdates, bytes : 0 .. MaxSends]]
       /\ op'[q] = op[q]
       /\ op'[p] = NoOp \/ (r.message # NoMessage /\ op'[p] = o)
  <2>1. op \in [Party -> [stage : {"none", "ready", "flush", "close"},
                          message : InnerPlaintext,
                          secret_update : SecretUpdates, bytes : 0 .. MaxSends]]
    BY DEF AsyncInv, TypeOK
  <2> QED
    BY <1>1, <1>2, <1>3, <1>8, <2>1
<1>11. /\ hs' \in [Party -> Handshake] /\ commits' \in Nat /\ error' \in [Party -> ErrorKind]
       /\ error'[q] = error[q]
  <2>1. hs \in [Party -> Handshake] /\ commits \in Nat /\ error \in [Party -> ErrorKind]
    BY DEF AsyncInv, TypeOK
  <2> QED
    BY <1>1, <1>2, <1>7, <2>1
<1>12. \A x \in Party : hs'[x].internal_state.tag \in Tag(x)
  <2>1. hs \in [Party -> Handshake] /\ \A x \in Party : hs[x].internal_state.tag \in Tag(x)
    BY DEF AsyncInv, TypeOK
  <2> QED
    BY <1>2, <1>6, <2>1
<1>13. TypeOK'
  BY <1>2, <1>4, <1>9, <1>10, <1>11 DEF AsyncInv, TypeOK
<1>14. OpInv(p)' /\ OpInv(q)'
  BY <1>1, <1>2, <1>6, <1>8, <1>10, NoOpFields DEF AsyncInv, OpInv, Clean
<1>15. FlowInv(p)'
  <2>1. Numbers(Flow(p), delivered[p], sent[q]) /\ delivered[p] \in Nat /\ sent[q] \in Nat
    BY <1>1, <1>2, Types DEF AsyncInv, FlowInv
  <2>2. Numbers(Tail(Flow(p)), delivered[p], sent[q])
    BY <1>2, <1>4, <2>1, NumbersSkip DEF message
  <2> QED
    BY <1>1, <1>2, <1>4, <2>2 DEF AsyncInv, FlowInv
<1>16. FlowInv(q)'
  BY <1>1, <1>2, <1>4, <1>11 DEF AsyncInv, FlowInv
<1>17. held'[q] = held[q]
  BY <1>1, <1>2 DEF AsyncInv, TypeOK
<1>18. EndInv(p)' /\ EndInv(q)'
  BY <1>1, <1>2, <1>4, <1>8, <1>10, <1>17, NoOpFields DEF AsyncInv, EndInv
<1> QED
  BY <1>1, <1>4, <1>12, <1>13, <1>14, <1>15, <1>16, <1>18 DEF AsyncInv

LEMMA LockedStep ==
    ASSUME AsyncInv, NEW p \in Party, CancelLocked(p)
    PROVE  AsyncInv'
<1> DEFINE q == Peer(p)
<1>1. q \in Party /\ q # p /\ Peer(q) = p /\ Peer(p) = q /\ \A x \in Party : x = p \/ x = q
  BY DEF Peer, Party
<1> HIDE DEF q
<1>2. /\ error[p] = "ok" /\ held[p] # << >> /\ Head(held[p]).payload.type # "Application"
      /\ held' = [held EXCEPT ![p] = Tail(@)]
      /\ UNCHANGED <<hs, codec, op, buffer, tcp, sent, delivered, received, commits,
                     error, closed, dropped, ended>>
  BY DEF CancelLocked, Idle
<1>3. /\ held' \in [Party -> Seq(Record)]
      /\ Flow(p) \in Seq(Record) /\ Flow(p) # << >> /\ Head(Flow(p)) = Head(held[p])
      /\ Flow(p)' = Tail(Flow(p)) /\ Flow(q)' = Flow(q)
      /\ \A x \in Party : Len(held'[x]) <= ReadAhead
  BY <1>1, <1>2, TakeHeld
<1>4. TypeOK' /\ OpInv(p)' /\ OpInv(q)'
  BY <1>1, <1>2, <1>3 DEF AsyncInv, TypeOK, OpInv
<1>5. FlowInv(p)'
  <2>1. Numbers(Flow(p), delivered[p], sent[q]) /\ delivered[p] \in Nat /\ sent[q] \in Nat
    BY <1>1, <1>2, Types DEF AsyncInv, FlowInv
  <2>2. Numbers(Tail(Flow(p)), delivered[p], sent[q])
    BY <1>2, <1>3, <2>1, NumbersSkip
  <2> QED
    BY <1>1, <1>2, <1>3, <2>2 DEF AsyncInv, FlowInv
<1>6. FlowInv(q)'
  BY <1>1, <1>2, <1>3 DEF AsyncInv, FlowInv
<1>7. EndInv(p)' /\ EndInv(q)'
  BY <1>1, <1>2 DEF AsyncInv, EndInv
<1> QED
  BY <1>1, <1>2, <1>3, <1>4, <1>5, <1>6, <1>7 DEF AsyncInv

LEMMA DropStep ==
    ASSUME AsyncInv, NEW p \in Party, Drop(p)
    PROVE  AsyncInv'
<1> DEFINE q == Peer(p)
<1>1. q \in Party /\ q # p /\ Peer(q) = p /\ Peer(p) = q /\ \A x \in Party : x = p \/ x = q
  BY DEF Peer, Party
<1> HIDE DEF q
<1>2. /\ dropped' = [dropped EXCEPT ![p] = TRUE]
      /\ UNCHANGED <<hs, codec, op, buffer, tcp, held, sent, delivered, received, commits,
                     error, closed, ended>>
  BY DEF Drop
<1>3. dropped' \in [Party -> BOOLEAN] /\ dropped'[p] /\ dropped'[q] = dropped[q]
  BY <1>1, <1>2 DEF AsyncInv, TypeOK
<1>4. TypeOK' /\ OpInv(p)' /\ OpInv(q)' /\ FlowInv(p)' /\ FlowInv(q)'
  BY <1>1, <1>2, <1>3 DEF AsyncInv, TypeOK, OpInv, FlowInv, Flow
<1>5. EndInv(p)' /\ EndInv(q)'
  BY <1>1, <1>2, <1>3 DEF AsyncInv, EndInv
<1> QED
  BY <1>1, <1>2, <1>4, <1>5 DEF AsyncInv

LEMMA AsyncNext == AsyncInv /\ [Next]_vars => AsyncInv'
<1> SUFFICES ASSUME AsyncInv, [Next]_vars PROVE AsyncInv'
  OBVIOUS
<1>1. CASE UNCHANGED vars
  BY <1>1 DEF vars, AsyncInv, TypeOK, OpInv, FlowInv, EndInv, Flow
<1>2. CASE Next
  BY <1>2, SendStep, StartStep, WriteStep, OtherSteps, ReadStep, EndStep, ApplicationStep,
     SignalingStep, LockedStep, DropStep DEF Next
<1> QED
  BY <1>1, <1>2

\* An empty connection is numbered.
LEMMA AsyncInit == Init => AsyncInv
<1> SUFFICES ASSUME Init PROVE AsyncInv
  OBVIOUS
<1>1. create_server_session \in Group /\ create_server_session.secret \in Nat
      /\ create_server_session.epoch \in Nat
  BY DEF create_server_session, Group, Commit, NoCommit
<1>2. /\ client_start \in Handshake /\ client_start.internal_state.tag \in ClientTag
      /\ server_start \in Handshake /\ server_start.internal_state.tag \in ServerTag
  BY <1>1, MessageTypes
     DEF client_start, server_start, Handshake, Running, ClientTag, ServerTag
<1>3. ASSUME NEW p \in Party
      PROVE  new_codec(p, create_server_session.secret, HandshakeRecords) \in Codec
  BY <1>1, PeerFacts, AsyncAssumption DEF new_codec, expand_secret, Codec, Key
<1>4. 0 \in 0 .. MaxSends /\ << >> \in Seq(Record) /\ "ok" \in ErrorKind /\ ReadAhead \in Nat
  BY AsyncAssumption DEF ErrorKind
<1>5. TypeOK
  <2>1. hs \in [Party -> Handshake] /\ codec \in [Party -> Codec]
    BY <1>2, <1>3 DEF Init
  <2>2. op \in [Party -> [stage : {"none", "ready", "flush", "close"}, message : InnerPlaintext,
                          secret_update : SecretUpdates, bytes : 0 .. MaxSends]]
    BY NoOpFields DEF Init
  <2>3. /\ buffer \in [Party -> Seq(Record)] /\ tcp \in [Party -> Seq(Record)]
        /\ held \in [Party -> Seq(Record)]
    BY <1>4 DEF Init
  <2>4. /\ sent \in [Party -> 0 .. MaxSends] /\ delivered \in [Party -> 0 .. MaxSends]
        /\ received \in [Party -> 0 .. MaxSends] /\ commits \in Nat
        /\ error \in [Party -> ErrorKind]
        /\ closed \in [Party -> BOOLEAN] /\ dropped \in [Party -> BOOLEAN]
        /\ ended \in [Party -> BOOLEAN]
    BY <1>4 DEF Init
  <2> QED
    BY <2>1, <2>2, <2>3, <2>4 DEF TypeOK
<1>6. ASSUME NEW p \in Party
      PROVE  /\ hs[p].internal_state.tag \in Tag(p) /\ Len(held[p]) <= ReadAhead
             /\ OpInv(p) /\ FlowInv(p) /\ EndInv(p)
  <2>1. Peer(p) \in Party
    BY PeerFacts
  <2>2. hs[p].internal_state.tag \in Tag(p) /\ Len(held[p]) <= ReadAhead
    BY <1>2, <1>4 DEF Init, Tag
  <2>3. OpInv(p) /\ EndInv(p)
    BY <2>1, NoOpFields DEF Init, OpInv, EndInv
  <2>4. Flow(p) = << >>
    BY <2>1 DEF Init, Flow
  <2>5. Numbers(<< >>, 0, 0)
    BY DEF Numbers
  <2> QED
    BY <2>1, <2>2, <2>3, <2>4, <2>5 DEF Init, FlowInv
<1> QED
  BY <1>5, <1>6 DEF AsyncInv

-----------------------------------------------------------------------------
\* The invariant holds whatever futures are dropped, messages read ahead and
\* sides shut down or gone, and whatever updates the two sides request.
THEOREM AsyncInvariance == Spec => []AsyncInv
BY AsyncInit, AsyncNext, PTL DEF Spec

\* Every variable has its type.
THEOREM AsyncTypeCorrect == Spec => []TypeOK
<1>1. AsyncInv => TypeOK
  BY DEF AsyncInv
<1> QED
  BY <1>1, AsyncInvariance, PTL

\* The n-th message that is delivered is the n-th that was sent.
THEOREM DeliversInOrderOnce == Spec => []InOrderOnce
<1>1. AsyncInv => InOrderOnce
  BY DEF AsyncInv, FlowInv, InOrderOnce
<1> QED
  BY <1>1, AsyncInvariance, PTL

\* A party that reads the end of the stream after its peer's shutdown, and has
\* processed what it read, has been delivered everything that its peer encrypted.
THEOREM NothingLostAtEnd == Spec => []NoLossAtEnd
<1>1. AsyncInv => NoLossAtEnd
  <2> SUFFICES ASSUME AsyncInv, NEW p \in Party, ended[p], closed[Peer(p)], held[p] = << >>
               PROVE  delivered[p] = sent[Peer(p)]
    BY DEF NoLossAtEnd
  <2> DEFINE b == buffer[Peer(p)]
  <2>1. /\ Peer(p) \in Party /\ b \in Seq(Record)
        /\ delivered[p] \in Nat /\ sent[Peer(p)] \in Nat
    BY Types DEF AsyncInv
  <2>2. tcp[p] = << >> /\ NoApplication(b)
    BY <2>1 DEF AsyncInv, EndInv
  <2>3. Flow(p) = b
    BY <2>1, <2>2 DEF Flow
  <2>4. delivered[p] <= sent[Peer(p)] /\ Numbers(b, delivered[p], sent[Peer(p)])
    BY <2>3 DEF AsyncInv, FlowInv
  <2> HIDE DEF b
  <2> QED
    BY <2>1, <2>2, <2>4, NumbersNone
<1> QED
  BY <1>1, AsyncInvariance, PTL

-----------------------------------------------------------------------------
(***************************************************************************)
(* Operations may be taken as single steps.  What an operation has still   *)
(* to do is looked at first on its own: p is in the middle of o, with the  *)
(* codec c, and n messages sent.                                           *)
(***************************************************************************)

Rest(p, o, c, n) ==
    LET now      == o.stage = "ready"
        first    == IF now THEN <<encrypt(c, Item(o))>> ELSE << >>
        used     == IF now THEN after_encrypt(c) ELSE c
        switched == update_traffic_secrets(used, p, o.secret_update)
        last     == o.message # NoMessage /\ o.bytes # 0
    IN  [records |-> first \o (IF last THEN <<encrypt(switched, Application(o.bytes))>>
                               ELSE << >>),
         codec   |-> IF last THEN after_encrypt(switched) ELSE switched,
         sent    |-> IF last \/ (now /\ o.bytes # 0) THEN o.bytes ELSE n]

LEMMA CompletedIsRest ==
    ASSUME NEW p
    PROVE  /\ Completed(p) = Rest(p, op[p], codec[p], sent[p])
           /\ Completed(p)' = Rest(p, op'[p], codec'[p], sent'[p])
BY DEF Completed, Rest

Operation == [stage : {"none", "ready", "flush", "close"}, message : InnerPlaintext,
              secret_update : SecretUpdates, bytes : 0 .. MaxSends]

\* No secret changes without an update.
LEMMA SameSecrets ==
    ASSUME NEW p, NEW c \in Codec PROVE update_traffic_secrets(c, p, NoSecretUpdate) = c
BY DEF update_traffic_secrets, NoSecretUpdate, Codec, own_kind

\* Nothing is left to do.
LEMMA RestNone ==
    ASSUME NEW p, NEW o, NEW c \in Codec, NEW n, o.stage # "ready",
           o.message = NoMessage, o.secret_update = NoSecretUpdate
    PROVE  /\ Rest(p, o, c, n).records = << >> /\ Rest(p, o, c, n).codec = c
           /\ Rest(p, o, c, n).sent = n
<1>1. update_traffic_secrets(c, p, NoSecretUpdate) = c
  BY SameSecrets
<1>2. << >> \o << >> = << >>
  BY EmptySeq, ConcatEmptySeq
<1> QED
  BY <1>1, <1>2 DEF Rest

\* Only bytes are left to send.
LEMMA RestBytes ==
    ASSUME NEW p \in Party, NEW o, NEW c \in Codec, NEW n, o.stage = "ready",
           o.message = NoMessage, o.secret_update = NoSecretUpdate, o.bytes \in Nat \ {0}
    PROVE  /\ Rest(p, o, c, n).records = <<encrypt(c, Application(o.bytes))>>
           /\ Rest(p, o, c, n).codec = after_encrypt(c)
           /\ Rest(p, o, c, n).sent = o.bytes
<1>1. after_encrypt(c) \in Codec /\ encrypt(c, Application(o.bytes)) \in Record
  BY CodecType, MessageTypes
<1>2. update_traffic_secrets(after_encrypt(c), p, NoSecretUpdate) = after_encrypt(c)
  BY <1>1, SameSecrets
<1> DEFINE a == encrypt(c, Application(o.bytes))
<1>3. <<a>> \o << >> = <<a>>
  BY <1>1, ConcatEmptySeq
<1>4. Item(o) = Application(o.bytes)
  BY DEF Item
<1> QED
  BY <1>2, <1>3, <1>4 DEF Rest

\* A signaling message, the change of the cipher and perhaps bytes are left.
LEMMA RestMessage ==
    ASSUME NEW p \in Party, NEW o \in Operation, NEW c \in Codec, NEW n,
           o.stage = "ready", o.message # NoMessage
    PROVE  LET c1 == update_traffic_secrets(after_encrypt(c), p, o.secret_update)
           IN  /\ o.bytes = 0 =>
                    /\ Rest(p, o, c, n).records = <<encrypt(c, o.message)>>
                    /\ Rest(p, o, c, n).codec = c1
                    /\ Rest(p, o, c, n).sent = n
               /\ o.bytes # 0 =>
                    /\ Rest(p, o, c, n).records =
                         Append(<<encrypt(c, o.message)>>, encrypt(c1, Application(o.bytes)))
                    /\ Rest(p, o, c, n).codec = after_encrypt(c1)
                    /\ Rest(p, o, c, n).sent = o.bytes
<1> DEFINE c1 == update_traffic_secrets(after_encrypt(c), p, o.secret_update)
           a == encrypt(c, o.message)
           b == encrypt(c1, Application(o.bytes))
<1>1. o.message \in InnerPlaintext /\ o.secret_update \in SecretUpdates /\ o.bytes \in Nat
  BY AsyncAssumption DEF Operation
<1>2. after_encrypt(c) \in Codec /\ a \in Record
  BY <1>1, CodecType
<1>3. c1 \in Codec
  BY <1>1, <1>2, CodecType
<1>4. b \in Record
  BY <1>1, <1>3, CodecType, MessageTypes
<1>5. Item(o) = o.message
  BY DEF Item
<1>6. /\ o.bytes = 0 => /\ Rest(p, o, c, n).records = <<a>> \o << >>
                        /\ Rest(p, o, c, n).codec = c1 /\ Rest(p, o, c, n).sent = n
      /\ o.bytes # 0 => /\ Rest(p, o, c, n).records = <<a>> \o <<b>>
                        /\ Rest(p, o, c, n).codec = after_encrypt(c1)
                        /\ Rest(p, o, c, n).sent = o.bytes
  BY <1>5 DEF Rest
<1> HIDE DEF a, b, c1
<1>7. <<a>> \o << >> = <<a>> /\ <<a>> \o <<b>> = Append(<<a>>, b)
  BY <1>2, <1>4, ConcatEmptySeq, AppendIsConcat
<1>8. /\ o.bytes = 0 => /\ Rest(p, o, c, n).records = <<a>>
                        /\ Rest(p, o, c, n).codec = c1 /\ Rest(p, o, c, n).sent = n
      /\ o.bytes # 0 => /\ Rest(p, o, c, n).records = Append(<<a>>, b)
                        /\ Rest(p, o, c, n).codec = after_encrypt(c1)
                        /\ Rest(p, o, c, n).sent = o.bytes
  BY <1>6, <1>7
<1> QED
  BY <1>8 DEF a, b, c1

\* What is sent next is the first of what was left.
LEMMA RestStarted ==
    ASSUME NEW p \in Party, NEW o \in Operation, NEW c \in Codec, NEW n, NEW m, NEW o1,
           o.stage = "ready", o.message = NoMessage => o.bytes # 0,
           o1 = [o EXCEPT !.stage = "flush"],
           o.message = NoMessage => m = o.bytes, o.message # NoMessage => m = n
    PROVE  LET later == Rest(p, o1, after_encrypt(c), m)
           IN  /\ Rest(p, o, c, n).records = <<encrypt(c, Item(o))>> \o later.records
               /\ later.records \in Seq(Record)
               /\ Rest(p, o, c, n).codec = later.codec
               /\ Rest(p, o, c, n).sent = later.sent
<1> DEFINE c1 == update_traffic_secrets(after_encrypt(c), p, o.secret_update)
           b == encrypt(c1, Application(o.bytes))
           rest == IF o.message # NoMessage /\ o.bytes # 0 THEN <<b>> ELSE << >>
<1>1. /\ o1.stage = "flush" /\ o1.message = o.message /\ o1.bytes = o.bytes
      /\ o1.secret_update = o.secret_update
  BY DEF Operation
<1>2. b \in Record
  <2>1. o.secret_update \in SecretUpdates /\ o.bytes \in Nat
    BY AsyncAssumption DEF Operation
  <2>2. c1 \in Codec
    BY <2>1, CodecType
  <2> QED
    BY <2>1, <2>2, CodecType, MessageTypes
<1>3. /\ Rest(p, o, c, n).records = <<encrypt(c, Item(o))>> \o rest
      /\ Rest(p, o, c, n).codec = IF o.message # NoMessage /\ o.bytes # 0
                                  THEN after_encrypt(c1) ELSE c1
      /\ Rest(p, o, c, n).sent = IF o.bytes # 0 THEN o.bytes ELSE n
  BY DEF Rest
<1>4. /\ Rest(p, o1, after_encrypt(c), m).records = << >> \o rest
      /\ Rest(p, o1, after_encrypt(c), m).codec = IF o.message # NoMessage /\ o.bytes # 0
                                                  THEN after_encrypt(c1) ELSE c1
      /\ Rest(p, o1, after_encrypt(c), m).sent = IF o.message # NoMessage /\ o.bytes # 0
                                                 THEN o.bytes ELSE m
  BY <1>1 DEF Rest
<1> HIDE DEF b, c1
<1>5. rest \in Seq(Record) /\ << >> \o rest = rest
  <2>1. rest \in Seq(Record)
    BY <1>2
  <2> HIDE DEF rest
  <2> QED
    BY <2>1, ConcatEmptySeq
<1> HIDE DEF rest
<1>6. Rest(p, o, c, n).sent = Rest(p, o1, after_encrypt(c), m).sent
  BY <1>3, <1>4
<1> QED
  BY <1>3, <1>4, <1>5, <1>6

\* When the signaling message is flushed the cipher changes as was foreseen.
LEMMA RestFlushed ==
    ASSUME NEW p \in Party, NEW o \in Operation, NEW c \in Codec, NEW n, o.stage = "flush",
           o.message = NoMessage => o.secret_update = NoSecretUpdate
    PROVE  Rest(p, o, c, n) =
             Rest(p, IF o.message # NoMessage /\ o.bytes # 0
                     THEN Op("ready", NoMessage, NoSecretUpdate, o.bytes) ELSE NoOp,
                  update_traffic_secrets(c, p, o.secret_update), n)
<1> DEFINE c1 == update_traffic_secrets(c, p, o.secret_update)
           o1 == Op("ready", NoMessage, NoSecretUpdate, o.bytes)
           b == encrypt(c1, Application(o.bytes))
<1>1. o.secret_update \in SecretUpdates /\ o.bytes \in Nat
  BY AsyncAssumption DEF Operation
<1>2. c1 \in Codec
  BY <1>1, CodecType
<1>3. b \in Record /\ after_encrypt(c1) \in Codec
  BY <1>1, <1>2, CodecType, MessageTypes
<1>4. << >> \o <<b>> = <<b>> /\ <<b>> \o << >> = <<b>> /\ << >> \o << >> = << >>
  <2>1. <<b>> \in Seq(Record) /\ << >> \in Seq(Record)
    BY <1>3
  <2> HIDE DEF b
  <2> QED
    BY <2>1, ConcatEmptySeq
<1>5. /\ update_traffic_secrets(after_encrypt(c1), p, NoSecretUpdate) = after_encrypt(c1)
      /\ update_traffic_secrets(c1, p, NoSecretUpdate) = c1
  BY <1>2, <1>3, SameSecrets
<1>6. CASE o.message # NoMessage /\ o.bytes # 0
  <2>1. /\ o1.stage = "ready" /\ o1.message = NoMessage /\ o1.bytes = o.bytes
        /\ o1.secret_update = NoSecretUpdate /\ Item(o1) = Application(o.bytes)
    BY DEF Op, Item
  <2> HIDE DEF o1
  <2>2. Rest(p, o, c, n) = [records |-> << >> \o <<b>>, codec |-> after_encrypt(c1),
                            sent |-> o.bytes]
    BY <1>6 DEF Rest
  <2>3. Rest(p, o1, c1, n) = [records |-> <<b>> \o << >>, codec |-> after_encrypt(c1),
                              sent |-> o.bytes]
    BY <1>5, <1>6, <2>1 DEF Rest
  <2>4. Rest(p, o, c, n) = Rest(p, o1, c1, n)
    BY <1>4, <2>2, <2>3
  <2> QED
    BY <1>6, <2>4 DEF o1
<1>7. CASE ~(o.message # NoMessage /\ o.bytes # 0)
  <2>1. Rest(p, o, c, n) = [records |-> << >> \o << >>, codec |-> c1, sent |-> n]
    BY <1>7 DEF Rest
  <2>2. Rest(p, NoOp, c1, n) = [records |-> << >> \o << >>, codec |-> c1, sent |-> n]
    BY <1>5, NoOpFields DEF Rest
  <2> QED
    BY <1>7, <2>1, <2>2
<1> QED
  BY <1>6, <1>7

\* The connection as seen with operations that are single steps.
codecs  == [p \in Party |-> Completed(p).codec]
inboxes == [p \in Party |-> held[p] \o tcp[p] \o buffer[Peer(p)] \o Completed(Peer(p)).records]
helds   == [p \in Party |-> Len(held[p])]
sents   == [p \in Party |-> Completed(p).sent]

\* The operators of the other module are the same.
LEMMA AtomicOperators ==
    /\ Atomic!Party = Party
    /\ \A p : Atomic!Peer(p) = Peer(p)
    /\ \A n : Atomic!Application(n) = Application(n)
    /\ Atomic!NoMessage = NoMessage
    /\ \A c : /\ Atomic!after_encrypt(c) = after_encrypt(c)
              /\ Atomic!after_decrypt(c) = after_decrypt(c)
    /\ \A c, m : Atomic!encrypt(c, m) = encrypt(c, m) /\ Atomic!decrypt(c, m) = decrypt(c, m)
    /\ \A c, p, u : Atomic!update_traffic_secrets(c, p, u) = update_traffic_secrets(c, p, u)
<1>1. /\ Atomic!Party = Party
      /\ \A p : Atomic!Peer(p) = Peer(p)
      /\ \A n : Atomic!Application(n) = Application(n)
      /\ Atomic!NoMessage = NoMessage
  BY DEF Atomic!Party, Party, Atomic!Peer, Peer, Atomic!Application, Application,
         Atomic!NoMessage, NoMessage, Atomic!NoCommit, NoCommit
<1>2. /\ \A c : /\ Atomic!after_encrypt(c) = after_encrypt(c)
                /\ Atomic!after_decrypt(c) = after_decrypt(c)
      /\ \A c, m : Atomic!encrypt(c, m) = encrypt(c, m) /\ Atomic!decrypt(c, m) = decrypt(c, m)
  BY DEF Atomic!after_encrypt, after_encrypt, Atomic!after_decrypt, after_decrypt,
         Atomic!encrypt, encrypt, Atomic!decrypt, decrypt
<1>3. \A c, p, u : Atomic!update_traffic_secrets(c, p, u) = update_traffic_secrets(c, p, u)
  BY DEF Atomic!update_traffic_secrets, update_traffic_secrets, Atomic!own_kind, own_kind,
         Atomic!expand_secret, expand_secret, Atomic!Peer, Peer
<1> QED
  BY <1>1, <1>2, <1>3

\* What the view shows of each party.
LEMMA View ==
    ASSUME NEW p \in Party
    PROVE  /\ codecs[p] = Rest(p, op[p], codec[p], sent[p]).codec
           /\ sents[p] = Rest(p, op[p], codec[p], sent[p]).sent
           /\ helds[p] = Len(held[p])
           /\ inboxes[p] = Flow(p) \o Rest(Peer(p), op[Peer(p)], codec[Peer(p)],
                                           sent[Peer(p)]).records
           /\ codecs'[p] = Rest(p, op'[p], codec'[p], sent'[p]).codec
           /\ sents'[p] = Rest(p, op'[p], codec'[p], sent'[p]).sent
           /\ helds'[p] = Len(held'[p])
           /\ inboxes'[p] = Flow(p)' \o Rest(Peer(p), op'[Peer(p)], codec'[Peer(p)],
                                             sent'[Peer(p)]).records
BY CompletedIsRest, PeerFacts DEF codecs, sents, helds, inboxes, Flow

\* The view is given by what it shows of two parties.
LEMMA SameView ==
    ASSUME NEW p \in Party,
           \A x \in {p, Peer(p)} : /\ codecs'[x] = codecs[x] /\ sents'[x] = sents[x]
                                   /\ helds'[x] = helds[x] /\ inboxes'[x] = inboxes[x]
    PROVE  UNCHANGED <<codecs, inboxes, helds, sents>>
<1>1. Party = {p, Peer(p)}
  BY DEF Party, Peer
<1>2. /\ codecs = [x \in Party |-> codecs[x]] /\ codecs' = [x \in Party |-> codecs'[x]]
      /\ sents = [x \in Party |-> sents[x]] /\ sents' = [x \in Party |-> sents'[x]]
  BY DEF codecs, sents
<1>3. /\ helds = [x \in Party |-> helds[x]] /\ helds' = [x \in Party |-> helds'[x]]
      /\ inboxes = [x \in Party |-> inboxes[x]] /\ inboxes' = [x \in Party |-> inboxes'[x]]
  BY DEF helds, inboxes
<1> QED
  BY <1>1, <1>2, <1>3

\* Between calls nothing is left to do.
LEMMA IdleRest ==
    ASSUME AsyncInv, NEW p \in Party, op[p] = NoOp
    PROVE  /\ Rest(p, op[p], codec[p], sent[p]).records = << >>
           /\ Rest(p, op[p], codec[p], sent[p]).codec = codec[p]
           /\ Rest(p, op[p], codec[p], sent[p]).sent = sent[p]
<1>1. codec[p] \in Codec
  BY Types DEF AsyncInv
<1> QED
  BY <1>1, NoOpFields, RestNone

\* The records that are under way.
LEMMA FlowType == ASSUME AsyncInv, NEW p \in Party PROVE Flow(p) \in Seq(Record)
<1>1. /\ held[p] \in Seq(Record) /\ tcp[p] \in Seq(Record) /\ buffer[Peer(p)] \in Seq(Record)
  BY Types, PeerFacts DEF AsyncInv
<1>2. held[p] \o tcp[p] \in Seq(Record)
  BY <1>1, ConcatProperties
<1> QED
  BY <1>1, <1>2, ConcatProperties DEF Flow

\* Encrypting, writing and flushing go unseen.
LEMMA UnseenStart ==
    ASSUME AsyncInv, NEW p \in Party, StartSend(p)
    PROVE  UNCHANGED <<codecs, inboxes, helds, sents>>
<1> DEFINE q == Peer(p)
           o == op[p]
           a == encrypt(codec[p], Item(o))
           before == Rest(p, o, codec[p], sent[p])
           after == Rest(p, [o EXCEPT !.stage = "flush"], after_encrypt(codec[p]), sent'[p])
<1>1. q \in Party /\ q # p /\ Peer(q) = p /\ Peer(p) = q
  BY DEF Peer, Party
<1>2. /\ o \in Operation /\ codec[p] \in Codec /\ o.bytes \in 0 .. MaxSends
      /\ buffer[p] \in Seq(Record) /\ held[q] \in Seq(Record) /\ tcp[q] \in Seq(Record)
      /\ op \in [Party -> Operation] /\ codec \in [Party -> Codec]
      /\ buffer \in [Party -> Seq(Record)] /\ sent \in [Party -> 0 .. MaxSends]
  BY <1>1, Types DEF AsyncInv, TypeOK, Operation
<1>3. /\ o.stage = "ready"
      /\ o.message = NoMessage => o.bytes # 0
      /\ o.message = NoMessage \/ o.message.type # "Application"
  <2>1. OpInv(p) /\ op[p].stage = "ready"
    BY DEF StartSend, AsyncInv
  <2> QED
    BY <2>1 DEF OpInv
<1>4. Item(o).type = "Application" <=> o.message = NoMessage
  BY <1>3 DEF Item, Application
<1>5. /\ buffer'[p] = Append(buffer[p], a) /\ buffer'[q] = buffer[q]
      /\ codec'[p] = after_encrypt(codec[p]) /\ codec'[q] = codec[q]
      /\ op'[p] = [o EXCEPT !.stage = "flush"] /\ op'[q] = op[q]
      /\ sent'[p] = (IF o.message = NoMessage THEN o.bytes ELSE sent[p]) /\ sent'[q] = sent[q]
      /\ held' = held /\ tcp' = tcp
  BY <1>1, <1>2, <1>4 DEF StartSend
<1> HIDE DEF q, o
<1>6. /\ before.records = <<a>> \o after.records /\ after.records \in Seq(Record)
      /\ before.codec = after.codec /\ before.sent = after.sent
  <2> DEFINE c == codec[p]
             n == sent[p]
             m == sent'[p]
             o1 == [o EXCEPT !.stage = "flush"]
  <2>1. c \in Codec /\ o \in Operation /\ o1 = [o EXCEPT !.stage = "flush"]
    BY <1>2
  <2>2. /\ o.message = NoMessage => m = o.bytes
        /\ o.message # NoMessage => m = n
    BY <1>5
  <2>3. o.stage = "ready"
    BY <1>3
  <2>4. o.message = NoMessage => o.bytes # 0
    BY <1>3
  <2> HIDE DEF c, n, m, o1
  <2>5. LET later == Rest(p, o1, after_encrypt(c), m)
        IN  /\ Rest(p, o, c, n).records = <<encrypt(c, Item(o))>> \o later.records
            /\ later.records \in Seq(Record)
            /\ Rest(p, o, c, n).codec = later.codec
            /\ Rest(p, o, c, n).sent = later.sent
    BY <2>1, <2>2, <2>3, <2>4, RestStarted
  <2> QED
    BY <2>5 DEF c, n, m, o1
<1>7. a \in Record
  <2>1. Item(o) \in InnerPlaintext
    BY <1>2, MessageTypes, AsyncAssumption DEF Item, Operation
  <2> QED
    BY <1>2, <2>1, CodecType
<1> HIDE DEF a, before, after
<1>8. Flow(q) \in Seq(Record) /\ Flow(q)' = Append(Flow(q), a) /\ Flow(p)' = Flow(p)
  <2>1. held[q] \o tcp[q] \in Seq(Record) /\ Flow(q) \in Seq(Record)
    BY <1>1, <1>2, ConcatProperties, FlowType
  <2>2. held[q] \o tcp[q] \o Append(buffer[p], a) = Append(held[q] \o tcp[q] \o buffer[p], a)
    BY <1>2, <1>7, <2>1, ConcatAppend
  <2> QED
    BY <1>1, <1>5, <2>1, <2>2 DEF Flow
<1>9. Append(Flow(q), a) \o after.records = Flow(q) \o before.records
  <2>1. Append(Flow(q), a) = Flow(q) \o <<a>> /\ <<a>> \in Seq(Record)
    BY <1>7, <1>8, AppendIsConcat
  <2>2. (Flow(q) \o <<a>>) \o after.records = Flow(q) \o (<<a>> \o after.records)
    <3> DEFINE f == Flow(q)
               r == after.records
               s == <<a>>
    <3>1. f \in Seq(Record) /\ r \in Seq(Record) /\ s \in Seq(Record)
      BY <1>6, <1>8, <2>1
    <3> HIDE DEF f, r, s
    <3>2. (f \o s) \o r = f \o (s \o r)
      BY <3>1, ConcatAssociative
    <3> QED
      BY <3>2 DEF f, r, s
  <2> QED
    BY <1>6, <2>1, <2>2
<1>10. codecs'[p] = codecs[p] /\ sents'[p] = sents[p] /\ helds'[p] = helds[p]
  BY <1>5, <1>6, View DEF before, after, o
<1>11. codecs'[q] = codecs[q] /\ sents'[q] = sents[q] /\ helds'[q] = helds[q]
  BY <1>1, <1>5, View
<1>12. inboxes'[p] = inboxes[p]
  <2>1. /\ inboxes[p] = Flow(p) \o Rest(q, op[q], codec[q], sent[q]).records
        /\ inboxes'[p] = Flow(p)' \o Rest(q, op'[q], codec'[q], sent'[q]).records
    BY <1>1, View, Zenon
  <2>2. Rest(q, op'[q], codec'[q], sent'[q]) = Rest(q, op[q], codec[q], sent[q])
    BY <1>5
  <2> QED
    BY <1>8, <2>1, <2>2, Zenon
<1>13. inboxes'[q] = inboxes[q]
  <2>1. /\ inboxes[q] = Flow(q) \o Rest(p, op[p], codec[p], sent[p]).records
        /\ inboxes'[q] = Flow(q)' \o Rest(p, op'[p], codec'[p], sent'[p]).records
    BY <1>1, View, Zenon
  <2>2. Rest(p, op'[p], codec'[p], sent'[p]) = after
    BY <1>5 DEF after
  <2>3. Rest(p, op[p], codec[p], sent[p]) = before
    BY DEF before, o
  <2> QED
    BY <1>8, <1>9, <2>1, <2>2, <2>3, Zenon
<1> QED
  BY <1>1, <1>10, <1>11, <1>12, <1>13, SameView

\* The same for the steps that only move a record, or end a stage.
LEMMA UnseenOthers ==
    ASSUME AsyncInv, NEW p \in Party, "cancel" \notin Faults,
           \/ Write(p) \/ Flushed(p) \/ ReadEnd(p) \/ Cancel(p) \/ CancelLocked(p)
           \/ Shutdown(p) \/ PollClose(p) \/ Drop(p)
    PROVE  UNCHANGED <<codecs, inboxes, helds, sents>>
<1> DEFINE q == Peer(p)
<1>1. q \in Party /\ q # p /\ Peer(q) = p /\ Peer(p) = q
  BY DEF Peer, Party
<1> HIDE DEF q
<1>2. /\ op[p] \in Operation /\ codec[p] \in Codec /\ op \in [Party -> Operation]
      /\ codec \in [Party -> Codec] /\ buffer[p] \in Seq(Record)
      /\ held[q] \in Seq(Record) /\ tcp[q] \in Seq(Record)
      /\ buffer \in [Party -> Seq(Record)] /\ tcp \in [Party -> Seq(Record)]
  BY <1>1, Types DEF AsyncInv, TypeOK, Operation
<1>3. /\ held' = held /\ sent' = sent /\ op'[q] = op[q] /\ codec'[q] = codec[q]
      /\ Rest(p, op'[p], codec'[p], sent[p]) = Rest(p, op[p], codec[p], sent[p])
  <2>1. CASE Write(p) \/ ReadEnd(p) \/ Drop(p)
    BY <2>1 DEF Write, ReadEnd, Drop
  <2>2. CASE Flushed(p)
    <3>1. op[p].message = NoMessage => op[p].secret_update = NoSecretUpdate
      BY DEF AsyncInv, OpInv
    <3>2. /\ op'[p] = (IF op[p].message # NoMessage /\ op[p].bytes # 0
                       THEN Op("ready", NoMessage, NoSecretUpdate, op[p].bytes) ELSE NoOp)
          /\ codec'[p] = update_traffic_secrets(codec[p], p, op[p].secret_update)
          /\ op'[q] = op[q] /\ codec'[q] = codec[q] /\ held' = held /\ sent' = sent
      BY <1>1, <1>2, <2>2 DEF Flushed
    <3>3. op[p].stage = "flush"
      BY <2>2 DEF Flushed
    <3> QED
      BY <1>2, <3>1, <3>2, <3>3, RestFlushed
  <2>3. CASE Cancel(p) \/ CancelLocked(p)
    BY <2>3 DEF Cancel, CancelLocked
  <2>4. CASE Shutdown(p) \/ PollClose(p)
    <3>1. /\ op[p].stage \in {"none", "close"} /\ op'[p].stage # "ready"
          /\ op'[p].message = NoMessage /\ op'[p].secret_update = NoSecretUpdate
          /\ op'[q] = op[q] /\ codec' = codec /\ held' = held /\ sent' = sent
      BY <1>1, <1>2, <2>4, NoOpFields DEF Shutdown, PollClose, Idle, Op
    <3>2. op[p].message = NoMessage /\ op[p].secret_update = NoSecretUpdate
      BY <3>1 DEF AsyncInv, OpInv
    <3>3. ASSUME NEW o, o.stage # "ready", o.message = NoMessage,
                 o.secret_update = NoSecretUpdate
          PROVE  Rest(p, o, codec[p], sent[p]) =
                   [records |-> << >>, codec |-> codec[p], sent |-> sent[p]]
      <4>1. update_traffic_secrets(codec[p], p, NoSecretUpdate) = codec[p]
        BY <1>2, SameSecrets
      <4>2. << >> \o << >> = << >>
        BY EmptySeq, ConcatEmptySeq
      <4> QED
        BY <3>3, <4>1, <4>2 DEF Rest
    <3> QED
      BY <3>1, <3>2, <3>3
  <2> QED
    BY <2>1, <2>2, <2>3, <2>4
<1>4. Flow(p)' = Flow(p) /\ Flow(q)' = Flow(q)
  <2>1. CASE Write(p)
    <3>1. /\ buffer[p] # << >> /\ held' = held
          /\ tcp'[q] = Append(tcp[q], Head(buffer[p])) /\ tcp'[p] = tcp[p]
          /\ buffer'[p] = Tail(buffer[p]) /\ buffer'[q] = buffer[q]
      BY <1>1, <1>2, <2>1 DEF Write
    <3>2. held[q] \o Append(tcp[q], Head(buffer[p])) \o Tail(buffer[p])
            = held[q] \o tcp[q] \o buffer[p]
      BY <1>2, <3>1, MoveLast
    <3> QED
      BY <1>1, <3>1, <3>2 DEF Flow
  <2>2. CASE ~Write(p)
    <3>1. held' = held /\ tcp' = tcp /\ buffer' = buffer
      BY <2>2 DEF Flushed, ReadEnd, Cancel, CancelLocked, Shutdown, PollClose, Drop
    <3> QED
      BY <3>1 DEF Flow
  <2> QED
    BY <2>1, <2>2
<1>5. codecs'[p] = codecs[p] /\ sents'[p] = sents[p] /\ helds'[p] = helds[p]
  BY <1>3, View
<1>6. codecs'[q] = codecs[q] /\ sents'[q] = sents[q] /\ helds'[q] = helds[q]
  BY <1>1, <1>3, View
<1>7. inboxes'[p] = inboxes[p] /\ inboxes'[q] = inboxes[q]
  <2>1. /\ inboxes[p] = Flow(p) \o Rest(q, op[q], codec[q], sent[q]).records
        /\ inboxes'[p] = Flow(p)' \o Rest(q, op'[q], codec'[q], sent'[q]).records
    BY <1>1, View, Zenon
  <2>2. /\ inboxes[q] = Flow(q) \o Rest(p, op[p], codec[p], sent[p]).records
        /\ inboxes'[q] = Flow(q)' \o Rest(p, op'[p], codec'[p], sent'[p]).records
    BY <1>1, View, Zenon
  <2>3. /\ Rest(q, op'[q], codec'[q], sent'[q]) = Rest(q, op[q], codec[q], sent[q])
        /\ Rest(p, op'[p], codec'[p], sent'[p]) = Rest(p, op[p], codec[p], sent[p])
    BY <1>3
  <2> QED
    BY <1>4, <2>1, <2>2, <2>3, Zenon
<1> QED
  BY <1>1, <1>5, <1>6, <1>7, SameView

-----------------------------------------------------------------------------
(***************************************************************************)
(* The steps that are seen: the start of an operation, and reading.        *)
(***************************************************************************)

\* A function of the parties that changes at one of them.
LEMMA ChangeAt ==
    ASSUME NEW p \in Party, NEW f, NEW g, NEW v,
           f = [x \in Party |-> f[x]], g = [x \in Party |-> g[x]],
           g[p] = v, g[Peer(p)] = f[Peer(p)]
    PROVE  g = [f EXCEPT ![p] = v]
<1>1. Party = {p, Peer(p)} /\ Peer(p) # p
  BY DEF Party, Peer
<1> QED
  BY <1>1

LEMMA ViewFunctions ==
    /\ codecs = [x \in Party |-> codecs[x]] /\ codecs' = [x \in Party |-> codecs'[x]]
    /\ sents = [x \in Party |-> sents[x]] /\ sents' = [x \in Party |-> sents'[x]]
    /\ helds = [x \in Party |-> helds[x]] /\ helds' = [x \in Party |-> helds'[x]]
    /\ inboxes = [x \in Party |-> inboxes[x]] /\ inboxes' = [x \in Party |-> inboxes'[x]]
<1>1. /\ codecs = [x \in Party |-> codecs[x]] /\ codecs' = [x \in Party |-> codecs'[x]]
      /\ sents = [x \in Party |-> sents[x]] /\ sents' = [x \in Party |-> sents'[x]]
  BY DEF codecs, sents
<1>2. /\ helds = [x \in Party |-> helds[x]] /\ helds' = [x \in Party |-> helds'[x]]
      /\ inboxes = [x \in Party |-> inboxes[x]] /\ inboxes' = [x \in Party |-> inboxes'[x]]
  BY DEF helds, inboxes
<1> QED
  BY <1>1, <1>2

\* What is left to send are records.
LEMMA RestRecords ==
    ASSUME NEW p \in Party, NEW o \in Operation, NEW c \in Codec, NEW n
    PROVE  Rest(p, o, c, n).records \in Seq(Record)
<1> DEFINE used == IF o.stage = "ready" THEN after_encrypt(c) ELSE c
           c1 == update_traffic_secrets(used, p, o.secret_update)
           a == encrypt(c, Item(o))
           b == encrypt(c1, Application(o.bytes))
           first == IF o.stage = "ready" THEN <<a>> ELSE << >>
           rest == IF o.message # NoMessage /\ o.bytes # 0 THEN <<b>> ELSE << >>
<1>1. o.message \in InnerPlaintext /\ o.secret_update \in SecretUpdates /\ o.bytes \in Nat
  BY AsyncAssumption DEF Operation
<1>2. Item(o) \in InnerPlaintext
  BY <1>1, MessageTypes DEF Item
<1>3. a \in Record /\ used \in Codec
  BY <1>2, CodecType
<1>4. c1 \in Codec
  <2> HIDE DEF used
  <2> QED
    BY <1>1, <1>3, CodecType
<1>5. b \in Record
  <2> HIDE DEF c1
  <2> QED
    BY <1>1, <1>4, CodecType, MessageTypes
<1>6. Rest(p, o, c, n).records = first \o rest
  BY DEF Rest
<1> HIDE DEF a, b
<1>7. first \in Seq(Record) /\ rest \in Seq(Record)
  BY <1>3, <1>5
<1> HIDE DEF first, rest
<1> QED
  BY <1>6, <1>7, ConcatProperties

\* A party whose operation, codec and count stay as they are.
LEMMA OtherView ==
    ASSUME NEW q \in Party, op'[q] = op[q], codec'[q] = codec[q], sent'[q] = sent[q]
    PROVE  /\ codecs'[q] = codecs[q] /\ sents'[q] = sents[q]
           /\ held'[q] = held[q] => helds'[q] = helds[q]
           /\ Flow(Peer(q))' = Flow(Peer(q)) => inboxes'[Peer(q)] = inboxes[Peer(q)]
<1>1. Rest(q, op'[q], codec'[q], sent'[q]) = Rest(q, op[q], codec[q], sent[q])
  OBVIOUS
<1>2. codecs'[q] = codecs[q] /\ sents'[q] = sents[q]
  BY <1>1, View
<1>3. held'[q] = held[q] => helds'[q] = helds[q]
  BY View
<1>4. Peer(q) \in Party /\ Peer(Peer(q)) = q
  BY PeerFacts
<1>5. /\ inboxes[Peer(q)] = Flow(Peer(q)) \o Rest(q, op[q], codec[q], sent[q]).records
      /\ inboxes'[Peer(q)] = Flow(Peer(q))' \o Rest(q, op'[q], codec'[q], sent'[q]).records
  BY <1>4, View, Zenon
<1>6. Flow(Peer(q))' = Flow(Peer(q)) => inboxes'[Peer(q)] = inboxes[Peer(q)]
  BY <1>1, <1>5, Zenon
<1> QED
  BY <1>2, <1>3, <1>6

\* A party that is between calls.
LEMMA IdleView ==
    ASSUME AsyncInv, NEW p \in Party, op[p] = NoOp
    PROVE  codecs[p] = codec[p] /\ sents[p] = sent[p] /\ inboxes[Peer(p)] = Flow(Peer(p))
<1>1. Peer(p) \in Party /\ Peer(Peer(p)) = p
  BY PeerFacts
<1>2. inboxes[Peer(p)] = Flow(Peer(p)) \o Rest(p, op[p], codec[p], sent[p]).records
  BY <1>1, View, Zenon
<1>3. Rest(p, op[p], codec[p], sent[p]).records = << >>
  BY IdleRest
<1>4. Flow(Peer(p)) \in Seq(Record)
  BY <1>1, FlowType
<1> DEFINE f == Flow(Peer(p))
<1> HIDE DEF f
<1>5. f \o << >> = f
  BY <1>4, ConcatEmptySeq DEF f
<1>6. codecs[p] = codec[p] /\ sents[p] = sent[p]
  BY IdleRest, View
<1> QED
  BY <1>2, <1>3, <1>5, <1>6 DEF f

\* send_bytes without an update.
LEMMA SeenBytes ==
    ASSUME AsyncInv, NEW p \in Party, Idle(p), sent[p] < MaxSends,
           op' = [op EXCEPT ![p] = Op("ready", NoMessage, NoSecretUpdate, sent[p] + 1)],
           UNCHANGED <<hs, commits, error, codec, buffer, tcp, held, sent, delivered>>
    PROVE  Atomic!SendBytes(p)
<1> DEFINE q == Peer(p)
           o == Op("ready", NoMessage, NoSecretUpdate, sent[p] + 1)
           a == encrypt(codec[p], Application(sent[p] + 1))
<1>1. q \in Party /\ q # p /\ Peer(q) = p /\ Peer(p) = q
  BY DEF Peer, Party
<1>2. /\ op \in [Party -> Operation] /\ sent[p] \in Nat /\ codec[p] \in Codec
      /\ error[p] = "ok" /\ op[p] = NoOp
  BY Types DEF AsyncInv, TypeOK, Operation, Idle
<1>3. op'[p] = o /\ op'[q] = op[q]
  BY <1>1, <1>2
<1>4. /\ o.stage = "ready" /\ o.message = NoMessage /\ o.secret_update = NoSecretUpdate
      /\ o.bytes = sent[p] + 1 /\ o.bytes \in Nat \ {0}
  BY <1>2 DEF Op
<1> HIDE DEF o, q
<1>5. /\ Rest(p, o, codec[p], sent[p]).records = <<a>>
      /\ Rest(p, o, codec[p], sent[p]).codec = after_encrypt(codec[p])
      /\ Rest(p, o, codec[p], sent[p]).sent = sent[p] + 1
  BY <1>2, <1>4, RestBytes
<1>6. a \in Record
  BY <1>2, CodecType, MessageTypes
<1> HIDE DEF a
<1>7. codecs[p] = codec[p] /\ sents[p] = sent[p] /\ inboxes[q] = Flow(q)
  BY <1>2, IdleView DEF q
<1>8. codecs'[p] = after_encrypt(codec[p]) /\ sents'[p] = sent[p] + 1
  BY <1>3, <1>5, View
<1>9. Flow(p)' = Flow(p) /\ Flow(q)' = Flow(q)
  BY DEF Flow
<1>10. inboxes'[q] = Append(inboxes[q], a)
  <2>1. inboxes'[q] = Flow(q)' \o Rest(p, op'[p], codec'[p], sent'[p]).records
    BY <1>1, View, Zenon
  <2>2. Flow(q) \o <<a>> = Append(Flow(q), a)
    <3> DEFINE f == Flow(q)
    <3>1. f \in Seq(Record)
      BY <1>1, FlowType
    <3> HIDE DEF f
    <3>2. f \o <<a>> = Append(f, a)
      BY <1>6, <3>1, AppendIsConcat
    <3> QED
      BY <3>2 DEF f
  <2>3. Rest(p, op'[p], codec'[p], sent'[p]).records = <<a>>
    BY <1>3, <1>5
  <2> QED
    BY <1>7, <1>9, <2>1, <2>2, <2>3, Zenon
<1>11. /\ codecs'[q] = codecs[q] /\ sents'[q] = sents[q] /\ inboxes'[p] = inboxes[p]
  BY <1>1, <1>3, <1>9, OtherView
<1>12. /\ codecs' = [codecs EXCEPT ![p] = after_encrypt(codecs[p])]
       /\ sents' = [sents EXCEPT ![p] = sents[p] + 1]
       /\ inboxes' = [inboxes EXCEPT ![q] = Append(inboxes[q], a)]
  <2>1. codecs' = [codecs EXCEPT ![p] = after_encrypt(codecs[p])]
    BY <1>1, <1>7, <1>8, <1>11, ViewFunctions, ChangeAt
  <2>2. sents' = [sents EXCEPT ![p] = sents[p] + 1]
    BY <1>1, <1>7, <1>8, <1>11, ViewFunctions, ChangeAt
  <2>3. inboxes' = [inboxes EXCEPT ![q] = Append(inboxes[q], a)]
    BY <1>1, <1>10, <1>11, ViewFunctions, ChangeAt
  <2> QED
    BY <2>1, <2>2, <2>3
<1>13. helds' = helds
  BY DEF helds
<1>14. a = Atomic!encrypt(codecs[p], Atomic!Application(sents[p] + 1)) /\ q = Atomic!Peer(p)
  BY <1>7, AtomicOperators DEF a, q
<1>15. after_encrypt(codecs[p]) = Atomic!after_encrypt(codecs[p])
  BY AtomicOperators
<1>16. /\ codecs' = [codecs EXCEPT ![p] = Atomic!after_encrypt(codecs[p])]
       /\ sents' = [sents EXCEPT ![p] = sents[p] + 1]
       /\ inboxes' = [inboxes EXCEPT ![Atomic!Peer(p)] = Append(inboxes[Atomic!Peer(p)],
                        Atomic!encrypt(codecs[p], Atomic!Application(sents[p] + 1)))]
       /\ error[p] = "ok" /\ sents[p] < MaxSends
       /\ UNCHANGED <<hs, helds, delivered, commits, error>>
  BY <1>2, <1>7, <1>12, <1>13, <1>14, <1>15
<1> QED
  BY <1>16 DEF Atomic!SendBytes, Atomic!MaySend, Atomic!NextBytes, codecs, inboxes, helds, sents

\* send_bytes with an update.
LEMMA SeenUpdate ==
    ASSUME AsyncInv, NEW p \in Party, Idle(p), sent[p] < MaxSends, commits < MaxCommits,
           NEW requested \in Atomic!Requests(p), NEW r,
           r = Atomic!update_handshake(p, requested), r.error # "WaitingForResponse",
           hs' = [hs EXCEPT ![p] = r.state], commits' = commits + r.made,
           error' = [error EXCEPT ![p] = r.error],
           op' = IF r.error # "ok" THEN op
                 ELSE [op EXCEPT ![p] = Op("ready", r.message, r.secret_update, sent[p] + 1)],
           UNCHANGED <<codec, buffer, tcp, held, sent, delivered>>
    PROVE  Atomic!SendBytesUpdate(p)
<1> DEFINE q == Peer(p)
           o == Op("ready", r.message, r.secret_update, sent[p] + 1)
           c1 == update_traffic_secrets(after_encrypt(codec[p]), p, r.secret_update)
           a == encrypt(codec[p], r.message)
           b == encrypt(c1, Application(sent[p] + 1))
<1>1. q \in Party /\ q # p /\ Peer(q) = p /\ Peer(p) = q
  BY DEF Peer, Party
<1>2. /\ op \in [Party -> Operation] /\ sent[p] \in Nat /\ codec[p] \in Codec
      /\ error[p] = "ok" /\ op[p] = NoOp /\ error \in [Party -> ErrorKind]
  BY Types DEF AsyncInv, TypeOK, Operation, Idle
<1>3. r \in Result /\ (r.error = "ok" => r.message # NoMessage)
  BY Handlers DEF AsyncInv
<1>4. r.message \in InnerPlaintext /\ r.secret_update \in SecretUpdates
  BY <1>3 DEF Result
<1>5. codecs[p] = codec[p] /\ sents[p] = sent[p] /\ inboxes[q] = Flow(q)
  BY <1>2, IdleView
<1>6. helds' = helds /\ Flow(p)' = Flow(p) /\ Flow(q)' = Flow(q)
  BY DEF helds, Flow
<1> DEFINE updated == Atomic!update_traffic_secrets(Atomic!after_encrypt(codecs[p]), p,
                                                    r.secret_update)
<1>7. IF r.error = "ok"
      THEN /\ inboxes' = [inboxes EXCEPT ![Atomic!Peer(p)] =
                            Append(Append(inboxes[Atomic!Peer(p)],
                                          Atomic!encrypt(codecs[p], r.message)),
                                   Atomic!encrypt(updated, Atomic!Application(sents[p] + 1)))]
           /\ codecs' = [codecs EXCEPT ![p] = Atomic!after_encrypt(updated)]
           /\ sents' = [sents EXCEPT ![p] = sents[p] + 1]
           /\ error' = error
      ELSE /\ error' = [error EXCEPT ![p] = r.error]
           /\ UNCHANGED <<inboxes, codecs, sents>>
  <2> HIDE DEF q
  <2>1. CASE r.error # "ok"
    <3>1. op' = op
      BY <2>1
    <3>2. ASSUME NEW x \in {p, q}
          PROVE  /\ codecs'[x] = codecs[x] /\ sents'[x] = sents[x]
                 /\ helds'[x] = helds[x] /\ inboxes'[x] = inboxes[x]
      <4>1. x \in Party /\ Peer(x) \in Party /\ Peer(Peer(x)) = x /\ Flow(x)' = Flow(x)
        BY <1>1, <1>6
      <4>2. codecs'[x] = codecs[x] /\ sents'[x] = sents[x]
        BY <3>1, <4>1, OtherView
      <4>3. inboxes'[x] = inboxes[x]
        BY <3>1, <4>1, OtherView
      <4> QED
        BY <1>6, <4>2, <4>3
    <3>3. UNCHANGED <<codecs, inboxes, helds, sents>>
      BY <3>2, SameView DEF q
    <3> QED
      BY <2>1, <3>3
  <2>2. CASE r.error = "ok"
    <3>1. op'[p] = o /\ op'[q] = op[q] /\ error' = error
      BY <1>1, <1>2, <2>2
    <3>2. /\ o \in Operation /\ o.stage = "ready" /\ o.message = r.message
          /\ o.message # NoMessage /\ o.secret_update = r.secret_update
          /\ o.bytes = sent[p] + 1 /\ o.bytes # 0
      BY <1>2, <1>3, <1>4, <2>2, AsyncAssumption DEF Op, Operation
    <3>3. c1 \in Codec /\ a \in Record
      <4>1. after_encrypt(codec[p]) \in Codec
        BY <1>2, CodecType
      <4> QED
        BY <1>2, <1>4, <4>1, CodecType
    <3>4. b \in Record
      <4>1. Application(sent[p] + 1) \in InnerPlaintext
        BY <1>2, MessageTypes
      <4> HIDE DEF c1
      <4> QED
        BY <3>3, <4>1, CodecType
    <3> HIDE DEF o
    <3>5. /\ Rest(p, o, codec[p], sent[p]).records = Append(<<a>>, b)
          /\ Rest(p, o, codec[p], sent[p]).codec = after_encrypt(c1)
          /\ Rest(p, o, codec[p], sent[p]).sent = sent[p] + 1
      <4> DEFINE c == codec[p]
                 n == sent[p]
      <4>1. c \in Codec
        BY <1>2
      <4> HIDE DEF c, n
      <4>2. LET c2 == update_traffic_secrets(after_encrypt(c), p, o.secret_update)
            IN  /\ Rest(p, o, c, n).records =
                     Append(<<encrypt(c, o.message)>>, encrypt(c2, Application(o.bytes)))
                /\ Rest(p, o, c, n).codec = after_encrypt(c2)
                /\ Rest(p, o, c, n).sent = o.bytes
        BY <3>2, <4>1, RestMessage
      <4> QED
        BY <3>2, <4>2 DEF c, n
    <3> HIDE DEF c1, a, b
    <3>6. inboxes'[q] = Append(Append(inboxes[q], a), b)
      <4>1. inboxes'[q] = Flow(q)' \o Rest(p, op'[p], codec'[p], sent'[p]).records
        BY <1>1, View, Zenon
      <4>2. Flow(q) \o Append(<<a>>, b) = Append(Append(Flow(q), a), b)
        <5> DEFINE f == Flow(q)
                   s == <<a>>
        <5>1. f \in Seq(Record) /\ s \in Seq(Record)
          BY <1>1, <3>3, FlowType
        <5>2. f \o s = Append(f, a)
          <6> HIDE DEF f
          <6> QED
            BY <3>3, <5>1, AppendIsConcat
        <5> HIDE DEF f, s
        <5>3. f \o Append(s, b) = Append(f \o s, b)
          BY <3>4, <5>1, ConcatAppend
        <5> QED
          BY <5>2, <5>3 DEF f, s
      <4>3. Rest(p, op'[p], codec'[p], sent'[p]).records = Append(<<a>>, b)
        BY <3>1, <3>5
      <4> QED
        BY <1>5, <1>6, <4>1, <4>2, <4>3, Zenon DEF q
    <3>7. codecs'[p] = after_encrypt(c1) /\ sents'[p] = sent[p] + 1
      BY <3>1, <3>5, View
    <3>8. codecs'[q] = codecs[q] /\ sents'[q] = sents[q] /\ inboxes'[p] = inboxes[p]
      BY <1>1, <1>6, <3>1, OtherView
    <3>9. codecs' = [codecs EXCEPT ![p] = after_encrypt(c1)]
      BY <1>1, <3>7, <3>8, ViewFunctions, ChangeAt
    <3>10. sents' = [sents EXCEPT ![p] = sents[p] + 1]
      BY <1>1, <1>5, <3>7, <3>8, ViewFunctions, ChangeAt
    <3>11. inboxes' = [inboxes EXCEPT ![q] = Append(Append(inboxes[q], a), b)]
      <4> DEFINE v == Append(Append(inboxes[q], a), b)
      <4>1. inboxes'[q] = v /\ inboxes'[Peer(q)] = inboxes[Peer(q)]
        BY <1>1, <3>6, <3>8
      <4> HIDE DEF v
      <4>2. inboxes' = [inboxes EXCEPT ![q] = v]
        BY <1>1, <4>1, ViewFunctions, ChangeAt
      <4> QED
        BY <4>2 DEF v
    <3>12. updated = c1
      BY <1>5, AtomicOperators DEF c1
    <3> HIDE DEF updated
    <3>13. /\ a = Atomic!encrypt(codecs[p], r.message) /\ q = Atomic!Peer(p)
           /\ b = Atomic!encrypt(updated, Atomic!Application(sents[p] + 1))
           /\ Atomic!after_encrypt(updated) = after_encrypt(c1)
      BY <1>5, <3>12, AtomicOperators DEF a, b, q
    <3> QED
      BY <2>2, <3>1, <3>9, <3>10, <3>11, <3>13
  <2> QED
    BY <2>1, <2>2
<1> HIDE DEF q, o, c1, a, b
<1>8. error[p] = "ok" /\ sents[p] < MaxSends
  BY <1>2, <1>5
<1>9. UNCHANGED <<helds, delivered>>
  BY <1>6
<1> QED
  BY <1>7, <1>8, <1>9
  DEF Atomic!SendBytesUpdate, Atomic!MaySend, Atomic!NextBytes, codecs, inboxes, helds, sents

\* The inbox of p starts with what is under way to it.
LEMMA InboxFront ==
    ASSUME AsyncInv, NEW p \in Party, Flow(p) # << >>
    PROVE  /\ inboxes[p] # << >> /\ Head(inboxes[p]) = Head(Flow(p))
           /\ Tail(inboxes[p]) = Tail(Flow(p)) \o Rest(Peer(p), op[Peer(p)], codec[Peer(p)],
                                                      sent[Peer(p)]).records
<1> DEFINE q == Peer(p)
           f == Flow(p)
           r == Rest(q, op[q], codec[q], sent[q]).records
<1>1. q \in Party /\ op[q] \in Operation /\ codec[q] \in Codec
  BY Types, PeerFacts DEF AsyncInv, Operation
<1>2. f \in Seq(Record) /\ f # << >>
  BY FlowType
<1>3. r \in Seq(Record)
  <2> HIDE DEF q
  <2> QED
    BY <1>1, RestRecords
<1>4. inboxes[p] = f \o r
  BY View, Zenon
<1> HIDE DEF f, r
<1>5. f \o r # << >> /\ Head(f \o r) = Head(f) /\ Tail(f \o r) = Tail(f) \o r
  BY <1>2, <1>3, ConcatHead
<1> QED
  BY <1>4, <1>5, Zenon DEF f, r

\* read_message.
LEMMA SeenRead ==
    ASSUME AsyncInv, NEW p \in Party, ReadAhead = 1, ReadMessage(p)
    PROVE  Atomic!ReadMessage(p)
<1> DEFINE q == Peer(p)
           h == Head(tcp[p])
<1>1. q \in Party /\ q # p /\ Peer(q) = p /\ Peer(p) = q
  BY DEF Peer, Party
<1> HIDE DEF q
<1>2. /\ held[p] \in Seq(Record) /\ tcp[p] \in Seq(Record) /\ buffer[q] \in Seq(Record)
      /\ codec[p] \in Codec /\ codec \in [Party -> Codec] /\ held \in [Party -> Seq(Record)]
      /\ tcp \in [Party -> Seq(Record)]
  BY <1>1, Types DEF AsyncInv, TypeOK
<1>3. /\ error[p] = "ok" /\ op[p] = NoOp /\ tcp[p] # << >> /\ Len(held[p]) < 1
      /\ UNCHANGED <<hs, op, buffer, sent, delivered, commits>>
      /\ tcp' = [tcp EXCEPT ![p] = Tail(@)]
  BY DEF ReadMessage, Idle
<1>4. held[p] = << >>
  <2>1. Len(held[p]) = 0
    BY <1>2, <1>3, LenProperties
  <2> QED
    BY <1>2, <2>1, EmptySeq
<1>5. codecs[p] = codec[p] /\ sents[p] = sent[p]
  BY <1>3, IdleView
<1>6. /\ Flow(p) = tcp[p] \o buffer[q] /\ Flow(p) # << >>
      /\ Head(Flow(p)) = h /\ Tail(Flow(p)) = Tail(tcp[p]) \o buffer[q]
  <2> DEFINE t == tcp[p]
             b == buffer[q]
  <2>1. t \in Seq(Record) /\ b \in Seq(Record) /\ t # << >>
    BY <1>2, <1>3
  <2>2. Flow(p) = << >> \o t \o b
    BY <1>1, <1>4 DEF Flow
  <2> HIDE DEF t, b
  <2>3. << >> \o t = t
    BY <2>1, ConcatEmptySeq
  <2>4. t \o b # << >> /\ Head(t \o b) = Head(t) /\ Tail(t \o b) = Tail(t) \o b
    BY <2>1, ConcatHead
  <2>5. Flow(p) = t \o b
    BY <2>2, <2>3, Zenon
  <2> QED
    BY <2>4, <2>5, Zenon DEF t, b
<1>7. /\ inboxes[p] # << >> /\ Head(inboxes[p]) = h
      /\ Tail(inboxes[p]) = Tail(Flow(p)) \o Rest(q, op[q], codec[q], sent[q]).records
  BY <1>1, <1>6, InboxFront, Zenon
<1>8. tcp'[p] = Tail(tcp[p]) /\ tcp'[q] = tcp[q]
  BY <1>1, <1>2, <1>3
<1>9. helds[p] = 0
  <2>1. Len(held[p]) = 0
    BY <1>2, <1>3, LenProperties
  <2> QED
    BY <2>1, View
<1>10. CASE decrypt(codec[p], h)
  <2>1. /\ held'[p] = Append(held[p], h) /\ held'[q] = held[q]
        /\ codec'[p] = after_decrypt(codec[p]) /\ codec'[q] = codec[q] /\ error' = error
    BY <1>1, <1>2, <1>10 DEF ReadMessage
  <2>2. Flow(p)' = Flow(p) /\ Flow(q)' = Flow(q)
    <3>1. Append(held[p], Head(tcp[p])) \o Tail(tcp[p]) = held[p] \o tcp[p]
      BY <1>2, <1>3, MoveOver
    <3>2. held'[p] \o tcp'[p] = held[p] \o tcp[p]
      BY <1>8, <2>1, <3>1, Zenon
    <3> QED
      BY <1>1, <1>3, <1>8, <2>1, <3>2, Zenon DEF Flow
  <2>3. inboxes'[p] = inboxes[p] /\ codecs'[q] = codecs[q] /\ sents'[q] = sents[q]
        /\ helds'[q] = helds[q]
    BY <1>1, <1>3, <2>1, <2>2, OtherView
  <2>4. inboxes'[q] = inboxes[q] /\ codecs'[p] = after_decrypt(codecs[p]) /\ sents'[p] = sents[p]
    <3>1. codec'[p] \in Codec
      BY <1>2, <2>1, CodecType
    <3>2. /\ Rest(p, op'[p], codec'[p], sent'[p]).records = << >>
          /\ Rest(p, op'[p], codec'[p], sent'[p]).codec = codec'[p]
          /\ Rest(p, op'[p], codec'[p], sent'[p]).sent = sent[p]
      BY <1>3, <3>1, NoOpFields, RestNone
    <3>3. inboxes'[q] = Flow(q)' \o << >>
      BY <1>1, <3>2, View, Zenon
    <3>4. inboxes[q] = Flow(q) \o << >>
      BY <1>1, <1>3, IdleRest, View, Zenon
    <3> QED
      BY <1>5, <2>1, <2>2, <3>2, <3>3, <3>4, View
  <2>5. helds'[p] = 1
    <3>1. h \in Record
      BY <1>2, <1>3, FirstAndOthers
    <3>2. Len(Append(held[p], h)) = Len(held[p]) + 1
      BY <1>2, <3>1, AppendRecord
    <3> QED
      BY <1>9, <2>1, <3>2, View
  <2>6. codecs' = [codecs EXCEPT ![p] = after_decrypt(codecs[p])]
    BY <1>1, <2>3, <2>4, ViewFunctions, ChangeAt
  <2>7. helds' = [helds EXCEPT ![p] = 1]
    BY <1>1, <2>3, <2>5, ViewFunctions, ChangeAt
  <2>8. inboxes' = inboxes /\ sents' = sents
    <3>1. Party = {p, q}
      BY DEF Party, Peer, q
    <3> QED
      BY <3>1, <2>3, <2>4, ViewFunctions
  <2>9. /\ Atomic!decrypt(codecs[p], Head(inboxes[p]))
        /\ codecs' = [codecs EXCEPT ![p] = Atomic!after_decrypt(codecs[p])]
    BY <1>5, <1>7, <1>10, <2>6, AtomicOperators
  <2>10. /\ error[p] = "ok" /\ helds[p] = 0 /\ inboxes[p] # << >>
         /\ helds' = [helds EXCEPT ![p] = 1]
         /\ UNCHANGED <<inboxes, error>> /\ UNCHANGED <<hs, sents, delivered, commits>>
    BY <1>3, <1>7, <1>9, <2>1, <2>7, <2>8
  <2> QED
    BY <2>9, <2>10 DEF Atomic!ReadMessage, codecs, inboxes, helds, sents
<1>11. CASE ~decrypt(codec[p], h)
  <2>1. /\ held' = held /\ codec' = codec /\ error' = [error EXCEPT ![p] = "DecryptionError"]
    BY <1>11 DEF ReadMessage
  <2>2. Flow(p)' = Tail(Flow(p)) /\ Flow(q)' = Flow(q)
    <3>1. Flow(p)' = << >> \o Tail(tcp[p]) \o buffer[q]
      BY <1>1, <1>3, <1>4, <1>8, <2>1 DEF Flow
    <3>2. Tail(tcp[p]) \in Seq(Record)
      BY <1>2, <1>3, FirstAndOthers
    <3>3. << >> \o Tail(tcp[p]) = Tail(tcp[p])
      <4> DEFINE t == Tail(tcp[p])
      <4> HIDE DEF t
      <4>1. << >> \o t = t
        BY <3>2, ConcatEmptySeq DEF t
      <4> QED
        BY <4>1 DEF t
    <3>4. Flow(q)' = Flow(q)
      BY <1>1, <1>3, <1>8, <2>1, Zenon DEF Flow
    <3> QED
      BY <1>6, <3>1, <3>3, <3>4, Zenon
  <2>3. inboxes'[p] = Tail(inboxes[p])
    <3>1. inboxes'[p] = Flow(p)' \o Rest(q, op'[q], codec'[q], sent'[q]).records
      BY <1>1, View, Zenon
    <3>2. Rest(q, op'[q], codec'[q], sent'[q]) = Rest(q, op[q], codec[q], sent[q])
      BY <1>3, <2>1
    <3> QED
      BY <1>7, <2>2, <3>1, <3>2, Zenon
  <2>4. inboxes'[q] = inboxes[q] /\ codecs'[p] = codecs[p] /\ sents'[p] = sents[p]
    BY <1>1, <1>3, <2>1, <2>2, OtherView
  <2>5. codecs'[q] = codecs[q] /\ sents'[q] = sents[q]
    BY <1>1, <1>3, <2>1, OtherView
  <2>6. helds' = helds
    BY <2>1 DEF helds
  <2>7. inboxes' = [inboxes EXCEPT ![p] = Tail(inboxes[p])]
    <3> DEFINE v == Tail(inboxes[p])
    <3>1. inboxes'[p] = v /\ inboxes'[Peer(p)] = inboxes[Peer(p)]
      BY <1>1, <2>3, <2>4
    <3> HIDE DEF v
    <3>2. inboxes' = [inboxes EXCEPT ![p] = v]
      BY <3>1, ViewFunctions, ChangeAt
    <3> QED
      BY <3>2 DEF v
  <2>8. codecs' = codecs /\ sents' = sents
    <3>1. Party = {p, q}
      BY DEF Party, Peer, q
    <3> QED
      BY <3>1, <2>4, <2>5, ViewFunctions
  <2>9. ~Atomic!decrypt(codecs[p], Head(inboxes[p]))
    BY <1>5, <1>7, <1>11, AtomicOperators
  <2>10. /\ error[p] = "ok" /\ helds[p] = 0 /\ inboxes[p] # << >>
         /\ error' = [error EXCEPT ![p] = "DecryptionError"]
         /\ UNCHANGED <<helds, codecs>> /\ UNCHANGED <<hs, sents, delivered, commits>>
    BY <1>3, <1>7, <1>9, <2>1, <2>6, <2>8
  <2> QED
    BY <2>7, <2>9, <2>10 DEF Atomic!ReadMessage, codecs, inboxes, helds, sents
<1> QED
  BY <1>10, <1>11

\* A message that was read is taken.
LEMMA TakenView ==
    ASSUME AsyncInv, NEW p \in Party, ReadAhead = 1, held[p] # << >>,
           held' = [held EXCEPT ![p] = Tail(@)], UNCHANGED <<tcp, buffer>>,
           op'[Peer(p)] = op[Peer(p)], codec'[Peer(p)] = codec[Peer(p)],
           sent'[Peer(p)] = sent[Peer(p)]
    PROVE  /\ Head(held[p]) \in Record /\ Flow(Peer(p))' = Flow(Peer(p))
           /\ helds[p] = 1 /\ helds' = [helds EXCEPT ![p] = 0]
           /\ Head(inboxes[p]) = Head(held[p]) /\ inboxes'[p] = Tail(inboxes[p])
           /\ codecs'[Peer(p)] = codecs[Peer(p)] /\ sents'[Peer(p)] = sents[Peer(p)]
<1> DEFINE q == Peer(p)
<1>1. q \in Party /\ q # p /\ Peer(q) = p /\ Peer(p) = q
  BY DEF Peer, Party
<1>2. /\ Head(held[p]) \in Record /\ Flow(p) # << >> /\ Head(Flow(p)) = Head(held[p])
      /\ Flow(p)' = Tail(Flow(p)) /\ Flow(q)' = Flow(q)
  BY TakeHeld
<1>3. op'[q] = op[q] /\ codec'[q] = codec[q] /\ sent'[q] = sent[q]
  OBVIOUS
<1>4. held[p] \in Seq(Record) /\ held \in [Party -> Seq(Record)]
  BY Types DEF AsyncInv, TypeOK
<1> HIDE DEF q
<1>5. Len(held[p]) = 1 /\ Len(Tail(held[p])) = 0
  <2>1. Len(held[p]) \in Nat /\ Len(held[p]) <= 1
    BY <1>4, LenProperties DEF AsyncInv
  <2>2. Len(held[p]) # 0
    BY <1>4, EmptySeq
  <2>3. Len(held[p]) = 1
    <3> DEFINE n == Len(held[p])
    <3>1. n \in Nat /\ n <= 1 /\ n # 0
      BY <2>1, <2>2
    <3> HIDE DEF n
    <3>2. n = 1
      BY <3>1
    <3> QED
      BY <3>2 DEF n
  <2> QED
    <3> DEFINE t == held[p]
    <3>1. t \in Seq(Record) /\ Len(t) = 1
      BY <1>4, <2>3
    <3> HIDE DEF t
    <3>2. Len(Tail(t)) = Len(t) - 1
      BY <3>1, HeadTail
    <3> QED
      BY <3>1, <3>2 DEF t
<1>6. held'[p] = Tail(held[p]) /\ held'[q] = held[q]
  BY <1>1, <1>4
<1>7. helds[p] = 1 /\ helds'[p] = 0
  BY <1>5, <1>6, View
<1>8. codecs'[q] = codecs[q] /\ sents'[q] = sents[q] /\ helds'[q] = helds[q]
  BY <1>1, <1>3, <1>6, OtherView
<1>9. helds' = [helds EXCEPT ![p] = 0]
  BY <1>1, <1>7, <1>8, ViewFunctions, ChangeAt
<1>10. /\ Head(inboxes[p]) = Head(held[p])
       /\ Tail(inboxes[p]) = Tail(Flow(p)) \o Rest(q, op[q], codec[q], sent[q]).records
  BY <1>1, <1>2, InboxFront, Zenon
<1>11. inboxes'[p] = Tail(inboxes[p])
  <2>1. inboxes'[p] = Flow(p)' \o Rest(q, op'[q], codec'[q], sent'[q]).records
    BY <1>1, View, Zenon
  <2>2. Rest(q, op'[q], codec'[q], sent'[q]) = Rest(q, op[q], codec[q], sent[q])
    BY <1>3
  <2> QED
    BY <1>2, <1>10, <2>1, <2>2, Zenon
<1> QED
  BY <1>2, <1>7, <1>8, <1>9, <1>10, <1>11 DEF q

\* process_read_message, arm Application.
LEMMA SeenApplication ==
    ASSUME AsyncInv, NEW p \in Party, ReadAhead = 1, ProcessApplication(p)
    PROVE  Atomic!ProcessApplication(p)
<1> DEFINE q == Peer(p)
<1>1. q \in Party /\ q # p /\ Peer(q) = p /\ Peer(p) = q
  BY DEF Peer, Party
<1>2. /\ error[p] = "ok" /\ held[p] # << >> /\ Head(held[p]).payload.type = "Application"
      /\ delivered' = [delivered EXCEPT ![p] = Head(held[p]).payload.data]
      /\ held' = [held EXCEPT ![p] = Tail(@)]
      /\ UNCHANGED <<hs, codec, op, buffer, tcp, sent, commits, error>>
  BY DEF ProcessApplication, Idle
<1>3. /\ helds[p] = 1 /\ helds' = [helds EXCEPT ![p] = 0] /\ Flow(q)' = Flow(q)
      /\ Head(inboxes[p]) = Head(held[p]) /\ inboxes'[p] = Tail(inboxes[p])
      /\ codecs'[q] = codecs[q] /\ sents'[q] = sents[q]
  BY <1>2, TakenView
<1> HIDE DEF q
<1>4. inboxes'[q] = inboxes[q] /\ codecs'[p] = codecs[p] /\ sents'[p] = sents[p]
  BY <1>1, <1>2, <1>3, OtherView
<1>5. codecs' = codecs /\ sents' = sents
  <2>1. Party = {p, q}
    BY DEF Party, Peer, q
  <2> QED
    BY <2>1, <1>3, <1>4, ViewFunctions
<1>6. inboxes' = [inboxes EXCEPT ![p] = Tail(inboxes[p])]
  <2> DEFINE v == Tail(inboxes[p])
  <2>1. inboxes'[p] = v /\ inboxes'[Peer(p)] = inboxes[Peer(p)]
    BY <1>1, <1>3, <1>4
  <2> HIDE DEF v
  <2>2. inboxes' = [inboxes EXCEPT ![p] = v]
    BY <2>1, ViewFunctions, ChangeAt
  <2> QED
    BY <2>2 DEF v
<1>7. /\ error[p] = "ok" /\ helds[p] = 1 /\ Head(inboxes[p]).payload.type = "Application"
      /\ delivered' = [delivered EXCEPT ![p] = Head(inboxes[p]).payload.data]
      /\ helds' = [helds EXCEPT ![p] = 0]
      /\ UNCHANGED <<hs, codecs, sents, commits, error>>
  BY <1>2, <1>3, <1>5
<1> QED
  BY <1>6, <1>7 DEF Atomic!ProcessApplication, codecs, inboxes, helds, sents

\* process_read_message, arm Signaling.
LEMMA SeenSignaling ==
    ASSUME AsyncInv, NEW p \in Party, ReadAhead = 1, ProcessSignaling(p)
    PROVE  Atomic!ProcessSignaling(p)
<1> DEFINE q == Peer(p)
           message == Head(held[p]).payload
           r == Atomic!process_signaling_message(p, message)
           o == Op("ready", r.message, r.secret_update, 0)
           a == encrypt(codec[p], r.message)
<1>1. q \in Party /\ q # p /\ Peer(q) = p /\ Peer(p) = q /\ \A x \in Party : x = p \/ x = q
  BY DEF Peer, Party
<1>2. /\ error[p] = "ok" /\ op[p] = NoOp /\ held[p] # << >> /\ message.type # "Application"
      /\ hs' = [hs EXCEPT ![p] = r.state]
      /\ commits' = commits + r.made
      /\ error' = [error EXCEPT ![p] = r.error]
      /\ held' = [held EXCEPT ![p] = Tail(@)]
      /\ UNCHANGED <<buffer, tcp, sent, delivered>>
  BY DEF ProcessSignaling, Idle
<1>3. /\ r.message = NoMessage =>
           /\ codec' = [codec EXCEPT ![p] = update_traffic_secrets(@, p, r.secret_update)]
           /\ op' = op
      /\ r.message # NoMessage => op' = [op EXCEPT ![p] = o] /\ codec' = codec
  BY DEF ProcessSignaling
<1>4. op \in [Party -> Operation] /\ codec \in [Party -> Codec] /\ codec[p] \in Codec
  BY DEF AsyncInv, TypeOK, Operation
<1>5. Head(held[p]) \in Record
  BY <1>2, TakeHeld
<1>6. message \in InnerPlaintext
  BY <1>5 DEF Record
<1>7. r.message \in InnerPlaintext /\ r.secret_update \in SecretUpdates
  <2>1. r \in Result
    BY <1>2, <1>6, Handlers DEF AsyncInv
  <2> HIDE DEF r
  <2> QED
    BY <2>1 DEF Result
<1>8. r = Atomic!process_signaling_message(p, message)
  OBVIOUS
<1> HIDE DEF q, message, r
<1>9. op'[q] = op[q] /\ codec'[q] = codec[q] /\ sent'[q] = sent[q]
  BY <1>1, <1>2, <1>3, <1>4
<1>10. /\ helds[p] = 1 /\ helds' = [helds EXCEPT ![p] = 0] /\ Flow(q)' = Flow(q)
       /\ Head(inboxes[p]) = Head(held[p]) /\ inboxes'[p] = Tail(inboxes[p])
       /\ codecs'[q] = codecs[q] /\ sents'[q] = sents[q]
  BY <1>2, <1>9, TakenView DEF q
<1>11. codecs[p] = codec[p] /\ sents[p] = sent[p] /\ inboxes[q] = Flow(q)
  BY <1>2, IdleView DEF q
<1> DEFINE used == IF r.message # NoMessage THEN after_encrypt(codec[p]) ELSE codec[p]
<1>12. /\ codecs'[p] = update_traffic_secrets(used, p, r.secret_update) /\ sents'[p] = sents[p]
       /\ inboxes'[q] = IF r.message # NoMessage THEN Append(inboxes[q], a) ELSE inboxes[q]
  <2>0. inboxes'[q] = Flow(q)' \o Rest(p, op'[p], codec'[p], sent'[p]).records
    BY <1>1, View, Zenon
  <2>1. CASE r.message = NoMessage
    <3>1. op'[p] = NoOp /\ codec'[p] = update_traffic_secrets(codec[p], p, r.secret_update)
      BY <1>2, <1>3, <1>4, <2>1
    <3>2. codec'[p] \in Codec
      BY <1>4, <1>7, <3>1, CodecType
    <3>3. /\ Rest(p, op'[p], codec'[p], sent'[p]).records = << >>
          /\ Rest(p, op'[p], codec'[p], sent'[p]).codec = codec'[p]
          /\ Rest(p, op'[p], codec'[p], sent'[p]).sent = sent[p]
      BY <1>2, <3>1, <3>2, NoOpFields, RestNone
    <3>4. inboxes'[q] = inboxes[q]
      <4> DEFINE f == Flow(q)
      <4>1. f \in Seq(Record)
        BY <1>1, FlowType
      <4> HIDE DEF f
      <4>2. f \o << >> = f
        BY <4>1, ConcatEmptySeq
      <4> QED
        BY <1>10, <1>11, <2>0, <3>3, <4>2, Zenon DEF f
    <3>5. codecs'[p] = codec'[p] /\ sents'[p] = sent[p]
      BY <3>3, View
    <3> QED
      BY <1>11, <2>1, <3>1, <3>4, <3>5
  <2>2. CASE r.message # NoMessage
    <3>1. op'[p] = o /\ codec'[p] = codec[p] /\ sent'[p] = sent[p]
      BY <1>2, <1>3, <1>4, <2>2
    <3>2. /\ o \in Operation /\ o.stage = "ready" /\ o.message = r.message
          /\ o.message # NoMessage /\ o.secret_update = r.secret_update /\ o.bytes = 0
      BY <1>7, <2>2, AsyncAssumption DEF Op, Operation
    <3> HIDE DEF o
    <3>3. /\ Rest(p, o, codec[p], sent[p]).records = <<a>>
          /\ Rest(p, o, codec[p], sent[p]).codec =
               update_traffic_secrets(after_encrypt(codec[p]), p, r.secret_update)
          /\ Rest(p, o, codec[p], sent[p]).sent = sent[p]
      <4> DEFINE c == codec[p]
                 n == sent[p]
      <4>1. c \in Codec
        BY <1>4
      <4> HIDE DEF c, n
      <4>2. LET c2 == update_traffic_secrets(after_encrypt(c), p, o.secret_update)
            IN  /\ Rest(p, o, c, n).records = <<encrypt(c, o.message)>>
                /\ Rest(p, o, c, n).codec = c2
                /\ Rest(p, o, c, n).sent = n
        BY <3>2, <4>1, RestMessage
      <4> QED
        BY <3>2, <4>2 DEF c, n
    <3>4. a \in Record
      BY <1>4, <1>7, CodecType
    <3> HIDE DEF a
    <3>5. inboxes'[q] = Append(inboxes[q], a)
      <4> DEFINE f == Flow(q)
      <4>1. f \in Seq(Record)
        BY <1>1, FlowType
      <4> HIDE DEF f
      <4>2. f \o <<a>> = Append(f, a)
        BY <3>4, <4>1, AppendIsConcat
      <4>3. Rest(p, op'[p], codec'[p], sent'[p]).records = <<a>>
        BY <3>1, <3>3
      <4> QED
        BY <1>10, <1>11, <2>0, <4>2, <4>3, Zenon DEF f
    <3>6. /\ codecs'[p] = update_traffic_secrets(after_encrypt(codec[p]), p, r.secret_update)
          /\ sents'[p] = sent[p]
      BY <3>1, <3>3, View
    <3> QED
      BY <1>11, <2>2, <3>5, <3>6
  <2> QED
    BY <2>1, <2>2
<1>13. sents' = sents
  <2>1. sents'[q] = sents[q] /\ sents'[p] = sents[p]
    BY <1>10, <1>12
  <2> QED
    BY <1>1, <2>1, ViewFunctions
<1>14. codecs' = [codecs EXCEPT ![p] = update_traffic_secrets(used, p, r.secret_update)]
  <2> DEFINE v == update_traffic_secrets(used, p, r.secret_update)
  <2>1. codecs'[p] = v /\ codecs'[Peer(p)] = codecs[Peer(p)]
    BY <1>1, <1>10, <1>12
  <2> HIDE DEF v
  <2>2. codecs' = [codecs EXCEPT ![p] = v]
    BY <2>1, ViewFunctions, ChangeAt
  <2> QED
    BY <2>2 DEF v
<1>15. inboxes' = [x \in Party |-> IF x = p THEN Tail(inboxes[x])
                                   ELSE IF r.message # NoMessage THEN Append(inboxes[x], a)
                                   ELSE inboxes[x]]
  <2> DEFINE v == Tail(inboxes[p])
             w == Append(inboxes[q], a)
             u == inboxes[q]
  <2>1. inboxes'[p] = v /\ inboxes'[q] = IF r.message # NoMessage THEN w ELSE u
    BY <1>10, <1>12
  <2>2. ASSUME NEW x \in Party
        PROVE  inboxes'[x] = IF x = p THEN Tail(inboxes[x])
                             ELSE IF r.message # NoMessage THEN Append(inboxes[x], a)
                             ELSE inboxes[x]
    <3>1. CASE x = p
      BY <2>1, <3>1
    <3>2. CASE x = q
      BY <1>1, <2>1, <3>2
    <3> QED
      BY <1>1, <3>1, <3>2
  <2>3. inboxes' = [x \in Party |-> inboxes'[x]]
    BY ViewFunctions
  <2> QED
    BY <2>2, <2>3
<1>16. /\ Atomic!Party = Party /\ a = Atomic!encrypt(codecs[p], r.message)
       /\ Atomic!NoMessage = NoMessage
  BY <1>11, AtomicOperators DEF a
<1> DEFINE used2 == IF r.message # Atomic!NoMessage THEN Atomic!after_encrypt(codecs[p])
                    ELSE codecs[p]
<1>17. used2 = used
  BY <1>11, <1>16, AtomicOperators
<1> HIDE DEF used, used2
<1>18. codecs' = [codecs EXCEPT ![p] = Atomic!update_traffic_secrets(used2, p, r.secret_update)]
  BY <1>14, <1>17, AtomicOperators
<1>19. inboxes' = [x \in Atomic!Party |->
                     IF x = p THEN Tail(inboxes[x])
                     ELSE IF r.message # Atomic!NoMessage
                          THEN Append(inboxes[x], Atomic!encrypt(codecs[p], r.message))
                          ELSE inboxes[x]]
  <2> HIDE DEF a
  <2> QED
    BY <1>15, <1>16
<1>20. /\ error[p] = "ok" /\ helds[p] = 1 /\ Head(inboxes[p]).payload.type # "Application"
       /\ r = Atomic!process_signaling_message(p, Head(inboxes[p]).payload)
       /\ hs' = [hs EXCEPT ![p] = r.state]
       /\ commits' = commits + r.made
       /\ error' = [error EXCEPT ![p] = r.error]
       /\ helds' = [helds EXCEPT ![p] = 0]
       /\ UNCHANGED <<sents, delivered>>
  BY <1>2, <1>8, <1>10, <1>13 DEF message
<1> QED
  BY <1>18, <1>19, <1>20 DEF used2, Atomic!ProcessSignaling, codecs, inboxes, helds, sents

\* Established connections look the same.
LEMMA SeenInit == Init => Atomic!Init
<1> SUFFICES ASSUME Init PROVE Atomic!Init
  OBVIOUS
<1>1. AsyncInv
  BY AsyncInit
<1>2. \A x \in Party : op[x] = NoOp /\ held[x] = << >> /\ tcp[x] = << >> /\ buffer[x] = << >>
  BY DEF Init
<1>3. << >> \o << >> = << >> /\ Len(<< >>) = 0
  BY EmptySeq, ConcatEmptySeq
<1>4. ASSUME NEW x \in Party
      PROVE  codecs[x] = codec[x] /\ sents[x] = sent[x] /\ helds[x] = 0 /\ inboxes[x] = << >>
  <2>1. Peer(x) \in Party /\ Peer(Peer(x)) = x
    BY PeerFacts
  <2>2. inboxes[x] = Flow(x)
    BY <1>1, <1>2, <2>1, IdleView
  <2>3. Flow(x) = << >>
    BY <1>2, <1>3, <2>1 DEF Flow
  <2>4. codecs[x] = codec[x] /\ sents[x] = sent[x]
    BY <1>1, <1>2, IdleView
  <2>5. helds[x] = 0
    BY <1>2, <1>3, View
  <2> QED
    BY <2>2, <2>3, <2>4, <2>5
<1>5. /\ codecs = [x \in Party |-> codec[x]] /\ sents = [x \in Party |-> sent[x]]
      /\ helds = [x \in Party |-> 0] /\ inboxes = [x \in Party |-> << >>]
  BY <1>4, ViewFunctions
<1>6. /\ Atomic!Party = Party /\ Atomic!client_start = client_start
      /\ Atomic!server_start = server_start
      /\ \A x : Atomic!new_codec(x, Atomic!create_server_session.secret, HandshakeRecords) =
                new_codec(x, create_server_session.secret, HandshakeRecords)
  BY DEF Atomic!Party, Party, Atomic!client_start, client_start, Atomic!server_start,
         server_start, Atomic!new_codec, new_codec, Atomic!create_server_session,
         create_server_session, Atomic!Running, Running, Atomic!NoCommit, NoCommit,
         Atomic!expand_secret, expand_secret, Atomic!Peer, Peer
<1>7. /\ hs = [x \in Atomic!Party |-> IF x = "client" THEN Atomic!client_start
                                      ELSE Atomic!server_start]
      /\ codecs = [x \in Atomic!Party |->
                     Atomic!new_codec(x, Atomic!create_server_session.secret, HandshakeRecords)]
      /\ inboxes = [x \in Atomic!Party |-> << >>]
      /\ helds = [x \in Atomic!Party |-> 0]
      /\ sents = [x \in Atomic!Party |-> 0]
  BY <1>5, <1>6 DEF Init
<1>8. /\ delivered = [x \in Atomic!Party |-> 0]
      /\ commits = 0
      /\ error = [x \in Atomic!Party |-> "ok"]
  BY <1>6 DEF Init
<1> QED
  BY <1>7, <1>8 DEF Atomic!Init, codecs, inboxes, helds, sents

\* Every step is a step of the connection with operations that are single
\* steps, or goes unseen.
LEMMA SeenNext ==
    ASSUME "cancel" \notin Faults, ReadAhead = 1, AsyncInv, [Next]_vars
    PROVE  [Atomic!Next]_(Atomic!vars)
<1>1. UNCHANGED <<hs, delivered, commits, error>> /\ UNCHANGED <<codecs, inboxes, helds, sents>>
        => UNCHANGED Atomic!vars
  BY DEF Atomic!vars, codecs, inboxes, helds, sents
<1>2. ASSUME NEW p \in Party,
             \/ Atomic!SendBytes(p) \/ Atomic!SendBytesUpdate(p) \/ Atomic!ReadMessage(p)
             \/ Atomic!ProcessApplication(p) \/ Atomic!ProcessSignaling(p)
      PROVE  Atomic!Next
  <2>1. p \in Atomic!Party
    BY AtomicOperators
  <2> QED
    BY <1>2, <2>1 DEF Atomic!Next
<1>3. CASE UNCHANGED vars
  <2>1. UNCHANGED <<codecs, inboxes, helds, sents>>
    BY <1>3 DEF vars, codecs, inboxes, helds, sents, Completed
  <2>2. UNCHANGED <<hs, delivered, commits, error>>
    BY <1>3 DEF vars
  <2> QED
    BY <1>1, <2>1, <2>2
<1>4. ASSUME NEW p \in Party, SendBytes(p) PROVE Atomic!Next
  <2>1. Idle(p) /\ sent[p] < MaxSends
    BY <1>4 DEF SendBytes
  <2>2. UNCHANGED <<codec, buffer, tcp, held, sent, delivered>>
    BY <1>4 DEF SendBytes
  <2>3. CASE /\ op' = [op EXCEPT ![p] = Op("ready", NoMessage, NoSecretUpdate, sent[p] + 1)]
             /\ UNCHANGED <<hs, commits, error>>
    BY <1>2, <2>1, <2>2, <2>3, SeenBytes
  <2>4. CASE /\ commits < MaxCommits
             /\ \E requested \in Atomic!Requests(p) :
                  LET r == Atomic!update_handshake(p, requested)
                  IN  /\ r.error # "WaitingForResponse"
                      /\ hs' = [hs EXCEPT ![p] = r.state]
                      /\ commits' = commits + r.made
                      /\ error' = [error EXCEPT ![p] = r.error]
                      /\ op' = IF r.error # "ok" THEN op ELSE
                               [op EXCEPT ![p] =
                                   Op("ready", r.message, r.secret_update, sent[p] + 1)]
    <3>1. PICK requested \in Atomic!Requests(p) :
                  LET r == Atomic!update_handshake(p, requested)
                  IN  /\ r.error # "WaitingForResponse"
                      /\ hs' = [hs EXCEPT ![p] = r.state]
                      /\ commits' = commits + r.made
                      /\ error' = [error EXCEPT ![p] = r.error]
                      /\ op' = IF r.error # "ok" THEN op ELSE
                               [op EXCEPT ![p] =
                                   Op("ready", r.message, r.secret_update, sent[p] + 1)]
      BY <2>4
    <3> DEFINE r == Atomic!update_handshake(p, requested)
    <3>2. /\ r = Atomic!update_handshake(p, requested) /\ r.error # "WaitingForResponse"
          /\ hs' = [hs EXCEPT ![p] = r.state] /\ commits' = commits + r.made
          /\ error' = [error EXCEPT ![p] = r.error]
          /\ op' = IF r.error # "ok" THEN op ELSE
                   [op EXCEPT ![p] = Op("ready", r.message, r.secret_update, sent[p] + 1)]
      BY <3>1
    <3> HIDE DEF r
    <3>3. commits < MaxCommits
      BY <2>4
    <3>4. Atomic!SendBytesUpdate(p)
      BY <2>1, <2>2, <3>2, <3>3, SeenUpdate
    <3> QED
      BY <1>2, <3>4
  <2> QED
    BY <1>4, <2>3, <2>4 DEF SendBytes
<1>5. ASSUME NEW p \in Party,
             \/ StartSend(p) \/ Write(p) \/ Flushed(p) \/ ReadEnd(p) \/ Cancel(p)
             \/ CancelLocked(p) \/ Shutdown(p) \/ PollClose(p) \/ Drop(p)
      PROVE  UNCHANGED Atomic!vars
  <2>1. UNCHANGED <<codecs, inboxes, helds, sents>>
    BY <1>5, UnseenStart, UnseenOthers
  <2>2. UNCHANGED <<hs, delivered, commits, error>>
    BY <1>5
       DEF StartSend, Write, Flushed, ReadEnd, Cancel, CancelLocked, Shutdown, PollClose, Drop
  <2> QED
    BY <1>1, <2>1, <2>2
<1>6. ASSUME NEW p \in Party, ReadMessage(p) \/ ProcessApplication(p) \/ ProcessSignaling(p)
      PROVE  Atomic!Next
  BY <1>2, <1>6, SeenRead, SeenApplication, SeenSignaling
<1> QED
  BY <1>3, <1>4, <1>5, <1>6 DEF Next

\* Operations may be taken as single steps: without dropped futures and
\* without reading ahead, the connection in steps between awaits implements
\* EncryptionProvider, whatever TCP and the sink hold and whatever the two
\* sides request, through blocked sends, late flushes and shutdowns, and until
\* a side is gone.
THEOREM OperationsAreSteps ==
    ASSUME "cancel" \notin Faults, ReadAhead = 1
    PROVE  Spec => ImplementsAtomic
<1>1. Init => Atomic!Init
  BY SeenInit
<1>2. AsyncInv /\ [Next]_vars => [Atomic!Next]_(Atomic!vars)
  BY SeenNext
<1> QED
  BY <1>1, <1>2, AsyncInvariance, PTL DEF Spec, ImplementsAtomic, Atomic!Spec


-----------------------------------------------------------------------------
(***************************************************************************)
(* What a blocked party is blocked behind.  Without dropped futures the    *)
(* sink's buffer holds nothing but the record that is being flushed.       *)
(***************************************************************************)

OnlyFlushed(p) ==
    /\ op[p].stage # "flush" => buffer[p] = << >>
    /\ op[p].stage = "flush" =>
         /\ op[p].message = NoMessage => op[p].bytes # 0
         /\ \/ buffer[p] = << >>
            \/ \E a \in Record : buffer[p] = <<a>> /\ a.payload = Item(op[p])

BufferInv == \A p \in Party : OnlyFlushed(p)

\* A party whose operation and buffer stay as they are.
LEMMA SameBuffer ==
    ASSUME NEW p, OnlyFlushed(p), op'[p] = op[p], buffer'[p] = buffer[p]
    PROVE  OnlyFlushed(p)'
BY DEF OnlyFlushed

\* The buffer is empty, and no flush begins.
LEMMA EmptyBuffer ==
    ASSUME NEW p, op'[p].stage # "flush", buffer'[p] = << >>
    PROVE  OnlyFlushed(p)'
BY DEF OnlyFlushed

LEMMA BufferStart ==
    ASSUME AsyncInv, BufferInv, NEW p \in Party, StartSend(p)
    PROVE  OnlyFlushed(p)'
<1> DEFINE o == op[p]
           a == encrypt(codec[p], Item(o))
<1>1. /\ o.stage = "ready"
      /\ buffer' = [buffer EXCEPT ![p] = Append(@, a)]
      /\ op' = [op EXCEPT ![p].stage = "flush"]
  BY DEF StartSend
<1>2. /\ o \in [stage : {"none", "ready", "flush", "close"}, message : InnerPlaintext,
                secret_update : SecretUpdates, bytes : 0 .. MaxSends]
      /\ o.message \in InnerPlaintext /\ o.bytes \in Nat /\ codec[p] \in Codec
  BY Types, AsyncAssumption DEF AsyncInv
<1>3. o.message = NoMessage => o.bytes # 0
  BY <1>1 DEF AsyncInv, OpInv
<1>4. Item(o) \in InnerPlaintext
  BY <1>2, MessageTypes DEF Item
<1>5. a \in Record /\ a.payload = Item(o)
  BY <1>2, <1>4, CodecType DEF encrypt
<1> HIDE DEF a
<1>6. op'[p] = [o EXCEPT !.stage = "flush"]
  BY <1>1 DEF AsyncInv, TypeOK
<1>7. op'[p].stage = "flush" /\ op'[p].message = o.message /\ op'[p].bytes = o.bytes
  BY <1>2, <1>6
<1>8. Item(op'[p]) = Item(o)
  BY <1>7 DEF Item
<1>9. buffer[p] = << >> /\ buffer'[p] = Append(buffer[p], a)
  BY <1>1 DEF BufferInv, OnlyFlushed, AsyncInv, TypeOK
<1>10. buffer'[p] = <<a>>
  BY <1>9
<1> QED
  BY <1>3, <1>5, <1>7, <1>8, <1>10 DEF OnlyFlushed

LEMMA BufferWrite ==
    ASSUME AsyncInv, BufferInv, NEW p \in Party, Write(p)
    PROVE  OnlyFlushed(p)'
<1>1. buffer[p] # << >> /\ buffer' = [buffer EXCEPT ![p] = Tail(@)] /\ op' = op
  BY DEF Write
<1>2. PICK a \in Record : buffer[p] = <<a>>
  BY <1>1 DEF BufferInv, OnlyFlushed
<1>3. buffer'[p] = Tail(<<a>>)
  BY <1>1, <1>2 DEF AsyncInv, TypeOK
<1>4. buffer'[p] = << >>
  BY <1>3
<1> QED
  BY <1>1, <1>4 DEF BufferInv, OnlyFlushed

\* Every step but a dropped future keeps it.
LEMMA BufferNext ==
    ASSUME "cancel" \notin Faults
    PROVE  AsyncInv /\ BufferInv /\ [Next]_vars => BufferInv'
<1> SUFFICES ASSUME AsyncInv, BufferInv, [Next]_vars PROVE BufferInv'
  OBVIOUS
<1>1. ASSUME UNCHANGED <<op, buffer>> PROVE BufferInv'
  BY <1>1, SameBuffer DEF BufferInv
<1>2. ASSUME NEW p \in Party,
             \A x \in Party : x # p => op'[x] = op[x] /\ buffer'[x] = buffer[x],
             OnlyFlushed(p)'
      PROVE  BufferInv'
  <2>1. ASSUME NEW x \in Party, x # p PROVE OnlyFlushed(x)'
    BY <1>2, <2>1, SameBuffer DEF BufferInv
  <2> QED
    BY <1>2, <2>1 DEF BufferInv
<1>3. op \in [Party -> Operation] /\ buffer \in [Party -> Seq(Record)]
  BY DEF AsyncInv, TypeOK, Operation
<1>4. ASSUME NEW p \in Party, NEW o, op' = [op EXCEPT ![p] = o], o.stage # "flush",
             buffer[p] = << >>, buffer' = buffer
      PROVE  BufferInv'
  <2>1. op'[p] = o /\ \A x \in Party : x # p => op'[x] = op[x]
    BY <1>3, <1>4
  <2>2. OnlyFlushed(p)'
    BY <1>4, <2>1, EmptyBuffer
  <2> QED
    BY <1>2, <1>4, <2>1, <2>2
<1>5. \A p \in Party : op[p] = NoOp => buffer[p] = << >>
  BY NoOpFields DEF BufferInv, OnlyFlushed
<1>6. \A m, s, b : Op("ready", m, s, b).stage = "ready" /\ Op("close", m, s, b).stage = "close"
  BY DEF Op
<1>7. ASSUME NEW p \in Party, SendBytes(p) PROVE BufferInv'
  <2>1. op[p] = NoOp /\ buffer' = buffer
    BY <1>7 DEF SendBytes, Idle
  <2>2. op' = op \/ \E m, s, b : op' = [op EXCEPT ![p] = Op("ready", m, s, b)]
    BY <1>7 DEF SendBytes
  <2>3. buffer[p] = << >>
    BY <1>5, <2>1
  <2>4. ASSUME NEW m, NEW s, NEW b, op' = [op EXCEPT ![p] = Op("ready", m, s, b)]
        PROVE  BufferInv'
    <3> DEFINE o == Op("ready", m, s, b)
    <3>1. op' = [op EXCEPT ![p] = o] /\ o.stage # "flush"
      BY <1>6, <2>4
    <3> HIDE DEF o
    <3> QED
      BY <1>4, <2>1, <2>3, <3>1
  <2> QED
    BY <1>1, <2>1, <2>2, <2>4
<1>8. ASSUME NEW p \in Party, StartSend(p) PROVE BufferInv'
  <2>1. \A x \in Party : x # p => op'[x] = op[x] /\ buffer'[x] = buffer[x]
    BY <1>3, <1>8 DEF StartSend
  <2> QED
    BY <1>2, <1>8, <2>1, BufferStart
<1>9. ASSUME NEW p \in Party, Write(p) PROVE BufferInv'
  <2>1. \A x \in Party : x # p => op'[x] = op[x] /\ buffer'[x] = buffer[x]
    BY <1>3, <1>9 DEF Write
  <2> QED
    BY <1>2, <1>9, <2>1, BufferWrite
<1>10. ASSUME NEW p \in Party, Flushed(p) PROVE BufferInv'
  <2> DEFINE o == IF op[p].message # NoMessage /\ op[p].bytes # 0
                  THEN Op("ready", NoMessage, NoSecretUpdate, op[p].bytes) ELSE NoOp
  <2>1. op' = [op EXCEPT ![p] = o] /\ buffer[p] = << >> /\ buffer' = buffer
    BY <1>10 DEF Flushed
  <2>2. o.stage # "flush"
    BY <1>6, NoOpFields
  <2> HIDE DEF o
  <2> QED
    BY <1>4, <2>1, <2>2
<1>11. ASSUME NEW p \in Party,
              ReadMessage(p) \/ ReadEnd(p) \/ ProcessApplication(p) \/ Drop(p)
       PROVE  BufferInv'
  BY <1>1, <1>11 DEF ReadMessage, ReadEnd, ProcessApplication, Drop
<1>12. ASSUME NEW p \in Party, ProcessSignaling(p) PROVE BufferInv'
  <2>1. op[p] = NoOp /\ buffer' = buffer
    BY <1>12 DEF ProcessSignaling, Idle
  <2>2. op' = op \/ \E m, s, b : op' = [op EXCEPT ![p] = Op("ready", m, s, b)]
    BY <1>12 DEF ProcessSignaling
  <2>3. buffer[p] = << >>
    BY <1>5, <2>1
  <2>4. ASSUME NEW m, NEW s, NEW b, op' = [op EXCEPT ![p] = Op("ready", m, s, b)]
        PROVE  BufferInv'
    <3> DEFINE o == Op("ready", m, s, b)
    <3>1. op' = [op EXCEPT ![p] = o] /\ o.stage # "flush"
      BY <1>6, <2>4
    <3> HIDE DEF o
    <3> QED
      BY <1>4, <2>1, <2>3, <3>1
  <2> QED
    BY <1>1, <2>1, <2>2, <2>4
<1>13. ASSUME NEW p \in Party, Shutdown(p) PROVE BufferInv'
  <2> DEFINE o == Op("close", NoMessage, NoSecretUpdate, 0)
  <2>1. op[p] = NoOp /\ op' = [op EXCEPT ![p] = o] /\ buffer' = buffer /\ o.stage # "flush"
    BY <1>6, <1>13 DEF Shutdown, Idle
  <2> HIDE DEF o
  <2> QED
    BY <1>4, <1>5, <2>1
<1>14. ASSUME NEW p \in Party, PollClose(p) PROVE BufferInv'
  BY <1>4, <1>14, NoOpFields DEF PollClose
<1>15. ASSUME NEW p \in Party PROVE ~Cancel(p) /\ ~CancelLocked(p)
  BY DEF Cancel, CancelLocked
<1>16. CASE UNCHANGED vars
  BY <1>1, <1>16 DEF vars
<1> QED
  BY <1>7, <1>8, <1>9, <1>10, <1>11, <1>12, <1>13, <1>14, <1>15, <1>16 DEF Next


\* The connection with operations that are single steps, with what is proved
\* of it.
Safe == INSTANCE EncryptionProviderProofs WITH
    codec <- [p \in Party |-> Completed(p).codec],
    inbox <- [p \in Party |-> held[p] \o tcp[p] \o buffer[Peer(p)] \o Completed(Peer(p)).records],
    held  <- [p \in Party |-> Len(held[p])],
    sent  <- [p \in Party |-> Completed(p).sent]

\* What is proved of connections is proved of this one.
LEMMA SafeConnection == Atomic!Spec => Safe!Spec
<1>1. Atomic!Init => Safe!Init
  BY
   DEF Atomic!Init, Safe!Init, Atomic!client_start, Safe!client_start,
       Atomic!server_start, Safe!server_start, Atomic!create_server_session,
       Safe!create_server_session, Atomic!Running, Safe!Running, Atomic!NoCommit,
       Safe!NoCommit, Atomic!new_codec, Safe!new_codec, Atomic!expand_secret,
       Safe!expand_secret, Atomic!Peer, Safe!Peer, Atomic!Party, Safe!Party
<1>2. \A p, requested : Atomic!update_handshake(p, requested) = Safe!update_handshake(p, requested)
  BY
   DEF Atomic!merge_update, Safe!merge_update, Atomic!update, Safe!update,
       Atomic!NoCommit, Safe!NoCommit, Atomic!self_update_and_merge,
       Safe!self_update_and_merge, Atomic!self_update_and_wait, Safe!self_update_and_wait,
       Atomic!Waiting, Safe!Waiting, Atomic!WaitingForUpdate, Safe!WaitingForUpdate,
       Atomic!ConnectionUpdate, Safe!ConnectionUpdate, Atomic!ClientSecret,
       Safe!ClientSecret, Atomic!Done, Safe!Done, Atomic!Failed, Safe!Failed,
       Atomic!NoMessage, Safe!NoMessage, Atomic!Application, Safe!Application,
       Atomic!NoSecretUpdate, Safe!NoSecretUpdate, Atomic!client_is_waiting,
       Safe!client_is_waiting, Atomic!server_is_waiting, Safe!server_is_waiting,
       Atomic!client_update, Safe!client_update, Atomic!server_update,
       Safe!server_update, Atomic!update_handshake, Safe!update_handshake
<1>3. \A p, message :
         Atomic!process_signaling_message(p, message) = Safe!process_signaling_message(p, message)
  <2>1. ASSUME NEW g, NEW c, NEW drop
        PROVE  Atomic!process_mls_update(g, c, drop) = Safe!process_mls_update(g, c, drop)
    BY
   DEF Atomic!process_mls_update, Safe!process_mls_update, Atomic!resolve_pending,
       Safe!resolve_pending, Atomic!merge_update, Safe!merge_update, Atomic!NoCommit,
       Safe!NoCommit
  <2>2. ASSUME NEW s, NEW requested, NEW fresh, NEW u
        PROVE  /\ Atomic!self_update_and_merge(s, requested, fresh)
                    = Safe!self_update_and_merge(s, requested, fresh)
               /\ Atomic!self_update_and_wait(s, requested, fresh, u)
                    = Safe!self_update_and_wait(s, requested, fresh, u)
    BY
   DEF Atomic!self_update_and_merge, Safe!self_update_and_merge,
       Atomic!self_update_and_wait, Safe!self_update_and_wait, Atomic!update,
       Safe!update, Atomic!merge_update, Safe!merge_update, Atomic!Waiting,
       Safe!Waiting, Atomic!WaitingForUpdate, Safe!WaitingForUpdate,
       Atomic!ConnectionUpdate, Safe!ConnectionUpdate, Atomic!ClientSecret,
       Safe!ClientSecret, Atomic!Done, Safe!Done, Atomic!Failed, Safe!Failed,
       Atomic!NoMessage, Safe!NoMessage, Atomic!Application, Safe!Application,
       Atomic!NoSecretUpdate, Safe!NoSecretUpdate, Atomic!NoCommit, Safe!NoCommit
  <2>3. ASSUME NEW s, NEW m, NEW fresh
        PROVE  Atomic!client_process_update(s, m, fresh) = Safe!client_process_update(s, m, fresh)
    BY <2>1, <2>2
   DEF Atomic!client_process_update, Safe!client_process_update,
       Atomic!create_epoch_key_update, Safe!create_epoch_key_update,
       Atomic!EpochKeyUpdate, Safe!EpochKeyUpdate, Atomic!Waiting, Safe!Waiting,
       Atomic!ClientSecret, Safe!ClientSecret, Atomic!Done, Safe!Done,
       Atomic!Failed, Safe!Failed, Atomic!NoMessage, Safe!NoMessage,
       Atomic!Application, Safe!Application, Atomic!NoSecretUpdate, Safe!NoSecretUpdate,
       Atomic!NoCommit, Safe!NoCommit
  <2>4. ASSUME NEW s, NEW m, NEW fresh
        PROVE  Atomic!server_process_update(s, m, fresh) = Safe!server_process_update(s, m, fresh)
    BY <2>1, <2>2
   DEF Atomic!server_process_update, Safe!server_process_update, Atomic!server_follow,
       Safe!server_follow, Atomic!create_epoch_key_update, Safe!create_epoch_key_update,
       Atomic!EpochKeyUpdate, Safe!EpochKeyUpdate, Atomic!Running, Safe!Running,
       Atomic!Both, Safe!Both, Atomic!Done, Safe!Done, Atomic!Failed, Safe!Failed,
       Atomic!NoMessage, Safe!NoMessage, Atomic!Application, Safe!Application,
       Atomic!NoSecretUpdate, Safe!NoSecretUpdate, Atomic!NoCommit, Safe!NoCommit
  <2>5. ASSUME NEW s, NEW m, NEW fresh
        PROVE  Atomic!client_receive_signaling_message(s, m, fresh)
                 = Safe!client_receive_signaling_message(s, m, fresh)
    BY <2>3
   DEF Atomic!client_receive_signaling_message, Safe!client_receive_signaling_message,
       Atomic!client_receive_confirmation, Safe!client_receive_confirmation,
       Atomic!client_is_waiting, Safe!client_is_waiting,
       Atomic!process_epoch_key_update, Safe!process_epoch_key_update, Atomic!Running,
       Safe!Running, Atomic!ServerSecret, Safe!ServerSecret, Atomic!Done, Safe!Done,
       Atomic!Failed, Safe!Failed, Atomic!NoMessage, Safe!NoMessage,
       Atomic!Application, Safe!Application, Atomic!NoSecretUpdate, Safe!NoSecretUpdate,
       Atomic!NoCommit, Safe!NoCommit
  <2>6. ASSUME NEW s, NEW m, NEW fresh
        PROVE  Atomic!server_receive_signaling_message(s, m, fresh)
                 = Safe!server_receive_signaling_message(s, m, fresh)
    BY <2>4
   DEF Atomic!server_receive_signaling_message, Safe!server_receive_signaling_message,
       Atomic!server_receive_epoch_key_update, Safe!server_receive_epoch_key_update,
       Atomic!server_is_waiting, Safe!server_is_waiting, Atomic!merge_update,
       Safe!merge_update, Atomic!process_epoch_key_update, Safe!process_epoch_key_update,
       Atomic!create_epoch_key_update, Safe!create_epoch_key_update,
       Atomic!EpochKeyUpdate, Safe!EpochKeyUpdate, Atomic!Running, Safe!Running,
       Atomic!Both, Safe!Both, Atomic!Done, Safe!Done, Atomic!Failed, Safe!Failed,
       Atomic!NoMessage, Safe!NoMessage, Atomic!Application, Safe!Application,
       Atomic!NoSecretUpdate, Safe!NoSecretUpdate, Atomic!NoCommit, Safe!NoCommit
  <2> QED
    BY <2>5, <2>6 DEF Atomic!process_signaling_message, Safe!process_signaling_message
<1>4. /\ Atomic!Party = Safe!Party /\ Atomic!NoMessage = Safe!NoMessage
      /\ \A p : Atomic!Peer(p) = Safe!Peer(p)
      /\ \A n : Atomic!Application(n) = Safe!Application(n)
      /\ \A c : /\ Atomic!after_encrypt(c) = Safe!after_encrypt(c)
                /\ Atomic!after_decrypt(c) = Safe!after_decrypt(c)
      /\ \A c, m : /\ Atomic!encrypt(c, m) = Safe!encrypt(c, m)
                   /\ Atomic!decrypt(c, m) = Safe!decrypt(c, m)
      /\ \A c, p, u : Atomic!update_traffic_secrets(c, p, u) = Safe!update_traffic_secrets(c, p, u)
  BY
   DEF Atomic!Party, Safe!Party, Atomic!NoMessage, Safe!NoMessage,
       Atomic!Application, Safe!Application, Atomic!NoCommit, Safe!NoCommit,
       Atomic!Peer, Safe!Peer, Atomic!expand_secret, Safe!expand_secret,
       Atomic!own_kind, Safe!own_kind, Atomic!update_traffic_secrets,
       Safe!update_traffic_secrets, Atomic!encrypt, Safe!encrypt, Atomic!after_encrypt,
       Safe!after_encrypt, Atomic!decrypt, Safe!decrypt, Atomic!after_decrypt,
       Safe!after_decrypt
<1>5. ASSUME NEW p, Atomic!SendBytes(p) PROVE Safe!SendBytes(p)
  BY <1>4, <1>5
   DEF Atomic!SendBytes, Safe!SendBytes, Atomic!MaySend, Safe!MaySend,
       Atomic!NextBytes, Safe!NextBytes
<1>6. ASSUME NEW p, Atomic!SendBytesUpdate(p) PROVE Safe!SendBytesUpdate(p)
  <2>1. /\ error[p] = "ok" /\ sents[p] < MaxSends /\ commits < MaxCommits
        /\ UNCHANGED <<helds, delivered>>
    BY <1>6 DEF Atomic!SendBytesUpdate, Atomic!MaySend, helds, sents
  <2>2. PICK requested \in Atomic!Requests(p) :
          LET r       == Atomic!update_handshake(p, requested)
              updated == Atomic!update_traffic_secrets(Atomic!after_encrypt(codecs[p]), p, r.secret_update)
          IN  /\ r.error # "WaitingForResponse"
              /\ hs' = [hs EXCEPT ![p] = r.state]
              /\ commits' = commits + r.made
              /\ IF r.error = "ok"
                 THEN /\ inboxes' = [inboxes EXCEPT ![Atomic!Peer(p)] =
                                       Append(Append(@, Atomic!encrypt(codecs[p], r.message)),
                                              Atomic!encrypt(updated, Atomic!Application(sents[p] + 1)))]
                      /\ codecs' = [codecs EXCEPT ![p] = Atomic!after_encrypt(updated)]
                      /\ sents' = [sents EXCEPT ![p] = @ + 1]
                      /\ error' = error
                 ELSE /\ error' = [error EXCEPT ![p] = r.error]
                      /\ UNCHANGED <<inboxes, codecs, sents>>
    BY <1>6 DEF Atomic!SendBytesUpdate, Atomic!NextBytes, codecs, inboxes, sents
  <2>3. requested \in Safe!Requests(p)
    BY <2>2 DEF Atomic!Requests, Safe!Requests
  <2> DEFINE r == Safe!update_handshake(p, requested)
             updated == Safe!update_traffic_secrets(Safe!after_encrypt(codecs[p]), p, r.secret_update)
  <2>4. /\ r.error # "WaitingForResponse"
        /\ hs' = [hs EXCEPT ![p] = r.state]
        /\ commits' = commits + r.made
        /\ IF r.error = "ok"
           THEN /\ inboxes' = [inboxes EXCEPT ![Safe!Peer(p)] =
                                 Append(Append(@, Safe!encrypt(codecs[p], r.message)),
                                        Safe!encrypt(updated, Safe!Application(sents[p] + 1)))]
                /\ codecs' = [codecs EXCEPT ![p] = Safe!after_encrypt(updated)]
                /\ sents' = [sents EXCEPT ![p] = @ + 1]
                /\ error' = error
           ELSE /\ error' = [error EXCEPT ![p] = r.error]
                /\ UNCHANGED <<inboxes, codecs, sents>>
    BY <1>2, <1>4, <2>2
  <2> QED
    BY <2>1, <2>3, <2>4
    DEF Safe!SendBytesUpdate, Safe!MaySend, Safe!NextBytes, codecs, inboxes, helds, sents
<1>7. ASSUME NEW p, Atomic!ReadMessage(p) PROVE Safe!ReadMessage(p)
  BY <1>4, <1>7 DEF Atomic!ReadMessage, Safe!ReadMessage
<1>8. ASSUME NEW p, Atomic!ProcessApplication(p) PROVE Safe!ProcessApplication(p)
  BY <1>8 DEF Atomic!ProcessApplication, Safe!ProcessApplication
<1>9. ASSUME NEW p, Atomic!ProcessSignaling(p) PROVE Safe!ProcessSignaling(p)
  <2> DEFINE m == Head(inboxes[p]).payload
             x == Atomic!process_signaling_message(p, m)
             y == Safe!process_signaling_message(p, m)
             used == IF x.message # Atomic!NoMessage THEN Atomic!after_encrypt(codecs[p]) ELSE codecs[p]
             used2 == IF y.message # Safe!NoMessage THEN Safe!after_encrypt(codecs[p]) ELSE codecs[p]
  <2>1. /\ error[p] = "ok" /\ helds[p] = 1 /\ m.type # "Application"
        /\ hs' = [hs EXCEPT ![p] = x.state]
        /\ commits' = commits + x.made
        /\ error' = [error EXCEPT ![p] = x.error]
        /\ helds' = [helds EXCEPT ![p] = 0]
        /\ UNCHANGED <<sents, delivered>>
    BY <1>9 DEF Atomic!ProcessSignaling, inboxes, helds, sents
  <2>2. codecs' = [codecs EXCEPT ![p] = Atomic!update_traffic_secrets(used, p, x.secret_update)]
    BY <1>9 DEF Atomic!ProcessSignaling, inboxes, codecs
  <2>3. inboxes' = [q \in Atomic!Party |->
                      IF q = p THEN Tail(inboxes[q])
                      ELSE IF x.message # Atomic!NoMessage
                           THEN Append(inboxes[q], Atomic!encrypt(codecs[p], x.message))
                           ELSE inboxes[q]]
    BY <1>9 DEF Atomic!ProcessSignaling, inboxes, codecs
  <2>4. x = y
    BY <1>3
  <2>5. used = used2
    <3> HIDE DEF x, y
    <3> QED
      BY <1>4, <2>4
  <2>6. codecs' = [codecs EXCEPT ![p] = Safe!update_traffic_secrets(used2, p, y.secret_update)]
    <3> HIDE DEF x, y, used, used2
    <3> QED
      BY <1>4, <2>2, <2>4, <2>5
  <2>7. inboxes' = [q \in Safe!Party |->
                      IF q = p THEN Tail(inboxes[q])
                      ELSE IF y.message # Safe!NoMessage
                           THEN Append(inboxes[q], Safe!encrypt(codecs[p], y.message))
                           ELSE inboxes[q]]
    <3> HIDE DEF x, y
    <3> QED
      BY <1>4, <2>3, <2>4
  <2>8. /\ hs' = [hs EXCEPT ![p] = y.state]
        /\ commits' = commits + y.made
        /\ error' = [error EXCEPT ![p] = y.error]
    BY <2>1, <2>4
  <2> QED
    BY <2>1, <2>6, <2>7, <2>8
    DEF Safe!ProcessSignaling, codecs, inboxes, helds, sents
<1>10. Atomic!Next => Safe!Next
  BY <1>4, <1>5, <1>6, <1>7, <1>8, <1>9 DEF Atomic!Next, Safe!Next
<1> QED
  BY <1>1, <1>10, PTL DEF Atomic!Spec, Safe!Spec, Atomic!vars, Safe!vars


\* The last record of a flow and those in TCP.
LEMMA Positions ==
    ASSUME NEW h \in Seq(Record), NEW t \in Seq(Record), NEW a \in Record
    PROVE  LET s == h \o t \o <<a>>
           IN  /\ s \in Seq(Record) /\ Len(s) = Len(h) + Len(t) + 1 /\ s[Len(s)] = a
               /\ \A i \in 1 .. Len(t) : s[Len(h) + i] = t[i]
<1> DEFINE u == h \o t
           s == u \o <<a>>
<1>1. Len(h) \in Nat /\ Len(t) \in Nat
  BY LenProperties
<1>2. /\ u \in Seq(Record) /\ Len(u) = Len(h) + Len(t)
      /\ \A i \in 1 .. Len(h) + Len(t) : u[i] = IF i <= Len(h) THEN h[i] ELSE t[i - Len(h)]
  BY ConcatProperties
<1> HIDE DEF u
<1>3. s = Append(u, a)
  BY <1>2, AppendIsConcat
<1> HIDE DEF s
<1>4. /\ s \in Seq(Record) /\ Len(s) = Len(u) + 1 /\ s[Len(u) + 1] = a
      /\ \A i \in 1 .. Len(u) : s[i] = u[i]
  <2>1. u \in Seq(Record)
    BY <1>2
  <2>2. /\ Append(u, a) \in Seq(Record) /\ Len(Append(u, a)) = Len(u) + 1
        /\ Append(u, a)[Len(u) + 1] = a /\ \A i \in 1 .. Len(u) : Append(u, a)[i] = u[i]
    BY <2>1, AppendRecord
  <2> QED
    BY <1>3, <2>2
<1>5. ASSUME NEW i \in 1 .. Len(t) PROVE s[Len(h) + i] = t[i]
  <2>1. /\ Len(h) + i \in 1 .. Len(h) + Len(t) /\ ~(Len(h) + i <= Len(h))
        /\ (Len(h) + i) - Len(h) = i
    BY <1>1
  <2> QED
    BY <1>2, <1>4, <2>1
<1>6. s \in Seq(Record) /\ Len(s) = Len(h) + Len(t) + 1 /\ s[Len(s)] = a
  BY <1>1, <1>2, <1>4
<1> QED
  BY <1>5, <1>6 DEF s, u

\* A party that is blocked in an answer has one record left to write, and it
\* is the last one under way.
LEMMA BlockedFlow ==
    ASSUME AsyncInv, BufferInv, NEW p \in Party, Blocked(p), op[p].bytes = 0
    PROVE  /\ Len(tcp[Peer(p)]) >= 1
           /\ \E a \in Record : /\ a.payload.type \in SignalingType
                                /\ inboxes[Peer(p)] = held[Peer(p)] \o tcp[Peer(p)] \o <<a>>
<1> DEFINE q == Peer(p)
           o == op[p]
<1>1. q \in Party /\ Peer(q) = p
  BY PeerFacts
<1>2. o.stage = "flush" /\ o.message # NoMessage
      /\ \E a \in Record : buffer[p] = <<a>> /\ a.payload = Item(o)
  BY DEF Blocked, BufferInv, OnlyFlushed
<1>3. PICK a \in Record : buffer[p] = <<a>> /\ a.payload = Item(o)
  BY <1>2
<1>4. a.payload.type \in SignalingType
  <2>1. o.message.type # "Application" /\ o.message \in InnerPlaintext
    BY <1>2, Types DEF AsyncInv, OpInv
  <2>2. a.payload = o.message
    BY <1>2, <1>3 DEF Item
  <2> QED
    BY <2>1, <2>2 DEF InnerPlaintext
<1>5. Rest(p, op[p], codec[p], sent[p]).records = << >>
  <2>1. << >> \o << >> = << >>
    BY EmptySeq, ConcatEmptySeq
  <2> QED
    BY <1>2, <2>1 DEF Rest
<1>6. inboxes[q] = Flow(q) \o Rest(p, op[p], codec[p], sent[p]).records
  BY <1>1, View, Zenon
<1> DEFINE f == Flow(q)
<1>7. f \in Seq(Record)
  BY <1>1, FlowType
<1> HIDE DEF f
<1>8. f \o << >> = f
  BY <1>7, ConcatEmptySeq
<1>9. inboxes[q] = f
  BY <1>5, <1>6, <1>8 DEF f
<1>10. f = held[q] \o tcp[q] \o <<a>>
  BY <1>1, <1>3 DEF f, Flow
<1>11. Len(tcp[q]) >= 1
  <2>1. Len(tcp[q]) \in Nat
    BY <1>1, Types, LenProperties DEF AsyncInv
  <2> QED
    BY <2>1, AsyncAssumption DEF Blocked
<1> QED
  BY <1>4, <1>9, <1>10, <1>11

\* The client is never blocked behind its own signaling messages: there is
\* one under way at a time.
LEMMA ClientBlocked ==
    ASSUME AsyncInv, BufferInv, Safe!IndInv, Blocked("client"), op["client"].bytes = 0
    PROVE  \E i \in 1 .. Len(tcp["server"]) : tcp["server"][i].payload.type = "Application"
<1> DEFINE h == held["server"]
           t == tcp["server"]
           s == inboxes["server"]
<1>1. "client" \in Party /\ "server" \in Party /\ Peer("client") = "server"
  BY DEF Party, Peer
<1>2. Len(t) >= 1 /\ \E a \in Record : a.payload.type \in SignalingType /\ s = h \o t \o <<a>>
  BY <1>1, BlockedFlow
<1>3. PICK a \in Record : a.payload.type \in SignalingType /\ s = h \o t \o <<a>>
  BY <1>2
<1>4. h \in Seq(Record) /\ t \in Seq(Record) /\ Len(h) \in Nat /\ Len(t) \in Nat
  BY <1>1, Types, LenProperties DEF AsyncInv
<1> DEFINE u == h \o t \o <<a>>
<1>5. /\ u \in Seq(Record) /\ Len(u) = Len(h) + Len(t) + 1 /\ u[Len(u)] = a
      /\ \A i \in 1 .. Len(t) : u[Len(h) + i] = t[i]
  BY <1>4, Positions
<1>6. PICK m : Safe!OnlyAt(u, SignalingType, m)
  <2>1. Safe!toServer = u
    BY <1>3 DEF Safe!toServer, inboxes
  <2>2. Safe!SignalingType = SignalingType
    BY DEF Safe!SignalingType, SignalingType
  <2>3. \E m, n : Safe!Phase(m, n)
    BY DEF Safe!IndInv
  <2> QED
    BY <2>1, <2>2, <2>3 DEF Safe!Phase
<1> HIDE DEF h, t, u
<1>7. Len(u) \in 1 .. Len(u) /\ Len(h) + 1 \in 1 .. Len(u) /\ Len(h) + 1 # Len(u)
      /\ 1 \in 1 .. Len(t)
  BY <1>2, <1>4, <1>5
<1>8. u[Len(h) + 1].payload.type \notin SignalingType
  BY <1>3, <1>5, <1>6, <1>7 DEF Safe!OnlyAt
<1>9. t[1].payload.type \notin SignalingType /\ t[1] \in Record
  BY <1>4, <1>5, <1>7, <1>8, ElementOfSeq
<1>10. t[1].payload.type = "Application"
  BY <1>9 DEF Record, InnerPlaintext
<1> QED
  BY <1>7, <1>10 DEF t

\* Nor is the server: there is one answer under way at a time, and an offer
\* has application bytes behind it.
LEMMA ServerBlocked ==
    ASSUME AsyncInv, BufferInv, Safe!IndInv, Safe!OffersLead,
           Blocked("server"), op["server"].bytes = 0
    PROVE  \E i \in 1 .. Len(tcp["client"]) : tcp["client"][i].payload.type = "Application"
<1> DEFINE h == held["client"]
           t == tcp["client"]
           s == inboxes["client"]
<1>1. "client" \in Party /\ "server" \in Party /\ Peer("server") = "client"
  BY DEF Party, Peer
<1>2. Len(t) >= 1 /\ \E a \in Record : a.payload.type \in SignalingType /\ s = h \o t \o <<a>>
  BY <1>1, BlockedFlow
<1>3. PICK a \in Record : a.payload.type \in SignalingType /\ s = h \o t \o <<a>>
  BY <1>2
<1>4. h \in Seq(Record) /\ t \in Seq(Record) /\ Len(h) \in Nat /\ Len(t) \in Nat
  BY <1>1, Types, LenProperties DEF AsyncInv
<1> DEFINE u == h \o t \o <<a>>
<1>5. /\ u \in Seq(Record) /\ Len(u) = Len(h) + Len(t) + 1 /\ u[Len(u)] = a
      /\ \A i \in 1 .. Len(t) : u[Len(h) + i] = t[i]
  BY <1>4, Positions
<1>6. Safe!toClient = u
  BY <1>3 DEF Safe!toClient, inboxes
<1>7. PICK n : Safe!OnlyAt(u, {"EpochKeyUpdate", "ConnectionConfirmation"}, n)
  <2>1. \E m, n : Safe!Phase(m, n)
    BY DEF Safe!IndInv
  <2> QED
    BY <1>6, <2>1 DEF Safe!Phase
<1>8. \A i \in 1 .. Len(u) : u[i].payload.type = "ConnectionUpdate" =>
        i + 1 \in 1 .. Len(u) /\ u[i + 1].payload.type = "Application"
  BY <1>6 DEF Safe!OffersLead, Safe!Leads
<1> HIDE DEF h, t, u
<1>9. /\ Len(u) \in 1 .. Len(u) /\ Len(h) + 1 \in 1 .. Len(u) /\ Len(h) + 1 # Len(u)
      /\ 1 \in 1 .. Len(t) /\ Len(u) + 1 \notin 1 .. Len(u)
  BY <1>2, <1>4, <1>5
<1>10. a.payload.type # "ConnectionUpdate" /\ a.payload.type # "Application"
  BY <1>3, <1>5, <1>8, <1>9 DEF SignalingType
<1>11. n = Len(u)
  BY <1>3, <1>5, <1>7, <1>9, <1>10 DEF SignalingType, Safe!OnlyAt
<1>12. t[1] \in Record /\ t[1] = u[Len(h) + 1]
  BY <1>4, <1>5, <1>9, ElementOfSeq
<1>13. t[1].payload.type \in {"Application", "ConnectionUpdate"}
  <2>1. t[1].payload.type \notin {"EpochKeyUpdate", "ConnectionConfirmation"}
    BY <1>7, <1>9, <1>11, <1>12 DEF Safe!OnlyAt
  <2> QED
    BY <1>12, <2>1 DEF Record, InnerPlaintext, SignalingType
<1>14. CASE t[1].payload.type = "Application"
  BY <1>9, <1>14 DEF t
<1>15. CASE t[1].payload.type = "ConnectionUpdate"
  <2>1. (Len(h) + 1) + 1 \in 1 .. Len(u) /\ u[(Len(h) + 1) + 1].payload.type = "Application"
    BY <1>8, <1>9, <1>12, <1>15
  <2>2. (Len(h) + 1) + 1 # Len(u)
    BY <1>5, <1>10, <2>1
  <2>3. 2 \in 1 .. Len(t) /\ (Len(h) + 1) + 1 = Len(h) + 2
    BY <1>4, <1>5, <2>1, <2>2
  <2>4. t[2].payload.type = "Application"
    BY <1>5, <2>1, <2>3
  <2> QED
    BY <2>3, <2>4 DEF t
<1> QED
  BY <1>13, <1>14, <1>15

\* Answers to signaling messages never fill the connection, whatever TCP and
\* the sink hold: a party that is blocked in process_read_message is blocked
\* behind application bytes of its own, if no future is dropped, messages are
\* processed before the next is read, and the client requests no updates.
THEOREM AnswersNeverBlock ==
    ASSUME "cancel" \notin Faults, ReadAhead = 1, ClientRequests \subseteq {FALSE}
    PROVE  Spec => []AnswersNeverFill
<1>1. Init => BufferInv
  BY NoOpFields DEF Init, BufferInv, OnlyFlushed
<1>2. Safe!Spec => []Safe!IndInv
  BY AsyncAssumption, Safe!Invariance
<1>3. Safe!Spec => []Safe!OffersLead
  BY AsyncAssumption, Safe!OffersAreLed
<1>4. AsyncInv /\ BufferInv /\ Safe!IndInv /\ Safe!OffersLead => AnswersNeverFill
  <2> SUFFICES ASSUME AsyncInv, BufferInv, Safe!IndInv, Safe!OffersLead,
                      NEW p \in Party, Blocked(p), op[p].bytes = 0
               PROVE  \E i \in 1 .. Len(tcp[Peer(p)]) :
                        tcp[Peer(p)][i].payload.type = "Application"
    BY DEF AnswersNeverFill
  <2>1. CASE p = "client"
    <3>1. Peer(p) = "server"
      BY <2>1 DEF Peer
    <3> QED
      BY <2>1, <3>1, ClientBlocked
  <2>2. CASE p = "server"
    <3>1. Peer(p) = "client"
      BY <2>2 DEF Peer
    <3> QED
      BY <2>2, <3>1, ServerBlocked
  <2> QED
    BY <2>1, <2>2 DEF Party
<1>5. AsyncInv /\ BufferInv /\ [Next]_vars => BufferInv'
  BY BufferNext
<1> QED
  BY <1>1, <1>2, <1>3, <1>4, <1>5, AsyncInvariance, OperationsAreSteps, SafeConnection, PTL
     DEF Spec, ImplementsAtomic


\* In the same connections no application is given an error, however long sends
\* are blocked and flushes are late, and whenever the two sides shut down or
\* are gone.
THEOREM NoErrorBetweenAwaits ==
    ASSUME "cancel" \notin Faults, ReadAhead = 1, ClientRequests \subseteq {FALSE}
    PROVE  Spec => [](\A p \in Party : error[p] = "ok")
<1>1. Safe!Spec => []Safe!NoError
  BY AsyncAssumption, Safe!NoApplicationError
<1>2. Safe!NoError => \A p \in Party : error[p] = "ok"
  BY DEF Safe!NoError, Safe!Party, Party
<1> QED
  BY <1>1, <1>2, OperationsAreSteps, SafeConnection, PTL DEF ImplementsAtomic

=============================================================================
