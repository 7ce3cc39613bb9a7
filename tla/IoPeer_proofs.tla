---------------------------- MODULE IoPeer_proofs ----------------------------
(***************************************************************************)
(* Two StreamingIoPeers implement a channel of messages, and leave alone   *)
(* the memory they lend to their streams, for rings and sockets of every   *)
(* size, any number of messages and any portions the socket makes of them. *)
(*                                                                         *)
(* The codec is a parameter.  What is needed of it is said in IoPeer:      *)
(* EncodeAppends and DecodeAdvances for the memory, and DecodeInverts for  *)
(* the channel.  The order of the argument: positions in a ring, parts of  *)
(* a sequence, the loop that decodes, the memory, and the flow of bytes    *)
(* from ring to ring of which every place holds its part.                  *)
(***************************************************************************)
EXTENDS IoPeer, SequenceTheorems, WellFoundedInduction, TLAPS

(***************************************************************************)
(* The invariant.                                                          *)
(***************************************************************************)
(* Some of t, from behind its first p elements on, is s. *)
At(s, t, p) ==
    /\ p \in Nat /\ p + Len(s) <= Len(t)
    /\ \A i \in 1..Len(s) : s[i] = t[p + i]

OutRings == RingsOf(OutSize, Seq(Bytes))
InRings == RingsOf(InSize, Seq(Bytes))

WriteTasks == {NoTask} \cup [length : Nat, gone : Nat]
ReadTasks == {NoTask} \cup [at : Nat, max_length : Nat]

(* The sender: a task runs on the front of the ring, a report tells how    *)
(* much of the front is written, never both; and after a failure the ring  *)
(* is never empty again, so that send() starts nothing.                    *)
Writing ==
    /\ write_task # NoTask =>
          /\ write_report = None /\ sink_write = "open"
          /\ write_task.gone < write_task.length
          /\ write_task.length <= ReadSegmentLength(out)
    /\ write_report > 0 => sink_write = "open" /\ write_report <= ReadSegmentLength(out)
    /\ write_report = Lost \/ sink_write # "open" => Len(out.bytes) > 0

SenderOK ==
    /\ out \in OutRings /\ write_task \in WriteTasks /\ write_report \in Nat \cup {Lost}
    /\ sent \in Seq(Outgoing)
    /\ Writing

(* The receiver: a task has the free memory behind the ring, or has given  *)
(* way to a report.                                                        *)
Reading ==
    /\ read_task # NoTask =>
          /\ read_report = None
          /\ read_task.at = WritePosition(in)
          /\ read_task.max_length <= WriteSegmentLength(in)
    /\ read_report > 0 /\ sink_read = "open" =>
          /\ landed.at = WritePosition(in)
          /\ Len(landed.bytes) <= WriteSegmentLength(in)

ReceiverOK ==
    /\ in \in InRings /\ read_task \in ReadTasks /\ read_report \in Nat \cup {Lost}
    /\ landed \in [at : Nat, bytes : Seq(Bytes)]
    /\ Reading

MemoryInv == asserted /\ wire \in Seq(Bytes) /\ SenderOK /\ ReceiverOK

(* The flow: all the packets of the messages ss, one behind the other;     *)
(* ends[k] is where the k-th of them ends.                                 *)
Transcript(ss, flow, ends) ==
    /\ flow \in Seq(Bytes) /\ ends \in [0..Len(ss) -> Nat]
    /\ ends[0] = 0 /\ ends[Len(ss)] = Len(flow)
    /\ \A k \in 1..Len(ss) : /\ Packet(ss[k]) \in Seq(Bytes)
                             /\ At(Packet(ss[k]), flow, ends[k - 1])
                             /\ ends[k] = ends[k - 1] + Len(Packet(ss[k]))

(* The flow from its first a bytes on is b, then l, then w; from its first *)
(* d - g bytes to its end it is o.                                         *)
Arriving(flow, a, b, l, w) ==
    At(b, flow, a) /\ At(l, flow, a + Len(b)) /\ At(w, flow, a + Len(b) + Len(l))

Departing(flow, d, o, g) == At(o, flow, d - g) /\ d - g + Len(o) = Len(flow)

(* Bytes that have landed and wait for their report to be taken. *)
Landing == IF read_report > 0 THEN landed.bytes ELSE << >>

(* Bytes at the front of the sender's ring that are on their way. *)
Gone == IF write_task # NoTask THEN write_task.gone
        ELSE IF write_report > 0 THEN write_report ELSE 0

(* Behind the packets that were received the flow goes on in the ring of   *)
(* the receiver, in the memory lent to its stream, in the socket, and in   *)
(* the ring of the sender.                                                 *)
Carried(flow, ends) ==
    sink_read = "open" =>
        LET a == ends[Len(received)] IN
        /\ Arriving(flow, a, in.bytes, Landing, wire)
        /\ write_report # Lost /\ sink_write = "open" =>
              Departing(flow, a + Len(in.bytes) + Len(Landing) + Len(wire), out.bytes, Gone)

FlowInv ==
    /\ received \in Seq(Outgoing) /\ At(received, sent, 0)
    /\ \E flow, ends : Transcript(sent, flow, ends) /\ Carried(flow, ends)

-----------------------------------------------------------------------------
(***************************************************************************)
(* Positions in a ring.                                                    *)
(***************************************************************************)
(* The remainder of a number below twice the divisor. *)
LEMMA ModOnce ==
  ASSUME NEW n \in Nat, n > 0, NEW a \in Nat, a < n + n
  PROVE  a % n = IF a < n THEN a ELSE a - n
OBVIOUS

(* The fields of a ring. *)
LEMMA RingFields ==
  ASSUME NEW size \in Nat, size > 0, NEW r \in RingsOf(size, Seq(Bytes))
  PROVE  /\ r.bytes \in Seq(Bytes) /\ Len(r.bytes) \in Nat /\ Len(r.bytes) <= size
         /\ r.size = size /\ r.read_position \in Nat /\ r.read_position < size
         /\ r.read_position \in 0..(size - 1)
<1>1. /\ r.bytes \in Seq(Bytes) /\ Len(r.bytes) <= size
      /\ r.size = size /\ r.read_position \in 0..(size - 1)
  BY DEF RingsOf
<1>2. Len(r.bytes) \in Nat
  BY <1>1, LenProperties
<1> QED
  BY <1>1, <1>2

(* Where the next byte goes. *)
LEMMA WritePositionIs ==
  ASSUME NEW size \in Nat, size > 0, NEW r \in RingsOf(size, Seq(Bytes))
  PROVE  /\ WritePosition(r) = IF r.read_position + Len(r.bytes) < size
                               THEN r.read_position + Len(r.bytes)
                               ELSE r.read_position + Len(r.bytes) - size
         /\ WritePosition(r) \in 0..(size - 1)
<1> DEFINE p == r.read_position
           n == Len(r.bytes)
<1>1. p \in Nat /\ p < size /\ n \in Nat /\ n <= size /\ r.size = size
  BY RingFields
<1>2. WritePosition(r) = (p + n) % size
  BY <1>1 DEF WritePosition
<1> DEFINE a == p + n
<1>3. a \in Nat /\ a < size + size /\ WritePosition(r) = a % size
  <2> HIDE DEF p, n
  <2> QED
    BY <1>1, <1>2
<1> HIDE DEF a
<1>4. a % size = IF a < size THEN a ELSE a - size
  BY <1>3, ModOnce
<1>5. WritePosition(r) = (IF a < size THEN a ELSE a - size) /\ WritePosition(r) \in 0..(size - 1)
  BY <1>3, <1>4
<1> QED
  BY <1>1, <1>5 DEF a

(* How much of the ring can be read, and written, in one piece. *)
LEMMA SegmentsAre ==
  ASSUME NEW size \in Nat, size > 0, NEW r \in RingsOf(size, Seq(Bytes))
  PROVE  /\ ReadSegmentLength(r) \in Nat /\ ReadSegmentLength(r) <= Len(r.bytes)
         /\ ReadSegmentLength(r) = 0 <=> Len(r.bytes) = 0
         /\ WriteSegmentLength(r) \in Nat /\ WriteSegmentLength(r) <= size - Len(r.bytes)
         /\ WriteSegmentLength(r) = 0 <=> Len(r.bytes) = size
<1> DEFINE p == r.read_position
           n == Len(r.bytes)
           w == WritePosition(r)
<1>1. p \in Nat /\ p < size /\ n \in Nat /\ n <= size /\ r.size = size
  BY RingFields
<1>2. w = IF p + n < size THEN p + n ELSE p + n - size
  BY WritePositionIs
<1>3. ReadSegmentLength(r) = IF n < size - p THEN n ELSE size - p
  BY <1>1 DEF ReadSegmentLength, Fewer
<1>4. WriteSegmentLength(r) = IF n = size THEN 0 ELSE IF p > w THEN p - w ELSE size - w
  BY <1>1 DEF WriteSegmentLength
<1> HIDE DEF p, n, w
<1>5. /\ ReadSegmentLength(r) \in Nat /\ ReadSegmentLength(r) <= n
      /\ ReadSegmentLength(r) = 0 <=> n = 0
  BY <1>1, <1>3
<1>6. /\ WriteSegmentLength(r) \in Nat /\ WriteSegmentLength(r) <= size - n
      /\ WriteSegmentLength(r) = 0 <=> n = size
  BY <1>1, <1>2, <1>4
<1> QED
  BY <1>5, <1>6 DEF n

(* More bytes behind: what could be read in one piece still can.           *)
LEMMA GrownRing ==
  ASSUME NEW size \in Nat, size > 0, NEW r \in RingsOf(size, Seq(Bytes)),
         NEW b \in Seq(Bytes), Len(r.bytes) + Len(b) <= size
  PROVE  LET g == [r EXCEPT !.bytes = @ \o b] IN
         /\ g \in RingsOf(size, Seq(Bytes)) /\ g.bytes = r.bytes \o b
         /\ Len(g.bytes) = Len(r.bytes) + Len(b)
         /\ ReadSegmentLength(r) <= ReadSegmentLength(g)
<1> DEFINE c == r.bytes \o b
           g == [r EXCEPT !.bytes = c]
           p == r.read_position
           n == Len(r.bytes)
           k == Len(b)
<1>1. p \in 0..(size - 1) /\ n \in Nat /\ r.size = size /\ r.bytes \in Seq(Bytes) /\ k \in Nat
  BY RingFields, LenProperties
<1>2. c \in Seq(Bytes) /\ Len(c) = n + k
  BY <1>1, ConcatProperties
<1>3. [r EXCEPT !.bytes = @ \o b] = g
  OBVIOUS
<1> HIDE DEF c
<1>4. g \in RingsOf(size, Seq(Bytes)) /\ g.bytes = c /\ g.size = size /\ g.read_position = p
  <2>1. Len(c) <= size /\ 0 \in 0..(size - 1)
    BY <1>2
  <2> QED
    BY <1>2, <2>1 DEF RingsOf
<1> HIDE DEF g
<1>5. ReadSegmentLength(r) = IF n < size - p THEN n ELSE size - p
  BY <1>1 DEF ReadSegmentLength, Fewer
<1>6. ReadSegmentLength(g) = IF n + k < size - p THEN n + k ELSE size - p
  BY <1>2, <1>4 DEF ReadSegmentLength, Fewer
<1> HIDE DEF p, n, k
<1>7. ReadSegmentLength(r) <= ReadSegmentLength(g)
  BY <1>1, <1>5, <1>6
<1> QED
  BY <1>2, <1>3, <1>4, <1>7 DEF c, n, k

(* Bytes taken from the front: the next byte goes where it went, and what  *)
(* could be written in one piece still can.                                *)
LEMMA AdvancedRing ==
  ASSUME NEW size \in Nat, size > 0, NEW r \in RingsOf(size, Seq(Bytes)),
         NEW n \in Nat, n <= Len(r.bytes)
  PROVE  LET g == ReadAdvance(r, n) IN
         /\ g \in RingsOf(size, Seq(Bytes)) /\ g.bytes = SubSeq(r.bytes, n + 1, Len(r.bytes))
         /\ Len(g.bytes) = Len(r.bytes) - n
         /\ WritePosition(g) = WritePosition(r)
         /\ WriteSegmentLength(r) <= WriteSegmentLength(g)
<1> DEFINE p == r.read_position
           l == Len(r.bytes)
           c == SubSeq(r.bytes, n + 1, l)
           q == (p + n) % size
           g == ReadAdvance(r, n)
<1>1. p \in 0..(size - 1) /\ l \in Nat /\ l <= size /\ r.size = size /\ r.bytes \in Seq(Bytes) /\ n <= l
  BY RingFields
<1>2. c \in Seq(Bytes) /\ Len(c) = l - n
  <2>1. n + 1 \in Int /\ l \in Int
    BY <1>1
  <2>2. \A i \in (n + 1)..l : r.bytes[i] \in Bytes
    BY <1>1, ElementOfSeq
  <2>3. c \in Seq(Bytes) /\ Len(c) = IF n + 1 <= l THEN l - (n + 1) + 1 ELSE 0
    BY <2>1, <2>2, SubSeqProperties
  <2> HIDE DEF c, l
  <2> QED
    BY <1>1, <2>3
<1>3. q = (IF p + n < size THEN p + n ELSE p + n - size) /\ q \in 0..(size - 1)
  <2> DEFINE a == p + n
  <2>1. a \in Nat /\ a < size + size /\ q = a % size
    <3> HIDE DEF p, l
    <3> QED
      BY <1>1
  <2> HIDE DEF a, q
  <2>2. a % size = IF a < size THEN a ELSE a - size
    BY <2>1, ModOnce
  <2>3. q = (IF a < size THEN a ELSE a - size) /\ q \in 0..(size - 1)
    BY <2>1, <2>2
  <2> QED
    BY <1>1, <2>3 DEF a
<1>4. g = [r EXCEPT !.bytes = c, !.read_position = q]
  BY <1>1 DEF ReadAdvance
<1> HIDE DEF c, q
<1>5. g \in RingsOf(size, Seq(Bytes)) /\ g.bytes = c /\ g.size = size /\ g.read_position = q
  <2>1. Len(c) <= size
    <3> HIDE DEF l
    <3> QED
      BY <1>1, <1>2
  <2> HIDE DEF p, l, g
  <2> QED
    BY <1>2, <1>3, <1>4, <2>1 DEF RingsOf
<1> HIDE DEF g
<1> DEFINE w == WritePosition(r)
           v == WritePosition(g)
<1>6. w = (IF p + l < size THEN p + l ELSE p + l - size)
  BY WritePositionIs
<1>7. v = (IF q + (l - n) < size THEN q + (l - n) ELSE q + (l - n) - size)
  BY <1>2, <1>5, WritePositionIs
<1>8. WriteSegmentLength(r) = IF l = size THEN 0 ELSE IF p > w THEN p - w ELSE size - w
  BY <1>1 DEF WriteSegmentLength
<1>9. WriteSegmentLength(g) = IF l - n = size THEN 0 ELSE IF q > v THEN q - v ELSE size - v
  BY <1>2, <1>5 DEF WriteSegmentLength
<1> HIDE DEF w, v, p, l
<1>10. v = w
  BY <1>1, <1>3, <1>6, <1>7
<1>11. WriteSegmentLength(r) <= WriteSegmentLength(g)
  BY <1>1, <1>3, <1>6, <1>8, <1>9, <1>10
<1> QED
  BY <1>2, <1>5, <1>10, <1>11 DEF c, g, l, v, w

-----------------------------------------------------------------------------
(***************************************************************************)
(* Parts of a longer sequence.                                             *)
(***************************************************************************)
(* Two parts, one behind the other, are a part. *)
LEMMA AtConcat ==
  ASSUME NEW S, NEW a \in Seq(S), NEW b \in Seq(S), NEW t \in Seq(S), NEW p,
         At(a, t, p), At(b, t, p + Len(a))
  PROVE  At(a \o b, t, p)
<1> DEFINE c == a \o b
           m == Len(a)
           n == Len(b)
           l == Len(t)
<1>1. m \in Nat /\ n \in Nat /\ l \in Nat
  BY LenProperties
<1>2. Len(c) = m + n /\ \A i \in 1..(m + n) : c[i] = IF i <= m THEN a[i] ELSE b[i - m]
  BY ConcatProperties
<1>3. p \in Nat /\ \A i \in 1..m : a[i] = t[p + i]
  BY DEF At
<1>4. p + m + n <= l /\ \A i \in 1..n : b[i] = t[p + m + i]
  BY DEF At
<1> HIDE DEF c, m, n, l
<1>5. ASSUME NEW i \in 1..(m + n) PROVE c[i] = t[p + i]
  <2>1. CASE i <= m
    <3>1. i \in 1..m
      BY <1>1, <2>1
    <3> QED
      BY <1>2, <1>3, <2>1, <3>1
  <2>2. CASE ~(i <= m)
    <3>1. i - m \in 1..n /\ p + m + (i - m) = p + i
      BY <1>1, <1>3, <2>2
    <3> QED
      BY <1>2, <1>4, <2>2, <3>1
  <2> QED
    BY <2>1, <2>2
<1>6. p + (m + n) <= l
  BY <1>1, <1>3, <1>4
<1> QED
  BY <1>2, <1>3, <1>5, <1>6 DEF At, c, l

(* A part of a part is a part. *)
LEMMA AtPart ==
  ASSUME NEW S, NEW s \in Seq(S), NEW t \in Seq(S), NEW p, At(s, t, p),
         NEW m \in Nat, NEW n \in Nat, m <= n, n <= Len(s)
  PROVE  /\ SubSeq(s, m + 1, n) \in Seq(S) /\ Len(SubSeq(s, m + 1, n)) = n - m
         /\ At(SubSeq(s, m + 1, n), t, p + m)
<1> DEFINE c == SubSeq(s, m + 1, n)
           k == Len(s)
           l == Len(t)
           j == m + 1
<1>1. k \in Nat /\ l \in Nat /\ n <= k /\ j \in Int /\ n \in Int
  BY LenProperties
<1>2. \A i \in j..n : s[i] \in S
  BY <1>1, ElementOfSeq
<1>3. p \in Nat /\ p + k <= l /\ \A i \in 1..k : s[i] = t[p + i]
  BY DEF At
<1>4. /\ c \in Seq(S) /\ Len(c) = IF j <= n THEN n - j + 1 ELSE 0
      /\ \A i \in 1..(n - j + 1) : c[i] = s[j + i - 1]
  <2> HIDE DEF j
  <2> QED
    BY <1>1, <1>2, SubSeqProperties DEF j
<1> HIDE DEF c, k, l
<1>5. Len(c) = n - m
  BY <1>1, <1>4
<1>6. ASSUME NEW i \in 1..(n - m) PROVE c[i] = t[p + m + i]
  <2>1. i \in 1..(n - j + 1) /\ j + i - 1 = m + i /\ m + i \in 1..k /\ p + (m + i) = p + m + i
    BY <1>1, <1>3
  <2>2. c[i] = s[m + i] /\ s[m + i] = t[p + (m + i)]
    BY <1>3, <1>4, <2>1
  <2> QED
    BY <2>1, <2>2
<1>7. p + m \in Nat /\ p + m + (n - m) <= l
  BY <1>1, <1>3
<1>8. At(c, t, p + m)
  BY <1>5, <1>6, <1>7 DEF At, l
<1> QED
  BY <1>4, <1>5, <1>8 DEF c

(* It stays one when more comes behind. *)
LEMMA AtGrown ==
  ASSUME NEW S, NEW s \in Seq(S), NEW t \in Seq(S), NEW x \in Seq(S), NEW p, At(s, t, p)
  PROVE  At(s, t \o x, p)
<1> DEFINE u == t \o x
           k == Len(s)
           l == Len(t)
           n == Len(x)
<1>1. k \in Nat /\ l \in Nat /\ n \in Nat
  BY LenProperties
<1>2. Len(u) = l + n /\ \A i \in 1..(l + n) : u[i] = IF i <= l THEN t[i] ELSE x[i - l]
  BY ConcatProperties
<1>3. p \in Nat /\ p + k <= l /\ \A i \in 1..k : s[i] = t[p + i]
  BY DEF At
<1> HIDE DEF u, k, l, n
<1>4. ASSUME NEW i \in 1..k PROVE s[i] = u[p + i]
  <2>1. p + i \in 1..(l + n) /\ p + i <= l
    BY <1>1, <1>3
  <2>2. u[p + i] = t[p + i]
    BY <1>2, <2>1
  <2> QED
    BY <1>3, <2>2
<1>5. p + k <= Len(u)
  BY <1>1, <1>2, <1>3
<1> QED
  BY <1>3, <1>4, <1>5 DEF At, u, k

(* What comes behind is a part too. *)
LEMMA AtBehind ==
  ASSUME NEW S, NEW t \in Seq(S), NEW x \in Seq(S)
  PROVE  At(x, t \o x, Len(t))
<1> DEFINE u == t \o x
           l == Len(t)
           n == Len(x)
<1>1. l \in Nat /\ n \in Nat
  BY LenProperties
<1>2. Len(u) = l + n /\ \A i \in 1..(l + n) : u[i] = IF i <= l THEN t[i] ELSE x[i - l]
  BY ConcatProperties
<1> HIDE DEF u, l, n
<1>3. ASSUME NEW i \in 1..n PROVE x[i] = u[l + i]
  <2> DEFINE j == l + i
  <2>1. j \in 1..(l + n) /\ ~(j <= l) /\ j - l = i
    BY <1>1
  <2> HIDE DEF j
  <2>2. u[j] = x[j - l]
    BY <1>2, <2>1
  <2> QED
    BY <2>1, <2>2 DEF j
<1>4. l + n <= Len(u)
  BY <1>1, <1>2
<1> QED
  BY <1>1, <1>3, <1>4 DEF At, u, l, n

(* Parts of the same length at the same place are equal. *)
LEMMA AtFront ==
  ASSUME NEW S, NEW s \in Seq(S), NEW t \in Seq(S), NEW q \in Seq(S), NEW p,
         At(s, t, p), At(q, t, p), Len(q) <= Len(s)
  PROVE  SubSeq(s, 1, Len(q)) = q
<1> DEFINE c == SubSeq(s, 1, Len(q))
           k == Len(s)
           n == Len(q)
<1>1. k \in Nat /\ n \in Nat /\ n <= k
  BY LenProperties
<1>2. \A i \in 1..k : s[i] = t[p + i]
  BY DEF At
<1>3. \A i \in 1..n : q[i] = t[p + i]
  BY DEF At
<1>4. /\ c \in Seq(S) /\ Len(c) = IF 1 <= n THEN n - 1 + 1 ELSE 0
      /\ \A i \in 1..(n - 1 + 1) : c[i] = s[1 + i - 1]
  <2>1. \A i \in 1..n : s[i] \in S
    BY <1>1, ElementOfSeq
  <2> QED
    BY <1>1, <2>1, SubSeqProperties
<1> HIDE DEF c, k, n
<1>5. Len(c) = n
  BY <1>1, <1>4
<1>6. ASSUME NEW i \in 1..n PROVE c[i] = q[i]
  <2>1. i \in 1..(n - 1 + 1) /\ 1 + i - 1 = i /\ i \in 1..k
    BY <1>1
  <2> QED
    BY <1>2, <1>3, <1>4, <2>1
<1>7. c = q
  BY <1>4, <1>5, <1>6, SeqEqual DEF n
<1> QED
  BY <1>7 DEF c

(* Nothing is a part anywhere. *)
LEMMA AtNothing ==
  ASSUME NEW S, NEW t \in Seq(S), NEW p \in Nat, p <= Len(t)
  PROVE  At(<< >>, t, p) /\ Len(<< >>) = 0
<1>1. Len(<< >>) = 0 /\ Len(t) \in Nat
  BY EmptySeq, LenProperties
<1> QED
  BY <1>1 DEF At

-----------------------------------------------------------------------------
(***************************************************************************)
(* The loop of the read sink.  It is a recursive function; that there is   *)
(* one, and what it returns, is shown by induction on the rounds.          *)
(***************************************************************************)
(* A set of numbers without a hole above 0 is the set of all. *)
LEMMA NoHole ==
  ASSUME NEW T \in SUBSET Nat, 0 \in T, \A n \in T : n + 1 \in T
  PROVE  T = Nat
<1>1. SUFFICES ASSUME Nat \ T # {} PROVE FALSE
  OBVIOUS
<1>2. IsWellFoundedOn(OpToRel(<, Nat), Nat)
  BY NatLessThanWellFounded
<1>3. PICK x \in Nat \ T : \A y \in Nat \ T : ~ (<<y, x>> \in OpToRel(<, Nat))
  BY <1>1, <1>2, WFMin
<1>4. \A y \in Nat \ T : ~ (y < x)
  BY <1>3 DEF OpToRel
<1>5. x \in Nat /\ x \notin T /\ x # 0
  BY <1>3
<1>6. x - 1 \in Nat /\ x - 1 + 1 = x /\ x - 1 < x
  BY <1>5
<1>7. x - 1 \in T
  BY <1>4, <1>6
<1> QED
  BY <1>5, <1>6, <1>7

Start(r) == [ring |-> r, messages |-> << >>, error |-> "none"]

(* f is that function, for the first n rounds. *)
IsLoop(f, r, n) == f = [i \in 0..n |-> IF i = 0 THEN Start(r) ELSE DecodeRound(f[i - 1])]

(* It begins with the ring and goes on round by round. *)
LEMMA LoopSteps ==
  ASSUME NEW n \in Nat, NEW r, NEW f, IsLoop(f, r, n)
  PROVE  f[0] = Start(r) /\ \A i \in 1..n : f[i] = DecodeRound(f[i - 1])
<1>1. 0 \in 0..n
  OBVIOUS
<1>2. f[0] = Start(r)
  BY <1>1 DEF IsLoop
<1>3. ASSUME NEW i \in 1..n PROVE f[i] = DecodeRound(f[i - 1])
  <2>1. i \in 0..n /\ i # 0
    OBVIOUS
  <2> QED
    BY <2>1 DEF IsLoop
<1> QED
  BY <1>2, <1>3

(* It exists. *)
LEMMA LoopExists ==
  ASSUME NEW n \in Nat, NEW r
  PROVE  \E f : IsLoop(f, r, n)
<1> DEFINE T == {m \in Nat : \E f : IsLoop(f, r, m)}
<1>1. 0 \in T
  <2> DEFINE f == [i \in 0..0 |-> Start(r)]
  <2>1. \A i \in 0..0 : i = 0
    OBVIOUS
  <2>2. IsLoop(f, r, 0)
    BY <2>1 DEF IsLoop
  <2> HIDE DEF f
  <2> QED
    BY <2>2
<1>2. ASSUME NEW m \in T PROVE m + 1 \in T
  <2>1. PICK f : IsLoop(f, r, m)
    OBVIOUS
  <2>2. m \in Nat /\ m + 1 \in Nat /\ m + 1 - 1 = m
    OBVIOUS
  <2>3. f[0] = Start(r) /\ \A i \in 1..m : f[i] = DecodeRound(f[i - 1])
    BY <2>1, <2>2, LoopSteps
  <2> DEFINE z == DecodeRound(f[m])
             h == [i \in 0..(m + 1) |-> IF i = m + 1 THEN z ELSE f[i]]
  <2> HIDE DEF z
  <2>4. h[m + 1] = z /\ \A i \in 0..m : h[i] = f[i]
    BY <2>2
  <2>5. h = [i \in 0..(m + 1) |-> h[i]]
    OBVIOUS
  <2> HIDE DEF h
  <2>6. ASSUME NEW i \in 0..(m + 1)
        PROVE  h[i] = IF i = 0 THEN Start(r) ELSE DecodeRound(h[i - 1])
    <3>1. CASE i = 0
      <4>1. 0 \in 0..m
        BY <2>2
      <4> QED
        BY <2>3, <2>4, <3>1, <4>1
    <3>2. CASE i = m + 1
      <4>1. i # 0 /\ i - 1 = m /\ m \in 0..m
        BY <2>2, <3>2
      <4>2. h[i - 1] = f[m]
        BY <2>4, <4>1
      <4> QED
        BY <2>4, <3>2, <4>1, <4>2 DEF z
    <3>3. CASE i # 0 /\ i # m + 1
      <4>1. i \in 0..m /\ i - 1 \in 0..m /\ i \in 1..m
        BY <2>2, <3>3
      <4>2. f[i] = DecodeRound(f[i - 1])
        BY <2>3, <4>1
      <4>3. h[i] = f[i] /\ h[i - 1] = f[i - 1]
        BY <2>4, <4>1
      <4> QED
        BY <3>3, <4>2, <4>3
    <3> QED
      BY <3>1, <3>2, <3>3
  <2>7. IsLoop(h, r, m + 1)
    BY <2>5, <2>6 DEF IsLoop
  <2> QED
    BY <2>2, <2>7
<1>3. T \in SUBSET Nat
  OBVIOUS
<1> HIDE DEF T
<1>4. n \in T
  BY <1>1, <1>2, <1>3, NoHole
<1> QED
  BY <1>4 DEF T

(* The loop is one. *)
LEMMA LoopIs ==
  ASSUME NEW r, Len(r.bytes) \in Nat
  PROVE  \E f : IsLoop(f, r, Len(r.bytes) + 1) /\ DecodeAll(r) = f[Len(r.bytes) + 1]
<1> DEFINE n == Len(r.bytes) + 1
           f == CHOOSE f : f = [i \in 0..n |-> IF i = 0 THEN Start(r) ELSE DecodeRound(f[i - 1])]
<1>1. n \in Nat
  OBVIOUS
<1>2. DecodeAll(r) = f[n]
  BY Zenon DEF DecodeAll, Start
<1> HIDE DEF n
<1>3. IsLoop(f, r, n)
  <2>1. PICK h : IsLoop(h, r, n)
    BY <1>1, LoopExists
  <2> QED
    BY <2>1, Zenon DEF IsLoop
<1> HIDE DEF f
<1> QED
  BY <1>2, <1>3 DEF n

(* What holds at the start and is kept by every round holds at the end. *)
LEMMA LoopKeeps ==
  ASSUME NEW r, Len(r.bytes) \in Nat, NEW G, Start(r) \in G, \A x \in G : DecodeRound(x) \in G
  PROVE  DecodeAll(r) \in G
<1> DEFINE n == Len(r.bytes) + 1
<1>1. n \in Nat
  OBVIOUS
<1>2. PICK f : IsLoop(f, r, n) /\ DecodeAll(r) = f[n]
  BY LoopIs
<1> HIDE DEF n
<1>3. IsLoop(f, r, n)
  BY <1>2
<1>4. f[0] = Start(r) /\ \A i \in 1..n : f[i] = DecodeRound(f[i - 1])
  BY <1>1, <1>3, LoopSteps
<1> DEFINE T == {m \in Nat : m <= n => f[m] \in G}
<1>5. 0 \in T
  BY <1>4
<1>6. ASSUME NEW m \in T PROVE m + 1 \in T
  <2>1. m \in Nat /\ m + 1 \in Nat /\ m + 1 - 1 = m /\ (m + 1 <= n => m <= n /\ m + 1 \in 1..n)
    BY <1>1
  <2>2. ASSUME m + 1 <= n PROVE f[m + 1] \in G
    <3>1. f[m] \in G /\ f[m + 1] = DecodeRound(f[m])
      BY <1>4, <2>1, <2>2
    <3> QED
      BY <3>1
  <2> QED
    BY <2>1, <2>2
<1>7. T \in SUBSET Nat
  OBVIOUS
<1>8. n \in T
  <2> HIDE DEF T
  <2> QED
    BY <1>1, <1>5, <1>6, <1>7, NoHole
<1>9. n <= n
  BY <1>1
<1> QED
  BY <1>2, <1>8, <1>9

(* The states of the loop. *)
Decoded == {decode(r).msg : r \in InRings}
Errors == {"none"} \cup {decode(r).error : r \in InRings}
LoopStates == [ring : InRings, messages : Seq(Decoded), error : Errors]

(* A round changes nothing but the error, or takes one message and a part  *)
(* of the ring.                                                            *)
LEMMA RoundIs ==
  ASSUME DecodeAdvances(Seq(Bytes)), NEW x \in LoopStates
  PROVE  LET y == DecodeRound(x)
             d == decode(x.ring)
             n == Len(x.ring.bytes) - Len(d.buffer.bytes)
         IN /\ y \in LoopStates
            /\ \/ y.ring = x.ring /\ y.messages = x.messages /\ y.error # "none"
               \/ /\ d.error = "none" /\ n \in Nat /\ n > 0 /\ n <= Len(x.ring.bytes)
                  /\ y.ring = ReadAdvance(x.ring, n)
                  /\ y.messages = Append(x.messages, d.msg)
<1> DEFINE y == DecodeRound(x)
           d == decode(x.ring)
           n == Len(x.ring.bytes) - Len(d.buffer.bytes)
<1>1. x.ring \in InRings /\ x.messages \in Seq(Decoded) /\ x.error \in Errors
  BY DEF LoopStates
<1>2. d.msg \in Decoded /\ d.error \in Errors
  BY <1>1 DEF Decoded, Errors
<1>3. CASE x.error # "none"
  <2>1. y = x
    BY <1>3 DEF DecodeRound
  <2> QED
    BY <1>3, <2>1
<1>4. CASE x.error = "none" /\ d.error # "none"
  <2>1. y = [x EXCEPT !.error = d.error]
    BY <1>4 DEF DecodeRound
  <2> HIDE DEF y, d
  <2>2. /\ y \in LoopStates /\ y.ring = x.ring /\ y.messages = x.messages
        /\ y.error = d.error
    BY <1>1, <1>2, <2>1 DEF LoopStates
  <2> QED
    BY <1>4, <2>2 DEF y, d
<1>5. CASE x.error = "none" /\ d.error = "none"
  <2> DEFINE g == ReadAdvance(x.ring, n)
             ms == Append(x.messages, d.msg)
  <2>1. y = [x EXCEPT !.ring = g, !.messages = ms]
    BY <1>5 DEF DecodeRound
  <2>2. InSize \in Nat /\ InSize > 0
    BY PeerAssumption
  <2>3. Len(x.ring.bytes) \in Nat
    BY <1>1, <2>2, RingFields DEF InRings
  <2>4. Len(d.buffer.bytes) \in 0..(Len(x.ring.bytes) - 1)
    BY <1>1, <1>5 DEF DecodeAdvances, InRings
  <2>5. n \in Nat /\ n > 0 /\ n <= Len(x.ring.bytes)
    <3> DEFINE u == Len(x.ring.bytes)
               v == Len(d.buffer.bytes)
    <3>1. u \in Nat /\ v \in 0..(u - 1) /\ n = u - v
      BY <2>3, <2>4
    <3> HIDE DEF u, v, n
    <3>2. n \in Nat /\ n > 0 /\ n <= u
      BY <3>1
    <3> QED
      BY <3>2 DEF u
  <2> HIDE DEF n
  <2>6. g \in InRings
    BY <1>1, <2>2, <2>5, AdvancedRing DEF InRings
  <2>7. ms \in Seq(Decoded)
    BY <1>1, <1>2, AppendProperties
  <2> HIDE DEF y, g, ms, d
  <2>8. y \in LoopStates /\ y.ring = g /\ y.messages = ms
    BY <1>1, <2>1, <2>6, <2>7 DEF LoopStates
  <2> QED
    BY <1>5, <2>5, <2>8 DEF y, g, ms, d, n
<1> QED
  BY <1>3, <1>4, <1>5

(* The loop of the read sink ends, because something is missing or wrong:  *)
(* every other round takes at least a byte out of the ring, so that        *)
(* DecodeAll, which goes through as many rounds as there are bytes and one *)
(* more, is the whole of while(true).                                      *)
THEOREM DecodeLoopEnds ==
  ASSUME DecodeAdvances(Seq(Bytes)), NEW r \in InRings
  PROVE  DecodeAll(r).error # "none"
<1> DEFINE l == Len(r.bytes)
           n == l + 1
<1>1. InSize \in Nat /\ InSize > 0
  BY PeerAssumption
<1>2. l \in Nat
  BY <1>1, RingFields DEF InRings
<1>3. PICK f : IsLoop(f, r, n) /\ DecodeAll(r) = f[n]
  BY <1>2, LoopIs
<1> HIDE DEF l
<1>4. n \in Nat
  BY <1>2
<1> HIDE DEF n
<1>5. f[0] = Start(r) /\ \A i \in 1..n : f[i] = DecodeRound(f[i - 1])
  BY <1>3, <1>4, LoopSteps
<1> DEFINE good(m) == /\ f[m] \in LoopStates
                      /\ f[m].error # "none" \/ Len(f[m].ring.bytes) + m <= l
           T == {m \in Nat : m <= n => good(m)}
<1>6. 0 \in T
  <2>1. << >> \in Seq(Decoded) /\ "none" \in Errors
    BY EmptySeq DEF Errors
  <2>2. f[0] \in LoopStates /\ f[0].ring = r
    BY <1>5, <2>1 DEF Start, LoopStates
  <2>3. Len(f[0].ring.bytes) + 0 <= l
    BY <1>2, <2>2 DEF l
  <2> QED
    BY <2>2, <2>3
<1>7. ASSUME NEW m \in T PROVE m + 1 \in T
  <2>1. m \in Nat /\ m + 1 \in Nat /\ m + 1 - 1 = m /\ (m + 1 <= n => m <= n /\ m + 1 \in 1..n)
    BY <1>4
  <2>2. ASSUME m + 1 <= n PROVE good(m + 1)
    <3> DEFINE x == f[m]
               y == f[m + 1]
    <3>1. good(m) /\ y = DecodeRound(x)
      BY <1>5, <2>1, <2>2
    <3>2. x \in LoopStates
      BY <3>1
    <3>3. /\ y \in LoopStates
          /\ \/ y.error # "none"
             \/ \E k \in Nat : k > 0 /\ k <= Len(x.ring.bytes) /\ y.ring = ReadAdvance(x.ring, k)
      <4> HIDE DEF x, y
      <4> QED
        BY <3>1, <3>2, RoundIs
    <3>4. y = x \/ x.error = "none"
      <4> HIDE DEF x, y
      <4> QED
        BY <3>1 DEF DecodeRound
    <3>5. CASE y.error # "none"
      BY <3>3, <3>5
    <3>6. CASE y.error = "none"
      <4>1. x.error = "none"
        BY <3>4, <3>6
      <4>2. Len(x.ring.bytes) + m <= l
        BY <3>1, <4>1
      <4>3. PICK k \in Nat : k > 0 /\ k <= Len(x.ring.bytes) /\ y.ring = ReadAdvance(x.ring, k)
        BY <3>3, <3>6
      <4>4. x.ring \in InRings
        BY <3>2 DEF LoopStates
      <4> HIDE DEF x, y
      <4> DEFINE u == Len(x.ring.bytes)
                 v == Len(y.ring.bytes)
      <4>5. v = u - k /\ u \in Nat
        BY <1>1, <4>3, <4>4, RingFields, AdvancedRing DEF InRings
      <4>6. u + m <= l
        BY <4>2
      <4> HIDE DEF u, v
      <4>7. v + (m + 1) <= l
        BY <1>2, <2>1, <4>3, <4>5, <4>6
      <4> QED
        BY <3>3, <4>7 DEF v, y
    <3> QED
      BY <3>5, <3>6
  <2> QED
    BY <2>1, <2>2
<1>8. n \in T
  <2>1. T \in SUBSET Nat
    OBVIOUS
  <2> HIDE DEF T
  <2> QED
    BY <1>4, <1>6, <1>7, <2>1, NoHole
<1>9. good(n)
  <2>1. n <= n
    BY <1>4
  <2> QED
    BY <1>8, <2>1
<1> DEFINE x == f[n]
           u == Len(x.ring.bytes)
<1>10. u \in Nat
  <2>1. x.ring \in InRings
    BY <1>9 DEF LoopStates
  <2> QED
    BY <1>1, <2>1, RingFields DEF InRings
<1>11. x.error # "none" \/ u + n <= l
  BY <1>9
<1> HIDE DEF x, u
<1>12. n = l + 1
  BY DEF n
<1>13. ~(u + n <= l)
  BY <1>2, <1>10, <1>12
<1> QED
  BY <1>3, <1>11, <1>13 DEF x

-----------------------------------------------------------------------------
(***************************************************************************)
(* The memory that is lent to the streams.                                 *)
(***************************************************************************)
(* Both rings have room for something. *)
LEMMA Sizes == OutSize \in Nat /\ OutSize > 0 /\ InSize \in Nat /\ InSize > 0
BY PeerAssumption

(* An empty ring. *)
LEMMA EmptyRing ==
  ASSUME NEW size \in Nat, size > 0
  PROVE  /\ Ring(size) \in RingsOf(size, Seq(Bytes))
         /\ Ring(size).bytes = << >> /\ Len(Ring(size).bytes) = 0
         /\ WritePosition(Ring(size)) = 0 /\ WriteSegmentLength(Ring(size)) = size
<1>1. << >> \in Seq(Bytes) /\ Len(<< >>) = 0
  BY EmptySeq
<1>2. 0 \in 0..(size - 1)
  OBVIOUS
<1> DEFINE r == Ring(size)
<1>3. r \in RingsOf(size, Seq(Bytes)) /\ r.bytes = << >> /\ r.size = size /\ r.read_position = 0
  BY <1>1, <1>2 DEF RingsOf, Ring
<1> HIDE DEF r
<1>4. WritePosition(r) = IF 0 + 0 < size THEN 0 + 0 ELSE 0 + 0 - size
  BY <1>1, <1>3, WritePositionIs
<1>5. WritePosition(r) = 0
  BY <1>4
<1>6. WriteSegmentLength(r) = size
  BY <1>1, <1>3, <1>5 DEF WriteSegmentLength
<1> QED
  BY <1>1, <1>3, <1>5, <1>6 DEF r

(* At the start. *)
LEMMA InitMemory == Init => MemoryInv
<1> SUFFICES ASSUME Init PROVE MemoryInv
  OBVIOUS
<1>1. << >> \in Seq(Bytes) /\ << >> \in Seq(Outgoing)
  BY EmptySeq
<1>2. SenderOK
  <2>1. out \in OutRings
    BY Sizes, EmptyRing DEF Init, OutRings
  <2>2. write_task = NoTask /\ write_report = 0 /\ sink_write = "open" /\ sent = << >>
    BY DEF Init, None
  <2> QED
    BY <1>1, <2>1, <2>2 DEF SenderOK, Writing, WriteTasks, Lost
<1>3. ReceiverOK
  <2>1. in \in InRings /\ WritePosition(in) = 0 /\ WriteSegmentLength(in) = InSize
    BY Sizes, EmptyRing DEF Init, InRings
  <2>2. read_task = [at |-> 0, max_length |-> InSize] /\ read_report = 0
        /\ landed = [at |-> 0, bytes |-> << >>]
    BY DEF Init, None
  <2>3. read_task \in ReadTasks /\ read_task.at = 0 /\ read_task.max_length = InSize
    BY <2>2, Sizes DEF ReadTasks
  <2> QED
    BY <1>1, <2>1, <2>2, <2>3, Sizes DEF ReceiverOK, Reading, None
<1> QED
  BY <1>1, <1>2, <1>3 DEF Init, MemoryInv

(* Each peer depends on its own variables only. *)
LEMMA SameSender == SenderOK /\ UNCHANGED sender => SenderOK'
BY DEF SenderOK, Writing, sender, OutRings, WriteTasks, RingsOf, ReadSegmentLength, Fewer, NoTask, None, Lost

(* The same for the receiver. *)
LEMMA SameReceiver == ReceiverOK /\ UNCHANGED receiver => ReceiverOK'
BY DEF ReceiverOK, Reading, receiver, InRings, ReadTasks, RingsOf, WritePosition,
       WriteSegmentLength, NoTask, None, Lost

(* A write that is started when the ring holds something and none runs. *)
LEMMA StartsWrite ==
  ASSUME asserted, write_task = NoTask, NEW r \in OutRings, Len(r.bytes) > 0, WriteFront(r)
  PROVE  /\ asserted' /\ write_task' \in WriteTasks
         /\ write_task'.gone = 0 /\ write_task'.length = ReadSegmentLength(r)
         /\ write_task'.gone < write_task'.length
<1> DEFINE n == ReadSegmentLength(r)
<1>1. n \in Nat /\ n > 0
  <2>1. Len(r.bytes) \in Nat
    BY Sizes, RingFields DEF OutRings
  <2>2. n \in Nat /\ (n = 0 <=> Len(r.bytes) = 0)
    BY Sizes, SegmentsAre DEF OutRings
  <2> QED
    BY <2>1, <2>2
<1>2. write_task' = [length |-> n, gone |-> 0] /\ asserted' = (asserted /\ write_task = NoTask /\ n > 0)
  BY DEF WriteFront
<1> HIDE DEF n
<1>3. write_task' \in WriteTasks /\ write_task'.gone = 0 /\ write_task'.length = n
  BY <1>1, <1>2 DEF WriteTasks
<1> QED
  BY <1>1, <1>2, <1>3 DEF n

(* What a step of the sender leaves of its task. *)
LEMMA TaskFields ==
  ASSUME SenderOK, write_task # NoTask
  PROVE  /\ write_task.length \in Nat /\ write_task.gone \in Nat
         /\ write_task \in [length : Nat, gone : Nat]
         /\ write_report = 0 /\ sink_write = "open" /\ write_task.gone < write_task.length
         /\ write_task.length <= ReadSegmentLength(out)
         /\ ReadSegmentLength(out) \in Nat /\ ReadSegmentLength(out) <= Len(out.bytes)
         /\ Len(out.bytes) \in Nat
<1>1. write_task \in [length : Nat, gone : Nat]
  BY DEF SenderOK, WriteTasks
<1>2. out \in OutRings
  BY DEF SenderOK
<1>3. ReadSegmentLength(out) \in Nat /\ ReadSegmentLength(out) <= Len(out.bytes)
  BY <1>2, Sizes, SegmentsAre DEF OutRings
<1>4. Len(out.bytes) \in Nat
  BY <1>2, Sizes, RingFields DEF OutRings
<1> QED
  BY <1>1, <1>3, <1>4 DEF SenderOK, Writing, None

(* What encode does to the sender's ring. *)
LEMMA EncodedRing ==
  ASSUME EncodeAppends(Seq(Bytes)), out \in OutRings, NEW m \in Outgoing,
         encode(m, out).error = "none"
  PROVE  LET r == encode(m, out).buffer IN
         /\ Packet(m) \in Seq(Bytes) /\ Len(Packet(m)) \in Nat /\ Len(Packet(m)) > 0
         /\ r \in OutRings /\ r.bytes = out.bytes \o Packet(m)
         /\ Len(r.bytes) = Len(out.bytes) + Len(Packet(m))
         /\ Len(out.bytes) \in Nat /\ Len(r.bytes) \in Nat
         /\ ReadSegmentLength(out) <= ReadSegmentLength(r)
<1> DEFINE p == Packet(m)
           r == encode(m, out).buffer
<1>1. /\ p \in Seq(Bytes) /\ p # << >>
      /\ Len(out.bytes) + Len(p) <= OutSize
      /\ r = [out EXCEPT !.bytes = @ \o p]
  BY DEF EncodeAppends, OutRings
<1> HIDE DEF p, r
<1>2. Len(p) \in Nat /\ Len(p) > 0
  BY <1>1, EmptySeq
<1>3. /\ r \in OutRings /\ r.bytes = out.bytes \o p
      /\ Len(r.bytes) = Len(out.bytes) + Len(p)
      /\ ReadSegmentLength(out) <= ReadSegmentLength(r)
  BY <1>1, Sizes, GrownRing DEF OutRings
<1>4. Len(out.bytes) \in Nat /\ Len(r.bytes) \in Nat
  BY <1>3, Sizes, RingFields DEF OutRings
<1> QED
  BY <1>1, <1>2, <1>3, <1>4 DEF p, r

(* send() *)
LEMMA SendMemory ==
  ASSUME EncodeAppends(Seq(Bytes)), MemoryInv, NEW m \in Outgoing, Send(m)
  PROVE  MemoryInv' /\ Gone' = Gone
<1> DEFINE r == encode(m, out).buffer
           z == ReadSegmentLength(out)
<1>1. SenderOK /\ ReceiverOK /\ asserted /\ wire \in Seq(Bytes) /\ out \in OutRings
  BY DEF MemoryInv, SenderOK
<1>2. /\ encode(m, out).error = "none" /\ out' = r /\ sent' = Append(sent, m)
      /\ z = 0 => WriteFront(r)
      /\ z # 0 => UNCHANGED <<write_task, asserted>>
      /\ UNCHANGED receiver /\ UNCHANGED <<write_report, sink_write, wire>>
  BY DEF Send
<1>3. /\ r \in OutRings /\ Len(r.bytes) > 0 /\ z <= ReadSegmentLength(r)
  <2>1. /\ r \in OutRings /\ Len(r.bytes) = Len(out.bytes) + Len(Packet(m))
        /\ Len(Packet(m)) \in Nat /\ Len(Packet(m)) > 0 /\ Len(out.bytes) \in Nat
        /\ z <= ReadSegmentLength(r)
    BY <1>1, <1>2, EncodedRing
  <2> QED
    BY <2>1
<1>4. z \in Nat /\ (z = 0 <=> Len(out.bytes) = 0) /\ ReadSegmentLength(r) \in Nat
  BY <1>1, <1>3, Sizes, SegmentsAre DEF OutRings
<1>5. sent' \in Seq(Outgoing)
  BY <1>1, <1>2, AppendProperties DEF SenderOK
<1>6. ReceiverOK'
  BY <1>1, <1>2, SameReceiver
<1> HIDE DEF r, z
<1>7. CASE z = 0
  <2>1. write_task = NoTask
    <3> SUFFICES ASSUME write_task # NoTask PROVE FALSE
      OBVIOUS
    <3>1. /\ write_task.length \in Nat /\ write_task.gone \in Nat
          /\ write_task.gone < write_task.length /\ write_task.length <= z
      BY <1>1, TaskFields DEF z
    <3> QED
      BY <1>7, <3>1
  <2>2. /\ asserted' /\ write_task' \in WriteTasks /\ write_task'.gone < write_task'.length
        /\ write_task'.length = ReadSegmentLength(r) /\ write_task'.gone = 0
    BY <1>1, <1>2, <1>3, <1>7, <2>1, StartsWrite
  <2>3. write_report = 0 /\ sink_write = "open"
    <3>1. write_report \in Nat \cup {Lost} /\ Len(out.bytes) = 0
      BY <1>1, <1>4, <1>7 DEF SenderOK
    <3>2. write_report > 0 => write_report <= z
      BY <1>1 DEF SenderOK, Writing, z
    <3>3. ~(write_report = Lost \/ sink_write # "open")
      BY <1>1, <3>1 DEF SenderOK, Writing
    <3> QED
      BY <1>7, <3>1, <3>2, <3>3 DEF Lost
  <2>4. SenderOK'
    BY <1>2, <1>3, <1>4, <1>5, <2>2, <2>3 DEF SenderOK, Writing, None, Lost, OutRings
  <2>5. Gone' = Gone
    BY <1>2, <2>1, <2>2, <2>3 DEF Gone
  <2> QED
    BY <1>1, <1>2, <1>6, <2>2, <2>4, <2>5 DEF MemoryInv
<1>8. CASE z # 0
  <2>1. UNCHANGED <<write_task, asserted, write_report, sink_write, wire>>
    BY <1>2, <1>8
  <2>2. write_task # NoTask =>
          /\ write_report = None /\ sink_write = "open"
          /\ write_task.gone < write_task.length
          /\ write_task.length \in Nat /\ write_task.length <= z
    BY <1>1, TaskFields DEF z, None
  <2>3. write_report > 0 => sink_write = "open" /\ write_report <= z
    BY <1>1 DEF SenderOK, Writing, z
  <2>4. write_task # NoTask => write_task.length <= ReadSegmentLength(r)
    BY <1>3, <1>4, <2>2
  <2>5. write_report > 0 => write_report <= ReadSegmentLength(r)
    <3>1. write_report \in Int
      BY <1>1 DEF SenderOK, Lost
    <3> QED
      BY <1>3, <1>4, <2>3, <3>1
  <2>6. write_task \in WriteTasks /\ write_report \in Nat \cup {Lost}
    BY <1>1 DEF SenderOK
  <2>7. SenderOK'
    BY <1>2, <1>3, <1>5, <2>1, <2>2, <2>3, <2>4, <2>5, <2>6 DEF SenderOK, Writing, OutRings
  <2>8. Gone' = Gone
    BY <2>1 DEF Gone
  <2> QED
    BY <1>1, <1>6, <2>1, <2>7, <2>8 DEF MemoryInv
<1> QED
  BY <1>7, <1>8

(* The sink of writeDone. *)
LEMMA WriteSinkMemory ==
  ASSUME MemoryInv, WriteSink
  PROVE  /\ MemoryInv' /\ out' = ReadAdvance(out, write_report)
         /\ write_report \in Nat /\ write_report > 0 /\ write_report <= Len(out.bytes)
         /\ write_task = NoTask
         /\ write_task' # NoTask => write_task'.gone = 0
<1> DEFINE n == write_report
           r == ReadAdvance(out, n)
           l == Len(out.bytes)
<1>1. SenderOK /\ ReceiverOK /\ asserted /\ wire \in Seq(Bytes) /\ out \in OutRings
  BY DEF MemoryInv, SenderOK
<1>2. /\ sink_write = "open" /\ n > 0 /\ out' = r /\ write_report' = 0
      /\ l > n => WriteFront(r)
      /\ ~(l > n) => UNCHANGED <<write_task, asserted>>
      /\ UNCHANGED receiver /\ UNCHANGED <<sink_write, sent, wire>>
  BY DEF WriteSink, None
<1>3. n \in Nat /\ l \in Nat /\ n <= l
  <2>1. n \in Nat
    BY <1>1, <1>2 DEF SenderOK, Lost
  <2>2. /\ ReadSegmentLength(out) \in Nat /\ ReadSegmentLength(out) <= l
        /\ n <= ReadSegmentLength(out) /\ l \in Nat
    BY <1>1, <1>2, Sizes, SegmentsAre, RingFields DEF OutRings, SenderOK, Writing
  <2> HIDE DEF n, l
  <2> QED
    BY <2>1, <2>2
<1>4. r \in OutRings /\ Len(r.bytes) = l - n
  BY <1>1, <1>3, Sizes, AdvancedRing DEF OutRings
<1>5. write_task = NoTask
  BY <1>1, <1>2, TaskFields
<1>6. ReceiverOK'
  BY <1>1, <1>2, SameReceiver
<1>7. sent' \in Seq(Outgoing)
  BY <1>1, <1>2 DEF SenderOK
<1> HIDE DEF r, l
<1>8. CASE l > n
  <2>1. Len(r.bytes) > 0
    BY <1>3, <1>4, <1>8
  <2>2. /\ asserted' /\ write_task' \in WriteTasks /\ write_task'.gone < write_task'.length
        /\ write_task'.length = ReadSegmentLength(r) /\ write_task'.gone = 0
    BY <1>1, <1>2, <1>4, <1>5, <1>8, <2>1, StartsWrite
  <2>3. ReadSegmentLength(r) \in Nat
    BY <1>4, Sizes, SegmentsAre DEF OutRings
  <2>4. SenderOK'
    BY <1>2, <1>4, <1>7, <2>2, <2>3 DEF SenderOK, Writing, None, Lost, OutRings
  <2> QED
    BY <1>1, <1>2, <1>3, <1>5, <1>6, <2>2, <2>4 DEF MemoryInv, r, l
<1>9. CASE ~(l > n)
  <2>1. UNCHANGED <<write_task, asserted>>
    BY <1>2, <1>9
  <2>2. SenderOK'
    BY <1>2, <1>4, <1>5, <1>7, <2>1 DEF SenderOK, Writing, None, Lost, OutRings, WriteTasks
  <2> QED
    BY <1>1, <1>2, <1>3, <1>5, <1>6, <2>1, <2>2 DEF MemoryInv, r, l
<1> QED
  BY <1>8, <1>9

(* It fails. *)
LEMMA WriteSinkFailsMemory ==
  ASSUME MemoryInv, WriteSinkFails
  PROVE  MemoryInv'
<1>1. SenderOK /\ ReceiverOK /\ asserted /\ wire \in Seq(Bytes)
  BY DEF MemoryInv
<1>2. /\ sink_write' = "dead" /\ write_report' = 0 /\ write_report = Lost
      /\ UNCHANGED receiver /\ UNCHANGED <<out, write_task, sent, wire, asserted>>
  BY DEF WriteSinkFails, None
<1>3. ReceiverOK'
  BY <1>1, <1>2, SameReceiver
<1>4. write_task = NoTask
  BY <1>1, <1>2, TaskFields DEF Lost
<1>5. SenderOK'
  BY <1>1, <1>2, <1>4 DEF SenderOK, Writing, None, Lost, OutRings
<1> QED
  BY <1>1, <1>2, <1>3, <1>5 DEF MemoryInv

(* The stream writes. *)
LEMMA WriteStepMemory ==
  ASSUME MemoryInv, WriteStep
  PROVE  /\ MemoryInv'
         /\ \E n \in Nat : /\ n > 0 /\ write_task.gone + n <= Len(out.bytes)
                           /\ wire' = wire \o SubSeq(out.bytes, write_task.gone + 1, write_task.gone + n)
                           /\ Gone' = write_task.gone + n
                           /\ write_report' # Lost
<1>1. SenderOK /\ ReceiverOK /\ asserted /\ wire \in Seq(Bytes) /\ out \in OutRings
  BY DEF MemoryInv, SenderOK
<1>2. write_task # NoTask /\ UNCHANGED receiver /\ UNCHANGED <<out, sink_write, sent, asserted>>
  BY DEF WriteStep
<1> DEFINE L == write_task.length
           G == write_task.gone
<1>3. PICK n \in 1..Fewer(L - G, Socket - Len(wire)) :
          /\ wire' = wire \o SubSeq(out.bytes, G + 1, G + n)
          /\ G + n = L => write_task' = NoTask /\ write_report' = L
          /\ G + n # L => write_task' = [write_task EXCEPT !.gone = G + n] /\ UNCHANGED write_report
  BY DEF WriteStep
<1> DEFINE l == Len(out.bytes)
           z == ReadSegmentLength(out)
<1>4. /\ L \in Nat /\ G \in Nat /\ G < L /\ L <= z /\ z \in Nat /\ z <= l /\ l \in Nat
      /\ write_task \in [length : Nat, gone : Nat]
      /\ write_report = 0 /\ sink_write = "open"
  BY <1>1, <1>2, TaskFields
<1>5. n \in Nat /\ n > 0 /\ G + n <= L /\ G + n <= l
  <2>1. Len(wire) \in Nat /\ Socket \in Nat
    BY <1>1, LenProperties, PeerAssumption
  <2> DEFINE w == Len(wire)
             k == Fewer(L - G, Socket - w)
  <2>2. k = IF L - G < Socket - w THEN L - G ELSE Socket - w
    BY DEF Fewer
  <2>3. n \in 1..k
    OBVIOUS
  <2> HIDE DEF k, w, L, G, l, z
  <2>4. k \in Int /\ k <= L - G
    BY <1>4, <2>1, <2>2 DEF w
  <2> QED
    BY <1>4, <2>3, <2>4
<1>6. wire' \in Seq(Bytes)
  <2> DEFINE c == SubSeq(out.bytes, G + 1, G + n)
  <2>1. \A i \in (G + 1)..(G + n) : out.bytes[i] \in Bytes
    <3>1. out.bytes \in Seq(Bytes)
      BY <1>1, Sizes, RingFields DEF OutRings
    <3>2. ASSUME NEW i \in (G + 1)..(G + n) PROVE i \in 1..l
      <4> HIDE DEF l, G
      <4> QED
        BY <1>4, <1>5
    <3> QED
      BY <3>1, <3>2, ElementOfSeq
  <2>2. G + 1 \in Int /\ G + n \in Int
    <3> HIDE DEF G
    <3> QED
      BY <1>4, <1>5
  <2>3. c \in Seq(Bytes)
    BY <2>1, <2>2, SubSeqProperties
  <2> HIDE DEF c
  <2> QED
    BY <1>1, <1>3, <2>3, ConcatProperties DEF c
<1>7. ReceiverOK'
  BY <1>1, <1>2, SameReceiver
<1>8. SenderOK' /\ Gone' = G + n /\ write_report' # Lost
  <2>1. sent' \in Seq(Outgoing) /\ out' = out /\ sink_write' = sink_write
    BY <1>1, <1>2 DEF SenderOK
  <2> HIDE DEF L, G, z
  <2>2. CASE G + n = L
    <3>1. write_task' = NoTask /\ write_report' = L /\ L > 0
      BY <1>3, <1>4, <2>2
    <3>2. SenderOK'
      BY <1>1, <1>4, <2>1, <3>1 DEF SenderOK, Writing, None, Lost, OutRings, WriteTasks, z
    <3> QED
      BY <1>4, <2>2, <3>1, <3>2 DEF Gone, Lost
  <2>3. CASE G + n # L
    <3>1. write_task' = [write_task EXCEPT !.gone = G + n] /\ write_report' = write_report
      BY <1>3, <2>3
    <3>2. /\ write_task' \in [length : Nat, gone : Nat] /\ write_task'.gone = G + n
          /\ write_task'.length = L
      BY <1>4, <1>5, <3>1 DEF L
    <3>3. write_task'.gone < write_task'.length
      BY <1>4, <1>5, <2>3, <3>2
    <3>4. SenderOK'
      BY <1>1, <1>4, <2>1, <3>1, <3>2, <3>3 DEF SenderOK, Writing, None, Lost, OutRings, WriteTasks, z
    <3>5. write_task' # NoTask
      BY <3>2 DEF NoTask
    <3> QED
      BY <1>4, <3>1, <3>2, <3>4, <3>5 DEF Gone, Lost
  <2> QED
    BY <2>2, <2>3
<1>9. MemoryInv'
  BY <1>1, <1>2, <1>6, <1>7, <1>8 DEF MemoryInv
<1> QED
  BY <1>3, <1>5, <1>8, <1>9

(* It cannot. *)
LEMMA WriteStepFailsMemory ==
  ASSUME MemoryInv, WriteStepFails
  PROVE  MemoryInv'
<1>1. SenderOK /\ ReceiverOK /\ asserted /\ wire \in Seq(Bytes)
  BY DEF MemoryInv
<1>2. /\ write_task # NoTask /\ write_task' = NoTask /\ write_report' = Lost
      /\ UNCHANGED receiver /\ UNCHANGED <<out, sink_write, sent, wire, asserted>>
  BY DEF WriteStepFails
<1>3. ReceiverOK'
  BY <1>1, <1>2, SameReceiver
<1>4. Len(out.bytes) > 0
  <2> DEFINE l == Len(out.bytes)
             z == ReadSegmentLength(out)
  <2>1. /\ write_task.length \in Nat /\ write_task.gone \in Nat /\ write_task.gone < write_task.length
        /\ write_task.length <= z /\ z \in Nat /\ z <= l /\ l \in Nat
    BY <1>1, <1>2, TaskFields
  <2> HIDE DEF l, z
  <2>2. l > 0
    BY <2>1
  <2> QED
    BY <2>2 DEF l
<1>5. SenderOK'
  BY <1>1, <1>2, <1>4 DEF SenderOK, Writing, None, Lost, OutRings, WriteTasks
<1> QED
  BY <1>1, <1>2, <1>3, <1>5 DEF MemoryInv

Filled == [in EXCEPT !.bytes = @ \o landed.bytes]

(* writeAdvance: the bytes that landed fit behind those in the ring. *)
LEMMA FilledRing ==
  ASSUME ReceiverOK, sink_read = "open", read_report > 0
  PROVE  /\ Filled \in InRings /\ Filled.bytes = in.bytes \o landed.bytes
         /\ Len(Filled.bytes) = Len(in.bytes) + Len(landed.bytes)
         /\ in.bytes \in Seq(Bytes) /\ landed.bytes \in Seq(Bytes)
         /\ Len(in.bytes) \in Nat /\ Len(landed.bytes) \in Nat
<1> DEFINE n == Len(in.bytes)
           k == Len(landed.bytes)
           w == WriteSegmentLength(in)
<1>1. in \in InRings /\ landed.bytes \in Seq(Bytes) /\ k <= w
  BY DEF ReceiverOK, Reading
<1>2. n \in Nat /\ k \in Nat /\ w \in Nat /\ w <= InSize - n /\ in.bytes \in Seq(Bytes)
  BY <1>1, LenProperties, Sizes, RingFields, SegmentsAre DEF InRings
<1> HIDE DEF n, k, w
<1>3. n + k <= InSize
  BY <1>1, <1>2, Sizes
<1>4. /\ Filled \in InRings /\ Filled.bytes = in.bytes \o landed.bytes
      /\ Len(Filled.bytes) = Len(in.bytes) + Len(landed.bytes)
  BY <1>1, <1>3, Sizes, GrownRing DEF InRings, Filled, n, k
<1> QED
  BY <1>1, <1>2, <1>4 DEF n, k

(* The loop leaves the memory behind the ring alone. *)
LEMMA LoopMemory ==
  ASSUME DecodeAdvances(Seq(Bytes)), NEW r \in InRings
  PROVE  LET g == DecodeAll(r).ring IN
         /\ g \in InRings /\ WritePosition(g) = WritePosition(r)
         /\ WriteSegmentLength(r) <= WriteSegmentLength(g)
<1> DEFINE good(g) == /\ g \in InRings /\ WritePosition(g) = WritePosition(r)
                      /\ WriteSegmentLength(r) <= WriteSegmentLength(g)
           G == {x \in LoopStates : good(x.ring)}
<1>1. Len(r.bytes) \in Nat
  BY Sizes, RingFields DEF InRings
<1>2. WriteSegmentLength(r) \in Nat
  BY Sizes, SegmentsAre DEF InRings
<1>3. Start(r) \in G
  <2>1. << >> \in Seq(Decoded) /\ "none" \in Errors
    BY EmptySeq DEF Errors
  <2>2. Start(r) \in LoopStates /\ Start(r).ring = r
    BY <2>1 DEF Start, LoopStates
  <2>3. good(r)
    BY <1>2
  <2> QED
    BY <2>2, <2>3
<1>4. ASSUME NEW x \in G PROVE DecodeRound(x) \in G
  <2> DEFINE y == DecodeRound(x)
             n == Len(x.ring.bytes) - Len(decode(x.ring).buffer.bytes)
  <2>1. x \in LoopStates /\ good(x.ring)
    OBVIOUS
  <2>2. /\ y \in LoopStates
        /\ \/ y.ring = x.ring
           \/ n \in Nat /\ n <= Len(x.ring.bytes) /\ y.ring = ReadAdvance(x.ring, n)
    BY <2>1, RoundIs
  <2> HIDE DEF y, n
  <2>3. CASE y.ring = x.ring
    BY <2>1, <2>2, <2>3 DEF y
  <2>4. CASE n \in Nat /\ n <= Len(x.ring.bytes) /\ y.ring = ReadAdvance(x.ring, n)
    <3>1. /\ y.ring \in InRings /\ WritePosition(y.ring) = WritePosition(x.ring)
          /\ WriteSegmentLength(x.ring) <= WriteSegmentLength(y.ring)
      BY <2>1, <2>4, Sizes, AdvancedRing DEF InRings
    <3>2. WriteSegmentLength(x.ring) \in Nat /\ WriteSegmentLength(y.ring) \in Nat
      BY <2>1, <3>1, Sizes, SegmentsAre DEF InRings
    <3>3. good(y.ring)
      BY <1>2, <2>1, <3>1, <3>2
    <3> QED
      BY <2>2, <3>3 DEF y
  <2> QED
    BY <2>2, <2>3, <2>4
<1> HIDE DEF G
<1>5. DecodeAll(r) \in G
  BY <1>1, <1>3, <1>4, LoopKeeps
<1> QED
  BY <1>5 DEF G

(* The sink of readDone. *)
LEMMA ReadSinkMemory ==
  ASSUME DecodeAdvances(Seq(Bytes)), MemoryInv, ReadSink
  PROVE  MemoryInv'
<1>1. SenderOK /\ ReceiverOK /\ asserted /\ wire \in Seq(Bytes)
  BY DEF MemoryInv
<1> DEFINE r == Filled
           g == DecodeAll(r).ring
           w == WriteSegmentLength(r)
<1>2. /\ sink_read = "open" /\ read_report > 0 /\ read_report' = 0
      /\ w = 0 => in' = r /\ UNCHANGED <<read_task, asserted>>
      /\ w # 0 => /\ read_task' = ReadBehind(r) /\ in' = g
                  /\ asserted' = (asserted /\ read_task = NoTask)
      /\ UNCHANGED sender /\ UNCHANGED <<landed, wire>>
  BY DEF ReadSink, Filled, None
<1>3. r \in InRings
  BY <1>1, <1>2, FilledRing
<1>4. read_task = NoTask
  BY <1>1, <1>2 DEF ReceiverOK, Reading, None
<1>5. SenderOK'
  BY <1>1, <1>2, SameSender
<1>6. landed' \in [at : Nat, bytes : Seq(Bytes)]
  BY <1>1, <1>2 DEF ReceiverOK
<1> HIDE DEF r
<1>7. CASE w = 0
  <2>1. in' = r /\ read_task' = NoTask /\ asserted'
    BY <1>1, <1>2, <1>4, <1>7
  <2>2. ReceiverOK'
    BY <1>2, <1>3, <1>6, <2>1 DEF ReceiverOK, Reading, InRings, ReadTasks
  <2> QED
    BY <1>1, <1>2, <1>5, <2>1, <2>2 DEF MemoryInv
<1>8. CASE w # 0
  <2>1. read_task' = ReadBehind(r) /\ in' = g /\ asserted'
    BY <1>1, <1>2, <1>4, <1>8
  <2>2. g \in InRings /\ WritePosition(g) = WritePosition(r) /\ w <= WriteSegmentLength(g)
    BY <1>3, LoopMemory
  <2>3. WritePosition(r) \in 0..(InSize - 1) /\ w \in Nat
    BY <1>3, Sizes, WritePositionIs, SegmentsAre DEF InRings
  <2> HIDE DEF g, w
  <2>4. read_task' = [at |-> WritePosition(r), max_length |-> w]
    BY <2>1 DEF ReadBehind, w
  <2>5. read_task' \in ReadTasks /\ read_task'.at = WritePosition(r) /\ read_task'.max_length = w
    BY <2>3, <2>4 DEF ReadTasks
  <2>6. ReceiverOK'
    BY <1>2, <1>6, <2>1, <2>2, <2>5 DEF ReceiverOK, Reading, InRings, None
  <2> QED
    BY <1>1, <1>2, <1>5, <2>1, <2>6 DEF MemoryInv
<1> QED
  BY <1>7, <1>8

(* It fails. *)
LEMMA ReadSinkFailsMemory ==
  ASSUME MemoryInv, ReadSinkFails
  PROVE  MemoryInv'
<1>1. SenderOK /\ ReceiverOK /\ asserted /\ wire \in Seq(Bytes)
  BY DEF MemoryInv
<1>2. /\ sink_read' = "disconnected" /\ read_report' = 0
      /\ UNCHANGED sender /\ UNCHANGED <<in, read_task, landed, wire, asserted>>
  BY DEF ReadSinkFails, None
<1>3. SenderOK'
  BY <1>1, <1>2, SameSender
<1>4. ReceiverOK'
  BY <1>1, <1>2 DEF ReceiverOK, Reading, None, Lost, InRings, ReadTasks
<1> QED
  BY <1>1, <1>2, <1>3, <1>4 DEF MemoryInv

(* The stream reads. *)
LEMMA ReadStepMemory ==
  ASSUME MemoryInv, ReadStep
  PROVE  /\ MemoryInv' /\ read_report = 0
         /\ \E n \in Nat : /\ n > 0 /\ n <= Len(wire) /\ read_report' = n
                           /\ landed'.bytes = SubSeq(wire, 1, n)
                           /\ wire' = SubSeq(wire, n + 1, Len(wire))
<1>1. SenderOK /\ ReceiverOK /\ asserted /\ wire \in Seq(Bytes)
  BY DEF MemoryInv
<1> DEFINE k == read_task.max_length
           l == Len(wire)
<1>2. /\ read_task # NoTask /\ read_task' = NoTask
      /\ UNCHANGED sender /\ UNCHANGED <<in, sink_read, asserted>>
  BY DEF ReadStep
<1>3. PICK n \in 1..Fewer(k, l) :
          /\ landed' = [at |-> read_task.at, bytes |-> SubSeq(wire, 1, n)]
          /\ wire' = SubSeq(wire, n + 1, l)
          /\ read_report' = n
  BY DEF ReadStep
<1>4. /\ k \in Nat /\ read_task.at \in Nat /\ read_report = 0 /\ l \in Nat
      /\ read_task.at = WritePosition(in) /\ k <= WriteSegmentLength(in)
      /\ WriteSegmentLength(in) \in Nat
  <2>1. read_task \in [at : Nat, max_length : Nat]
    BY <1>1, <1>2 DEF ReceiverOK, ReadTasks
  <2>2. WriteSegmentLength(in) \in Nat
    BY <1>1, Sizes, SegmentsAre DEF InRings, ReceiverOK
  <2>3. l \in Nat
    BY <1>1, LenProperties
  <2> QED
    BY <1>1, <1>2, <2>1, <2>2, <2>3 DEF ReceiverOK, Reading, None
<1> HIDE DEF k, l
<1>5. n \in Nat /\ n > 0 /\ n <= k /\ n <= l
  BY <1>4 DEF Fewer
<1> DEFINE b == SubSeq(wire, 1, n)
           v == SubSeq(wire, n + 1, l)
<1>6. b \in Seq(Bytes) /\ Len(b) = n /\ v \in Seq(Bytes)
  <2>1. \A i \in 1..l : wire[i] \in Bytes
    BY <1>1, ElementOfSeq DEF l
  <2>2. (\A i \in 1..n : wire[i] \in Bytes) /\ (\A i \in (n + 1)..l : wire[i] \in Bytes)
    BY <1>4, <1>5, <2>1
  <2>3. 1 \in Int /\ n \in Int /\ n + 1 \in Int /\ l \in Int
    BY <1>4, <1>5
  <2>4. b \in Seq(Bytes) /\ Len(b) = IF 1 <= n THEN n - 1 + 1 ELSE 0
    BY <2>2, <2>3, SubSeqProperties
  <2>5. v \in Seq(Bytes)
    BY <2>2, <2>3, SubSeqProperties
  <2> HIDE DEF b, v
  <2> QED
    BY <1>5, <2>4, <2>5
<1>7. landed' = [at |-> read_task.at, bytes |-> b] /\ wire' = v
  BY <1>3
<1> HIDE DEF b, v
<1>8. landed' \in [at : Nat, bytes : Seq(Bytes)] /\ landed'.at = read_task.at /\ landed'.bytes = b
  BY <1>4, <1>6, <1>7
<1>9. SenderOK'
  BY <1>1, <1>2, SameSender
<1>10. ReceiverOK'
  <2>1. Len(b) <= WriteSegmentLength(in)
    BY <1>4, <1>5, <1>6
  <2>2. in' = in /\ in \in InRings /\ read_task' \in ReadTasks /\ read_report' \in Nat
    BY <1>1, <1>2, <1>3, <1>5 DEF ReceiverOK, ReadTasks
  <2> QED
    BY <1>2, <1>4, <1>8, <2>1, <2>2 DEF ReceiverOK, Reading, InRings
<1>11. MemoryInv'
  BY <1>1, <1>2, <1>6, <1>7, <1>9, <1>10 DEF MemoryInv
<1> QED
  BY <1>3, <1>4, <1>5, <1>8, <1>11 DEF b, l

(* It cannot. *)
LEMMA ReadStepFailsMemory ==
  ASSUME MemoryInv, ReadStepFails
  PROVE  MemoryInv'
<1>1. SenderOK /\ ReceiverOK /\ asserted /\ wire \in Seq(Bytes)
  BY DEF MemoryInv
<1>2. /\ read_task' = NoTask /\ read_report' = Lost
      /\ UNCHANGED sender /\ UNCHANGED <<in, landed, sink_read, wire, asserted>>
  BY DEF ReadStepFails
<1>3. SenderOK'
  BY <1>1, <1>2, SameSender
<1>4. ReceiverOK'
  BY <1>1, <1>2 DEF ReceiverOK, Reading, None, Lost, InRings, ReadTasks
<1> QED
  BY <1>1, <1>2, <1>3, <1>4 DEF MemoryInv

(* Every step. *)
LEMMA NextMemory ==
  ASSUME EncodeAppends(Seq(Bytes)), DecodeAdvances(Seq(Bytes)), MemoryInv, [Next]_vars
  PROVE  MemoryInv'
<1>1. CASE UNCHANGED vars
  <2>1. UNCHANGED sender /\ UNCHANGED receiver /\ UNCHANGED <<wire, asserted>>
    BY <1>1 DEF vars
  <2> QED
    BY <2>1, SameSender, SameReceiver DEF MemoryInv
<1>2. CASE Disconnect
  <2>1. UNCHANGED sender /\ UNCHANGED receiver /\ UNCHANGED <<wire, asserted>>
    BY <1>2 DEF Disconnect
  <2> QED
    BY <2>1, SameSender, SameReceiver DEF MemoryInv
<1>3. CASE \E m \in Outgoing : Send(m)
  BY <1>3, SendMemory
<1>4. CASE Sinks
  BY <1>4, WriteSinkMemory, WriteSinkFailsMemory, ReadSinkMemory, ReadSinkFailsMemory DEF Sinks
<1>5. CASE Streams
  BY <1>5, WriteStepMemory, WriteStepFailsMemory, ReadStepMemory, ReadStepFailsMemory DEF Streams
<1> QED
  BY <1>1, <1>2, <1>3, <1>4, <1>5 DEF Next

(* The memory lent to the streams stays theirs, for rings and a socket of  *)
(* every size and whatever the codec reads or refuses, as long as encode   *)
(* only appends and decode only takes from the front.                      *)
THEOREM LentMemoryIsKept ==
  ASSUME EncodeAppends(Seq(Bytes)), DecodeAdvances(Seq(Bytes))
  PROVE  Spec => []TasksKeepTheirMemory
<1>1. Init => MemoryInv
  BY InitMemory
<1>2. MemoryInv /\ [Next]_vars => MemoryInv'
  BY NextMemory
<1>3. MemoryInv => TasksKeepTheirMemory
  BY DEF MemoryInv, SenderOK, ReceiverOK, Writing, Reading, TasksKeepTheirMemory
<1> QED
  BY <1>1, <1>2, <1>3, PTL DEF Spec

-----------------------------------------------------------------------------
(***************************************************************************)
(* The flow of bytes.                                                      *)
(***************************************************************************)
(* A longer flow begins with the shorter one. *)
LEMMA ArrivingGrown ==
  ASSUME NEW flow \in Seq(Bytes), NEW x \in Seq(Bytes), NEW a, NEW b \in Seq(Bytes),
         NEW l \in Seq(Bytes), NEW w \in Seq(Bytes), Arriving(flow, a, b, l, w)
  PROVE  Arriving(flow \o x, a, b, l, w)
<1>1. At(b, flow \o x, a)
  BY AtGrown DEF Arriving
<1>2. At(l, flow \o x, a + Len(b))
  BY AtGrown DEF Arriving
<1>3. At(w, flow \o x, a + Len(b) + Len(l))
  BY AtGrown DEF Arriving
<1> QED
  BY <1>1, <1>2, <1>3 DEF Arriving

(* What is added behind the flow is added behind what departs. *)
LEMMA DepartingGrown ==
  ASSUME NEW flow \in Seq(Bytes), NEW x \in Seq(Bytes), NEW o \in Seq(Bytes),
         NEW d, NEW g, Departing(flow, d, o, g)
  PROVE  Departing(flow \o x, d, o \o x, g)
<1> DEFINE p == d - g
<1>1. At(o, flow, p) /\ p + Len(o) = Len(flow)
  BY DEF Departing
<1> HIDE DEF p
<1>2. At(o, flow \o x, p)
  BY <1>1, AtGrown
<1>3. At(x, flow \o x, p + Len(o))
  BY <1>1, AtBehind
<1>4. flow \o x \in Seq(Bytes) /\ Len(flow \o x) = Len(flow) + Len(x) /\ Len(o \o x) = Len(o) + Len(x)
  BY ConcatProperties
<1>5. At(o \o x, flow \o x, p)
  BY <1>2, <1>3, <1>4, AtConcat
<1>6. p + Len(o \o x) = Len(flow \o x)
  <2> DEFINE u == Len(o)
             v == Len(x)
             f == Len(flow)
             h == Len(o \o x)
             k == Len(flow \o x)
  <2>1. p \in Nat /\ u \in Nat /\ v \in Nat /\ f = p + u /\ h = u + v /\ k = f + v
    BY <1>1, <1>4, LenProperties DEF At
  <2> HIDE DEF u, v, f, h, k
  <2>2. p + h = k
    BY <2>1
  <2> QED
    BY <2>2 DEF h, k
<1> QED
  BY <1>5, <1>6 DEF Departing, p

(* A message more. *)
LEMMA TranscriptGrown ==
  ASSUME NEW ss \in Seq(Outgoing), NEW flow, NEW ends, Transcript(ss, flow, ends),
         NEW m \in Outgoing, Packet(m) \in Seq(Bytes)
  PROVE  \E more : /\ Transcript(Append(ss, m), flow \o Packet(m), more)
                   /\ \A k \in 0..Len(ss) : more[k] = ends[k]
<1> DEFINE p == Packet(m)
           n == Len(ss)
           c == Len(p)
           f == Len(flow)
           tt == Append(ss, m)
           ff == flow \o p
           more == [k \in 0..(n + 1) |-> IF k = n + 1 THEN f + c ELSE ends[k]]
<1>1. /\ flow \in Seq(Bytes) /\ ends \in [0..n -> Nat] /\ ends[0] = 0 /\ ends[n] = f
      /\ \A k \in 1..n : /\ Packet(ss[k]) \in Seq(Bytes)
                         /\ At(Packet(ss[k]), flow, ends[k - 1])
                         /\ ends[k] = ends[k - 1] + Len(Packet(ss[k]))
  BY DEF Transcript
<1>2. n \in Nat /\ c \in Nat /\ f \in Nat /\ p \in Seq(Bytes)
  BY <1>1, LenProperties
<1>3. /\ Len(tt) = n + 1 /\ tt[n + 1] = m /\ \A k \in 1..n : tt[k] = ss[k]
  BY AppendProperties
<1>4. ff \in Seq(Bytes) /\ Len(ff) = f + c
  BY <1>1, <1>2, ConcatProperties
<1>5. At(p, ff, f)
  BY <1>1, <1>2, AtBehind
<1>6. \A k \in 1..n : At(Packet(ss[k]), ff, ends[k - 1])
  BY <1>1, <1>2, AtGrown
<1> HIDE DEF p, n, c, f, tt, ff
<1>7. more \in [0..(n + 1) -> Nat] /\ more[n + 1] = f + c /\ \A k \in 0..n : more[k] = ends[k]
  <2>1. f + c \in Nat /\ \A k \in 0..(n + 1) : k # n + 1 => k \in 0..n
    BY <1>2
  <2>2. \A k \in 0..n : k # n + 1 /\ k \in 0..(n + 1)
    BY <1>2
  <2>3. n + 1 \in 0..(n + 1)
    BY <1>2
  <2> QED
    BY <1>1, <2>1, <2>2, <2>3
<1> HIDE DEF more
<1>8. ASSUME NEW k \in 1..(n + 1)
      PROVE  /\ Packet(tt[k]) \in Seq(Bytes) /\ At(Packet(tt[k]), ff, more[k - 1])
             /\ more[k] = more[k - 1] + Len(Packet(tt[k]))
  <2>1. CASE k = n + 1
    <3>1. k - 1 = n /\ n \in 0..n
      BY <1>2, <2>1
    <3>2. Packet(tt[k]) = p /\ more[k - 1] = f /\ more[k] = f + c
      BY <1>1, <1>3, <1>7, <2>1, <3>1 DEF p
    <3> QED
      BY <1>2, <1>5, <3>2 DEF c
  <2>2. CASE k # n + 1
    <3>1. k \in 1..n /\ k \in 0..n /\ k - 1 \in 0..n
      BY <1>2, <2>2
    <3>2. tt[k] = ss[k] /\ more[k - 1] = ends[k - 1] /\ more[k] = ends[k]
      BY <1>3, <1>7, <3>1
    <3> QED
      BY <1>1, <1>6, <3>1, <3>2
  <2> QED
    BY <2>1, <2>2
<1>9. more[0] = 0
  <2>1. 0 \in 0..n
    BY <1>2
  <2> QED
    BY <1>1, <1>7, <2>1
<1>10. Transcript(tt, ff, more)
  BY <1>3, <1>4, <1>7, <1>8, <1>9 DEF Transcript
<1> QED
  BY <1>7, <1>10 DEF tt, ff, n, p

(* A prefix stays one when a message is added. *)
LEMMA AtAppended ==
  ASSUME NEW S, NEW s \in Seq(S), NEW t \in Seq(S), NEW x \in S, NEW p, At(s, t, p)
  PROVE  At(s, Append(t, x), p)
<1>1. <<x>> \in Seq(S) /\ Append(t, x) = t \o <<x>>
  BY AppendIsConcat
<1> DEFINE y == <<x>>
<1> HIDE DEF y
<1>2. At(s, t \o y, p)
  BY <1>1, AtGrown DEF y
<1> QED
  BY <1>1, <1>2 DEF y

(* So does the element behind a part. *)
LEMMA AtNext ==
  ASSUME NEW S, NEW s \in Seq(S), NEW t \in Seq(S), NEW p, At(s, t, p), p + Len(s) < Len(t)
  PROVE  At(Append(s, t[p + Len(s) + 1]), t, p) /\ t[p + Len(s) + 1] \in S
<1> DEFINE n == Len(s)
           l == Len(t)
           x == t[p + n + 1]
           c == Append(s, x)
<1>1. n \in Nat /\ l \in Nat /\ p \in Nat /\ p + n < l /\ \A i \in 1..n : s[i] = t[p + i]
  BY LenProperties DEF At
<1>2. x \in S
  <2>1. p + n + 1 \in 1..l
    <3> HIDE DEF n, l
    <3> QED
      BY <1>1
  <2> QED
    BY <2>1, ElementOfSeq
<1>3. Len(c) = n + 1 /\ c[n + 1] = x /\ \A i \in 1..n : c[i] = s[i]
  <2> HIDE DEF x
  <2> QED
    BY <1>2, AppendProperties
<1> HIDE DEF c, n, l
<1>4. ASSUME NEW i \in 1..(n + 1) PROVE c[i] = t[p + i]
  <2>1. CASE i = n + 1
    <3>1. p + i = p + n + 1
      BY <1>1, <2>1
    <3> QED
      BY <1>3, <2>1, <3>1
  <2>2. CASE i # n + 1
    <3>1. i \in 1..n
      BY <1>1, <2>2
    <3> QED
      BY <1>1, <1>3, <3>1
  <2> QED
    BY <2>1, <2>2
<1>5. p + (n + 1) <= l
  BY <1>1
<1> QED
  BY <1>1, <1>2, <1>3, <1>4, <1>5 DEF At, c, l, n

(* The loop so far: it has given the messages behind the first k of ss,    *)
(* and the ring holds the flow behind their packets, up to the same end.   *)
LoopFlowing(ss, flow, ends, k, end, x) ==
    /\ x.messages \in Seq(Outgoing) /\ At(x.messages, ss, k)
    /\ At(x.ring.bytes, flow, ends[k + Len(x.messages)])
    /\ ends[k + Len(x.messages)] + Len(x.ring.bytes) = end

(* A round of the loop keeps that: it takes the next message of the flow,  *)
(* or nothing.                                                             *)
LEMMA RoundFlow ==
  ASSUME DecodeAdvances(Seq(Bytes)), DecodeInverts(Seq(Bytes)),
         NEW ss \in Seq(Outgoing), NEW flow, NEW ends, Transcript(ss, flow, ends),
         NEW k \in Nat, NEW end, NEW x \in LoopStates, LoopFlowing(ss, flow, ends, k, end, x)
  PROVE  LoopFlowing(ss, flow, ends, k, end, DecodeRound(x))
<1> DEFINE y == DecodeRound(x)
           d == decode(x.ring)
           b == x.ring.bytes
           ms == x.messages
           l == Len(b)
           v == Len(d.buffer.bytes)
           n == l - v
           j == k + Len(ms)
           N == Len(ss)
<1>1. /\ y \in LoopStates
      /\ \/ y.ring = x.ring /\ y.messages = ms
         \/ /\ d.error = "none" /\ n \in Nat /\ n <= l
            /\ y.ring = ReadAdvance(x.ring, n)
            /\ y.messages = Append(ms, d.msg)
  BY RoundIs
<1>2. /\ ms \in Seq(Outgoing) /\ At(ms, ss, k) /\ At(b, flow, ends[j]) /\ ends[j] + l = end
  BY DEF LoopFlowing
<1>3. CASE y.ring = x.ring /\ y.messages = ms
  BY <1>2, <1>3 DEF LoopFlowing
<1>4. CASE /\ d.error = "none" /\ n \in Nat /\ n <= l
           /\ y.ring = ReadAdvance(x.ring, n) /\ y.messages = Append(ms, d.msg)
  <2>1. x.ring \in RingsOf(InSize, Seq(Bytes))
    BY DEF LoopStates, InRings
  <2>2. b \in Seq(Bytes) /\ l \in Nat
    BY <2>1, Sizes, RingFields
  <2>3. v \in 0..(l - 1)
    BY <1>4, <2>1 DEF DecodeAdvances
  <2>4. /\ flow \in Seq(Bytes) /\ ends \in [0..N -> Nat] /\ ends[N] = Len(flow)
        /\ \A i \in 1..N : /\ Packet(ss[i]) \in Seq(Bytes)
                           /\ At(Packet(ss[i]), flow, ends[i - 1])
                           /\ ends[i] = ends[i - 1] + Len(Packet(ss[i]))
    BY DEF Transcript
  <2>5. N \in Nat /\ Len(ms) \in Nat /\ Len(flow) \in Nat
    BY <1>2, <2>4, LenProperties
  <2>6. j \in Nat /\ j <= N
    BY <1>2, <2>5 DEF At
  <2> DEFINE e == ends[j]
             fl == Len(flow)
  <2>7. e \in Nat /\ e + l <= fl
    BY <1>2 DEF At
  <2> HIDE DEF l, v, j, N, e, fl
  <2>8. l >= 1
    BY <2>2, <2>3
  <2>9. j < N
    <3> SUFFICES ASSUME j = N PROVE FALSE
      BY <2>5, <2>6
    <3>1. e = fl
      BY <2>4 DEF e, fl
    <3>2. fl \in Nat
      BY <2>5 DEF fl
    <3> QED
      BY <2>2, <2>7, <2>8, <3>1, <3>2
  <2> DEFINE m == ss[j + 1]
             p == Packet(m)
             q == Len(p)
  <2>10. j + 1 \in 1..N /\ j + 1 - 1 = j
    BY <2>5, <2>6, <2>9
  <2>11. p \in Seq(Bytes) /\ At(p, flow, e) /\ ends[j + 1] = e + q /\ q \in Nat
    <3>1. /\ Packet(ss[j + 1]) \in Seq(Bytes)
          /\ At(Packet(ss[j + 1]), flow, ends[j])
          /\ ends[j + 1] = ends[j] + Len(Packet(ss[j + 1]))
      <4> DEFINE c == j + 1
      <4>1. c \in 1..N /\ c - 1 = j
        BY <2>5, <2>6, <2>9
      <4> HIDE DEF c
      <4>2. /\ Packet(ss[c]) \in Seq(Bytes) /\ At(Packet(ss[c]), flow, ends[c - 1])
            /\ ends[c] = ends[c - 1] + Len(Packet(ss[c]))
        BY <2>4, <4>1
      <4> QED
        BY <4>1, <4>2 DEF c
    <3> QED
      BY <3>1, LenProperties DEF e
  <2>12. m \in Outgoing
    BY <2>10, ElementOfSeq DEF N
  <2>13. q <= l
    <3> SUFFICES ASSUME ~(q <= l) PROVE FALSE
      OBVIOUS
    <3>1. l < q
      BY <2>2, <2>11
    <3>2. l <= q
      BY <2>2, <2>11, <3>1
    <3> HIDE DEF m, b, p
    <3>3. SubSeq(p, 1, Len(b)) = b
      BY <1>2, <2>2, <2>4, <2>11, <3>2, AtFront DEF l, e
    <3>4. d.error # "none"
      BY <2>1, <2>12, <3>1, <3>3 DEF DecodeInverts, l, p, b
    <3> QED
      BY <1>4, <3>4
  <2>14. d.msg = m /\ v = l - q
    <3> HIDE DEF m, b, p
    <3>1. SubSeq(b, 1, Len(p)) = p
      BY <1>2, <2>2, <2>4, <2>11, <2>13, AtFront DEF l, e
    <3> QED
      BY <1>4, <2>1, <2>12, <2>13, <3>1 DEF DecodeInverts, l, p, b, v
  <2>15. n = q
    <3> HIDE DEF p, q
    <3> QED
      BY <2>2, <2>11, <2>14
  <2> DEFINE g == y.ring
  <2>16. g.bytes = SubSeq(b, q + 1, l) /\ Len(g.bytes) = l - q
    <3> HIDE DEF n, q, m, p, y
    <3>1. n \in Nat /\ n <= Len(x.ring.bytes) /\ g = ReadAdvance(x.ring, n)
      BY <1>4 DEF l
    <3>2. /\ g.bytes = SubSeq(x.ring.bytes, n + 1, Len(x.ring.bytes))
          /\ Len(g.bytes) = Len(x.ring.bytes) - n
      BY <2>1, <3>1, Sizes, AdvancedRing
    <3> QED
      BY <2>15, <3>2 DEF l
  <2>17. At(g.bytes, flow, e + q)
    <3> HIDE DEF q, m, p, b, y, g
    <3>1. l \in Nat /\ q \in Nat /\ q <= l /\ l <= Len(b)
      BY <2>2, <2>11, <2>13 DEF l
    <3>2. At(b, flow, e)
      BY <1>2 DEF e
    <3>3. At(SubSeq(b, q + 1, l), flow, e + q)
      BY <2>2, <2>4, <3>1, <3>2, AtPart
    <3> QED
      BY <2>16, <3>3
  <2>18. /\ Append(ms, m) \in Seq(Outgoing) /\ Len(Append(ms, m)) = Len(ms) + 1
         /\ At(Append(ms, m), ss, k)
    <3>1. k + Len(ms) < Len(ss) /\ k + Len(ms) + 1 = j + 1
      BY <2>9 DEF j, N
    <3>2. At(Append(ms, ss[k + Len(ms) + 1]), ss, k)
      BY <1>2, <3>1, AtNext
    <3>3. Append(ms, m) \in Seq(Outgoing) /\ Len(Append(ms, m)) = Len(ms) + 1
      <4> HIDE DEF m, ms
      <4> QED
        BY <1>2, <2>12, AppendProperties
    <3> QED
      BY <3>1, <3>2, <3>3
  <2>19. k + Len(Append(ms, m)) = j + 1
    <3> DEFINE u == Len(ms)
               w == Len(Append(ms, m))
    <3>1. u \in Nat /\ w = u + 1 /\ j = k + u
      BY <2>5, <2>18 DEF j
    <3> HIDE DEF u, w
    <3>2. k + w = j + 1
      BY <3>1
    <3> QED
      BY <3>2 DEF w
  <2>20. e + q + (l - q) = end
    <3>1. e + l = end
      BY <1>2 DEF e, l
    <3> HIDE DEF q
    <3> QED
      BY <2>2, <2>7, <2>11, <3>1
  <2>21. y.messages = Append(ms, m)
    BY <1>4, <2>14
  <2> HIDE DEF y, ms, m, q, p
  <2>22. ends[k + Len(y.messages)] = e + q
    BY <2>11, <2>19, <2>21
  <2> QED
    BY <2>16, <2>17, <2>18, <2>20, <2>21, <2>22 DEF LoopFlowing, y
<1> QED
  BY <1>1, <1>3, <1>4

(* The whole loop takes some of the messages of the flow, in order. *)
LEMMA LoopFlow ==
  ASSUME DecodeAdvances(Seq(Bytes)), DecodeInverts(Seq(Bytes)),
         NEW ss \in Seq(Outgoing), NEW flow, NEW ends, Transcript(ss, flow, ends),
         NEW k \in Nat, k <= Len(ss), NEW r \in InRings, At(r.bytes, flow, ends[k])
  PROVE  LoopFlowing(ss, flow, ends, k, ends[k] + Len(r.bytes), DecodeAll(r))
<1> DEFINE end == ends[k] + Len(r.bytes)
           G == {x \in LoopStates : LoopFlowing(ss, flow, ends, k, end, x)}
<1>1. Len(r.bytes) \in Nat
  BY Sizes, RingFields DEF InRings
<1>2. Start(r) \in G
  <2>1. << >> \in Seq(Decoded) /\ << >> \in Seq(Outgoing) /\ "none" \in Errors
    BY EmptySeq DEF Errors
  <2>2. Start(r) \in LoopStates /\ Start(r).ring = r /\ Start(r).messages = << >>
    BY <2>1 DEF Start, LoopStates
  <2>3. At(<< >>, ss, k) /\ Len(<< >>) = 0
    BY AtNothing
  <2>4. k + 0 = k
    OBVIOUS
  <2>5. LoopFlowing(ss, flow, ends, k, end, Start(r))
    BY <2>1, <2>2, <2>3, <2>4 DEF LoopFlowing
  <2> QED
    BY <2>2, <2>5
<1> HIDE DEF end
<1>3. ASSUME NEW x \in G PROVE DecodeRound(x) \in G
  <2>1. x \in LoopStates /\ LoopFlowing(ss, flow, ends, k, end, x)
    OBVIOUS
  <2>2. DecodeRound(x) \in LoopStates
    BY <2>1, RoundIs
  <2>3. LoopFlowing(ss, flow, ends, k, end, DecodeRound(x))
    BY <2>1, RoundFlow
  <2> QED
    BY <2>2, <2>3
<1> HIDE DEF G
<1>4. DecodeAll(r) \in G
  BY <1>1, <1>2, <1>3, LoopKeeps
<1> QED
  BY <1>4 DEF G, end

(* The pieces of the flow, as sequences of bytes. *)
LEMMA Pieces ==
  ASSUME MemoryInv
  PROVE  /\ in.bytes \in Seq(Bytes) /\ Landing \in Seq(Bytes) /\ wire \in Seq(Bytes)
         /\ out.bytes \in Seq(Bytes) /\ sent \in Seq(Outgoing)
         /\ Len(in.bytes) \in Nat /\ Len(Landing) \in Nat /\ Len(wire) \in Nat /\ Len(out.bytes) \in Nat
<1>1. in.bytes \in Seq(Bytes) /\ out.bytes \in Seq(Bytes)
  BY Sizes, RingFields DEF MemoryInv, SenderOK, ReceiverOK, InRings, OutRings
<1>2. Landing \in Seq(Bytes)
  BY EmptySeq DEF MemoryInv, ReceiverOK, Landing
<1>3. wire \in Seq(Bytes) /\ sent \in Seq(Outgoing)
  BY DEF MemoryInv, SenderOK
<1> QED
  BY <1>1, <1>2, <1>3, LenProperties

(* At the start. *)
LEMMA InitFlow == Init => FlowInv
<1> SUFFICES ASSUME Init PROVE FlowInv
  OBVIOUS
<1>1. /\ << >> \in Seq(Bytes) /\ << >> \in Seq(Outgoing) /\ Len(<< >>) = 0
      /\ At(<< >>, << >>, 0)
  <2>1. << >> \in Seq(Bytes) /\ << >> \in Seq(Outgoing) /\ Len(<< >>) = 0
    BY EmptySeq
  <2> QED
    BY <2>1 DEF At
<1>2. /\ in.bytes = << >> /\ out.bytes = << >> /\ wire = << >> /\ Landing = << >>
      /\ Gone = 0 /\ sent = << >> /\ received = << >>
  BY Sizes, EmptyRing DEF Init, Landing, Gone, None
<1> DEFINE ends == [k \in 0..0 |-> 0]
<1>3. ends[0] = 0 /\ ends \in [0..0 -> Nat]
  OBVIOUS
<1> HIDE DEF ends
<1>4. Transcript(<< >>, << >>, ends)
  BY <1>1, <1>3 DEF Transcript
<1>5. Arriving(<< >>, 0, << >>, << >>, << >>) /\ Departing(<< >>, 0 + 0 + 0 + 0, << >>, 0)
  BY <1>1 DEF Arriving, Departing
<1>6. Carried(<< >>, ends)
  BY <1>1, <1>2, <1>3, <1>5 DEF Carried
<1> QED
  BY <1>1, <1>2, <1>4, <1>6 DEF FlowInv

(* send() *)
LEMMA SendFlow ==
  ASSUME EncodeAppends(Seq(Bytes)), MemoryInv, FlowInv, NEW m \in Outgoing, Send(m)
  PROVE  FlowInv'
<1> DEFINE p == Packet(m)
<1>1. /\ encode(m, out).error = "none" /\ out' = encode(m, out).buffer /\ sent' = Append(sent, m)
      /\ UNCHANGED receiver /\ UNCHANGED <<write_report, sink_write, wire>>
  BY DEF Send
<1>2. p \in Seq(Bytes) /\ out'.bytes = out.bytes \o p
  BY <1>1, EncodedRing DEF MemoryInv, SenderOK
<1>3. Gone' = Gone
  BY SendMemory
<1>4. /\ in' = in /\ Landing' = Landing /\ wire' = wire /\ received' = received
      /\ sink_read' = sink_read /\ write_report' = write_report /\ sink_write' = sink_write
  BY <1>1 DEF receiver, Landing
<1>5. received \in Seq(Outgoing) /\ At(received, sent, 0) /\ sent \in Seq(Outgoing)
  BY Pieces DEF FlowInv
<1>6. At(received', sent', 0)
  BY <1>1, <1>4, <1>5, AtAppended
<1>7. PICK flow, ends : Transcript(sent, flow, ends) /\ Carried(flow, ends)
  BY DEF FlowInv
<1>8. PICK more : /\ Transcript(sent', flow \o p, more)
                  /\ \A k \in 0..Len(sent) : more[k] = ends[k]
  BY <1>1, <1>2, <1>5, <1>7, TranscriptGrown
<1>9. more[Len(received)] = ends[Len(received)]
  <2>1. Len(received) \in Nat /\ Len(sent) \in Nat /\ 0 + Len(received) <= Len(sent)
    BY <1>5, LenProperties DEF At
  <2> QED
    BY <1>8, <2>1
<1> HIDE DEF p
<1>10. Carried(flow \o p, more)'
  <2> SUFFICES ASSUME sink_read = "open"
               PROVE  LET a == more[Len(received)] IN
                      /\ Arriving(flow \o p, a, in.bytes, Landing, wire)
                      /\ write_report # Lost /\ sink_write = "open" =>
                            Departing(flow \o p, a + Len(in.bytes) + Len(Landing) + Len(wire),
                                      out.bytes \o p, Gone)
    BY <1>2, <1>3, <1>4 DEF Carried
  <2> DEFINE a == ends[Len(received)]
             d == a + Len(in.bytes) + Len(Landing) + Len(wire)
  <2>1. /\ Arriving(flow, a, in.bytes, Landing, wire)
        /\ write_report # Lost /\ sink_write = "open" => Departing(flow, d, out.bytes, Gone)
    BY <1>7 DEF Carried
  <2>2. flow \in Seq(Bytes)
    BY <1>7 DEF Transcript
  <2> HIDE DEF a, d
  <2>3. Arriving(flow \o p, a, in.bytes, Landing, wire)
    BY <1>2, <2>1, <2>2, Pieces, ArrivingGrown
  <2>4. ASSUME write_report # Lost /\ sink_write = "open"
        PROVE  Departing(flow \o p, d, out.bytes \o p, Gone)
    BY <1>2, <2>1, <2>2, <2>4, Pieces, DepartingGrown
  <2> QED
    BY <1>9, <2>3, <2>4 DEF a, d
<1> QED
  BY <1>4, <1>5, <1>6, <1>8, <1>10 DEF FlowInv

(* The sink of writeDone. *)
LEMMA WriteSinkFlow ==
  ASSUME MemoryInv, FlowInv, WriteSink
  PROVE  FlowInv'
<1> DEFINE n == write_report
           o == out.bytes
           l == Len(o)
<1>1. /\ write_report' = 0 /\ UNCHANGED receiver /\ UNCHANGED <<sink_write, sent, wire>>
  BY DEF WriteSink, None
<1>2. /\ out' = ReadAdvance(out, n) /\ n \in Nat /\ n > 0 /\ n <= l /\ write_task = NoTask
      /\ write_task' # NoTask => write_task'.gone = 0
  BY WriteSinkMemory
<1>3. Gone = n /\ Gone' = 0
  BY <1>1, <1>2 DEF Gone
<1>4. out'.bytes = SubSeq(o, n + 1, l) /\ Len(out'.bytes) = l - n
  BY <1>2, Sizes, AdvancedRing DEF MemoryInv, SenderOK, OutRings
<1>5. /\ in' = in /\ Landing' = Landing /\ wire' = wire /\ received' = received /\ sent' = sent
      /\ sink_read' = sink_read /\ sink_write' = sink_write
  BY <1>1 DEF receiver, Landing
<1>6. PICK flow, ends : Transcript(sent, flow, ends) /\ Carried(flow, ends)
  BY DEF FlowInv
<1>7. Carried(flow, ends)'
  <2> DEFINE a == ends[Len(received)]
             d == a + Len(in.bytes) + Len(Landing) + Len(wire)
             c == SubSeq(o, n + 1, l)
  <2>1. SUFFICES ASSUME sink_read = "open"
                 PROVE  /\ Arriving(flow, a, in.bytes, Landing, wire)
                        /\ sink_write = "open" => Departing(flow, d, c, 0)
    BY <1>3, <1>4, <1>5 DEF Carried
  <2>2. n # Lost
    BY <1>2 DEF Lost
  <2>3. /\ Arriving(flow, a, in.bytes, Landing, wire)
        /\ sink_write = "open" => Departing(flow, d, o, n)
    BY <1>3, <1>6, <2>1, <2>2 DEF Carried
  <2>4. ASSUME sink_write = "open" PROVE Departing(flow, d, c, 0)
    <3> DEFINE q == d - n
               f == Len(flow)
    <3>1. At(o, flow, q) /\ q + l = f
      BY <2>3, <2>4 DEF Departing
    <3>2. flow \in Seq(Bytes) /\ o \in Seq(Bytes) /\ l \in Nat /\ n <= l /\ l <= l
      BY <1>2, <1>6, Pieces DEF Transcript
    <3>3. q \in Nat /\ Len(c) = l - n
      BY <1>4, <3>1 DEF At
    <3>4. d \in Int
      <4>1. At(in.bytes, flow, a)
        BY <2>3 DEF Arriving
      <4>2. a \in Nat
        BY <4>1 DEF At
      <4> HIDE DEF a
      <4> QED
        BY <4>2, Pieces
    <3> HIDE DEF a, d, o, l, n
    <3>5. q + n = d /\ d - 0 = d
      BY <1>2, <3>4
    <3> HIDE DEF q
    <3>6. At(c, flow, q + n)
      BY <1>2, <3>1, <3>2, AtPart DEF l
    <3>7. d - 0 + (l - n) = f
      BY <1>2, <3>1, <3>2, <3>3, <3>5
    <3> QED
      BY <3>3, <3>5, <3>6, <3>7 DEF Departing, f
  <2> QED
    BY <2>3, <2>4
<1> QED
  BY <1>5, <1>6, <1>7 DEF FlowInv

(* The sender gives up: the receiver's part of the flow stays. *)
LEMMA WriterGoneFlow ==
  ASSUME FlowInv, UNCHANGED receiver, UNCHANGED <<sent, wire>>, write_report' = Lost \/ sink_write' # "open"
  PROVE  FlowInv'
<1>1. /\ in' = in /\ Landing' = Landing /\ received' = received /\ sink_read' = sink_read
  BY DEF receiver, Landing
<1>2. PICK flow, ends : Transcript(sent, flow, ends) /\ Carried(flow, ends)
  BY DEF FlowInv
<1>3. Carried(flow, ends)'
  BY <1>1, <1>2 DEF Carried
<1> QED
  BY <1>1, <1>2, <1>3 DEF FlowInv

(* The stream writes. *)
LEMMA WriteStepFlow ==
  ASSUME MemoryInv, FlowInv, WriteStep
  PROVE  FlowInv'
<1> DEFINE G == write_task.gone
           o == out.bytes
           l == Len(o)
           w == wire
<1>1. PICK n \in Nat : /\ n > 0 /\ G + n <= l
                       /\ wire' = w \o SubSeq(o, G + 1, G + n)
                       /\ Gone' = G + n
                       /\ write_report' # Lost
  BY WriteStepMemory
<1>2. write_task # NoTask /\ UNCHANGED receiver /\ UNCHANGED <<out, sink_write, sent>>
  BY DEF WriteStep
<1>3. Gone = G /\ G \in Nat /\ write_report = 0 /\ sink_write = "open" /\ l \in Nat
  BY <1>2, TaskFields DEF MemoryInv, Gone
<1>4. /\ in' = in /\ Landing' = Landing /\ received' = received /\ sent' = sent
      /\ out' = out /\ sink_read' = sink_read /\ sink_write' = sink_write
  BY <1>2 DEF receiver, Landing
<1>5. PICK flow, ends : Transcript(sent, flow, ends) /\ Carried(flow, ends)
  BY DEF FlowInv
<1>6. Carried(flow, ends)'
  <2> DEFINE a == ends[Len(received)]
             b == in.bytes
             x == Landing
             e == a + Len(b) + Len(x)
             c == SubSeq(o, G + 1, G + n)
  <2>1. SUFFICES ASSUME sink_read = "open"
                 PROVE  /\ Arriving(flow, a, b, x, w \o c)
                        /\ Departing(flow, e + Len(w \o c), o, G + n)
    BY <1>1, <1>4 DEF Carried
  <2>2. Arriving(flow, a, b, x, w) /\ Departing(flow, e + Len(w), o, G)
    BY <1>3, <1>5, <2>1 DEF Carried, Lost
  <2>3. /\ flow \in Seq(Bytes) /\ o \in Seq(Bytes) /\ w \in Seq(Bytes)
        /\ Len(w) \in Nat /\ Len(b) \in Nat /\ Len(x) \in Nat
    BY <1>5, Pieces DEF Transcript
  <2>4. At(w, flow, e) /\ At(b, flow, a) /\ At(x, flow, a + Len(b))
    BY <2>2 DEF Arriving
  <2>5. e \in Nat
    BY <2>4 DEF At
  <2> HIDE DEF e, o, G, w
  <2>6. At(o, flow, (e + Len(w)) - G) /\ (e + Len(w)) - G + l = Len(flow)
    BY <2>2 DEF Departing
  <2> HIDE DEF l
  <2> DEFINE q == (e + Len(w)) - G
             k == Len(w)
             h == G + n
  <2>7. h \in Nat /\ G <= h /\ h <= l /\ q + G = e + k /\ h - G = n /\ k \in Nat
    BY <1>1, <1>3, <2>3, <2>5
  <2>8. At(o, flow, q) /\ q + l = Len(flow)
    BY <2>6
  <2> HIDE DEF q, h
  <2>9. c \in Seq(Bytes) /\ Len(c) = n /\ At(c, flow, e + k)
    <3>1. /\ SubSeq(o, G + 1, h) \in Seq(Bytes) /\ Len(SubSeq(o, G + 1, h)) = h - G
          /\ At(SubSeq(o, G + 1, h), flow, q + G)
      BY <1>3, <2>3, <2>7, <2>8, AtPart DEF l
    <3> QED
      BY <2>7, <3>1 DEF h
  <2> HIDE DEF c
  <2>10. At(w \o c, flow, e) /\ Len(w \o c) = k + n
    BY <2>3, <2>4, <2>9, AtConcat, ConcatProperties
  <2>11. Arriving(flow, a, b, x, w \o c)
    BY <2>4, <2>10 DEF Arriving, e
  <2>12. (e + (k + n)) - (G + n) = q
    <3> HIDE DEF k
    <3>1. q = (e + k) - G
      BY DEF q, k
    <3> QED
      BY <1>3, <2>5, <2>7, <3>1
  <2>13. Departing(flow, e + (k + n), o, G + n)
    <3> DEFINE u == (e + (k + n)) - (G + n)
    <3>1. u = q
      BY <2>12
    <3> HIDE DEF u
    <3>2. At(o, flow, u) /\ u + Len(o) = Len(flow)
      BY <2>8, <3>1 DEF l
    <3> QED
      BY <3>2 DEF Departing, u
  <2> QED
    BY <2>10, <2>11, <2>13
<1> QED
  BY <1>4, <1>5, <1>6 DEF FlowInv

(* The stream reads: bytes go from the socket to the lent memory. *)
LEMMA ReadStepFlow ==
  ASSUME MemoryInv, FlowInv, ReadStep
  PROVE  FlowInv'
<1>1. PICK n \in Nat : /\ n > 0 /\ n <= Len(wire) /\ read_report' = n
                       /\ landed'.bytes = SubSeq(wire, 1, n)
                       /\ wire' = SubSeq(wire, n + 1, Len(wire))
  BY ReadStepMemory
<1>2. read_report = 0
  BY ReadStepMemory
<1>3. /\ in' = in /\ received' = received /\ sent' = sent /\ sink_read' = sink_read
      /\ out' = out /\ write_report' = write_report /\ sink_write' = sink_write /\ Gone' = Gone
  BY DEF ReadStep, sender, Gone
<1>4. Landing = << >> /\ Len(Landing) = 0 /\ Landing' = SubSeq(wire, 1, n)
  BY <1>1, <1>2, EmptySeq DEF Landing
<1>5. PICK flow, ends : Transcript(sent, flow, ends) /\ Carried(flow, ends)
  BY DEF FlowInv
<1>6. Carried(flow, ends)'
  <2> DEFINE a == ends[Len(received)]
             b == in.bytes
             w == wire
             l == Len(w)
             e == a + Len(b)
             c == SubSeq(w, 1, n)
             v == SubSeq(w, n + 1, l)
  <2>1. SUFFICES ASSUME sink_read = "open"
                 PROVE  /\ Arriving(flow, a, b, c, v)
                        /\ write_report # Lost /\ sink_write = "open" =>
                              Departing(flow, e + Len(c) + Len(v), out.bytes, Gone)
    BY <1>1, <1>3, <1>4 DEF Carried
  <2>2. /\ Arriving(flow, a, b, << >>, w)
        /\ write_report # Lost /\ sink_write = "open" =>
              Departing(flow, e + 0 + l, out.bytes, Gone)
    BY <1>4, <1>5, <2>1 DEF Carried
  <2>3. flow \in Seq(Bytes) /\ w \in Seq(Bytes) /\ l \in Nat /\ Len(b) \in Nat /\ Len(<< >>) = 0
    BY <1>4, <1>5, Pieces DEF Transcript
  <2>4. At(b, flow, a) /\ At(w, flow, e + 0)
    BY <2>2, <2>3 DEF Arriving
  <2>5. a \in Nat
    BY <2>4 DEF At
  <2> HIDE DEF a, b, w
  <2>6. e \in Nat /\ e + 0 = e
    BY <2>3, <2>5
  <2>7. At(w, flow, e)
    BY <2>4, <2>6
  <2>8. n <= l
    BY <1>1 DEF w
  <2> HIDE DEF e
  <2>9. c \in Seq(Bytes) /\ Len(c) = n /\ At(c, flow, e)
    <3>1. 0 \in Nat /\ 0 <= n
      BY <1>1
    <3>2. /\ SubSeq(w, 0 + 1, n) \in Seq(Bytes) /\ Len(SubSeq(w, 0 + 1, n)) = n - 0
          /\ At(SubSeq(w, 0 + 1, n), flow, e + 0)
      BY <2>3, <2>7, <2>8, <3>1, AtPart
    <3>3. 0 + 1 = 1 /\ n - 0 = n
      BY <1>1
    <3> QED
      BY <2>6, <3>2, <3>3
  <2>10. Len(v) = l - n /\ At(v, flow, e + n)
    <3>1. l \in Nat /\ l <= Len(w)
      BY <2>3
    <3> HIDE DEF l
    <3>2. Len(SubSeq(w, n + 1, l)) = l - n /\ At(SubSeq(w, n + 1, l), flow, e + n)
      BY <2>3, <2>7, <2>8, <3>1, AtPart
    <3> QED
      BY <3>2
  <2> HIDE DEF c, v, l
  <2>11. Arriving(flow, a, b, c, v)
    BY <2>4, <2>9, <2>10 DEF Arriving, e
  <2>12. e + Len(c) + Len(v) = e + 0 + l
    BY <1>1, <2>3, <2>6, <2>8, <2>9, <2>10
  <2> QED
    BY <2>2, <2>11, <2>12
<1> QED
  BY <1>3, <1>5, <1>6 DEF FlowInv

(* It cannot, or its report is taken by a sink that fails, or the other    *)
(* peer hangs up.                                                          *)
LEMMA ReaderStopsFlow ==
  ASSUME MemoryInv, FlowInv, ReadStepFails \/ ReadSinkFails \/ Disconnect \/ UNCHANGED vars
  PROVE  FlowInv'
<1>1. PICK flow, ends : Transcript(sent, flow, ends) /\ Carried(flow, ends)
  BY DEF FlowInv
<1>2. CASE ReadSinkFails
  <2>1. /\ received' = received /\ sent' = sent /\ sink_read' # "open"
    BY <1>2 DEF ReadSinkFails, sender
  <2>2. Carried(flow, ends)'
    BY <2>1 DEF Carried
  <2> QED
    BY <1>1, <2>1, <2>2 DEF FlowInv
<1>3. CASE ReadStepFails
  <2>1. /\ in' = in /\ received' = received /\ sent' = sent /\ sink_read' = sink_read
        /\ out' = out /\ write_report' = write_report /\ sink_write' = sink_write
        /\ Gone' = Gone /\ wire' = wire
    BY <1>3 DEF ReadStepFails, sender, Gone
  <2>2. Landing' = Landing
    <3>1. read_report = 0 /\ read_report' = Lost
      BY <1>3 DEF ReadStepFails, MemoryInv, ReceiverOK, Reading, None
    <3> QED
      BY <3>1 DEF Landing, Lost
  <2>3. Carried(flow, ends)'
    BY <1>1, <2>1, <2>2 DEF Carried
  <2> QED
    BY <1>1, <2>1, <2>3 DEF FlowInv
<1>4. CASE Disconnect \/ UNCHANGED vars
  <2>1. /\ in' = in /\ received' = received /\ sent' = sent /\ sink_read' = sink_read
        /\ out' = out /\ write_report' = write_report /\ sink_write' = sink_write
        /\ Gone' = Gone /\ wire' = wire /\ Landing' = Landing
    BY <1>4 DEF Disconnect, vars, sender, receiver, Gone, Landing
  <2>2. Carried(flow, ends)'
    BY <1>1, <2>1 DEF Carried
  <2> QED
    BY <1>1, <2>1, <2>2 DEF FlowInv
<1> QED
  BY <1>2, <1>3, <1>4

(* The sink of readDone: received grows by messages of the flow. *)
LEMMA ReadSinkFlow ==
  ASSUME DecodeAdvances(Seq(Bytes)), DecodeInverts(Seq(Bytes)), MemoryInv, FlowInv, ReadSink
  PROVE  FlowInv' /\ At(received, received', 0)
<1> DEFINE r == Filled
           x == DecodeAll(r)
           w == WriteSegmentLength(r)
           k == Len(received)
<1>1. /\ sink_read = "open" /\ read_report > 0 /\ read_report' = 0
      /\ w = 0 => sink_read' = "too long" /\ received' = received
      /\ w # 0 => in' = x.ring /\ received' = received \o x.messages
      /\ UNCHANGED sender /\ UNCHANGED <<landed, wire>>
  BY DEF ReadSink, Filled, None
<1>2. /\ received \in Seq(Outgoing) /\ At(received, sent, 0) /\ sent \in Seq(Outgoing)
      /\ k \in Nat /\ Len(sent) \in Nat /\ k <= Len(sent)
  <2>1. received \in Seq(Outgoing) /\ At(received, sent, 0) /\ sent \in Seq(Outgoing)
    BY Pieces DEF FlowInv
  <2>2. k \in Nat /\ Len(sent) \in Nat /\ 0 + k <= Len(sent)
    BY <2>1, LenProperties DEF At
  <2> HIDE DEF k
  <2> QED
    BY <2>1, <2>2
<1>3. PICK flow, ends : Transcript(sent, flow, ends) /\ Carried(flow, ends)
  BY DEF FlowInv
<1>4. /\ sent' = sent /\ wire' = wire /\ Landing' = << >> /\ Gone' = Gone
      /\ out' = out /\ write_report' = write_report /\ sink_write' = sink_write
  <2>1. read_report' = 0 /\ UNCHANGED sender /\ wire' = wire
    BY <1>1
  <2>2. Landing' = << >>
    BY <2>1 DEF Landing
  <2>3. /\ sent' = sent /\ write_task' = write_task /\ out' = out
        /\ write_report' = write_report /\ sink_write' = sink_write
    BY <2>1 DEF sender
  <2>4. Gone' = Gone
    BY <2>3 DEF Gone
  <2> QED
    BY <2>1, <2>2, <2>3, <2>4
<1>5. CASE w = 0
  <2>1. sink_read' # "open" /\ received' = received
    BY <1>1, <1>5
  <2>2. Carried(flow, ends)'
    BY <2>1 DEF Carried
  <2>3. At(received, received, 0)
    <3>1. 0 + Len(received) <= Len(received) /\ 0 \in Nat /\ \A i \in 1..Len(received) : 0 + i = i
      BY <1>2
    <3> QED
      BY <3>1 DEF At
  <2> QED
    BY <1>2, <1>3, <1>4, <2>1, <2>2, <2>3 DEF FlowInv
<1>6. CASE w # 0
  <2> DEFINE a == ends[k]
             b == in.bytes
             lb == landed.bytes
             ms == x.messages
             g == x.ring.bytes
             j == k + Len(ms)
             z == wire
             fb == r.bytes
  <2>1. in' = x.ring /\ received' = received \o ms
    BY <1>1, <1>6
  <2>2. /\ r \in InRings /\ fb = b \o lb /\ Len(fb) = Len(b) + Len(lb)
        /\ b \in Seq(Bytes) /\ lb \in Seq(Bytes) /\ Len(b) \in Nat /\ Len(lb) \in Nat
    BY <1>1, FilledRing DEF MemoryInv
  <2>3. Landing = lb
    BY <1>1 DEF Landing
  <2>4. /\ Arriving(flow, a, b, lb, z)
        /\ write_report # Lost /\ sink_write = "open" =>
              Departing(flow, a + Len(b) + Len(lb) + Len(z), out.bytes, Gone)
    BY <1>1, <1>3, <2>3 DEF Carried
  <2>5. flow \in Seq(Bytes)
    BY <1>3 DEF Transcript
  <2>6. At(b, flow, a) /\ At(lb, flow, a + Len(b)) /\ At(z, flow, a + Len(b) + Len(lb)) /\ a \in Nat
    BY <2>4 DEF Arriving, At
  <2>7. At(fb, flow, a)
    <3> HIDE DEF a, b, lb, fb, r
    <3>1. At(b \o lb, flow, a)
      BY <2>2, <2>5, <2>6, AtConcat
    <3> QED
      BY <2>2, <3>1
  <2>8. LoopFlowing(sent, flow, ends, k, a + Len(fb), x)
    <3> HIDE DEF r, k
    <3> QED
      BY <1>2, <1>3, <2>2, <2>7, LoopFlow
  <2>9. /\ ms \in Seq(Outgoing) /\ At(ms, sent, k) /\ At(g, flow, ends[j])
        /\ ends[j] + Len(g) = a + Len(fb)
    BY <2>8 DEF LoopFlowing
  <2> HIDE DEF x, r, ms, g
  <2>10. /\ received' \in Seq(Outgoing) /\ Len(received') = j
         /\ At(received', sent, 0) /\ At(received, received', 0)
    <3>1. 0 + k = k
      BY <1>2
    <3>2. At(received \o ms, sent, 0)
      BY <1>2, <2>9, <3>1, AtConcat
    <3>3. received \o ms \in Seq(Outgoing) /\ Len(received \o ms) = j
      BY <1>2, <2>9, ConcatProperties
    <3>4. At(received, received, 0)
      <4>1. 0 + Len(received) <= Len(received) /\ 0 \in Nat /\ \A i \in 1..Len(received) : 0 + i = i
        BY <1>2
      <4> QED
        BY <4>1 DEF At
    <3>5. At(received, received \o ms, 0)
      BY <1>2, <2>9, <3>4, AtGrown
    <3> QED
      BY <2>1, <3>2, <3>3, <3>5
  <2>11. Carried(flow, ends)'
    <3> DEFINE c == ends[j]
               d == a + Len(b) + Len(lb)
               y == Len(z)
               u == Len(g)
    <3>1. /\ in'.bytes = g /\ ends[Len(received')] = c /\ Landing' = << >> /\ wire' = z
          /\ Len(<< >>) = 0
      BY <1>4, <2>1, <2>10, EmptySeq DEF g
    <3>2. c \in Nat /\ c + u = d /\ u \in Nat /\ y \in Nat /\ d \in Nat /\ d <= Len(flow)
      <4>1. c \in Nat
        BY <2>9 DEF At
      <4>2. u \in Nat
        <5>1. x \in LoopStates
          <6>1. \A s \in LoopStates : DecodeRound(s) \in LoopStates
            BY RoundIs
          <6>2. Start(r) \in LoopStates
            <7>1. << >> \in Seq(Decoded) /\ "none" \in Errors
              BY EmptySeq DEF Errors
            <7> QED
              BY <2>2, <7>1 DEF Start, LoopStates
          <6>3. Len(r.bytes) \in Nat
            BY <2>2, Sizes, RingFields DEF InRings
          <6> QED
            BY <6>1, <6>2, <6>3, LoopKeeps DEF x
        <5>2. x.ring \in InRings
          BY <5>1 DEF LoopStates
        <5> QED
          BY <5>2, Sizes, RingFields DEF InRings, g
      <4>3. y \in Nat
        BY Pieces
      <4>4. d \in Nat /\ d + y <= Len(flow) /\ Len(flow) \in Nat
        BY <2>5, <2>6, LenProperties DEF At
      <4>5. c + u = d
        <5> DEFINE bl == Len(b)
                   ll == Len(lb)
                   fl == Len(fb)
        <5>1. fl = bl + ll /\ bl \in Nat /\ ll \in Nat /\ c + u = a + fl /\ a \in Nat
          BY <2>2, <2>6, <2>9
        <5> HIDE DEF bl, ll, fl, a, c, u
        <5>2. c + u = a + bl + ll
          BY <5>1
        <5> QED
          BY <5>2 DEF bl, ll
      <4> HIDE DEF c, d, u, y
      <4>6. d <= Len(flow)
        BY <4>3, <4>4
      <4> QED
        BY <4>1, <4>2, <4>3, <4>4, <4>5, <4>6
    <3>3. At(g, flow, c) /\ At(z, flow, d)
      BY <2>6, <2>9
    <3>4. write_report # Lost /\ sink_write = "open" => Departing(flow, d + y, out.bytes, Gone)
      BY <2>4
    <3> HIDE DEF a, b, lb, c, d, y, j
    <3>5. At(<< >>, flow, c + u)
      BY <2>5, <3>2, AtNothing
    <3>6. c + u + 0 = d
      BY <3>2
    <3>7. Arriving(flow, c, g, << >>, z)
      BY <3>1, <3>3, <3>5, <3>6 DEF Arriving
    <3>8. c + Len(g) + Len(<< >>) + Len(z) = d + y
      BY <3>1, <3>2, <3>6 DEF y
    <3>9. write_report # Lost /\ sink_write = "open" =>
            Departing(flow, c + Len(g) + Len(<< >>) + Len(z), out.bytes, Gone)
      BY <3>4, <3>8
    <3> QED
      BY <1>4, <3>1, <3>7, <3>9 DEF Carried
  <2> QED
    BY <1>3, <1>4, <2>10, <2>11 DEF FlowInv
<1> QED
  BY <1>5, <1>6

(* Every step. *)
LEMMA NextFlow ==
  ASSUME EncodeAppends(Seq(Bytes)), DecodeAdvances(Seq(Bytes)), DecodeInverts(Seq(Bytes)),
         MemoryInv, FlowInv, [Next]_vars
  PROVE  FlowInv'
<1>1. CASE UNCHANGED vars \/ Disconnect
  BY <1>1, ReaderStopsFlow
<1>2. CASE \E m \in Outgoing : Send(m)
  BY <1>2, SendFlow
<1>3. CASE WriteSink
  BY <1>3, WriteSinkFlow
<1>4. CASE WriteSinkFails \/ WriteStepFails
  <2>1. /\ UNCHANGED receiver /\ UNCHANGED <<sent, wire>>
        /\ write_report' = Lost \/ sink_write' # "open"
    BY <1>4 DEF WriteSinkFails, WriteStepFails
  <2> QED
    BY <2>1, WriterGoneFlow
<1>5. CASE ReadSink
  BY <1>5, ReadSinkFlow
<1>6. CASE ReadSinkFails \/ ReadStepFails
  BY <1>6, ReaderStopsFlow
<1>7. CASE WriteStep
  BY <1>7, WriteStepFlow
<1>8. CASE ReadStep
  BY <1>8, ReadStepFlow
<1> QED
  BY <1>1, <1>2, <1>3, <1>4, <1>5, <1>6, <1>7, <1>8 DEF Next, Sinks, Streams

(* A part at the front is a prefix. *)
LEMMA AtIsPrefix ==
  ASSUME NEW S, NEW s \in Seq(S), NEW t \in Seq(S), At(s, t, 0)
  PROVE  Channel!IsPrefixOf(s, t)
<1>1. Len(s) \in Nat /\ Len(t) \in Nat /\ 0 + Len(s) <= Len(t)
  BY LenProperties DEF At
<1>2. Len(s) <= Len(t)
  BY <1>1
<1>3. At(t, t, 0)
  <2>1. 0 + Len(t) <= Len(t) /\ 0 \in Nat /\ \A i \in 1..Len(t) : 0 + i = i
    BY <1>1
  <2> QED
    BY <2>1 DEF At
<1>4. SubSeq(t, 1, Len(s)) = s
  BY <1>2, <1>3, AtFront
<1> QED
  BY <1>2, <1>4 DEF Channel!IsPrefixOf

(* Every step is one of the channel, or leaves it alone. *)
LEMMA StepOfChannel ==
  ASSUME EncodeAppends(Seq(Bytes)), DecodeAdvances(Seq(Bytes)), DecodeInverts(Seq(Bytes)),
         MemoryInv, FlowInv, FlowInv', [Next]_vars
  PROVE  [Channel!Next]_<<sent, received>>
<1>1. ASSUME NEW m \in Outgoing, Send(m) PROVE Channel!Next
  <2>1. sent' = Append(sent, m) /\ received' = received
    BY <1>1 DEF Send, receiver
  <2> QED
    BY <2>1 DEF Channel!Next, Channel!Send
<1>2. ASSUME ReadSink PROVE Channel!Next
  <2>1. At(received, received', 0)
    BY <1>2, ReadSinkFlow
  <2>2. sent' = sent
    BY <1>2 DEF ReadSink, sender
  <2>3. received \in Seq(Outgoing) /\ sent \in Seq(Outgoing)
    BY Pieces DEF FlowInv
  <2>4. received' \in Seq(Outgoing) /\ At(received', sent, 0)
    BY <2>2 DEF FlowInv
  <2>5. Channel!IsPrefixOf(received, received')
    <3> DEFINE s == received'
    <3>1. s \in Seq(Outgoing) /\ At(received, s, 0)
      BY <2>1, <2>4
    <3> HIDE DEF s
    <3>2. Channel!IsPrefixOf(received, s)
      BY <2>3, <3>1, AtIsPrefix
    <3> QED
      BY <3>2 DEF s
  <2>6. Channel!IsPrefixOf(received', sent)
    <3> DEFINE s == received'
    <3>1. s \in Seq(Outgoing) /\ At(s, sent, 0)
      BY <2>4
    <3> HIDE DEF s
    <3>2. Channel!IsPrefixOf(s, sent)
      BY <2>3, <3>1, AtIsPrefix
    <3> QED
      BY <3>2 DEF s
  <2> QED
    BY <2>2, <2>5, <2>6 DEF Channel!Next, Channel!Deliver
<1>3. ASSUME \/ UNCHANGED vars \/ Disconnect \/ WriteSink \/ WriteSinkFails \/ ReadSinkFails
             \/ Streams
      PROVE  UNCHANGED <<sent, received>>
  BY <1>3 DEF vars, sender, receiver, Disconnect, WriteSink, WriteSinkFails, ReadSinkFails,
              Streams, WriteStep, WriteStepFails, ReadStep, ReadStepFails
<1> QED
  BY <1>1, <1>2, <1>3 DEF Next, Sinks

(* The two peers implement the channel of messages, for rings, a socket    *)
(* and a number of messages of every size: what handle() is given is what  *)
(* send() accepted, in its order.  Of the codec it is assumed that decode  *)
(* inverts encode on a buffer that begins with a packet, fails on a part   *)
(* of a packet, and may refuse what it likes.                              *)
THEOREM PeersImplementChannel ==
  ASSUME EncodeAppends(Seq(Bytes)), DecodeAdvances(Seq(Bytes)), DecodeInverts(Seq(Bytes))
  PROVE  Spec => ImplementsChannel
<1>1. Init => MemoryInv /\ FlowInv
  BY InitMemory, InitFlow
<1>2. MemoryInv /\ FlowInv /\ [Next]_vars => (MemoryInv /\ FlowInv)'
  BY NextMemory, NextFlow
<1>3. Init => Channel!Init
  BY DEF Init, Channel!Init
<1>4. /\ MemoryInv /\ FlowInv /\ (MemoryInv /\ FlowInv)' /\ [Next]_vars
      => [Channel!Next]_<<sent, received>>
  BY StepOfChannel
<1> QED
  BY <1>1, <1>2, <1>3, <1>4, PTL DEF Spec, ImplementsChannel, Channel!Spec
=============================================================================
