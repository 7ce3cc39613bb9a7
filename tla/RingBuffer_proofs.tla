-------------------------- MODULE RingBuffer_proofs --------------------------
(***************************************************************************)
(* The ring buffer is a first-in first-out queue of bytes, for every size, *)
(* every set of bytes and every length of transfer.                        *)
(***************************************************************************)
EXTENDS RingBuffer, SequenceTheorems, TLAPS

(* The positions and the flag, as one predicate. *)
PositionsOK ==
    /\ read_position \in Positions
    /\ write_position \in Positions
    /\ write_reached_read \in BOOLEAN
    /\ write_reached_read => read_position = write_position

(* Both composite lengths are between zero and the size, and add up to it. *)
LEMMA Lengths ==
  ASSUME PositionsOK
  PROVE  /\ readCompositeLength \in 0..Size
         /\ writeCompositeLength \in 0..Size
         /\ readCompositeLength + writeCompositeLength = Size
<1>1. /\ Size \in Nat /\ Size > 0
      /\ read_position \in Int /\ 0 <= read_position /\ read_position < Size
      /\ write_position \in Int /\ 0 <= write_position /\ write_position < Size
  BY SizeAssumption DEF PositionsOK, Positions
<1>2. CASE write_reached_read
  BY <1>1, <1>2 DEF PositionsOK, readCompositeLength, writeCompositeLength
<1>3. CASE ~write_reached_read
  BY <1>1, <1>3 DEF readCompositeLength, writeCompositeLength
<1> QED
  BY <1>2, <1>3 DEF PositionsOK

(* A segment to read stays inside the vector and inside what was written. *)
LEMMA ReadSegment ==
  ASSUME PositionsOK, NEW offset \in 0..(readCompositeLength - 1)
  PROVE  LET n == readSegmentLength(offset) IN
         /\ n \in Nat /\ n > 0
         /\ offset + n <= readCompositeLength
         /\ Wrap(read_position + offset) + n <= Size
<1>1. /\ Size \in Nat /\ Size > 0
      /\ read_position \in Int /\ 0 <= read_position /\ read_position < Size
      /\ write_position \in Int /\ 0 <= write_position /\ write_position < Size
  BY SizeAssumption DEF PositionsOK, Positions
<1>2. readCompositeLength \in Int /\ offset \in Int /\ 0 <= offset
      /\ offset < readCompositeLength
  BY Lengths
<1>3. CASE write_reached_read
  <2>1. readCompositeLength = Size /\ read_position = write_position
    BY <1>1, <1>3 DEF PositionsOK, readCompositeLength
  <2> QED
    BY <1>1, <1>2, <2>1 DEF readSegmentLength, Wrap
<1>4. CASE ~write_reached_read
  <2>1. readCompositeLength = IF write_position < read_position
                              THEN Size - (read_position - write_position)
                              ELSE write_position - read_position
    BY <1>4 DEF readCompositeLength
  <2> QED
    BY <1>1, <1>2, <2>1 DEF readSegmentLength, Wrap
<1> QED
  BY <1>3, <1>4 DEF PositionsOK

(* A segment to write stays inside the vector and outside what is unread. *)
LEMMA WriteSegment ==
  ASSUME PositionsOK, NEW offset \in 0..(writeCompositeLength - 1)
  PROVE  LET n == writeSegmentLength(offset) IN
         /\ n \in Nat /\ n > 0
         /\ offset + n <= writeCompositeLength
         /\ Wrap(write_position + offset) + n <= Size
<1>1. /\ Size \in Nat /\ Size > 0
      /\ read_position \in Int /\ 0 <= read_position /\ read_position < Size
      /\ write_position \in Int /\ 0 <= write_position /\ write_position < Size
  BY SizeAssumption DEF PositionsOK, Positions
<1>2. writeCompositeLength \in Int /\ offset \in Int /\ 0 <= offset
      /\ offset < writeCompositeLength
  BY Lengths
<1>3. ~write_reached_read
  <2> SUFFICES ASSUME write_reached_read PROVE FALSE
    OBVIOUS
  <2>1. writeCompositeLength = 0
    BY <1>1 DEF PositionsOK, writeCompositeLength
  <2> QED
    BY <2>1, <1>2
<1>4. writeCompositeLength = IF read_position > write_position
                             THEN read_position - write_position
                             ELSE Size - (write_position - read_position)
  BY <1>3 DEF writeCompositeLength
<1> QED
  BY <1>1, <1>2, <1>3, <1>4 DEF writeSegmentLength, Wrap

-----------------------------------------------------------------------------
(* What holds of the ring and of the bytes in it, apart from a transfer. *)
RingOK == /\ buffer \in [Positions -> Byte]
          /\ PositionsOK
          /\ fifo \in Seq(Byte)
          /\ Len(fifo) = readCompositeLength
          /\ \A i \in 1..Len(fifo) :
                buffer[Wrap(read_position + (i - 1))] = fifo[i]

(* Copying a run of bytes into the first segment appends it to the queue. *)
LEMMA CopyInRing ==
  ASSUME RingOK, NEW data \in Seq(Byte), Len(data) > 0,
         Len(data) <= writeCompositeLength,
         write_position + Len(data) <= Size, CopyIn(data)
  PROVE  /\ RingOK'
         /\ fifo' = fifo \o data
         /\ writeCompositeLength' = writeCompositeLength - Len(data)
<1> DEFINE n == Len(data)
           r == read_position
           w == write_position
           L == readCompositeLength
<1>1. /\ Size \in Nat /\ Size > 0 /\ n \in Nat /\ n > 0
      /\ r \in Int /\ 0 <= r /\ r < Size
      /\ w \in Int /\ 0 <= w /\ w < Size /\ w + n <= Size
      /\ L \in Int /\ n <= Size - L /\ 0 <= L
  BY Lengths, SizeAssumption, LenProperties DEF RingOK, PositionsOK, Positions
<1>2. ~write_reached_read
  <2> SUFFICES ASSUME write_reached_read PROVE FALSE
    OBVIOUS
  <2>1. writeCompositeLength = 0
    BY <1>1 DEF RingOK, PositionsOK, writeCompositeLength
  <2> QED
    BY <2>1, <1>1
<1>3. L = IF w < r THEN Size - (r - w) ELSE w - r
  BY <1>2 DEF readCompositeLength
<1>4. /\ buffer' = [i \in Positions |-> IF i \in w..(w + n - 1)
                                       THEN data[i - w + 1] ELSE buffer[i]]
      /\ write_position' = Wrap(w + n) /\ read_position' = r
      /\ fifo' = fifo \o data
  BY DEF CopyIn, writeAdvance
<1>5. write_reached_read' = (n > 0 /\ Wrap(w + n) = r)
  BY DEF CopyIn, writeAdvance
<1>6. PositionsOK'
  <2>1. Wrap(w + n) \in Positions /\ r \in Positions
    BY <1>1 DEF Wrap, Positions
  <2>2. write_reached_read' \in BOOLEAN
    BY <1>5
  <2>3. write_reached_read' => read_position' = write_position'
    BY <1>4, <1>5
  <2> QED
    BY <2>1, <2>2, <2>3, <1>4 DEF PositionsOK
<1>7. readCompositeLength' = L + n
  <2>1. CASE Wrap(w + n) = r
    <3>1. write_reached_read'
      BY <2>1, <1>1, <1>5
    <3>2. readCompositeLength' = Size
      BY <3>1, <2>1, <1>1, <1>4 DEF readCompositeLength
    <3> QED
      BY <3>2, <2>1, <1>1, <1>3 DEF Wrap
  <2>2. CASE Wrap(w + n) # r
    <3>1. ~write_reached_read'
      BY <2>2, <1>5
    <3>2. readCompositeLength' = IF Wrap(w + n) < r
                                 THEN Size - (r - Wrap(w + n))
                                 ELSE Wrap(w + n) - r
      BY <3>1, <1>4 DEF readCompositeLength
    <3> QED
      BY <3>2, <2>2, <1>1, <1>3 DEF Wrap
  <2> QED
    BY <2>1, <2>2
<1>8. /\ fifo' \in Seq(Byte) /\ Len(fifo') = L + n /\ Len(fifo) = L
      /\ \A i \in 1..(L + n) : fifo'[i] = IF i <= L THEN fifo[i] ELSE data[i - L]
  BY <1>4, ConcatProperties DEF RingOK
<1>9. \A i \in 1..n : data[i] \in Byte
  BY ElementOfSeq
<1>10. buffer' \in [Positions -> Byte]
  <2>1. ASSUME NEW i \in Positions, i \in w..(w + n - 1)
        PROVE  data[i - w + 1] \in Byte
    <3>1. i - w + 1 \in 1..n
      BY <2>1, <1>1 DEF Positions
    <3> QED
      BY <3>1, <1>9
  <2> QED
    BY <2>1, <1>4 DEF RingOK
<1>11. ASSUME NEW i \in 1..(L + n)
       PROVE  buffer'[Wrap(r + (i - 1))] = fifo'[i]
  <2> DEFINE p == Wrap(r + (i - 1))
  <2>1. p \in Positions
    BY <1>1 DEF Wrap, Positions
  <2>2. CASE i <= L
    <3>1. ~(p \in w..(w + n - 1)) /\ i \in 1..L
      BY <2>2, <1>1, <1>3 DEF Wrap
    <3>2. buffer'[p] = buffer[p]
      BY <2>1, <3>1, <1>4
    <3>3. buffer[p] = fifo[i]
      BY <3>1, <1>8 DEF RingOK
    <3> QED
      BY <2>2, <3>2, <3>3, <1>8
  <2>3. CASE i > L
    <3>1. p = w + (i - L) - 1 /\ p \in w..(w + n - 1) /\ p - w + 1 = i - L
      BY <2>3, <1>1, <1>3 DEF Wrap
    <3>2. buffer'[p] = data[i - L]
      BY <2>1, <3>1, <1>4
    <3>3. ~(i <= L)
      BY <2>3, <1>1
    <3> QED
      BY <3>2, <3>3, <1>8
  <2> QED
    BY <2>2, <2>3, <1>1
<1>12. RingOK'
  BY <1>4, <1>6, <1>7, <1>8, <1>10, <1>11 DEF RingOK
<1>13. writeCompositeLength' = Size - (L + n) /\ writeCompositeLength = Size - L
  <2>1. writeCompositeLength = Size - L
    BY <1>1, <1>2, <1>3 DEF writeCompositeLength
  <2>2. CASE Wrap(w + n) = r
    <3>1. write_reached_read'
      BY <2>2, <1>1, <1>5
    <3>2. writeCompositeLength' = 0 /\ readCompositeLength' = Size
      BY <3>1, <2>2, <1>1, <1>4 DEF writeCompositeLength, readCompositeLength
    <3> QED
      BY <2>1, <3>2, <1>1, <1>7
  <2>3. CASE Wrap(w + n) # r
    <3>1. ~write_reached_read'
      BY <2>3, <1>5
    <3>2. writeCompositeLength' = IF r > Wrap(w + n) THEN r - Wrap(w + n)
                                  ELSE Size - (Wrap(w + n) - r)
      BY <3>1, <1>4 DEF writeCompositeLength
    <3>3. (IF r > Wrap(w + n) THEN r - Wrap(w + n)
           ELSE Size - (Wrap(w + n) - r)) = Size - (L + n)
      <4>1. Wrap(w + n) = IF w + n = Size THEN 0 ELSE w + n
        BY <1>1 DEF Wrap
      <4>2. CASE w < r
        <5>1. L = Size - (r - w) /\ w + n < r /\ w + n # Size
          BY <4>1, <4>2, <2>3, <1>1, <1>3
        <5>2. Wrap(w + n) = w + n /\ r > w + n
          BY <4>1, <5>1, <1>1
        <5> QED
          BY <5>1, <5>2, <1>1
      <4>3. CASE ~(w < r)
        <5>1. L = w - r
          BY <4>3, <1>3
        <5> QED
          BY <4>1, <4>3, <5>1, <2>3, <1>1
      <4> QED
        BY <4>2, <4>3
    <3> QED
      BY <2>1, <3>2, <3>3
  <2> QED
    BY <2>2, <2>3
<1> QED
  BY <1>1, <1>4, <1>12, <1>13

(* Copying a run of bytes out of the first segment takes it off the front. *)
LEMMA CopyOutRing ==
  ASSUME RingOK, NEW n \in Nat, n > 0, n <= readCompositeLength,
         read_position + n <= Size, CopyOut(n)
  PROVE  /\ RingOK'
         /\ Front(n) = SubSeq(fifo, 1, n)
         /\ fifo' = SubSeq(fifo, n + 1, Len(fifo))
<1> DEFINE r == read_position
           w == write_position
           L == readCompositeLength
<1>1. /\ Size \in Nat /\ Size > 0
      /\ r \in Int /\ 0 <= r /\ r < Size /\ r + n <= Size
      /\ w \in Int /\ 0 <= w /\ w < Size
      /\ L \in Int /\ n <= L /\ L <= Size
  BY Lengths, SizeAssumption DEF RingOK, PositionsOK, Positions
<1>2. L = IF w < r THEN Size - (r - w)
          ELSE IF write_reached_read THEN Size ELSE w - r
  BY DEF readCompositeLength
<1>3. /\ buffer' = buffer /\ read_position' = Wrap(r + n)
      /\ write_position' = w
      /\ fifo' = SubSeq(fifo, n + 1, Len(fifo))
  BY DEF CopyOut, readAdvance
<1>4. ~write_reached_read'
  <2>1. n # 0
    OBVIOUS
  <2>2. write_reached_read' = (write_reached_read /\ n = 0)
    BY DEF CopyOut, readAdvance
  <2> QED
    BY <2>1, <2>2, Zenon
<1>5. write_reached_read' \in BOOLEAN
  BY DEF CopyOut, readAdvance
<1>6. PositionsOK'
  <2>1. Wrap(r + n) \in Positions /\ w \in Positions
    BY <1>1 DEF Wrap, Positions
  <2> QED
    BY <2>1, <1>3, <1>4, <1>5 DEF PositionsOK
<1>7. readCompositeLength' = L - n
  <2>1. readCompositeLength' = IF w < Wrap(r + n)
                               THEN Size - (Wrap(r + n) - w)
                               ELSE w - Wrap(r + n)
    BY <1>3, <1>4 DEF readCompositeLength
  <2>2. CASE write_reached_read
    <3>1. L = Size /\ w = r
      BY <2>2, <1>1 DEF RingOK, PositionsOK, readCompositeLength
    <3> QED
      BY <2>1, <3>1, <1>1 DEF Wrap
  <2>3. CASE ~write_reached_read
    <3>1. L = IF w < r THEN Size - (r - w) ELSE w - r
      BY <2>3, <1>2
    <3> QED
      BY <2>1, <3>1, <1>1 DEF Wrap
  <2> QED
    BY <2>2, <2>3
<1>8. Len(fifo) = L /\ \A i \in 1..L : fifo[i] \in Byte
  BY ElementOfSeq DEF RingOK
<1>9. /\ fifo' \in Seq(Byte) /\ Len(fifo') = L - n
      /\ \A i \in 1..(L - n) : fifo'[i] = fifo[n + i]
  <2>1. \A i \in (n + 1)..L : fifo[i] \in Byte
    BY <1>1, <1>8
  <2>2. /\ SubSeq(fifo, n + 1, L) \in Seq(Byte)
        /\ Len(SubSeq(fifo, n + 1, L)) = IF n + 1 <= L THEN L - (n + 1) + 1 ELSE 0
        /\ \A i \in 1..(L - (n + 1) + 1) :
              SubSeq(fifo, n + 1, L)[i] = fifo[n + 1 + i - 1]
    <3> HIDE DEF L
    <3> QED
      BY <2>1, <1>1, SubSeqProperties
  <2>3. /\ (IF n + 1 <= L THEN L - (n + 1) + 1 ELSE 0) = L - n
        /\ L - (n + 1) + 1 = L - n
        /\ \A i \in 1..(L - n) : n + 1 + i - 1 = n + i
    BY <1>1
  <2>4. fifo' = SubSeq(fifo, n + 1, L)
    BY <1>3, <1>8
  <2> HIDE DEF L
  <2> QED
    BY <2>2, <2>3, <2>4
<1>10. ASSUME NEW i \in 1..(L - n)
       PROVE  buffer'[Wrap(Wrap(r + n) + (i - 1))] = fifo'[i]
  <2>1. n + i \in 1..L /\ Wrap(Wrap(r + n) + (i - 1)) = Wrap(r + ((n + i) - 1))
    BY <1>1 DEF Wrap
  <2>2. buffer[Wrap(r + ((n + i) - 1))] = fifo[n + i]
    BY <2>1, <1>8 DEF RingOK
  <2> QED
    BY <2>1, <2>2, <1>3, <1>9
<1>11. RingOK'
  BY <1>3, <1>6, <1>7, <1>9, <1>10 DEF RingOK
<1>12. Front(n) = SubSeq(fifo, 1, n)
  <2>1. \A i \in 1..n : fifo[i] \in Byte
    BY <1>1, <1>8
  <2>2. /\ SubSeq(fifo, 1, n) \in Seq(Byte) /\ Len(SubSeq(fifo, 1, n)) = n
        /\ \A i \in 1..n : SubSeq(fifo, 1, n)[i] = fifo[i]
    BY <2>1, <1>1, SubSeqProperties
  <2>3. ASSUME NEW i \in 1..n
        PROVE  buffer[r + i - 1] = fifo[i]
    <3>1. Wrap(r + (i - 1)) = r + i - 1 /\ i \in 1..L
      BY <1>1 DEF Wrap
    <3> QED
      BY <3>1, <1>8 DEF RingOK
  <2>4. SubSeq(fifo, 1, n) \in [1..n -> Byte]
    BY <2>2, LenProperties
  <2> QED
    BY <2>2, <2>3, <2>4 DEF Front
<1> QED
  BY <1>3, <1>11, <1>12

-----------------------------------------------------------------------------
(* With no room the first segment to write is empty, and with nothing to   *)
(* read the first segment to read is: whoever takes a whole first segment, *)
(* or a part of it, stays inside the vector and inside the composite.      *)
LEMMA FirstWriteSegment ==
  ASSUME PositionsOK
  PROVE  /\ writeSegmentLength(0) \in Nat
         /\ writeSegmentLength(0) <= writeCompositeLength
         /\ write_position + writeSegmentLength(0) <= Size
         /\ writeCompositeLength > 0 => writeSegmentLength(0) > 0
<1>1. /\ Size \in Nat /\ Size > 0
      /\ read_position \in Int /\ 0 <= read_position /\ read_position < Size
      /\ write_position \in Int /\ 0 <= write_position /\ write_position < Size
      /\ Wrap(write_position + 0) = write_position
  BY SizeAssumption DEF PositionsOK, Positions, Wrap
<1>2. CASE write_reached_read
  <2>1. writeSegmentLength(0) = 0 /\ writeCompositeLength = 0
    BY <1>1, <1>2 DEF PositionsOK, writeSegmentLength, writeCompositeLength
  <2> QED
    BY <2>1, <1>1
<1>3. CASE ~write_reached_read
  <2>1. writeSegmentLength(0) = IF read_position > write_position
                                THEN read_position - write_position
                                ELSE Size - write_position
    BY <1>1, <1>3 DEF writeSegmentLength
  <2>2. writeCompositeLength = IF read_position > write_position
                               THEN read_position - write_position
                               ELSE Size - (write_position - read_position)
    BY <1>3 DEF writeCompositeLength
  <2> QED
    BY <2>1, <2>2, <1>1
<1> QED
  BY <1>2, <1>3 DEF PositionsOK

(* The same of the first segment to read. *)
LEMMA FirstReadSegment ==
  ASSUME PositionsOK
  PROVE  /\ readSegmentLength(0) \in Nat
         /\ readSegmentLength(0) <= readCompositeLength
         /\ read_position + readSegmentLength(0) <= Size
         /\ readCompositeLength > 0 => readSegmentLength(0) > 0
<1>1. /\ Size \in Nat /\ Size > 0
      /\ read_position \in Int /\ 0 <= read_position /\ read_position < Size
      /\ write_position \in Int /\ 0 <= write_position /\ write_position < Size
      /\ Wrap(read_position + 0) = read_position
  BY SizeAssumption DEF PositionsOK, Positions, Wrap
<1>2. CASE write_reached_read
  <2>1. readCompositeLength = Size /\ read_position = write_position
    BY <1>1, <1>2 DEF PositionsOK, readCompositeLength
  <2>2. readSegmentLength(0) = Size - read_position
    BY <2>1, <1>1 DEF readSegmentLength
  <2> QED
    BY <2>1, <2>2, <1>1
<1>3. CASE ~write_reached_read
  <2>1. readCompositeLength = IF write_position < read_position
                              THEN Size - (read_position - write_position)
                              ELSE write_position - read_position
    BY <1>3 DEF readCompositeLength
  <2>2. readSegmentLength(0) = IF write_position < read_position
                               THEN Size - read_position
                               ELSE write_position - read_position
    BY <2>1, <1>1 DEF readSegmentLength
  <2> QED
    BY <2>1, <2>2, <1>1
<1> QED
  BY <1>2, <1>3 DEF PositionsOK

-----------------------------------------------------------------------------
(* The calls in progress, with what the invariant says of their progress. *)
Ops == {Idle}
         \cup [kind : {"push"}, rest : Seq(Byte), goal : Seq(Byte)]
         \cup [kind : {"pop"}, left : Nat, got : Seq(Byte), goal : Seq(Byte)]

(* What a transfer under way owes its caller. *)
OpOK == /\ op.kind = "push" => /\ fifo \o op.rest = op.goal
                               /\ Len(op.rest) <= writeCompositeLength
        /\ op.kind = "pop" => /\ op.left <= Len(fifo)
                              /\ op.got \o SubSeq(fifo, 1, op.left) = op.goal

(* The inductive invariant.  After a wipe only the types and the positions *)
(* are left, and nothing happens any more.                                 *)
IInv == /\ buffer \in [Positions -> Byte]
        /\ PositionsOK
        /\ fifo \in Seq(Byte)
        /\ wiped \in BOOLEAN
        /\ op \in Ops
        /\ ~wiped => RingOK /\ OpOK

(* The empty ring satisfies the invariant. *)
LEMMA InitIInv == Init => IInv
<1> SUFFICES ASSUME Init PROVE IInv
  OBVIOUS
<1>1. 0 \in Positions /\ Size \in Nat
  BY SizeAssumption DEF Positions
<1>2. PositionsOK
  BY <1>1 DEF Init, PositionsOK
<1>3. buffer \in [Positions -> Byte] /\ fifo \in Seq(Byte) /\ Len(fifo) = 0
  BY ByteAssumption DEF Init
<1>4. readCompositeLength = 0
  BY <1>1 DEF Init, readCompositeLength
<1>5. RingOK
  BY <1>2, <1>3, <1>4 DEF RingOK
<1>6. op \in Ops /\ op.kind = "idle" /\ wiped = FALSE
  BY DEF Init, Ops, Idle
<1>7. OpOK
  BY <1>6 DEF OpOK
<1> QED
  BY <1>2, <1>3, <1>5, <1>6, <1>7 DEF IInv

(* An operation outside a transfer that leaves the ring in order. *)
LEMMA IdleKeepsIInv ==
  ASSUME RingOK', op = Idle, op' = Idle, wiped' \in BOOLEAN
  PROVE  IInv'
<1>1. op' \in Ops /\ op'.kind = "idle"
  BY DEF Ops, Idle
<1>2. OpOK'
  BY <1>1 DEF OpOK
<1> QED
  BY <1>1, <1>2 DEF IInv, RingOK

(* Writing outside a transfer: push(value) and a stream that has read. *)
LEMMA WriteIInv ==
  ASSUME IInv, ~wiped, NEW data \in Seq(Byte), Len(data) > 0, op = Idle,
         Len(data) <= writeCompositeLength,
         write_position + Len(data) <= Size, CopyIn(data), UNCHANGED op
  PROVE  IInv'
<1>1. RingOK'
  BY CopyInRing DEF IInv
<1>2. wiped' \in BOOLEAN
  BY DEF IInv, CopyIn
<1> QED
  BY <1>1, <1>2, IdleKeepsIInv

(* Reading outside a transfer: pop(value) and a stream that has written. *)
LEMMA ReadIInv ==
  ASSUME IInv, ~wiped, NEW n \in Nat, n > 0, op = Idle,
         n <= readCompositeLength, read_position + n <= Size,
         CopyOut(n), UNCHANGED op
  PROVE  IInv'
<1>1. RingOK'
  BY CopyOutRing DEF IInv
<1>2. wiped' \in BOOLEAN
  BY DEF IInv, CopyOut
<1> QED
  BY <1>1, <1>2, IdleKeepsIInv

(* Bytes given to a transfer or to a stream. *)
LEMMA ChunkIsSeq ==
  ASSUME NEW data \in Chunks
  PROVE  data \in Seq(Byte) /\ Len(data) \in Nat /\ Len(data) > 0
<1>1. PICK n \in 1..MaxChunk : data \in [1..n -> Byte]
  BY DEF Chunks
<1>2. n \in Nat /\ n > 0
  BY ChunkAssumption
<1> QED
  BY <1>1, <1>2

(* push(value) and pop(value). *)
LEMMA PushByteIInv == ASSUME IInv, ~wiped, NEW b \in Byte, PushByte(b) PROVE IInv'
<1> DEFINE data == <<b>>
<1>1. data \in Seq(Byte) /\ Len(data) = 1
  OBVIOUS
<1>2. writeCompositeLength \in Int /\ 1 <= writeCompositeLength
  BY Lengths, SizeAssumption DEF PushByte, IInv
<1>3. write_position + 1 <= Size
  BY SizeAssumption DEF IInv, PositionsOK, Positions
<1>4. op = Idle /\ CopyIn(data) /\ UNCHANGED op
  BY DEF PushByte
<1> HIDE DEF data
<1>5. /\ Len(data) > 0 /\ Len(data) <= writeCompositeLength
      /\ write_position + Len(data) <= Size
  BY <1>1, <1>2, <1>3
<1> QED
  BY <1>1, <1>4, <1>5, WriteIInv

(* pop(uint8_t&) returns the oldest byte and frees its cell. *)
LEMMA PopByteIInv == ASSUME IInv, ~wiped, PopByte PROVE IInv'
<1>1. readCompositeLength \in Int /\ 1 <= readCompositeLength
  BY Lengths, SizeAssumption DEF PopByte, IInv
<1>2. read_position + 1 <= Size
  BY SizeAssumption DEF IInv, PositionsOK, Positions
<1> QED
  BY <1>1, <1>2, ReadIInv DEF PopByte

(* A stream takes at most the first segment. *)
LEMMA StreamInIInv ==
  ASSUME IInv, ~wiped, NEW data \in Chunks, StreamIn(data) PROVE IInv'
<1>1. data \in Seq(Byte) /\ Len(data) \in Nat /\ Len(data) > 0
  BY ChunkIsSeq
<1>2. /\ writeSegmentLength(0) \in Nat
      /\ writeSegmentLength(0) <= writeCompositeLength
      /\ write_position + writeSegmentLength(0) <= Size
      /\ Len(data) <= writeSegmentLength(0)
      /\ write_position \in Int /\ Size \in Int /\ writeCompositeLength \in Int
  BY FirstWriteSegment, Lengths, SizeAssumption
  DEF StreamIn, IInv, PositionsOK, Positions
<1>3. Len(data) <= writeCompositeLength /\ write_position + Len(data) <= Size
  BY <1>1, <1>2
<1> QED
  BY <1>1, <1>3, WriteIInv DEF StreamIn

(* Reading at readSegment() and advancing by n takes the n oldest bytes. *)
LEMMA StreamOutIInv ==
  ASSUME IInv, ~wiped, NEW n \in 1..MaxChunk, StreamOut(n) PROVE IInv'
<1>1. n \in Nat /\ n > 0
  BY ChunkAssumption
<1>2. /\ readSegmentLength(0) \in Nat
      /\ readSegmentLength(0) <= readCompositeLength
      /\ read_position + readSegmentLength(0) <= Size
      /\ n <= readSegmentLength(0)
      /\ read_position \in Int /\ Size \in Int /\ readCompositeLength \in Int
  BY FirstReadSegment, Lengths, SizeAssumption
  DEF StreamOut, IInv, PositionsOK, Positions
<1>3. n <= readCompositeLength /\ read_position + n <= Size
  BY <1>1, <1>2
<1> QED
  BY <1>1, <1>3, ReadIInv DEF StreamOut

(* writeAdvance(0) moves nothing; on a full ring it clears the flag. *)
LEMMA StreamNothingIInv == ASSUME IInv, ~wiped, StreamNothing PROVE IInv'
<1>1. /\ Size \in Nat /\ Size > 0 /\ write_position \in Int
      /\ 0 <= write_position /\ write_position < Size
  BY SizeAssumption DEF IInv, PositionsOK, Positions
<1>2. Wrap(write_position + 0) = write_position
  BY <1>1 DEF Wrap
<1>3. /\ write_position' = write_position /\ read_position' = read_position
      /\ buffer' = buffer /\ op' = op /\ fifo' = fifo
  BY <1>2 DEF StreamNothing, writeAdvance
<1>4. ~write_reached_read' /\ write_reached_read' \in BOOLEAN
  <2>1. write_reached_read' = (0 > 0 /\ Wrap(write_position + 0) = read_position)
    BY DEF StreamNothing, writeAdvance
  <2>2. ~(0 > 0)
    OBVIOUS
  <2> QED
    BY <2>1, <2>2, Zenon
<1>5. PositionsOK'
  BY <1>3, <1>4 DEF IInv, PositionsOK
<1>6. op' \in Ops /\ fifo' \in Seq(Byte) /\ buffer' \in [Positions -> Byte]
      /\ op = Idle
  BY <1>3 DEF IInv, StreamNothing
<1>7. wiped' = (wiped \/ write_reached_read)
  BY DEF StreamNothing
<1>8. wiped' \in BOOLEAN
  BY <1>7
<1>9. ASSUME ~wiped' PROVE RingOK' /\ OpOK'
  <2>1. ~write_reached_read
    BY <1>7, <1>9
  <2>2. readCompositeLength' = readCompositeLength
    BY <1>3, <1>4, <2>1 DEF readCompositeLength
  <2>3. RingOK'
    BY <1>3, <1>5, <2>2 DEF IInv, RingOK
  <2>4. op'.kind = "idle"
    BY <1>3, <1>6 DEF Idle
  <2> QED
    BY <2>3, <2>4 DEF OpOK
<1> QED
  BY <1>5, <1>6, <1>8, <1>9 DEF IInv

(* A transfer begins: the bytes it promises are fixed. *)
LEMMA PushChunkIInv ==
  ASSUME IInv, ~wiped, NEW data \in Chunks, PushChunk(data) PROVE IInv'
<1>1. data \in Seq(Byte)
  BY ChunkIsSeq
<1>2. op' = [kind |-> "push", rest |-> data, goal |-> fifo \o data]
  BY DEF PushChunk
<1>3. /\ UNCHANGED <<buffer, read_position, write_position, write_reached_read>>
      /\ UNCHANGED <<fifo, wiped>>
  BY DEF PushChunk, ring
<1>4. RingOK' /\ PositionsOK' /\ writeCompositeLength' = writeCompositeLength
  BY <1>3 DEF IInv, RingOK, PositionsOK, readCompositeLength, writeCompositeLength
<1>5. fifo \in Seq(Byte) /\ fifo \o data \in Seq(Byte)
  BY <1>1 DEF IInv
<1>6. op' \in Ops /\ op'.kind = "push" /\ op'.rest = data /\ op'.goal = fifo \o data
  BY <1>1, <1>2, <1>5 DEF Ops
<1>7. Len(data) <= writeCompositeLength
  BY DEF PushChunk
<1>8. OpOK'
  BY <1>3, <1>4, <1>6, <1>7 DEF OpOK
<1> QED
  BY <1>3, <1>4, <1>6, <1>8 DEF IInv

(* pop(uint8_t*, n) either refuses and changes nothing or starts a call. *)
LEMMA PopChunkIInv ==
  ASSUME IInv, ~wiped, NEW n \in 1..MaxChunk, PopChunk(n) PROVE IInv'
<1>1. n \in Nat /\ n <= Len(fifo) /\ fifo \in Seq(Byte)
  BY ChunkAssumption DEF PopChunk, IInv, RingOK
<1>2. op' = [kind |-> "pop", left |-> n, got |-> << >>, goal |-> SubSeq(fifo, 1, n)]
  BY DEF PopChunk
<1>3. /\ UNCHANGED <<buffer, read_position, write_position, write_reached_read>>
      /\ UNCHANGED <<fifo, wiped>>
  BY DEF PopChunk, ring
<1>4. RingOK' /\ PositionsOK'
  BY <1>3 DEF IInv, RingOK, PositionsOK, readCompositeLength
<1>5. SubSeq(fifo, 1, n) \in Seq(Byte)
  <2>1. \A i \in 1..n : fifo[i] \in Byte
    BY <1>1, ElementOfSeq
  <2> QED
    BY <2>1, <1>1, SubSeqProperties
<1>6. /\ op' \in Ops /\ op'.kind = "pop" /\ op'.left = n /\ op'.got = << >>
      /\ op'.goal = SubSeq(fifo, 1, n)
  BY <1>1, <1>2, <1>5 DEF Ops
<1>7. << >> \o SubSeq(fifo, 1, n) = SubSeq(fifo, 1, n)
  BY <1>5
<1>8. OpOK'
  BY <1>1, <1>3, <1>6, <1>7 DEF OpOK
<1> QED
  BY <1>3, <1>4, <1>6, <1>8 DEF IInv

(* A sequence is its first k elements and the others. *)
LEMMA SplitSeq ==
  ASSUME NEW s \in Seq(Byte), NEW k \in 0..Len(s)
  PROVE  /\ SubSeq(s, 1, k) \in Seq(Byte) /\ Len(SubSeq(s, 1, k)) = k
         /\ SubSeq(s, k + 1, Len(s)) \in Seq(Byte)
         /\ Len(SubSeq(s, k + 1, Len(s))) = Len(s) - k
         /\ \A i \in 1..k : SubSeq(s, 1, k)[i] = s[i]
         /\ \A i \in 1..(Len(s) - k) : SubSeq(s, k + 1, Len(s))[i] = s[k + i]
<1> DEFINE n == Len(s)
<1>1. n \in Nat /\ k \in Nat /\ k <= n
  BY LenProperties
<1>2. \A i \in 1..n : s[i] \in Byte
  BY ElementOfSeq
<1> HIDE DEF n
<1>3. (\A i \in 1..k : s[i] \in Byte) /\ (\A i \in (k + 1)..n : s[i] \in Byte)
  BY <1>1, <1>2
<1>4. /\ SubSeq(s, 1, k) \in Seq(Byte)
      /\ Len(SubSeq(s, 1, k)) = IF 1 <= k THEN k - 1 + 1 ELSE 0
      /\ \A i \in 1..(k - 1 + 1) : SubSeq(s, 1, k)[i] = s[1 + i - 1]
  BY <1>1, <1>3, SubSeqProperties
<1>5. /\ SubSeq(s, k + 1, n) \in Seq(Byte)
      /\ Len(SubSeq(s, k + 1, n)) = IF k + 1 <= n THEN n - (k + 1) + 1 ELSE 0
      /\ \A i \in 1..(n - (k + 1) + 1) : SubSeq(s, k + 1, n)[i] = s[k + 1 + i - 1]
  BY <1>1, <1>3, SubSeqProperties
<1>6. /\ (IF 1 <= k THEN k - 1 + 1 ELSE 0) = k /\ k - 1 + 1 = k
      /\ (IF k + 1 <= n THEN n - (k + 1) + 1 ELSE 0) = n - k
      /\ n - (k + 1) + 1 = n - k
      /\ \A i \in 1..k : 1 + i - 1 = i
      /\ \A i \in 1..(n - k) : k + 1 + i - 1 = k + i
  BY <1>1
<1>7. /\ SubSeq(s, 1, k) \in Seq(Byte) /\ Len(SubSeq(s, 1, k)) = k
      /\ SubSeq(s, k + 1, n) \in Seq(Byte) /\ Len(SubSeq(s, k + 1, n)) = n - k
      /\ \A i \in 1..k : SubSeq(s, 1, k)[i] = s[i]
      /\ \A i \in 1..(n - k) : SubSeq(s, k + 1, n)[i] = s[k + i]
  BY <1>4, <1>5, <1>6
<1> QED
  BY <1>7 DEF n

(* Storing the first k bytes of the rest leaves the same total. *)
LEMMA MoveAcross ==
  ASSUME NEW a \in Seq(Byte), NEW s \in Seq(Byte), NEW k \in 0..Len(s)
  PROVE  (a \o SubSeq(s, 1, k)) \o SubSeq(s, k + 1, Len(s)) = a \o s
<1> DEFINE f == SubSeq(s, 1, k)
           g == SubSeq(s, k + 1, Len(s))
           h == a \o f
           n == Len(s)
           m == Len(a)
<1>1. /\ f \in Seq(Byte) /\ Len(f) = k /\ g \in Seq(Byte) /\ Len(g) = n - k
      /\ \A i \in 1..k : f[i] = s[i]
      /\ \A i \in 1..(n - k) : g[i] = s[k + i]
  BY SplitSeq
<1>2. n \in Nat /\ m \in Nat /\ k \in Nat /\ k <= n
  BY LenProperties
<1>3. Len(s) = n /\ Len(a) = m
  OBVIOUS
<1> HIDE DEF f, g, n, m
<1>4. /\ h \in Seq(Byte) /\ Len(h) = m + k
      /\ \A i \in 1..(m + k) : h[i] = IF i <= m THEN a[i] ELSE f[i - m]
  <2>1. /\ a \o f \in Seq(Byte) /\ Len(a \o f) = Len(a) + Len(f)
        /\ \A i \in 1..(Len(a) + Len(f)) :
              (a \o f)[i] = IF i <= Len(a) THEN a[i] ELSE f[i - Len(a)]
    BY <1>1, ConcatProperties
  <2>2. Len(a) = m /\ Len(f) = k
    BY <1>1, <1>3
  <2> QED
    BY <2>1, <2>2, Zenon DEF h
<1> HIDE DEF h
<1>5. /\ h \o g \in Seq(Byte) /\ Len(h \o g) = (m + k) + (n - k)
      /\ \A i \in 1..((m + k) + (n - k)) :
            (h \o g)[i] = IF i <= m + k THEN h[i] ELSE g[i - (m + k)]
  <2>1. /\ h \o g \in Seq(Byte) /\ Len(h \o g) = Len(h) + Len(g)
        /\ \A i \in 1..(Len(h) + Len(g)) :
              (h \o g)[i] = IF i <= Len(h) THEN h[i] ELSE g[i - Len(h)]
    BY <1>1, <1>4, ConcatProperties
  <2>2. Len(h) = m + k /\ Len(g) = n - k
    BY <1>1, <1>4
  <2> QED
    BY <2>1, <2>2, Zenon
<1>6. /\ a \o s \in Seq(Byte) /\ Len(a \o s) = m + n
      /\ \A i \in 1..(m + n) : (a \o s)[i] = IF i <= m THEN a[i] ELSE s[i - m]
  <2>1. /\ a \o s \in Seq(Byte) /\ Len(a \o s) = Len(a) + Len(s)
        /\ \A i \in 1..(Len(a) + Len(s)) :
              (a \o s)[i] = IF i <= Len(a) THEN a[i] ELSE s[i - Len(a)]
    BY ConcatProperties
  <2> QED
    BY <2>1, <1>3, Zenon
<1>7. (m + k) + (n - k) = m + n
  BY <1>2
<1>8. ASSUME NEW i \in 1..(m + n)
      PROVE  (h \o g)[i] = (a \o s)[i]
  <2>1. CASE i <= m
    <3>1. i \in 1..(m + k) /\ i <= m + k
      BY <2>1, <1>2
    <3> QED
      BY <2>1, <3>1, <1>4, <1>5, <1>6, <1>7
  <2>2. CASE i > m /\ i <= m + k
    <3>1. i \in 1..(m + k) /\ i - m \in 1..k /\ ~(i <= m)
      BY <2>2, <1>2
    <3> QED
      BY <2>2, <3>1, <1>1, <1>4, <1>5, <1>6, <1>7
  <2>3. CASE i > m + k
    <3>1. /\ i - (m + k) \in 1..(n - k) /\ ~(i <= m) /\ ~(i <= m + k)
          /\ k + (i - (m + k)) = i - m
      BY <2>3, <1>2
    <3> QED
      BY <3>1, <1>1, <1>5, <1>6, <1>7
  <2>4. i \in Int
    BY <1>2
  <2>5. i <= m \/ (i > m /\ i <= m + k) \/ i > m + k
    BY <2>4, <1>2
  <2> QED
    BY <2>1, <2>2, <2>3, <2>5
<1>9. h \o g = a \o s
  BY <1>5, <1>6, <1>7, <1>8, SeqEqual
<1> QED
  BY <1>9 DEF f, g, h

(* One iteration of push: a segment of the rest moves into the ring. *)
LEMMA PushSegmentIInv == ASSUME IInv, ~wiped, PushSegment PROVE IInv'
<1> DEFINE rest == op.rest
           room == writeSegmentLength(0)
           k == IF room < Len(rest) THEN room ELSE Len(rest)
           data == SubSeq(rest, 1, k)
           others == SubSeq(rest, k + 1, Len(rest))
<1>1. /\ op \in [kind : {"push"}, rest : Seq(Byte), goal : Seq(Byte)]
      /\ op.kind = "push" /\ rest # << >>
      /\ op' = [op EXCEPT !.rest = others]
      /\ CopyIn(data)
  BY DEF IInv, Ops, PushSegment, Idle
<1>2. rest \in Seq(Byte) /\ Len(rest) \in Nat /\ Len(rest) > 0
  BY <1>1, EmptySeq, LenProperties
<1>3. RingOK /\ fifo \o rest = op.goal /\ Len(rest) <= writeCompositeLength
  BY <1>1 DEF IInv, OpOK
<1>4. /\ room \in Nat /\ room <= writeCompositeLength /\ room > 0
      /\ write_position + room <= Size
      /\ writeCompositeLength \in Int /\ write_position \in Int /\ Size \in Int
  BY <1>2, <1>3, FirstWriteSegment, Lengths, SizeAssumption
  DEF IInv, PositionsOK, Positions
<1>5. /\ k \in 0..Len(rest) /\ k > 0 /\ k <= writeCompositeLength
      /\ write_position + k <= Size
  BY <1>2, <1>4
<1>6. /\ data \in Seq(Byte) /\ Len(data) = k
      /\ others \in Seq(Byte) /\ Len(others) = Len(rest) - k
  BY <1>2, <1>5, SplitSeq
<1>7. (fifo \o data) \o others = fifo \o rest
  BY <1>2, <1>5, MoveAcross DEF IInv
<1>8. wiped' = wiped
  BY <1>1 DEF CopyIn
<1>9. op' \in Ops /\ op'.kind = "push" /\ op'.rest = others /\ op'.goal = op.goal
  BY <1>1, <1>6 DEF Ops
<1> HIDE DEF k, data, others, rest, room
<1>10. /\ RingOK' /\ fifo' = fifo \o data
       /\ writeCompositeLength' = writeCompositeLength - Len(data)
  BY <1>1, <1>3, <1>5, <1>6, CopyInRing
<1>11. Len(others) <= writeCompositeLength'
  BY <1>2, <1>3, <1>4, <1>5, <1>6, <1>10
<1>12. OpOK'
  BY <1>3, <1>7, <1>9, <1>10, <1>11 DEF OpOK
<1> QED
  BY <1>8, <1>9, <1>10, <1>12 DEF IInv, RingOK

(* One iteration of pop: a segment moves from the ring to the caller. *)
LEMMA PopSegmentIInv == ASSUME IInv, ~wiped, PopSegment PROVE IInv'
<1> DEFINE left == op.left
           there == readSegmentLength(0)
           k == IF there < left THEN there ELSE left
           wanted == SubSeq(fifo, 1, left)
<1>1. /\ op \in [kind : {"pop"}, left : Nat, got : Seq(Byte), goal : Seq(Byte)]
      /\ op.kind = "pop" /\ left > 0
      /\ op' = [op EXCEPT !.left = left - k, !.got = op.got \o Front(k)]
      /\ CopyOut(k)
  BY DEF IInv, Ops, PopSegment, Idle
<1>2. left \in Nat
  BY <1>1
<1>3. RingOK /\ left <= Len(fifo) /\ op.got \o wanted = op.goal
      /\ Len(fifo) = readCompositeLength
  BY <1>1 DEF IInv, OpOK, RingOK
<1>4. /\ there \in Nat /\ there <= readCompositeLength /\ there > 0
      /\ read_position + there <= Size
      /\ readCompositeLength \in Int /\ read_position \in Int /\ Size \in Int
  BY <1>1, <1>2, <1>3, FirstReadSegment, Lengths, SizeAssumption
  DEF IInv, PositionsOK, Positions
<1>5. /\ k \in Nat /\ k > 0 /\ k <= left /\ k <= readCompositeLength
      /\ read_position + k <= Size
  BY <1>1, <1>2, <1>3, <1>4
<1>6. wiped' = wiped
  BY <1>1 DEF CopyOut
<1>7. fifo \in Seq(Byte) /\ op.got \in Seq(Byte) /\ op.goal \in Seq(Byte)
      /\ Len(fifo) \in Nat
  BY <1>1, LenProperties DEF IInv
<1> HIDE DEF k, there, left, wanted
<1>8. RingOK' /\ Front(k) = SubSeq(fifo, 1, k) /\ fifo' = SubSeq(fifo, k + 1, Len(fifo))
  BY <1>1, <1>3, <1>5, CopyOutRing
<1>9. /\ wanted \in Seq(Byte) /\ Len(wanted) = left
      /\ \A i \in 1..left : wanted[i] = fifo[i]
  BY <1>2, <1>3, <1>7, SplitSeq DEF wanted
<1>10. /\ Front(k) \in Seq(Byte) /\ Len(Front(k)) = k
       /\ \A i \in 1..k : Front(k)[i] = fifo[i]
       /\ fifo' \in Seq(Byte) /\ Len(fifo') = Len(fifo) - k
       /\ \A i \in 1..(Len(fifo) - k) : fifo'[i] = fifo[k + i]
  <2>1. k \in 0..Len(fifo)
    BY <1>3, <1>5, <1>7
  <2> QED
    BY <2>1, <1>7, <1>8, SplitSeq
<1>11. op' \in Ops /\ op'.kind = "pop" /\ op'.left = left - k
       /\ op'.got = op.got \o Front(k) /\ op'.goal = op.goal
  <2>1. left - k \in Nat /\ op.got \o Front(k) \in Seq(Byte)
    BY <1>2, <1>5, <1>7, <1>10
  <2> QED
    BY <2>1, <1>1 DEF Ops
<1>12. left - k <= Len(fifo')
  BY <1>2, <1>3, <1>5, <1>7, <1>10
<1>13. k \in 0..Len(wanted)
  BY <1>2, <1>5, <1>9
<1>14. Front(k) = SubSeq(wanted, 1, k)
  <2>1. /\ SubSeq(wanted, 1, k) \in Seq(Byte) /\ Len(SubSeq(wanted, 1, k)) = k
        /\ \A i \in 1..k : SubSeq(wanted, 1, k)[i] = wanted[i]
    BY <1>9, <1>13, SplitSeq
  <2>2. \A i \in 1..k : i \in 1..left
    BY <1>2, <1>5
  <2>3. \A i \in 1..k : SubSeq(wanted, 1, k)[i] = Front(k)[i]
    BY <2>1, <2>2, <1>9, <1>10
  <2> QED
    BY <2>1, <2>3, <1>10, SeqEqual
<1>15. SubSeq(fifo', 1, left - k) = SubSeq(wanted, k + 1, Len(wanted))
  <2> DEFINE a == SubSeq(fifo', 1, left - k)
             b == SubSeq(wanted, k + 1, Len(wanted))
  <2>1. /\ b \in Seq(Byte) /\ Len(b) = left - k
        /\ \A i \in 1..(left - k) : b[i] = wanted[k + i]
    BY <1>9, <1>13, SplitSeq
  <2>2. left - k \in 0..Len(fifo')
    BY <1>2, <1>5, <1>7, <1>10, <1>12
  <2>3. /\ a \in Seq(Byte) /\ Len(a) = left - k
        /\ \A i \in 1..(left - k) : a[i] = fifo'[i]
    BY <2>2, <1>10, SplitSeq
  <2>4. \A i \in 1..(left - k) : k + i \in 1..left /\ i \in 1..(Len(fifo) - k)
    BY <1>2, <1>3, <1>5, <1>7
  <2> HIDE DEF a, b
  <2>5. \A i \in 1..(left - k) : a[i] = b[i]
    BY <2>1, <2>3, <2>4, <1>9, <1>10
  <2>6. a = b
    BY <2>1, <2>3, <2>5, SeqEqual
  <2> QED
    BY <2>6 DEF a, b
<1>16. (op.got \o Front(k)) \o SubSeq(fifo', 1, left - k) = op.goal
  BY <1>3, <1>7, <1>9, <1>13, <1>14, <1>15, MoveAcross
<1>17. OpOK'
  BY <1>11, <1>12, <1>16 DEF OpOK
<1> QED
  BY <1>6, <1>8, <1>11, <1>17 DEF IInv, RingOK

(* push or pop returns. *)
LEMMA ReturnIInv == ASSUME IInv, ~wiped, Return PROVE IInv'
<1>1. /\ UNCHANGED <<buffer, read_position, write_position, write_reached_read>>
      /\ UNCHANGED <<fifo, wiped>> /\ op' = Idle
  BY DEF Return, ring
<1>2. RingOK' /\ PositionsOK'
  BY <1>1 DEF IInv, RingOK, PositionsOK, readCompositeLength
<1>3. op' \in Ops /\ op'.kind = "idle"
  BY <1>1 DEF Ops, Idle
<1>4. OpOK'
  BY <1>3 DEF OpOK
<1> QED
  BY <1>1, <1>2, <1>3, <1>4 DEF IInv

(* Every step of the buffer preserves the invariant. *)
LEMMA NextIInv == IInv /\ [Next]_vars => IInv'
<1> SUFFICES ASSUME IInv, [Next]_vars PROVE IInv'
  OBVIOUS
<1>1. CASE UNCHANGED vars
  BY <1>1 DEF vars, ring, IInv, PositionsOK, RingOK, OpOK,
              readCompositeLength, writeCompositeLength
<1>2. ASSUME Next PROVE IInv'
  <2>1. ~wiped
    BY <1>2 DEF Next
  <2>2. ASSUME NEW b \in Byte, PushByte(b) PROVE IInv'
    BY <2>1, <2>2, PushByteIInv
  <2>3. CASE PopByte
    BY <2>1, <2>3, PopByteIInv
  <2>4. ASSUME NEW data \in Chunks, PushChunk(data) PROVE IInv'
    BY <2>1, <2>4, PushChunkIInv
  <2>5. ASSUME NEW data \in Chunks, StreamIn(data) PROVE IInv'
    BY <2>1, <2>5, StreamInIInv
  <2>6. ASSUME NEW n \in 1..MaxChunk, PopChunk(n) PROVE IInv'
    BY <2>1, <2>6, PopChunkIInv
  <2>7. ASSUME NEW n \in 1..MaxChunk, StreamOut(n) PROVE IInv'
    BY <2>1, <2>7, StreamOutIInv
  <2>8. CASE PushSegment
    BY <2>1, <2>8, PushSegmentIInv
  <2>9. CASE PopSegment
    BY <2>1, <2>9, PopSegmentIInv
  <2>10. CASE Return
    BY <2>1, <2>10, ReturnIInv
  <2>11. CASE StreamNothing
    BY <2>1, <2>11, StreamNothingIInv
  <2> QED
    BY <1>2, <2>2, <2>3, <2>4, <2>5, <2>6, <2>7, <2>8, <2>9, <2>10, <2>11 DEF Next
<1> QED
  BY <1>1, <1>2

(* The inductive invariant holds in every reachable state. *)
THEOREM Invariance == Spec => []IInv
BY InitIInv, NextIInv, PTL DEF Spec

(* Every field keeps its type: no position ever leaves the vector. *)
THEOREM TypeCorrect == Spec => []TypeOK
<1>1. IInv => TypeOK
  BY DEF IInv, PositionsOK, TypeOK, Ops
<1> QED
  BY <1>1, Invariance, PTL

(* The ring is a first-in first-out queue of bytes, for every size and     *)
(* every mixture of single bytes, chunks and stream segments.              *)
THEOREM FirstInFirstOut == Spec => []Contents
<1>1. IInv => Contents
  BY DEF IInv, RingOK, Contents
<1> QED
  BY <1>1, Invariance, PTL

(* The flag and the two composite lengths agree, even after a wipe. *)
THEOREM LengthsAgree == Spec => []FlagAndLengths
<1>1. IInv => FlagAndLengths
  BY Lengths DEF IInv, PositionsOK, FlagAndLengths
<1> QED
  BY <1>1, Invariance, PTL

(* No segment handed out is empty or reaches out of the vector. *)
THEOREM SegmentsStayInside == Spec => []SegmentsFit
<1>1. IInv => SegmentsFit
  BY ReadSegment, WriteSegment DEF IInv, SegmentsFit
<1> QED
  BY <1>1, Invariance, PTL

(* push stores exactly what it was given, pop returns exactly what was at  *)
(* the front when it was called, however many segments they take.          *)
THEOREM TransfersAreExact == Spec => []TransfersExact
<1>1. IInv => TransfersExact
  BY DEF IInv, OpOK, TransfersExact
<1> QED
  BY <1>1, Invariance, PTL

-----------------------------------------------------------------------------
(* In the states of the invariant the mapped queue is the history fifo. *)
LEMMA MappedIsFifo == IInv => mapped = fifo
<1> SUFFICES ASSUME IInv PROVE mapped = fifo
  OBVIOUS
<1>1. CASE wiped
  BY <1>1 DEF mapped
<1>2. CASE ~wiped
  <2>1. /\ fifo \in Seq(Byte) /\ Len(fifo) = readCompositeLength
        /\ \A i \in 1..Len(fifo) : buffer[Wrap(read_position + (i - 1))] = fifo[i]
    BY <1>2 DEF IInv, RingOK
  <2>2. contents = [i \in 1..Len(fifo) |-> fifo[i]]
    BY <2>1 DEF contents
  <2>3. fifo = [i \in 1..Len(fifo) |-> fifo[i]]
    BY <2>1
  <2> QED
    BY <1>2, <2>2, <2>3 DEF mapped
<1> QED
  BY <1>1, <1>2 DEF IInv

(* The queue never holds more than the size of the buffer. *)
LEMMA FifoFits == IInv /\ ~wiped => Len(fifo) \in Nat /\ Len(fifo) <= Size
<1> SUFFICES ASSUME IInv, ~wiped PROVE Len(fifo) \in Nat /\ Len(fifo) <= Size
  OBVIOUS
<1>1. Len(fifo) = readCompositeLength /\ readCompositeLength \in 0..Size
  BY Lengths DEF IInv, RingOK
<1> QED
  BY <1>1, SizeAssumption

(* Both facts, of the state after a step. *)
LEMMA MappedIsFifoAfter == IInv' => mapped' = fifo'
<1>1. IInv' => (mapped = fifo)'
  BY MappedIsFifo, PTL
<1> QED
  BY <1>1

(* The same after a step. *)
LEMMA FifoFitsAfter == IInv' /\ ~wiped' => Len(fifo') \in Nat /\ Len(fifo') <= Size
<1>1. IInv' /\ (~wiped)' => (Len(fifo) \in Nat /\ Len(fifo) <= Size)'
  BY FifoFits, PTL
<1> QED
  BY <1>1

(* Appending some bytes, the buffer being in order again, is a Write of    *)
(* the queue.                                                              *)
LEMMA AppendIsWrite ==
  ASSUME IInv, IInv', ~wiped, NEW data \in Seq(Byte), Len(data) > 0, CopyIn(data)
  PROVE  Queue!Next
<1>1. fifo \in Seq(Byte) /\ fifo' = fifo \o data /\ ~wiped'
  BY DEF IInv, CopyIn
<1>2. mapped = fifo /\ mapped' = fifo'
  BY MappedIsFifo, MappedIsFifoAfter
<1>3. Len(fifo') \in Nat /\ Len(fifo') <= Size
  BY <1>1, FifoFitsAfter
<1>4. Len(fifo') = Len(fifo) + Len(data) /\ fifo' \in Seq(Byte)
  BY <1>1, ConcatProperties
<1>5. \A i \in 1..Len(fifo) : fifo'[i] = fifo[i]
  BY <1>1, ConcatProperties
<1>6. SubSeq(fifo', 1, Len(fifo)) = fifo
  <2>1. Len(fifo) \in Nat /\ Len(data) \in Nat
    BY <1>1
  <2>2. \A i \in 1..Len(fifo) : fifo'[i] \in Byte
    BY <1>1, <1>5
  <2>3. /\ SubSeq(fifo', 1, Len(fifo)) \in Seq(Byte)
        /\ Len(SubSeq(fifo', 1, Len(fifo))) = Len(fifo)
        /\ \A i \in 1..Len(fifo) : SubSeq(fifo', 1, Len(fifo))[i] = fifo'[i]
    BY <2>1, <2>2, SubSeqProperties
  <2> QED
    BY <2>3, <1>1, <1>5, SeqEqual
<1>7. Len(fifo') > Len(fifo)
  BY <1>1, <1>4
<1> QED
  BY <1>2, <1>3, <1>6, <1>7 DEF Queue!Next, Queue!Write

(* Taking n bytes off the front is a Read of the queue. *)
LEMMA CutIsRead ==
  ASSUME IInv, IInv', ~wiped, NEW n \in Nat, n > 0, n <= readCompositeLength,
         CopyOut(n)
  PROVE  Queue!Next
<1>1. fifo' = SubSeq(fifo, n + 1, Len(fifo)) /\ Len(fifo) = readCompositeLength
  BY DEF IInv, RingOK, CopyOut
<1>2. mapped = fifo /\ mapped' = fifo'
  BY MappedIsFifo, MappedIsFifoAfter
<1>3. n \in 1..Len(fifo)
  BY <1>1, FifoFits
<1> QED
  BY <1>1, <1>2, <1>3 DEF Queue!Next, Queue!Read

(* Every step of the buffer is a step of the queue, or leaves it alone. *)
LEMMA StepImplementsQueue ==
  ASSUME IInv, IInv', [Next]_vars PROVE [Queue!Next]_mapped
<1>1. mapped = fifo /\ mapped' = fifo'
  BY MappedIsFifo, MappedIsFifoAfter
<1>2. ASSUME UNCHANGED fifo PROVE UNCHANGED mapped
  BY <1>1, <1>2
<1>3. CASE UNCHANGED vars
  BY <1>2, <1>3 DEF vars
<1>4. ASSUME Next PROVE [Queue!Next]_mapped
  <2>1. ~wiped
    BY <1>4 DEF Next
  <2>2. ASSUME NEW b \in Byte, PushByte(b) PROVE Queue!Next
    <3> DEFINE data == <<b>>
    <3>1. data \in Seq(Byte) /\ Len(data) > 0 /\ CopyIn(data)
      BY <2>2 DEF PushByte
    <3> HIDE DEF data
    <3> QED
      BY <2>1, <3>1, AppendIsWrite
  <2>3. ASSUME PopByte PROVE Queue!Next
    <3>1. 1 <= readCompositeLength /\ CopyOut(1)
      BY <2>3, Lengths, SizeAssumption DEF PopByte, IInv
    <3> QED
      BY <2>1, <3>1, CutIsRead
  <2>4. ASSUME NEW data \in Chunks, StreamIn(data) PROVE Queue!Next
    BY <2>1, <2>4, ChunkIsSeq, AppendIsWrite DEF StreamIn
  <2>5. ASSUME NEW n \in 1..MaxChunk, StreamOut(n) PROVE Queue!Next
    <3>1. n \in Nat /\ n > 0
      BY ChunkAssumption
    <3>2. n <= readCompositeLength
      BY <2>5, <3>1, FirstReadSegment, Lengths, SizeAssumption DEF StreamOut, IInv
    <3> QED
      BY <2>1, <2>5, <3>1, <3>2, CutIsRead DEF StreamOut
  <2>6. ASSUME PushSegment PROVE Queue!Next
    <3> DEFINE room == writeSegmentLength(0)
               segment == IF room < Len(op.rest) THEN room ELSE Len(op.rest)
               data == SubSeq(op.rest, 1, segment)
    <3>1. CopyIn(data)
      BY <2>6 DEF PushSegment
    <3>2. op.rest \in Seq(Byte) /\ op.rest # << >>
      BY <2>6 DEF PushSegment, IInv, Ops, Idle
    <3>3. Len(op.rest) \in Nat /\ Len(op.rest) > 0
      BY <3>2
    <3>4. Len(op.rest) <= writeCompositeLength
      BY <2>1, <2>6 DEF PushSegment, IInv, OpOK
    <3>5. room \in Nat /\ room > 0
      BY <3>3, <3>4, FirstWriteSegment, Lengths, SizeAssumption DEF IInv
    <3>6. segment \in 1..Len(op.rest)
      BY <3>3, <3>5
    <3> HIDE DEF segment, room
    <3>7. data \in Seq(Byte) /\ Len(data) > 0
      <4>1. segment \in Int /\ 1 <= segment
        BY <3>6
      <4>2. \A i \in 1..segment : op.rest[i] \in Byte
        BY <3>2, <3>6
      <4> QED
        BY <4>1, <4>2, SubSeqProperties
    <3> HIDE DEF data
    <3> QED
      BY <2>1, <3>1, <3>7, AppendIsWrite
  <2>7. ASSUME PopSegment PROVE Queue!Next
    <3> DEFINE there == readSegmentLength(0)
               segment == IF there < op.left THEN there ELSE op.left
    <3>1. CopyOut(segment)
      BY <2>7 DEF PopSegment
    <3>2. op.left \in Nat /\ op.left > 0 /\ op.left <= Len(fifo)
      BY <2>1, <2>7 DEF PopSegment, IInv, Ops, Idle, OpOK
    <3>3. /\ Len(fifo) = readCompositeLength /\ readCompositeLength \in Nat
          /\ PositionsOK
      BY <2>1, Lengths, SizeAssumption DEF IInv, RingOK
    <3>4. /\ there \in Nat /\ there > 0
          /\ there <= readCompositeLength
      BY <3>2, <3>3, FirstReadSegment
    <3>5. segment \in Nat /\ segment > 0 /\ segment <= readCompositeLength
      BY <3>2, <3>3, <3>4
    <3> HIDE DEF segment, there
    <3> QED
      BY <2>1, <3>1, <3>5, CutIsRead
  <2>8. ASSUME \/ \E data \in Chunks : PushChunk(data)
               \/ \E n \in 1..MaxChunk : PopChunk(n)
               \/ Return \/ StreamNothing
        PROVE UNCHANGED mapped
    BY <1>2, <2>8 DEF PushChunk, PopChunk, Return, StreamNothing
  <2> QED
    BY <1>4, <2>2, <2>3, <2>4, <2>5, <2>6, <2>7, <2>8 DEF Next
<1> QED
  BY <1>3, <1>4

(* The ring buffer implements the bounded queue of bytes, for every size:  *)
(* what is seen through the positions and the flag changes only by         *)
(* appending within the size and by taking from the front.                 *)
THEOREM RingImplementsQueue == Spec => ImplementsByteQueue
<1>1. Init => Queue!Init
  <2> SUFFICES ASSUME Init PROVE Queue!Init
    OBVIOUS
  <2>1. IInv /\ fifo = << >>
    BY InitIInv DEF Init
  <2> QED
    BY <2>1, MappedIsFifo DEF Queue!Init
<1>2. IInv /\ IInv' /\ [Next]_vars => [Queue!Next]_mapped
  BY StepImplementsQueue
<1> QED
  BY <1>1, <1>2, Invariance, PTL DEF Spec, ImplementsByteQueue, Queue!Spec
=============================================================================
