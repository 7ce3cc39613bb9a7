---------------------------- MODULE AsyncIo_proofs ----------------------------
(***************************************************************************)
(* AsyncIo for every number of bytes, every capacity of the send buffer    *)
(* and all lengths that read() and write() may be given: the types, the    *)
(* bytes of reads and writes, and the reports that no task misses.         *)
(***************************************************************************)
EXTENDS AsyncIo, SequenceTheorems, TLAPS

-----------------------------------------------------------------------------
(* s is a run of consecutive numbers from a on. *)
IsRun(s, a) == \A k \in 1..Len(s) : s[k] = a + k - 1

(* A buffer with nothing in it is a run from anywhere. *)
LEMMA RunEmpty == \A a : IsRun(<< >>, a)
BY DEF IsRun

(* One byte more at the end, as PeerSends and PeerReceives put it there. *)
LEMMA RunAppend ==
  ASSUME NEW s \in Seq(Nat), NEW a \in Int, IsRun(s, a), NEW b \in Nat, b = a + Len(s)
  PROVE  /\ Append(s, b) \in Seq(Nat) /\ Len(Append(s, b)) = Len(s) + 1
         /\ IsRun(Append(s, b), a)
<1> DEFINE t == Append(s, b)
<1>1. Len(s) \in Nat
  BY LenProperties
<1>2. /\ t \in Seq(Nat) /\ Len(t) = Len(s) + 1
      /\ \A i \in 1..Len(s) : t[i] = s[i]
      /\ t[Len(s) + 1] = b
  BY AppendProperties
<1> HIDE DEF t
<1>3. IsRun(t, a)
  BY <1>1, <1>2 DEF IsRun
<1> QED
  BY <1>2, <1>3 DEF t

(* The first n bytes are a run, and the others go on where they end. *)
LEMMA RunSplit ==
  ASSUME NEW s \in Seq(Nat), NEW a \in Int, IsRun(s, a), NEW n \in 0..Len(s)
  PROVE  /\ SubSeq(s, 1, n) \in Seq(Nat) /\ Len(SubSeq(s, 1, n)) = n
         /\ SubSeq(s, n + 1, Len(s)) \in Seq(Nat)
         /\ Len(SubSeq(s, n + 1, Len(s))) = Len(s) - n
         /\ IsRun(SubSeq(s, 1, n), a)
         /\ IsRun(SubSeq(s, n + 1, Len(s)), a + n)
<1> DEFINE m == Len(s)
           f == SubSeq(s, 1, n)
           g == SubSeq(s, n + 1, m)
<1>1. m \in Nat /\ n \in Nat /\ n <= m /\ \A i \in 1..m : s[i] \in Nat
  BY LenProperties, ElementOfSeq
<1>2. IsRun(s, a) /\ m = Len(s)
  OBVIOUS
<1> HIDE DEF m
<1>3. /\ f \in Seq(Nat)
      /\ Len(f) = IF 1 <= n THEN n - 1 + 1 ELSE 0
      /\ \A i \in 1..(n - 1 + 1) : f[i] = s[1 + i - 1]
  BY <1>1, SubSeqProperties
<1>4. /\ g \in Seq(Nat)
      /\ Len(g) = IF n + 1 <= m THEN m - (n + 1) + 1 ELSE 0
      /\ \A i \in 1..(m - (n + 1) + 1) : g[i] = s[n + 1 + i - 1]
  BY <1>1, SubSeqProperties
<1> HIDE DEF f, g
<1>5. Len(f) = n /\ \A i \in 1..n : f[i] = s[i]
  BY <1>1, <1>3
<1>6. Len(g) = m - n /\ \A i \in 1..(m - n) : g[i] = s[n + i]
  BY <1>1, <1>4
<1>7. ASSUME NEW k \in 1..Len(f) PROVE f[k] = a + k - 1
  <2>1. k \in 1..n /\ k \in 1..Len(s)
    BY <1>1, <1>2, <1>5
  <2> QED
    BY <2>1, <1>2, <1>5 DEF IsRun
<1>8. ASSUME NEW k \in 1..Len(g) PROVE g[k] = a + n + k - 1
  <2>1. k \in 1..(m - n) /\ n + k \in 1..Len(s)
    BY <1>1, <1>2, <1>6
  <2>2. g[k] = s[n + k] /\ s[n + k] = a + (n + k) - 1
    BY <2>1, <1>2, <1>6 DEF IsRun
  <2> QED
    BY <2>1, <2>2, <1>1
<1>9. IsRun(f, a) /\ IsRun(g, a + n)
  BY <1>7, <1>8 DEF IsRun
<1> QED
  BY <1>3, <1>4, <1>5, <1>6, <1>9 DEF f, g, m

(* A run and its continuation are a run. *)
LEMMA RunConcat ==
  ASSUME NEW s \in Seq(Nat), NEW t \in Seq(Nat), NEW a \in Int,
         IsRun(s, a), IsRun(t, a + Len(s))
  PROVE  /\ s \o t \in Seq(Nat) /\ Len(s \o t) = Len(s) + Len(t)
         /\ IsRun(s \o t, a)
<1> DEFINE u == s \o t
<1>1. Len(s) \in Nat /\ Len(t) \in Nat
  BY LenProperties
<1>2. /\ u \in Seq(Nat) /\ Len(u) = Len(s) + Len(t)
      /\ \A i \in 1..(Len(s) + Len(t)) :
            u[i] = IF i <= Len(s) THEN s[i] ELSE t[i - Len(s)]
  BY ConcatProperties
<1> HIDE DEF u
<1>3. ASSUME NEW k \in 1..Len(u) PROVE u[k] = a + k - 1
  <2>1. CASE k <= Len(s)
    <3>1. k \in 1..Len(s) /\ u[k] = s[k]
      BY <1>1, <1>2, <2>1
    <3> QED
      BY <3>1 DEF IsRun
  <2>2. CASE k > Len(s)
    <3>1. k - Len(s) \in 1..Len(t) /\ u[k] = t[k - Len(s)]
      BY <1>1, <1>2, <2>2
    <3>2. t[k - Len(s)] = a + Len(s) + (k - Len(s)) - 1
      BY <3>1 DEF IsRun
    <3> QED
      BY <1>1, <3>1, <3>2
  <2> QED
    BY <1>1, <1>2, <2>1, <2>2
<1> QED
  BY <1>2, <1>3 DEF u, IsRun

(* The bytes that write() is given are a run, and every run is one of them. *)
LEMMA RunBytes ==
  ASSUME NEW a \in Nat, NEW n \in Nat
  PROVE  Bytes(a + 1, n) \in Seq(Nat) /\ Len(Bytes(a + 1, n)) = n
         /\ IsRun(Bytes(a + 1, n), a + 1)
BY DEF Bytes, IsRun

(* A run is the bytes that Bytes names. *)
LEMMA RunIsBytes ==
  ASSUME NEW s \in Seq(Nat), NEW a \in Int, IsRun(s, a)
  PROVE  s = Bytes(a, Len(s))
<1>1. Len(s) \in Nat /\ s \in [1..Len(s) -> Nat]
  BY LenProperties
<1> QED
  BY <1>1 DEF Bytes, IsRun

(* The oldest byte goes and the others stay a run. *)
LEMMA RunTail ==
  ASSUME NEW s \in Seq(Nat), NEW a \in Int, IsRun(s, a), s # << >>
  PROVE  /\ Len(s) > 0 /\ Head(s) = a /\ a \in Nat
         /\ Tail(s) \in Seq(Nat) /\ Len(Tail(s)) = Len(s) - 1
         /\ IsRun(Tail(s), a + 1)
<1>1. Len(s) \in Nat /\ Len(s) # 0
  BY LenProperties, EmptySeq
<1>2. /\ Tail(s) \in Seq(Nat) /\ Len(Tail(s)) = Len(s) - 1 /\ Head(s) \in Nat
      /\ \A i \in 1..Len(Tail(s)) : Tail(s)[i] = s[i + 1]
  BY HeadTailProperties
<1>3. Head(s) = s[1] /\ s[1] = a
  BY <1>1 DEF IsRun
<1> DEFINE t == Tail(s)
<1>4. t \in Seq(Nat) /\ Len(t) = Len(s) - 1 /\ \A i \in 1..Len(t) : t[i] = s[i + 1]
  BY <1>2
<1> HIDE DEF t
<1>5. IsRun(t, a + 1)
  BY <1>1, <1>4 DEF IsRun
<1> QED
  BY <1>1, <1>2, <1>3, <1>5 DEF t

-----------------------------------------------------------------------------
(* The inductive invariant, in parts. *)

(* The bytes in the receive buffer are the last ones the peer has sent,    *)
(* and those a running read has got are the ones just before them.         *)
ReceivedInOrder ==
    /\ Len(rx) <= received
    /\ IsRun(rx, received - Len(rx) + 1)
    /\ read_task # NoTask =>
          /\ Len(memory) + Len(rx) <= received
          /\ IsRun(memory, received - Len(rx) - Len(memory) + 1)

(* A running read knows how much it has got and how much it still needs. *)
ReadTaskOK ==
    read_task # NoTask =>
        /\ read_task.buffer = Len(memory) /\ read_task.already_read = Len(memory)
        /\ read_task.min_length + Len(memory) = read_task.asked
        /\ 0 < read_task.min_length /\ read_task.min_length <= read_task.max_length

(* A read that succeeded has reported as many bytes as it got. *)
LastReadOK ==
    last_read.ok =>
        /\ last_read.n >= last_read.asked
        /\ last_read.n = Len(last_read.bytes)
        /\ \E a \in Int : IsRun(last_read.bytes, a)

(* What the peer has got and what is on its way to it are the first bytes, *)
(* and while the connection stands the next one is the one the running     *)
(* write goes on with.                                                     *)
SentInOrder ==
    /\ Len(tx) <= SendBuffer
    /\ IsRun(delivered, 1)
    /\ IsRun(tx, Len(delivered) + 1)
    /\ peer \in {"open", "closed"} =>
          Len(delivered) + Len(tx) = IF write_task = NoTask THEN handed
                                     ELSE write_task.buffer - 1

(* A running write knows how much has gone and how much is left. *)
WriteTaskOK ==
    write_task # NoTask =>
        /\ write_task.buffer + write_task.length = handed + 1
        /\ write_task.already_written + write_task.length = write_task.asked
        /\ write_task.buffer > 0

LastWriteOK == last_write.ok => last_write.n = last_write.asked

(* Only a stream that exists has tasks, and a write that waits for room    *)
(* has left its mark in the kernel.                                        *)
WaitersKnown ==
    /\ read_task # NoTask => attached
    /\ write_task # NoTask => attached
    /\ write_task # NoTask /\ in_step # "write" /\ Len(tx) = SendBuffer
          => nospace \/ peer \in {"reset", "gone"}

(* The parts of TypeOK. *)
ReadTask == [min_length : Nat, max_length : Nat, already_read : Nat, buffer : Nat,
             asked : Nat]
WriteTask == [buffer : Nat, length : Nat \ {0}, already_written : Nat, asked : Nat]

ReadTypes == /\ rx \in Seq(Nat) /\ received \in Nat /\ memory \in Seq(Nat)
             /\ read_task \in {NoTask} \cup ReadTask
             /\ last_read \in [ok : BOOLEAN, n : Nat, asked : Nat, bytes : Seq(Nat)]

WriteTypes == /\ tx \in Seq(Nat) /\ delivered \in Seq(Nat) /\ handed \in Nat
              /\ write_task \in {NoTask} \cup WriteTask
              /\ last_write \in [ok : BOOLEAN, n : Nat, asked : Nat]

OtherTypes ==
    /\ peer \in {"open", "closed", "reset", "gone"}
    /\ disconnect_told \in BOOLEAN /\ nospace \in BOOLEAN /\ edge \in BOOLEAN
    /\ attached \in BOOLEAN
    /\ signals \in [{"in", "out", "hup"} -> Nat]
    /\ in_step \in {"none", "read", "write"}
    /\ read_done \in BOOLEAN /\ write_done \in BOOLEAN
    /\ on_read_disconnect \in {"none", "early", "late"}

ReadInv == ReadTypes /\ ReceivedInOrder /\ ReadTaskOK /\ LastReadOK

WriteInv == WriteTypes /\ SentInOrder /\ WriteTaskOK /\ LastWriteOK

SignalInv == OtherTypes /\ WaitersKnown /\ NoLostSignal

IInv == ReadInv /\ WriteInv /\ SignalInv

(* Who can disturb the first two parts. *)
LEMMA WhoReads ==
  ASSUME [Next]_vars
  PROVE  \/ UNCHANGED <<rx, received, read_task, memory, last_read>>
         \/ PeerSends /\ UNCHANGED <<read_task, memory, last_read>>
         \/ \E r \in ReadLengths : Read(r[1], r[2])
         \/ ReadSome
         \/ ReadEndOfFile
BY DEF Next, vars, kernel, readers, writers, listeners, Kernel, PeerCloses, PeerResets,
       PeerReceives, User, Attach, readDone, writeDone, onReadDisconnected, Write, pollImpl,
       ReadReady, WriteReady, ReadDisconnected, readStep, ReadBusy, ReadStepReturns,
       writeStep, WriteSome, WriteBusy, WriteDisconnected, WriteStepReturns

(* The actions that touch the sending side. *)
LEMMA WhoWrites ==
  ASSUME [Next]_vars
  PROVE  \/ UNCHANGED <<tx, delivered, peer, write_task, handed, last_write>>
         \/ PeerCloses /\ UNCHANGED <<handed, write_task, last_write>>
         \/ PeerResets /\ UNCHANGED <<handed, write_task, last_write>>
         \/ PeerReceives /\ UNCHANGED <<handed, write_task, last_write>>
         \/ \E length \in WriteLengths : Write(length)
         \/ ReadBusy
         \/ WriteSome
         \/ WriteDisconnected
BY DEF Next, vars, kernel, readers, writers, listeners, Kernel, PeerSends,
       User, Attach, readDone, writeDone, onReadDisconnected, Read, pollImpl,
       ReadReady, WriteReady, ReadDisconnected, readStep, ReadSome, ReadEndOfFile,
       ReadStepReturns, writeStep, WriteBusy, WriteStepReturns

-----------------------------------------------------------------------------
(* Reading. *)
LEMMA ReadInvInit == Init => ReadInv
BY EmptySeq, RunEmpty
   DEF Init, ReadInv, ReadTypes, ReceivedInOrder, ReadTaskOK, LastReadOK

(* The peer sends one byte more. *)
LEMMA PeerSendsReadInv ==
  ASSUME ReadInv, PeerSends, UNCHANGED <<read_task, memory, last_read>>
  PROVE  ReadInv'
<1>1. /\ rx \in Seq(Nat) /\ received \in Nat /\ Len(rx) \in Nat /\ Len(memory) \in Nat
      /\ Len(rx) <= received /\ IsRun(rx, received - Len(rx) + 1)
  BY LenProperties DEF ReadInv, ReadTypes, ReceivedInOrder
<1>2. received' = received + 1 /\ rx' = Append(rx, received + 1)
  BY DEF PeerSends
<1>3. rx' \in Seq(Nat) /\ Len(rx') = Len(rx) + 1 /\ IsRun(rx', received - Len(rx) + 1)
  BY <1>1, <1>2, RunAppend
<1>4. received' - Len(rx') = received - Len(rx)
  BY <1>1, <1>2, <1>3
<1>5. ReadTypes'
  BY <1>2, <1>3 DEF ReadInv, ReadTypes
<1>6. ReceivedInOrder'
  BY <1>1, <1>2, <1>3, <1>4 DEF ReadInv, ReceivedInOrder
<1>7. ReadTaskOK' /\ LastReadOK'
  BY DEF ReadInv, ReadTaskOK, LastReadOK
<1> QED
  BY <1>5, <1>6, <1>7 DEF ReadInv

(* read() starts a task with empty memory. *)
LEMMA ReadReadInv ==
  ASSUME ReadInv, NEW r \in ReadLengths, Read(r[1], r[2])
  PROVE  ReadInv'
<1>1. r[1] \in Nat /\ r[2] \in Nat /\ r[2] >= r[1] /\ r[1] > 0
  BY AsyncIoAssumption
<1>2. /\ memory' = << >>
      /\ UNCHANGED <<rx, received, last_read>>
      /\ read_task' = [min_length |-> r[1], max_length |-> r[2], already_read |-> 0,
                       buffer |-> 0, asked |-> r[1]]
  BY DEF Read, kernel
<1>3. memory' \in Seq(Nat) /\ Len(memory') = 0
  BY <1>2, EmptySeq
<1>4. ReadTypes'
  BY <1>1, <1>2, <1>3 DEF ReadInv, ReadTypes, ReadTask
<1>5. ReceivedInOrder'
  BY <1>2, <1>3, RunEmpty, LenProperties DEF ReadInv, ReadTypes, ReceivedInOrder
<1>6. ReadTaskOK'
  BY <1>1, <1>2, <1>3 DEF ReadTaskOK
<1>7. LastReadOK'
  BY <1>2 DEF ReadInv, LastReadOK
<1> QED
  BY <1>4, <1>5, <1>6, <1>7 DEF ReadInv

(* The bytes that come are the ones behind those that the task has got. *)
LEMMA ReadSomeReadInv ==
  ASSUME ReadInv, ReadSome
  PROVE  ReadInv'
<1> DEFINE n == Least(read_task.max_length, Len(rx))
           got == SubSeq(rx, 1, n)
           m == Len(memory)
           l == Len(rx)
           first == received - l - m + 1
<1>1. /\ rx \in Seq(Nat) /\ received \in Nat /\ l \in Nat /\ m \in Nat
      /\ memory \in Seq(Nat) /\ read_task \in ReadTask
      /\ last_read \in [ok : BOOLEAN, n : Nat, asked : Nat, bytes : Seq(Nat)]
      /\ m + l <= received /\ IsRun(rx, received - l + 1)
      /\ IsRun(memory, first)
  BY LenProperties DEF ReadInv, ReadTypes, ReceivedInOrder, ReadSome
<1>2. /\ read_task.buffer = m /\ read_task.already_read = m
      /\ read_task.min_length + m = read_task.asked
      /\ 0 < read_task.min_length /\ read_task.min_length <= read_task.max_length
  BY DEF ReadInv, ReadTaskOK, ReadSome
<1>t. /\ read_task.min_length \in Nat /\ read_task.max_length \in Nat
      /\ read_task.asked \in Nat
  BY <1>1 DEF ReadTask
<1>3. n \in 0..l /\ n <= read_task.max_length
  BY <1>1, <1>t DEF Least
<1>4. /\ rx' = SubSeq(rx, n + 1, l)
      /\ memory' = SubSeq(memory, 1, read_task.buffer) \o got
      /\ IF n >= read_task.min_length THEN ReadEnds(TRUE, n + read_task.already_read)
                                      ELSE ReadAgain(n)
      /\ UNCHANGED <<received, read_done>>
  BY DEF ReadSome
<1> HIDE DEF n
<1>5. /\ got \in Seq(Nat) /\ Len(got) = n
      /\ rx' \in Seq(Nat) /\ Len(rx') = l - n
      /\ IsRun(got, received - l + 1) /\ IsRun(rx', received - l + 1 + n)
  <2> DEFINE a == received - l + 1
  <2>1. a \in Int /\ IsRun(rx, a) /\ n \in 0..Len(rx) /\ rx \in Seq(Nat)
    BY <1>1, <1>3
  <2> HIDE DEF a
  <2>2. /\ got \in Seq(Nat) /\ Len(got) = n
        /\ SubSeq(rx, n + 1, Len(rx)) \in Seq(Nat)
        /\ Len(SubSeq(rx, n + 1, Len(rx))) = Len(rx) - n
        /\ IsRun(got, a) /\ IsRun(SubSeq(rx, n + 1, Len(rx)), a + n)
    BY <2>1, RunSplit
  <2> QED
    BY <2>2, <1>4 DEF a
<1>6. /\ SubSeq(memory, 1, m) \in Seq(Nat) /\ Len(SubSeq(memory, 1, m)) = m
      /\ IsRun(SubSeq(memory, 1, m), first)
  <2>1. m \in 0..Len(memory) /\ first \in Int
    BY <1>1
  <2> QED
    BY <1>1, <2>1, RunSplit
<1>7. memory' \in Seq(Nat) /\ Len(memory') = m + n /\ IsRun(memory', first)
  <2>1. first + m = received - l + 1 /\ first \in Int
    BY <1>1
  <2> DEFINE kept == SubSeq(memory, 1, m)
  <2>2. kept \in Seq(Nat) /\ Len(kept) = m /\ IsRun(kept, first) /\ memory' = kept \o got
    BY <1>2, <1>4, <1>6
  <2>3. got \in Seq(Nat) /\ Len(got) = n /\ IsRun(got, first + m)
    BY <2>1, <1>5
  <2> HIDE DEF got, first, m, kept
  <2> QED
    BY <2>1, <2>2, <2>3, RunConcat
<1>8. /\ received' - Len(rx') + 1 = received - l + 1 + n
      /\ received' - Len(rx') - Len(memory') + 1 = first
      /\ Len(memory') + Len(rx') <= received' /\ Len(rx') <= received'
  <2>1. /\ received' = received /\ Len(rx') = l - n /\ Len(memory') = m + n
        /\ received \in Nat /\ l \in Nat /\ m \in Nat /\ n \in 0..l /\ m + l <= received
    BY <1>1, <1>3, <1>4, <1>5, <1>7
  <2> HIDE DEF l, m
  <2> QED
    BY <2>1 DEF first
<1>9. ReceivedInOrder'
  BY <1>5, <1>7, <1>8 DEF ReceivedInOrder
<1>10. CASE n >= read_task.min_length
  <2>1. /\ read_task' = NoTask
        /\ last_read' = IF read_done
                        THEN [ok |-> TRUE, n |-> n + m, asked |-> read_task.asked,
                              bytes |-> memory']
                        ELSE last_read
    BY <1>2, <1>4, <1>10 DEF ReadEnds
  <2>2. n + m \in Nat /\ n + m >= read_task.asked /\ n + m = Len(memory')
    BY <1>1, <1>2, <1>3, <1>7, <1>10, <1>t
  <2>3. ReadTypes'
    BY <2>1, <2>2, <1>1, <1>4, <1>5, <1>7, <1>t DEF ReadTypes
  <2>4. LastReadOK'
    <3>1. first \in Int
      BY <1>1
    <3>2. CASE read_done
      <4>1. /\ last_read'.n = n + m /\ last_read'.asked = read_task.asked
            /\ last_read'.bytes = memory'
        BY <2>1, <3>2
      <4> HIDE DEF m, first
      <4> QED
        BY <2>2, <3>1, <4>1, <1>7 DEF LastReadOK
    <3>3. CASE ~read_done
      BY <2>1, <3>3 DEF ReadInv, LastReadOK
    <3> QED
      BY <3>2, <3>3
  <2>5. ReadTaskOK'
    BY <2>1 DEF ReadTaskOK
  <2> QED
    BY <2>3, <2>4, <2>5, <1>9 DEF ReadInv
<1>11. CASE ~(n >= read_task.min_length)
  <2>1. /\ read_task' = [read_task EXCEPT !.buffer = @ + n, !.min_length = @ - n,
                                          !.max_length = @ - n, !.already_read = @ + n]
        /\ last_read' = last_read
    BY <1>4, <1>11 DEF ReadAgain
  <2>2. /\ read_task'.buffer = m + n /\ read_task'.already_read = m + n
        /\ read_task'.min_length = read_task.min_length - n
        /\ read_task'.max_length = read_task.max_length - n
        /\ read_task'.asked = read_task.asked
    BY <2>1, <1>1, <1>2 DEF ReadTask
  <2>i. /\ m \in Nat /\ n \in Nat /\ n < read_task.min_length
        /\ 0 < read_task.min_length /\ read_task.min_length <= read_task.max_length
        /\ read_task.min_length + m = read_task.asked /\ Len(memory') = m + n
    BY <1>1, <1>2, <1>3, <1>7, <1>11, <1>t
  <2> HIDE DEF m, l, first, got
  <2>3. read_task' \in ReadTask
    <3>1. /\ read_task.buffer + n \in Nat /\ read_task.already_read + n \in Nat
          /\ read_task.min_length - n \in Nat /\ read_task.max_length - n \in Nat
      BY <2>i, <1>2, <1>t
    <3> QED
      BY <3>1, <2>1, <1>1 DEF ReadTask
  <2>4. ReadTypes'
    BY <2>1, <2>3, <1>1, <1>4, <1>5, <1>7 DEF ReadTypes
  <2>5. ReadTaskOK'
    BY <2>2, <2>i, <1>t DEF ReadTaskOK
  <2>6. LastReadOK'
    BY <2>1 DEF ReadInv, LastReadOK
  <2> QED
    BY <2>4, <2>5, <2>6, <1>9 DEF ReadInv
<1> QED
  BY <1>10, <1>11

(* readStep() finds the end of the file and ends its task. *)
LEMMA ReadEndOfFileReadInv ==
  ASSUME ReadInv, ReadEndOfFile
  PROVE  ReadInv'
<1>1. /\ read_task' = NoTask /\ UNCHANGED <<rx, received, memory>>
      /\ last_read' = IF read_done
                      THEN [ok |-> FALSE, n |-> 0, asked |-> read_task.asked,
                            bytes |-> memory]
                      ELSE last_read
      /\ read_task \in ReadTask
  BY DEF ReadEndOfFile, ReadEnds, kernel, ReadInv, ReadTypes
<1>2. read_task.asked \in Nat
  BY <1>1 DEF ReadTask
<1>3. ReadTypes'
  BY <1>1, <1>2 DEF ReadInv, ReadTypes
<1>4. ReceivedInOrder' /\ ReadTaskOK' /\ LastReadOK'
  BY <1>1 DEF ReadInv, ReceivedInOrder, ReadTaskOK, LastReadOK
<1> QED
  BY <1>3, <1>4 DEF ReadInv

(* Every step keeps ReadInv. *)
LEMMA ReadInvNext ==
  ASSUME ReadInv, [Next]_vars
  PROVE  ReadInv'
<1>1. CASE UNCHANGED <<rx, received, read_task, memory, last_read>>
  BY <1>1 DEF ReadInv, ReadTypes, ReceivedInOrder, ReadTaskOK, LastReadOK
<1> QED
  BY <1>1, WhoReads, PeerSendsReadInv, ReadReadInv, ReadSomeReadInv, ReadEndOfFileReadInv

-----------------------------------------------------------------------------
(* Writing. *)
LEMMA TaskIsATask ==
  ASSUME NEW a, NEW b, NEW c, NEW d
  PROVE  [buffer |-> a, length |-> b, already_written |-> c, asked |-> d] # NoTask
<1> DEFINE t == [buffer |-> a, length |-> b, already_written |-> c, asked |-> d]
<1>1. "none" \in DOMAIN NoTask
  BY DEF NoTask
<1>2. "none" \notin DOMAIN t
  OBVIOUS
<1> QED
  BY <1>1, <1>2

(* Nothing is handed over and nothing sent. *)
LEMMA WriteInvInit == Init => WriteInv
BY EmptySeq, RunEmpty, AsyncIoAssumption
   DEF Init, WriteInv, WriteTypes, SentInOrder, WriteTaskOK, LastWriteOK

(* A reset discards what is in the send buffer. *)
LEMMA PeerResetsWriteInv ==
  ASSUME WriteInv, PeerResets, UNCHANGED <<handed, write_task, last_write>>
  PROVE  WriteInv'
<1>1. tx' = << >> /\ peer' = "reset" /\ delivered' = delivered
  BY DEF PeerResets
<1>2. WriteTypes'
  BY <1>1, EmptySeq DEF WriteInv, WriteTypes
<1>3. SentInOrder'
  BY <1>1, EmptySeq, RunEmpty, AsyncIoAssumption DEF WriteInv, SentInOrder
<1>4. WriteTaskOK' /\ LastWriteOK'
  BY DEF WriteInv, WriteTaskOK, LastWriteOK
<1> QED
  BY <1>2, <1>3, <1>4 DEF WriteInv

(* The peer takes one byte from the send buffer. *)
LEMMA PeerReceivesWriteInv ==
  ASSUME WriteInv, PeerReceives, UNCHANGED <<handed, write_task, last_write>>
  PROVE  WriteInv'
<1> DEFINE l == Len(tx)
           d == Len(delivered)
<1>1. /\ tx \in Seq(Nat) /\ delivered \in Seq(Nat) /\ l \in Nat /\ d \in Nat
      /\ l <= SendBuffer /\ IsRun(delivered, 1) /\ IsRun(tx, d + 1)
      /\ peer \in {"open", "closed"} =>
            d + l = IF write_task = NoTask THEN handed ELSE write_task.buffer - 1
  BY LenProperties DEF WriteInv, WriteTypes, SentInOrder
<1>2. /\ tx # << >> /\ tx' = Tail(tx) /\ delivered' = Append(delivered, Head(tx))
      /\ peer' = peer
  BY DEF PeerReceives
<1>3. /\ l > 0 /\ Head(tx) = d + 1
      /\ tx' \in Seq(Nat) /\ Len(tx') = l - 1 /\ IsRun(tx', d + 1 + 1)
  BY <1>1, <1>2, RunTail
<1>4. delivered' \in Seq(Nat) /\ Len(delivered') = d + 1 /\ IsRun(delivered', 1)
  <2>1. d + 1 \in Nat /\ d + 1 = 1 + Len(delivered) /\ delivered' = Append(delivered, d + 1)
    BY <1>1, <1>2, <1>3
  <2> QED
    BY <2>1, <1>1, RunAppend
<1>5. WriteTypes'
  BY <1>3, <1>4 DEF WriteInv, WriteTypes
<1>6. SentInOrder'
  <2>1. SendBuffer \in Nat /\ l - 1 <= SendBuffer /\ (d + 1) + (l - 1) = d + l
    BY <1>1, AsyncIoAssumption
  <2> HIDE DEF l, d
  <2> QED
    BY <2>1, <1>1, <1>2, <1>3, <1>4 DEF SentInOrder
<1>7. WriteTaskOK' /\ LastWriteOK'
  BY DEF WriteInv, WriteTaskOK, LastWriteOK
<1> QED
  BY <1>5, <1>6, <1>7 DEF WriteInv

(* write() starts a task with all its bytes to send. *)
LEMMA WriteWriteInv ==
  ASSUME WriteInv, NEW length \in WriteLengths, Write(length)
  PROVE  WriteInv'
<1>1. length \in Nat \ {0} /\ handed \in Nat
  BY AsyncIoAssumption DEF WriteInv, WriteTypes
<1>2. /\ write_task = NoTask
      /\ write_task' = [buffer |-> handed + 1, length |-> length, already_written |-> 0,
                        asked |-> length]
      /\ handed' = handed + length
      /\ UNCHANGED <<tx, delivered, peer, last_write>>
  BY DEF Write, kernel
<1>3. write_task' # NoTask
  BY <1>2, TaskIsATask
<1>4. WriteTypes'
  BY <1>1, <1>2 DEF WriteInv, WriteTypes, WriteTask
<1>5. SentInOrder'
  <2>1. write_task'.buffer - 1 = handed
    BY <1>1, <1>2
  <2> QED
    BY <2>1, <1>2, <1>3 DEF WriteInv, SentInOrder
<1>6. WriteTaskOK' /\ LastWriteOK'
  BY <1>1, <1>2 DEF WriteInv, WriteTaskOK, LastWriteOK
<1> QED
  BY <1>4, <1>5, <1>6 DEF WriteInv

(* The bytes that go are the ones behind those that have gone. *)
LEMMA WriteSomeWriteInv ==
  ASSUME WriteInv, WriteSome
  PROVE  WriteInv'
<1> DEFINE n == Least(write_task.length, SendBuffer - Len(tx))
           l == Len(tx)
           d == Len(delivered)
           next == Bytes(write_task.buffer, n)
<1>1. /\ tx \in Seq(Nat) /\ l \in Nat /\ d \in Nat
      /\ write_task \in WriteTask /\ handed \in Nat
      /\ l < SendBuffer /\ IsRun(delivered, 1) /\ IsRun(tx, d + 1)
      /\ d + l = write_task.buffer - 1
  BY LenProperties DEF WriteInv, WriteTypes, SentInOrder, WriteSome
<1>t. /\ write_task.buffer \in Nat /\ write_task.length \in Nat \ {0}
      /\ write_task.already_written \in Nat /\ write_task.asked \in Nat
      /\ SendBuffer \in Nat
  BY <1>1, AsyncIoAssumption DEF WriteTask
<1>2. /\ write_task.buffer + write_task.length = handed + 1
      /\ write_task.already_written + write_task.length = write_task.asked
      /\ write_task.buffer > 0
  BY DEF WriteInv, WriteTaskOK, WriteSome
<1>3. n \in Nat /\ n <= write_task.length /\ l + n <= SendBuffer
  BY <1>1, <1>t DEF Least
<1>4. /\ tx' = tx \o next
      /\ IF n = write_task.length THEN WriteEnds(TRUE, n + write_task.already_written)
                                  ELSE WriteAgain(n)
      /\ UNCHANGED <<delivered, peer, handed, write_done>>
      /\ peer \in {"open", "closed"} /\ write_task # NoTask
  BY DEF WriteSome
<1> HIDE DEF n
<1>5. next \in Seq(Nat) /\ Len(next) = n /\ IsRun(next, d + 1 + l)
  <2>1. write_task.buffer = (write_task.buffer - 1) + 1 /\ write_task.buffer - 1 \in Nat
        /\ write_task.buffer = d + 1 + l
    BY <1>1, <1>2, <1>t
  <2>2. /\ Bytes((write_task.buffer - 1) + 1, n) \in Seq(Nat)
        /\ Len(Bytes((write_task.buffer - 1) + 1, n)) = n
        /\ IsRun(Bytes((write_task.buffer - 1) + 1, n), (write_task.buffer - 1) + 1)
    BY <2>1, <1>3, RunBytes
  <2> QED
    BY <2>1, <2>2, Zenon
<1>6. tx' \in Seq(Nat) /\ Len(tx') = l + n /\ IsRun(tx', d + 1)
  <2>1. d + 1 \in Int
    BY <1>1
  <2> HIDE DEF next, d
  <2> QED
    BY <2>1, <1>1, <1>4, <1>5, RunConcat
<1>7. CASE n = write_task.length
  <2>1. /\ write_task' = NoTask
        /\ last_write' = IF write_done
                         THEN [ok |-> TRUE, n |-> n + write_task.already_written,
                               asked |-> write_task.asked]
                         ELSE last_write
    BY <1>4, <1>7 DEF WriteEnds
  <2>2. n + write_task.already_written = write_task.asked
    BY <1>2, <1>3, <1>7, <1>t
  <2>i. l \in Nat /\ d \in Nat /\ d + l = write_task.buffer - 1 /\ handed \in Nat
    BY <1>1
  <2> HIDE DEF l, d, next
  <2>3. d + (l + n) = handed
    BY <2>i, <1>2, <1>3, <1>7, <1>t
  <2>4. WriteTypes'
    BY <2>1, <2>2, <1>4, <1>6, <1>t DEF WriteInv, WriteTypes
  <2>5. SentInOrder'
    BY <2>1, <2>3, <1>1, <1>3, <1>4, <1>6 DEF SentInOrder, d
  <2>6. WriteTaskOK' /\ LastWriteOK'
    BY <2>1, <2>2 DEF WriteInv, WriteTaskOK, LastWriteOK
  <2> QED
    BY <2>4, <2>5, <2>6 DEF WriteInv
<1>8. CASE n # write_task.length
  <2>1. /\ write_task' = [write_task EXCEPT !.buffer = @ + n, !.length = @ - n,
                                            !.already_written = @ + n]
        /\ last_write' = last_write
    BY <1>4, <1>8 DEF WriteAgain
  <2>2. /\ write_task'.buffer = write_task.buffer + n
        /\ write_task'.length = write_task.length - n
        /\ write_task'.already_written = write_task.already_written + n
        /\ write_task'.asked = write_task.asked
    BY <2>1, <1>1 DEF WriteTask
  <2>3. /\ write_task.buffer + n \in Nat /\ write_task.length - n \in Nat \ {0}
        /\ write_task.already_written + n \in Nat
    BY <1>3, <1>8, <1>t
  <2>4. write_task' \in WriteTask
    BY <2>1, <2>3, <1>1 DEF WriteTask
  <2>5. write_task' # NoTask
    <3>1. write_task' = [buffer |-> write_task'.buffer, length |-> write_task'.length,
                         already_written |-> write_task'.already_written,
                         asked |-> write_task'.asked]
      BY <2>4 DEF WriteTask
    <3> QED
      BY <3>1, TaskIsATask
  <2>i. l \in Nat /\ d \in Nat /\ d + l = write_task.buffer - 1
    BY <1>1
  <2> HIDE DEF l, d, next
  <2>6. d + (l + n) = write_task'.buffer - 1
    BY <2>2, <2>i, <1>3, <1>t
  <2>7. WriteTypes'
    BY <2>1, <2>4, <1>4, <1>6 DEF WriteInv, WriteTypes
  <2>8. SentInOrder'
    BY <2>5, <2>6, <1>1, <1>3, <1>4, <1>6 DEF SentInOrder, d
  <2>9. WriteTaskOK'
    BY <2>2, <1>2, <1>3, <1>4, <1>t DEF WriteTaskOK
  <2>10. LastWriteOK'
    BY <2>1 DEF WriteInv, LastWriteOK
  <2> QED
    BY <2>7, <2>8, <2>9, <2>10 DEF WriteInv
<1> QED
  BY <1>7, <1>8

(* writeStep() finds the connection gone and ends its task. *)
LEMMA WriteDisconnectedWriteInv ==
  ASSUME WriteInv, WriteDisconnected
  PROVE  WriteInv'
<1>1. /\ write_task' = NoTask /\ UNCHANGED <<tx, delivered, peer, handed>>
      /\ last_write' = IF write_done
                       THEN [ok |-> FALSE, n |-> 0, asked |-> write_task.asked]
                       ELSE last_write
      /\ write_task \in WriteTask /\ peer \in {"reset", "gone"}
  BY DEF WriteDisconnected, WriteEnds, kernel, WriteInv, WriteTypes
<1>2. write_task.asked \in Nat
  BY <1>1 DEF WriteTask
<1>3. WriteTypes'
  BY <1>1, <1>2 DEF WriteInv, WriteTypes
<1>4. SentInOrder' /\ WriteTaskOK' /\ LastWriteOK'
  BY <1>1 DEF WriteInv, SentInOrder, WriteTaskOK, LastWriteOK
<1> QED
  BY <1>3, <1>4 DEF WriteInv

(* Every step keeps WriteInv. *)
LEMMA WriteInvNext ==
  ASSUME WriteInv, [Next]_vars
  PROVE  WriteInv'
<1>1. CASE UNCHANGED <<tx, delivered, peer, write_task, handed, last_write>>
  BY <1>1 DEF WriteInv, WriteTypes, SentInOrder, WriteTaskOK, LastWriteOK
<1>2. CASE PeerCloses /\ UNCHANGED <<handed, write_task, last_write>>
  BY <1>2 DEF PeerCloses, WriteInv, WriteTypes, SentInOrder, WriteTaskOK, LastWriteOK
<1>3. CASE ReadBusy
  BY <1>3 DEF ReadBusy, writers, WriteInv, WriteTypes, SentInOrder, WriteTaskOK, LastWriteOK
<1> QED
  BY <1>1, <1>2, <1>3, WhoWrites, PeerResetsWriteInv, PeerReceivesWriteInv, WriteWriteInv,
     WriteSomeWriteInv, WriteDisconnectedWriteInv

-----------------------------------------------------------------------------
(* Reports. *)
LEMMA SignalInvInit == Init => SignalInv
<1> SUFFICES ASSUME Init PROVE SignalInv
  OBVIOUS
<1>1. OtherTypes
  BY DEF Init, OtherTypes
<1>2. read_task = NoTask /\ write_task = NoTask
  BY DEF Init
<1> QED
  BY <1>1, <1>2 DEF SignalInv, WaitersKnown, NoLostSignal, ReadWaitsInVain, WriteWaitsInVain

(* Every change of the socket that a waiting task must know of is an edge, *)
(* and an edge becomes an element of the task's chain.                     *)
LEMMA KernelSignalInv ==
  ASSUME IInv, Kernel
  PROVE  SignalInv'
<1> USE DEF SignalInv, OtherTypes, WaitersKnown, NoLostSignal, ReadWaitsInVain,
            WriteWaitsInVain
<1>0. UNCHANGED <<attached, signals, in_step, read_task, read_done, write_task, write_done,
                  on_read_disconnect, disconnect_told>>
  BY DEF Kernel, readers, writers, listeners
<1>1. CASE PeerSends
  BY <1>0, <1>1 DEF PeerSends, IInv
<1>2. CASE PeerCloses
  BY <1>0, <1>2 DEF PeerCloses, IInv
<1>3. CASE PeerResets
  BY <1>0, <1>3 DEF PeerResets, IInv
<1>4. CASE PeerReceives
  <2>1. tx \in Seq(Nat) /\ tx # << >> /\ Len(tx) <= SendBuffer
    BY <1>4 DEF PeerReceives, IInv, WriteInv, WriteTypes, SentInOrder
  <2>2. Len(tx) \in Nat /\ Len(tx') = Len(tx) - 1 /\ SendBuffer \in Nat
    BY <2>1, <1>4, LenProperties, HeadTailProperties, AsyncIoAssumption DEF PeerReceives
  <2>3. Len(tx') # SendBuffer /\ (Len(tx) = SendBuffer \/ Len(tx) < SendBuffer)
    BY <2>1, <2>2
  <2>4. OtherTypes'
    BY <1>0, <1>4 DEF PeerReceives, IInv
  <2>5. WaitersKnown'
    BY <2>3, <1>0, <1>4 DEF PeerReceives, IInv
  <2>6. NoLostSignal'
    BY <2>3, <1>0, <1>4 DEF PeerReceives, IInv
  <2> QED
    BY <2>4, <2>5, <2>6
<1> QED
  BY <1>1, <1>2, <1>3, <1>4 DEF Kernel

(* pollImpl turns the edge that epoll reports into signals. *)
LEMMA pollImplSignalInv ==
  ASSUME IInv, pollImpl
  PROVE  SignalInv'
<1> USE DEF SignalInv, OtherTypes, WaitersKnown, NoLostSignal, ReadWaitsInVain,
            WriteWaitsInVain
<1>0. UNCHANGED <<rx, peer, tx, nospace, attached, in_step, read_task, read_done,
                  write_task, write_done, on_read_disconnect, disconnect_told>>
      /\ edge' = FALSE
  BY DEF pollImpl, readers, writers, listeners
<1>1. signals' = [c \in {"in", "out", "hup"} |->
                    IF attached /\ c \in Mask THEN signals[c] + 1 ELSE signals[c]]
  BY DEF pollImpl, notify
<1>2. signals' \in [{"in", "out", "hup"} -> Nat]
  BY <1>1 DEF IInv
<1>3. ReadWaitsInVain => "in" \in Mask /\ attached
  BY DEF Mask, IInv
<1>4. WriteWaitsInVain => "out" \in Mask /\ attached
  BY DEF Mask, IInv
<1>5. ReadWaitsInVain => signals'["in"] > 0
  BY <1>1, <1>3 DEF IInv
<1>6. WriteWaitsInVain => signals'["out"] > 0
  BY <1>1, <1>4 DEF IInv
<1> QED
  BY <1>0, <1>2, <1>5, <1>6 DEF IInv

(* A sink that gets its signal enters the step it is for. *)
LEMMA SinksSignalInv ==
  ASSUME IInv, ReadReady \/ WriteReady \/ ReadDisconnected
  PROVE  SignalInv'
<1> USE DEF SignalInv, OtherTypes, WaitersKnown, NoLostSignal, ReadWaitsInVain,
            WriteWaitsInVain, IInv, kernel, readers, writers, listeners
<1>1. CASE ReadReady
  BY <1>1 DEF ReadReady
<1>2. CASE WriteReady
  BY <1>2 DEF WriteReady
<1>3. CASE ReadDisconnected
  BY <1>3 DEF ReadDisconnected
<1> QED
  BY <1>1, <1>2, <1>3

(* What the user of the stream calls. *)
LEMMA UserSignalInv ==
  ASSUME IInv, User
  PROVE  SignalInv'
<1> USE DEF SignalInv, OtherTypes, WaitersKnown, NoLostSignal, ReadWaitsInVain,
            WriteWaitsInVain, IInv, kernel, readers, writers, listeners
<1>1. CASE Attach
  BY <1>1 DEF Attach
<1>2. CASE readDone
  BY <1>2 DEF readDone
<1>3. CASE writeDone
  BY <1>3 DEF writeDone
<1>4. CASE onReadDisconnected
  BY <1>4 DEF onReadDisconnected
<1>5. ASSUME NEW r \in ReadLengths, Read(r[1], r[2]) PROVE SignalInv'
  BY <1>5 DEF Read
<1>6. ASSUME NEW length \in WriteLengths, Write(length) PROVE SignalInv'
  BY <1>6 DEF Write
<1> QED
  BY <1>1, <1>2, <1>3, <1>4, <1>5, <1>6 DEF User

(* A stepper goes to sleep only when recv() has said that there is nothing *)
(* and no end, or send() that there is no room.                            *)
LEMMA readStepSignalInv ==
  ASSUME IInv, readStep
  PROVE  SignalInv'
<1> USE DEF SignalInv, OtherTypes, WaitersKnown, NoLostSignal, ReadWaitsInVain,
            WriteWaitsInVain, IInv, kernel, readers, writers, listeners
<1>1. CASE ReadSome
  BY <1>1 DEF ReadSome
<1>2. CASE ReadEndOfFile
  BY <1>2 DEF ReadEndOfFile, ReadEnds
<1>3. CASE ReadBusy
  BY <1>3 DEF ReadBusy
<1>4. CASE ReadStepReturns
  BY <1>4 DEF ReadStepReturns
<1> QED
  BY <1>1, <1>2, <1>3, <1>4 DEF readStep

(* writeStep() waits only after send() has refused bytes. *)
LEMMA writeStepSignalInv ==
  ASSUME IInv, writeStep
  PROVE  SignalInv'
<1> USE DEF SignalInv, OtherTypes, WaitersKnown, NoLostSignal, ReadWaitsInVain,
            WriteWaitsInVain, IInv, kernel, readers, writers, listeners
<1>1. CASE WriteSome
  BY <1>1 DEF WriteSome
<1>2. CASE WriteBusy
  BY <1>2, AsyncIoAssumption DEF WriteBusy
<1>3. CASE WriteDisconnected
  BY <1>3 DEF WriteDisconnected, WriteEnds
<1>4. CASE WriteStepReturns
  BY <1>4 DEF WriteStepReturns
<1> QED
  BY <1>1, <1>2, <1>3, <1>4 DEF writeStep

(* Every step keeps SignalInv. *)
LEMMA SignalInvNext ==
  ASSUME IInv, [Next]_vars
  PROVE  SignalInv'
<1>1. CASE UNCHANGED vars
  BY <1>1 DEF IInv, SignalInv, OtherTypes, WaitersKnown, NoLostSignal, ReadWaitsInVain,
              WriteWaitsInVain, vars, kernel, readers, writers, listeners
<1> QED
  BY <1>1, KernelSignalInv, pollImplSignalInv, SinksSignalInv, UserSignalInv,
     readStepSignalInv, writeStepSignalInv DEF Next

-----------------------------------------------------------------------------
(* The invariant holds in every state that the stream can reach. *)
THEOREM Invariance == Spec => []IInv
<1>1. Init => IInv
  BY ReadInvInit, WriteInvInit, SignalInvInit DEF IInv
<1>2. IInv /\ [Next]_vars => IInv'
  BY ReadInvNext, WriteInvNext, SignalInvNext DEF IInv
<1> QED
  BY <1>1, <1>2, PTL DEF Spec

(* Tasks, buffers and results always have the shapes of the structs of     *)
(* io.h, for every length of a transfer and every capacity.                *)
THEOREM TypeCorrect == Spec => []TypeOK
<1>1. IInv => TypeOK
  BY DEF IInv, ReadInv, WriteInv, SignalInv, ReadTypes, WriteTypes, OtherTypes, ReadTask,
         WriteTask, TypeOK
<1> QED
  BY <1>1, Invariance, PTL

(* AsyncIoStream::read and readStep: a read that succeeds has at least     *)
(* min_length bytes, consecutive ones, all of which it reports, and none   *)
(* is left between a running read and the socket.                          *)
THEOREM ReadsExact == Spec => []ReadsAreExact
<1>1. ASSUME IInv PROVE ReadsAreExact
  <2>1. ReadInv
    BY <1>1 DEF IInv
  <2>2. ASSUME last_read.ok PROVE /\ last_read.n >= last_read.asked
                                  /\ last_read.bytes = Bytes(last_read.bytes[1], last_read.n)
    <3>1. /\ last_read.n >= last_read.asked /\ last_read.n = Len(last_read.bytes)
          /\ last_read.bytes \in Seq(Nat)
      BY <2>1, <2>2 DEF ReadInv, ReadTypes, LastReadOK
    <3>2. PICK a \in Int : IsRun(last_read.bytes, a)
      BY <2>1, <2>2 DEF ReadInv, LastReadOK
    <3>3. Len(last_read.bytes) \in Nat /\ last_read.bytes = Bytes(a, Len(last_read.bytes))
      BY <3>1, <3>2, RunIsBytes, LenProperties
    <3>4. CASE Len(last_read.bytes) = 0
      BY <3>1, <3>3, <3>4 DEF Bytes
    <3>5. CASE Len(last_read.bytes) # 0
      <4>1. last_read.bytes[1] = a
        BY <3>2, <3>3, <3>5 DEF IsRun
      <4> QED
        BY <4>1, <3>1, <3>3
    <3> QED
      BY <3>4, <3>5
  <2>3. ASSUME read_task # NoTask, memory # << >>
        PROVE  /\ memory = Bytes(memory[1], read_task.already_read)
               /\ memory[Len(memory)] + Len(rx) = received
    <3> DEFINE a == received - Len(rx) - Len(memory) + 1
    <3>1. /\ memory \in Seq(Nat) /\ IsRun(memory, a) /\ Len(memory) = read_task.already_read
          /\ received \in Nat /\ rx \in Seq(Nat)
      BY <2>1, <2>3 DEF ReadInv, ReadTypes, ReceivedInOrder, ReadTaskOK
    <3>2. Len(memory) \in Nat /\ Len(memory) # 0 /\ Len(rx) \in Nat
      BY <3>1, <2>3, LenProperties, EmptySeq
    <3>3. a \in Int /\ a + Len(memory) - 1 = received - Len(rx)
      BY <3>1, <3>2
    <3> HIDE DEF a
    <3>4. memory[1] = a /\ memory[Len(memory)] = a + Len(memory) - 1
      <4>1. 1 \in 1..Len(memory) /\ Len(memory) \in 1..Len(memory) /\ a + 1 - 1 = a
        BY <3>2, <3>3
      <4> QED
        BY <4>1, <3>1 DEF IsRun
    <3>5. memory = Bytes(a, Len(memory))
      BY <3>1, <3>3, RunIsBytes
    <3> QED
      BY <3>1, <3>2, <3>3, <3>4, <3>5
  <2> QED
    BY <2>2, <2>3 DEF ReadsAreExact
<1> QED
  BY <1>1, Invariance, PTL

(* AsyncIoStream::write and writeStep: the peer gets the bytes handed to   *)
(* write(), each once and in order, and a write that succeeds reports its  *)
(* whole length.                                                           *)
THEOREM WritesExact == Spec => []WritesAreExact
<1>1. ASSUME IInv PROVE WritesAreExact
  <2>1. /\ tx \in Seq(Nat) /\ delivered \in Seq(Nat)
        /\ IsRun(delivered, 1) /\ IsRun(tx, Len(delivered) + 1) /\ LastWriteOK
    BY <1>1 DEF IInv, WriteInv, WriteTypes, SentInOrder
  <2>2. Len(delivered) \in Nat /\ Len(delivered) + 1 = 1 + Len(delivered)
    BY <2>1, LenProperties
  <2>3. delivered \o tx \in Seq(Nat) /\ IsRun(delivered \o tx, 1)
    BY <2>1, <2>2, RunConcat
  <2> DEFINE sent == delivered \o tx
  <2>4. Len(sent) \in Nat /\ IsRun(sent, 1)
    BY <2>3, LenProperties
  <2> HIDE DEF sent
  <2>5. \A k \in 1..Len(sent) : sent[k] = k
    BY <2>4 DEF IsRun
  <2> QED
    BY <2>1, <2>5 DEF sent, WritesAreExact, LastWriteOK
<1> QED
  BY <1>1, Invariance, PTL

(* UnixIoStream::notify and the steppers: whenever the socket has something *)
(* to say to a task that waits, epoll has an edge left or the task's chain  *)
(* an element.                                                              *)
THEOREM NoSignalIsLost == Spec => []NoLostSignal
<1>1. IInv => NoLostSignal
  BY DEF IInv, SignalInv
<1> QED
  BY <1>1, Invariance, PTL
=============================================================================
