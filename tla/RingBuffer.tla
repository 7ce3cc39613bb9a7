----------------------------- MODULE RingBuffer -----------------------------
(***************************************************************************)
(* saw::RingBuffer and the bulk transfers of its base class Buffer         *)
(* (buffer.h, buffer.cpp).                                                 *)
(*                                                                         *)
(* push(buffer, size) and pop(buffer, size) are loops that copy one        *)
(* contiguous segment per iteration.  An iteration is an action here and   *)
(* `op` is the transfer under way; nothing else may touch the buffer until *)
(* it is done, as in the code, which runs on one thread.  A transfer that  *)
(* does not fit is refused (recoverable error) and changes nothing, so it  *)
(* has no action.                                                          *)
(*                                                                         *)
(* Two history variables constrain nothing: `fifo` is the sequence of      *)
(* bytes written and not yet read, `wiped` records a writeAdvance(0) on a  *)
(* full buffer, after which the buffer claims to be empty.                 *)
(*                                                                         *)
(* Operators marked Fault are in no specification (see EventLoop).         *)
(***************************************************************************)
EXTENDS Integers, Sequences

CONSTANTS Size,       \* buffer.size(), RING_BUFFER_MAX_SIZE by default
          Byte,       \* values of a byte
          MaxChunk    \* bound: the longest transfer that callers ask for

ASSUME SizeAssumption == Size \in Nat \ {0}
ASSUME ChunkAssumption == MaxChunk \in Nat
ASSUME ByteAssumption == 0 \in Byte

VARIABLES buffer, read_position, write_position, write_reached_read,
          op, fifo, wiped

ring == <<buffer, read_position, write_position, write_reached_read>>
vars == <<ring, op, fifo, wiped>>

Positions == 0..(Size - 1)
Chunks == UNION {[1..n -> Byte] : n \in 1..MaxChunk}

(* Fault: off by one. *)
WrapLate(p) == IF p > Size THEN p - Size ELSE p

(* A position that has run over the end starts again at the front. *)
Wrap(p) == IF p >= Size THEN p - Size ELSE p

-----------------------------------------------------------------------------
(* Queries.  They take no arguments but the offset: this is the state. *)

readCompositeLength ==
    IF write_position < read_position
    THEN Size - (read_position - write_position)
    ELSE IF write_reached_read THEN Size
    ELSE write_position - read_position

writeCompositeLength ==
    IF read_position > write_position
    THEN read_position - write_position
    ELSE IF write_reached_read THEN 0
    ELSE Size - (write_position - read_position)

(* Fault: a full buffer is taken for an empty one. *)
readSegmentLengthNoFull(offset) ==
    LET at == Wrap(read_position + offset) IN
    IF write_position < at THEN Size - at ELSE write_position - at

readSegmentLength(offset) ==
    LET at == Wrap(read_position + offset) IN
    IF \/ write_position < at
       \/ write_position = at /\ offset < readCompositeLength
    THEN Size - at
    ELSE write_position - at

(* Fault: the unread bytes ahead do not end the segment. *)
writeSegmentLengthOverruns(offset) ==
    LET at == Wrap(write_position + offset) IN
    IF write_reached_read THEN 0 ELSE Size - at

writeSegmentLength(offset) ==
    LET at == Wrap(write_position + offset) IN
    IF read_position > at THEN read_position - at
    ELSE IF write_reached_read THEN 0
    ELSE Size - at

-----------------------------------------------------------------------------
(* Fault: the flag outlives a read. *)
readAdvanceKeepsFlag(n) ==
    /\ read_position' = Wrap(read_position + n)
    /\ UNCHANGED <<write_position, write_reached_read>>

(* The fields changed by readAdvance(n) and writeAdvance(n). *)
readAdvance(n) ==
    /\ read_position' = Wrap(read_position + n)
    /\ write_reached_read' = (write_reached_read /\ n = 0)
    /\ UNCHANGED write_position

writeAdvance(n) ==
    /\ write_position' = Wrap(write_position + n)
    /\ write_reached_read' = (n > 0 /\ Wrap(write_position + n) = read_position)
    /\ UNCHANGED read_position

(* memcpy(&write(), data, n), then writeAdvance(n). *)
CopyIn(data) ==
    /\ buffer' = [i \in Positions |->
                     IF i \in write_position..(write_position + Len(data) - 1)
                     THEN data[i - write_position + 1] ELSE buffer[i]]
    /\ writeAdvance(Len(data))
    /\ fifo' = fifo \o data
    /\ UNCHANGED wiped

(* The n bytes from &read() on. *)
Front(n) == [i \in 1..n |-> buffer[read_position + i - 1]]

(* memcpy(data, &read(), n), then readAdvance(n). *)
CopyOut(n) ==
    /\ readAdvance(n)
    /\ fifo' = SubSeq(fifo, n + 1, Len(fifo))
    /\ UNCHANGED <<buffer, wiped>>

Idle == [kind |-> "idle"]

Init == /\ buffer = [i \in Positions |-> 0]
        /\ read_position = 0
        /\ write_position = 0
        /\ write_reached_read = FALSE
        /\ op = Idle
        /\ fifo = << >>
        /\ wiped = FALSE

(* push(value): one byte at &write(). *)
PushByte(b) == /\ op = Idle
               /\ writeCompositeLength > 0
               /\ CopyIn(<<b>>)
               /\ UNCHANGED op

(* pop(value): the byte at &read(). *)
PopByte == /\ op = Idle
           /\ readCompositeLength > 0
           /\ CopyOut(1)
           /\ UNCHANGED op

(* Fault: the length is not required. *)
PushChunkUnchecked(data) ==
    /\ op = Idle
    /\ op' = [kind |-> "push", rest |-> data, goal |-> fifo \o data]
    /\ UNCHANGED <<ring, fifo, wiped>>

(* push(buffer, size): writeRequireLength, then segments. *)
PushChunk(data) ==
    /\ op = Idle
    /\ Len(data) <= writeCompositeLength
    /\ op' = [kind |-> "push", rest |-> data, goal |-> fifo \o data]
    /\ UNCHANGED <<ring, fifo, wiped>>

PushSegment ==
    /\ op.kind = "push" /\ op.rest # << >>
    /\ LET room == writeSegmentLength(0)
           segment == IF room < Len(op.rest) THEN room ELSE Len(op.rest) IN
       /\ CopyIn(SubSeq(op.rest, 1, segment))
       /\ op' = [op EXCEPT !.rest = SubSeq(op.rest, segment + 1, Len(op.rest))]

(* pop(buffer, size): refused unless size bytes are there, then segments. *)
PopChunk(n) ==
    /\ op = Idle
    /\ n <= readCompositeLength
    /\ op' = [kind |-> "pop", left |-> n, got |-> << >>, goal |-> SubSeq(fifo, 1, n)]
    /\ UNCHANGED <<ring, fifo, wiped>>

PopSegment ==
    /\ op.kind = "pop" /\ op.left > 0
    /\ LET there == readSegmentLength(0)
           segment == IF there < op.left THEN there ELSE op.left IN
       /\ op' = [op EXCEPT !.left = op.left - segment,
                           !.got = op.got \o Front(segment)]
       /\ CopyOut(segment)

Return == /\ \/ op.kind = "push" /\ op.rest = << >>
             \/ op.kind = "pop" /\ op.left = 0
          /\ op' = Idle
          /\ UNCHANGED <<ring, fifo, wiped>>

(* A stream reads up to writeSegmentLength() bytes into &write() and       *)
(* reports how many with writeAdvance, and writes from &read() likewise.   *)
StreamIn(data) == /\ op = Idle
                  /\ Len(data) <= writeSegmentLength(0)
                  /\ CopyIn(data)
                  /\ UNCHANGED op

StreamOut(n) == /\ op = Idle
                /\ n <= readSegmentLength(0)
                /\ CopyOut(n)
                /\ UNCHANGED op

(* writeAdvance(0), which its assertion permits at any time. *)
StreamNothing == /\ op = Idle
                 /\ writeAdvance(0)
                 /\ wiped' = (wiped \/ write_reached_read)
                 /\ UNCHANGED <<buffer, op, fifo>>

Next == /\ ~wiped
        /\ \/ \E b \in Byte : PushByte(b)
           \/ PopByte
           \/ \E data \in Chunks : PushChunk(data) \/ StreamIn(data)
           \/ \E n \in 1..MaxChunk : PopChunk(n) \/ StreamOut(n)
           \/ PushSegment
           \/ PopSegment
           \/ Return
           \/ StreamNothing

Spec == Init /\ [][Next]_vars

(* A transfer that was begun goes on: push and pop are plain loops. *)
FairSpec == Spec /\ WF_vars(PushSegment \/ PopSegment \/ Return)

-----------------------------------------------------------------------------
(* What the buffer holds: read(0), read(1), ... up to the composite length. *)
contents == [i \in 1..readCompositeLength |-> buffer[Wrap(read_position + (i - 1))]]

(* The buffer seen as a queue.  A writeAdvance(0) on a full buffer makes   *)
(* it forget its contents; up to there the mapping is the contents.        *)
mapped == IF wiped THEN fifo ELSE contents

Queue == INSTANCE ByteQueue WITH bytes <- mapped

-----------------------------------------------------------------------------
(* Positions are in the buffer and a transfer holds bytes. *)
TypeOK == /\ buffer \in [Positions -> Byte]
          /\ read_position \in Positions
          /\ write_position \in Positions
          /\ write_reached_read \in BOOLEAN
          /\ fifo \in Seq(Byte)
          /\ wiped \in BOOLEAN
          /\ op \in {Idle}
                \cup [kind : {"push"}, rest : Seq(Byte), goal : Seq(Byte)]
                \cup [kind : {"pop"}, left : Nat, got : Seq(Byte), goal : Seq(Byte)]

(* The buffer holds the bytes written and not yet read, in their order,    *)
(* from read_position on and around the end, whatever mixture of single    *)
(* bytes, chunks and stream segments brought them there (read(i)).         *)
Contents ==
    ~wiped => /\ Len(fifo) = readCompositeLength
              /\ \A i \in 1..Len(fifo) :
                    buffer[Wrap(read_position + (i - 1))] = fifo[i]

(* The flag is set only with the positions equal, and the two composite    *)
(* lengths always add up to the size of the buffer.                        *)
FlagAndLengths ==
    /\ write_reached_read => read_position = write_position
    /\ readCompositeLength + writeCompositeLength = Size

(* Every segment, at every offset with something behind it, is not empty,  *)
(* does not run past the end of the vector (the memcpy stays inside) nor   *)
(* past the bytes it may read or overwrite.                                *)
SegmentsFit ==
    /\ \A offset \in 0..(readCompositeLength - 1) :
          LET n == readSegmentLength(offset) IN
          /\ n > 0
          /\ offset + n <= readCompositeLength
          /\ Wrap(read_position + offset) + n <= Size
    /\ \A offset \in 0..(writeCompositeLength - 1) :
          LET n == writeSegmentLength(offset) IN
          /\ n > 0
          /\ offset + n <= writeCompositeLength
          /\ Wrap(write_position + offset) + n <= Size

(* A transfer moves exactly its bytes: what push has stored and has still  *)
(* to store is what it was given, what pop has fetched and has still to    *)
(* fetch is what was at the front when it was called, and the checks made  *)
(* at the start are still good, so no iteration finds a segment of zero.   *)
TransfersExact ==
    ~wiped =>
    /\ op.kind = "push" => /\ fifo \o op.rest = op.goal
                           /\ Len(op.rest) <= writeCompositeLength
    /\ op.kind = "pop" => /\ op.left <= Len(fifo)
                          /\ op.got \o SubSeq(fifo, 1, op.left) = op.goal

(* The buffer implements the queue: seen through the positions and the     *)
(* flag, every call and every iteration of a transfer appends at the back  *)
(* within the size, takes from the front, or leaves the queue as it is.    *)
ImplementsByteQueue == Queue!Spec

(* push and pop return: no iteration makes no progress. *)
TransfersEnd == op # Idle ~> op = Idle
=============================================================================
