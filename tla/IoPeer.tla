------------------------------- MODULE IoPeer -------------------------------
(***************************************************************************)
(* StreamingIoPeer (io_peer.h, io_peer.tmpl.h): one peer that sends and    *)
(* one that receives, each with its ring buffer and its AsyncIoStream, and *)
(* the connection between them.  The two directions of a connection share  *)
(* nothing but the socket.                                                 *)
(*                                                                         *)
(* The streams keep what AsyncIo shows of them: a task moves bytes from or *)
(* to the memory it was given, whenever and in whatever portions the       *)
(* socket allows, and reports once; the report waits in a conveyor until   *)
(* the event loop runs the sink.                                           *)
(*                                                                         *)
(* The codec is a parameter, as it is in the code (template <typename      *)
(* Codec, ...>); the model that is checked has that of ProtoKel.           *)
(*                                                                         *)
(* io_peer.tmpl.h is included by no source of the repository and does not  *)
(* compile: it misspells `size_t bytes` and readSegmentLength, repeats     *)
(* default template arguments, and send() returns an error although it is  *)
(* declared void.  It is modelled as it is meant to read.                  *)
(***************************************************************************)
EXTENDS Integers, Sequences

CONSTANTS Bytes,        \* values of a byte
          Outgoing,     \* messages a user may send
          encode(_, _), \* of a message behind a buffer: the error, the buffer
          decode(_),    \* of a buffer, into a fresh root: the error (an exception
                        \* is a critical one, the chain makes it so), the buffer,
                        \* the message
          OutSize,      \* size of the sender's ring
          InSize,       \* size of the receiver's ring
          Socket,       \* bytes that fit into the socket
          MaxSent       \* bound: messages sent

ASSUME PeerAssumption ==
    /\ OutSize \in Nat \ {0} /\ InSize \in Nat \ {0} /\ Socket \in Nat \ {0}
    /\ MaxSent \in Nat

VARIABLES out,            \* out_buffer of the sender
          write_task,     \* NoTask, or the bytes asked for and those gone
          write_report,   \* element in the writeDone conveyor: None, length, Lost
          sink_write,     \* "open", or "dead": torn down by a critical error
          wire,           \* bytes in the socket
          connected,      \* nobody has closed it
          in,             \* in_buffer of the receiver
          read_task,      \* NoTask, or where its bytes go and how many at most
          read_report,    \* element in the readDone conveyor: None, number, Lost
          landed,         \* bytes the stream has put into the ring's memory, and where
          sink_read,      \* "open", or why it was torn down
          asserted,       \* no assertion of AsyncIoStream has failed
          sent, received  \* messages accepted by send(), given to handle()

sender == <<out, write_task, write_report, sink_write, sent>>
receiver == <<in, read_task, read_report, landed, sink_read, received>>
vars == <<sender, receiver, wire, connected, asserted>>

None == 0
Lost == -1
NoTask == [none |-> TRUE]
Fewer(a, b) == IF a < b THEN a ELSE b

-----------------------------------------------------------------------------
(* A ring: its bytes from read_position on. *)
Ring(size) == [bytes |-> << >>, size |-> size, read_position |-> 0]

WritePosition(r) == (r.read_position + Len(r.bytes)) % r.size

ReadSegmentLength(r) == Fewer(Len(r.bytes), r.size - r.read_position)

WriteSegmentLength(r) ==
    LET at == WritePosition(r) IN
    IF Len(r.bytes) = r.size THEN 0
    ELSE IF r.read_position > at THEN r.read_position - at ELSE r.size - at

ReadAdvance(r, n) == [r EXCEPT !.bytes = SubSeq(@, n + 1, Len(@)),
                               !.read_position = (@ + n) % r.size]

-----------------------------------------------------------------------------
(* The constructor of the receiver asks for the first bytes. *)
Init == /\ out = Ring(OutSize) /\ in = Ring(InSize)
        /\ write_task = NoTask /\ write_report = None /\ sink_write = "open"
        /\ wire = << >> /\ connected = TRUE
        /\ read_task = [at |-> 0, max_length |-> InSize]
        /\ read_report = None /\ landed = [at |-> 0, bytes |-> << >>]
        /\ sink_read = "open" /\ asserted = TRUE
        /\ sent = << >> /\ received = << >>

(* io_stream->write(&out_buffer.read(), out_buffer.readSegmentLength()) *)
WriteFront(r) ==
    /\ write_task' = IF write_task = NoTask
                     THEN [length |-> ReadSegmentLength(r), gone |-> 0] ELSE write_task
    /\ asserted' = (asserted /\ write_task = NoTask /\ ReadSegmentLength(r) > 0)

(* Fault: a write is started when none is running. *)
SendRestarts(m) ==
    LET e == encode(m, out) IN
    /\ Len(sent) < MaxSent
    /\ e.error = "none"
    /\ out' = e.buffer
    /\ sent' = Append(sent, m)
    /\ IF write_task = NoTask THEN WriteFront(e.buffer) ELSE UNCHANGED <<write_task, asserted>>
    /\ UNCHANGED <<receiver, write_report, sink_write, wire, connected>>

(* send: a message that does not fit is refused and changes nothing. *)
Send(m) ==
    LET restart_write == ReadSegmentLength(out) = 0
        e == encode(m, out) IN
    /\ Len(sent) < MaxSent
    /\ e.error = "none"
    /\ out' = e.buffer
    /\ sent' = Append(sent, m)
    /\ IF restart_write THEN WriteFront(e.buffer) ELSE UNCHANGED <<write_task, asserted>>
    /\ UNCHANGED <<receiver, write_report, sink_write, wire, connected>>

(* Fault: the next segment is left to the next send(). *)
WriteSinkStops ==
    /\ sink_write = "open" /\ write_report > 0
    /\ out' = ReadAdvance(out, write_report)
    /\ write_report' = None
    /\ UNCHANGED <<write_task, asserted, receiver, sink_write, sent, wire, connected>>

(* Fault: what was written stays in the ring. *)
WriteSinkKeeps ==
    /\ sink_write = "open" /\ write_report > 0
    /\ write_report' = None
    /\ WriteFront(out)
    /\ UNCHANGED <<out, receiver, sink_write, sent, wire, connected>>

(* The sink of writeDone: the next segment, if there is one. *)
WriteSink ==
    /\ sink_write = "open" /\ write_report > 0
    /\ out' = ReadAdvance(out, write_report)
    /\ write_report' = None
    /\ IF Len(out.bytes) > write_report THEN WriteFront(out')
       ELSE UNCHANGED <<write_task, asserted>>
    /\ UNCHANGED <<receiver, sink_write, sent, wire, connected>>

WriteSinkFails ==
    /\ sink_write = "open" /\ write_report = Lost
    /\ sink_write' = "dead" /\ write_report' = None
    /\ UNCHANGED <<receiver, out, write_task, sent, wire, connected, asserted>>

-----------------------------------------------------------------------------
(* One round of the loop of the read sink: decode into a fresh root.  The  *)
(* loop ends when something is missing or wrong.                           *)
DecodeRound(loop) ==
    LET d == decode(loop.ring)
        taken == Len(loop.ring.bytes) - Len(d.buffer.bytes)
    IN IF loop.error # "none" THEN loop
       ELSE IF d.error # "none" THEN [loop EXCEPT !.error = d.error]
       ELSE [loop EXCEPT !.ring = ReadAdvance(@, taken), !.messages = Append(@, d.msg)]

(* The whole loop: every round but the last takes bytes out of the ring. *)
DecodeAll(r) ==
    LET after[i \in 0..(Len(r.bytes) + 1)] ==
            IF i = 0 THEN [ring |-> r, messages |-> << >>, error |-> "none"]
            ELSE DecodeRound(after[i - 1])
    IN after[Len(r.bytes) + 1]

(* io_stream->read(&in_buffer.write(), 1, in_buffer.writeSegmentLength()) *)
ReadBehind(r) == [at |-> WritePosition(r), max_length |-> WriteSegmentLength(r)]

(* The sink of readDone.  It asks for more before it decodes, and gives up *)
(* before it decodes if the ring is full.                                  *)
ReadSink ==
    LET filled == [in EXCEPT !.bytes = @ \o landed.bytes]
        loop == DecodeAll(filled) IN
    /\ sink_read = "open" /\ read_report > 0
    /\ read_report' = None
    /\ IF WriteSegmentLength(filled) = 0
       THEN /\ in' = filled /\ sink_read' = "too long"
            /\ UNCHANGED <<read_task, received, asserted>>
       ELSE /\ read_task' = ReadBehind(filled)
            /\ asserted' = (asserted /\ read_task = NoTask)
            /\ in' = loop.ring
            /\ received' = received \o loop.messages
            /\ sink_read' = IF loop.error = "critical" THEN "bad packet" ELSE "open"
    /\ UNCHANGED <<sender, landed, wire, connected>>

ReadSinkFails ==
    /\ sink_read = "open" /\ read_report = Lost
    /\ sink_read' = "disconnected" /\ read_report' = None
    /\ UNCHANGED <<sender, in, read_task, landed, received, wire, connected, asserted>>

-----------------------------------------------------------------------------
(* The streams and the socket. *)

(* writeStep: some of the bytes go; the last of them end the task. *)
WriteStep ==
    /\ write_task # NoTask /\ connected
    /\ \E n \in 1..Fewer(write_task.length - write_task.gone, Socket - Len(wire)) :
          LET gone == write_task.gone + n IN
          /\ wire' = wire \o SubSeq(out.bytes, write_task.gone + 1, gone)
          /\ IF gone = write_task.length
             THEN write_task' = NoTask /\ write_report' = write_task.length
             ELSE /\ write_task' = [write_task EXCEPT !.gone = gone]
                  /\ UNCHANGED write_report
    /\ UNCHANGED <<receiver, out, sink_write, sent, connected, asserted>>

WriteStepFails ==
    /\ write_task # NoTask /\ ~connected
    /\ write_task' = NoTask /\ write_report' = Lost
    /\ UNCHANGED <<receiver, out, sink_write, sent, wire, connected, asserted>>

(* readStep: with min_length 1 the first bytes end the task. *)
ReadStep ==
    /\ read_task # NoTask
    /\ \E n \in 1..Fewer(read_task.max_length, Len(wire)) :
          /\ landed' = [at |-> read_task.at, bytes |-> SubSeq(wire, 1, n)]
          /\ wire' = SubSeq(wire, n + 1, Len(wire))
          /\ read_report' = n
    /\ read_task' = NoTask
    /\ UNCHANGED <<sender, in, sink_read, received, connected, asserted>>

ReadStepFails ==
    /\ read_task # NoTask /\ wire = << >> /\ ~connected
    /\ read_task' = NoTask /\ read_report' = Lost
    /\ UNCHANGED <<sender, in, landed, sink_read, received, wire, connected, asserted>>

Disconnect == connected /\ connected' = FALSE /\ UNCHANGED <<sender, receiver, wire, asserted>>

Streams == WriteStep \/ WriteStepFails \/ ReadStep \/ ReadStepFails
Sinks == WriteSink \/ WriteSinkFails \/ ReadSink \/ ReadSinkFails

Next == (\E m \in Outgoing : Send(m)) \/ Sinks \/ Streams \/ Disconnect

Spec == Init /\ [][Next]_vars

(* A sink takes the element that waits for it: the steps of Sinks. *)
ReadSinkRuns == sink_read = "open" /\ read_report # None /\ read_report' = None
WriteSinkRuns == sink_write = "open" /\ write_report # None /\ write_report' = None

(* Streams serve their tasks (ReadIsServed and WriteIsServed of AsyncIo)   *)
(* and the loop serves every conveyor that was fed (LaterIsServed).        *)
FairSpec == /\ Spec
            /\ WF_vars(WriteStep \/ WriteStepFails) /\ WF_vars(ReadStep \/ ReadStepFails)
            /\ WF_write_report(WriteSinkRuns) /\ WF_read_report(ReadSinkRuns)

Channel == INSTANCE MessageChannel

-----------------------------------------------------------------------------
(***************************************************************************)
(* What the peers rely on in a codec, said of the buffers whose contents   *)
(* are among `strings`.                                                    *)
(***************************************************************************)
RingsOf(size, strings) ==
    [bytes : {s \in strings : Len(s) <= size}, size : {size}, read_position : 0..(size - 1)]

(* The bytes that stand for a message, if it fits into the ring at all. *)
Packet(m) == encode(m, Ring(OutSize)).buffer.bytes

(* encode puts the packet behind what the buffer holds, or fails; a packet *)
(* is never empty.                                                         *)
EncodeAppends(strings) ==
    \A m \in Outgoing : \A r \in RingsOf(OutSize, strings) :
        encode(m, r).error = "none" =>
            /\ Packet(m) \in strings /\ Packet(m) # << >>
            /\ Len(r.bytes) + Len(Packet(m)) <= OutSize
            /\ encode(m, r).buffer = [r EXCEPT !.bytes = @ \o Packet(m)]

(* decode fails, or takes at least one byte, from the front. *)
DecodeAdvances(strings) ==
    \A r \in RingsOf(InSize, strings) :
        decode(r).error = "none" => Len(decode(r).buffer.bytes) \in 0..(Len(r.bytes) - 1)

(* decode gives the message whose packet is in front, and takes just that  *)
(* packet; while a part of the packet is missing it fails.  It may refuse  *)
(* a packet that is there: one longer than Limits::packet_size.            *)
DecodeInverts(strings) ==
    \A m \in Outgoing : \A r \in RingsOf(InSize, strings) :
        LET p == Packet(m) n == Len(r.bytes) IN
        /\ Len(p) <= n /\ SubSeq(r.bytes, 1, Len(p)) = p /\ decode(r).error = "none" =>
              decode(r).msg = m /\ Len(decode(r).buffer.bytes) = n - Len(p)
        /\ n < Len(p) /\ SubSeq(p, 1, n) = r.bytes => decode(r).error # "none"

-----------------------------------------------------------------------------
(* The two peers implement the channel: what handle() is given is what     *)
(* send() accepted, in its order, through two rings, whatever portions the *)
(* socket makes of the packets.                                            *)
ImplementsChannel == Channel!Spec

(* The memory lent to the streams stays theirs: a write runs on bytes of   *)
(* the ring that are still unread and in one piece, a read fills the piece *)
(* of free memory that the next writeAdvance announces, although messages  *)
(* are decoded out of the ring, and sent into it, in the meantime; and     *)
(* neither stream is ever asked for a second task.                         *)
TasksKeepTheirMemory ==
    /\ asserted
    /\ write_task # NoTask => write_task.length <= ReadSegmentLength(out)
    /\ read_task # NoTask => /\ read_task.at = WritePosition(in)
                             /\ read_task.max_length <= WriteSegmentLength(in)
    /\ read_report > 0 /\ sink_read = "open" =>
          /\ landed.at = WritePosition(in)
          /\ Len(landed.bytes) <= WriteSegmentLength(in)

(* A message accepted by send() is received, or the connection was closed, *)
(* or the receiver gave up: no write is forgotten between send() and the   *)
(* sink of writeDone, and no message waits in the ring behind another.     *)
Delivered ==
    \A k \in 1..MaxSent :
        Len(sent) >= k ~> Len(received) >= k \/ ~connected \/ sink_read # "open"
=============================================================================
