------------------------------- MODULE AsyncIo -------------------------------
(***************************************************************************)
(* One AsyncIoStream (io.cpp, io_helpers.cpp) on a UnixIoStream and the    *)
(* UnixEventPort (io-unix.cpp, io-unix.h).                                 *)
(*                                                                         *)
(* The descriptor is registered with EPOLLET: epoll_wait reports it once   *)
(* for every change (edge), with the mask of the moment it is asked.  The  *)
(* report is fed into one of three conveyor chains, whose sinks run later; *)
(* readStep and writeStep then try again what read() and write() began.    *)
(*                                                                         *)
(* The program is one thread, but the peer and the kernel are not: they    *)
(* act between any two system calls, so one iteration of a stepper's loop  *)
(* is a step.  Bytes are numbered in the order in which each side sends    *)
(* them.  Operators marked Fault are in no specification (see EventLoop).  *)
(***************************************************************************)
EXTENDS Integers, Sequences

CONSTANTS MaxReceive,     \* bound: bytes the peer sends
          MaxSend,        \* bound: bytes handed to write()
          SendBuffer,     \* capacity of the kernel's send buffer
          ReadLengths,    \* pairs of min_length and max_length given to read()
          WriteLengths,   \* lengths given to write()
          Listens         \* which of readDone, writeDone and onReadDisconnected the user calls

ASSUME AsyncIoAssumption ==
    /\ MaxReceive \in Nat /\ MaxSend \in Nat /\ SendBuffer \in Nat \ {0}
    /\ ReadLengths \subseteq {r \in Nat \X Nat : r[2] >= r[1] /\ r[1] > 0}
    /\ WriteLengths \subseteq Nat \ {0}
    /\ Listens \subseteq {"read", "write", "hup"}

(* The socket as the kernel keeps it. *)
VARIABLES rx,          \* the kernel's receive buffer
          received,    \* number of bytes the peer has sent so far
          peer,        \* "open", "closed" (end of file), "reset", "gone" (reset reported)
          tx,          \* the kernel's send buffer
          delivered,   \* what the peer has received
          nospace,     \* a send found no room, the next room is an edge
          edge         \* the descriptor is on the ready list of epoll

(* The rest is the state of the library. *)
VARIABLES attached,            \* the AsyncIoStream exists
          signals,             \* elements in the chains of notify(): "in", "out", "hup"
          in_step,             \* the stepper that is running: "none", "read", "write"
          read_task,           \* NoTask or the task of the read stepper
          memory,              \* the buffer given to read(), from its start
          read_done,           \* readDone() was called
          last_read,           \* what read_done was fed last
          write_task,          \* NoTask or the task of the write stepper
          handed,              \* number of bytes handed to write() so far
          write_done,          \* writeDone() was called
          last_write,          \* what write_done was fed last
          on_read_disconnect,  \* "none", or called "early": before the peer left, or "late"
          disconnect_told      \* on_read_disconnect was fed

kernel == <<rx, received, peer, tx, delivered, nospace, edge>>
readers == <<read_task, memory, read_done, last_read>>
writers == <<write_task, handed, write_done, last_write>>
listeners == <<on_read_disconnect, disconnect_told>>
vars == <<kernel, attached, signals, in_step, readers, writers, listeners>>

NoTask == [none |-> TRUE]
Least(a, b) == IF a < b THEN a ELSE b

(* The n bytes from number a on. *)
Bytes(a, n) == [k \in 1..n |-> a + k - 1]

-----------------------------------------------------------------------------
(* The stream is registered at once; a connected socket can be written. *)
Init == /\ rx = << >> /\ received = 0 /\ peer = "open"
        /\ tx = << >> /\ delivered = << >> /\ nospace = FALSE /\ edge = TRUE
        /\ attached = FALSE
        /\ signals = [c \in {"in", "out", "hup"} |-> 0]
        /\ in_step = "none"
        /\ read_task = NoTask /\ memory = << >> /\ read_done = FALSE
        /\ last_read = [ok |-> FALSE, n |-> 0, asked |-> 0, bytes |-> << >>]
        /\ write_task = NoTask /\ handed = 0 /\ write_done = FALSE
        /\ last_write = [ok |-> FALSE, n |-> 0, asked |-> 0]
        /\ on_read_disconnect = "none" /\ disconnect_told = FALSE

(* The peer and the kernel.  What was received before a reset can still be *)
(* read.                                                                   *)
PeerSends == /\ peer = "open" /\ received < MaxReceive
             /\ received' = received + 1
             /\ rx' = Append(rx, received + 1)
             /\ edge' = TRUE
             /\ UNCHANGED <<peer, tx, delivered, nospace>>

PeerCloses == /\ peer = "open"
              /\ peer' = "closed" /\ edge' = TRUE
              /\ UNCHANGED <<rx, received, tx, delivered, nospace>>

PeerResets == /\ peer \in {"open", "closed"}
              /\ peer' = "reset" /\ edge' = TRUE
              /\ tx' = << >>
              /\ UNCHANGED <<rx, received, delivered, nospace>>

PeerReceives == /\ tx # << >>
                /\ tx' = Tail(tx) /\ delivered' = Append(delivered, Head(tx))
                /\ edge' = (edge \/ nospace) /\ nospace' = FALSE
                /\ UNCHANGED <<rx, received, peer>>

Kernel == /\ PeerSends \/ PeerCloses \/ PeerResets \/ PeerReceives
          /\ UNCHANGED <<attached, signals, in_step, readers, writers, listeners>>

-----------------------------------------------------------------------------
(* The mask epoll_wait reports: the state of the moment. *)
Mask == {c \in {"in", "out", "hup"} :
            \/ c = "in" /\ (rx # << >> \/ peer # "open")
            \/ c = "out" /\ (Len(tx) < SendBuffer \/ peer \in {"reset", "gone"})
            \/ c = "hup" /\ peer # "open"}

(* Fault: a descriptor that can be written is not looked at for reading. *)
NotifyWriteFirst(mask) ==
    signals' = [c \in {"in", "out", "hup"} |->
                  IF attached /\ c \in mask /\ (c = "in" => "out" \notin mask)
                  THEN signals[c] + 1 ELSE signals[c]]

(* Fault: a descriptor that can be read is not looked at for writing. *)
NotifyReadFirst(mask) ==
    signals' = [c \in {"in", "out", "hup"} |->
                  IF attached /\ c \in mask /\ (c = "out" => "in" \notin mask)
                  THEN signals[c] + 1 ELSE signals[c]]

(* Fault: a hang-up is not passed on when there is something to read. *)
NotifyHupLast(mask) ==
    signals' = [c \in {"in", "out", "hup"} |->
                  IF attached /\ c \in mask /\ (c = "hup" => "in" \notin mask)
                  THEN signals[c] + 1 ELSE signals[c]]

(* UnixIoStream::notify.  Without feeders, as long as nobody called        *)
(* readReady() and its likes, the report is dropped.                       *)
notify(mask) ==
    signals' = [c \in {"in", "out", "hup"} |->
                  IF attached /\ c \in mask THEN signals[c] + 1 ELSE signals[c]]

(* UnixEventPort::pollImpl, for this descriptor. *)
pollImpl == /\ in_step = "none" /\ edge
            /\ edge' = FALSE
            /\ notify(Mask)
            /\ UNCHANGED <<rx, received, peer, tx, delivered, nospace,
                           attached, in_step, readers, writers, listeners>>

(* The sinks of the three chains run from the event loop. *)
ReadReady == /\ in_step = "none" /\ signals["in"] > 0
             /\ signals' = [signals EXCEPT !["in"] = @ - 1]
             /\ in_step' = "read"
             /\ UNCHANGED <<kernel, attached, readers, writers, listeners>>

WriteReady == /\ in_step = "none" /\ signals["out"] > 0
              /\ signals' = [signals EXCEPT !["out"] = @ - 1]
              /\ in_step' = "write"
              /\ UNCHANGED <<kernel, attached, readers, writers, listeners>>

ReadDisconnected ==
    /\ in_step = "none" /\ signals["hup"] > 0
    /\ signals' = [signals EXCEPT !["hup"] = @ - 1]
    /\ disconnect_told' = (disconnect_told \/ on_read_disconnect # "none")
    /\ UNCHANGED <<kernel, attached, in_step, readers, writers, on_read_disconnect>>

-----------------------------------------------------------------------------
(* The calls of the user, from inside the loop or from outside, but never  *)
(* from inside a stepper: feed() only stores and arms.                     *)

(* AsyncIoStream::AsyncIoStream *)
Attach == /\ in_step = "none" /\ ~attached
          /\ attached' = TRUE
          /\ UNCHANGED <<kernel, signals, in_step, readers, writers, listeners>>

readDone == /\ "read" \in Listens /\ in_step = "none" /\ attached /\ ~read_done
            /\ read_done' = TRUE
            /\ UNCHANGED <<kernel, attached, signals, in_step, read_task, memory,
                           last_read, writers, listeners>>

writeDone == /\ "write" \in Listens /\ in_step = "none" /\ attached /\ ~write_done
             /\ write_done' = TRUE
             /\ UNCHANGED <<kernel, attached, signals, in_step, readers, write_task,
                            handed, last_write, listeners>>

onReadDisconnected ==
    /\ "hup" \in Listens /\ in_step = "none" /\ attached /\ on_read_disconnect = "none"
    /\ on_read_disconnect' = IF peer = "open" THEN "early" ELSE "late"
    /\ UNCHANGED <<kernel, attached, signals, in_step, readers, writers, disconnect_told>>

(* Fault: the new task waits for the next report. *)
ReadWaits(min_length, max_length) ==
    /\ in_step = "none" /\ attached
    /\ read_task = NoTask
    /\ read_task' = [min_length |-> min_length, max_length |-> max_length,
                     already_read |-> 0, buffer |-> 0, asked |-> min_length]
    /\ memory' = << >>
    /\ UNCHANGED <<in_step, kernel, attached, signals, read_done, last_read, writers,
                   listeners>>

(* AsyncIoStream::read.  The second assertion is the caller's duty. *)
Read(min_length, max_length) ==
    /\ in_step = "none" /\ attached
    /\ read_task = NoTask
    /\ read_task' = [min_length |-> min_length, max_length |-> max_length,
                     already_read |-> 0, buffer |-> 0, asked |-> min_length]
    /\ memory' = << >>
    /\ in_step' = "read"
    /\ UNCHANGED <<kernel, attached, signals, read_done, last_read, writers, listeners>>

(* AsyncIoStream::write *)
Write(length) ==
    /\ in_step = "none" /\ attached
    /\ write_task = NoTask /\ handed + length <= MaxSend
    /\ write_task' = [buffer |-> handed + 1, length |-> length, already_written |-> 0,
                      asked |-> length]
    /\ handed' = handed + length
    /\ in_step' = "write"
    /\ UNCHANGED <<kernel, attached, signals, readers, write_done, last_write, listeners>>

-----------------------------------------------------------------------------
(* read_done is told the outcome, if there is one, and the task ends. *)
ReadEnds(ok, n) ==
    /\ last_read' = IF read_done
                    THEN [ok |-> ok, n |-> n, asked |-> read_task.asked,
                          bytes |-> memory']
                    ELSE last_read
    /\ read_task' = NoTask

(* Fault: the next bytes go where the first ones are. *)
ReadAgainInPlace(n) ==
    /\ read_task' = [read_task EXCEPT !.min_length = @ - n,
                                      !.max_length = @ - n,
                                      !.already_read = @ + n]
    /\ UNCHANGED last_read

(* The task goes on behind the bytes that came. *)
ReadAgain(n) ==
    /\ read_task' = [read_task EXCEPT !.buffer = @ + n,
                                      !.min_length = @ - n,
                                      !.max_length = @ - n,
                                      !.already_read = @ + n]
    /\ UNCHANGED last_read

(* One iteration of readStep that gets n > 0 bytes (UnixIoStream::read). *)
ReadSome ==
    /\ in_step = "read" /\ read_task # NoTask /\ rx # << >>
    /\ LET n == Least(read_task.max_length, Len(rx)) IN
       /\ rx' = SubSeq(rx, n + 1, Len(rx))
       /\ memory' = SubSeq(memory, 1, read_task.buffer) \o SubSeq(rx, 1, n)
       /\ IF n >= read_task.min_length THEN ReadEnds(TRUE, n + read_task.already_read)
                                       ELSE ReadAgain(n)
    /\ UNCHANGED <<received, peer, tx, delivered, nospace, edge, attached, signals,
                   in_step, read_done, writers, listeners>>

(* recv() returns 0: the error is critical. *)
ReadEndOfFile ==
    /\ in_step = "read" /\ read_task # NoTask /\ rx = << >>
    /\ peer \in {"closed", "gone"}
    /\ UNCHANGED <<kernel, attached, signals, memory, read_done, writers, listeners>>
    /\ ReadEnds(FALSE, 0)
    /\ in_step' = "none"

(* recv() returns -1, whatever the reason, which for a reset is given once: *)
(* "Currently busy", and the task stays.                                   *)
ReadBusy ==
    /\ in_step = "read" /\ read_task # NoTask /\ rx = << >>
    /\ peer \in {"open", "reset"}
    /\ peer' = IF peer = "reset" THEN "gone" ELSE peer
    /\ in_step' = "none"
    /\ UNCHANGED <<rx, received, tx, delivered, nospace, edge, attached, signals,
                   readers, writers, listeners>>

(* Without a task the loop ends. *)
ReadStepReturns == /\ in_step = "read" /\ read_task = NoTask
                   /\ in_step' = "none"
                   /\ UNCHANGED <<kernel, attached, signals, readers, writers, listeners>>

-----------------------------------------------------------------------------
(* write_done is told the outcome, if there is one, and the task ends. *)
WriteEnds(ok, n) ==
    /\ last_write' = IF write_done
                     THEN [ok |-> ok, n |-> n, asked |-> write_task.asked]
                     ELSE last_write
    /\ write_task' = NoTask

(* Fault: what was sent is not counted. *)
WriteAgainUncounted(n) ==
    /\ write_task' = [write_task EXCEPT !.buffer = @ + n, !.length = @ - n]
    /\ UNCHANGED last_write

(* The task goes on behind the bytes that went. *)
WriteAgain(n) ==
    /\ write_task' = [write_task EXCEPT !.buffer = @ + n,
                                        !.length = @ - n,
                                        !.already_written = @ + n]
    /\ UNCHANGED last_write

(* Fault: the last bytes do not end the task. *)
WriteSomeGoesOn ==
    /\ in_step = "write" /\ write_task # NoTask
    /\ peer \in {"open", "closed"} /\ Len(tx) < SendBuffer
    /\ LET n == Least(write_task.length, SendBuffer - Len(tx)) IN
       /\ tx' = tx \o Bytes(write_task.buffer, n)
       /\ nospace' = (nospace \/ n < write_task.length)
       /\ WriteAgain(n)
    /\ UNCHANGED <<rx, received, peer, delivered, edge, attached, signals, in_step,
                   readers, handed, write_done, listeners>>

(* One iteration of writeStep that sends n > 0 bytes (UnixIoStream::write). *)
(* A send that is cut short waits for room like one that is refused.        *)
WriteSome ==
    /\ in_step = "write" /\ write_task # NoTask
    /\ peer \in {"open", "closed"} /\ Len(tx) < SendBuffer
    /\ LET n == Least(write_task.length, SendBuffer - Len(tx)) IN
       /\ tx' = tx \o Bytes(write_task.buffer, n)
       /\ nospace' = (nospace \/ n < write_task.length)
       /\ IF n = write_task.length THEN WriteEnds(TRUE, n + write_task.already_written)
                                   ELSE WriteAgain(n)
    /\ UNCHANGED <<rx, received, peer, delivered, edge, attached, signals, in_step,
                   readers, handed, write_done, listeners>>

(* EAGAIN: the task stays. *)
WriteBusy ==
    /\ in_step = "write" /\ write_task # NoTask
    /\ peer \in {"open", "closed"} /\ Len(tx) = SendBuffer
    /\ nospace' = TRUE
    /\ in_step' = "none"
    /\ UNCHANGED <<rx, received, peer, tx, delivered, edge, attached, signals,
                   readers, writers, listeners>>

(* Every other failure is critical. *)
WriteDisconnected ==
    /\ in_step = "write" /\ write_task # NoTask
    /\ peer \in {"reset", "gone"}
    /\ WriteEnds(FALSE, 0)
    /\ in_step' = "none"
    /\ UNCHANGED <<kernel, attached, signals, readers, handed, write_done, listeners>>

(* Without a task the loop ends. *)
WriteStepReturns == /\ in_step = "write" /\ write_task = NoTask
                    /\ in_step' = "none"
                    /\ UNCHANGED <<kernel, attached, signals, readers, writers, listeners>>

-----------------------------------------------------------------------------
readStep == ReadSome \/ ReadEndOfFile \/ ReadBusy \/ ReadStepReturns

writeStep == WriteSome \/ WriteBusy \/ WriteDisconnected \/ WriteStepReturns

User == \/ Attach
        \/ readDone
        \/ writeDone
        \/ onReadDisconnected
        \/ \E r \in ReadLengths : Read(r[1], r[2])
        \/ \E length \in WriteLengths : Write(length)

Next == \/ Kernel
        \/ User
        \/ pollImpl
        \/ ReadReady
        \/ WriteReady
        \/ ReadDisconnected
        \/ readStep
        \/ writeStep

Spec == Init /\ [][Next]_vars

(* The steppers are plain loops.  Whatever the user does in between, the   *)
(* program comes back to the event loop, which polls (EventLoop::wait) and *)
(* serves every chain that was fed (LaterIsServed in EventLoopOrder).      *)
FairSpec == /\ Spec
            /\ WF_vars(readStep) /\ WF_vars(writeStep)
            /\ SF_vars(pollImpl)
            /\ SF_vars(ReadReady) /\ SF_vars(WriteReady) /\ SF_vars(ReadDisconnected)

-----------------------------------------------------------------------------
(* The tasks, the buffers and the results have the shapes of the structs. *)
TypeOK ==
    /\ rx \in Seq(Nat) /\ tx \in Seq(Nat) /\ delivered \in Seq(Nat)
    /\ received \in Nat /\ handed \in Nat
    /\ peer \in {"open", "closed", "reset", "gone"}
    /\ disconnect_told \in BOOLEAN /\ nospace \in BOOLEAN /\ edge \in BOOLEAN /\ attached \in BOOLEAN
    /\ signals \in [{"in", "out", "hup"} -> Nat]
    /\ in_step \in {"none", "read", "write"}
    /\ read_task \in {NoTask} \cup [min_length : Nat, max_length : Nat,
                                    already_read : Nat, buffer : Nat, asked : Nat]
    /\ write_task \in {NoTask} \cup [buffer : Nat, length : Nat \ {0},
                                     already_written : Nat, asked : Nat]
    /\ memory \in Seq(Nat)
    /\ read_done \in BOOLEAN /\ write_done \in BOOLEAN
    /\ last_read \in [ok : BOOLEAN, n : Nat, asked : Nat, bytes : Seq(Nat)]
    /\ last_write \in [ok : BOOLEAN, n : Nat, asked : Nat]
    /\ on_read_disconnect \in {"none", "early", "late"}

(* A read that succeeds reports at least min_length bytes, its buffer      *)
(* holds as many consecutive bytes of the stream as it reports, however    *)
(* many calls of recv() they took, and what is still in the socket follows *)
(* what the running read has got.                                          *)
ReadsAreExact ==
    /\ last_read.ok =>
          /\ last_read.n >= last_read.asked
          /\ last_read.bytes = Bytes(last_read.bytes[1], last_read.n)
    /\ read_task # NoTask /\ memory # << >> =>
          /\ memory = Bytes(memory[1], read_task.already_read)
          /\ memory[Len(memory)] + Len(rx) = received

(* The peer gets the bytes handed to write(), each once and in order,      *)
(* whatever the send buffer takes at a time, and a write that succeeds     *)
(* reports its whole length.                                               *)
WritesAreExact ==
    /\ LET sent == delivered \o tx IN
       \A k \in 1..Len(sent) : sent[k] = k
    /\ last_write.ok => last_write.n = last_write.asked

(* A read, or a write, that waits although the socket has something to say *)
(* to it: bytes, room, the end or the reset of the connection.             *)
ReadWaitsInVain == /\ read_task # NoTask /\ in_step # "read"
                   /\ rx # << >> \/ peer \in {"closed", "reset"}

WriteWaitsInVain == /\ write_task # NoTask /\ in_step # "write"
                    /\ Len(tx) < SendBuffer \/ peer \in {"reset", "gone"}

(* No report is lost to a waiting task: in such a state epoll has an edge  *)
(* left or the task's chain an element, whatever came between the last     *)
(* system call and the return to the loop (UnixIoStream::notify, read,     *)
(* write, the steppers).                                                   *)
NoLostSignal == /\ ReadWaitsInVain => edge \/ signals["in"] > 0
                /\ WriteWaitsInVain => edge \/ signals["out"] > 0

(* A read does not wait in front of data or of the end of the stream: it   *)
(* ends, or it has taken all there is and the peer may still send.  (After *)
(* a reset that recv() reported as busy nothing wakes it any more.)        *)
ReadIsServed ==
    read_task # NoTask /\ (rx # << >> \/ peer = "closed")
      ~> read_task = NoTask \/ (rx = << >> /\ peer # "closed")

(* A write ends, with an error if the peer is gone, unless the send buffer *)
(* stays full.                                                             *)
WriteIsServed ==
    write_task # NoTask ~> write_task = NoTask \/ Len(tx) = SendBuffer

(* Who asked for it while the peer was there is told that it has left, by  *)
(* whatever report that news comes.                                        *)
DisconnectIsTold ==
    on_read_disconnect = "early" /\ peer # "open" ~> disconnect_told
=============================================================================
