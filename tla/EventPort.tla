------------------------------ MODULE EventPort ------------------------------
(***************************************************************************)
(* EventLoop::wait and poll (async.cpp) on the UnixEventPort (io-unix.h)   *)
(* with everything a port can serve besides streams: signals, a UnixServer *)
(* and a UnixDatagram (io-unix.cpp).  AsyncIo models streams.              *)
(*                                                                         *)
(* The program is one thread; peers, the kernel and senders of signals act *)
(* between any two of its system calls, so a step makes at most one.  A    *)
(* conveyor chain is a number of elements, and turn() serves any of those  *)
(* that have one (EventLoopOrder models the order, ConveyorChain chains).  *)
(*                                                                         *)
(* Operators marked Fault are in no specification (see EventLoop).         *)
(***************************************************************************)
EXTENDS Naturals, Sequences, FiniteSets, FiniteSetsExt

CONSTANTS MAX_EPOLL_EVENTS,  \* 256 in the code
          TurnLimit,         \* 65536 in the code
          Listener,          \* conveyors that onSignal() returns
          Listens,           \* what they may listen to: functions to Signals
          Datagrams,         \* what peers send: "full", "empty"
          Waits,             \* ways to enter the port: "wait", "timed", "poll"
          MaxArrive,         \* bound: connections, datagrams and signals from outside
          MaxFeed            \* bound: elements the user feeds between two waits

Chain == Listener \cup {"accept", "readable", "own"}

ASSUME EventPortAssumption ==
    /\ MAX_EPOLL_EVENTS \in Nat \ {0} /\ TurnLimit \in Nat \ {0}
    /\ Listener \cap {"accept", "readable", "own"} = {}
    /\ Listens \subseteq [Listener -> {"User1", "Terminate"}]
    /\ Datagrams \subseteq {"full", "empty"} /\ Waits \subseteq {"wait", "timed", "poll"}
    /\ MaxArrive \in Nat /\ MaxFeed \in Nat

(* The kernel. *)
VARIABLES ready,    \* edge-triggered descriptors on the ready list of epoll
          backlog,  \* connections of the server that wait for accept4()
          inbox,    \* datagrams that wait for recvfrom()
          pending,  \* signals blocked and not yet read from signal_fd
          arrived   \* number of arrivals

(* The program. *)
VARIABLES signal_of,      \* the Signal of each Listener
          listener,       \* of each Listener: "none", "live", "dropped"
          signal_fd_set,
          accept_feeder,  \* accept() was called
          read_ready,     \* readReady() was called
          pc,             \* "user", "epoll", "batch", "signals", "turn", "read"
          time,           \* timeout of the epoll_wait loop, one of Waits
          events,         \* rest of the batch
          full,           \* nfds == MAX_EPOLL_EVENTS; reset when pollImpl returns
          turn_step,
          fed,            \* elements in each chain
          own             \* number of elements the user has fed himself

(* History. *)
VARIABLES owed,     \* listeners that have to hear of a signal
          missed,   \* descriptors with something left that no report is about
          late      \* why events may wait while the port blocks

kernel == <<ready, backlog, inbox, pending, arrived>>
user == <<signal_of, listener, signal_fd_set, accept_feeder, read_ready, own>>
port == <<pc, time, events, full, turn_step>>
history == <<owed, missed, late>>
vars == <<kernel, user, port, fed, history>>

-----------------------------------------------------------------------------
(* UnixEventPort::toUnixSignal, fromUnixSignal *)
toUnixSignal(signal) == IF signal = "User1" THEN {"SIGUSR1"} ELSE {"SIGTERM", "SIGQUIT", "SIGINT"}
fromUnixSignal(sig) == IF sig = "SIGUSR1" THEN "User1" ELSE "Terminate"

UnixSignals == {"SIGUSR1", "SIGTERM", "SIGQUIT", "SIGINT"}

HearersOf(sig) ==
    {l \in Listener : signal_of[l] = fromUnixSignal(sig) /\ listener[l] = "live"}

(* signal_fd is level-triggered. *)
Ready == ready \cup (IF pending # {} THEN {"signal_fd"} ELSE {})

Init == /\ ready = {} /\ backlog = 0 /\ inbox = << >> /\ pending = {}
        /\ arrived = 0
        /\ signal_of \in Listens
        /\ listener = [l \in Listener |-> "none"]
        /\ signal_fd_set = {} /\ accept_feeder = FALSE /\ read_ready = FALSE
        /\ pc = "user" /\ time = "poll" /\ events = {} /\ full = FALSE /\ turn_step = 0
        /\ fed = [c \in Chain |-> 0] /\ own = 0
        /\ owed = {} /\ missed = {} /\ late = {}

-----------------------------------------------------------------------------
(* Peers and the kernel: every arrival puts the descriptor on the ready    *)
(* list, once.                                                             *)
Connect == /\ arrived < MaxArrive
           /\ arrived' = arrived + 1
           /\ backlog' = backlog + 1
           /\ ready' = ready \cup {"server"}
           /\ missed' = missed \ {"server"}
           /\ UNCHANGED <<inbox, pending, user, port, fed, owed, late>>

Arrives(datagram) ==
    /\ arrived < MaxArrive
    /\ arrived' = arrived + 1
    /\ inbox' = Append(inbox, datagram)
    /\ ready' = ready \cup {"datagram"}
    /\ missed' = missed \ {"datagram"}
    /\ UNCHANGED <<backlog, pending, user, port, fed, owed, late>>

(* A signal that onSignal() has not blocked ends the process and is left   *)
(* out.  Equal signals merge.                                              *)
Raise(sig) == /\ sig \in signal_fd_set /\ arrived < MaxArrive
              /\ arrived' = arrived + 1
              /\ pending' = pending \cup {sig}
              /\ owed' = owed \cup HearersOf(sig)
              /\ UNCHANGED <<ready, backlog, inbox, user, port, fed, missed, late>>

-----------------------------------------------------------------------------
(* Calls of the user, between two waits. *)

(* UnixEventPort::onSignal *)
onSignal(l) == /\ pc = "user" /\ listener[l] = "none"
               /\ listener' = [listener EXCEPT ![l] = "live"]
               /\ signal_fd_set' = signal_fd_set \cup toUnixSignal(signal_of[l])
               /\ UNCHANGED <<kernel, signal_of, accept_feeder, read_ready, own, port, fed,
                              history>>

(* The conveyor is destroyed; its feeder stays in signal_conveyors. *)
DropListener(l) == /\ pc = "user" /\ listener[l] = "live"
                   /\ listener' = [listener EXCEPT ![l] = "dropped"]
                   /\ fed' = [fed EXCEPT ![l] = 0]
                   /\ owed' = owed \ {l}
                   /\ UNCHANGED <<kernel, signal_of, signal_fd_set, accept_feeder,
                                  read_ready, own, port, missed, late>>

(* UnixServer::accept *)
accept == /\ pc = "user" /\ ~accept_feeder
          /\ accept_feeder' = TRUE
          /\ UNCHANGED <<kernel, signal_of, listener, signal_fd_set, read_ready, own, port,
                         fed, history>>

(* UnixDatagram::readReady *)
readReady == /\ pc = "user" /\ ~read_ready
             /\ read_ready' = TRUE
             /\ UNCHANGED <<kernel, signal_of, listener, signal_fd_set, accept_feeder, own,
                            port, fed, history>>

(* The user feeds a conveyor of his own. *)
FeedOwn == /\ pc = "user" /\ own < MaxFeed
           /\ own' = own + 1
           /\ fed' = [fed EXCEPT !["own"] = @ + 1]
           /\ late' = late \cup {"fed before the wait"}
           /\ UNCHANGED <<kernel, signal_of, listener, signal_fd_set, accept_feeder,
                          read_ready, port, owed, missed>>

(* EventLoop::wait, with or without a limit, and poll: the port is asked   *)
(* first, whatever is armed.                                               *)
Enter(how) == /\ pc = "user"
              /\ pc' = "epoll" /\ time' = how
              /\ UNCHANGED <<kernel, user, events, full, turn_step, fed, history>>

-----------------------------------------------------------------------------
(* epoll_wait returns a batch: all that is ready, up to the limit. *)
EpollWait ==
    /\ pc = "epoll" /\ Ready # {}
    /\ \E batch \in SUBSET Ready :
          /\ Cardinality(batch) = Min({MAX_EPOLL_EVENTS, Cardinality(Ready)})
          /\ events' = batch /\ ready' = ready \ batch
          /\ full' = (Cardinality(batch) = MAX_EPOLL_EVENTS)
    /\ pc' = "batch"
    /\ UNCHANGED <<backlog, inbox, pending, arrived, user, time, turn_step, fed, history>>

(* Nothing is ready and the time is over, at once for a poll. *)
EpollTimesOut == /\ pc = "epoll" /\ Ready = {} /\ time # "wait"
                 /\ pc' = "turn" /\ time' = "poll" /\ full' = FALSE
                 /\ UNCHANGED <<kernel, user, events, turn_step, fed, history>>

(* A handler of the program ran for a signal while epoll_wait slept, which *)
(* then fails (EINTR): pollImpl returns without an error.                  *)
EpollFails == /\ pc = "epoll" /\ Ready = {} /\ time # "poll"
              /\ pc' = "turn" /\ time' = "poll" /\ full' = FALSE
              /\ UNCHANGED <<kernel, user, events, turn_step, fed, history>>

(* Fault: the rest of the batch is forgotten. *)
NextEventForgets(e) == events' = {}

NextEvent(e) == events' = events \ {e}

(* Why a report leaves connections behind: there was no accept() yet, or   *)
(* there was more than one connection.                                     *)
MissedByServer == IF accept_feeder THEN backlog > 1 ELSE backlog > 0

(* UnixServer::notify: one accept4() for a report, none before accept(). *)
NotifyServer ==
    /\ pc = "batch" /\ "server" \in events
    /\ NextEvent("server")
    /\ IF accept_feeder /\ backlog > 0
       THEN /\ backlog' = backlog - 1
            /\ fed' = [fed EXCEPT !["accept"] = @ + 1]
       ELSE UNCHANGED <<backlog, fed>>
    /\ missed' = IF MissedByServer /\ "server" \notin ready THEN missed \cup {"server"}
                 ELSE missed
    /\ UNCHANGED <<ready, inbox, pending, arrived, user, pc, time, full, turn_step, owed, late>>

(* UnixDatagram::notify: without a feeder the report is dropped. *)
NotifyDatagram ==
    /\ pc = "batch" /\ "datagram" \in events
    /\ NextEvent("datagram")
    /\ fed' = [fed EXCEPT !["readable"] = IF read_ready THEN @ + 1 ELSE @]
    /\ missed' = IF ~read_ready /\ inbox # << >> /\ "datagram" \notin ready
                 THEN missed \cup {"datagram"} ELSE missed
    /\ UNCHANGED <<kernel, user, pc, time, full, turn_step, owed, late>>

BeginSignals == /\ pc = "batch" /\ "signal_fd" \in events
                /\ NextEvent("signal_fd")
                /\ pc' = "signals"
                /\ UNCHANGED <<kernel, user, time, full, turn_step, fed, history>>

(* Fault: the first listener alone is fed. *)
notifyFirstSignalListener(sig) ==
    LET first == IF HearersOf(sig) = {} THEN {} ELSE {CHOOSE l \in HearersOf(sig) : TRUE} IN
    fed' = [c \in Chain |-> IF c \in first THEN fed[c] + 1 ELSE fed[c]]

(* UnixEventPort::notifySignalListener; a destroyed conveyor has no space. *)
notifySignalListener(sig) ==
    fed' = [c \in Chain |-> IF c \in HearersOf(sig) THEN fed[c] + 1 ELSE fed[c]]

ReadSignal == /\ pc = "signals"
              /\ \E sig \in pending : /\ pending' = pending \ {sig}
                                      /\ notifySignalListener(sig)
              /\ UNCHANGED <<ready, backlog, inbox, arrived, user, port, history>>

NoMoreSignals == /\ pc = "signals" /\ pending = {}
                 /\ pc' = "batch"
                 /\ UNCHANGED <<kernel, user, time, events, full, turn_step, fed, history>>

(* The end of a batch: a full one is followed by another epoll_wait with   *)
(* the same timeout, before anything that was fed is served.               *)
EndOfBatch == /\ pc = "batch" /\ events = {}
              /\ IF full
                 THEN /\ pc' = "epoll" /\ late' = late \cup {"full batch"}
                      /\ UNCHANGED <<time, full>>
                 ELSE /\ pc' = "turn" /\ time' = "poll" /\ full' = FALSE
                      /\ UNCHANGED late
              /\ UNCHANGED <<kernel, user, events, turn_step, fed, owed, missed>>

-----------------------------------------------------------------------------
(* EventLoop::turn: one chain hands one element to its function.  That of  *)
(* the datagram reads.                                                     *)
Turn(c) == /\ pc = "turn" /\ fed[c] > 0 /\ turn_step < TurnLimit
           /\ fed' = [fed EXCEPT ![c] = @ - 1]
           /\ turn_step' = turn_step + 1
           /\ pc' = IF c = "readable" THEN "read" ELSE "turn"
           /\ owed' = IF c \in Listener /\ fed[c] = 1
                         /\ \A sig \in pending : c \notin HearersOf(sig)
                      THEN owed \ {c} ELSE owed
           /\ UNCHANGED <<kernel, user, time, events, full, missed, late>>

(* UnixDatagram::read, until it is busy.  recvfrom() of an empty datagram  *)
(* returns 0, which counts as busy too.                                    *)
ReadDatagram ==
    /\ pc = "read"
    /\ inbox' = IF inbox = << >> THEN inbox ELSE Tail(inbox)
    /\ LET busy == inbox = << >> \/ Head(inbox) = "empty" IN
       /\ pc' = IF busy THEN "turn" ELSE "read"
       /\ missed' = IF busy /\ inbox' # << >> /\ "datagram" \notin ready
                       /\ fed["readable"] = 0
                    THEN missed \cup {"datagram"} ELSE missed
    /\ UNCHANGED <<ready, backlog, pending, arrived, user, time, events, full, turn_step, fed,
                   owed, late>>

(* Fault: the loop returns after a turn. *)
TurnLoopReturnsEarly == /\ pc = "turn" /\ (turn_step > 0 \/ \A c \in Chain : fed[c] = 0)
                        /\ pc' = "user" /\ turn_step' = 0
                        /\ late' = IF turn_step = TurnLimit THEN {"turn limit"} ELSE {}
                        /\ UNCHANGED <<kernel, user, time, events, full, fed, owed, missed>>

(* EventLoop::turnLoop ends with nothing armed, or after too many turns. *)
TurnLoopReturns == /\ pc = "turn" /\ (turn_step = TurnLimit \/ \A c \in Chain : fed[c] = 0)
                   /\ pc' = "user" /\ turn_step' = 0
                   /\ late' = IF turn_step = TurnLimit THEN {"turn limit"} ELSE {}
                   /\ UNCHANGED <<kernel, user, time, events, full, fed, owed, missed>>

-----------------------------------------------------------------------------
Environment == \/ Connect
               \/ \E datagram \in Datagrams : Arrives(datagram)
               \/ \E sig \in UnixSignals : Raise(sig)

User == \/ \E l \in Listener : onSignal(l) \/ DropListener(l)
        \/ accept
        \/ readReady
        \/ FeedOwn

pollImpl == \/ EpollWait \/ EpollTimesOut
            \/ NotifyServer \/ NotifyDatagram
            \/ BeginSignals \/ ReadSignal \/ NoMoreSignals
            \/ EndOfBatch

turnLoop == (\E c \in Chain : Turn(c)) \/ ReadDatagram \/ TurnLoopReturns

Next == \/ Environment
        \/ User
        \/ \E how \in Waits : Enter(how)
        \/ pollImpl
        \/ EpollFails
        \/ turnLoop

Spec == Init /\ [][Next]_vars

(* The program goes on unless epoll_wait blocks, and comes back to the     *)
(* port for ever.  Nothing makes epoll_wait fail.                          *)
FairSpec == /\ Spec
            /\ WF_vars(pollImpl) /\ WF_vars(turnLoop)
            /\ WF_vars(\E how \in Waits : Enter(how))

-----------------------------------------------------------------------------
(* epoll_wait blocks without a limit. *)
Blocked == pc = "epoll" /\ time = "wait" /\ Ready = {}

(* Why an element of chain c may wait: a full batch made pollImpl ask      *)
(* again before the loop could turn, turnLoop stopped at its limit, or the *)
(* user has fed the chain himself between two waits.                       *)
Excused(c) == \/ "full batch" \in late \/ "turn limit" \in late
              \/ c = "own" /\ "fed before the wait" \in late

(* The program sleeps on work only for one of these reasons: everything    *)
(* that the port itself feeds after a batch that is not full is served     *)
(* before epoll_wait blocks, whatever the user feeds and wherever          *)
(* epoll_wait fails (UnixEventPort::pollImpl, EventLoop::wait).            *)
SleepsOnlyIdle == Blocked => \A c \in Chain : fed[c] > 0 => Excused(c)

(* With edge-triggered reports something is left behind only in the known  *)
(* ways: a report before accept() or readReady() was called, several       *)
(* connections under one report, or an empty datagram that looked like the *)
(* end.  Else whatever waits in a socket is still on the ready list, in    *)
(* the batch, fed, or being read, whoever acts between two system calls.   *)
LeftOnlyIfMissed ==
    /\ backlog > 0 /\ accept_feeder
          => "server" \in ready \cup events \cup missed
    /\ inbox # << >> /\ read_ready
          => \/ "datagram" \in ready \cup events \cup missed
             \/ fed["readable"] > 0 \/ pc = "read"

(* Every conveyor of onSignal() that is there when a signal of its kind is *)
(* raised runs for it, however many signals and listeners there are,       *)
(* unless the program sleeps on it (SleepsOnlyIdle).                       *)
SignalsAreTold ==
    \A l \in Listener : l \in owed ~> l \notin owed \/ (Blocked /\ fed[l] > 0)
=============================================================================
