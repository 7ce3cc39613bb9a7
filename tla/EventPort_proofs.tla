--------------------------- MODULE EventPort_proofs ---------------------------
(***************************************************************************)
(* EventPort for every limit of a batch and of turnLoop, any listeners and *)
(* any number of arrivals: when the port sleeps, what it leaves behind,    *)
(* and where a signal is until its listeners have heard of it.             *)
(***************************************************************************)
EXTENDS EventPort, SequenceTheorems, TLAPS

-----------------------------------------------------------------------------
(* The inductive invariant, in parts. *)

Types == /\ backlog \in Nat /\ inbox \in Seq(Datagrams) /\ turn_step \in Nat
         /\ pc \in {"user", "epoll", "batch", "signals", "turn", "read"}
         /\ fed \in [Chain -> Nat]
         /\ listener \in [Listener -> {"none", "live", "dropped"}]

(* Between the end of turnLoop and the return of epoll_wait an element     *)
(* waits only for a reason.                                                *)
IdleOrLate == pc \in {"user", "epoll"} => \A c \in Chain : fed[c] > 0 => Excused(c)

(* A connection that waits is on the ready list, in the batch or missed,   *)
(* also before accept() is called.                                         *)
ServerKnown == backlog > 0 => "server" \in ready \cup events \cup missed

(* So is a datagram, or its element is on its way, or it is being read. *)
DatagramKnown ==
    inbox # << >> => \/ "datagram" \in ready \cup events \cup missed
                     \/ fed["readable"] > 0 \/ pc = "read"

(* What a listener has to hear of is in its chain or still in the kernel:  *)
(* no signal is lost between sigprocmask and the listener, whoever else    *)
(* listens to it and whatever is dropped meanwhile.                        *)
OwedIsOnItsWay ==
    \A l \in owed : /\ l \in Listener
                    /\ fed[l] > 0 \/ \E sig \in pending : l \in HearersOf(sig)

(* epoll_wait is asked again only when the whole batch was handled. *)
BatchHandled == pc \notin {"batch", "signals"} => events = {}

Known == Types /\ BatchHandled /\ ServerKnown /\ DatagramKnown /\ OwedIsOnItsWay

IInv == Known /\ IdleOrLate

-----------------------------------------------------------------------------
(* No listener is one of the chains that the port has anyway. *)
LEMMA Chains ==
  /\ "accept" \in Chain /\ "readable" \in Chain /\ "own" \in Chain
  /\ \A l \in Listener : l \in Chain /\ l # "accept" /\ l # "readable" /\ l # "own"
BY EventPortAssumption DEF Chain

(* At first nothing has arrived and nothing is owed. *)
LEMMA InitIInv == Init => IInv
<1> SUFFICES ASSUME Init PROVE IInv
  OBVIOUS
<1>1. Types
  BY EmptySeq DEF Init, Types
<1>2. IdleOrLate /\ BatchHandled
  BY DEF Init, IdleOrLate, BatchHandled
<1>3. ServerKnown /\ DatagramKnown /\ OwedIsOnItsWay
  BY DEF Init, ServerKnown, DatagramKnown, OwedIsOnItsWay
<1> QED
  BY <1>1, <1>2, <1>3 DEF IInv, Known

(* Whatever arrives is announced. *)
LEMMA EnvironmentKnown ==
  ASSUME Known, Environment
  PROVE  Known'
<1> USE DEF Known, Types, BatchHandled, ServerKnown, DatagramKnown,
            OwedIsOnItsWay, HearersOf, user, port
<1>1. CASE Connect
  BY <1>1 DEF Connect
<1>2. ASSUME NEW datagram \in Datagrams, Arrives(datagram) PROVE Known'
  <2>1. inbox' \in Seq(Datagrams)
    BY <1>2, AppendProperties DEF Arrives
  <2> QED
    BY <2>1, <1>2 DEF Arrives
<1>3. ASSUME NEW sig \in UnixSignals, Raise(sig) PROVE Known'
  BY <1>3 DEF Raise
<1> QED
  BY <1>1, <1>2, <1>3 DEF Environment

(* What the user does before a wait. *)
LEMMA UserKnown ==
  ASSUME Known, User \/ \E how \in Waits : Enter(how)
  PROVE  Known'
<1> USE DEF Known, Types, BatchHandled, ServerKnown, DatagramKnown,
            OwedIsOnItsWay, HearersOf, kernel, user, port, history
<1>1. ASSUME NEW l \in Listener, onSignal(l) PROVE Known'
  BY <1>1 DEF onSignal
<1>2. ASSUME NEW l \in Listener, DropListener(l) PROVE Known'
  <2>1. l \in Chain /\ l # "readable"
    BY Chains
  <2> QED
    BY <2>1, <1>2 DEF DropListener
<1>3. CASE accept
  BY <1>3 DEF accept
<1>4. CASE readReady
  BY <1>4 DEF readReady
<1>5. CASE FeedOwn
  <2>1. /\ fed' = [fed EXCEPT !["own"] = @ + 1]
        /\ UNCHANGED <<kernel, signal_of, listener, port, owed, missed>>
    BY <1>5 DEF FeedOwn
  <2>2. fed' \in [Chain -> Nat] /\ \A c \in Chain : fed[c] > 0 => fed'[c] > 0
    BY <2>1, Chains
  <2>3. Types' /\ BatchHandled'
    BY <2>1, <2>2
  <2>5. ServerKnown' /\ DatagramKnown'
    BY <2>1, <2>2, Chains
  <2>6. OwedIsOnItsWay'
    BY <2>1, <2>2, Chains
  <2> QED
    BY <2>3, <2>5, <2>6
<1>6. ASSUME NEW how \in Waits, Enter(how) PROVE Known'
  BY <1>6 DEF Enter
<1> QED
  BY <1>1, <1>2, <1>3, <1>4, <1>5, <1>6 DEF User

(* epoll_wait, and the handling of a batch. *)
LEMMA pollImplKnown ==
  ASSUME Known, pollImpl \/ EpollFails
  PROVE  Known'
<1> USE DEF Known, Types, BatchHandled, ServerKnown, DatagramKnown,
            OwedIsOnItsWay, HearersOf, kernel, user, port, history
<1>1. CASE EpollWait
  <2>1. PICK batch \in SUBSET Ready : events' = batch /\ ready' = ready \ batch
    BY <1>1 DEF EpollWait
  <2>2. /\ pc = "epoll" /\ pc' = "batch"
        /\ UNCHANGED <<backlog, inbox, pending, signal_of, listener, turn_step, fed, owed, missed>>
    BY <1>1 DEF EpollWait
  <2>3. ready \subseteq ready' \cup events'
    BY <2>1
  <2>4. Types' /\ BatchHandled' /\ OwedIsOnItsWay'
    BY <2>2
  <2>6. ServerKnown' /\ DatagramKnown'
    BY <2>2, <2>3
  <2> QED
    BY <2>4, <2>6
<1>2. CASE EpollTimesOut \/ EpollFails
  BY <1>2 DEF EpollTimesOut, EpollFails
<1>3. CASE NotifyServer
  BY <1>3, Chains DEF NotifyServer, MissedByServer, NextEvent
<1>4. CASE NotifyDatagram
  BY <1>4, Chains DEF NotifyDatagram, NextEvent
<1>5. CASE BeginSignals
  BY <1>5 DEF BeginSignals, NextEvent
<1>6. CASE ReadSignal
  BY <1>6, Chains DEF ReadSignal, notifySignalListener
<1>7. CASE NoMoreSignals
  BY <1>7 DEF NoMoreSignals
<1>8. CASE EndOfBatch
  BY <1>8 DEF EndOfBatch
<1> QED
  BY <1>1, <1>2, <1>3, <1>4, <1>5, <1>6, <1>7, <1>8 DEF pollImpl

(* The turns, and the function that reads datagrams. *)
LEMMA turnLoopKnown ==
  ASSUME Known, turnLoop
  PROVE  Known'
<1> USE DEF Known, Types, BatchHandled, ServerKnown, DatagramKnown,
            OwedIsOnItsWay, HearersOf, kernel, user, port, history
<1>1. ASSUME NEW c \in Chain, Turn(c) PROVE Known'
  BY <1>1, Chains DEF Turn
<1>2. CASE ReadDatagram
  <2>1. inbox' \in Seq(Datagrams)
    BY <1>2, HeadTailProperties DEF ReadDatagram
  <2>2. /\ pc = "read" /\ pc' \in {"turn", "read"}
        /\ UNCHANGED <<ready, backlog, pending, signal_of, listener, events, turn_step, fed,
                       owed>>
        /\ missed \subseteq missed'
    BY <1>2 DEF ReadDatagram
  <2>3. Types' /\ BatchHandled' /\ ServerKnown' /\ OwedIsOnItsWay'
    BY <2>1, <2>2
  <2>4. inbox' = << >> \/ pc' = "read" \/ "datagram" \in ready \/ fed["readable"] # 0
           \/ "datagram" \in missed'
    BY <1>2 DEF ReadDatagram
  <2>5. DatagramKnown'
    BY <2>2, <2>4, Chains
  <2> QED
    BY <2>3, <2>5
<1>3. CASE TurnLoopReturns
  BY <1>3 DEF TurnLoopReturns
<1> QED
  BY <1>1, <1>2, <1>3 DEF turnLoop

(* Reasons to wait stay while nothing more is fed. *)
LEMMA IdleKept ==
  ASSUME Types, IdleOrLate, late' = late, \A c \in Chain : fed'[c] > 0 => fed[c] > 0,
         pc' \in {"user", "epoll"} => pc \in {"user", "epoll"}
  PROVE  IdleOrLate'
BY DEF Types, IdleOrLate, Excused

(* No step takes the program to the port with work that nothing excuses.   *)
(* Only the end of turnLoop, a full batch and the user lead there or feed  *)
(* meanwhile.                                                              *)
LEMMA IdleStep ==
  ASSUME Types, IdleOrLate, Next
  PROVE  IdleOrLate'
<1>1. CASE pc' \notin {"user", "epoll"}
  BY <1>1 DEF IdleOrLate
<1>2. CASE Environment
  BY <1>2, IdleKept DEF Environment, Connect, Arrives, Raise, port
<1>3. ASSUME NEW l \in Listener, onSignal(l) \/ DropListener(l) PROVE IdleOrLate'
  <2>1. \A c \in Chain : fed'[c] > 0 => fed[c] > 0
    BY <1>3, Chains DEF Types, onSignal, DropListener
  <2> QED
    BY <2>1, <1>3, IdleKept DEF onSignal, DropListener, port, history
<1>4. CASE accept \/ readReady \/ \E how \in Waits : Enter(how)
  BY <1>4, IdleKept DEF accept, readReady, Enter, port, history
<1>5. CASE FeedOwn
  <2>1. /\ fed' = [fed EXCEPT !["own"] = @ + 1] /\ pc = "user"
        /\ late' = late \cup {"fed before the wait"}
    BY <1>5 DEF FeedOwn
  <2>2. ASSUME NEW c \in Chain, fed'[c] > 0 PROVE Excused(c)'
    <3>1. CASE c = "own"
      BY <2>1, <3>1 DEF Excused
    <3>2. CASE c # "own"
      BY <2>1, <2>2, <3>2 DEF Types, IdleOrLate, Excused
    <3> QED
      BY <3>1, <3>2
  <2> QED
    BY <2>2 DEF IdleOrLate
<1>6. CASE EpollWait \/ EpollTimesOut \/ EpollFails \/ BeginSignals \/ NoMoreSignals
  BY <1>6, <1>1 DEF EpollWait, EpollTimesOut, EpollFails, BeginSignals, NoMoreSignals
<1>7. CASE NotifyServer \/ NotifyDatagram \/ ReadSignal
  BY <1>7, <1>1 DEF NotifyServer, NotifyDatagram, ReadSignal, port
<1>8. CASE EndOfBatch
  BY <1>8, <1>1 DEF EndOfBatch, IdleOrLate, Excused
<1>9. ASSUME NEW c \in Chain, Turn(c) PROVE IdleOrLate'
  BY <1>9, <1>1 DEF Turn
<1>10. CASE ReadDatagram
  BY <1>10, <1>1 DEF ReadDatagram
<1>11. CASE TurnLoopReturns
  <2>1. (\A c \in Chain : fed[c] = 0) \/ "turn limit" \in late'
    BY <1>11 DEF TurnLoopReturns
  <2>2. fed' = fed
    BY <1>11 DEF TurnLoopReturns
  <2>3. ASSUME NEW c \in Chain, fed'[c] > 0 PROVE Excused(c)'
    <3>1. fed[c] # 0
      BY <2>2, <2>3
    <3>2. "turn limit" \in late'
      BY <2>1, <3>1
    <3> QED
      BY <3>2 DEF Excused
  <2> QED
    BY <2>3 DEF IdleOrLate
<1> QED
  BY <1>2, <1>3, <1>4, <1>5, <1>6, <1>7, <1>8, <1>9, <1>10, <1>11
  DEF Next, User, pollImpl, turnLoop

-----------------------------------------------------------------------------
(* The invariant holds in every state that the program can reach. *)
THEOREM Invariance == Spec => []IInv
<1>1. ASSUME IInv, [Next]_vars PROVE IInv'
  <2>1. CASE UNCHANGED vars
    <3>1. Known'
      BY <1>1, <2>1 DEF IInv, Known, Types, BatchHandled, ServerKnown, DatagramKnown,
                        OwedIsOnItsWay, HearersOf, vars, kernel, user, port, history
    <3>2. IdleOrLate'
      BY <1>1, <2>1, IdleKept DEF IInv, Known, vars, port, history
    <3> QED
      BY <3>1, <3>2 DEF IInv
  <2>2. CASE Next
    <3>1. Known'
      BY <1>1, <2>2, EnvironmentKnown, UserKnown, pollImplKnown, turnLoopKnown DEF IInv, Next
    <3>2. IdleOrLate'
      BY <1>1, <2>2, IdleStep DEF IInv, Known
    <3> QED
      BY <3>1, <3>2 DEF IInv
  <2> QED
    BY <1>1, <2>1, <2>2
<1> QED
  BY <1>1, InitIInv, PTL DEF Spec

(* EventLoop::wait and UnixEventPort::pollImpl: while epoll_wait blocks    *)
(* nothing waits to be served, unless a full batch, the limit of turnLoop  *)
(* or the user is the reason.                                              *)
THEOREM SleepsIdle == Spec => []SleepsOnlyIdle
<1>1. IInv => SleepsOnlyIdle
  BY DEF IInv, IdleOrLate, SleepsOnlyIdle, Blocked
<1> QED
  BY <1>1, Invariance, PTL

(* UnixServer::notify, UnixDatagram::notify and read: a connection or a    *)
(* datagram is left behind in one of the known ways only.                  *)
THEOREM NothingElseIsLeft == Spec => []LeftOnlyIfMissed
<1>1. IInv => LeftOnlyIfMissed
  BY DEF IInv, Known, ServerKnown, DatagramKnown, LeftOnlyIfMissed
<1> QED
  BY <1>1, Invariance, PTL

(* UnixEventPort::onSignal and notifySignalListener: a signal that was     *)
(* raised is pending in the kernel, or in the chain of each of its         *)
(* listeners, until that listener has run.                                 *)
THEOREM NoSignalIsLost == Spec => []OwedIsOnItsWay
<1>1. IInv => OwedIsOnItsWay
  BY DEF IInv, Known
<1> QED
  BY <1>1, Invariance, PTL
=============================================================================
