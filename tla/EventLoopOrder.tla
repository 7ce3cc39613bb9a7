--------------------------- MODULE EventLoopOrder ---------------------------
(***************************************************************************)
(* The pointers of EventLoop beside the sequence of EventQueue.  Three     *)
(* history variables follow the calls and constrain none of them:          *)
(*                                                                         *)
(*   queue    the queue the calls should have produced (EventQueue)        *)
(*   armedBy  the call that armed each event                               *)
(*   cut      a disarm has taken away the event that later_insert_point    *)
(*            pointed into; the loop makes no promise afterwards           *)
(***************************************************************************)
EXTENDS EventLoop, Naturals, Sequences, FiniteSets, SequencesExt

VARIABLES queue, armedBy, cut

vars == <<loop, queue, armedBy, cut>>

Q == INSTANCE EventQueue

Calls == {"none", "next", "later", "last"}

(* The position of e in the order (of any event, were e not in it). *)
PositionOf(e) == CHOOSE k \in 1..Len(queue.order) :
                    \/ queue.order[k] = e
                    \/ \A j \in 1..Len(queue.order) : queue.order[j] # e

Init == /\ LoopInit
        /\ Q!Init
        /\ armedBy = [e \in Event |-> "none"]
        /\ cut = FALSE

StepArmNext(e) == /\ ArmNext(e)
                  /\ queue' = Q!AfterArmNext(queue, e)
                  /\ armedBy' = [armedBy EXCEPT ![e] = "next"]
                  /\ UNCHANGED cut

StepArmLater(e) == /\ ArmLater(e)
                   /\ queue' = Q!AfterArmLater(queue, e)
                   /\ armedBy' = [armedBy EXCEPT ![e] = "later"]
                   /\ UNCHANGED cut

StepArmLast(e) == /\ ArmLast(e)
                  /\ queue' = Q!AfterArmLast(queue, e)
                  /\ armedBy' = [armedBy EXCEPT ![e] = "last"]
                  /\ UNCHANGED cut

StepDisarm(e) == /\ Disarm(e)
                 /\ queue' = Q!AfterDisarm(queue, PositionOf(e))
                 /\ armedBy' = [armedBy EXCEPT ![e] = "none"]
                 /\ cut' = (cut \/ loop.laterInsert = e)

StepTurn == /\ Turn
            /\ queue' = Q!AfterTurn(queue)
            /\ armedBy' = [armedBy EXCEPT ![loop.link[HeadSlot]] = "none"]
            /\ UNCHANGED cut

(* Calls are followed up to the first cut; ConveyorChain goes beyond it. *)
Next == /\ ~cut
        /\ \/ \E e \in Event : \/ StepArmNext(e)
                               \/ StepArmLater(e)
                               \/ StepArmLast(e)
                               \/ StepDisarm(e)
           \/ StepTurn

Spec == Init /\ [][Next]_vars

(* turnLoop runs turn() while there is a head. *)
FairSpec == Spec /\ WF_vars(~cut /\ StepTurn)

-----------------------------------------------------------------------------
(* The slot behind the first k events of the order. *)
SlotAt(order, k) == IF k = 0 THEN HeadSlot ELSE order[k]

(* The list from head is the order and ends in a null, prev is its         *)
(* inverse, and the fields of an event outside of it are null.             *)
IsList(link, prev, order) ==
    LET n == Len(order) IN
    /\ \A i, j \in 1..n : order[i] = order[j] => i = j
    /\ \A i \in 1..n : /\ link[SlotAt(order, i - 1)] = order[i]
                       /\ prev[order[i]] = SlotAt(order, i - 1)
    /\ link[SlotAt(order, n)] = Null
    /\ \A e \in Event : \/ \E i \in 1..n : order[i] = e
                        \/ prev[e] = Null /\ link[e] = Null

(* Every field of the loop has a value of its type. *)
TypeOK == /\ loop \in Queues
          /\ queue \in [order : Seq(Event), next : Nat, later : Nat]
          /\ armedBy \in [Event -> Calls]
          /\ cut \in BOOLEAN

(* The pointers of the loop are exactly the queue: the list from head is   *)
(* the sequence in its order and ends in a null, prev is its inverse, an   *)
(* event is armed exactly when it is in the list, both insertion points    *)
(* and the tail are slots of the list at the positions EventQueue gives    *)
(* (Event::armNext/armLater/armLast/disarm and EventLoop::turn).           *)
Represents ==
    ~cut => /\ IsList(loop.link, loop.prev, queue.order)
            /\ queue.next <= queue.later
            /\ queue.later <= Len(queue.order)
            /\ loop.nextInsert = SlotAt(queue.order, queue.next)
            /\ loop.laterInsert = SlotAt(queue.order, queue.later)
            /\ loop.tail = SlotAt(queue.order, Len(queue.order))

(* Of the events in the order, those behind position k were armed last. *)
LastsAfter(by, order, k) ==
    \A i \in 1..Len(order) : (by[order[i]] = "last") <=> (k < i)

(* The events armed with armLast, and no others, are behind the later      *)
(* insertion point.                                                        *)
LastsBehind == ~cut => LastsAfter(armedBy, queue.order, queue.later)

(* turn() fires an event armed with armLast only when every event still    *)
(* armed was armed with armLast too: sinks and exhausted immediate nodes   *)
(* wait for all other work (async.h SinkConveyorNode, ConveyorSinks).      *)
LastFiresLast ==
    [][StepTurn /\ armedBy[loop.link[HeadSlot]] = "last" =>
         \A e \in Event : IsArmed(loop, e) => armedBy[e] = "last"]_vars

(* The calls, seen as operations on the sequence, are those of EventQueue: *)
(* isArmed() is membership in the sequence and turn() finds an event       *)
(* exactly when the sequence is not empty.                                 *)
ImplementsQueue == Q!Spec

(* An event armed with armLater is fired or disarmed in the end, provided  *)
(* armNext is not called for ever: armLater of other events, for ever,     *)
(* does not starve it (AdaptConveyorNode::fire re-arms itself in this way).*)
LaterIsServed ==
    []~cut /\ <>[][\A e \in Event : ~ArmNext(e)]_vars
      => \A e \in Event : armedBy[e] = "later" ~> armedBy[e] # "later"
=============================================================================
