------------------------------ MODULE EventLoop ------------------------------
(***************************************************************************)
(* The run queue of saw::EventLoop (async.h, async.cpp): an intrusive,     *)
(* doubly linked list of Events with two insertion points and a tail.      *)
(*                                                                         *)
(* The code keeps Event** pointers, that is, pointers to the fields        *)
(* `loop.head` and `event.next`.  Such a field is a SLOT here: HeadSlot is *)
(* &loop.head and an event e is &e->next.  link[s] is the content of the   *)
(* slot s, so that link[HeadSlot] is `head` and link[e] is `e->next`.      *)
(*                                                                         *)
(* The queue is one record, and every operation of Event and EventLoop     *)
(* that changes it is an operator from a queue to a queue, because one     *)
(* fire() of a conveyor node makes several of these calls in a row.        *)
(*                                                                         *)
(* An operator whose comment begins with Fault is a slip that the code     *)
(* might have had in place of the operator behind it.  No specification    *)
(* uses it; it shows that a property would notice.                         *)
(***************************************************************************)
CONSTANTS Event,     \* the events of one loop
          HeadSlot,  \* the slot &loop.head
          Null       \* nullptr

ASSUME HeadAssumption == HeadSlot \notin Event
ASSUME NullAssumption == Null \notin Event \cup {HeadSlot}

Slot == Event \cup {HeadSlot}

Queues == [link : [Slot -> Event \cup {Null}],
           prev : [Event -> Slot \cup {Null}],
           nextInsert : Slot,
           laterInsert : Slot,
           tail : Slot]

EmptyQueue == [link |-> [s \in Slot |-> Null],
               prev |-> [e \in Event |-> Null],
               nextInsert |-> HeadSlot,
               laterInsert |-> HeadSlot,
               tail |-> HeadSlot]

-----------------------------------------------------------------------------
IsArmed(q, e) == q.prev[e] # Null

(* next = *p; *p = this -- in that order, p may be the event's own slot. *)
LinkedAt(q, e, p) == [q.link EXCEPT ![e] = q.link[p], ![p] = e]

(* prev = p; if (next) next->prev = &next *)
PrevAt(q, e, p) ==
    [f \in Event |-> IF f = LinkedAt(q, e, p)[e] THEN e
                     ELSE IF f = e THEN p
                     ELSE q.prev[f]]

Moved(point, from, to) == IF point = from THEN to ELSE point

(* Fault: armNext does not push the later point back. *)
DoArmNextLaterStays(q, e) ==
    IF IsArmed(q, e) THEN q
    ELSE LET p == q.nextInsert IN
         [q EXCEPT !.link = LinkedAt(q, e, p),
                   !.prev = PrevAt(q, e, p),
                   !.nextInsert = e,
                   !.tail = Moved(@, p, e)]

(* Event::armNext: insert at the next point, which moves behind the event, *)
(* and so does the later point when it was at the same slot.               *)
DoArmNext(q, e) ==
    IF IsArmed(q, e) THEN q
    ELSE LET p == q.nextInsert IN
         [link |-> LinkedAt(q, e, p),
          prev |-> PrevAt(q, e, p),
          nextInsert |-> e,
          laterInsert |-> Moved(q.laterInsert, p, e),
          tail |-> Moved(q.tail, p, e)]

(* Faults: armLater in front of everything, and behind everything. *)
DoArmLaterInFront(q, e) ==
    IF IsArmed(q, e) THEN q
    ELSE LET p == q.nextInsert IN
         [q EXCEPT !.link = LinkedAt(q, e, p),
                   !.prev = PrevAt(q, e, p),
                   !.laterInsert = Moved(@, p, e),
                   !.tail = Moved(@, p, e)]

DoArmLaterAtTail(q, e) ==
    IF IsArmed(q, e) THEN q
    ELSE [q EXCEPT !.link = LinkedAt(q, e, q.tail),
                   !.prev = PrevAt(q, e, q.tail),
                   !.laterInsert = e,
                   !.tail = e]

(* Event::armLater: insert at the later point, which moves behind it. *)
DoArmLater(q, e) ==
    IF IsArmed(q, e) THEN q
    ELSE LET p == q.laterInsert IN
         [link |-> LinkedAt(q, e, p),
          prev |-> PrevAt(q, e, p),
          nextInsert |-> q.nextInsert,
          laterInsert |-> e,
          tail |-> Moved(q.tail, p, e)]

(* Event::armLast: insert at the later point, which stays where it is. *)
DoArmLast(q, e) ==
    IF IsArmed(q, e) THEN q
    ELSE LET p == q.laterInsert IN
         [link |-> LinkedAt(q, e, p),
          prev |-> PrevAt(q, e, p),
          nextInsert |-> q.nextInsert,
          laterInsert |-> q.laterInsert,
          tail |-> Moved(q.tail, p, e)]

(* *p = next; next = nullptr *)
UnlinkedFrom(q, e, p) == [q.link EXCEPT ![p] = q.link[e], ![e] = Null]

(* Fault: the successor's prev is cleared as well. *)
PrevWithoutBoth(q, e, p) ==
    [f \in Event |-> IF f \in {e, q.link[e]} THEN Null ELSE q.prev[f]]

(* if (next) next->prev = p; prev = nullptr *)
PrevWithout(q, e, p) ==
    [f \in Event |-> IF f = e THEN Null
                     ELSE IF f = q.link[e] THEN p
                     ELSE q.prev[f]]

(* Faults: the tail moves forward instead of back, and the next point is   *)
(* left where it is.                                                       *)
DoDisarmTailForward(q, e) ==
    IF ~IsArmed(q, e) THEN q
    ELSE LET p == q.prev[e] IN
         [q EXCEPT !.link = UnlinkedFrom(q, e, p),
                   !.prev = PrevWithout(q, e, p),
                   !.nextInsert = Moved(@, e, p),
                   !.tail = Moved(@, e, q.link[e])]

DoDisarmNextPointStays(q, e) ==
    IF ~IsArmed(q, e) THEN q
    ELSE LET p == q.prev[e] IN
         [q EXCEPT !.link = UnlinkedFrom(q, e, p),
                   !.prev = PrevWithout(q, e, p),
                   !.tail = Moved(@, e, p)]

(* Event::disarm, also the destructor of Event.  It moves the tail and the *)
(* next point off the event, but not the later point.                      *)
DoDisarm(q, e) ==
    IF ~IsArmed(q, e) THEN q
    ELSE LET p == q.prev[e] IN
         [link |-> UnlinkedFrom(q, e, p),
          prev |-> PrevWithout(q, e, p),
          nextInsert |-> Moved(q.nextInsert, e, p),
          laterInsert |-> q.laterInsert,
          tail |-> Moved(q.tail, e, p)]

(* The part of EventLoop::turn before event->fire(): take the event at the *)
(* head out of the list and put the next point at the head.                *)
DoTurn(q) ==
    LET e == q.link[HeadSlot] IN
    [link |-> UnlinkedFrom(q, e, HeadSlot),
     prev |-> PrevWithout(q, e, HeadSlot),
     nextInsert |-> HeadSlot,
     laterInsert |-> Moved(q.laterInsert, e, HeadSlot),
     tail |-> Moved(q.tail, e, HeadSlot)]

-----------------------------------------------------------------------------
(***************************************************************************)
(* The loop with arbitrary users: what fire() of an event does is a        *)
(* sequence of the other actions.                                          *)
(***************************************************************************)
VARIABLE loop

LoopInit == loop = EmptyQueue

ArmNext(e) == ~IsArmed(loop, e) /\ loop' = DoArmNext(loop, e)

ArmLater(e) == ~IsArmed(loop, e) /\ loop' = DoArmLater(loop, e)

ArmLast(e) == ~IsArmed(loop, e) /\ loop' = DoArmLast(loop, e)

Disarm(e) == IsArmed(loop, e) /\ loop' = DoDisarm(loop, e)

Turn == loop.link[HeadSlot] # Null /\ loop' = DoTurn(loop)

LoopNext == \/ \E e \in Event : \/ ArmNext(e)
                                \/ ArmLater(e)
                                \/ ArmLast(e)
                                \/ Disarm(e)
            \/ Turn

LoopSpec == LoopInit /\ [][LoopNext]_loop
=============================================================================
