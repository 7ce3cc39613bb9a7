--------------------------- MODULE EventLoop_proofs ---------------------------
(***************************************************************************)
(* What the calls on the run queue keep true when events are destroyed and *)
(* later_insert_point may be left in one of them.  In EventLoopOrder the   *)
(* list is followed up to that point; here it is followed beyond it, with  *)
(* what each user of the loop needs: which events are armed, that no event *)
(* that was destroyed can be reached, and that the head is armed.          *)
(***************************************************************************)
EXTENDS EventLoop, Integers, SequencesExt, SequenceTheorems, WellFoundedInduction, TLAPS

(* The list is linked both ways. *)
Linked(q) == /\ \A p \in Slot : q.link[p] # Null => q.prev[q.link[p]] = p
             /\ \A e \in Event : q.prev[e] # Null => q.link[q.prev[e]] = e

(* Events armed at the slot of a destroyed event hang on that slot: they   *)
(* are lost, a list of their own that no head leads to.                    *)
OnList(q, lost, p) == p = HeadSlot \/ (p \in Event /\ IsArmed(q, p) /\ p \notin lost)

Apart(q, dead, lost) ==
    /\ \A e \in Event : IsArmed(q, e) =>
          IF e \in lost THEN q.prev[e] \in lost \cup dead ELSE OnList(q, lost, q.prev[e])
    /\ OnList(q, lost, q.nextInsert)
    /\ OnList(q, lost, q.tail)

(* Following prev never comes round. *)
Ordered(q) == \E rank \in [Slot -> Int] :
                 \A e \in Event : IsArmed(q, e) => rank[q.prev[e]] < rank[e]

(* No destroyed event is armed, an event that exists and is not armed      *)
(* points nowhere, and only the later point may be in a destroyed event.   *)
PointsTo(q, dead, p) == p = HeadSlot \/ (p \in Event /\ IsArmed(q, p)) \/ p \in dead

QueueInv(q, dead) ==
    /\ q \in Queues
    /\ Linked(q)
    /\ Ordered(q)
    /\ \A e \in Event : IsArmed(q, e) => e \notin dead
    /\ \A e \in Event : e \notin dead /\ ~IsArmed(q, e) => q.link[e] = Null
    /\ PointsTo(q, dead, q.laterInsert)
    /\ \E lost \in SUBSET Event : Apart(q, dead, lost)

-----------------------------------------------------------------------------
(* The fields of a queue. *)
LEMMA QueueTypes ==
  ASSUME NEW q \in Queues
  PROVE  /\ q.link \in [Slot -> Event \cup {Null}] /\ q.prev \in [Event -> Slot \cup {Null}]
         /\ q.nextInsert \in Slot /\ q.laterInsert \in Slot /\ q.tail \in Slot
BY DEF Queues

(* An empty loop. *)
LEMMA EmptyQueueInv ==
  ASSUME NEW dead
  PROVE  /\ QueueInv(EmptyQueue, dead)
         /\ \A e \in Event : ~IsArmed(EmptyQueue, e)
<1>1. EmptyQueue \in Queues /\ Linked(EmptyQueue) /\ \A e \in Event : ~IsArmed(EmptyQueue, e)
  BY DEF EmptyQueue, Queues, Slot, Linked, IsArmed
<1>2. Apart(EmptyQueue, dead, {})
  BY <1>1 DEF Apart, OnList, EmptyQueue
<1>3. Ordered(EmptyQueue)
  <2>1. [s \in Slot |-> 0] \in [Slot -> Int]
    OBVIOUS
  <2> QED
    BY <1>1, <2>1 DEF Ordered
<1> QED
  BY <1>1, <1>2, <1>3 DEF QueueInv, PointsTo, EmptyQueue, Slot

(* The event e stored at the slot p, with the three points n, l and t. *)
InsertedAt(q, e, p, n, l, t) ==
    [link |-> LinkedAt(q, e, p), prev |-> PrevAt(q, e, p), nextInsert |-> n,
     laterInsert |-> l, tail |-> t]

(* Inserting an event that exists and is not armed, at a slot that one of  *)
(* the points holds, arms it and nothing else.                             *)
LEMMA InsertInv ==
  ASSUME NEW q, NEW dead \in SUBSET Event, QueueInv(q, dead),
         NEW e \in Event, e \notin dead, ~IsArmed(q, e),
         NEW p \in Slot, PointsTo(q, dead, p),
         NEW n \in Slot, n = q.nextInsert \/ (n = e /\ p = q.nextInsert),
         NEW l \in Slot, l = q.laterInsert \/ l = e
  PROVE  LET r == InsertedAt(q, e, p, n, l, Moved(q.tail, p, e)) IN
         /\ QueueInv(r, dead)
         /\ \A f \in Event : IsArmed(r, f) <=> IsArmed(q, f) \/ f = e
<1> DEFINE t == Moved(q.tail, p, e)
           r == InsertedAt(q, e, p, n, l, t)
           g == q.link[p]
<1>1. /\ q.link \in [Slot -> Event \cup {Null}] /\ q.prev \in [Event -> Slot \cup {Null}]
      /\ q.nextInsert \in Slot /\ q.laterInsert \in Slot /\ q.tail \in Slot
  BY QueueTypes DEF QueueInv
<1>2. e \in Slot /\ e # Null /\ p # Null /\ p # e /\ HeadSlot \notin Event /\ Null \notin Slot
  BY HeadAssumption, NullAssumption DEF Slot, PointsTo
<1>3. /\ g \in Event \cup {Null} /\ g # e
      /\ g # Null => q.prev[g] = p
      /\ q.link[e] = Null
  BY <1>1, <1>2 DEF QueueInv, Linked, IsArmed
<1>4. /\ r.link \in [Slot -> Event \cup {Null}]
      /\ r.link[e] = g /\ r.link[p] = e
      /\ \A s \in Slot : s # e /\ s # p => r.link[s] = q.link[s]
  BY <1>1, <1>2, <1>3 DEF InsertedAt, LinkedAt
<1>5. /\ r.prev \in [Event -> Slot \cup {Null}]
      /\ \A f \in Event : r.prev[f] = IF f = g THEN e ELSE IF f = e THEN p ELSE q.prev[f]
  <2>1. LinkedAt(q, e, p)[e] = g
    BY <1>1, <1>2 DEF LinkedAt
  <2>2. r.prev = [f \in Event |-> IF f = g THEN e ELSE IF f = e THEN p ELSE q.prev[f]]
    BY <2>1 DEF InsertedAt, PrevAt
  <2> QED
    BY <2>2, <1>1, <1>2
<1>6. r.nextInsert = n /\ r.laterInsert = l /\ r.tail = t /\ t \in Slot
  BY <1>1, <1>2 DEF InsertedAt, Moved
<1>7. r \in Queues
  <2>1. r = [link |-> r.link, prev |-> r.prev, nextInsert |-> n, laterInsert |-> l, tail |-> t]
    BY DEF InsertedAt
  <2> HIDE DEF r, t
  <2> QED
    BY <2>1, <1>4, <1>5, <1>6 DEF Queues
<1> HIDE DEF r, t, g
<1>8. \A f \in Event : IsArmed(r, f) <=> IsArmed(q, f) \/ f = e
  <2> SUFFICES ASSUME NEW f \in Event PROVE IsArmed(r, f) <=> IsArmed(q, f) \/ f = e
    OBVIOUS
  <2>1. CASE f = g
    <3>1. q.prev[f] = p /\ r.prev[f] = e
      BY <2>1, <1>3, <1>5, NullAssumption
    <3> QED
      BY <3>1, <1>2 DEF IsArmed
  <2>2. CASE f # g
    <3>1. r.prev[f] = IF f = e THEN p ELSE q.prev[f]
      BY <2>2, <1>5
    <3> QED
      BY <3>1, <1>2 DEF IsArmed
  <2> QED
    BY <2>1, <2>2
<1>9. Linked(r)
  <2>1. ASSUME NEW s \in Slot, r.link[s] # Null PROVE r.prev[r.link[s]] = s
    <3>1. CASE s = e
      BY <3>1, <2>1, <1>3, <1>4, <1>5
    <3>2. CASE s = p
      BY <3>2, <1>2, <1>3, <1>4, <1>5
    <3>3. CASE s # e /\ s # p
      <4>1. q.link[s] \in Event /\ q.prev[q.link[s]] = s /\ r.link[s] = q.link[s]
        BY <3>3, <2>1, <1>1, <1>4 DEF QueueInv, Linked
      <4>2. q.link[s] # g
        BY <4>1, <3>3, <1>3, NullAssumption
      <4>3. q.link[s] # e
        BY <4>1, <1>2 DEF IsArmed
      <4> QED
        BY <4>1, <4>2, <4>3, <1>5
    <3> QED
      BY <3>1, <3>2, <3>3
  <2>2. ASSUME NEW f \in Event, r.prev[f] # Null PROVE r.link[r.prev[f]] = f
    <3>1. CASE f = g
      BY <3>1, <1>4, <1>5
    <3>2. CASE f = e
      BY <3>2, <1>3, <1>4, <1>5
    <3>3. CASE f # g /\ f # e
      <4>1. r.prev[f] = q.prev[f] /\ q.prev[f] \in Slot /\ q.link[q.prev[f]] = f
        BY <3>3, <2>2, <1>1, <1>5 DEF QueueInv, Linked
      <4>2. q.prev[f] # p /\ q.prev[f] # e
        BY <4>1, <3>3, <1>3, NullAssumption DEF g
      <4> QED
        BY <4>1, <4>2, <1>4
    <3> QED
      BY <3>1, <3>2, <3>3
  <2> QED
    BY <2>1, <2>2 DEF Linked
<1>10. \A f \in Event : f \notin dead /\ ~IsArmed(r, f) => r.link[f] = Null
  <2> SUFFICES ASSUME NEW f \in Event, f \notin dead, ~IsArmed(r, f) PROVE r.link[f] = Null
    OBVIOUS
  <2>1. ~IsArmed(q, f) /\ f # e /\ f \in Slot
    BY <1>8 DEF Slot
  <2>2. f # p
    BY <2>1, HeadAssumption DEF PointsTo
  <2> QED
    BY <2>1, <2>2, <1>4 DEF QueueInv
<1>11. PointsTo(r, dead, l)
  BY <1>8 DEF QueueInv, PointsTo
<1>12. \E lost \in SUBSET Event : Apart(r, dead, lost)
  <2>1. PICK lost \in SUBSET Event : Apart(q, dead, lost)
    BY DEF QueueInv
  <2>2. CASE OnList(q, lost, p)
    <3> DEFINE rest == lost \ {e}
    <3>1. \A s : OnList(q, lost, s) => OnList(r, rest, s)
      BY <1>8 DEF OnList
    <3>2. OnList(r, rest, e)
      BY <1>8 DEF OnList
    <3>3. OnList(r, rest, n) /\ OnList(r, rest, t)
      BY <2>1, <3>1, <3>2 DEF Apart, Moved, t
    <3>4. ASSUME NEW f \in Event, IsArmed(r, f)
          PROVE  IF f \in rest THEN r.prev[f] \in rest \cup dead ELSE OnList(r, rest, r.prev[f])
      <4>1. CASE f = e
        BY <4>1, <2>2, <3>1, <1>3, <1>5
      <4>2. CASE f = g
        <5>1. IsArmed(q, f) /\ q.prev[f] = p
          BY <4>2, <1>2, <1>3, NullAssumption DEF IsArmed
        <5>2. f \notin lost
          <6>1. p \notin lost \cup dead
            BY <2>2, HeadAssumption DEF OnList, QueueInv
          <6> QED
            BY <5>1, <6>1, <2>1 DEF Apart
        <5> QED
          BY <4>2, <5>2, <3>2, <1>5
      <4>3. CASE f # e /\ f # g
        <5>1. IsArmed(q, f) /\ r.prev[f] = q.prev[f]
          BY <4>3, <3>4, <1>5, <1>8
        <5>2. CASE f \in lost
          <6>1. q.prev[f] \in lost \cup dead
            BY <5>1, <5>2, <2>1 DEF Apart
          <6>2. q.prev[f] # e
            BY <5>1, <1>3, NullAssumption DEF QueueInv, Linked, IsArmed
          <6> QED
            BY <4>3, <5>1, <5>2, <6>1, <6>2
        <5>3. CASE f \notin lost
          BY <5>1, <5>3, <2>1, <3>1 DEF Apart
        <5> QED
          BY <5>2, <5>3
      <4> QED
        BY <4>1, <4>2, <4>3
    <3>5. Apart(r, dead, rest)
      BY <3>3, <3>4, <1>6 DEF Apart
    <3> QED
      BY <3>5
  <2>3. CASE ~OnList(q, lost, p)
    <3> DEFINE more == lost \cup {e}
    <3>1. \A s : OnList(q, lost, s) => OnList(r, more, s)
      BY <1>8 DEF OnList
    <3>2. n = q.nextInsert /\ t = q.tail
      BY <2>1, <2>3 DEF Apart, Moved, t
    <3>3. p \in lost \cup dead
      BY <2>3 DEF OnList, PointsTo
    <3>4. ASSUME NEW f \in Event, IsArmed(r, f)
          PROVE  IF f \in more THEN r.prev[f] \in more \cup dead ELSE OnList(r, more, r.prev[f])
      <4>1. CASE f = e
        BY <4>1, <3>3, <1>3, <1>5
      <4>2. CASE f = g
        <5>1. IsArmed(q, f) /\ q.prev[f] = p
          BY <4>2, <1>2, <1>3, NullAssumption DEF IsArmed
        <5>2. f \in lost
          BY <5>1, <2>1, <2>3 DEF Apart
        <5> QED
          BY <4>2, <5>2, <1>5
      <4>3. CASE f # e /\ f # g
        <5>1. IsArmed(q, f) /\ r.prev[f] = q.prev[f]
          BY <4>3, <3>4, <1>5, <1>8
        <5> QED
          BY <4>3, <5>1, <2>1, <3>1 DEF Apart
      <4> QED
        BY <4>1, <4>2, <4>3
    <3>5. Apart(r, dead, more)
      BY <2>1, <3>1, <3>2, <3>4, <1>6 DEF Apart
    <3> QED
      BY <3>5
  <2> QED
    BY <2>2, <2>3
<1>13. \A f \in Event : IsArmed(r, f) => f \notin dead
  BY <1>8 DEF QueueInv
<1>14. Ordered(r)
  <2>1. PICK rank \in [Slot -> Int] :
           \A f \in Event : IsArmed(q, f) => rank[q.prev[f]] < rank[f]
    BY DEF QueueInv, Ordered
  <2> DEFINE new == [s \in Slot |-> IF s = e THEN 2 * rank[p] + 1 ELSE 2 * rank[s]]
  <2>2. new \in [Slot -> Int] /\ new[e] = 2 * rank[p] + 1 /\ new[p] = 2 * rank[p]
        /\ rank[p] \in Int /\ \A s \in Slot : s # e => new[s] = 2 * rank[s]
    BY <1>2
  <2> HIDE DEF new
  <2>3. ASSUME NEW f \in Event, IsArmed(r, f) PROVE new[r.prev[f]] < new[f]
    <3>1. f \in Slot /\ rank[f] \in Int
      BY DEF Slot
    <3>2. CASE f = e
      BY <3>2, <2>2, <1>3, <1>5
    <3>3. CASE f = g
      <4>1. r.prev[f] = e /\ rank[p] < rank[f] /\ f # e
        BY <3>3, <2>1, <1>2, <1>3, <1>5, NullAssumption DEF IsArmed
      <4> QED
        BY <4>1, <3>1, <2>2
    <3>4. CASE f # e /\ f # g
      <4>1. r.prev[f] = q.prev[f] /\ IsArmed(q, f) /\ q.prev[f] \in Slot
        BY <3>4, <2>3, <1>1, <1>5, <1>8 DEF IsArmed
      <4>2. q.prev[f] # e
        BY <4>1, <1>3, NullAssumption DEF QueueInv, Linked, IsArmed
      <4>3. rank[q.prev[f]] < rank[f] /\ rank[q.prev[f]] \in Int
        BY <4>1, <2>1
      <4> QED
        BY <3>1, <3>4, <4>1, <4>2, <4>3, <2>2
    <3> QED
      BY <3>2, <3>3, <3>4
  <2> QED
    BY <2>2, <2>3 DEF Ordered
<1>15. QueueInv(r, dead)
  BY <1>6, <1>7, <1>9, <1>10, <1>11, <1>12, <1>13, <1>14 DEF QueueInv
<1> QED
  BY <1>8, <1>15 DEF r, t
(***************************************************************************)
(* The calls.  Each keeps the queue in order and changes who is armed as   *)
(* its name says.                                                          *)
(***************************************************************************)
LEMMA ArmNextInv ==
  ASSUME NEW q, NEW dead \in SUBSET Event, QueueInv(q, dead),
         NEW e \in Event, e \notin dead
  PROVE  /\ QueueInv(DoArmNext(q, e), dead)
         /\ \A f \in Event : IsArmed(DoArmNext(q, e), f) <=> IsArmed(q, f) \/ f = e
         /\ DoArmNext(q, e).laterInsert \in {q.laterInsert, e}
<1>1. CASE IsArmed(q, e)
  BY <1>1 DEF DoArmNext
<1>2. CASE ~IsArmed(q, e)
  <2> DEFINE p == q.nextInsert
             l == Moved(q.laterInsert, p, e)
  <2>1. DoArmNext(q, e) = InsertedAt(q, e, p, e, l, Moved(q.tail, p, e))
    BY <1>2 DEF DoArmNext, InsertedAt
  <2>2. p \in Slot /\ q.laterInsert \in Slot /\ e \in Slot /\ PointsTo(q, dead, p)
    BY QueueTypes DEF QueueInv, Apart, OnList, PointsTo, Slot
  <2>3. l \in Slot /\ (l = q.laterInsert \/ l = e)
    BY <2>2 DEF Moved
  <2> HIDE DEF l, p
  <2>4. p = q.nextInsert
    BY DEF p
  <2> QED
    BY <1>2, <2>1, <2>2, <2>3, <2>4, InsertInv DEF InsertedAt
<1> QED
  BY <1>1, <1>2

(* DoArmLater, also at a point in a destroyed event: the new event is lost *)
(* then, and still nothing dead can be reached.                            *)
LEMMA ArmLaterInv ==
  ASSUME NEW q, NEW dead \in SUBSET Event, QueueInv(q, dead),
         NEW e \in Event, e \notin dead
  PROVE  /\ QueueInv(DoArmLater(q, e), dead)
         /\ \A f \in Event : IsArmed(DoArmLater(q, e), f) <=> IsArmed(q, f) \/ f = e
         /\ DoArmLater(q, e).laterInsert \in {q.laterInsert, e}
<1>1. CASE IsArmed(q, e)
  BY <1>1 DEF DoArmLater
<1>2. CASE ~IsArmed(q, e)
  <2> DEFINE p == q.laterInsert
             n == q.nextInsert
  <2>1. DoArmLater(q, e) = InsertedAt(q, e, p, n, e, Moved(q.tail, p, e))
    BY <1>2 DEF DoArmLater, InsertedAt
  <2>2. p \in Slot /\ n \in Slot /\ e \in Slot /\ PointsTo(q, dead, p)
    BY QueueTypes DEF QueueInv, Slot
  <2>3. n = q.nextInsert
    OBVIOUS
  <2> HIDE DEF n, p
  <2> QED
    BY <1>2, <2>1, <2>2, <2>3, InsertInv DEF InsertedAt
<1> QED
  BY <1>1, <1>2

(* DoArmLast puts the event at the tail, which is never in a destroyed     *)
(* event.                                                                  *)
LEMMA ArmLastInv ==
  ASSUME NEW q, NEW dead \in SUBSET Event, QueueInv(q, dead),
         NEW e \in Event, e \notin dead
  PROVE  /\ QueueInv(DoArmLast(q, e), dead)
         /\ \A f \in Event : IsArmed(DoArmLast(q, e), f) <=> IsArmed(q, f) \/ f = e
         /\ DoArmLast(q, e).laterInsert \in {q.laterInsert, e}
<1>1. CASE IsArmed(q, e)
  BY <1>1 DEF DoArmLast
<1>2. CASE ~IsArmed(q, e)
  <2> DEFINE p == q.laterInsert
             n == q.nextInsert
  <2>1. DoArmLast(q, e) = InsertedAt(q, e, p, n, p, Moved(q.tail, p, e))
    BY <1>2 DEF DoArmLast, InsertedAt
  <2>2. p \in Slot /\ n \in Slot /\ PointsTo(q, dead, p)
    BY QueueTypes DEF QueueInv
  <2>3. n = q.nextInsert /\ p = q.laterInsert
    OBVIOUS
  <2> HIDE DEF n, p
  <2> QED
    BY <1>2, <2>1, <2>2, <2>3, InsertInv DEF InsertedAt
<1> QED
  BY <1>1, <1>2

(* Taking the armed event e out of the list, with the later point moved or *)
(* left behind.                                                            *)
RemovedFrom(q, e, n, l) ==
    [link |-> UnlinkedFrom(q, e, q.prev[e]), prev |-> PrevWithout(q, e, q.prev[e]),
     nextInsert |-> n, laterInsert |-> l, tail |-> Moved(q.tail, e, q.prev[e])]

(* Removing an event that is armed disarms it and nothing else.  After it  *)
(* the event may be destroyed (gone), and the later point may be in it if  *)
(* it is.                                                                  *)
LEMMA RemoveInv ==
  ASSUME NEW q, NEW dead \in SUBSET Event, QueueInv(q, dead), NEW e \in Event, IsArmed(q, e),
         NEW gone \in SUBSET {e},
         NEW n \in Slot, n = HeadSlot \/ n = Moved(q.nextInsert, e, q.prev[e]),
         NEW l \in Slot,
         \/ l # e /\ (l = q.laterInsert \/ l = HeadSlot)
         \/ l = e /\ e \in gone
  PROVE  LET r == RemovedFrom(q, e, n, l) IN
         /\ QueueInv(r, dead \cup gone)
         /\ \A f \in Event : IsArmed(r, f) <=> IsArmed(q, f) /\ f # e
<1> DEFINE p == q.prev[e]
           t == Moved(q.tail, e, p)
           r == RemovedFrom(q, e, n, l)
           g == q.link[e]
           more == dead \cup gone
<1>1. /\ q.link \in [Slot -> Event \cup {Null}] /\ q.prev \in [Event -> Slot \cup {Null}]
      /\ q.nextInsert \in Slot /\ q.laterInsert \in Slot /\ q.tail \in Slot
  BY QueueTypes DEF QueueInv
<1>2. /\ e \in Slot /\ e # Null /\ p \in Slot /\ p # Null /\ HeadSlot \notin Event
      /\ Null \notin Slot /\ Null \notin Event
  BY <1>1, HeadAssumption, NullAssumption DEF Slot, IsArmed
<1>3. /\ g \in Event \cup {Null}
      /\ g # Null => q.prev[g] = e
      /\ q.link[p] = e
      /\ e \notin dead
  BY <1>1, <1>2 DEF QueueInv, Linked, IsArmed
<1>4. p # e
  <2>1. PICK rank \in [Slot -> Int] : \A f \in Event : IsArmed(q, f) => rank[q.prev[f]] < rank[f]
    BY DEF QueueInv, Ordered
  <2>2. rank[e] \in Int /\ rank[p] < rank[e]
    BY <2>1, <1>2
  <2> QED
    BY <2>2
<1>5. /\ r.link \in [Slot -> Event \cup {Null}]
      /\ r.link[e] = Null /\ r.link[p] = g
      /\ \A s \in Slot : s # e /\ s # p => r.link[s] = q.link[s]
  BY <1>1, <1>2, <1>3, <1>4 DEF RemovedFrom, UnlinkedFrom
<1>6. /\ r.prev \in [Event -> Slot \cup {Null}]
      /\ \A f \in Event : r.prev[f] = IF f = e THEN Null ELSE IF f = g THEN p ELSE q.prev[f]
  BY <1>1, <1>2 DEF RemovedFrom, PrevWithout
<1>7. r.nextInsert = n /\ r.laterInsert = l /\ r.tail = t /\ t \in Slot
  BY <1>1, <1>2 DEF RemovedFrom, Moved
<1>8. r \in Queues
  <2>1. r = [link |-> r.link, prev |-> r.prev, nextInsert |-> n, laterInsert |-> l, tail |-> t]
    BY DEF RemovedFrom
  <2> HIDE DEF r, t
  <2> QED
    BY <2>1, <1>5, <1>6, <1>7 DEF Queues
<1>9. g # e /\ p = q.prev[e] /\ g = q.link[e] /\ IsArmed(q, e)
  BY <1>2, <1>3, <1>4
<1> HIDE DEF r, t, g, p
<1>10. \A f \in Event : IsArmed(r, f) <=> IsArmed(q, f) /\ f # e
  <2> SUFFICES ASSUME NEW f \in Event PROVE IsArmed(r, f) <=> IsArmed(q, f) /\ f # e
    OBVIOUS
  <2>1. CASE f = e
    BY <2>1, <1>6 DEF IsArmed
  <2>2. CASE f = g
    <3>1. q.prev[f] = e /\ r.prev[f] = p /\ f # e
      BY <2>2, <1>2, <1>3, <1>6, <1>9
    <3> QED
      BY <3>1, <1>2 DEF IsArmed
  <2>3. CASE f # e /\ f # g
    BY <2>3, <1>6 DEF IsArmed
  <2> QED
    BY <2>1, <2>2, <2>3
<1>11. ASSUME NEW f \in Event, f # e, q.prev[f] = e PROVE f = g
  BY <1>11, <1>2, <1>9 DEF QueueInv, Linked
<1>12. Linked(r)
  <2>1. ASSUME NEW s \in Slot, r.link[s] # Null PROVE r.prev[r.link[s]] = s
    <3>1. CASE s = p
      BY <3>1, <2>1, <1>2, <1>3, <1>5, <1>6, <1>9
    <3>2. CASE s # p
      <4>1. s # e /\ r.link[s] = q.link[s]
        BY <3>2, <2>1, <1>5
      <4>2. q.link[s] \in Event /\ q.prev[q.link[s]] = s
        BY <4>1, <2>1, <1>1 DEF QueueInv, Linked
      <4>3. q.link[s] # e /\ q.link[s] # g
        BY <4>1, <4>2, <3>2, <1>2, <1>3, <1>9
      <4> QED
        BY <4>1, <4>2, <4>3, <1>6
    <3> QED
      BY <3>1, <3>2
  <2>2. ASSUME NEW f \in Event, r.prev[f] # Null PROVE r.link[r.prev[f]] = f
    <3>1. f # e
      BY <2>2, <1>6
    <3>2. CASE f = g
      BY <3>1, <3>2, <1>5, <1>6
    <3>3. CASE f # g
      <4>1. r.prev[f] = q.prev[f] /\ q.prev[f] \in Slot /\ q.link[q.prev[f]] = f
        BY <3>1, <3>3, <2>2, <1>1, <1>6 DEF QueueInv, Linked
      <4>2. q.prev[f] # p /\ q.prev[f] # e
        BY <4>1, <3>1, <3>3, <1>3, <1>11
      <4> QED
        BY <4>1, <4>2, <1>5
    <3> QED
      BY <3>2, <3>3
  <2> QED
    BY <2>1, <2>2 DEF Linked
<1>13. Ordered(r)
  <2>1. PICK rank \in [Slot -> Int] : \A f \in Event : IsArmed(q, f) => rank[q.prev[f]] < rank[f]
    BY DEF QueueInv, Ordered
  <2>2. ASSUME NEW f \in Event, IsArmed(r, f) PROVE rank[r.prev[f]] < rank[f]
    <3>1. IsArmed(q, f) /\ f # e /\ rank[f] \in Int
      BY <2>2, <1>10 DEF Slot
    <3>2. CASE f = g
      <4>1. r.prev[f] = p /\ q.prev[f] = e
        BY <3>1, <3>2, <1>2, <1>3, <1>6
      <4>2. rank[p] < rank[e] /\ rank[e] < rank[f] /\ rank[p] \in Int /\ rank[e] \in Int
        BY <3>1, <4>1, <2>1, <1>2, <1>9
      <4> QED
        BY <3>1, <4>1, <4>2
    <3>3. CASE f # g
      BY <3>1, <3>3, <2>1, <1>6
    <3> QED
      BY <3>2, <3>3
  <2> QED
    BY <2>2 DEF Ordered
<1>14. \A f \in Event : f \notin more /\ ~IsArmed(r, f) => r.link[f] = Null
  <2> SUFFICES ASSUME NEW f \in Event, f \notin more, ~IsArmed(r, f) PROVE r.link[f] = Null
    OBVIOUS
  <2>1. CASE f = e
    BY <2>1, <1>5
  <2>2. CASE f # e
    <3>1. f \notin dead /\ ~IsArmed(q, f)
      BY <2>2, <1>10
    <3>2. q.link[f] = Null
      BY <3>1 DEF QueueInv
    <3>3. f # p /\ f \in Slot
      BY <3>2, <1>2, <1>3 DEF Slot
    <3> QED
      BY <2>2, <3>2, <3>3, <1>5
  <2> QED
    BY <2>1, <2>2
<1>15. PointsTo(r, more, l)
  BY <1>10 DEF QueueInv, PointsTo
<1>16. PICK lost \in SUBSET Event : Apart(q, dead, lost)
  BY DEF QueueInv
<1>17. \A s \in Slot : OnList(q, lost, s) /\ s # e => OnList(r, lost, s)
  BY <1>10 DEF OnList
<1>18. OnList(q, lost, e) => OnList(r, lost, p)
  BY <1>16, <1>17, <1>2, <1>4, <1>9 DEF Apart, OnList, p
<1>19. OnList(r, lost, n) /\ OnList(r, lost, t)
  BY <1>1, <1>16, <1>17, <1>18 DEF Apart, OnList, Moved, t, p
<1>20. ASSUME NEW f \in Event, IsArmed(r, f)
       PROVE  IF f \in lost THEN r.prev[f] \in lost \cup more ELSE OnList(r, lost, r.prev[f])
  <2>1. IsArmed(q, f) /\ f # e
    BY <1>20, <1>10
  <2>2. CASE f = g
    <3>1. q.prev[f] = e /\ r.prev[f] = p
      BY <2>1, <2>2, <1>2, <1>3, <1>6
    <3>2. CASE f \in lost
      <4>1. e \in lost
        BY <3>1, <3>2, <2>1, <1>3, <1>16 DEF Apart
      <4> QED
        BY <4>1, <3>1, <3>2, <1>9, <1>16 DEF Apart
    <3>3. CASE f \notin lost
      BY <3>1, <3>3, <2>1, <1>16, <1>18 DEF Apart
    <3> QED
      BY <3>2, <3>3
  <2>3. CASE f # g
    <3>1. r.prev[f] = q.prev[f] /\ q.prev[f] # e /\ q.prev[f] \in Slot
      BY <2>1, <2>3, <1>1, <1>6, <1>11 DEF IsArmed
    <3> QED
      BY <3>1, <2>1, <1>16, <1>17 DEF Apart
  <2> QED
    BY <2>2, <2>3
<1>21. Apart(r, more, lost)
  BY <1>7, <1>19, <1>20 DEF Apart
<1>22. \A f \in Event : IsArmed(r, f) => f \notin more
  BY <1>10 DEF QueueInv
<1>23. QueueInv(r, more)
  BY <1>7, <1>8, <1>12, <1>13, <1>14, <1>15, <1>21, <1>22 DEF QueueInv
<1> QED
  BY <1>10, <1>23 DEF r

(* The event that disarm() is called on exists no longer, as this is its   *)
(* destructor; the later point may be left in it.                          *)
LEMMA DisarmInv ==
  ASSUME NEW q, NEW dead \in SUBSET Event, QueueInv(q, dead), NEW e \in Event
  PROVE  /\ QueueInv(DoDisarm(q, e), dead \cup {e})
         /\ \A f \in Event : IsArmed(DoDisarm(q, e), f) <=> IsArmed(q, f) /\ f # e
         /\ DoDisarm(q, e).laterInsert = q.laterInsert
<1>1. CASE ~IsArmed(q, e)
  <2>1. DoDisarm(q, e) = q
    BY <1>1 DEF DoDisarm
  <2>2. PICK lost \in SUBSET Event : Apart(q, dead, lost)
    BY DEF QueueInv
  <2>3. Apart(q, dead \cup {e}, lost)
    BY <2>2 DEF Apart
  <2>4. PointsTo(q, dead \cup {e}, q.laterInsert)
    BY DEF QueueInv, PointsTo
  <2>5. QueueInv(q, dead \cup {e})
    BY <1>1, <2>3, <2>4 DEF QueueInv
  <2> QED
    BY <1>1, <2>1, <2>5
<1>2. CASE IsArmed(q, e)
  <2> DEFINE p == q.prev[e]
             n == Moved(q.nextInsert, e, p)
             l == q.laterInsert
  <2>1. DoDisarm(q, e) = RemovedFrom(q, e, n, l)
    BY <1>2 DEF DoDisarm, RemovedFrom
  <2>2. p \in Slot /\ l \in Slot /\ n \in Slot
    BY <1>2, QueueTypes DEF QueueInv, IsArmed, Moved
  <2>3. l = q.laterInsert /\ n = Moved(q.nextInsert, e, q.prev[e])
    OBVIOUS
  <2>4. DoDisarm(q, e).laterInsert = l
    BY <1>2 DEF DoDisarm
  <2> HIDE DEF n, l
  <2> DEFINE gone == {e}
  <2>5. gone \in SUBSET {e} /\ e \in gone
    OBVIOUS
  <2> HIDE DEF gone
  <2>6. /\ QueueInv(RemovedFrom(q, e, n, l), dead \cup gone)
        /\ \A f \in Event : IsArmed(RemovedFrom(q, e, n, l), f) <=> IsArmed(q, f) /\ f # e
    BY <1>2, <2>2, <2>3, <2>5, RemoveInv
  <2> QED
    BY <2>1, <2>4, <2>3, <2>6 DEF gone
<1> QED
  BY <1>1, <1>2

(* turn() takes the first event out; it exists. *)
LEMMA TurnInv ==
  ASSUME NEW q, NEW dead \in SUBSET Event, QueueInv(q, dead), q.link[HeadSlot] # Null
  PROVE  LET e == q.link[HeadSlot] IN
         /\ e \in Event /\ IsArmed(q, e) /\ e \notin dead
         /\ QueueInv(DoTurn(q), dead)
         /\ \A f \in Event : IsArmed(DoTurn(q), f) <=> IsArmed(q, f) /\ f # e
         /\ DoTurn(q).laterInsert \in {q.laterInsert, HeadSlot}
<1> DEFINE e == q.link[HeadSlot]
           l == Moved(q.laterInsert, e, HeadSlot)
<1>1. HeadSlot \in Slot /\ q.laterInsert \in Slot /\ e \in Event
  BY QueueTypes DEF QueueInv, Slot
<1>2. q.prev[e] = HeadSlot /\ IsArmed(q, e)
  BY <1>1, NullAssumption DEF QueueInv, Linked, IsArmed
<1>3. DoTurn(q) = RemovedFrom(q, e, HeadSlot, l) /\ DoTurn(q).laterInsert = l
  BY <1>2 DEF DoTurn, RemovedFrom
<1>4. l \in Slot /\ l # e /\ (l = q.laterInsert \/ l = HeadSlot)
  BY <1>1, HeadAssumption DEF Moved
<1>5. e \notin dead
  BY <1>1, <1>2 DEF QueueInv
<1> HIDE DEF e, l
<1> DEFINE gone == {}
<1>6. gone \in SUBSET {e} /\ dead \cup gone = dead
  OBVIOUS
<1> HIDE DEF gone
<1>7. QueueInv(DoTurn(q), dead)
      /\ \A f \in Event : IsArmed(DoTurn(q), f) <=> IsArmed(q, f) /\ f # e
  <2>1. /\ QueueInv(RemovedFrom(q, e, HeadSlot, l), dead \cup gone)
        /\ \A f \in Event :
              IsArmed(RemovedFrom(q, e, HeadSlot, l), f) <=> IsArmed(q, f) /\ f # e
    BY <1>1, <1>2, <1>4, <1>6, RemoveInv
  <2> QED
    BY <1>3, <1>6, <2>1
<1> QED
  BY <1>1, <1>2, <1>3, <1>4, <1>5, <1>7 DEF e

-----------------------------------------------------------------------------
(***************************************************************************)
(* Destructors of several nodes in a row, a fold of DoDisarm.  The fold is *)
(* a recursive function on the sets of positions that are done; that there *)
(* is one, and what it returns, is shown by induction on their number.     *)
(***************************************************************************)
(* A set of numbers without a hole above 0 is the set of all. *)
LEMMA Induction ==
  ASSUME NEW T \in SUBSET Nat, 0 \in T, \A n \in T : n + 1 \in T
  PROVE  T = Nat
<1>1. SUFFICES ASSUME Nat \ T # {} PROVE FALSE
  OBVIOUS
<1>2. IsWellFoundedOn(OpToRel(<, Nat), Nat)
  BY NatLessThanWellFounded
<1>3. PICK x \in Nat \ T : \A y \in Nat \ T : ~ (<<y, x>> \in OpToRel(<, Nat))
  BY <1>1, <1>2, WFMin
<1>4. \A y \in Nat \ T : ~ (y < x)
  BY <1>3 DEF OpToRel
<1>5. x \in Nat /\ x \notin T /\ x # 0
  BY <1>3
<1>6. x - 1 \in Nat /\ x - 1 + 1 = x /\ x - 1 < x
  BY <1>5
<1>7. x - 1 \in T
  BY <1>4, <1>6
<1> QED
  BY <1>5, <1>6, <1>7

(* h is the fold of DoDisarm from q on, over the events at the positions S *)
(* of seq.                                                                 *)
IsFold(h, q, seq, S) ==
    h = [s \in SUBSET S |-> IF s = {} THEN q
                            ELSE DoDisarm(h[s \ {Max(s)}], seq[Max(s)])]

(* The last position is the one that the fold takes off next. *)
LEMMA MaxUpTo ==
  ASSUME NEW n \in Nat, NEW s \in SUBSET (1..(n + 1)), n + 1 \in s
  PROVE  Max(s) = n + 1
<1>1. \A y \in s : y \in Int /\ n + 1 >= y
  OBVIOUS
<1>2. Max(s) \in s /\ \A y \in s : Max(s) >= y
  BY <1>1 DEF Max
<1>3. Max(s) \in Int /\ n + 1 >= Max(s) /\ Max(s) >= n + 1
  BY <1>1, <1>2
<1> HIDE DEF Max
<1> QED
  BY <1>3

(* The recursive function behind FoldLeft exists. *)
LEMMA FoldExists ==
  ASSUME NEW q, NEW seq
  PROVE  \A n \in Nat : \E h : IsFold(h, q, seq, 1..n)
<1> DEFINE T == {n \in Nat : \E h : IsFold(h, q, seq, 1..n)}
<1>1. 0 \in T
  <2> DEFINE h == [s \in SUBSET (1..0) |-> q]
  <2>1. \A s \in SUBSET (1..0) : s = {}
    OBVIOUS
  <2>2. IsFold(h, q, seq, 1..0)
    BY <2>1 DEF IsFold
  <2> QED
    BY <2>2
<1>2. ASSUME NEW n \in T PROVE n + 1 \in T
  <2>1. n \in Nat /\ n + 1 \in Nat
    OBVIOUS
  <2>2. PICK h : IsFold(h, q, seq, 1..n)
    BY <1>2
  <2> DEFINE S == SUBSET (1..(n + 1))
             g == [s \in S |-> IF n + 1 \in s THEN DoDisarm(h[s \ {n + 1}], seq[n + 1])
                               ELSE h[s]]
             step(s) == IF s = {} THEN q ELSE DoDisarm(g[s \ {Max(s)}], seq[Max(s)])
  <2>3. ASSUME NEW s \in S PROVE g[s] = step(s)
    <3>1. \A x : s \ {x} \in S
      OBVIOUS
    <3>2. CASE n + 1 \in s
      <4>1. Max(s) = n + 1 /\ s # {}
        BY <2>1, <3>2, MaxUpTo
      <4>2. g[s \ {n + 1}] = h[s \ {n + 1}]
        BY <3>1
      <4> QED
        BY <3>2, <4>1, <4>2
    <3>3. CASE n + 1 \notin s
      <4>1. s \in SUBSET (1..n) /\ \A x : s \ {x} \in SUBSET (1..n)
        <5>1. ASSUME NEW y \in s PROVE y \in 1..n
          <6>1. y \in 1..(n + 1) /\ y # n + 1
            BY <3>3
          <6> QED
            BY <6>1, <2>1
        <5> QED
          BY <5>1
      <4>2. h[s] = IF s = {} THEN q ELSE DoDisarm(h[s \ {Max(s)}], seq[Max(s)])
        BY <2>2, <4>1 DEF IsFold
      <4>3. g[s] = h[s] /\ g[s \ {Max(s)}] = h[s \ {Max(s)}]
        BY <3>1, <3>3
      <4> QED
        BY <4>2, <4>3
    <3> QED
      BY <3>2, <3>3
  <2>4. g = [s \in S |-> step(s)]
    <3>1. g = [s \in S |-> g[s]]
      OBVIOUS
    <3> HIDE DEF g
    <3> QED
      BY <2>3, <3>1
  <2>5. IsFold(g, q, seq, 1..(n + 1))
    BY <2>4 DEF IsFold
  <2> QED
    BY <2>1, <2>5
<1> HIDE DEF T
<1>3. T = Nat
  <2>1. T \in SUBSET Nat
    BY DEF T
  <2> QED
    BY <1>1, <1>2, <2>1, Induction
<1> QED
  BY <1>3 DEF T

(* The library's fold is one. *)
LEMMA FoldIs ==
  ASSUME NEW q, NEW n \in Nat, NEW seq, DOMAIN seq = 1..n
  PROVE  \E h : IsFold(h, q, seq, 1..n) /\ FoldLeft(DoDisarm, q, seq) = h[1..n]
<1> DEFINE c == CHOOSE h : h = [s \in SUBSET DOMAIN seq |->
                                  IF s = {} THEN q
                                  ELSE DoDisarm(h[s \ {Max(s)}], seq[Max(s)])]
<1>1. PICK h : IsFold(h, q, seq, DOMAIN seq)
  BY FoldExists
<1>2. IsFold(c, q, seq, DOMAIN seq)
  BY <1>1, Zenon DEF IsFold
<1>3. FoldLeft(DoDisarm, q, seq) = c[DOMAIN seq]
  BY Zenon DEF FoldLeft, MapThenFoldSet
<1> QED
  BY <1>2, <1>3

(* After the destructors of the events in seq those are not armed, all     *)
(* others are as before, and only the later point may be left behind.      *)
LEMMA DisarmAllInv ==
  ASSUME NEW q, NEW dead \in SUBSET Event, QueueInv(q, dead),
         NEW n \in Nat, NEW seq, DOMAIN seq = 1..n, \A i \in 1..n : seq[i] \in Event
  PROVE  LET r == FoldLeft(DoDisarm, q, seq)
             gone == {seq[i] : i \in 1..n} IN
         /\ QueueInv(r, dead \cup gone)
         /\ \A f \in Event : IsArmed(r, f) <=> IsArmed(q, f) /\ f \notin gone
         /\ r.laterInsert = q.laterInsert
<1> DEFINE gone(k) == {seq[i] : i \in 1..k}
<1>1. PICK h : IsFold(h, q, seq, 1..n) /\ FoldLeft(DoDisarm, q, seq) = h[1..n]
  BY FoldIs
<1> DEFINE good(k) == /\ QueueInv(h[1..k], dead \cup gone(k))
                      /\ \A f \in Event : IsArmed(h[1..k], f) <=> IsArmed(q, f) /\ f \notin gone(k)
                      /\ h[1..k].laterInsert = q.laterInsert
           T == {k \in Nat : k <= n => good(k)}
<1>2. 0 \in T
  <2>1. 1..0 = {} /\ gone(0) = {} /\ {} \in SUBSET (1..n)
    OBVIOUS
  <2>2. h[1..0] = q
    BY <1>1, <2>1 DEF IsFold
  <2>3. (dead \cup gone(0)) = dead
    BY <2>1
  <2> HIDE DEF gone
  <2> QED
    BY <2>1, <2>2, <2>3
<1>3. ASSUME NEW k \in T PROVE k + 1 \in T
  <2> SUFFICES ASSUME k + 1 <= n PROVE good(k + 1)
    OBVIOUS
  <2>1. k \in Nat /\ k <= n /\ good(k) /\ k + 1 \in 1..n /\ seq[k + 1] \in Event
    OBVIOUS
  <2> DEFINE u == 1..(k + 1)
             d == dead \cup gone(k)
             v == h[1..k]
             e == seq[k + 1]
  <2>2. u \in SUBSET (1..n)
    BY <2>1
  <2>3. u # {} /\ k + 1 \in u /\ u \in SUBSET (1..(k + 1))
    BY <2>1
  <2>12. u \ {k + 1} = 1..k
    BY <2>1
  <2>4. Max(u) = k + 1
    BY <2>1, <2>3, MaxUpTo
  <2>5. gone(k + 1) = gone(k) \cup {e} /\ dead \cup gone(k + 1) = d \cup {e}
    BY <2>1
  <2>6. d \in SUBSET Event /\ QueueInv(v, d) /\ e \in Event
    BY <2>1
  <2> HIDE DEF u, gone
  <2>7. h[u] = DoDisarm(v, e)
    BY <1>1, <2>2, <2>3, <2>4, <2>12 DEF IsFold
  <2> HIDE DEF d, v, e
  <2>8. /\ QueueInv(DoDisarm(v, e), d \cup {e})
        /\ \A f \in Event : IsArmed(DoDisarm(v, e), f) <=> IsArmed(v, f) /\ f # e
        /\ DoDisarm(v, e).laterInsert = v.laterInsert
    BY <2>6, DisarmInv
  <2>9. QueueInv(h[u], dead \cup gone(k + 1))
    BY <2>5, <2>7, <2>8
  <2>10. \A f \in Event : IsArmed(h[u], f) <=> IsArmed(q, f) /\ f \notin gone(k + 1)
    BY <2>1, <2>5, <2>7, <2>8 DEF v
  <2>11. h[u].laterInsert = q.laterInsert
    BY <2>1, <2>7, <2>8 DEF v
  <2> QED
    BY <2>9, <2>10, <2>11 DEF u
<1> HIDE DEF good
<1>4. T = Nat
  <2>1. T \in SUBSET Nat
    OBVIOUS
  <2> HIDE DEF T
  <2> QED
    BY <1>2, <1>3, <2>1, Induction
<1>5. good(n)
  BY <1>4
<1> QED
  BY <1>1, <1>5 DEF good

-----------------------------------------------------------------------------
(* The queues of elements that the nodes keep. *)

(* What HeadTailProperties and AppendProperties say, in one place. *)
LEMMA FrontGone ==
  ASSUME NEW S, NEW s \in Seq(S), s # << >>
  PROVE  /\ Tail(s) \in Seq(S) /\ Len(Tail(s)) = Len(s) - 1 /\ Len(s) \in Nat /\ Len(s) >= 1
         /\ \A k \in 1..(Len(s) - 1) : Tail(s)[k] = s[k + 1]
         /\ Head(s) = s[1] /\ Head(s) \in S
<1>1. Len(s) \in Nat /\ Len(s) # 0
  BY LenProperties, EmptySeq
<1>2. Tail(s) \in Seq(S) /\ Len(Tail(s)) = Len(s) - 1 /\ \A k \in 1..Len(Tail(s)) : Tail(s)[k] = s[k + 1]
  BY HeadTailProperties
<1>3. Head(s) = s[1] /\ s[1] \in S
  BY <1>1, HeadTailProperties, ElementOfSeq
<1> QED
  BY <1>1, <1>2, <1>3

(* What Append does to length and elements. *)
LEMMA BackGrown ==
  ASSUME NEW S, NEW s \in Seq(S), NEW x \in S
  PROVE  /\ Append(s, x) \in Seq(S) /\ Len(Append(s, x)) = Len(s) + 1 /\ Len(s) \in Nat
         /\ \A k \in 1..Len(s) : Append(s, x)[k] = s[k]
         /\ Append(s, x)[Len(s) + 1] = x
BY AppendProperties, LenProperties

(* Two sequences of numbered elements, one behind the other. *)
LEMMA FlowGrows ==
  ASSUME NEW S, NEW a \in Seq(S), NEW b \in Seq(S),
         \A k \in 1..Len(a) : a[k].id = k,
         \A k \in 1..Len(b) : b[k].id = Len(a) + k
  PROVE  /\ a \o b \in Seq(S) /\ Len(a \o b) = Len(a) + Len(b)
         /\ \A k \in 1..Len(a \o b) : (a \o b)[k].id = k
<1> DEFINE z == a \o b
<1>1. Len(a) \in Nat /\ Len(b) \in Nat
  BY LenProperties
<1>2. z \in Seq(S) /\ Len(z) = Len(a) + Len(b)
  BY ConcatProperties
<1>3. \A k \in 1..(Len(a) + Len(b)) : z[k] = IF k <= Len(a) THEN a[k] ELSE b[k - Len(a)]
  BY ConcatProperties
<1> HIDE DEF z
<1>4. ASSUME NEW k \in 1..Len(z) PROVE z[k].id = k
  <2>1. CASE k <= Len(a)
    <3>1. k \in 1..Len(a) /\ z[k] = a[k]
      BY <1>1, <1>2, <1>3, <2>1
    <3> QED
      BY <3>1
  <2>2. CASE ~(k <= Len(a))
    <3>1. k - Len(a) \in 1..Len(b) /\ z[k] = b[k - Len(a)] /\ Len(a) + (k - Len(a)) = k
      BY <1>1, <1>2, <1>3, <2>2
    <3>2. b[k - Len(a)].id = Len(a) + (k - Len(a))
      BY <3>1
    <3> QED
      BY <3>1, <3>2
  <2> QED
    BY <2>1, <2>2
<1> QED
  BY <1>2, <1>4 DEF z
=============================================================================
