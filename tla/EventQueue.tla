----------------------------- MODULE EventQueue -----------------------------
(***************************************************************************)
(* What the run queue of the event loop promises, without pointers: a      *)
(* sequence of distinct events, cut in three by two positions.             *)
(*                                                                         *)
(*   order[1 .. next]           armed next since the current turn began    *)
(*   order[next + 1 .. later]   armed later, or next in an earlier turn    *)
(*   order[later + 1 .. Len]    armed last                                 *)
(***************************************************************************)
EXTENDS Naturals, Sequences, SequencesExt

CONSTANT Event

VARIABLE queue

Armed(q) == {q.order[i] : i \in 1..Len(q.order)}

Back(position, k) == IF k <= position THEN position - 1 ELSE position

AfterArmNext(q, e) == [order |-> InsertAt(q.order, q.next + 1, e),
                       next  |-> q.next + 1,
                       later |-> q.later + 1]

AfterArmLater(q, e) == [order |-> InsertAt(q.order, q.later + 1, e),
                        next  |-> q.next,
                        later |-> q.later + 1]

AfterArmLast(q, e) == [order |-> InsertAt(q.order, q.later + 1, e),
                       next  |-> q.next,
                       later |-> q.later]

(* The event at position k leaves; a cut at or behind it moves with it. *)
AfterDisarm(q, k) == [order |-> RemoveAt(q.order, k),
                      next  |-> Back(q.next, k),
                      later |-> Back(q.later, k)]

AfterTurn(q) == [order |-> RemoveAt(q.order, 1),
                 next  |-> 0,
                 later |-> Back(q.later, 1)]

-----------------------------------------------------------------------------
Init == queue = [order |-> << >>, next |-> 0, later |-> 0]

Arm(e) == /\ e \notin Armed(queue)
          /\ \/ queue' = AfterArmNext(queue, e)
             \/ queue' = AfterArmLater(queue, e)
             \/ queue' = AfterArmLast(queue, e)

Disarm(k) == queue' = AfterDisarm(queue, k)

Turn == /\ queue.order # << >>
        /\ queue' = AfterTurn(queue)

Next == \/ \E e \in Event : Arm(e)
        \/ \E k \in 1..Len(queue.order) : Disarm(k)
        \/ Turn

Spec == Init /\ [][Next]_queue
=============================================================================
