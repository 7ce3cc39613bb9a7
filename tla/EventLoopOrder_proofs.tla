------------------------ MODULE EventLoopOrder_proofs ------------------------
(***************************************************************************)
(* The linked list of the event loop represents the queue of EventQueue,   *)
(* for every set of events.                                                *)
(***************************************************************************)
EXTENDS EventLoopOrder, SequenceTheorems, TLAPS

-----------------------------------------------------------------------------
(* Inserting an element into a sequence, element by element. *)
LEMMA InsertAtElements ==
  ASSUME NEW S, NEW s \in Seq(S), NEW k \in 0..Len(s), NEW e \in S
  PROVE  LET t == InsertAt(s, k + 1, e) IN
         /\ t \in Seq(S)
         /\ Len(t) = Len(s) + 1
         /\ \A i \in 1..(Len(s) + 1) :
               t[i] = IF i <= k THEN s[i]
                      ELSE IF i = k + 1 THEN e ELSE s[i - 1]
<1> DEFINE a == SubSeq(s, 1, k)
           b == SubSeq(s, k + 1, Len(s))
<1>0. Len(s) \in Nat
  BY LenProperties
<1>1. /\ a \in Seq(S) /\ Len(a) = k
      /\ \A i \in 1..k : a[i] = s[i]
  BY <1>0, SubSeqProperties
<1>2. /\ b \in Seq(S) /\ Len(b) = Len(s) - k
      /\ \A i \in 1..(Len(s) - k) : b[i] = s[k + i]
  BY <1>0, SubSeqProperties
<1>3. <<e>> \in Seq(S) /\ Len(<<e>>) = 1 /\ <<e>>[1] = e
  OBVIOUS
<1>4. /\ a \o <<e>> \in Seq(S) /\ Len(a \o <<e>>) = k + 1
      /\ \A i \in 1..(k + 1) : (a \o <<e>>)[i] = IF i <= k THEN s[i] ELSE e
  BY <1>1, <1>3, ConcatProperties
<1> DEFINE c == a \o <<e>>
<1> HIDE DEF a, b, c
<1>5. /\ c \o b \in Seq(S) /\ Len(c \o b) = Len(c) + Len(b)
      /\ \A i \in 1..(Len(c) + Len(b)) :
            (c \o b)[i] = IF i <= Len(c) THEN c[i] ELSE b[i - Len(c)]
  BY <1>2, <1>4, ConcatProperties DEF c
<1> DEFINE t == c \o b
<1>6. t = InsertAt(s, k + 1, e)
  <2>1. (k + 1) - 1 = k
    OBVIOUS
  <2> QED
    BY <2>1, Zenon DEF InsertAt, a, b, c
<1> HIDE DEF t
<1>7. t \in Seq(S) /\ Len(t) = Len(s) + 1
  BY <1>0, <1>2, <1>4, <1>5 DEF c, t
<1>8. ASSUME NEW i \in 1..(Len(s) + 1)
      PROVE  t[i] = IF i <= k THEN s[i] ELSE IF i = k + 1 THEN e ELSE s[i - 1]
  <2>1. t[i] = IF i <= k + 1 THEN c[i] ELSE b[i - (k + 1)]
    BY <1>0, <1>2, <1>4, <1>5 DEF c, t
  <2>2. CASE i <= k + 1
    BY <2>1, <2>2, <1>0, <1>4 DEF c
  <2>3. CASE i > k + 1
    <3>1. i - (k + 1) \in 1..(Len(s) - k) /\ k + (i - (k + 1)) = i - 1
      BY <2>3, <1>0
    <3> QED
      BY <2>1, <2>3, <3>1, <1>0, <1>2
  <2> QED
    BY <2>2, <2>3, <1>0
<1> QED
  BY <1>6, <1>7, <1>8, Zenon

(* The i-th element of s after e was inserted behind the k-th. *)
Inserted(s, k, e, i) ==
  IF i <= k THEN s[i] ELSE IF i = k + 1 THEN e ELSE s[i - 1]

(* The same as a predicate of the new sequence t, to be cited by name. *)
IsInserted(t, S, s, k, e) ==
  /\ t \in Seq(S)
  /\ Len(t) = Len(s) + 1
  /\ \A i \in 1..(Len(s) + 1) : t[i] = Inserted(s, k, e, i)

(* Inserting behind the k-th element, as the three arm calls do. *)
LEMMA InsertBehind ==
  ASSUME NEW S, NEW s \in Seq(S), NEW k \in 0..Len(s), NEW e \in S
  PROVE  IsInserted(InsertAt(s, k + 1, e), S, s, k, e)
BY InsertAtElements DEF IsInserted, Inserted

(* Removing an element from a sequence, element by element. *)
LEMMA RemoveAtElements ==
  ASSUME NEW S, NEW s \in Seq(S), NEW k \in 1..Len(s)
  PROVE  LET t == RemoveAt(s, k) IN
         /\ t \in Seq(S)
         /\ Len(t) = Len(s) - 1
         /\ \A i \in 1..(Len(s) - 1) :
               t[i] = IF i < k THEN s[i] ELSE s[i + 1]
<1> DEFINE a == SubSeq(s, 1, k - 1)
           b == SubSeq(s, k + 1, Len(s))
<1>0. Len(s) \in Nat
  BY LenProperties
<1>1. /\ a \in Seq(S) /\ Len(a) = k - 1
      /\ \A i \in 1..(k - 1) : a[i] = s[i]
  BY <1>0, SubSeqProperties
<1>2. /\ b \in Seq(S) /\ Len(b) = Len(s) - k
      /\ \A i \in 1..(Len(s) - k) : b[i] = s[k + i]
  BY <1>0, SubSeqProperties
<1> HIDE DEF a, b
<1>3. /\ a \o b \in Seq(S) /\ Len(a \o b) = Len(a) + Len(b)
      /\ \A i \in 1..(Len(a) + Len(b)) :
            (a \o b)[i] = IF i <= Len(a) THEN a[i] ELSE b[i - Len(a)]
  BY <1>1, <1>2, ConcatProperties
<1> DEFINE t == a \o b
<1>4. t = RemoveAt(s, k)
  BY Zenon DEF RemoveAt, a, b
<1> HIDE DEF t
<1>5. t \in Seq(S) /\ Len(t) = Len(s) - 1
  BY <1>0, <1>1, <1>2, <1>3 DEF t
<1>6. ASSUME NEW i \in 1..(Len(s) - 1)
      PROVE  t[i] = IF i < k THEN s[i] ELSE s[i + 1]
  <2>1. t[i] = IF i <= k - 1 THEN a[i] ELSE b[i - (k - 1)]
    BY <1>0, <1>1, <1>2, <1>3 DEF t
  <2>2. CASE i < k
    BY <2>1, <2>2, <1>0, <1>1
  <2>3. CASE ~(i < k)
    <3>1. i - (k - 1) \in 1..(Len(s) - k) /\ k + (i - (k - 1)) = i + 1
      BY <2>3, <1>0
    <3> QED
      BY <2>1, <2>3, <3>1, <1>0, <1>2
  <2> QED
    BY <2>2, <2>3
<1> QED
  BY <1>4, <1>5, <1>6, Zenon

-----------------------------------------------------------------------------
(* The slots of a list are events or the head, and different positions     *)
(* have different slots.                                                   *)
LEMMA SlotsAreDistinct ==
  ASSUME NEW o \in Seq(Event), NEW link, NEW prev, IsList(link, prev, o)
  PROVE  /\ \A k \in 0..Len(o) : SlotAt(o, k) \in Slot
         /\ \A j, k \in 0..Len(o) : SlotAt(o, j) = SlotAt(o, k) => j = k
         /\ \A i \in 1..Len(o) : o[i] \in Event /\ prev[o[i]] # Null
<1>1. Len(o) \in Nat /\ o \in [1..Len(o) -> Event]
  BY LenProperties
<1>2. \A k \in 0..Len(o) : SlotAt(o, k) \in Slot
  BY <1>1 DEF SlotAt, Slot
<1>3. \A j, k \in 0..Len(o) : SlotAt(o, j) = SlotAt(o, k) => j = k
  BY <1>1, HeadAssumption DEF SlotAt, IsList
<1>4. ASSUME NEW i \in 1..Len(o) PROVE o[i] \in Event /\ prev[o[i]] # Null
  <2>1. i - 1 \in 0..Len(o) /\ prev[o[i]] = SlotAt(o, i - 1)
    BY <1>1 DEF IsList
  <2> QED
    BY <2>1, <1>1, <1>2, NullAssumption DEF Slot
<1> QED
  BY <1>2, <1>3, <1>4

(* The slots after an insertion at position k. *)
LEMMA SlotsAfterInsert ==
  ASSUME NEW o \in Seq(Event), NEW k \in 0..Len(o), NEW e \in Event
  PROVE  LET t == InsertAt(o, k + 1, e) IN
         /\ \A j \in 0..k : SlotAt(t, j) = SlotAt(o, j)
         /\ SlotAt(t, k + 1) = e
         /\ \A j \in (k + 1)..Len(o) : SlotAt(t, j + 1) = SlotAt(o, j)
<1> DEFINE t == InsertAt(o, k + 1, e)
<1>1. Len(o) \in Nat
  BY LenProperties
<1>i. IsInserted(t, Event, o, k, e)
  BY InsertBehind, Zenon
<1>2. /\ t \in Seq(Event) /\ Len(t) = Len(o) + 1
      /\ \A i \in 1..(Len(o) + 1) :
            t[i] = IF i <= k THEN o[i]
                   ELSE IF i = k + 1 THEN e ELSE o[i - 1]
  <2> HIDE DEF t
  <2> QED
    BY <1>i DEF IsInserted, Inserted
<1> HIDE DEF t
<1>3. \A j \in 0..k : SlotAt(t, j) = SlotAt(o, j)
  BY <1>1, <1>2 DEF SlotAt
<1>4. SlotAt(t, k + 1) = e
  BY <1>1, <1>2 DEF SlotAt
<1>5. \A j \in (k + 1)..Len(o) : SlotAt(t, j + 1) = SlotAt(o, j)
  BY <1>1, <1>2 DEF SlotAt
<1> QED
  BY <1>3, <1>4, <1>5 DEF t

(* Inserting an event that is not armed at the slot of position k, as      *)
(* armNext, armLater and armLast do, inserts it into the list behind the   *)
(* k-th event.                                                             *)
LEMMA InsertIsList ==
  ASSUME NEW q \in Queues, NEW o \in Seq(Event), NEW k \in 0..Len(o),
         NEW e \in Event, IsList(q.link, q.prev, o), ~IsArmed(q, e)
  PROVE  LET p == SlotAt(o, k) IN
         IsList(LinkedAt(q, e, p), PrevAt(q, e, p), InsertAt(o, k + 1, e))
<1> DEFINE n == Len(o)
           p == SlotAt(o, k)
           t == InsertAt(o, k + 1, e)
           l == LinkedAt(q, e, p)
           r == PrevAt(q, e, p)
<1>1. n \in Nat /\ o \in [1..n -> Event] /\ k \in 0..n
  BY LenProperties
<1>0. k = n \/ k < n
  <2> HIDE DEF n
  <2> QED
    BY <1>1
<1>i. IsInserted(t, Event, o, k, e)
  BY InsertBehind, Zenon
<1>2. /\ t \in Seq(Event) /\ Len(t) = n + 1
      /\ \A i \in 1..(n + 1) :
            t[i] = IF i <= k THEN o[i] ELSE IF i = k + 1 THEN e ELSE o[i - 1]
  <2> HIDE DEF t
  <2> QED
    BY <1>i DEF IsInserted, Inserted
<1>3. /\ \A j \in 0..n : SlotAt(o, j) \in Slot
      /\ \A i, j \in 0..n : SlotAt(o, i) = SlotAt(o, j) => i = j
      /\ \A i \in 1..n : o[i] \in Event /\ q.prev[o[i]] # Null
  BY SlotsAreDistinct
<1>4. /\ \A j \in 0..k : SlotAt(t, j) = SlotAt(o, j)
      /\ SlotAt(t, k + 1) = e
      /\ \A j \in (k + 1)..n : SlotAt(t, j + 1) = SlotAt(o, j)
  BY SlotsAfterInsert
<1>5. /\ \A i, j \in 1..n : o[i] = o[j] => i = j
      /\ \A i \in 1..n : /\ q.link[SlotAt(o, i - 1)] = o[i]
                         /\ q.prev[o[i]] = SlotAt(o, i - 1)
      /\ q.link[SlotAt(o, n)] = Null
      /\ \A f \in Event : \/ \E i \in 1..n : o[i] = f
                          \/ q.prev[f] = Null /\ q.link[f] = Null
  BY Zenon DEF IsList
<1>6. /\ q.link \in [Slot -> Event \cup {Null}]
      /\ q.prev \in [Event -> Slot \cup {Null}]
  BY DEF Queues
<1>7. \A i \in 1..n : o[i] # e
  BY <1>3 DEF IsArmed
<1>8. p \in Slot /\ p # e
  BY <1>1, <1>3, <1>7, HeadAssumption DEF SlotAt, Slot
<1>9. /\ l[e] = q.link[p] /\ l[p] = e
      /\ \A s \in Slot : s # e /\ s # p => l[s] = q.link[s]
  BY <1>6, <1>8 DEF LinkedAt, Slot
<1>10. /\ q.link[p] # e
       /\ r[e] = p
       /\ \A f \in Event : f # e => r[f] = IF f = q.link[p] THEN e ELSE q.prev[f]
  <2>1. q.link[p] # e
    <3>1. CASE k = n
      BY <3>1, <1>5, NullAssumption
    <3>2. CASE k < n
      <4>1. k + 1 \in 1..n /\ (k + 1) - 1 = k
        BY <3>2, <1>1
      <4>2. q.link[p] = o[k + 1]
        BY <4>1, <1>5
      <4> QED
        BY <4>1, <4>2, <1>7
    <3> QED
      BY <3>1, <3>2, <1>0
  <2> QED
    BY <2>1, <1>9 DEF PrevAt
<1> HIDE DEF n, p, t, l, r
<1>11. ASSUME NEW i \in 1..(n + 1), NEW j \in 1..(n + 1), t[i] = t[j]
       PROVE  i = j
  <2>1. \A m \in 1..(n + 1) :
           \/ m <= k /\ m \in 1..n /\ t[m] = o[m]
           \/ m = k + 1 /\ t[m] = e
           \/ m > k + 1 /\ m - 1 \in 1..n /\ t[m] = o[m - 1]
    BY <1>1, <1>2
  <2>2. CASE t[i] = e
    BY <2>1, <2>2, <1>7, <1>11
  <2>3. CASE t[i] # e
    <3>1. /\ \/ i <= k /\ i \in 1..n /\ t[i] = o[i]
             \/ i > k + 1 /\ i - 1 \in 1..n /\ t[i] = o[i - 1]
          /\ \/ j <= k /\ j \in 1..n /\ t[i] = o[j]
             \/ j > k + 1 /\ j - 1 \in 1..n /\ t[i] = o[j - 1]
      BY <2>1, <2>3, <1>11
    <3> QED
      BY <3>1, <1>1, <1>5
  <2> QED
    BY <2>2, <2>3
<1>12. \A i \in 1..(n + 1) : l[SlotAt(t, i - 1)] = t[i]
  <2> TAKE i \in 1..(n + 1)
  <2>1. CASE i <= k
    <3>1. i \in 1..n /\ i - 1 \in 0..k /\ i - 1 \in 0..n /\ i - 1 # k
      BY <2>1, <1>1
    <3>2. SlotAt(t, i - 1) = SlotAt(o, i - 1) /\ t[i] = o[i]
      BY <2>1, <3>1, <1>2, <1>4
    <3>3. SlotAt(o, i - 1) \in Slot /\ SlotAt(o, i - 1) # p
      BY <3>1, <1>1, <1>3 DEF p
    <3>4. SlotAt(o, i - 1) # e
      BY <3>1, <1>1, <1>7, HeadAssumption DEF SlotAt
    <3> QED
      BY <3>1, <3>2, <3>3, <3>4, <1>5, <1>9
  <2>2. CASE i = k + 1
    <3>1. SlotAt(t, i - 1) = p /\ t[i] = e
      <4>1. i - 1 = k /\ k \in 0..k
        BY <2>2, <1>1
      <4> QED
        BY <2>2, <4>1, <1>1, <1>2, <1>4 DEF p
    <3> QED
      BY <3>1, <1>9
  <2>3. CASE i = k + 2
    <3>1. k + 1 \in 1..n /\ i - 1 = k + 1 /\ (k + 1) - 1 = k
      BY <2>3, <1>1
    <3>2. SlotAt(t, i - 1) = e /\ t[i] = o[k + 1]
      BY <2>3, <3>1, <1>1, <1>2, <1>4
    <3>3. q.link[p] = o[k + 1]
      BY <3>1, <1>5 DEF p
    <3> QED
      BY <3>2, <3>3, <1>9
  <2>4. CASE i > k + 2
    <3>1. /\ i - 1 \in 1..n /\ i - 2 \in (k + 1)..n /\ i - 2 \in 1..n
          /\ (i - 2) + 1 = i - 1 /\ (i - 1) - 1 = i - 2 /\ i - 2 # k
          /\ i - 2 \in 0..n
      BY <2>4, <1>1
    <3>2. SlotAt(t, i - 1) = SlotAt(o, i - 2) /\ t[i] = o[i - 1]
      BY <2>4, <3>1, <1>1, <1>2, <1>4
    <3>3. SlotAt(o, i - 2) \in Slot /\ SlotAt(o, i - 2) # p
      BY <3>1, <1>1, <1>3 DEF p
    <3>4. SlotAt(o, i - 2) # e
      BY <3>1, <1>1, <1>7 DEF SlotAt
    <3>5. q.link[SlotAt(o, i - 2)] = o[i - 1]
      BY <3>1, <1>5
    <3> QED
      BY <3>2, <3>3, <3>4, <3>5, <1>9
  <2> QED
    BY <2>1, <2>2, <2>3, <2>4, <1>1
<1>13. \A i \in 1..(n + 1) : r[t[i]] = SlotAt(t, i - 1)
  <2> TAKE i \in 1..(n + 1)
  <2>0. \A j \in 1..n : o[j] = q.link[p] <=> j = k + 1
    <3>1. CASE k = n
      <4>1. q.link[p] = Null
        BY <3>1, <1>5 DEF p
      <4>2. \A j \in 1..n : j # k + 1
        BY <3>1, <1>1
      <4> QED
        BY <4>1, <4>2, <1>3, NullAssumption
    <3>2. CASE k < n
      <4>1. k + 1 \in 1..n /\ (k + 1) - 1 = k
        BY <3>2, <1>1
      <4>2. q.link[p] = o[k + 1]
        BY <4>1, <1>5 DEF p
      <4> QED
        BY <4>1, <4>2, <1>5
    <3> QED
      BY <3>1, <3>2, <1>0
  <2>1. CASE i <= k
    <3>1. i \in 1..n /\ i - 1 \in 0..k /\ i # k + 1
      BY <2>1, <1>1
    <3>2. SlotAt(t, i - 1) = SlotAt(o, i - 1) /\ t[i] = o[i]
      BY <2>1, <3>1, <1>2, <1>4
    <3> QED
      BY <3>1, <3>2, <2>0, <1>3, <1>5, <1>7, <1>10
  <2>2. CASE i = k + 1
    <3>1. i - 1 = k /\ k \in 0..k
      BY <2>2, <1>1
    <3>2. SlotAt(t, i - 1) = p /\ t[i] = e
      BY <2>2, <3>1, <1>1, <1>2, <1>4 DEF p
    <3> QED
      BY <3>2, <1>10
  <2>3. CASE i = k + 2
    <3>1. k + 1 \in 1..n /\ i - 1 = k + 1
      BY <2>3, <1>1
    <3>2. SlotAt(t, i - 1) = e /\ t[i] = o[k + 1]
      BY <2>3, <3>1, <1>1, <1>2, <1>4
    <3> QED
      BY <3>1, <3>2, <2>0, <1>3, <1>7, <1>10
  <2>4. CASE i > k + 2
    <3>1. /\ i - 1 \in 1..n /\ i - 2 \in (k + 1)..n
          /\ (i - 2) + 1 = i - 1 /\ (i - 1) - 1 = i - 2 /\ i - 1 # k + 1
      BY <2>4, <1>1
    <3>2. SlotAt(t, i - 1) = SlotAt(o, i - 2) /\ t[i] = o[i - 1]
      BY <2>4, <3>1, <1>1, <1>2, <1>4
    <3>3. q.prev[o[i - 1]] = SlotAt(o, i - 2)
      BY <3>1, <1>5
    <3> QED
      BY <3>1, <3>2, <3>3, <2>0, <1>3, <1>7, <1>10
  <2> QED
    BY <2>1, <2>2, <2>3, <2>4, <1>1
<1>14. l[SlotAt(t, n + 1)] = Null
  <2>1. CASE k = n
    BY <2>1, <1>4, <1>5, <1>9 DEF p
  <2>2. CASE k < n
    <3>1. n \in (k + 1)..n /\ n \in 0..n /\ n # k /\ n \in 1..n
      BY <2>2, <1>1
    <3>2. SlotAt(t, n + 1) = SlotAt(o, n)
      BY <3>1, <1>4
    <3>3. SlotAt(o, n) \in Slot /\ SlotAt(o, n) # p /\ SlotAt(o, n) # e
      BY <3>1, <1>1, <1>3, <1>7 DEF p, SlotAt
    <3> QED
      BY <3>2, <3>3, <1>5, <1>9
  <2> QED
    BY <2>1, <2>2, <1>1
<1>15. ASSUME NEW f \in Event
       PROVE  \/ \E i \in 1..(n + 1) : t[i] = f
              \/ r[f] = Null /\ l[f] = Null
  <2>1. CASE f = e
    <3>1. k + 1 \in 1..(n + 1) /\ t[k + 1] = e
      BY <1>1, <1>2
    <3> QED
      BY <2>1, <3>1
  <2>2. CASE \E i \in 1..n : o[i] = f
    <3>1. PICK i \in 1..n : o[i] = f
      BY <2>2
    <3>2. \E j \in 1..(n + 1) : t[j] = o[i]
      <4>1. CASE i <= k
        BY <4>1, <1>1, <1>2
      <4>2. CASE i > k
        <5>1. i + 1 \in 1..(n + 1) /\ ~(i + 1 <= k) /\ i + 1 # k + 1
              /\ (i + 1) - 1 = i
          BY <4>2, <1>1
        <5> QED
          BY <5>1, <1>2
      <4> QED
        BY <4>1, <4>2, <1>1
    <3> QED
      BY <3>1, <3>2
  <2>3. CASE f # e /\ ~(\E i \in 1..n : o[i] = f)
    <3>1. q.prev[f] = Null /\ q.link[f] = Null
      BY <2>3, <1>5
    <3>2. f # p
      BY <2>3, <1>1, HeadAssumption DEF p, SlotAt
    <3>3. f # q.link[p]
      <4>1. CASE k = n
        BY <4>1, <1>5, NullAssumption DEF p
      <4>2. CASE k < n
        <5>1. k + 1 \in 1..n /\ (k + 1) - 1 = k
          BY <4>2, <1>1
        <5> QED
          BY <5>1, <2>3, <1>5 DEF p
      <4> QED
        BY <4>1, <4>2, <1>0
    <3> QED
      BY <2>3, <3>1, <3>2, <3>3, <1>9, <1>10 DEF Slot
  <2> QED
    BY <2>1, <2>2, <2>3
<1>16. IsList(l, r, t)
  BY <1>2, <1>11, <1>12, <1>13, <1>14, <1>15 DEF IsList
<1> QED
  BY <1>16 DEF p, t, l, r

(* The slots after the removal of the k-th event. *)
LEMMA SlotsAfterRemove ==
  ASSUME NEW o \in Seq(Event), NEW k \in 1..Len(o)
  PROVE  LET t == RemoveAt(o, k) IN
         /\ \A j \in 0..(k - 1) : SlotAt(t, j) = SlotAt(o, j)
         /\ \A j \in k..(Len(o) - 1) : SlotAt(t, j) = SlotAt(o, j + 1)
<1> DEFINE t == RemoveAt(o, k)
<1>1. Len(o) \in Nat
  BY LenProperties
<1>2. /\ t \in Seq(Event) /\ Len(t) = Len(o) - 1
      /\ \A i \in 1..(Len(o) - 1) : t[i] = IF i < k THEN o[i] ELSE o[i + 1]
  BY RemoveAtElements, Zenon
<1> HIDE DEF t
<1>3. \A j \in 0..(k - 1) : SlotAt(t, j) = SlotAt(o, j)
  BY <1>1, <1>2 DEF SlotAt
<1>4. \A j \in k..(Len(o) - 1) : SlotAt(t, j) = SlotAt(o, j + 1)
  BY <1>1, <1>2 DEF SlotAt
<1> QED
  BY <1>3, <1>4 DEF t

(* Unlinking the k-th event, as disarm and turn do, removes it from the    *)
(* list and leaves the order of the others.                                *)
LEMMA RemoveIsList ==
  ASSUME NEW q \in Queues, NEW o \in Seq(Event), NEW k \in 1..Len(o),
         IsList(q.link, q.prev, o)
  PROVE  LET e == o[k]
             p == SlotAt(o, k - 1) IN
         IsList(UnlinkedFrom(q, e, p), PrevWithout(q, e, p), RemoveAt(o, k))
<1> DEFINE n == Len(o)
           e == o[k]
           p == SlotAt(o, k - 1)
           t == RemoveAt(o, k)
           l == UnlinkedFrom(q, e, p)
           r == PrevWithout(q, e, p)
<1>1. n \in Nat /\ o \in [1..n -> Event] /\ k \in 1..n
  BY LenProperties
<1>2. /\ t \in Seq(Event) /\ Len(t) = n - 1
      /\ \A i \in 1..(n - 1) : t[i] = IF i < k THEN o[i] ELSE o[i + 1]
  BY RemoveAtElements, Zenon
<1>3. /\ \A j \in 0..n : SlotAt(o, j) \in Slot
      /\ \A i, j \in 0..n : SlotAt(o, i) = SlotAt(o, j) => i = j
      /\ \A i \in 1..n : o[i] \in Event /\ q.prev[o[i]] # Null
  BY SlotsAreDistinct
<1>4. /\ \A j \in 0..(k - 1) : SlotAt(t, j) = SlotAt(o, j)
      /\ \A j \in k..(n - 1) : SlotAt(t, j) = SlotAt(o, j + 1)
  BY SlotsAfterRemove
<1>5. /\ \A i, j \in 1..n : o[i] = o[j] => i = j
      /\ \A i \in 1..n : /\ q.link[SlotAt(o, i - 1)] = o[i]
                         /\ q.prev[o[i]] = SlotAt(o, i - 1)
      /\ q.link[SlotAt(o, n)] = Null
      /\ \A f \in Event : \/ \E i \in 1..n : o[i] = f
                          \/ q.prev[f] = Null /\ q.link[f] = Null
  BY Zenon DEF IsList
<1>6. /\ q.link \in [Slot -> Event \cup {Null}]
      /\ q.prev \in [Event -> Slot \cup {Null}]
  BY DEF Queues
<1> HIDE DEF n
<1>7. k = n \/ k < n
  BY <1>1
<1>8. /\ e \in Event /\ p \in Slot /\ e = SlotAt(o, k)
      /\ p # e /\ k - 1 \in 0..n /\ k \in 0..n
  <2>1. k - 1 \in 0..n /\ k \in 0..n /\ k - 1 # k /\ k # 0
    BY <1>1
  <2>2. e = SlotAt(o, k)
    BY <2>1 DEF SlotAt
  <2> QED
    BY <2>1, <2>2, <1>1, <1>3
<1>9. /\ k = n => q.link[e] = Null
      /\ k < n => k + 1 \in 1..n /\ q.link[e] = o[k + 1]
  <2>1. k < n => k + 1 \in 1..n /\ (k + 1) - 1 = k
    BY <1>1
  <2> QED
    BY <2>1, <1>5, <1>8
<1>10. /\ l[e] = Null /\ l[p] = q.link[e]
       /\ \A s \in Slot : s # e /\ s # p => l[s] = q.link[s]
  BY <1>6, <1>8 DEF UnlinkedFrom, Slot
<1>11. /\ r[e] = Null
       /\ \A f \in Event : f # e => r[f] = IF f = q.link[e] THEN p ELSE q.prev[f]
  BY <1>8 DEF PrevWithout
<1>12. \A i \in 1..n : /\ o[i] = e <=> i = k
                       /\ o[i] = q.link[e] <=> i = k + 1
  <2>1. CASE k = n
    <3>1. \A i \in 1..n : i # k + 1
      BY <2>1, <1>1
    <3> QED
      BY <2>1, <3>1, <1>1, <1>3, <1>5, <1>9, NullAssumption
  <2>2. CASE k < n
    BY <2>2, <1>1, <1>5, <1>9
  <2> QED
    BY <2>1, <2>2, <1>7
<1> HIDE DEF e, p, t, l, r
<1>13. ASSUME NEW i \in 1..(n - 1)
       PROVE  \/ /\ i < k /\ i \in 1..n /\ i # k /\ i # k + 1
                 /\ t[i] = o[i] /\ SlotAt(t, i - 1) = SlotAt(o, i - 1)
                 /\ i - 1 \in 0..n /\ i - 1 # k - 1 /\ i - 1 # k
              \/ /\ i = k /\ k < n /\ k + 1 \in 1..n
                 /\ t[i] = o[k + 1] /\ SlotAt(t, i - 1) = p
              \/ /\ i > k /\ i + 1 \in 1..n /\ i + 1 # k /\ i + 1 # k + 1
                 /\ t[i] = o[i + 1] /\ SlotAt(t, i - 1) = SlotAt(o, i)
                 /\ i \in 0..n /\ i # k - 1 /\ (i + 1) - 1 = i
  <2>1. CASE i < k
    <3>1. i - 1 \in 0..(k - 1) /\ i \in 1..n /\ i # k + 1 /\ i # k
          /\ i - 1 \in 0..n /\ i - 1 # k - 1 /\ i - 1 # k
      BY <2>1, <1>1
    <3>2. t[i] = o[i]
      BY <2>1, <1>2
    <3> QED
      BY <2>1, <3>1, <3>2, <1>4
  <2>2. CASE i = k
    <3>1. k < n /\ k + 1 \in 1..n /\ i - 1 \in 0..(k - 1) /\ i - 1 = k - 1
          /\ ~(i < k)
      BY <2>2, <1>1
    <3>2. t[i] = o[k + 1]
      BY <2>2, <3>1, <1>2
    <3> QED
      BY <2>2, <3>1, <3>2, <1>4 DEF p
  <2>3. CASE i > k
    <3>1. i - 1 \in k..(n - 1) /\ (i - 1) + 1 = i /\ (i + 1) - 1 = i
          /\ i + 1 \in 1..n /\ i + 1 # k /\ i + 1 # k + 1 /\ i \in 0..n
          /\ i # k - 1 /\ ~(i < k)
      BY <2>3, <1>1
    <3>2. t[i] = o[i + 1]
      BY <3>1, <1>2
    <3>3. SlotAt(t, i - 1) = SlotAt(o, i)
      BY <3>1, <1>4
    <3> QED
      BY <2>3, <3>1, <3>2, <3>3
  <2> QED
    BY <2>1, <2>2, <2>3, <1>1
<1>14. ASSUME NEW i \in 1..(n - 1), NEW j \in 1..(n - 1), t[i] = t[j]
       PROVE  i = j
  <2>1. /\ \/ i < k /\ i \in 1..n /\ t[i] = o[i]
           \/ i >= k /\ i + 1 \in 1..n /\ t[i] = o[i + 1]
        /\ \/ j < k /\ j \in 1..n /\ t[i] = o[j]
           \/ j >= k /\ j + 1 \in 1..n /\ t[i] = o[j + 1]
    BY <1>1, <1>2, <1>14
  <2> QED
    BY <2>1, <1>1, <1>5
<1>15. ASSUME NEW i \in 1..(n - 1)
       PROVE  l[SlotAt(t, i - 1)] = t[i] /\ r[t[i]] = SlotAt(t, i - 1)
  <2>1. CASE i < k
    <3>0. i # k /\ ~(i > k)
      BY <2>1, <1>1
    <3>1. /\ i \in 1..n /\ i # k /\ i # k + 1
          /\ t[i] = o[i] /\ SlotAt(t, i - 1) = SlotAt(o, i - 1)
          /\ i - 1 \in 0..n /\ i - 1 # k - 1 /\ i - 1 # k
      BY <3>0, <1>13, Zenon
    <3>2. SlotAt(o, i - 1) \in Slot /\ SlotAt(o, i - 1) # p /\ SlotAt(o, i - 1) # e
      BY <3>1, <1>3, <1>8 DEF p
    <3>3. o[i] # e /\ o[i] # q.link[e] /\ o[i] \in Event
      BY <3>1, <1>3, <1>12
    <3> QED
      BY <3>1, <3>2, <3>3, <1>5, <1>10, <1>11
  <2>2. CASE i = k
    <3>1. k < n /\ k + 1 \in 1..n /\ t[i] = o[k + 1] /\ SlotAt(t, i - 1) = p
      BY <2>2, <1>1, <1>13
    <3>2. o[k + 1] \in Event /\ o[k + 1] # e /\ q.link[e] = o[k + 1]
      <4>1. k + 1 # k
        BY <1>1
      <4> QED
        BY <4>1, <3>1, <1>3, <1>9, <1>12
    <3> QED
      BY <3>1, <3>2, <1>10, <1>11
  <2>3. CASE i > k
    <3>1. /\ i + 1 \in 1..n /\ i + 1 # k /\ i + 1 # k + 1
          /\ t[i] = o[i + 1] /\ SlotAt(t, i - 1) = SlotAt(o, i)
          /\ i \in 0..n /\ i # k - 1 /\ (i + 1) - 1 = i /\ i # k
      BY <2>3, <1>1, <1>13
    <3>2. SlotAt(o, i) \in Slot /\ SlotAt(o, i) # p /\ SlotAt(o, i) # e
      BY <3>1, <1>3, <1>8 DEF p
    <3>3. o[i + 1] # e /\ o[i + 1] # q.link[e] /\ o[i + 1] \in Event
      BY <3>1, <1>3, <1>12
    <3>4. q.link[SlotAt(o, i)] = o[i + 1] /\ q.prev[o[i + 1]] = SlotAt(o, i)
      BY <3>1, <1>5
    <3> QED
      BY <3>1, <3>2, <3>3, <3>4, <1>10, <1>11
  <2> QED
    BY <2>1, <2>2, <2>3, <1>1
<1>16. l[SlotAt(t, n - 1)] = Null
  <2>1. CASE k = n
    <3>1. n - 1 \in 0..(k - 1) /\ n - 1 = k - 1
      BY <2>1, <1>1
    <3> QED
      BY <2>1, <3>1, <1>4, <1>9, <1>10 DEF p
  <2>2. CASE k < n
    <3>1. n - 1 \in k..(n - 1) /\ (n - 1) + 1 = n /\ n \in 0..n /\ n # k
          /\ n # k - 1
      BY <2>2, <1>1
    <3>2. SlotAt(t, n - 1) = SlotAt(o, n)
      BY <3>1, <1>4
    <3>3. SlotAt(o, n) \in Slot /\ SlotAt(o, n) # p /\ SlotAt(o, n) # e
      BY <3>1, <1>3, <1>8 DEF p
    <3> QED
      BY <3>2, <3>3, <1>5, <1>10
  <2> QED
    BY <2>1, <2>2, <1>7
<1>17. ASSUME NEW f \in Event
       PROVE  \/ \E i \in 1..(n - 1) : t[i] = f
              \/ r[f] = Null /\ l[f] = Null
  <2>1. CASE f = e
    BY <2>1, <1>10, <1>11
  <2>2. CASE f # e /\ \E i \in 1..n : o[i] = f
    <3>1. PICK i \in 1..n : o[i] = f
      BY <2>2
    <3>2. i # k
      BY <2>2, <3>1, <1>12
    <3>3. \E j \in 1..(n - 1) : t[j] = o[i]
      <4>1. CASE i < k
        BY <4>1, <1>1, <1>2
      <4>2. CASE i > k
        <5>1. i - 1 \in 1..(n - 1) /\ ~(i - 1 < k) /\ (i - 1) + 1 = i
          BY <4>2, <1>1
        <5> QED
          BY <5>1, <1>2
      <4> QED
        BY <4>1, <4>2, <3>2, <1>1
    <3> QED
      BY <3>1, <3>3
  <2>3. CASE f # e /\ ~(\E i \in 1..n : o[i] = f)
    <3>1. q.prev[f] = Null /\ q.link[f] = Null
      BY <2>3, <1>5
    <3>2. f # p
      BY <2>3, <1>1, HeadAssumption DEF p, SlotAt
    <3>3. f # q.link[e]
      BY <2>3, <1>7, <1>9, NullAssumption
    <3> QED
      BY <2>3, <3>1, <3>2, <3>3, <1>10, <1>11 DEF Slot
  <2> QED
    BY <2>1, <2>2, <2>3
<1>18. IsList(l, r, t)
  BY <1>2, <1>14, <1>15, <1>16, <1>17 DEF IsList
<1> QED
  BY <1>18 DEF p, t, l, r, e

-----------------------------------------------------------------------------
(* The inductive invariant: Represents carries the list, LastsBehind the kinds. *)
IInv == TypeOK /\ Represents /\ LastsBehind

(* The five operations keep the fields of the loop in their types. *)
LEMMA QueueTypes ==
  ASSUME NEW q \in Queues, NEW e \in Event
  PROVE  /\ DoArmNext(q, e) \in Queues
         /\ DoArmLater(q, e) \in Queues
         /\ DoArmLast(q, e) \in Queues
         /\ DoDisarm(q, e) \in Queues
         /\ q.link[HeadSlot] # Null => DoTurn(q) \in Queues
<1>1. /\ q.link \in [Slot -> Event \cup {Null}]
      /\ q.prev \in [Event -> Slot \cup {Null}]
      /\ q.nextInsert \in Slot /\ q.laterInsert \in Slot /\ q.tail \in Slot
  BY DEF Queues
<1>2. ASSUME NEW p \in Slot
      PROVE  /\ LinkedAt(q, e, p) \in [Slot -> Event \cup {Null}]
             /\ PrevAt(q, e, p) \in [Event -> Slot \cup {Null}]
  BY <1>1 DEF LinkedAt, PrevAt, Slot
<1>3. ASSUME NEW p \in Slot, NEW f \in Event
      PROVE  /\ UnlinkedFrom(q, f, p) \in [Slot -> Event \cup {Null}]
             /\ PrevWithout(q, f, p) \in [Event -> Slot \cup {Null}]
  BY <1>1 DEF UnlinkedFrom, PrevWithout, Slot
<1>4. \A a \in Slot, b \in Slot, c \in Slot : Moved(a, b, c) \in Slot
  BY DEF Moved
<1>5. e \in Slot /\ HeadSlot \in Slot
  BY DEF Slot
<1>6. DoArmNext(q, e) \in Queues
  BY <1>1, <1>2, <1>4, <1>5 DEF DoArmNext, Queues
<1>7. DoArmLater(q, e) \in Queues
  BY <1>1, <1>2, <1>4, <1>5 DEF DoArmLater, Queues
<1>8. DoArmLast(q, e) \in Queues
  BY <1>1, <1>2, <1>4, <1>5 DEF DoArmLast, Queues
<1>9. DoDisarm(q, e) \in Queues
  <2>1. IsArmed(q, e) => q.prev[e] \in Slot
    BY <1>1 DEF IsArmed
  <2> QED
    BY <2>1, <1>1, <1>3, <1>4, <1>5 DEF DoDisarm, Queues
<1>10. ASSUME q.link[HeadSlot] # Null PROVE DoTurn(q) \in Queues
  <2>1. q.link[HeadSlot] \in Event /\ q.link[HeadSlot] \in Slot
    BY <1>1, <1>5, <1>10 DEF Slot
  <2> QED
    BY <2>1, <1>1, <1>3, <1>4, <1>5 DEF DoTurn, Queues
<1> QED
  BY <1>6, <1>7, <1>8, <1>9, <1>10

(* The loop starts with an empty list, which represents the empty queue. *)
LEMMA InitIInv == Init => IInv
<1> SUFFICES ASSUME Init PROVE IInv
  OBVIOUS
<1>1. queue = [order |-> << >>, next |-> 0, later |-> 0]
  BY DEF Init, Q!Init
<1>2. queue.order = << >> /\ queue.next = 0 /\ queue.later = 0
  BY <1>1
<1>3. << >> \in Seq(Event) /\ Len(<< >>) = 0
  BY EmptySeq
<1>4. TypeOK
  BY <1>1, <1>3 DEF Init, LoopInit, EmptyQueue, Queues, TypeOK, Slot, Calls
<1>5. /\ loop.link = [s \in Slot |-> Null]
      /\ loop.prev = [e \in Event |-> Null]
      /\ loop.nextInsert = HeadSlot /\ loop.laterInsert = HeadSlot
      /\ loop.tail = HeadSlot
  BY DEF Init, LoopInit, EmptyQueue
<1>6. \A i \in 1..0 : FALSE
  OBVIOUS
<1>7. IsList(loop.link, loop.prev, queue.order)
  BY <1>2, <1>3, <1>5, <1>6 DEF IsList, SlotAt, Slot
<1>8. Represents
  BY <1>2, <1>3, <1>5, <1>7 DEF Represents, SlotAt
<1>9. LastsBehind
  BY <1>2, <1>3, <1>6 DEF LastsBehind, LastsAfter
<1> QED
  BY <1>4, <1>8, <1>9 DEF IInv

(* A point at or behind the slot of an insertion moves one position on;    *)
(* this includes the point at the slot itself, which moves to the event.   *)
LEMMA PointAfterInsert ==
  ASSUME NEW o \in Seq(Event), NEW link, NEW prev, IsList(link, prev, o),
         NEW k \in 0..Len(o), NEW m \in k..Len(o), NEW e \in Event
  PROVE  Moved(SlotAt(o, m), SlotAt(o, k), e)
           = SlotAt(InsertAt(o, k + 1, e), m + 1)
<1>1. Len(o) \in Nat
  BY LenProperties
<1>2. CASE m = k
  BY <1>2, SlotsAfterInsert DEF Moved
<1>3. CASE m # k
  <2>1. m \in (k + 1)..Len(o) /\ m \in 0..Len(o) /\ k \in 0..Len(o)
    BY <1>1, <1>3
  <2>2. SlotAt(o, m) # SlotAt(o, k)
    BY <2>1, <1>3, SlotsAreDistinct
  <2>3. SlotAt(InsertAt(o, k + 1, e), m + 1) = SlotAt(o, m)
    BY <2>1, SlotsAfterInsert
  <2> QED
    BY <2>2, <2>3 DEF Moved
<1> QED
  BY <1>2, <1>3

(* A point moves back when the event in front of it, or an earlier one,    *)
(* is removed.                                                             *)
LEMMA PointAfterRemove ==
  ASSUME NEW o \in Seq(Event), NEW link, NEW prev, IsList(link, prev, o),
         NEW k \in 1..Len(o), NEW m \in 0..Len(o)
  PROVE  /\ Moved(SlotAt(o, m), o[k], SlotAt(o, k - 1))
              = SlotAt(RemoveAt(o, k), Q!Back(m, k))
         /\ m # k => SlotAt(o, m) = SlotAt(RemoveAt(o, k), Q!Back(m, k))
         /\ SlotAt(o, m) = o[k] <=> m = k
<1>1. Len(o) \in Nat
  BY LenProperties
<1>2. o[k] = SlotAt(o, k) /\ k \in 0..Len(o)
  BY <1>1 DEF SlotAt
<1>3. SlotAt(o, m) = o[k] <=> m = k
  BY <1>2, SlotsAreDistinct
<1>4. CASE m = k
  <2>1. Q!Back(m, k) = k - 1 /\ k - 1 \in 0..(k - 1)
    BY <1>1, <1>4 DEF Q!Back
  <2> QED
    BY <2>1, <1>2, <1>4, SlotsAfterRemove DEF Moved
<1>5. CASE m < k
  <2>1. Q!Back(m, k) = m /\ m \in 0..(k - 1) /\ m # k
    BY <1>1, <1>5 DEF Q!Back
  <2> QED
    BY <2>1, <1>3, SlotsAfterRemove DEF Moved
<1>6. CASE m > k
  <2>1. Q!Back(m, k) = m - 1 /\ m - 1 \in k..(Len(o) - 1) /\ m # k
        /\ (m - 1) + 1 = m
    BY <1>1, <1>6 DEF Q!Back
  <2> QED
    BY <2>1, <1>3, SlotsAfterRemove DEF Moved
<1> QED
  BY <1>1, <1>3, <1>4, <1>5, <1>6

(* What the invariant says before a call. *)
LEMMA Before ==
  ASSUME IInv, ~cut
  PROVE  /\ loop \in Queues /\ queue.order \in Seq(Event)
         /\ queue.next \in 0..queue.later
         /\ queue.later \in 0..Len(queue.order)
         /\ queue.next \in 0..Len(queue.order)
         /\ Len(queue.order) \in Nat
         /\ queue.next \in Nat /\ queue.later \in Nat
         /\ IsList(loop.link, loop.prev, queue.order)
         /\ loop.nextInsert = SlotAt(queue.order, queue.next)
         /\ loop.laterInsert = SlotAt(queue.order, queue.later)
         /\ loop.tail = SlotAt(queue.order, Len(queue.order))
<1>1. /\ queue.next \in Nat /\ queue.later \in Nat
      /\ queue.order \in Seq(Event) /\ loop \in Queues
  BY DEF IInv, TypeOK
<1>2. Len(queue.order) \in Nat
  BY <1>1, LenProperties
<1>3. /\ IsList(loop.link, loop.prev, queue.order)
      /\ queue.next <= queue.later
      /\ queue.later <= Len(queue.order)
      /\ loop.nextInsert = SlotAt(queue.order, queue.next)
      /\ loop.laterInsert = SlotAt(queue.order, queue.later)
      /\ loop.tail = SlotAt(queue.order, Len(queue.order))
  BY DEF IInv, Represents
<1> QED
  BY <1>1, <1>2, <1>3

(* Which events are behind the later point after an insertion. *)
LEMMA LastsAfterInsert ==
  ASSUME NEW o \in Seq(Event), NEW k \in 0..Len(o), NEW e \in Event,
         NEW L \in 0..Len(o), NEW by \in [Event -> Calls], NEW v \in Calls,
         \A i \in 1..Len(o) : o[i] # e, LastsAfter(by, o, L)
  PROVE  /\ v # "last" /\ k <= L =>
               LastsAfter([by EXCEPT ![e] = v], InsertAt(o, k + 1, e), L + 1)
         /\ v = "last" /\ k = L =>
               LastsAfter([by EXCEPT ![e] = v], InsertAt(o, k + 1, e), L)
<1> DEFINE t == InsertAt(o, k + 1, e)
           c == [by EXCEPT ![e] = v]
<1>1. Len(o) \in Nat /\ \A i \in 1..Len(o) : o[i] \in Event
  BY LenProperties, ElementOfSeq
<1>i. IsInserted(t, Event, o, k, e)
  BY InsertBehind, Zenon
<1>2. /\ t \in Seq(Event) /\ Len(t) = Len(o) + 1
      /\ \A i \in 1..(Len(o) + 1) :
            t[i] = IF i <= k THEN o[i] ELSE IF i = k + 1 THEN e ELSE o[i - 1]
  <2> HIDE DEF t
  <2> QED
    BY <1>i DEF IsInserted, Inserted
<1>3. c[e] = v /\ \A i \in 1..Len(o) : c[o[i]] = by[o[i]]
  BY <1>1
<1>4. \A i \in 1..Len(o) : (by[o[i]] = "last") <=> (L < i)
  BY DEF LastsAfter
<1> HIDE DEF t, c
<1>5. ASSUME NEW M, NEW i \in 1..(Len(o) + 1),
             \/ v # "last" /\ k <= L /\ M = L + 1
             \/ v = "last" /\ k = L /\ M = L
      PROVE  (c[t[i]] = "last") <=> (M < i)
  <2>1. CASE i <= k
    <3>1. i \in 1..Len(o) /\ ~(L < i) /\ ~(M < i)
      BY <2>1, <1>1, <1>5
    <3> QED
      BY <2>1, <3>1, <1>2, <1>3, <1>4
  <2>2. CASE i = k + 1
    <3>1. t[i] = e
      BY <2>2, <1>1, <1>2
    <3> QED
      BY <2>2, <3>1, <1>1, <1>3, <1>5
  <2>3. CASE i > k + 1
    <3>1. i - 1 \in 1..Len(o) /\ ~(i <= k) /\ i # k + 1 /\ (L < i - 1 <=> M < i)
      BY <2>3, <1>1, <1>5
    <3>2. t[i] = o[i - 1]
      BY <3>1, <1>2
    <3> QED
      BY <3>1, <3>2, <1>3, <1>4
  <2> QED
    BY <2>1, <2>2, <2>3, <1>1
<1>6. ASSUME v # "last", k <= L PROVE LastsAfter(c, t, L + 1)
  BY <1>2, <1>5, <1>6 DEF LastsAfter
<1>7. ASSUME v = "last", k = L PROVE LastsAfter(c, t, L)
  BY <1>2, <1>5, <1>7 DEF LastsAfter
<1> QED
  BY <1>6, <1>7 DEF c, t

(* Which events are behind the later point after a removal. *)
LEMMA LastsAfterRemove ==
  ASSUME NEW o \in Seq(Event), NEW k \in 1..Len(o), NEW L \in 0..Len(o),
         NEW by \in [Event -> Calls], LastsAfter(by, o, L),
         \A i, j \in 1..Len(o) : o[i] = o[j] => i = j
  PROVE  LastsAfter([by EXCEPT ![o[k]] = "none"], RemoveAt(o, k), Q!Back(L, k))
<1> DEFINE t == RemoveAt(o, k)
           c == [by EXCEPT ![o[k]] = "none"]
<1>1. Len(o) \in Nat /\ \A i \in 1..Len(o) : o[i] \in Event
  BY LenProperties, ElementOfSeq
<1>2. /\ t \in Seq(Event) /\ Len(t) = Len(o) - 1
      /\ \A i \in 1..(Len(o) - 1) : t[i] = IF i < k THEN o[i] ELSE o[i + 1]
  BY RemoveAtElements, Zenon
<1>3. \A i \in 1..Len(o) : i # k => c[o[i]] = by[o[i]]
  BY <1>1
<1>4. \A i \in 1..Len(o) : (by[o[i]] = "last") <=> (L < i)
  BY DEF LastsAfter
<1> HIDE DEF t, c
<1>5. ASSUME NEW i \in 1..(Len(o) - 1)
      PROVE  (c[t[i]] = "last") <=> (Q!Back(L, k) < i)
  <2>1. CASE i < k
    <3>1. i \in 1..Len(o) /\ i # k /\ (L < i <=> Q!Back(L, k) < i)
      BY <2>1, <1>1 DEF Q!Back
    <3> QED
      BY <2>1, <3>1, <1>2, <1>3, <1>4
  <2>2. CASE ~(i < k)
    <3>1. i + 1 \in 1..Len(o) /\ i + 1 # k /\ (L < i + 1 <=> Q!Back(L, k) < i)
      BY <2>2, <1>1 DEF Q!Back
    <3> QED
      BY <2>2, <3>1, <1>2, <1>3, <1>4
  <2> QED
    BY <2>1, <2>2
<1>6. LastsAfter(c, t, Q!Back(L, k))
  BY <1>2, <1>5 DEF LastsAfter
<1> QED
  BY <1>6 DEF t, c

(* armNext keeps the list, its two points and the kinds in step. *)
LEMMA StepArmNextIInv ==
  ASSUME IInv, ~cut, NEW e \in Event, StepArmNext(e)
  PROVE  IInv'
<1> DEFINE o == queue.order
           k == queue.next
           t == InsertAt(o, k + 1, e)
<1>1. /\ loop \in Queues /\ o \in Seq(Event)
      /\ queue.next \in 0..queue.later /\ queue.later \in 0..Len(o)
      /\ queue.next \in 0..Len(o) /\ Len(o) \in Nat
      /\ queue.next \in Nat /\ queue.later \in Nat
      /\ IsList(loop.link, loop.prev, o)
      /\ loop.nextInsert = SlotAt(o, queue.next)
      /\ loop.laterInsert = SlotAt(o, queue.later)
      /\ loop.tail = SlotAt(o, Len(o))
  BY Before
<1>2. /\ ~IsArmed(loop, e) /\ loop' = DoArmNext(loop, e)
      /\ queue' = [order |-> t, next |-> queue.next + 1, later |-> queue.later + 1]
      /\ armedBy' = [armedBy EXCEPT ![e] = "next"]
  BY DEF StepArmNext, ArmNext, Q!AfterArmNext, Q!InsertAt, InsertAt
<1>0. cut' = cut
  BY DEF StepArmNext
<1>3. /\ queue'.order = t /\ queue'.next = queue.next + 1 /\ queue'.later = queue.later + 1
  BY <1>2
<1>4. /\ loop'.link = LinkedAt(loop, e, SlotAt(o, k))
      /\ loop'.prev = PrevAt(loop, e, SlotAt(o, k))
      /\ loop'.nextInsert = e
      /\ loop'.laterInsert = Moved(SlotAt(o, queue.later), SlotAt(o, k), e)
      /\ loop'.tail = Moved(SlotAt(o, Len(o)), SlotAt(o, k), e)
  BY <1>1, <1>2 DEF DoArmNext
<1>5. t \in Seq(Event) /\ Len(t) = Len(o) + 1
  <2>1. o \in Seq(Event) /\ k \in 0..Len(o)
    BY <1>1
  <2> HIDE DEF o, k
  <2> QED
    BY <2>1, InsertAtElements
<1>6. TypeOK'
  <2>1. loop' \in Queues
    BY <1>1, <1>2, QueueTypes
  <2>2. armedBy' \in [Event -> Calls]
    BY <1>2 DEF IInv, TypeOK, Calls
  <2>3. queue' \in [order : Seq(Event), next : Nat, later : Nat]
    BY <1>1, <1>2, <1>5
  <2>4. cut' \in BOOLEAN
    BY <1>0 DEF IInv, TypeOK
  <2> QED
    BY <2>1, <2>2, <2>3, <2>4 DEF TypeOK
<1>7. IsList(loop'.link, loop'.prev, t)
  BY <1>1, <1>2, <1>4, InsertIsList
<1>8. loop'.nextInsert = SlotAt(t, queue.next + 1)
  BY <1>1, <1>4, SlotsAfterInsert
<1>9. loop'.laterInsert = SlotAt(t, queue.later + 1)
  <2>1. queue.later \in k..Len(o)
    BY <1>1
  <2> QED
    BY <2>1, <1>1, <1>4, PointAfterInsert
<1>10. loop'.tail = SlotAt(t, Len(t))
  <2>1. Len(o) \in k..Len(o)
    BY <1>1
  <2> QED
    BY <2>1, <1>1, <1>4, <1>5, PointAfterInsert
<1>11. Represents'
  <2>1. queue.next + 1 <= queue.later + 1 /\ queue.later + 1 <= Len(t)
    BY <1>1, <1>5
  <2> QED
    BY <2>1, <1>3, <1>7, <1>8, <1>9, <1>10 DEF Represents
<1>12. LastsBehind'
  <2>1. \A i \in 1..Len(o) : o[i] # e
    BY <1>1, <1>2, SlotsAreDistinct DEF IsArmed
  <2>2. LastsAfter(armedBy, o, queue.later)
    BY DEF IInv, LastsBehind
  <2>3. armedBy \in [Event -> Calls]
    BY DEF IInv, TypeOK
  <2>4. LastsAfter(armedBy', t, queue.later + 1)
    <3>1. /\ "next" # "last" /\ k <= queue.later /\ "next" \in Calls
      BY <1>1 DEF Calls
    <3>2. o \in Seq(Event) /\ k \in 0..Len(o) /\ queue.later \in 0..Len(o)
      BY <1>1
    <3> HIDE DEF o, k
    <3> QED
      BY <2>1, <2>2, <2>3, <3>1, <3>2, <1>2, LastsAfterInsert
  <2> QED
    BY <2>4, <1>3 DEF LastsBehind
<1> QED
  BY <1>6, <1>11, <1>12 DEF IInv

(* armLater inserts at the later point and moves only that point. *)
LEMMA StepArmLaterIInv ==
  ASSUME IInv, ~cut, NEW e \in Event, StepArmLater(e)
  PROVE  IInv'
<1> DEFINE o == queue.order
           k == queue.later
           t == InsertAt(o, k + 1, e)
<1>1. /\ loop \in Queues /\ o \in Seq(Event)
      /\ queue.next \in 0..queue.later /\ queue.later \in 0..Len(o)
      /\ queue.next \in 0..Len(o) /\ Len(o) \in Nat
      /\ queue.next \in Nat /\ queue.later \in Nat
      /\ IsList(loop.link, loop.prev, o)
      /\ loop.nextInsert = SlotAt(o, queue.next)
      /\ loop.laterInsert = SlotAt(o, queue.later)
      /\ loop.tail = SlotAt(o, Len(o))
  BY Before
<1>2. /\ ~IsArmed(loop, e) /\ loop' = DoArmLater(loop, e)
      /\ queue' = [order |-> t, next |-> queue.next, later |-> queue.later + 1]
      /\ armedBy' = [armedBy EXCEPT ![e] = "later"]
  BY DEF StepArmLater, ArmLater, Q!AfterArmLater, Q!InsertAt, InsertAt
<1>0. cut' = cut
  BY DEF StepArmLater
<1>3. /\ queue'.order = t /\ queue'.next = queue.next /\ queue'.later = queue.later + 1
  BY <1>2
<1>4. /\ loop'.link = LinkedAt(loop, e, SlotAt(o, k))
      /\ loop'.prev = PrevAt(loop, e, SlotAt(o, k))
      /\ loop'.nextInsert = SlotAt(o, queue.next)
      /\ loop'.laterInsert = e
      /\ loop'.tail = Moved(SlotAt(o, Len(o)), SlotAt(o, k), e)
  BY <1>1, <1>2 DEF DoArmLater
<1>5. t \in Seq(Event) /\ Len(t) = Len(o) + 1
  <2>1. o \in Seq(Event) /\ k \in 0..Len(o)
    BY <1>1
  <2> HIDE DEF o, k
  <2> QED
    BY <2>1, InsertAtElements
<1>6. TypeOK'
  <2>1. loop' \in Queues
    BY <1>1, <1>2, QueueTypes
  <2>2. armedBy' \in [Event -> Calls]
    BY <1>2 DEF IInv, TypeOK, Calls
  <2>3. queue' \in [order : Seq(Event), next : Nat, later : Nat]
    BY <1>1, <1>2, <1>5
  <2>4. cut' \in BOOLEAN
    BY <1>0 DEF IInv, TypeOK
  <2> QED
    BY <2>1, <2>2, <2>3, <2>4 DEF TypeOK
<1>7. IsList(loop'.link, loop'.prev, t)
  BY <1>1, <1>2, <1>4, InsertIsList
<1>8. loop'.nextInsert = SlotAt(t, queue.next)
  BY <1>1, <1>4, SlotsAfterInsert
<1>9. loop'.laterInsert = SlotAt(t, queue.later + 1)
  BY <1>1, <1>4, SlotsAfterInsert
<1>10. loop'.tail = SlotAt(t, Len(t))
  <2>1. Len(o) \in k..Len(o)
    BY <1>1
  <2> QED
    BY <2>1, <1>1, <1>4, <1>5, PointAfterInsert
<1>11. Represents'
  <2>1. queue.next <= queue.later + 1 /\ queue.later + 1 <= Len(t)
    BY <1>1, <1>5
  <2> QED
    BY <2>1, <1>3, <1>7, <1>8, <1>9, <1>10 DEF Represents
<1>12. LastsBehind'
  <2>1. \A i \in 1..Len(o) : o[i] # e
    BY <1>1, <1>2, SlotsAreDistinct DEF IsArmed
  <2>2. LastsAfter(armedBy, o, queue.later)
    BY DEF IInv, LastsBehind
  <2>3. armedBy \in [Event -> Calls]
    BY DEF IInv, TypeOK
  <2>4. LastsAfter(armedBy', t, queue.later + 1)
    <3>1. /\ "later" # "last" /\ k <= queue.later /\ "later" \in Calls
      BY <1>1 DEF Calls
    <3>2. o \in Seq(Event) /\ k \in 0..Len(o) /\ queue.later \in 0..Len(o)
      BY <1>1
    <3> HIDE DEF o, k
    <3> QED
      BY <2>1, <2>2, <2>3, <3>1, <3>2, <1>2, LastsAfterInsert
  <2> QED
    BY <2>4, <1>3 DEF LastsBehind
<1> QED
  BY <1>6, <1>11, <1>12 DEF IInv

(* armLast inserts at the later point and leaves both points. *)
LEMMA StepArmLastIInv ==
  ASSUME IInv, ~cut, NEW e \in Event, StepArmLast(e)
  PROVE  IInv'
<1> DEFINE o == queue.order
           k == queue.later
           t == InsertAt(o, k + 1, e)
<1>1. /\ loop \in Queues /\ o \in Seq(Event)
      /\ queue.next \in 0..queue.later /\ queue.later \in 0..Len(o)
      /\ queue.next \in 0..Len(o) /\ Len(o) \in Nat
      /\ queue.next \in Nat /\ queue.later \in Nat
      /\ IsList(loop.link, loop.prev, o)
      /\ loop.nextInsert = SlotAt(o, queue.next)
      /\ loop.laterInsert = SlotAt(o, queue.later)
      /\ loop.tail = SlotAt(o, Len(o))
  BY Before
<1>2. /\ ~IsArmed(loop, e) /\ loop' = DoArmLast(loop, e)
      /\ queue' = [order |-> t, next |-> queue.next, later |-> queue.later]
      /\ armedBy' = [armedBy EXCEPT ![e] = "last"]
  BY DEF StepArmLast, ArmLast, Q!AfterArmLast, Q!InsertAt, InsertAt
<1>0. cut' = cut
  BY DEF StepArmLast
<1>3. /\ queue'.order = t /\ queue'.next = queue.next /\ queue'.later = queue.later
  BY <1>2
<1>4. /\ loop'.link = LinkedAt(loop, e, SlotAt(o, k))
      /\ loop'.prev = PrevAt(loop, e, SlotAt(o, k))
      /\ loop'.nextInsert = SlotAt(o, queue.next)
      /\ loop'.laterInsert = SlotAt(o, queue.later)
      /\ loop'.tail = Moved(SlotAt(o, Len(o)), SlotAt(o, k), e)
  BY <1>1, <1>2 DEF DoArmLast
<1>5. t \in Seq(Event) /\ Len(t) = Len(o) + 1
  <2>1. o \in Seq(Event) /\ k \in 0..Len(o)
    BY <1>1
  <2> HIDE DEF o, k
  <2> QED
    BY <2>1, InsertAtElements
<1>6. TypeOK'
  <2>1. loop' \in Queues
    BY <1>1, <1>2, QueueTypes
  <2>2. armedBy' \in [Event -> Calls]
    BY <1>2 DEF IInv, TypeOK, Calls
  <2>3. queue' \in [order : Seq(Event), next : Nat, later : Nat]
    BY <1>1, <1>2, <1>5
  <2>4. cut' \in BOOLEAN
    BY <1>0 DEF IInv, TypeOK
  <2> QED
    BY <2>1, <2>2, <2>3, <2>4 DEF TypeOK
<1>7. IsList(loop'.link, loop'.prev, t)
  BY <1>1, <1>2, <1>4, InsertIsList
<1>8. loop'.nextInsert = SlotAt(t, queue.next)
  BY <1>1, <1>4, SlotsAfterInsert
<1>9. loop'.laterInsert = SlotAt(t, queue.later)
  <2>1. queue.later \in 0..k
    BY <1>1
  <2> QED
    BY <2>1, <1>1, <1>4, SlotsAfterInsert
<1>10. loop'.tail = SlotAt(t, Len(t))
  <2>1. Len(o) \in k..Len(o)
    BY <1>1
  <2> QED
    BY <2>1, <1>1, <1>4, <1>5, PointAfterInsert
<1>11. Represents'
  <2>1. queue.next <= queue.later /\ queue.later <= Len(t)
    BY <1>1, <1>5
  <2> QED
    BY <2>1, <1>3, <1>7, <1>8, <1>9, <1>10 DEF Represents
<1>12. LastsBehind'
  <2>1. \A i \in 1..Len(o) : o[i] # e
    BY <1>1, <1>2, SlotsAreDistinct DEF IsArmed
  <2>2. LastsAfter(armedBy, o, queue.later)
    BY DEF IInv, LastsBehind
  <2>3. armedBy \in [Event -> Calls]
    BY DEF IInv, TypeOK
  <2>4. LastsAfter(armedBy', t, queue.later)
    <3>1. "last" \in Calls /\ k = queue.later
      BY DEF Calls
    <3>2. o \in Seq(Event) /\ k \in 0..Len(o) /\ queue.later \in 0..Len(o)
      BY <1>1
    <3> HIDE DEF o, k
    <3> QED
      BY <2>1, <2>2, <2>3, <3>1, <3>2, <1>2, LastsAfterInsert
  <2> QED
    BY <2>4, <1>3 DEF LastsBehind
<1> QED
  BY <1>6, <1>11, <1>12 DEF IInv

(* disarm takes the event out and moves a point that stood on it back. *)
LEMMA StepDisarmIInv ==
  ASSUME IInv, ~cut, NEW e \in Event, StepDisarm(e)
  PROVE  IInv'
<1> DEFINE o == queue.order
<1>1. /\ loop \in Queues /\ o \in Seq(Event)
      /\ queue.next \in 0..queue.later /\ queue.later \in 0..Len(o)
      /\ queue.next \in 0..Len(o) /\ Len(o) \in Nat
      /\ queue.next \in Nat /\ queue.later \in Nat
      /\ IsList(loop.link, loop.prev, o)
      /\ loop.nextInsert = SlotAt(o, queue.next)
      /\ loop.laterInsert = SlotAt(o, queue.later)
      /\ loop.tail = SlotAt(o, Len(o))
  BY Before
<1>2. /\ IsArmed(loop, e) /\ loop' = DoDisarm(loop, e)
      /\ queue' = Q!AfterDisarm(queue, PositionOf(e))
      /\ armedBy' = [armedBy EXCEPT ![e] = "none"]
      /\ cut' = (cut \/ loop.laterInsert = e)
  BY DEF StepDisarm, Disarm
<1> DEFINE k == PositionOf(e)
<1>3. k \in 1..Len(o) /\ o[k] = e /\ loop.prev[e] = SlotAt(o, k - 1)
  <2>1. \E i \in 1..Len(o) : o[i] = e
    BY <1>1, <1>2 DEF IsArmed, IsList
  <2>2. k \in 1..Len(o) /\ o[k] = e
    BY <2>1 DEF PositionOf
  <2> QED
    BY <2>2, <1>1 DEF IsList
<1> HIDE DEF k
<1> DEFINE t == RemoveAt(o, k)
<1>4. /\ queue'.order = t /\ queue'.next = Q!Back(queue.next, k)
      /\ queue'.later = Q!Back(queue.later, k)
      /\ queue' = [order |-> t, next |-> Q!Back(queue.next, k), later |-> Q!Back(queue.later, k)]
  BY <1>2, <1>3 DEF Q!AfterDisarm, Q!RemoveAt, RemoveAt, k
<1>5. t \in Seq(Event) /\ Len(t) = Len(o) - 1
  BY <1>1, <1>3, RemoveAtElements
<1>6. /\ loop'.link = UnlinkedFrom(loop, o[k], SlotAt(o, k - 1))
      /\ loop'.prev = PrevWithout(loop, o[k], SlotAt(o, k - 1))
      /\ loop'.nextInsert = Moved(SlotAt(o, queue.next), o[k], SlotAt(o, k - 1))
      /\ loop'.laterInsert = SlotAt(o, queue.later)
      /\ loop'.tail = Moved(SlotAt(o, Len(o)), o[k], SlotAt(o, k - 1))
  BY <1>1, <1>2, <1>3 DEF DoDisarm, IsArmed
<1>7. /\ Q!Back(queue.next, k) \in Nat /\ Q!Back(queue.later, k) \in Nat
      /\ Q!Back(queue.next, k) <= Q!Back(queue.later, k)
      /\ Q!Back(queue.later, k) <= Len(o) - 1
      /\ Q!Back(Len(o), k) = Len(o) - 1
  BY <1>1, <1>3 DEF Q!Back
<1>8. TypeOK'
  <2>1. loop' \in Queues
    BY <1>1, <1>2, <1>3, QueueTypes
  <2>2. armedBy' \in [Event -> Calls]
    BY <1>2 DEF IInv, TypeOK, Calls
  <2>3. queue' \in [order : Seq(Event), next : Nat, later : Nat]
    BY <1>4, <1>5, <1>7
  <2>4. cut' \in BOOLEAN
    BY <1>2 DEF IInv, TypeOK
  <2> QED
    BY <2>1, <2>2, <2>3, <2>4 DEF TypeOK
<1>9. IsList(loop'.link, loop'.prev, t)
  BY <1>1, <1>3, <1>6, RemoveIsList
<1>10. loop'.nextInsert = SlotAt(t, Q!Back(queue.next, k))
  BY <1>1, <1>3, <1>6, PointAfterRemove
<1>11. ~cut' => loop'.laterInsert = SlotAt(t, Q!Back(queue.later, k))
  BY <1>1, <1>2, <1>3, <1>6, PointAfterRemove
<1>12. loop'.tail = SlotAt(t, Len(t))
  <2>1. Len(o) \in 0..Len(o) /\ o \in Seq(Event) /\ k \in 1..Len(o)
        /\ IsList(loop.link, loop.prev, o)
    BY <1>1, <1>3
  <2>2. Moved(SlotAt(o, Len(o)), o[k], SlotAt(o, k - 1))
          = SlotAt(t, Q!Back(Len(o), k))
    <3> HIDE DEF o
    <3> QED
      BY <2>1, PointAfterRemove
  <2> QED
    BY <2>2, <1>5, <1>6, <1>7
<1>13. Represents'
  BY <1>4, <1>5, <1>7, <1>9, <1>10, <1>11, <1>12 DEF Represents
<1>14. LastsBehind'
  <2>1. \A i, j \in 1..Len(o) : o[i] = o[j] => i = j
    BY <1>1, Zenon DEF IsList
  <2>2. LastsAfter(armedBy, o, queue.later)
    BY DEF IInv, LastsBehind
  <2>3. armedBy \in [Event -> Calls]
    BY DEF IInv, TypeOK
  <2>4. armedBy' = [armedBy EXCEPT ![o[k]] = "none"]
    BY <1>2, <1>3
  <2>5. LastsAfter(armedBy', t, Q!Back(queue.later, k))
    <3>1. o \in Seq(Event) /\ k \in 1..Len(o) /\ queue.later \in 0..Len(o)
      BY <1>1, <1>3
    <3> HIDE DEF o
    <3> QED
      BY <2>1, <2>2, <2>3, <2>4, <3>1, LastsAfterRemove
  <2> QED
    BY <2>5, <1>4 DEF LastsBehind
<1> QED
  BY <1>8, <1>13, <1>14 DEF IInv

(* turn takes the head out and starts a new turn at the front. *)
LEMMA StepTurnIInv ==
  ASSUME IInv, ~cut, StepTurn
  PROVE  IInv'
<1> DEFINE o == queue.order
<1>1. /\ loop \in Queues /\ o \in Seq(Event)
      /\ queue.next \in 0..queue.later /\ queue.later \in 0..Len(o)
      /\ queue.next \in 0..Len(o) /\ Len(o) \in Nat
      /\ queue.next \in Nat /\ queue.later \in Nat
      /\ IsList(loop.link, loop.prev, o)
      /\ loop.nextInsert = SlotAt(o, queue.next)
      /\ loop.laterInsert = SlotAt(o, queue.later)
      /\ loop.tail = SlotAt(o, Len(o))
  BY Before
<1>2. /\ loop.link[HeadSlot] # Null /\ loop' = DoTurn(loop)
      /\ queue' = Q!AfterTurn(queue)
      /\ armedBy' = [armedBy EXCEPT ![loop.link[HeadSlot]] = "none"]
      /\ cut' = cut
  BY DEF StepTurn, Turn
<1> DEFINE k == 1
<1>3. /\ k \in 1..Len(o) /\ o[k] = loop.link[HeadSlot] /\ k = 1
      /\ SlotAt(o, k - 1) = HeadSlot /\ o[k] \in Event
  <2>1. Len(o) # 0
    BY <1>1, <1>2 DEF IsList, SlotAt
  <2>2. 1 \in 1..Len(o) /\ SlotAt(o, 0) = HeadSlot /\ 1 - 1 = 0
    BY <2>1, <1>1 DEF SlotAt
  <2>3. loop.link[SlotAt(o, 1 - 1)] = o[1]
    BY <2>2, <1>1 DEF IsList
  <2> QED
    BY <2>2, <2>3, <1>1, ElementOfSeq
<1> HIDE DEF k
<1> DEFINE t == RemoveAt(o, k)
<1>4. /\ queue'.order = t /\ queue'.next = 0
      /\ queue'.later = Q!Back(queue.later, k)
      /\ queue' = [order |-> t, next |-> 0, later |-> Q!Back(queue.later, k)]
  BY <1>2, <1>3 DEF Q!AfterTurn, Q!RemoveAt, RemoveAt, k
<1>5. t \in Seq(Event) /\ Len(t) = Len(o) - 1
  BY <1>1, <1>3, RemoveAtElements
<1>6. /\ loop'.link = UnlinkedFrom(loop, o[k], SlotAt(o, k - 1))
      /\ loop'.prev = PrevWithout(loop, o[k], SlotAt(o, k - 1))
      /\ loop'.nextInsert = HeadSlot
      /\ loop'.laterInsert = Moved(SlotAt(o, queue.later), o[k], SlotAt(o, k - 1))
      /\ loop'.tail = Moved(SlotAt(o, Len(o)), o[k], SlotAt(o, k - 1))
  BY <1>1, <1>2, <1>3 DEF DoTurn
<1>7. /\ Q!Back(queue.next, k) \in Nat /\ Q!Back(queue.later, k) \in Nat
      /\ Q!Back(queue.next, k) <= Q!Back(queue.later, k)
      /\ Q!Back(queue.later, k) <= Len(o) - 1
      /\ Q!Back(Len(o), k) = Len(o) - 1
  BY <1>1, <1>3 DEF Q!Back
<1>8. TypeOK'
  <2>1. loop' \in Queues
    BY <1>1, <1>2, <1>3, QueueTypes
  <2>2. armedBy' \in [Event -> Calls]
    BY <1>2 DEF IInv, TypeOK, Calls
  <2>3. queue' \in [order : Seq(Event), next : Nat, later : Nat]
    BY <1>4, <1>5, <1>7
  <2>4. cut' \in BOOLEAN
    BY <1>2 DEF IInv, TypeOK
  <2> QED
    BY <2>1, <2>2, <2>3, <2>4 DEF TypeOK
<1>9. IsList(loop'.link, loop'.prev, t)
  BY <1>1, <1>3, <1>6, RemoveIsList
<1>10. loop'.nextInsert = SlotAt(t, 0)
  BY <1>6 DEF SlotAt
<1>11. ~cut' => loop'.laterInsert = SlotAt(t, Q!Back(queue.later, k))
  BY <1>1, <1>3, <1>6, PointAfterRemove
<1>12. loop'.tail = SlotAt(t, Len(t))
  <2>1. Len(o) \in 0..Len(o) /\ o \in Seq(Event) /\ k \in 1..Len(o)
        /\ IsList(loop.link, loop.prev, o)
    BY <1>1, <1>3
  <2>2. Moved(SlotAt(o, Len(o)), o[k], SlotAt(o, k - 1))
          = SlotAt(t, Q!Back(Len(o), k))
    <3> HIDE DEF o
    <3> QED
      BY <2>1, PointAfterRemove
  <2> QED
    BY <2>2, <1>5, <1>6, <1>7
<1>13. Represents'
  BY <1>4, <1>5, <1>7, <1>9, <1>10, <1>11, <1>12 DEF Represents
<1>14. LastsBehind'
  <2>1. \A i, j \in 1..Len(o) : o[i] = o[j] => i = j
    BY <1>1, Zenon DEF IsList
  <2>2. LastsAfter(armedBy, o, queue.later)
    BY DEF IInv, LastsBehind
  <2>3. armedBy \in [Event -> Calls]
    BY DEF IInv, TypeOK
  <2>4. armedBy' = [armedBy EXCEPT ![o[k]] = "none"]
    BY <1>2, <1>3
  <2>5. LastsAfter(armedBy', t, Q!Back(queue.later, k))
    <3>1. o \in Seq(Event) /\ k \in 1..Len(o) /\ queue.later \in 0..Len(o)
      BY <1>1, <1>3
    <3> HIDE DEF o
    <3> QED
      BY <2>1, <2>2, <2>3, <2>4, <3>1, LastsAfterRemove
  <2> QED
    BY <2>5, <1>4 DEF LastsBehind
<1> QED
  BY <1>8, <1>13, <1>14 DEF IInv

-----------------------------------------------------------------------------
(* Every call keeps the invariant: one step per call. *)
LEMMA NextIInv ==
  ASSUME IInv, [Next]_vars
  PROVE  IInv'
<1>1. CASE ~cut /\ \E e \in Event : StepArmNext(e)
  BY <1>1, StepArmNextIInv
<1>2. CASE ~cut /\ \E e \in Event : StepArmLater(e)
  BY <1>2, StepArmLaterIInv
<1>3. CASE ~cut /\ \E e \in Event : StepArmLast(e)
  BY <1>3, StepArmLastIInv
<1>4. CASE ~cut /\ \E e \in Event : StepDisarm(e)
  BY <1>4, StepDisarmIInv
<1>5. CASE ~cut /\ StepTurn
  BY <1>5, StepTurnIInv
<1>6. CASE UNCHANGED vars
  BY <1>6 DEF vars, IInv, TypeOK, Represents, LastsBehind
<1> QED
  BY <1>1, <1>2, <1>3, <1>4, <1>5, <1>6 DEF Next

(* The inductive invariant of the event loop: types, list and order. *)
THEOREM Invariance == Spec => []IInv
<1>1. Init => IInv
  BY InitIInv
<1>2. IInv /\ [Next]_vars => IInv'
  BY NextIInv
<1> QED
  BY <1>1, <1>2, PTL DEF Spec

(* The fields of the loop stay in their types. *)
THEOREM TypeCorrect == Spec => []TypeOK
<1>1. IInv => TypeOK
  BY DEF IInv
<1> QED
  BY <1>1, Invariance, PTL

(* Until a disarm cuts the list at the later insertion point, the pointers *)
(* kept by armNext, armLater, armLast, disarm and turn are the queue.      *)
THEOREM ListRepresentsQueue == Spec => []Represents
<1>1. IInv => Represents
  BY DEF IInv
<1> QED
  BY <1>1, Invariance, PTL

(* The events armed with armLast are exactly those behind the later point. *)
THEOREM LastsStayBehind == Spec => []LastsBehind
<1>1. IInv => LastsBehind
  BY DEF IInv
<1> QED
  BY <1>1, Invariance, PTL

(* turn() fires an event armed with armLast only when nothing else waits.  *)
THEOREM LastsFireLast == Spec => LastFiresLast
<1>1. ASSUME IInv, [Next]_vars, StepTurn, armedBy[loop.link[HeadSlot]] = "last",
             NEW e \in Event, IsArmed(loop, e), ~cut
      PROVE  armedBy[e] = "last"
  <2> DEFINE o == queue.order
  <2>1. /\ o \in Seq(Event) /\ Len(o) \in Nat /\ queue.later \in Nat
        /\ IsList(loop.link, loop.prev, o)
    BY <1>1, Before
  <2>2. PICK i \in 1..Len(o) : o[i] = e
    BY <1>1, <2>1 DEF IsList, IsArmed
  <2>3. 1 \in 1..Len(o) /\ 1 - 1 = 0
    BY <2>1
  <2>4. loop.link[HeadSlot] = o[1]
    <3>1. loop.link[SlotAt(o, 1 - 1)] = o[1]
      BY <2>1, <2>3 DEF IsList
    <3> QED
      BY <3>1, <2>3 DEF SlotAt
  <2>5. \A j \in 1..Len(o) : (armedBy[o[j]] = "last") <=> (queue.later < j)
    BY <1>1 DEF IInv, LastsBehind, LastsAfter
  <2>6. queue.later < 1
    BY <1>1, <2>3, <2>4, <2>5
  <2>7. queue.later < i
    BY <2>1, <2>6
  <2> QED
    BY <2>2, <2>5, <2>7
<1>2. IInv /\ [Next]_vars =>
        [StepTurn /\ armedBy[loop.link[HeadSlot]] = "last" =>
           \A e \in Event : IsArmed(loop, e) => armedBy[e] = "last"]_vars
  BY <1>1 DEF Next
<1> QED
  BY <1>2, Invariance, PTL DEF Spec, LastFiresLast

(* The loop implements the queue of EventQueue: the calls are its          *)
(* operations, under the same guards.                                      *)
THEOREM LoopImplementsQueue == Spec => ImplementsQueue
<1>1. Init => Q!Init
  BY DEF Init
<1>2. ASSUME IInv, ~cut, NEW e \in Event, ~IsArmed(loop, e)
      PROVE  e \notin Q!Armed(queue)
  BY <1>2, Before, SlotsAreDistinct DEF Q!Armed, IsArmed
<1>3. IInv /\ [Next]_vars => [Q!Next]_queue
  <2> SUFFICES ASSUME IInv, [Next]_vars PROVE [Q!Next]_queue
    OBVIOUS
  <2>1. ASSUME ~cut, NEW e \in Event, StepArmNext(e) PROVE Q!Next
    BY <1>2, <2>1 DEF StepArmNext, ArmNext, Q!Next, Q!Arm
  <2>2. ASSUME ~cut, NEW e \in Event, StepArmLater(e) PROVE Q!Next
    BY <1>2, <2>2 DEF StepArmLater, ArmLater, Q!Next, Q!Arm
  <2>3. ASSUME ~cut, NEW e \in Event, StepArmLast(e) PROVE Q!Next
    BY <1>2, <2>3 DEF StepArmLast, ArmLast, Q!Next, Q!Arm
  <2>4. ASSUME ~cut, NEW e \in Event, StepDisarm(e) PROVE Q!Next
    <3>1. \E i \in 1..Len(queue.order) : queue.order[i] = e
      BY <2>4, Before DEF StepDisarm, Disarm, IsArmed, IsList
    <3>2. PositionOf(e) \in 1..Len(queue.order)
      BY <3>1 DEF PositionOf
    <3> QED
      BY <2>4, <3>2 DEF StepDisarm, Q!Next, Q!Disarm
  <2>5. ASSUME ~cut, StepTurn PROVE Q!Next
    <3>1. queue.order # << >>
      <4> SUFFICES ASSUME queue.order = << >> PROVE FALSE
        OBVIOUS
      <4>1. Len(queue.order) = 0
        BY EmptySeq
      <4>2. loop.link[SlotAt(queue.order, Len(queue.order))] = Null
        BY <2>5, Before DEF IsList
      <4> QED
        BY <2>5, <4>1, <4>2 DEF SlotAt, StepTurn, Turn
    <3> QED
      BY <2>5, <3>1 DEF StepTurn, Q!Next, Q!Turn
  <2>6. CASE UNCHANGED vars
    BY <2>6 DEF vars
  <2> QED
    BY <2>1, <2>2, <2>3, <2>4, <2>5, <2>6 DEF Next
<1> QED
  BY <1>1, <1>3, Invariance, PTL DEF Spec, ImplementsQueue, Q!Spec
=============================================================================
