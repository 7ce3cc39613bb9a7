------------------------- MODULE ConveyorChain_proofs -------------------------
(***************************************************************************)
(* ConveyorChain for chains of every length, buffers of every limit and    *)
(* any number of elements, under the two restrictions WideEnough and       *)
(* TakenComplete.  The order of the argument: what moving one element does *)
(* to the count of a chain; the invariant as a predicate of a state        *)
(* record; what destroying, moving and arming do to it; each handler; each *)
(* action; and what the invariant says of the elements as one sequence.    *)
(***************************************************************************)
EXTENDS ConveyorChain, EventLoop_proofs, SequenceTheorems

-----------------------------------------------------------------------------
(***************************************************************************)
(* The elements of a chain, without its nodes: c[j] is the storage of node *)
(* j and c[n + 1] is what came out at the top of n nodes.                  *)
(***************************************************************************)
Critical(seq) == \E k \in 1..Len(seq) : seq[k].kind = "critical"

(* p[j] is the number of elements in c[j] and above it, and elements are   *)
(* numbered by it: none is missing, doubled or out of its order.           *)
Counts(p, c, n, f) ==
    /\ p \in [Nat -> Nat] /\ \A j \in Nat : p[j] <= f
    /\ p[n + 2] = 0
    /\ \A j \in Nat : 1 <= j /\ j <= n + 1 => p[j] = p[j + 1] + Len(c[j])
    /\ \A j \in Nat : 1 <= j /\ j <= n + 1 =>
          \A k \in 1..Len(c[j]) : c[j][k].id = p[j + 1] + k

(* As long as the source is alive they are all there. *)
Counted(c, n, f, al) == \E p : Counts(p, c, n, f) /\ (1 \in al => p[1] = f)

(* One element goes from the front of a to the back of b; a node between   *)
(* is empty.                                                               *)
Shorter(t, s) == Len(t) = Len(s) - 1 /\ \A k \in 1..(Len(s) - 1) : t[k] = s[k + 1]

Longer(t, s, x) == /\ Len(t) = Len(s) + 1
                   /\ \A k \in 1..Len(s) : t[k] = s[k]
                   /\ t[Len(s) + 1] = x

HasLengths(c) == \A j \in Nat : Len(c[j]) \in Nat

GoesUp(c, d, a, b, x) ==
    /\ b = a + 1 \/ (b = a + 2 /\ Len(c[a + 1]) = 0)
    /\ Len(c[a]) > 0 /\ x.id = c[a][1].id
    /\ Shorter(d[a], c[a])
    /\ Longer(d[b], c[b], x)
    /\ \A j \in Nat : j # a /\ j # b => d[j] = c[j]

(* An element that goes up by one storage, or by two past an empty one,    *)
(* keeps the count: only the prefixes between the two change.              *)
LEMMA CountedGoesUp ==
  ASSUME NEW n \in Nat, NEW f \in Nat, NEW c, NEW d, NEW al,
         HasLengths(c), Counted(c, n, f, al),
         NEW a \in Nat, a >= 1, NEW b \in Nat, b <= n + 1, NEW x, GoesUp(c, d, a, b, x)
  PROVE  Counted(d, n, f, al)
<1>1. PICK p : Counts(p, c, n, f) /\ (1 \in al => p[1] = f)
  BY DEF Counted
<1> DEFINE q == [j \in Nat |-> IF a < j /\ j <= b THEN p[j] + 1 ELSE p[j]]
<1>2. /\ a >= 1 /\ a < b /\ a <= n + 1 /\ b <= n + 1 /\ a + 1 \in Nat
      /\ b = a + 1 \/ (b = a + 2 /\ Len(c[a + 1]) = 0)
  BY DEF GoesUp
<1>3. /\ Len(d[a]) = Len(c[a]) - 1 /\ Len(c[a]) \in Nat /\ Len(c[a]) >= 1
      /\ \A k \in 1..(Len(c[a]) - 1) : d[a][k] = c[a][k + 1]
  BY DEF GoesUp, Shorter, HasLengths
<1>4. /\ Len(d[b]) = Len(c[b]) + 1 /\ Len(c[b]) \in Nat
      /\ \A k \in 1..Len(c[b]) : d[b][k] = c[b][k]
      /\ d[b][Len(c[b]) + 1] = x
  BY DEF GoesUp, Longer, HasLengths
<1>5. x.id = c[a][1].id /\ \A j \in Nat : j # a /\ j # b => d[j] = c[j]
  BY DEF GoesUp
<1>6. p \in [Nat -> Nat] /\ p[n + 2] = 0 /\ \A j \in Nat : p[j] <= f
  BY <1>1 DEF Counts
<1>7. \A j \in Nat : 1 <= j /\ j <= n + 1 => p[j] = p[j + 1] + Len(c[j])
  BY <1>1 DEF Counts
<1>8. \A j \in Nat : 1 <= j /\ j <= n + 1 => \A k \in 1..Len(c[j]) : c[j][k].id = p[j + 1] + k
  BY <1>1 DEF Counts
<1>9. /\ p[a] = p[a + 1] + Len(c[a]) /\ p[b] = p[b + 1] + Len(c[b])
      /\ p[a] \in Nat /\ p[a + 1] \in Nat /\ p[b] \in Nat /\ p[b + 1] \in Nat
      /\ p[a] <= f
  <2>3. a + 1 \in Nat /\ b + 1 \in Nat
    OBVIOUS
  <2>4. p \in [Nat -> Nat]
    BY <1>6
  <2>1. p[a] \in Nat /\ p[a + 1] \in Nat /\ p[b] \in Nat /\ p[b + 1] \in Nat
    BY <2>3, <2>4
  <2>2. p[a] = p[a + 1] + Len(c[a]) /\ p[b] = p[b + 1] + Len(c[b])
    BY <1>2, <1>7
  <2> QED
    BY <2>1, <2>2, <1>6
<1>10. p[a + 1] = p[b]
  <2>1. CASE b = a + 1
    BY <2>1
  <2>2. CASE b = a + 2 /\ Len(c[a + 1]) = 0
    <3>1. p[a + 1] = p[a + 2] + Len(c[a + 1])
      BY <2>2, <1>2, <1>7
    <3>2. Len(c[a + 1]) = 0 /\ a + 2 = b
      BY <2>2
    <3> QED
      BY <3>1, <3>2, <1>9
  <2> QED
    BY <2>1, <2>2, <1>2
<1>11. x.id = p[a + 1] + 1
  BY <1>2, <1>3, <1>5, <1>8
<1>12. \A j \in Nat : a < j /\ j <= b => p[j] = p[b]
  BY <1>2, <1>10
<1>13. q \in [Nat -> Nat] /\ q[n + 2] = 0 /\ \A j \in Nat : q[j] <= f
  <2>1. ASSUME NEW j \in Nat PROVE q[j] \in Nat /\ q[j] <= f
    <3>1. CASE a < j /\ j <= b
      <4>1. p[j] = p[b] /\ p[b] + 1 <= f
        BY <3>1, <1>3, <1>9, <1>10, <1>12
      <4> QED
        BY <3>1, <4>1, <1>9
    <3>2. CASE ~(a < j /\ j <= b)
      BY <3>2, <1>6
    <3> QED
      BY <3>1, <3>2
  <2>2. q[n + 2] = 0
    BY <1>2, <1>6
  <2> QED
    BY <2>1, <2>2
<1>14. /\ \A j \in Nat : a < j /\ j <= b => q[j] = p[b] + 1
       /\ \A j \in Nat : ~(a < j /\ j <= b) => q[j] = p[j]
  BY <1>12
<1> HIDE DEF q
<1>15. /\ q[a] = p[a] /\ q[a + 1] = p[b] + 1 /\ q[b] = p[b] + 1 /\ q[b + 1] = p[b + 1]
  BY <1>2, <1>14
<1>16. ASSUME NEW j \in Nat, 1 <= j, j <= n + 1
       PROVE  /\ q[j] = q[j + 1] + Len(d[j])
              /\ \A k \in 1..Len(d[j]) : d[j][k].id = q[j + 1] + k
  <2>1. CASE j = a
    <3>1. ASSUME NEW k \in 1..Len(d[a]) PROVE d[a][k].id = q[a + 1] + k
      <4>1. k \in 1..(Len(c[a]) - 1) /\ k + 1 \in 1..Len(c[a])
        BY <1>3
      <4>2. d[a][k] = c[a][k + 1] /\ c[a][k + 1].id = p[a + 1] + (k + 1)
        BY <4>1, <1>2, <1>3, <1>8
      <4> QED
        BY <4>1, <4>2, <1>9, <1>10, <1>15
    <3>2. q[a] = q[a + 1] + Len(d[a])
      <4>1. Len(d[a]) = Len(c[a]) - 1 /\ Len(c[a]) \in Nat
        BY <1>3
      <4> QED
        BY <4>1, <1>9, <1>10, <1>15, SMTT(60)
    <3> QED
      BY <2>1, <3>1, <3>2
  <2>2. CASE j = b
    <3>1. \A k \in 1..Len(c[b]) : c[b][k].id = p[b + 1] + k
      BY <1>2, <1>8
    <3>2. ASSUME NEW k \in 1..Len(d[b]) PROVE d[b][k].id = p[b + 1] + k
      <4>1. CASE k = Len(c[b]) + 1
        BY <4>1, <1>4, <1>9, <1>10, <1>11
      <4>2. CASE k # Len(c[b]) + 1
        <5>1. k \in 1..Len(c[b])
          BY <4>2, <1>4
        <5> QED
          BY <5>1, <3>1, <1>4
      <4> QED
        BY <4>1, <4>2
    <3>3. q[b] = q[b + 1] + Len(d[b])
      <4>1. Len(d[b]) = Len(c[b]) + 1 /\ Len(c[b]) \in Nat
        BY <1>4
      <4> QED
        BY <4>1, <1>9, <1>15, SMTT(60)
    <3> QED
      BY <2>2, <3>2, <3>3, <1>15
  <2>3. CASE j # a /\ j # b
    <3>1. d[j] = c[j] /\ p[j] = p[j + 1] + Len(c[j])
          /\ \A k \in 1..Len(c[j]) : c[j][k].id = p[j + 1] + k
      BY <2>3, <1>16, <1>5, <1>7, <1>8
    <3>2. CASE j = a + 1 /\ b = a + 2
      <4>1. Len(c[j]) = 0 /\ j + 1 = b
        BY <3>2, <1>2
      <4> QED
        BY <3>1, <3>2, <4>1, <1>9, <1>15
    <3>3. CASE ~(j = a + 1 /\ b = a + 2)
      <4>1. q[j] = p[j] /\ q[j + 1] = p[j + 1]
        BY <2>3, <3>3, <1>2, <1>14
      <4> QED
        BY <3>1, <4>1
    <3> QED
      BY <3>2, <3>3
  <2> QED
    BY <2>1, <2>2, <2>3
<1>17. q[1] = p[1]
  BY <1>2, <1>14
<1>18. Counts(q, d, n, f)
  BY <1>13, <1>16 DEF Counts
<1> QED
  BY <1>1, <1>17, <1>18 DEF Counted

(* feed() puts element f + 1 behind the others of the source. *)
LEMMA CountedFed ==
  ASSUME NEW n \in Nat, n >= 1, NEW f \in Nat, NEW c, NEW d,
         NEW al, 1 \in al,
         HasLengths(c), Counted(c, n, f, al), NEW x, x.id = f + 1,
         Longer(d[1], c[1], x), \A j \in Nat : j # 1 => d[j] = c[j]
  PROVE  Counted(d, n, f + 1, al)
<1>1. PICK p : Counts(p, c, n, f) /\ p[1] = f
  BY DEF Counted
<1> DEFINE q == [j \in Nat |-> IF j = 1 THEN f + 1 ELSE p[j]]
<1>2. p \in [Nat -> Nat] /\ p[n + 2] = 0 /\ \A j \in Nat : p[j] <= f
  BY <1>1 DEF Counts
<1>3. /\ \A j \in Nat : 1 <= j /\ j <= n + 1 => p[j] = p[j + 1] + Len(c[j])
      /\ \A j \in Nat : 1 <= j /\ j <= n + 1 => \A k \in 1..Len(c[j]) : c[j][k].id = p[j + 1] + k
  BY <1>1 DEF Counts
<1>4. q \in [Nat -> Nat] /\ \A j \in Nat : q[j] <= f + 1
  BY <1>2
<1>5. q[1] = f + 1 /\ \A j \in Nat : j # 1 => q[j] = p[j]
  OBVIOUS
<1> HIDE DEF q
<1>6. Len(c[1]) \in Nat /\ Len(d[1]) = Len(c[1]) + 1 /\ d[1][Len(c[1]) + 1] = x
      /\ \A k \in 1..Len(c[1]) : d[1][k] = c[1][k]
  BY DEF HasLengths, Longer
<1>7. f = p[2] + Len(c[1]) /\ p[2] \in Nat /\ q[2] = p[2]
      /\ \A k \in 1..Len(c[1]) : c[1][k].id = p[2] + k
  <2>1. 1 \in Nat /\ 1 + 1 = 2 /\ 2 \in Nat /\ 1 <= n + 1 /\ 2 # 1
    OBVIOUS
  <2>2. p[1] = p[1 + 1] + Len(c[1]) /\ \A k \in 1..Len(c[1]) : c[1][k].id = p[1 + 1] + k
    BY <2>1, <1>3
  <2>3. p[2] \in Nat /\ q[2] = p[2]
    BY <2>1, <1>2, <1>5
  <2> QED
    BY <2>1, <2>2, <2>3, <1>1
<1>8. ASSUME NEW j \in Nat, 1 <= j, j <= n + 1
      PROVE  /\ q[j] = q[j + 1] + Len(d[j])
             /\ \A k \in 1..Len(d[j]) : d[j][k].id = q[j + 1] + k
  <2>1. CASE j = 1
    <3>1. f + 1 = q[2] + Len(d[1])
      BY <1>6, <1>7
    <3>2. ASSUME NEW k \in 1..Len(d[1]) PROVE d[1][k].id = q[2] + k
      <4>1. CASE k = Len(c[1]) + 1
        BY <4>1, <1>6, <1>7
      <4>2. CASE k # Len(c[1]) + 1
        <5>1. k \in 1..Len(c[1])
          BY <4>2, <1>6
        <5> QED
          BY <5>1, <1>6, <1>7
      <4> QED
        BY <4>1, <4>2
    <3> QED
      BY <2>1, <3>1, <3>2, <1>5
  <2>2. CASE j # 1
    <3>1. j + 1 \in Nat /\ j + 1 # 1
      BY <1>8
    <3>2. q[j] = p[j] /\ q[j + 1] = p[j + 1] /\ d[j] = c[j]
      BY <2>2, <3>1, <1>5
    <3> QED
      BY <3>2, <1>3, <1>8
  <2> QED
    BY <2>1, <2>2
<1>9. Counts(q, d, n, f + 1)
  <2>1. q[n + 2] = 0
    BY <1>2, <1>5
  <2> QED
    BY <2>1, <1>4, <1>8 DEF Counts
<1> QED
  BY <1>5, <1>9 DEF Counted

(* A new node, with nothing in it, is put on top. *)
LEMMA CountedBuilt ==
  ASSUME NEW n \in Nat, n >= 1, NEW f \in Nat, NEW c, NEW d, NEW al, NEW later, 1 \in later => 1 \in al,
         HasLengths(c), Counted(c, n, f, al),
         d[n + 2] = c[n + 1], Len(d[n + 1]) = 0,
         \A j \in Nat : j <= n => d[j] = c[j]
  PROVE  Counted(d, n + 1, f, later)
<1>1. PICK p : Counts(p, c, n, f) /\ (1 \in al => p[1] = f)
  BY DEF Counted
<1> DEFINE q == [j \in Nat |-> IF j <= n + 1 THEN p[j] ELSE IF j = n + 2 THEN p[n + 1] ELSE 0]
<1>2. p \in [Nat -> Nat] /\ p[n + 2] = 0 /\ \A j \in Nat : p[j] <= f
  BY <1>1 DEF Counts
<1>3. /\ \A j \in Nat : 1 <= j /\ j <= n + 1 => p[j] = p[j + 1] + Len(c[j])
      /\ \A j \in Nat : 1 <= j /\ j <= n + 1 => \A k \in 1..Len(c[j]) : c[j][k].id = p[j + 1] + k
  BY <1>1 DEF Counts
<1>4. q \in [Nat -> Nat] /\ \A j \in Nat : q[j] <= f
  <2>1. \A j \in Nat : p[j] \in Nat /\ p[j] <= f
    BY <1>2
  <2>2. n + 1 \in Nat
    OBVIOUS
  <2>3. p[n + 1] \in Nat /\ p[n + 1] <= f
    BY <2>1, <2>2
  <2> QED
    BY <2>1, <2>3
<1>5. /\ \A j \in Nat : j <= n + 1 => q[j] = p[j]
      /\ q[n + 2] = p[n + 1] /\ q[n + 3] = 0
  OBVIOUS
<1> HIDE DEF q
<1>6. p[n + 1] = Len(c[n + 1]) /\ Len(c[n + 1]) \in Nat
      /\ \A k \in 1..Len(c[n + 1]) : c[n + 1][k].id = k
  <2>1. n + 1 \in Nat /\ 1 <= n + 1 /\ n + 1 + 1 = n + 2
    OBVIOUS
  <2>2. Len(c[n + 1]) \in Nat
    BY <2>1 DEF HasLengths
  <2> DEFINE m == n + 1
  <2>3. m \in Nat /\ 1 <= m /\ m <= n + 1 /\ m + 1 = n + 2
    BY <2>1
  <2> HIDE DEF m
  <2>4. p[m] = p[m + 1] + Len(c[m]) /\ \A k \in 1..Len(c[m]) : c[m][k].id = p[m + 1] + k
    BY <2>3, <1>3
  <2>5. p[m] = 0 + Len(c[m]) /\ \A k \in 1..Len(c[m]) : c[m][k].id = 0 + k
    BY <2>3, <2>4, <1>2
  <2> QED
    BY <2>2, <2>5 DEF m
<1>7. ASSUME NEW j \in Nat, 1 <= j, j <= n + 2
      PROVE  /\ q[j] = q[j + 1] + Len(d[j])
             /\ \A k \in 1..Len(d[j]) : d[j][k].id = q[j + 1] + k
  <2>1. CASE j <= n
    <3>1. q[j] = p[j] /\ q[j + 1] = p[j + 1] /\ d[j] = c[j]
      BY <2>1, <1>5
    <3> QED
      BY <2>1, <3>1, <1>3, <1>7
  <2>2. CASE j = n + 1
    <3>1. q[j] = p[n + 1] /\ q[j + 1] = p[n + 1] /\ Len(d[j]) = 0 /\ p[n + 1] \in Nat
      BY <2>2, <1>5, <1>6
    <3> QED
      BY <3>1
  <2>3. CASE j = n + 2
    <3>1. q[j] = p[n + 1] /\ q[j + 1] = 0 /\ d[j] = c[n + 1]
      BY <2>3, <1>5
    <3> QED
      BY <3>1, <1>6
  <2> QED
    BY <2>1, <2>2, <2>3, <1>7
<1>8. Counts(q, d, n + 1, f)
  <2>1. n + 1 + 2 = n + 3 /\ n + 1 + 1 = n + 2
    OBVIOUS
  <2> QED
    BY <2>1, <1>4, <1>5, <1>7 DEF Counts
<1>9. q[1] = p[1]
  BY <1>5
<1> QED
  BY <1>1, <1>8, <1>9 DEF Counted

(* The storages below node i are gone. *)
LEMMA CountedCut ==
  ASSUME NEW n \in Nat, NEW f \in Nat, NEW c, NEW d, NEW al, NEW later, 1 \notin later,
         HasLengths(c), Counted(c, n, f, al),
         NEW i \in Nat, 1 <= i, i <= n + 1,
         \A j \in Nat : j < i => Len(d[j]) = 0, \A j \in Nat : j >= i => d[j] = c[j]
  PROVE  Counted(d, n, f, later)
<1>1. PICK p : Counts(p, c, n, f) /\ (1 \in al => p[1] = f)
  BY DEF Counted
<1> DEFINE q == [j \in Nat |-> IF j < i THEN p[i] ELSE p[j]]
<1>2. p \in [Nat -> Nat] /\ p[n + 2] = 0 /\ \A j \in Nat : p[j] <= f
  BY <1>1 DEF Counts
<1>3. /\ \A j \in Nat : 1 <= j /\ j <= n + 1 => p[j] = p[j + 1] + Len(c[j])
      /\ \A j \in Nat : 1 <= j /\ j <= n + 1 => \A k \in 1..Len(c[j]) : c[j][k].id = p[j + 1] + k
  BY <1>1 DEF Counts
<1>4. q \in [Nat -> Nat] /\ \A j \in Nat : q[j] <= f
  BY <1>2
<1>5. /\ \A j \in Nat : j <= i => q[j] = p[i]
      /\ \A j \in Nat : j >= i => q[j] = p[j]
  OBVIOUS
<1>6. p[i] \in Nat /\ q[n + 2] = 0
  BY <1>2, <1>5
<1> HIDE DEF q
<1>7. ASSUME NEW j \in Nat, 1 <= j, j <= n + 1
      PROVE  /\ q[j] = q[j + 1] + Len(d[j])
             /\ \A k \in 1..Len(d[j]) : d[j][k].id = q[j + 1] + k
  <2>1. CASE j < i
    <3>1. q[j] = p[i] /\ q[j + 1] = p[i] /\ Len(d[j]) = 0
      BY <2>1, <1>5
    <3> QED
      BY <3>1, <1>6
  <2>2. CASE j >= i
    <3>1. q[j] = p[j] /\ q[j + 1] = p[j + 1] /\ d[j] = c[j]
      BY <2>2, <1>5
    <3> QED
      BY <3>1, <1>3, <1>7
  <2> QED
    BY <2>1, <2>2
<1>8. Counts(q, d, n, f)
  BY <1>4, <1>6, <1>7 DEF Counts
<1> QED
  BY <1>8 DEF Counted

(* A critical error in a storage stays in it or goes up. *)
LEMMA CriticalGoesUp ==
  ASSUME NEW c, NEW d, HasLengths(c), NEW a \in Nat, NEW b \in Nat, NEW x,
         GoesUp(c, d, a, b, x), c[a][1].kind = "critical" => x.kind = "critical",
         NEW j \in Nat, Critical(c[j])
  PROVE  Critical(d[j]) \/ (j = a /\ c[a][1].kind = "critical" /\ Critical(d[b]))
<1>1. PICK k \in 1..Len(c[j]) : c[j][k].kind = "critical"
  BY DEF Critical
<1>2. Len(c[a]) \in Nat /\ Len(c[b]) \in Nat /\ Len(c[a]) > 0
  BY DEF HasLengths, GoesUp
<1>3. /\ Len(d[a]) = Len(c[a]) - 1
      /\ \A m \in 1..(Len(c[a]) - 1) : d[a][m] = c[a][m + 1]
  BY DEF GoesUp, Shorter
<1>4. /\ Len(d[b]) = Len(c[b]) + 1
      /\ \A m \in 1..Len(c[b]) : d[b][m] = c[b][m]
      /\ d[b][Len(c[b]) + 1] = x
  BY DEF GoesUp, Longer
<1>5. CASE j # a /\ j # b
  <2>1. d[j] = c[j]
    BY <1>5 DEF GoesUp
  <2> QED
    BY <2>1
<1>6. CASE j = b
  <2>1. k \in 1..Len(d[b]) /\ d[b][k].kind = "critical"
    BY <1>1, <1>2, <1>4, <1>6
  <2> QED
    BY <2>1, <1>6 DEF Critical
<1>7. CASE j = a
  <2>1. CASE k = 1
    <3>1. x.kind = "critical" /\ Len(c[b]) + 1 \in 1..Len(d[b])
      BY <2>1, <1>1, <1>2, <1>4, <1>7
    <3> QED
      BY <2>1, <3>1, <1>1, <1>4, <1>7 DEF Critical
  <2>2. CASE k # 1
    <3>1. k - 1 \in 1..(Len(c[a]) - 1) /\ k - 1 + 1 = k
      BY <2>2, <1>1, <1>2, <1>7
    <3>2. k - 1 \in 1..Len(d[a]) /\ d[a][k - 1] = c[a][k]
      BY <3>1, <1>3
    <3> QED
      BY <3>2, <1>1, <1>7 DEF Critical
  <2> QED
    BY <2>1, <2>2
<1> QED
  BY <1>5, <1>6, <1>7

-----------------------------------------------------------------------------
(***************************************************************************)
(* The invariant, of a state s as a record: a handler is a chain of        *)
(* operators, and each of them is shown to keep Base.                      *)
(***************************************************************************)
States == [loop : Queues, store : [Node -> Seq(Elements)], child : [Node -> BOOLEAN],
           child_storage : [Node -> BOOLEAN], alive : SUBSET Node,
           conveyor_sink : BOOLEAN, delete_nodes : BOOLEAN, out : Seq(Elements),
           aborted : BOOLEAN, cut : BOOLEAN]

Contents(s) == [j \in Nat |-> IF 1 <= j /\ j <= Top THEN s.store[j]
                              ELSE IF j = Top + 1 THEN s.out ELSE << >>]

Dead(s) == (1..Top) \ s.alive

(* A source, buffers, and a sink at most at the top. *)
Shape == /\ nodes \in Seq([kind : {"adapt", "immediate", "buffer", "sink", "detached"},
                           limit : Nat])
         /\ Top \in Nat /\ 1 <= Top /\ Top <= MaxNodes
         /\ nodes[1].kind \in {"adapt", "immediate"} \cap Sources
         /\ \A i \in 2..Top : nodes[i].kind \in {"buffer", "sink", "detached"}
         /\ \A i \in 1..Top : IsSink(i) => i = Top
         /\ \A i \in 2..Top : nodes[i].kind = "buffer" =>
              nodes[i].limit > (IF nodes[1].kind = "immediate" THEN 1 ELSE 0)

(* What is alive is the chain from some node up; child and child_storage   *)
(* say so; storages are within their limits; and a node that got a         *)
(* critical error has forgotten its child_storage.                         *)
Chained(s) ==
    /\ s.alive \in SUBSET (1..Top)
    /\ \A i \in s.alive : \A j \in 1..Top : i <= j => j \in s.alive
    /\ \A k \in Node : s.child[k] <=> 2 <= k /\ k <= Top /\ k - 1 \in s.alive
    /\ \A k \in Node : s.child_storage[k] => s.child[k] /\ ~Critical(s.store[k])
    /\ \A k \in Node : k \notin s.alive => s.store[k] = << >>
    /\ \A k \in s.alive : IsSink(k) => s.store[k] = << >>
    /\ \A k \in s.alive : nodes[k].kind = "buffer" => Len(s.store[k]) <= nodes[k].limit

Numbered(s) == Counted(Contents(s), Top, fed, s.alive)

(* The second element of an immediate node is its last. *)
Exhausted(c) == \A j \in Nat : \A k \in 1..Len(c[j]) : c[j][k].id = 2 => c[j][k].kind = "critical"
GivesTwo(s) == nodes[1].kind = "immediate" => fed = 2 /\ Exhausted(Contents(s))

(* Only what exists is armed: nodes with something to give, sinks that got *)
(* a critical error.  A node without a parent may have been emptied by     *)
(* take().                                                                 *)
Queued(s) ==
    /\ QueueInv(s.loop, Dead(s))
    /\ ~s.cut => s.loop.laterInsert \notin Dead(s)
    /\ \A e \in Event : IsArmed(s.loop, e) => e \in s.alive \cup {Daemon}
    /\ \A i \in s.alive : IsArmed(s.loop, i) =>
          IF IsSink(i) THEN Critical(s.out) ELSE i < MaxNodes => s.store[i] # << >>

(* Behind every destroyed node is a critical error further up. *)
EndsAbove(c, i, n) == \E j \in Nat : i < j /\ j <= n + 1 /\ Critical(c[j])
TornBehind(s) == \A i \in 1..Top : i \notin s.alive /\ Top \in s.alive =>
                                      EndsAbove(Contents(s), i, Top)

Base(s) == /\ s \in States
           /\ Chained(s)
           /\ Numbered(s)
           /\ GivesTwo(s)
           /\ Queued(s)
           /\ TornBehind(s)
           /\ ~s.aborted

(* A node that holds elements and has a parent is armed, or its parent is  *)
(* full or ends, and then it is no adapt node, which arms itself again.    *)
Full(s, j) == space(s, j) = 0 \/ Critical(s.store[j])
Awake(s, i) == IsArmed(s.loop, i) \/ (nodes[i].kind # "adapt" /\ Full(s, i + 1))

Untaken(s) == IsSink(Top) \/ s.out = << >>

(* Only a critical error makes a node forget its child_storage. *)
Remembered(s) == \A k \in Node : s.child[k] /\ ~s.child_storage[k] => Critical(s.store[k])

Wakeup(s, except) ==
    /\ Untaken(s) =>
        /\ \A i \in s.alive : i \notin except /\ HasParent(i) /\ s.store[i] # << >> => Awake(s, i)
        /\ Remembered(s)
    /\ ~Untaken(s) => Top = MaxNodes

(* There is no exception between two steps. *)
IInv == Shape /\ fed \in Nat /\ Base(Now) /\ Wakeup(Now, {})

-----------------------------------------------------------------------------
(* The fields of a state. *)
LEMMA StateFields ==
  ASSUME NEW s \in States
  PROVE  /\ s.loop \in Queues /\ s.store \in [Node -> Seq(Elements)]
         /\ s.child \in [Node -> BOOLEAN] /\ s.child_storage \in [Node -> BOOLEAN]
         /\ s.alive \in SUBSET Node /\ s.conveyor_sink \in BOOLEAN
         /\ s.delete_nodes \in BOOLEAN /\ s.out \in Seq(Elements)
         /\ s.aborted \in BOOLEAN /\ s.cut \in BOOLEAN
BY DEF States

(* A state that differs in its loop only. *)
SameButLoop(s, t) ==
    /\ t.store = s.store /\ t.child = s.child /\ t.child_storage = s.child_storage
    /\ t.alive = s.alive /\ t.conveyor_sink = s.conveyor_sink
    /\ t.delete_nodes = s.delete_nodes /\ t.out = s.out /\ t.aborted = s.aborted
    /\ t.cut = s.cut

(* Arming and disarming change the loop and nothing else. *)
LEMMA LoopReplaced ==
  ASSUME NEW s \in States, NEW q \in Queues
  PROVE  /\ [s EXCEPT !.loop = q] \in States
         /\ [s EXCEPT !.loop = q].loop = q
         /\ SameButLoop(s, [s EXCEPT !.loop = q])
BY DEF States, SameButLoop

(* Nodes are events of the loop, and so is the daemon, which is no node. *)
LEMMA NodeIsEvent ==
  ASSUME Shape, NEW s, s.alive \in SUBSET (1..Top)
  PROVE  /\ Dead(s) \in SUBSET Event
         /\ \A i \in s.alive : i \in Event /\ i \notin Dead(s) /\ i \in Node /\ i \in 1..Top
         /\ Daemon \in Event /\ Daemon \notin Dead(s) /\ Daemon \notin Node /\ Daemon \notin s.alive
         /\ 1..Top \subseteq Node
<1>1. Top \in Nat /\ Top <= MaxNodes /\ MaxNodes \in Nat
  BY ChainAssumption DEF Shape
<1>2. 1..Top \subseteq Node /\ 0 \notin Node
  BY <1>1 DEF Node
<1> HIDE DEF Shape, Top
<1> QED
  BY <1>2, EventAssumption DEF Dead, Daemon

(* Arming, or taking out, changes Queued only. *)
LEMMA BaseOfLoop ==
  ASSUME NEW s, NEW t, Base(s), t \in States, SameButLoop(s, t), Queued(t)
  PROVE  Base(t)
<1>1. /\ t.store = s.store /\ t.child = s.child /\ t.child_storage = s.child_storage
      /\ t.alive = s.alive /\ t.out = s.out /\ t.aborted = s.aborted
  BY DEF SameButLoop
<1>2. Contents(t) = Contents(s)
  BY <1>1 DEF Contents
<1>3. Chained(t) /\ Numbered(t) /\ GivesTwo(t) /\ TornBehind(t)
  BY <1>1, <1>2 DEF Base, Chained, Numbered, GivesTwo, TornBehind
<1> QED
  BY <1>1, <1>3 DEF Base

(* What a node needs to be armed. *)
MayArm(s, k) == /\ k \in s.alive \cup {Daemon}
                /\ k \in s.alive => IF IsSink(k) THEN Critical(s.out)
                                    ELSE k < MaxNodes => s.store[k] # << >>

Arms(q, k) == {DoArmNext(q, k), DoArmLater(q, k), DoArmLast(q, k)}

(* Arming a node, by whichever call, keeps Base. *)
LEMMA ArmBase ==
  ASSUME Shape, NEW s, Base(s), NEW k, MayArm(s, k), NEW q \in Arms(s.loop, k)
  PROVE  LET t == [s EXCEPT !.loop = q] IN
         /\ Base(t) /\ SameButLoop(s, t) /\ t.loop = q
         /\ \A f \in Event : IsArmed(t.loop, f) <=> IsArmed(s.loop, f) \/ f = k
<1> DEFINE t == [s EXCEPT !.loop = q]
<1>1. s \in States /\ s.alive \in SUBSET (1..Top) /\ Queued(s)
  BY DEF Base, Chained
<1>2. Dead(s) \in SUBSET Event /\ k \in Event /\ k \notin Dead(s)
  BY <1>1, NodeIsEvent DEF MayArm
<1>3. QueueInv(s.loop, Dead(s))
  BY <1>1 DEF Queued
<1>4. /\ QueueInv(q, Dead(s))
      /\ \A f \in Event : IsArmed(q, f) <=> IsArmed(s.loop, f) \/ f = k
      /\ q.laterInsert \in {s.loop.laterInsert, k}
  BY <1>2, <1>3, ArmNextInv, ArmLaterInv, ArmLastInv DEF Arms
<1>5. t \in States /\ t.loop = q /\ SameButLoop(s, t)
  BY <1>1, <1>4, LoopReplaced DEF QueueInv
<1> HIDE DEF t
<1>6. t.alive = s.alive /\ t.cut = s.cut /\ t.out = s.out /\ t.store = s.store /\ Dead(t) = Dead(s)
  BY <1>5 DEF SameButLoop, Dead
<1>7. ~t.cut => t.loop.laterInsert \notin Dead(t)
  BY <1>1, <1>2, <1>4, <1>5, <1>6 DEF Queued
<1>8. \A e \in Event : IsArmed(t.loop, e) => e \in t.alive \cup {Daemon}
  BY <1>1, <1>4, <1>5, <1>6 DEF Queued, MayArm
<1>9. ASSUME NEW i \in t.alive, IsArmed(t.loop, i)
      PROVE  IF IsSink(i) THEN Critical(t.out) ELSE i < MaxNodes => t.store[i] # << >>
  <2>1. i \in s.alive /\ i \in Event
    BY <1>1, <1>6, NodeIsEvent
  <2>2. CASE i = k
    BY <2>1, <2>2, <1>6 DEF MayArm
  <2>3. CASE i # k
    <3>1. IsArmed(s.loop, i)
      BY <2>1, <2>3, <1>4, <1>5, <1>9
    <3> QED
      BY <2>1, <3>1, <1>1, <1>6 DEF Queued
  <2> QED
    BY <2>2, <2>3
<1>10. Queued(t)
  BY <1>4, <1>5, <1>6, <1>7, <1>8, <1>9 DEF Queued
<1>11. Base(t)
  BY <1>5, <1>10, BaseOfLoop
<1> QED
  BY <1>4, <1>5, <1>11 DEF t

(* turn() takes out a node that exists, or the daemon. *)
LEMMA TurnBase ==
  ASSUME Shape, NEW s, Base(s), s.loop.link[HeadSlot] # Null
  PROVE  LET t == [s EXCEPT !.loop = DoTurn(s.loop)]
             e == s.loop.link[HeadSlot] IN
         /\ Base(t) /\ SameButLoop(s, t) /\ t.loop = DoTurn(s.loop)
         /\ e \in s.alive \cup {Daemon} /\ IsArmed(s.loop, e)
         /\ \A f \in Event : IsArmed(t.loop, f) <=> IsArmed(s.loop, f) /\ f # e
<1> DEFINE q == DoTurn(s.loop)
           t == [s EXCEPT !.loop = q]
           e == s.loop.link[HeadSlot]
<1>1. s \in States /\ s.alive \in SUBSET (1..Top) /\ Queued(s)
  BY DEF Base, Chained
<1>2. Dead(s) \in SUBSET Event
  BY <1>1, NodeIsEvent
<1>3. QueueInv(s.loop, Dead(s))
  BY <1>1 DEF Queued
<1>4. /\ e \in Event /\ IsArmed(s.loop, e)
      /\ QueueInv(q, Dead(s))
      /\ \A f \in Event : IsArmed(q, f) <=> IsArmed(s.loop, f) /\ f # e
      /\ q.laterInsert \in {s.loop.laterInsert, HeadSlot}
  BY <1>2, <1>3, TurnInv
<1>5. e \in s.alive \cup {Daemon}
  BY <1>1, <1>4 DEF Queued
<1> HIDE DEF q, e
<1>6. t \in States /\ t.loop = q /\ SameButLoop(s, t)
  BY <1>1, <1>4, LoopReplaced DEF QueueInv
<1> HIDE DEF t
<1>7. t.alive = s.alive /\ t.cut = s.cut /\ t.out = s.out /\ t.store = s.store /\ Dead(t) = Dead(s)
  BY <1>6 DEF SameButLoop, Dead
<1>8. ~t.cut => t.loop.laterInsert \notin Dead(t)
  BY <1>1, <1>2, <1>4, <1>6, <1>7, HeadAssumption DEF Queued
<1>9. \A f \in Event : IsArmed(t.loop, f) => f \in t.alive \cup {Daemon}
  BY <1>1, <1>4, <1>6, <1>7 DEF Queued
<1>10. ASSUME NEW i \in t.alive, IsArmed(t.loop, i)
       PROVE  IF IsSink(i) THEN Critical(t.out) ELSE i < MaxNodes => t.store[i] # << >>
  <2>1. i \in s.alive /\ i \in Event
    BY <1>1, <1>7, NodeIsEvent
  <2>2. IsArmed(s.loop, i)
    BY <2>1, <1>4, <1>6, <1>10
  <2> QED
    BY <2>1, <2>2, <1>1, <1>7 DEF Queued
<1>11. Queued(t)
  BY <1>4, <1>6, <1>7, <1>8, <1>9, <1>10 DEF Queued
<1>12. Base(t)
  BY <1>6, <1>11, BaseOfLoop
<1> QED
  BY <1>4, <1>5, <1>6, <1>12 DEF t, q, e

-----------------------------------------------------------------------------
(* The destructors of the nodes below i. *)
LEMMA DestroyedFields ==
  ASSUME Shape, NEW s, Base(s), NEW i \in Nat, 1 <= i, i <= Top + 1
  PROVE  LET t == Destroyed(s, i) IN
         /\ t \in States
         /\ t.alive = s.alive \ 1..(i - 1)
         /\ \A k \in Node : t.store[k] = IF k < i THEN << >> ELSE s.store[k]
         /\ \A k \in Node : t.child[k] <=> s.child[k] /\ k > i
         /\ \A k \in Node : t.child_storage[k] <=> s.child_storage[k] /\ k > i
         /\ t.conveyor_sink = s.conveyor_sink /\ t.delete_nodes = s.delete_nodes
         /\ t.out = s.out /\ t.aborted = s.aborted
         /\ t.cut <=> s.cut \/ s.loop.laterInsert \in 1..(i - 1)
         /\ QueueInv(t.loop, Dead(t))
         /\ t.loop.laterInsert = s.loop.laterInsert
         /\ \A f \in Event : IsArmed(t.loop, f) <=> IsArmed(s.loop, f) /\ f \notin 1..(i - 1)
<1> DEFINE below == 1..(i - 1)
           seq == [k \in below |-> k]
           q == FoldLeft(DoDisarm, s.loop, seq)
           t == Destroyed(s, i)
<1>1. s \in States /\ s.alive \in SUBSET (1..Top) /\ Queued(s) /\ Top \in Nat
  BY DEF Base, Chained, Shape
<1>2. Dead(s) \in SUBSET Event /\ 1..Top \subseteq Node
  BY <1>1, NodeIsEvent
<1>3. below \subseteq 1..Top
  BY <1>1
<1>4. /\ QueueInv(q, Dead(s) \cup below)
      /\ \A f \in Event : IsArmed(q, f) <=> IsArmed(s.loop, f) /\ f \notin below
      /\ q.laterInsert = s.loop.laterInsert
  <2> DEFINE m == i - 1
             dead == Dead(s)
             l == s.loop
  <2>1. m \in Nat /\ DOMAIN seq = 1..m
    OBVIOUS
  <2>2. \A k \in 1..m : seq[k] \in Event
    BY <1>2, <1>3, EventAssumption
  <2>3. {seq[k] : k \in 1..m} = below
    OBVIOUS
  <2>4. QueueInv(l, dead) /\ dead \in SUBSET Event
    BY <1>1, <1>2 DEF Queued
  <2> HIDE DEF seq, below, m, dead, l
  <2>5. LET r == FoldLeft(DoDisarm, l, seq)
            gone == {seq[k] : k \in 1..m} IN
        /\ QueueInv(r, dead \cup gone)
        /\ \A f \in Event : IsArmed(r, f) <=> IsArmed(l, f) /\ f \notin gone
        /\ r.laterInsert = l.laterInsert
    BY <2>1, <2>2, <2>4, DisarmAllInv
  <2> QED
    BY <2>3, <2>5 DEF dead, l
<1>5. /\ s.store \in [Node -> Seq(Elements)]
      /\ s.child \in [Node -> BOOLEAN] /\ s.child_storage \in [Node -> BOOLEAN]
      /\ s.alive \in SUBSET Node /\ s.cut \in BOOLEAN
  BY <1>1, StateFields
<1> DEFINE st == [k \in Node |-> IF k \in below THEN << >> ELSE s.store[k]]
           ch == [k \in Node |-> s.child[k] /\ k > i]
           cs == [k \in Node |-> s.child_storage[k] /\ k > i]
           al == s.alive \ below
           cu == s.cut \/ s.loop.laterInsert \in below
<1>6. t = [s EXCEPT !.loop = q, !.cut = cu, !.alive = al, !.store = st, !.child = ch,
                    !.child_storage = cs]
  BY DEF Destroyed
<1>7. /\ st \in [Node -> Seq(Elements)] /\ ch \in [Node -> BOOLEAN] /\ cs \in [Node -> BOOLEAN]
      /\ al \in SUBSET Node /\ cu \in BOOLEAN /\ q \in Queues
  BY <1>4, <1>5 DEF QueueInv
<1>8. /\ \A k \in Node : st[k] = IF k < i THEN << >> ELSE s.store[k]
      /\ \A k \in Node : ch[k] <=> s.child[k] /\ k > i
      /\ \A k \in Node : cs[k] <=> s.child_storage[k] /\ k > i
  <2>1. \A k \in Node : k \in below <=> k < i
    BY ChainAssumption DEF Node
  <2>2. \A k \in Node : st[k] = IF k < i THEN << >> ELSE s.store[k]
    BY <2>1
  <2>3. \A k \in Node : ch[k] <=> s.child[k] /\ k > i
    BY Zenon
  <2>4. \A k \in Node : cs[k] <=> s.child_storage[k] /\ k > i
    BY Zenon
  <2> QED
    BY <2>2, <2>3, <2>4
<1> HIDE DEF q, cu, al, st, ch, cs, t
<1>9. /\ t \in States /\ t.loop = q /\ t.cut = cu /\ t.alive = al /\ t.store = st
      /\ t.child = ch /\ t.child_storage = cs
      /\ t.conveyor_sink = s.conveyor_sink /\ t.delete_nodes = s.delete_nodes
      /\ t.out = s.out /\ t.aborted = s.aborted
  BY <1>1, <1>6, <1>7 DEF States
<1>10. Dead(t) = Dead(s) \cup below
  BY <1>3, <1>9 DEF Dead, al
<1> QED
  BY <1>4, <1>8, <1>9, <1>10 DEF t, al, cu

(* The contents of a state are sequences. *)
LEMMA ContentsTypes ==
  ASSUME Shape, NEW s \in States
  PROVE  /\ HasLengths(Contents(s))
         /\ \A j \in Nat : Contents(s)[j] \in Seq(Elements)
         /\ \A j \in 1..Top : Contents(s)[j] = s.store[j]
         /\ Contents(s)[Top + 1] = s.out
         /\ \A j \in Nat : j = 0 \/ j > Top + 1 => Contents(s)[j] = << >>
         /\ Top \in Nat /\ 1..Top \subseteq Node
<1>1. Top \in Nat /\ 1..Top \subseteq Node
  BY ChainAssumption DEF Shape, Node
<1>2. s.store \in [Node -> Seq(Elements)] /\ s.out \in Seq(Elements)
  BY StateFields
<1>3. << >> \in Seq(Elements)
  BY EmptySeq
<1> HIDE DEF Top, Shape
<1>4. /\ \A j \in 1..Top : Contents(s)[j] = s.store[j]
      /\ Contents(s)[Top + 1] = s.out
      /\ \A j \in Nat : j = 0 \/ j > Top + 1 => Contents(s)[j] = << >>
  BY <1>1 DEF Contents
<1>5. ASSUME NEW j \in Nat PROVE Contents(s)[j] \in Seq(Elements)
  <2>1. j \in 1..Top \/ j = Top + 1 \/ j = 0 \/ j > Top + 1
    BY <1>1
  <2> QED
    BY <2>1, <1>1, <1>2, <1>3, <1>4
<1>6. HasLengths(Contents(s))
  BY <1>5, LenProperties DEF HasLengths
<1> QED
  BY <1>1, <1>4, <1>5, <1>6

(* Destroying the nodes below i keeps Base if the owner lets go of the     *)
(* whole chain or a critical error is already at i or above it.            *)
LEMMA DestroyedBase ==
  ASSUME Shape, fed \in Nat, NEW s, Base(s), NEW i \in Nat, 2 <= i, i <= Top + 1,
         i = Top + 1 \/ EndsAbove(Contents(s), i - 1, Top)
  PROVE  Base(Destroyed(s, i))
<1> DEFINE t == Destroyed(s, i)
           c == Contents(s)
           d == Contents(t)
<1>1. s \in States /\ Chained(s) /\ Numbered(s) /\ GivesTwo(s) /\ Queued(s) /\ TornBehind(s) /\ ~s.aborted
  BY DEF Base
<1>2. /\ t \in States
      /\ t.alive = s.alive \ 1..(i - 1)
      /\ \A k \in Node : t.store[k] = IF k < i THEN << >> ELSE s.store[k]
      /\ \A k \in Node : t.child[k] <=> s.child[k] /\ k > i
      /\ \A k \in Node : t.child_storage[k] <=> s.child_storage[k] /\ k > i
      /\ t.out = s.out /\ t.aborted = s.aborted
      /\ t.cut <=> s.cut \/ s.loop.laterInsert \in 1..(i - 1)
      /\ QueueInv(t.loop, Dead(t))
      /\ t.loop.laterInsert = s.loop.laterInsert
      /\ \A f \in Event : IsArmed(t.loop, f) <=> IsArmed(s.loop, f) /\ f \notin 1..(i - 1)
  BY DestroyedFields
<1> HIDE DEF t
<1>3. Top \in Nat /\ 1 <= Top /\ Top <= MaxNodes /\ MaxNodes \in Nat
  BY ChainAssumption DEF Shape
<1>4. Chained(t)
  <2>1. t.alive \in SUBSET (1..Top)
    BY <1>1, <1>2 DEF Chained
  <2>2. \A m \in t.alive : \A j \in 1..Top : m <= j => j \in t.alive
    BY <1>1, <1>2, <1>3 DEF Chained
  <2>3. ASSUME NEW k \in Node PROVE t.child[k] <=> 2 <= k /\ k <= Top /\ k - 1 \in t.alive
    <3>1. k \in Nat
      BY <1>3 DEF Node
    <3>2. s.child[k] <=> 2 <= k /\ k <= Top /\ k - 1 \in s.alive
      BY <1>1 DEF Chained
    <3>3. k >= 2 => (k > i <=> k - 1 \notin 1..(i - 1))
      BY <3>1
    <3>4. k - 1 \in t.alive <=> k - 1 \in s.alive /\ k - 1 \notin 1..(i - 1)
      BY <1>2
    <3>5. t.child[k] => k >= 2
      BY <3>1, <3>2, <1>2
    <3>6. t.child[k] <=> s.child[k] /\ k > i
      BY <1>2
    <3> QED
      BY <3>1, <3>2, <3>3, <3>4, <3>5, <3>6
  <2>4. ASSUME NEW k \in Node, t.child_storage[k] PROVE t.child[k] /\ ~Critical(t.store[k])
    <3>1. s.child_storage[k] /\ k > i
      BY <2>4, <1>2
    <3>2. s.child[k] /\ ~Critical(s.store[k])
      BY <3>1, <1>1 DEF Chained
    <3>3. ~(k < i)
      BY <3>1, <1>3 DEF Node
    <3> QED
      BY <3>1, <3>2, <3>3, <1>2
  <2>5. ASSUME NEW k \in Node, k \notin t.alive PROVE t.store[k] = << >>
    <3>1. k \notin s.alive \/ k < i
      BY <2>5, <1>2, <1>3 DEF Node
    <3> QED
      BY <3>1, <1>1, <1>2 DEF Chained
  <2>6. ASSUME NEW k \in t.alive PROVE k \in s.alive /\ t.store[k] = s.store[k]
    <3>1. k \in s.alive /\ k \in Node /\ ~(k < i)
      BY <1>1, <1>2, <1>3 DEF Chained, Node
    <3> QED
      BY <3>1, <1>2
  <2>7. /\ \A k \in t.alive : IsSink(k) => t.store[k] = << >>
        /\ \A k \in t.alive : nodes[k].kind = "buffer" => Len(t.store[k]) <= nodes[k].limit
    BY <2>6, <1>1 DEF Chained
  <2> QED
    BY <2>1, <2>2, <2>3, <2>4, <2>5, <2>7 DEF Chained
<1>5. /\ \A j \in Nat : j < i => d[j] = << >>
      /\ \A j \in Nat : j >= i => d[j] = c[j]
  <2> SUFFICES ASSUME NEW j \in Nat PROVE (j < i => d[j] = << >>) /\ (j >= i => d[j] = c[j])
    OBVIOUS
  <2>1. CASE j \in 1..Top
    <3>1. d[j] = t.store[j] /\ c[j] = s.store[j] /\ j \in Node
      BY <2>1, <1>1, <1>2, ContentsTypes
    <3> QED
      BY <3>1, <1>2
  <2>2. CASE j = Top + 1
    <3>1. d[j] = c[j] /\ ~(j < i)
      BY <2>2, <1>1, <1>2, <1>3, ContentsTypes
    <3> QED
      BY <3>1
  <2>3. CASE j = 0 \/ j > Top + 1
    <3>1. d[j] = << >> /\ c[j] = << >>
      BY <2>3, <1>1, <1>2, ContentsTypes
    <3> QED
      BY <3>1
  <2> QED
    BY <2>1, <2>2, <2>3, <1>3
<1>6. Numbered(t)
  <2>1. HasLengths(c)
    BY <1>1, ContentsTypes
  <2>2. 1 \notin t.alive
    BY <1>2
  <2>3. \A j \in Nat : j < i => Len(d[j]) = 0
    BY <1>5
  <2>4. Counted(c, Top, fed, s.alive)
    BY <1>1 DEF Numbered
  <2> DEFINE n == Top
             f == fed
             al == s.alive
             later == t.alive
  <2>5. n \in Nat /\ f \in Nat /\ 1 \notin later /\ Counted(c, n, f, al) /\ 1 <= i /\ i <= n + 1
    BY <2>2, <2>4, <1>3
  <2>6. \A j \in Nat : j >= i => d[j] = c[j]
    BY <1>5
  <2> HIDE DEF c, d, n, f, al, later
  <2>7. Counted(d, n, f, later)
    BY <2>1, <2>3, <2>5, <2>6, CountedCut
  <2> QED
    BY <2>7 DEF Numbered, d, n, f, later
<1>7. GivesTwo(t)
  <2>1. ASSUME Exhausted(c) PROVE Exhausted(d)
    <3> SUFFICES ASSUME NEW j \in Nat, NEW k \in 1..Len(d[j]), d[j][k].id = 2
                 PROVE  d[j][k].kind = "critical"
      BY DEF Exhausted
    <3>1. j >= i
      BY <1>5
    <3>2. d[j] = c[j]
      BY <3>1, <1>5
    <3> HIDE DEF c, d
    <3> QED
      BY <2>1, <3>2 DEF Exhausted
  <2> QED
    BY <2>1, <1>1 DEF GivesTwo
<1>8. Queued(t)
  <2>1. ~t.cut => t.loop.laterInsert \notin Dead(t)
    BY <1>1, <1>2 DEF Queued, Dead
  <2>2. \A e \in Event : IsArmed(t.loop, e) => e \in t.alive \cup {Daemon}
    BY <1>1, <1>2 DEF Queued
  <2>3. ASSUME NEW m \in t.alive, IsArmed(t.loop, m)
        PROVE  IF IsSink(m) THEN Critical(t.out) ELSE m < MaxNodes => t.store[m] # << >>
    <3>1. m \in s.alive /\ m \in Node /\ ~(m < i) /\ m \in Event
      BY <1>1, <1>2, <1>3, EventAssumption DEF Chained, Node
    <3>2. IsArmed(s.loop, m) /\ t.store[m] = s.store[m]
      BY <2>3, <3>1, <1>2
    <3> QED
      BY <3>1, <3>2, <1>1, <1>2 DEF Queued
  <2> QED
    BY <2>1, <2>2, <2>3, <1>2 DEF Queued
<1>9. TornBehind(t)
  <2> SUFFICES ASSUME NEW m \in 1..Top, m \notin t.alive, Top \in t.alive
               PROVE  EndsAbove(d, m, Top)
    BY DEF TornBehind
  <2>1. i <= Top /\ Top \in s.alive
    BY <1>2, <1>3
  <2>2. PICK h \in Nat : i - 1 < h /\ h <= Top + 1 /\ Critical(c[h])
    BY <2>1, <1>3 DEF EndsAbove
  <2>3. d[h] = c[h]
    BY <2>2, <1>5
  <2> HIDE DEF c, d
  <2>4. CASE m < i
    <3>1. m < h
      BY <2>2, <2>4, <1>3
    <3> QED
      BY <3>1, <2>2, <2>3 DEF EndsAbove
  <2>5. CASE m >= i
    <3>1. m \notin s.alive
      BY <2>5, <1>2, <1>3
    <3>2. EndsAbove(c, m, Top)
      BY <2>1, <3>1, <1>1 DEF TornBehind, c
    <3>3. PICK j \in Nat : m < j /\ j <= Top + 1 /\ Critical(c[j])
      BY <3>2 DEF EndsAbove
    <3>4. d[j] = c[j]
      BY <2>5, <3>3, <1>3, <1>5
    <3> QED
      BY <3>3, <3>4 DEF EndsAbove
  <2> QED
    BY <2>4, <2>5, <1>3
<1> QED
  BY <1>1, <1>2, <1>4, <1>6, <1>7, <1>8, <1>9 DEF Base, t

-----------------------------------------------------------------------------
(* One element leaves node a and reaches b, a buffer with space or the     *)
(* place above the top; the loop is as before.                             *)
MovesUp(s, t, a, b, x) ==
    /\ GoesUp(Contents(s), Contents(t), a, b, x)
    /\ Contents(s)[a][1].kind = "critical" => x.kind = "critical"
    /\ a \in s.alive /\ b \in Nat /\ b <= Top + 1
    /\ ~IsArmed(s.loop, a) \/ a = MaxNodes
    /\ b <= Top => nodes[b].kind = "buffer" /\ Len(s.store[b]) < nodes[b].limit
    /\ t.loop = s.loop /\ t.alive = s.alive /\ t.child = s.child
    /\ t.cut = s.cut /\ t.aborted = s.aborted
    /\ \A k \in Node : k # a /\ (k # b \/ k > Top) => t.store[k] = s.store[k]
    /\ \A k \in Node : t.child_storage[k] =>
          s.child_storage[k] /\ (k = b => x.kind # "critical")

(* An element that moves up keeps Base. *)
LEMMA MoveBase ==
  ASSUME Shape, fed \in Nat, NEW s, Base(s), NEW t \in States, NEW a, NEW b, NEW x,
         MovesUp(s, t, a, b, x)
  PROVE  Base(t)
<1> DEFINE c == Contents(s)
           d == Contents(t)
<1>1. s \in States /\ Chained(s) /\ Numbered(s) /\ GivesTwo(s) /\ Queued(s) /\ TornBehind(s) /\ ~s.aborted
  BY DEF Base
<1>2. /\ GoesUp(c, d, a, b, x) /\ (c[a][1].kind = "critical" => x.kind = "critical")
      /\ a \in s.alive /\ b \in Nat /\ b <= Top + 1
      /\ ~IsArmed(s.loop, a) \/ a = MaxNodes
      /\ b <= Top => nodes[b].kind = "buffer" /\ Len(s.store[b]) < nodes[b].limit
  BY DEF MovesUp
<1>3. /\ t.loop = s.loop /\ t.alive = s.alive /\ t.child = s.child
      /\ t.cut = s.cut /\ t.aborted = s.aborted
      /\ \A k \in Node : k # a /\ (k # b \/ k > Top) => t.store[k] = s.store[k]
      /\ \A k \in Node : t.child_storage[k] =>
            s.child_storage[k] /\ (k = b => x.kind # "critical")
  BY DEF MovesUp
<1>4. Top \in Nat /\ 1 <= Top /\ Top <= MaxNodes /\ MaxNodes \in Nat
  BY ChainAssumption DEF Shape
<1>5. a \in Nat /\ 1 <= a /\ a <= Top /\ a < b /\ a \in Node
  BY <1>1, <1>2, <1>4 DEF Chained, GoesUp, Node
<1>6. HasLengths(c) /\ HasLengths(d) /\ c[a] = s.store[a] /\ d[a] = t.store[a]
      /\ c[Top + 1] = s.out /\ d[Top + 1] = t.out
      /\ (b <= Top => c[b] = s.store[b] /\ d[b] = t.store[b])
  <2>1. a \in 1..Top /\ (b <= Top => b \in 1..Top)
    BY <1>2, <1>4, <1>5
  <2> QED
    BY <2>1, <1>1, ContentsTypes
<1>7. /\ Len(d[a]) = Len(c[a]) - 1 /\ Len(c[a]) \in Nat /\ Len(c[a]) > 0
      /\ \A k \in 1..(Len(c[a]) - 1) : d[a][k] = c[a][k + 1]
  BY <1>2, <1>5, <1>6 DEF GoesUp, Shorter, HasLengths
<1>8. /\ Len(d[b]) = Len(c[b]) + 1 /\ Len(c[b]) \in Nat
      /\ \A k \in 1..Len(c[b]) : d[b][k] = c[b][k]
      /\ d[b][Len(c[b]) + 1] = x
  BY <1>2, <1>5, <1>6 DEF GoesUp, Longer, HasLengths
<1>9. \A j \in Nat : j # a /\ j # b => d[j] = c[j]
  BY <1>2 DEF GoesUp
<1> HIDE DEF c, d
<1>10. Critical(d[a]) => Critical(c[a])
  <2> SUFFICES ASSUME NEW k \in 1..Len(d[a]), d[a][k].kind = "critical" PROVE Critical(c[a])
    BY DEF Critical
  <2>1. k \in 1..(Len(c[a]) - 1) /\ k + 1 \in 1..Len(c[a])
    BY <1>7
  <2>2. d[a][k] = c[a][k + 1]
    BY <2>1, <1>7
  <2> QED
    BY <2>1, <2>2 DEF Critical
<1>11. Critical(d[b]) => Critical(c[b]) \/ x.kind = "critical"
  <2> SUFFICES ASSUME NEW k \in 1..Len(d[b]), d[b][k].kind = "critical", x.kind # "critical"
               PROVE  Critical(c[b])
    BY DEF Critical
  <2>1. k \in 1..Len(c[b])
    BY <1>8
  <2> QED
    BY <2>1, <1>8 DEF Critical
<1>12. Chained(t)
  <2>1. ASSUME NEW k \in Node, t.child_storage[k] PROVE t.child[k] /\ ~Critical(t.store[k])
    <3>1. s.child_storage[k] /\ (k = b => x.kind # "critical")
      BY <2>1, <1>3
    <3>2. s.child[k] /\ ~Critical(s.store[k])
      BY <3>1, <1>1 DEF Chained
    <3>3. CASE k = a
      BY <3>2, <3>3, <1>3, <1>6, <1>10
    <3>4. CASE k = b
      <4>1. k <= Top
        BY <3>2, <1>1 DEF Chained
      <4> QED
        BY <3>1, <3>2, <3>4, <4>1, <1>3, <1>6, <1>11
    <3>5. CASE k # a /\ k # b
      BY <3>2, <3>5, <1>3
    <3> QED
      BY <3>3, <3>4, <3>5
  <2>2. ASSUME NEW k \in Node, k \notin t.alive PROVE t.store[k] = << >>
    <3>1. k # a /\ k \notin s.alive
      BY <2>2, <1>2, <1>3
    <3>2. k # b \/ k > Top
      <4>1. SUFFICES ASSUME k = b, k <= Top PROVE FALSE
        BY <1>4 DEF Node
      <4>2. b \in 1..Top /\ a <= b
        BY <4>1, <1>2, <1>5
      <4> QED
        BY <3>1, <4>1, <4>2, <1>1, <1>2 DEF Chained
    <3> QED
      BY <3>1, <3>2, <1>1, <1>3 DEF Chained
  <2>3. ASSUME NEW k \in t.alive, IsSink(k) PROVE t.store[k] = << >>
    <3>1. k \in s.alive /\ s.store[k] = << >> /\ k \in Node
      BY <2>3, <1>1, <1>3, StateFields DEF Chained
    <3>2. k # a
      <4>1. c[a] # << >>
        BY <1>7
      <4> QED
        BY <3>1, <4>1, <1>6
    <3>3. k # b
      <4>1. k <= Top
        BY <3>1, <1>1 DEF Chained
      <4> QED
        BY <4>1, <2>3, <1>2 DEF IsSink
    <3> QED
      BY <3>1, <3>2, <3>3, <1>3
  <2>4. ASSUME NEW k \in t.alive, nodes[k].kind = "buffer" PROVE Len(t.store[k]) <= nodes[k].limit
    <3>1. k \in s.alive /\ Len(s.store[k]) <= nodes[k].limit /\ k \in Node /\ k <= Top
          /\ nodes[k].limit \in Nat
      <4>1. k \in s.alive /\ k \in 1..Top /\ k \in Node
        BY <1>1, <1>3, StateFields DEF Chained
      <4>2. nodes[k] \in [kind : {"adapt", "immediate", "buffer", "sink", "detached"}, limit : Nat]
        BY <4>1, ElementOfSeq DEF Shape, Top
      <4> QED
        BY <2>4, <4>1, <4>2, <1>1 DEF Chained
    <3>2. CASE k = a
      BY <3>1, <3>2, <1>6, <1>7
    <3>3. CASE k = b
      BY <3>1, <3>3, <1>2, <1>6, <1>8
    <3>4. CASE k # a /\ k # b
      BY <3>1, <3>4, <1>3
    <3> QED
      BY <3>2, <3>3, <3>4
  <2>5. /\ t.alive \in SUBSET (1..Top)
        /\ \A i \in t.alive : \A j \in 1..Top : i <= j => j \in t.alive
        /\ \A k \in Node : t.child[k] <=> 2 <= k /\ k <= Top /\ k - 1 \in t.alive
    BY <1>1, <1>3 DEF Chained
  <2> QED
    BY <2>1, <2>2, <2>3, <2>4, <2>5 DEF Chained
<1>13. Numbered(t)
  <2> DEFINE n == Top
             f == fed
             al == s.alive
  <2>1. n \in Nat /\ f \in Nat /\ Counted(c, n, f, al) /\ a \in Nat /\ a >= 1 /\ b \in Nat /\ b <= n + 1
    BY <1>1, <1>2, <1>4, <1>5 DEF Numbered, c
  <2> HIDE DEF n, f, al
  <2>2. Counted(d, n, f, al)
    BY <2>1, <1>2, <1>6, CountedGoesUp
  <2> QED
    BY <2>2, <1>3 DEF Numbered, d, n, f, al
<1>14. GivesTwo(t)
  <2>1. ASSUME Exhausted(c) PROVE Exhausted(d)
    <3> SUFFICES ASSUME NEW j \in Nat, NEW k \in 1..Len(d[j]), d[j][k].id = 2
                 PROVE  d[j][k].kind = "critical"
      BY DEF Exhausted
    <3>1. CASE j = a
      <4>1. k \in 1..(Len(c[a]) - 1) /\ k + 1 \in 1..Len(c[a])
        BY <3>1, <1>7
      <4>2. d[a][k] = c[a][k + 1]
        BY <4>1, <1>7
      <4> QED
        BY <2>1, <3>1, <4>1, <4>2, <1>5 DEF Exhausted
    <3>2. CASE j = b /\ k = Len(c[b]) + 1
      <4>1. x.id = c[a][1].id /\ 1 \in 1..Len(c[a]) /\ d[j][k] = x
        BY <3>2, <1>2, <1>7, <1>8 DEF GoesUp
      <4> QED
        BY <2>1, <4>1, <1>2, <1>5 DEF Exhausted
    <3>3. CASE j = b /\ k # Len(c[b]) + 1
      <4>1. k \in 1..Len(c[b])
        BY <3>3, <1>8
      <4> QED
        BY <2>1, <3>3, <4>1, <1>8 DEF Exhausted
    <3>4. CASE j # a /\ j # b
      <4>1. d[j] = c[j]
        BY <3>4, <1>9
      <4> QED
        BY <2>1, <4>1 DEF Exhausted
    <3> QED
      BY <3>1, <3>2, <3>3, <3>4
  <2> QED
    BY <2>1, <1>1 DEF GivesTwo, c, d
<1>15. ASSUME NEW j \in Nat, Critical(c[j])
       PROVE  Critical(d[j]) \/ (j = a /\ Critical(d[b]))
  BY <1>2, <1>5, <1>6, <1>15, CriticalGoesUp
<1>16. Queued(t)
  <2>1. Dead(t) = Dead(s)
    BY <1>3 DEF Dead
  <2>2. ASSUME NEW i \in t.alive, IsArmed(t.loop, i)
        PROVE  IF IsSink(i) THEN Critical(t.out) ELSE i < MaxNodes => t.store[i] # << >>
    <3>1. i \in s.alive /\ IsArmed(s.loop, i) /\ i \in Node /\ i <= Top
      BY <2>2, <1>1, <1>3, StateFields DEF Chained
    <3>2. CASE IsSink(i)
      <4>1. Critical(c[Top + 1]) /\ Top + 1 # a /\ Top + 1 \in Nat
        BY <3>1, <3>2, <1>1, <1>4, <1>5, <1>6 DEF Queued
      <4> QED
        BY <3>2, <4>1, <1>6, <1>15
    <3>3. CASE ~IsSink(i) /\ i < MaxNodes
      <4>1. s.store[i] # << >> /\ i # a
        BY <3>1, <3>3, <1>1, <1>2, <1>4 DEF Queued
      <4>2. CASE i = b
        <5>1. d[b] # << >>
          BY <1>8
        <5>2. b <= Top
          BY <3>1, <4>2
        <5> QED
          BY <3>3, <4>2, <5>1, <5>2, <1>6
      <4>3. CASE i # b
        BY <3>1, <3>3, <4>1, <4>3, <1>3
      <4> QED
        BY <3>3, <4>2, <4>3
    <3> QED
      BY <3>2, <3>3
  <2> QED
    BY <2>1, <2>2, <1>1, <1>3 DEF Queued
<1>17. TornBehind(t)
  <2> SUFFICES ASSUME NEW m \in 1..Top, m \notin t.alive, Top \in t.alive
               PROVE  EndsAbove(d, m, Top)
    BY DEF TornBehind, d
  <2>1. EndsAbove(c, m, Top)
    BY <1>1, <1>3 DEF TornBehind, c
  <2>2. PICK j \in Nat : m < j /\ j <= Top + 1 /\ Critical(c[j])
    BY <2>1 DEF EndsAbove
  <2>3. CASE Critical(d[j])
    BY <2>2, <2>3 DEF EndsAbove
  <2>4. CASE j = a /\ Critical(d[b])
    <3>1. m < b
      BY <2>2, <2>4, <1>2, <1>4, <1>5
    <3> QED
      BY <2>4, <3>1, <1>2 DEF EndsAbove
  <2> QED
    BY <2>2, <2>3, <2>4, <1>15
<1> QED
  BY <1>1, <1>3, <1>12, <1>13, <1>14, <1>16, <1>17 DEF Base

-----------------------------------------------------------------------------
(* then() keeps the number of an element, and an error. *)
LEMMA Converted ==
  ASSUME NEW h \in Elements
  PROVE  /\ getImpl(h) \in Elements /\ getImpl(h).id = h.id
         /\ h.kind = "critical" => getImpl(h).kind = "critical"
BY DEF getImpl, Elements

(* What the others see of a node i whose parent took an element of it. *)
Taken(s, t, i) ==
    /\ t.alive = s.alive /\ t.child = s.child
    /\ \A k \in Node : k # i /\ k # i + 1 => t.store[k] = s.store[k]
    /\ Len(t.store[i]) = Len(s.store[i]) - 1
    /\ Critical(s.store[i]) => Critical(t.store[i]) \/ isCritical(Head(s.store[i]))
    /\ IF IsSink(i + 1) THEN t.store[i + 1] = s.store[i + 1]
       ELSE t.out = s.out /\ Len(t.store[i + 1]) = Len(s.store[i + 1]) + 1
    /\ Critical(s.store[i + 1]) => Critical(t.store[i + 1])
    /\ \A k \in Node : ~t.child_storage[k] => ~s.child_storage[k] \/ Critical(t.store[k])
    /\ \A f \in Event : IsArmed(s.loop, f) => IsArmed(t.loop, f)
    /\ \A f \in Event : IsArmed(t.loop, f) => IsArmed(s.loop, f) \/ f = i + 1
    /\ ~IsSink(i + 1) => IsArmed(t.loop, i + 1)

(* Node i fires, and may give an element to its parent. *)
MayGive(s, i) == /\ i \in s.alive /\ i < Top /\ s.store[i] # << >>
                 /\ ~IsArmed(s.loop, i)

(* A node that is alive, and its parent: both are nodes of the chain, and  *)
(* the parent knows its child.                                             *)
LEMMA GiverFacts ==
  ASSUME Shape, NEW s, Base(s), NEW i \in s.alive
  PROVE  /\ s \in States /\ i \in Nat /\ 1 <= i /\ i <= Top /\ i \in Node /\ i \in Event
         /\ Top \in Nat /\ Top <= MaxNodes /\ MaxNodes \in Nat
         /\ s.store \in [Node -> Seq(Elements)]
         /\ i < Top => /\ i + 1 \in Node /\ i + 1 \in s.alive /\ i + 1 \in Event /\ s.child[i + 1]
                       /\ i + 1 \in Nat /\ i + 1 - 1 = i /\ i < MaxNodes
                       /\ ~IsSink(i)
                       /\ ~IsSink(i + 1) => nodes[i + 1].kind = "buffer" /\ nodes[i + 1].limit \in Nat
<1>1. s \in States /\ Chained(s) /\ Top \in Nat /\ 1 <= Top /\ Top <= MaxNodes /\ MaxNodes \in Nat
  BY ChainAssumption DEF Base, Shape
<1>2. i \in 1..Top /\ i \in Nat /\ 1 <= i /\ i <= Top /\ i \in Node
  BY <1>1 DEF Chained, Node
<1>3. s.store \in [Node -> Seq(Elements)]
  BY <1>1, StateFields
<1>4. \A k \in 1..Top : k \in Event /\ k \in Node
  BY <1>1, EventAssumption DEF Node
<1>5. ASSUME i < Top
      PROVE  /\ i + 1 \in Node /\ i + 1 \in s.alive /\ i + 1 \in Event /\ s.child[i + 1]
             /\ i + 1 \in Nat /\ i + 1 - 1 = i /\ i < MaxNodes /\ ~IsSink(i)
             /\ ~IsSink(i + 1) => nodes[i + 1].kind = "buffer" /\ nodes[i + 1].limit \in Nat
  <2> DEFINE j == i + 1
  <2>1. j \in Nat /\ j \in 1..Top /\ j \in 2..Top /\ 2 <= j /\ j <= Top /\ i <= j /\ j - 1 = i /\ i < MaxNodes
    BY <1>1, <1>2, <1>5
  <2> HIDE DEF j
  <2>2. j \in s.alive /\ j \in Node /\ j \in Event
    BY <2>1, <1>1, <1>4 DEF Chained
  <2>3. s.child[j]
    BY <2>1, <2>2, <1>1 DEF Chained
  <2>4. ~IsSink(i)
    BY <1>1, <1>2, <1>5 DEF Shape
  <2>5. nodes[j] \in [kind : {"adapt", "immediate", "buffer", "sink", "detached"}, limit : Nat]
    BY <2>1, ElementOfSeq DEF Shape, Top
  <2>6. ~IsSink(j) => nodes[j].kind = "buffer" /\ nodes[j].limit \in Nat
    BY <2>1, <2>5 DEF Shape, IsSink
  <2> QED
    BY <2>1, <2>2, <2>3, <2>4, <2>6 DEF j
<1> QED
  BY <1>1, <1>2, <1>3, <1>4, <1>5

(* A buffer with space takes the element its child fired with. *)
LEMMA BufferTakes ==
  ASSUME Shape, fed \in Nat, NEW s, Base(s), NEW i, MayGive(s, i),
         ~IsSink(i + 1), space(s, i + 1) > 0
  PROVE  LET t == BufferChildHasFired(s, i + 1) IN Base(t) /\ Taken(s, t, i)
<1> DEFINE j == i + 1
           y == s.store[i]
           z == s.store[j]
           x == getImpl(Head(y))
           y2 == Tail(y)
           z2 == Append(z, x)
           st == [[s.store EXCEPT ![i] = y2] EXCEPT ![j] = z2]
           cs == [s.child_storage EXCEPT ![j] = s.child_storage[j] /\ ~isCritical(x)]
           u == [s EXCEPT !.store = st, !.child_storage = cs]
           t == [u EXCEPT !.loop = DoArmLater(u.loop, j)]
<1>1. /\ i \in s.alive /\ i < Top /\ y # << >> /\ ~IsArmed(s.loop, i)
  BY DEF MayGive
<1>2. /\ s \in States /\ i \in Nat /\ 1 <= i /\ i <= Top /\ i \in Node
      /\ Top \in Nat /\ Top <= MaxNodes /\ MaxNodes \in Nat
      /\ s.store \in [Node -> Seq(Elements)]
      /\ j \in Node /\ j \in s.alive /\ j \in Event /\ s.child[j]
      /\ j \in Nat /\ j - 1 = i /\ i < MaxNodes
      /\ nodes[j].kind = "buffer" /\ nodes[j].limit \in Nat
  BY <1>1, GiverFacts
<1>3. /\ y \in Seq(Elements) /\ z \in Seq(Elements)
      /\ s.child_storage \in [Node -> BOOLEAN] /\ s.loop \in Queues
  BY <1>2, StateFields
<1>4. Head(y) = y[1] /\ Head(y) \in Elements /\ y2 \in Seq(Elements) /\ Shorter(y2, y) /\ Len(y) \in Nat /\ Len(y) >= 1
  BY <1>1, <1>3, FrontGone DEF Shorter
<1>5. x \in Elements /\ x.id = y[1].id /\ (y[1].kind = "critical" => x.kind = "critical")
  BY <1>4, Converted
<1>6. z2 \in Seq(Elements) /\ Longer(z2, z, x) /\ Len(z) \in Nat
  <2> HIDE DEF x, z
  <2> QED
    BY <1>3, <1>5, BackGrown DEF Longer
<1>7. Len(z) < nodes[j].limit
  BY <1>2, <1>6 DEF space
<1>8. BufferChildHasFired(s, i + 1) = t
  <2>1. s.child[j] /\ space(s, j) > 0 /\ getResult(s, j - 1) = x
    BY <1>1, <1>2 DEF getResult
  <2>2. Popped(s, j - 1) = [s EXCEPT !.store[i] = y2]
    BY <1>1, <1>2 DEF Popped
  <2> DEFINE w == [s EXCEPT !.store[i] = y2]
  <2>3. BufferChildHasFired(s, j) = [w EXCEPT !.store[j] = Append(@, x),
                                              !.child_storage[j] = @ /\ ~isCritical(x),
                                              !.loop = DoArmLater(@, j)]
    BY <2>1, <2>2 DEF BufferChildHasFired
  <2> DEFINE w0 == [s.store EXCEPT ![i] = y2]
             q == DoArmLater(s.loop, j)
  <2> HIDE DEF x, y2
  <2>4. w.store = w0 /\ w.child_storage = s.child_storage /\ w.loop = s.loop /\ w = [s EXCEPT !.store = w0]
    BY <1>2 DEF States
  <2>5. w0[j] = z /\ j # i
    BY <1>2
  <2>6. [w EXCEPT !.store[j] = Append(@, x), !.child_storage[j] = @ /\ ~isCritical(x),
                  !.loop = DoArmLater(@, j)]
        = [w EXCEPT !.store = [w.store EXCEPT ![j] = Append(w.store[j], x)],
                    !.child_storage = [w.child_storage EXCEPT ![j] = w.child_storage[j] /\ ~isCritical(x)],
                    !.loop = DoArmLater(w.loop, j)]
    OBVIOUS
  <2> HIDE DEF w, w0
  <2>7. [w.store EXCEPT ![j] = Append(w.store[j], x)] = [w0 EXCEPT ![j] = z2]
    BY <2>4, <2>5
  <2>8. [w.child_storage EXCEPT ![j] = w.child_storage[j] /\ ~isCritical(x)] = cs
    BY <2>4
  <2>9. BufferChildHasFired(s, j) = [w EXCEPT !.store = st, !.child_storage = cs, !.loop = q]
    BY <2>3, <2>4, <2>6, <2>7, <2>8 DEF w, w0
  <2> HIDE DEF st, cs, q, j
  <2>10. t = [u EXCEPT !.loop = q]
    <3>1. u.loop = s.loop
      BY <1>2 DEF States
    <3> QED
      BY <3>1 DEF q
  <2>11. [[s EXCEPT !.store = w0] EXCEPT !.store = st, !.child_storage = cs, !.loop = q]
         = [[s EXCEPT !.store = st, !.child_storage = cs] EXCEPT !.loop = q]
    BY <1>2 DEF States
  <2> QED
    BY <2>4, <2>9, <2>10, <2>11 DEF j
<1>9. st \in [Node -> Seq(Elements)] /\ cs \in [Node -> BOOLEAN]
  <2> HIDE DEF y2, z2, x, j
  <2> QED
    BY <1>2, <1>3, <1>4, <1>6
<1>10. st[i] = y2 /\ st[j] = z2 /\ \A k \in Node : k # i /\ k # j => st[k] = s.store[k]
  <2> HIDE DEF y2, z2
  <2> QED
    BY <1>2
<1>11. \A k \in Node : IF k = j THEN cs[k] <=> s.child_storage[k] /\ ~isCritical(x)
                       ELSE cs[k] <=> s.child_storage[k]
  <2> HIDE DEF x
  <2> QED
    BY <1>2, <1>3, Zenon
<1>12. /\ u \in States /\ u.loop = s.loop /\ u.alive = s.alive /\ u.child = s.child
       /\ u.store = st /\ u.child_storage = cs /\ u.cut = s.cut /\ u.aborted = s.aborted
       /\ u.out = s.out
  <2> HIDE DEF st, cs
  <2> QED
    BY <1>2, <1>9 DEF States
<1> DEFINE c == Contents(s)
           d == Contents(u)
<1> HIDE DEF x, y, z, y2, z2, st, cs, u, t
<1>13. /\ c[i] = y /\ c[j] = z /\ d[i] = y2 /\ d[j] = z2
       /\ \A m \in Nat : m # i /\ m # j => d[m] = c[m]
  <2>1. i \in 1..Top /\ j \in 1..Top
    BY <1>1, <1>2
  <2>2. c[i] = y /\ c[j] = z /\ d[i] = y2 /\ d[j] = z2
    BY <2>1, <1>2, <1>10, <1>12, ContentsTypes DEF y, z
  <2>3. ASSUME NEW m \in Nat, m # i, m # j PROVE d[m] = c[m]
    <3>1. CASE m \in 1..Top
      <4>1. d[m] = st[m] /\ c[m] = s.store[m] /\ m \in Node
        BY <3>1, <1>2, <1>12, ContentsTypes
      <4> QED
        BY <4>1, <2>3, <1>10
    <3>2. CASE m = Top + 1
      BY <3>2, <1>2, <1>12, ContentsTypes
    <3>3. CASE m = 0 \/ m > Top + 1
      BY <3>3, <1>2, <1>12, ContentsTypes
    <3> QED
      BY <3>1, <3>2, <3>3, <1>2
  <2> QED
    BY <2>2, <2>3
<1>14. GoesUp(c, d, i, j, x)
  <2>1. Len(c[i]) > 0
    BY <1>4, <1>13
  <2> HIDE DEF c, d
  <2> QED
    BY <2>1, <1>4, <1>5, <1>6, <1>13 DEF GoesUp, j
<1>15. Base(u)
  <2>1. MovesUp(s, u, i, j, x)
    <3>1. c[i][1].kind = "critical" => x.kind = "critical"
      BY <1>5, <1>13
    <3>2. i \in s.alive /\ j \in Nat /\ j <= Top + 1 /\ ~IsArmed(s.loop, i)
          /\ nodes[j].kind = "buffer" /\ Len(s.store[j]) < nodes[j].limit
      BY <1>1, <1>2, <1>7 DEF z
    <3>3. \A k \in Node : k # i /\ (k # j \/ k > Top) => u.store[k] = s.store[k]
      <4>1. j <= Top
        BY <1>1, <1>2
      <4> QED
        BY <4>1, <1>2, <1>10, <1>12
    <3>4. \A k \in Node : u.child_storage[k] => s.child_storage[k] /\ (k = j => x.kind # "critical")
      BY <1>11, <1>12 DEF isCritical
    <3> QED
      BY <3>1, <3>2, <3>3, <3>4, <1>12, <1>14 DEF MovesUp, c, d
  <2> HIDE DEF j
  <2> QED
    BY <2>1, <1>12, MoveBase
<1>16. /\ Base(t) /\ SameButLoop(u, t)
       /\ \A f \in Event : IsArmed(t.loop, f) <=> IsArmed(u.loop, f) \/ f = j
  <2>1. MayArm(u, j)
    <3>1. u.store[j] # << >>
      BY <1>6, <1>10, <1>12 DEF Longer
    <3> QED
      BY <3>1, <1>2, <1>12 DEF MayArm, j
  <2> DEFINE q == DoArmLater(u.loop, j)
  <2>2. q \in Arms(u.loop, j)
    BY DEF Arms
  <2>3. t = [u EXCEPT !.loop = q]
    BY DEF t
  <2> HIDE DEF q, j
  <2> QED
    BY <2>1, <2>2, <2>3, <1>15, ArmBase
<1>17. Taken(s, t, i)
  <2>1. /\ t.alive = s.alive /\ t.child = s.child /\ t.store = st /\ t.child_storage = cs /\ t.out = s.out
    BY <1>12, <1>16 DEF SameButLoop
  <2>2. Len(st[i]) = Len(s.store[i]) - 1
    BY <1>4, <1>10 DEF Shorter, y
  <2>3. Len(st[j]) = Len(s.store[j]) + 1
    BY <1>6, <1>10 DEF Longer, z
  <2>4. Critical(s.store[i]) => Critical(st[i]) \/ isCritical(Head(s.store[i]))
    <3> SUFFICES ASSUME NEW k \in 1..Len(y), y[k].kind = "critical"
                 PROVE  Critical(y2) \/ Head(y).kind = "critical"
      BY <1>10 DEF Critical, isCritical, y
    <3>1. CASE k = 1
      BY <3>1, <1>4
    <3>2. CASE k # 1
      <4>1. k - 1 \in 1..(Len(y) - 1) /\ k - 1 + 1 = k /\ Len(y2) = Len(y) - 1
        BY <3>2, <1>4 DEF Shorter
      <4>2. k - 1 \in 1..Len(y2) /\ y2[k - 1] = y[k]
        BY <4>1, <1>4 DEF Shorter
      <4> QED
        BY <4>2 DEF Critical
    <3> QED
      BY <3>1, <3>2
  <2>5. Critical(z) \/ isCritical(x) => Critical(z2)
    <3>1. Len(z2) = Len(z) + 1 /\ Len(z) \in Nat /\ z2[Len(z) + 1] = x
          /\ \A k \in 1..Len(z) : z2[k] = z[k]
      BY <1>6 DEF Longer
    <3>2. ASSUME isCritical(x) PROVE Critical(z2)
      <4>1. Len(z) + 1 \in 1..Len(z2)
        BY <3>1
      <4> QED
        BY <3>1, <3>2, <4>1 DEF Critical, isCritical
    <3>3. ASSUME NEW k \in 1..Len(z), z[k].kind = "critical" PROVE Critical(z2)
      <4>1. k \in 1..Len(z2) /\ z2[k] = z[k]
        BY <3>1
      <4> QED
        BY <3>3, <4>1 DEF Critical
    <3> QED
      BY <3>2, <3>3 DEF Critical
  <2>6. ASSUME NEW k \in Node, ~cs[k] PROVE ~s.child_storage[k] \/ Critical(st[k])
    <3>1. CASE k = j
      BY <2>5, <2>6, <3>1, <1>10, <1>11
    <3>2. CASE k # j
      BY <2>6, <3>2, <1>11
    <3> QED
      BY <3>1, <3>2
  <2>7. Critical(s.store[j]) => Critical(st[j])
    BY <2>5, <1>10 DEF z
  <2>8. \A k \in Node : k # i /\ k # j => t.store[k] = s.store[k]
    BY <2>1, <1>10
  <2>9. \A f \in Event : IsArmed(t.loop, f) <=> IsArmed(s.loop, f) \/ f = j
    BY <1>12, <1>16
  <2>10. IsArmed(t.loop, j)
    BY <2>9, <1>2
  <2>11. ~IsSink(j)
    BY DEF j
  <2> QED
    BY <2>1, <2>2, <2>3, <2>4, <2>6, <2>7, <2>8, <2>9, <2>10, <2>11 DEF Taken, j
<1> QED
  BY <1>8, <1>16, <1>17

(* An element comes out at the top. *)
Given(s, i) == [s EXCEPT !.store = [s.store EXCEPT ![i] = Tail(s.store[i])],
                         !.out = Append(s.out, getImpl(Head(s.store[i])))]

(* An element that comes out keeps Base. *)
LEMMA GivenBase ==
  ASSUME Shape, fed \in Nat, NEW s, Base(s), NEW i \in s.alive, s.store[i] # << >>,
         ~IsArmed(s.loop, i) \/ i = MaxNodes,
         i = Top \/ (i + 1 = Top /\ IsSink(Top))
  PROVE  LET u == Given(s, i) IN
         /\ Base(u) /\ u \in States /\ u.loop = s.loop /\ u.alive = s.alive /\ u.child = s.child
         /\ u.child_storage = s.child_storage
         /\ \A k \in Node : k # i => u.store[k] = s.store[k]
         /\ Len(u.store[i]) = Len(s.store[i]) - 1
         /\ Critical(s.store[i]) => Critical(u.store[i]) \/ isCritical(Head(s.store[i]))
         /\ isCritical(getImpl(Head(s.store[i]))) => Critical(u.out)
         /\ u.out # << >>
<1> DEFINE j == Top + 1
           y == s.store[i]
           z == s.out
           x == getImpl(Head(y))
           y2 == Tail(y)
           z2 == Append(z, x)
           st == [s.store EXCEPT ![i] = y2]
           u == [s EXCEPT !.store = st, !.out = z2]
<1>0. u = Given(s, i)
  BY DEF Given
<1>2. /\ s \in States /\ i \in Nat /\ 1 <= i /\ i <= Top /\ i \in Node
      /\ Top \in Nat /\ Top <= MaxNodes /\ MaxNodes \in Nat
      /\ s.store \in [Node -> Seq(Elements)]
      /\ j \in Nat
  BY GiverFacts
<1>3. /\ y \in Seq(Elements) /\ z \in Seq(Elements) /\ y # << >>
  BY <1>2, StateFields
<1>4. Head(y) = y[1] /\ Head(y) \in Elements /\ y2 \in Seq(Elements) /\ Shorter(y2, y) /\ Len(y) \in Nat /\ Len(y) >= 1
  BY <1>3, FrontGone DEF Shorter
<1>5. x \in Elements /\ x.id = y[1].id /\ (y[1].kind = "critical" => x.kind = "critical")
  BY <1>4, Converted
<1>6. z2 \in Seq(Elements) /\ Longer(z2, z, x) /\ Len(z) \in Nat
  <2> HIDE DEF x, z
  <2> QED
    BY <1>3, <1>5, BackGrown DEF Longer
<1>9. st \in [Node -> Seq(Elements)]
  <2> HIDE DEF y2
  <2> QED
    BY <1>2, <1>4
<1>10. st[i] = y2 /\ \A k \in Node : k # i => st[k] = s.store[k]
  <2> HIDE DEF y2
  <2> QED
    BY <1>2
<1>12. /\ u \in States /\ u.loop = s.loop /\ u.alive = s.alive /\ u.child = s.child
       /\ u.store = st /\ u.child_storage = s.child_storage /\ u.cut = s.cut /\ u.aborted = s.aborted
       /\ u.out = z2
  <2> HIDE DEF st, z2
  <2> QED
    BY <1>2, <1>6, <1>9 DEF States
<1> DEFINE c == Contents(s)
           d == Contents(u)
<1> HIDE DEF x, y, z, y2, z2, st, u
<1>13. /\ c[i] = y /\ c[j] = z /\ d[i] = y2 /\ d[j] = z2
       /\ \A m \in Nat : m # i /\ m # j => d[m] = c[m]
  <2>1. i \in 1..Top
    BY <1>2
  <2>2. c[i] = y /\ c[j] = z /\ d[i] = y2 /\ d[j] = z2
    BY <2>1, <1>2, <1>10, <1>12, ContentsTypes DEF y, z
  <2>3. ASSUME NEW m \in Nat, m # i, m # j PROVE d[m] = c[m]
    <3>1. CASE m \in 1..Top
      <4>1. d[m] = st[m] /\ c[m] = s.store[m] /\ m \in Node
        BY <3>1, <1>2, <1>12, ContentsTypes
      <4> QED
        BY <4>1, <2>3, <1>10
    <3>3. CASE m = 0 \/ m > Top + 1
      BY <3>3, <1>2, <1>12, ContentsTypes
    <3> QED
      BY <2>3, <3>1, <3>3, <1>2
  <2> QED
    BY <2>2, <2>3
<1>14. GoesUp(c, d, i, j, x)
  <2>1. Len(c[i]) > 0
    BY <1>4, <1>13
  <2>2. j = i + 1 \/ (j = i + 2 /\ Len(c[i + 1]) = 0)
    <3>1. CASE i = Top
      BY <3>1
    <3>2. CASE i + 1 = Top /\ IsSink(Top)
      <4>1. Top \in s.alive /\ Top \in 1..Top
        BY <3>2, <1>2, GiverFacts
      <4>2. c[Top] = << >>
        BY <3>2, <4>1, <1>2, ContentsTypes DEF Base, Chained
      <4>3. j = i + 2
        BY <3>2, <1>2
      <4> QED
        BY <3>2, <4>2, <4>3
    <3> QED
      BY <3>1, <3>2
  <2> HIDE DEF c, d, j
  <2> QED
    BY <2>1, <2>2, <1>4, <1>5, <1>6, <1>13 DEF GoesUp
<1>15. Base(u)
  <2>1. MovesUp(s, u, i, j, x)
    <3>1. c[i][1].kind = "critical" => x.kind = "critical"
      BY <1>5, <1>13
    <3>2. i \in s.alive /\ j \in Nat /\ j <= Top + 1 /\ (~IsArmed(s.loop, i) \/ i = MaxNodes) /\ ~(j <= Top)
      BY <1>2
    <3>3. \A k \in Node : k # i /\ (k # j \/ k > Top) => u.store[k] = s.store[k]
      BY <1>10, <1>12
    <3>4. \A k \in Node : u.child_storage[k] => s.child_storage[k] /\ (k = j => x.kind # "critical")
      <4>1. ASSUME NEW k \in Node, s.child_storage[k] PROVE k # j
        <5>1. k <= Top
          BY <4>1 DEF Base, Chained
        <5> QED
          BY <5>1, <1>2
      <4> QED
        BY <4>1, <1>12
    <3> QED
      BY <3>1, <3>2, <3>3, <3>4, <1>12, <1>14 DEF MovesUp, c, d
  <2> HIDE DEF j
  <2> QED
    BY <2>1, <1>12, MoveBase
<1>16. Len(st[i]) = Len(s.store[i]) - 1
  BY <1>4, <1>10 DEF Shorter, y
<1>17. Critical(s.store[i]) => Critical(st[i]) \/ isCritical(Head(s.store[i]))
  <2> SUFFICES ASSUME NEW k \in 1..Len(y), y[k].kind = "critical"
               PROVE  Critical(y2) \/ Head(y).kind = "critical"
    BY <1>10 DEF Critical, isCritical, y
  <2>1. CASE k = 1
    BY <2>1, <1>4
  <2>2. CASE k # 1
    <3>1. k - 1 \in 1..(Len(y) - 1) /\ k - 1 + 1 = k /\ Len(y2) = Len(y) - 1
      BY <2>2, <1>4 DEF Shorter
    <3>2. k - 1 \in 1..Len(y2) /\ y2[k - 1] = y[k]
      BY <3>1, <1>4 DEF Shorter
    <3> QED
      BY <3>2 DEF Critical
  <2> QED
    BY <2>1, <2>2
<1>18. z2 # << >> /\ (isCritical(x) => Critical(z2))
  <2>1. Len(z2) = Len(z) + 1 /\ Len(z) \in Nat /\ z2[Len(z) + 1] = x
    BY <1>6 DEF Longer
  <2>2. Len(z) + 1 \in 1..Len(z2)
    BY <2>1
  <2> QED
    BY <2>1, <2>2 DEF Critical, isCritical
<1> QED
  BY <1>0, <1>10, <1>12, <1>15, <1>16, <1>17, <1>18 DEF x, y

(* A sink takes the element its child fired with, and is armed last if it  *)
(* is a critical error.                                                    *)
LEMMA SinkTakes ==
  ASSUME Shape, fed \in Nat, NEW s, Base(s), NEW i, MayGive(s, i), IsSink(i + 1)
  PROVE  LET t == SinkChildHasFired(s, i + 1) IN Base(t) /\ Taken(s, t, i)
<1> DEFINE j == i + 1
           x == getImpl(Head(s.store[i]))
           u == Given(s, i)
           q == IF isCritical(x) THEN DoArmLast(s.loop, j) ELSE s.loop
           t == [u EXCEPT !.loop = q]
<1>1. /\ i \in s.alive /\ i < Top /\ s.store[i] # << >> /\ ~IsArmed(s.loop, i)
  BY DEF MayGive
<1>2. /\ s \in States /\ i \in Nat /\ 1 <= i /\ i <= Top /\ i \in Node
      /\ Top \in Nat /\ Top <= MaxNodes /\ MaxNodes \in Nat
      /\ s.store \in [Node -> Seq(Elements)]
      /\ j \in Node /\ j \in s.alive /\ j \in Event /\ s.child[j]
      /\ j \in Nat /\ j - 1 = i /\ i < MaxNodes /\ j # i
  BY <1>1, GiverFacts
<1>3. j = Top
  <2>1. j \in 1..Top
    BY <1>1, <1>2
  <2> QED
    BY <2>1 DEF Shape
<1>4. /\ Base(u) /\ u \in States /\ u.loop = s.loop /\ u.alive = s.alive /\ u.child = s.child
      /\ u.child_storage = s.child_storage
      /\ \A k \in Node : k # i => u.store[k] = s.store[k]
      /\ Len(u.store[i]) = Len(s.store[i]) - 1
      /\ Critical(s.store[i]) => Critical(u.store[i]) \/ isCritical(Head(s.store[i]))
      /\ isCritical(x) => Critical(u.out)
  <2>1. i = Top \/ (i + 1 = Top /\ IsSink(Top))
    BY <1>3
  <2> QED
    BY <1>1, <2>1, GivenBase
<1>5. SinkChildHasFired(s, i + 1) = t
  <2>1. s.child[j] /\ getResult(s, j - 1) = x
    BY <1>1, <1>2 DEF getResult
  <2>2. Popped(s, j - 1) = [s EXCEPT !.store[i] = Tail(s.store[i])]
    BY <1>1, <1>2 DEF Popped
  <2> DEFINE y2 == Tail(s.store[i])
             w0 == [s.store EXCEPT ![i] = y2]
             w == [s EXCEPT !.store[i] = y2]
             o == Append(s.out, x)
  <2>3. SinkChildHasFired(s, j) = [w EXCEPT !.out = Append(@, x),
                                            !.loop = IF isCritical(x) THEN DoArmLast(@, j) ELSE @]
    BY <2>1, <2>2 DEF SinkChildHasFired
  <2> HIDE DEF x, y2
  <2>4. w.out = s.out /\ w.loop = s.loop /\ w = [s EXCEPT !.store = w0]
    BY <1>2 DEF States
  <2>5. [w EXCEPT !.out = Append(@, x), !.loop = IF isCritical(x) THEN DoArmLast(@, j) ELSE @]
        = [w EXCEPT !.out = Append(w.out, x), !.loop = IF isCritical(x) THEN DoArmLast(w.loop, j) ELSE w.loop]
    OBVIOUS
  <2> HIDE DEF w, w0, j
  <2>6. SinkChildHasFired(s, j) = [w EXCEPT !.out = o, !.loop = q]
    BY <2>3, <2>4, <2>5 DEF w
  <2>7. u = [s EXCEPT !.store = w0, !.out = o]
    BY DEF Given, w0, y2, x
  <2> HIDE DEF o, q, u
  <2>8. [[s EXCEPT !.store = w0] EXCEPT !.out = o, !.loop = q]
         = [[s EXCEPT !.store = w0, !.out = o] EXCEPT !.loop = q]
    BY <1>2 DEF States
  <2> QED
    BY <2>4, <2>6, <2>7, <2>8 DEF j
<1> HIDE DEF u, x, q, t
<1>6. /\ Base(t) /\ SameButLoop(u, t)
      /\ \A f \in Event : IsArmed(u.loop, f) => IsArmed(t.loop, f)
      /\ \A f \in Event : IsArmed(t.loop, f) => IsArmed(u.loop, f) \/ f = j
  <2>1. CASE isCritical(x)
    <3>1. MayArm(u, j)
      BY <2>1, <1>2, <1>4 DEF MayArm
    <3>2. q \in Arms(u.loop, j)
      BY <2>1, <1>4 DEF Arms, q
    <3>3. t = [u EXCEPT !.loop = q]
      BY DEF t
    <3> HIDE DEF j
    <3> QED
      BY <3>1, <3>2, <3>3, <1>4, ArmBase
  <2>2. CASE ~isCritical(x)
    <3>1. t = u
      <4>1. t = [u EXCEPT !.loop = u.loop]
        BY <2>2, <1>4 DEF t, q
      <4> QED
        BY <4>1, <1>4 DEF States
    <3> QED
      BY <3>1, <1>4 DEF SameButLoop
  <2> QED
    BY <2>1, <2>2
<1>7. Taken(s, t, i)
  <2>1. /\ t.alive = s.alive /\ t.child = s.child /\ t.store = u.store /\ t.child_storage = s.child_storage
    BY <1>4, <1>6 DEF SameButLoop
  <2>2. t.store[j] = s.store[j]
    BY <2>1, <1>2, <1>4
  <2>3. \A f \in Event : IsArmed(s.loop, f) => IsArmed(t.loop, f)
    BY <1>4, <1>6
  <2>4. \A f \in Event : IsArmed(t.loop, f) => IsArmed(s.loop, f) \/ f = j
    BY <1>4, <1>6
  <2> QED
    BY <2>1, <2>2, <2>3, <2>4, <1>4 DEF Taken, j
<1> QED
  BY <1>5, <1>6, <1>7

(* What a firing node does to its parent: nothing, if that is full. *)
LEMMA ChildHasFired ==
  ASSUME Shape, fed \in Nat, NEW s, Base(s), NEW i, MayGive(s, i)
  PROVE  LET t == childHasFired(s, i + 1) IN
         \/ t = s /\ space(s, i + 1) = 0 /\ ~IsSink(i + 1)
         \/ Base(t) /\ Taken(s, t, i)
<1>1. CASE IsSink(i + 1)
  BY <1>1, SinkTakes DEF childHasFired
<1>2. CASE ~IsSink(i + 1) /\ space(s, i + 1) > 0
  BY <1>2, BufferTakes DEF childHasFired
<1>3. CASE ~IsSink(i + 1) /\ ~(space(s, i + 1) > 0)
  <2>1. i \in s.alive /\ i < Top
    BY DEF MayGive
  <2>2. i + 1 \in s.alive /\ i + 1 \in Node /\ nodes[i + 1].kind = "buffer" /\ nodes[i + 1].limit \in Nat
        /\ s.store \in [Node -> Seq(Elements)]
    BY <2>1, <1>3, GiverFacts
  <2>3. Len(s.store[i + 1]) \in Nat /\ Len(s.store[i + 1]) <= nodes[i + 1].limit
    BY <2>2, LenProperties DEF Base, Chained
  <2>4. space(s, i + 1) = 0
    BY <2>2, <2>3, <1>3 DEF space
  <2> QED
    BY <2>4, <1>3 DEF childHasFired, BufferChildHasFired
<1> QED
  BY <1>1, <1>2, <1>3

-----------------------------------------------------------------------------
(* The space of a node that has a child. *)
LEMMA SpaceIsNat ==
  ASSUME Shape, NEW s, Base(s), NEW k \in s.alive, 2 <= k
  PROVE  space(s, k) \in Nat
<1>1. k \in Nat /\ k \in 2..Top /\ k \in 1..Top /\ k \in Node /\ s.store \in [Node -> Seq(Elements)]
  BY GiverFacts
<1>2. Len(s.store[k]) \in Nat
  BY <1>1, LenProperties
<1>3. CASE IsSink(k)
  BY <1>3 DEF space
<1>4. CASE ~IsSink(k)
  <2>1. nodes[k].kind = "buffer"
    BY <1>1, <1>4 DEF Shape, IsSink
  <2>2. nodes[k] \in [kind : {"adapt", "immediate", "buffer", "sink", "detached"}, limit : Nat]
    BY <1>1, ElementOfSeq DEF Shape, Top
  <2>3. Len(s.store[k]) <= nodes[k].limit /\ nodes[k].limit \in Nat
    BY <2>1, <2>2 DEF Base, Chained
  <2> QED
    BY <2>3, <1>2, <1>4 DEF space
<1> QED
  BY <1>3, <1>4

(* Whether a node is full is a matter of its storage alone. *)
LEMMA SameFull ==
  ASSUME NEW s, NEW t, NEW k, t.store[k] = s.store[k]
  PROVE  space(t, k) = space(s, k) /\ (Full(t, k) <=> Full(s, k))
BY DEF Full, space

(* Destroying the nodes below i leaves the others awake. *)
LEMMA DestroyedWakeup ==
  ASSUME Shape, NEW s, Base(s), NEW i \in Nat, 1 <= i, i <= Top + 1, NEW except, Wakeup(s, except)
  PROVE  Wakeup(Destroyed(s, i), except)
<1> DEFINE t == Destroyed(s, i)
<1>1. /\ t.alive = s.alive \ 1..(i - 1)
      /\ \A k \in Node : t.store[k] = IF k < i THEN << >> ELSE s.store[k]
      /\ \A k \in Node : t.child[k] <=> s.child[k] /\ k > i
      /\ \A k \in Node : t.child_storage[k] <=> s.child_storage[k] /\ k > i
      /\ t.out = s.out
      /\ \A f \in Event : IsArmed(t.loop, f) <=> IsArmed(s.loop, f) /\ f \notin 1..(i - 1)
  BY DestroyedFields
<1> HIDE DEF t
<1>2. Untaken(t) <=> Untaken(s)
  BY <1>1 DEF Untaken
<1>3. ASSUME Untaken(s), NEW m \in t.alive, m \notin except, HasParent(m), t.store[m] # << >>
      PROVE  Awake(t, m)
  <2>1. m \in s.alive /\ m \notin 1..(i - 1)
    BY <1>1
  <2>2. m \in Nat /\ 1 <= m /\ m \in Node /\ m \in Event /\ m + 1 \in Node /\ m + 1 \in Nat
    BY <1>3, <2>1, GiverFacts DEF HasParent
  <2>3. ~(m < i) /\ ~(m + 1 < i)
    BY <2>1, <2>2
  <2>4. t.store[m] = s.store[m] /\ t.store[m + 1] = s.store[m + 1]
    BY <2>2, <2>3, <1>1
  <2>5. Awake(s, m)
    BY <1>3, <2>1, <2>4 DEF Wakeup
  <2>6. IsArmed(s.loop, m) => IsArmed(t.loop, m)
    BY <2>1, <2>2, <1>1
  <2> QED
    BY <2>4, <2>5, <2>6, SameFull DEF Awake
<1>4. ASSUME Untaken(s) PROVE Remembered(t)
  <2> SUFFICES ASSUME NEW k \in Node, t.child[k], ~t.child_storage[k] PROVE Critical(t.store[k])
    BY DEF Remembered
  <2>1. s.child[k] /\ k > i /\ ~s.child_storage[k] /\ ~(k < i)
    <3>1. k \in Nat
      BY ChainAssumption DEF Node
    <3> QED
      BY <3>1, <1>1
  <2>2. Critical(s.store[k])
    BY <2>1, <1>4 DEF Wakeup, Remembered
  <2> QED
    BY <2>1, <2>2, <1>1
<1> QED
  BY <1>2, <1>3, <1>4 DEF Wakeup, t

(* Arming more events; those no longer excepted are awake. *)
LEMMA ArmWakeup ==
  ASSUME Shape, NEW s, Base(s), NEW t, SameButLoop(s, t),
         \A f \in Event : IsArmed(s.loop, f) => IsArmed(t.loop, f),
         NEW more, NEW fewer, Wakeup(s, more),
         \A m \in s.alive : m \in more /\ m \notin fewer /\ HasParent(m)
                            /\ s.store[m] # << >> /\ Untaken(s) => Awake(t, m)
  PROVE  Wakeup(t, fewer)
<1>1. t.store = s.store /\ t.child = s.child /\ t.child_storage = s.child_storage
      /\ t.alive = s.alive /\ t.out = s.out
  BY DEF SameButLoop
<1>2. Untaken(t) <=> Untaken(s)
  BY <1>1 DEF Untaken
<1>3. Remembered(t) <=> Remembered(s)
  BY <1>1 DEF Remembered
<1>4. ASSUME Untaken(s), NEW m \in s.alive, m \notin fewer, HasParent(m), s.store[m] # << >>
      PROVE  Awake(t, m)
  <2>1. CASE m \in more
    BY <2>1, <1>4
  <2>2. CASE m \notin more
    <3>1. Awake(s, m) /\ m \in Event
      BY <2>2, <1>4, GiverFacts DEF Wakeup
    <3> QED
      BY <3>1, <1>1, SameFull DEF Awake
  <2> QED
    BY <2>1, <2>2
<1> QED
  BY <1>1, <1>2, <1>3, <1>4 DEF Wakeup

(* When node i has given an element, its child may have lost the reason    *)
(* it waited for: node i is no longer full.                                *)
Told(s, t, i) ==
    Untaken(t) /\ i - 1 \in t.alive /\ t.store[i - 1] # << >> =>
        Awake(t, i - 1) \/ (space(s, i) = 0 /\ nodes[i - 1].kind # "adapt")

(* Node i is awake no longer than its turn, and its child may wait for it; *)
(* every other node that waited still has its reason.                      *)
LEMMA TakenWakeup ==
  ASSUME Shape, NEW s, Base(s), NEW t, Base(t), NEW i \in s.alive, i < Top, Taken(s, t, i),
         Wakeup(s, {i}), s.child[i] => ~isCritical(Head(s.store[i]))
  PROVE  Wakeup(t, {i, i - 1}) /\ Told(s, t, i)
<1>1. /\ t.alive = s.alive /\ t.child = s.child
      /\ \A k \in Node : k # i /\ k # i + 1 => t.store[k] = s.store[k]
      /\ Critical(s.store[i]) => Critical(t.store[i]) \/ isCritical(Head(s.store[i]))
      /\ ~IsSink(i + 1) => t.out = s.out
      /\ Critical(s.store[i + 1]) => Critical(t.store[i + 1])
      /\ \A k \in Node : ~t.child_storage[k] => ~s.child_storage[k] \/ Critical(t.store[k])
      /\ \A f \in Event : IsArmed(s.loop, f) => IsArmed(t.loop, f)
      /\ ~IsSink(i + 1) => IsArmed(t.loop, i + 1)
  BY DEF Taken
<1>2. i \in Nat /\ 1 <= i /\ i \in Node /\ i + 1 \in Node /\ i + 1 \in Nat /\ Top \in Nat /\ i + 1 \in 1..Top
  BY GiverFacts
<1>3. IsSink(i + 1) => i + 1 = Top
  BY <1>2 DEF Shape
<1>4. /\ Untaken(t) => Untaken(s)
      /\ ~Untaken(t) => ~Untaken(s)
  BY <1>1, <1>3 DEF Untaken
<1>5. ASSUME Untaken(s) PROVE Remembered(t)
  <2> SUFFICES ASSUME NEW k \in Node, t.child[k], ~t.child_storage[k] PROVE Critical(t.store[k])
    BY DEF Remembered
  <2>1. CASE ~s.child_storage[k]
    <3>1. s.child[k] /\ Critical(s.store[k])
      BY <2>1, <1>1, <1>5 DEF Wakeup, Remembered
    <3> QED
      BY <3>1, <1>1
  <2> QED
    BY <2>1, <1>1
<1>6. ASSUME Untaken(s), NEW m \in s.alive, m # i, m # i - 1, HasParent(m), t.store[m] # << >>
      PROVE  Awake(t, m)
  <2>1. m \in Nat /\ m \in Node /\ m + 1 \in Node /\ m \in Event
    BY <1>6, GiverFacts DEF HasParent
  <2>2. CASE m = i + 1
    <3>1. ~IsSink(i + 1)
      BY <2>2, <1>3, <1>6, <1>2 DEF HasParent
    <3> QED
      BY <2>2, <3>1, <1>1 DEF Awake
  <2>3. CASE m # i + 1
    <3>1. m + 1 # i /\ m + 1 # i + 1
      BY <2>1, <1>2, <1>6
    <3>2. t.store[m] = s.store[m] /\ t.store[m + 1] = s.store[m + 1]
      BY <2>1, <2>3, <3>1, <1>1, <1>6
    <3>3. Awake(s, m)
      BY <3>2, <1>6 DEF Wakeup
    <3> QED
      BY <2>1, <3>2, <3>3, <1>1, SameFull DEF Awake
  <2> QED
    BY <2>2, <2>3
<1>7. Wakeup(t, {i, i - 1})
  BY <1>1, <1>4, <1>5, <1>6 DEF Wakeup
<1>8. ASSUME Untaken(t), i - 1 \in t.alive, t.store[i - 1] # << >>
      PROVE  Awake(t, i - 1) \/ (space(s, i) = 0 /\ nodes[i - 1].kind # "adapt")
  <2> DEFINE m == i - 1
  <2>1. m \in s.alive /\ m \in Nat /\ m \in Node /\ m \in Event /\ m # i /\ m # i + 1 /\ m < Top /\ m + 1 = i
        /\ s.child[m + 1]
    <3>1. m \in s.alive /\ m < Top /\ m + 1 = i /\ m # i /\ m # i + 1
      BY <1>1, <1>2, <1>8
    <3> HIDE DEF m
    <3> QED
      BY <3>1, GiverFacts
  <2>2. t.store[m] = s.store[m]
    BY <2>1, <1>1
  <2>3. Awake(s, m)
    BY <2>1, <2>2, <1>4, <1>8 DEF Wakeup, HasParent
  <2>4. CASE IsArmed(s.loop, m)
    BY <2>1, <2>4, <1>1 DEF Awake
  <2>5. CASE nodes[m].kind # "adapt" /\ space(s, i) = 0
    BY <2>5
  <2>6. CASE nodes[m].kind # "adapt" /\ Critical(s.store[i])
    <3>1. Critical(t.store[i])
      BY <2>1, <2>6, <1>1
    <3> HIDE DEF m
    <3>2. Awake(t, m)
      BY <2>1, <2>6, <3>1 DEF Awake, Full
    <3> QED
      BY <3>2 DEF m
  <2> HIDE DEF m
  <2> QED
    BY <2>1, <2>3, <2>4, <2>5, <2>6 DEF Awake, Full
<1> QED
  BY <1>7, <1>8 DEF Told

(* After its parent has taken, node i is armed again if it can go on. *)
Rearms(t, r, i) ==
    \/ t.store[i] # << >> /\ \E q \in Arms(t.loop, i) : r = [t EXCEPT !.loop = q]
    \/ /\ r = t
       /\ t.store[i] # << >> => nodes[i].kind # "adapt" /\ ~(space(t, i + 1) > 0)

(* After a turn that gave an element only the child may have missed its    *)
(* wakeup, and then the node was full before.                              *)
LEMMA Rearmed ==
  ASSUME Shape, fed \in Nat, NEW s, Base(s), NEW i, MayGive(s, i), Wakeup(s, {i}),
         s.child[i] => ~isCritical(Head(s.store[i])),
         NEW r, Rearms(childHasFired(s, i + 1), r, i)
  PROVE  /\ Base(r) /\ r.alive = s.alive /\ r.child = s.child
         /\ Wakeup(r, {i - 1}) /\ Told(s, r, i)
<1> DEFINE t == childHasFired(s, i + 1)
<1>1. /\ i \in s.alive /\ i < Top /\ s.store[i] # << >> /\ ~IsArmed(s.loop, i)
  BY DEF MayGive
<1>2. /\ i \in Nat /\ 1 <= i /\ i \in Node /\ i \in Event /\ ~IsSink(i) /\ i + 1 \in s.alive /\ 2 <= i + 1
      /\ i + 1 \in Node /\ Top \in Nat
  BY <1>1, GiverFacts
<1>3. \/ t = s /\ space(s, i + 1) = 0 /\ ~IsSink(i + 1)
      \/ Base(t) /\ Taken(s, t, i)
  BY ChildHasFired
<1> HIDE DEF t
<1>4. /\ Base(t) /\ t.alive = s.alive /\ t.child = s.child
      /\ Wakeup(t, {i, i - 1}) /\ Told(s, t, i)
  <2>1. CASE t = s
    <3>1. Wakeup(s, {i, i - 1})
      BY DEF Wakeup
    <3>2. Told(s, s, i)
      <4> SUFFICES ASSUME Untaken(s), i - 1 \in s.alive, s.store[i - 1] # << >> PROVE Awake(s, i - 1)
        BY DEF Told
      <4>1. i - 1 # i /\ HasParent(i - 1)
        BY <1>1, <1>2 DEF HasParent
      <4> QED
        BY <4>1 DEF Wakeup
    <3> QED
      BY <2>1, <3>1, <3>2
  <2>2. CASE Base(t) /\ Taken(s, t, i)
    BY <2>2, <1>1, TakenWakeup DEF Taken
  <2> QED
    BY <2>1, <2>2, <1>3
<1>5. CASE t.store[i] # << >> /\ \E q \in Arms(t.loop, i) : r = [t EXCEPT !.loop = q]
  <2>1. PICK q \in Arms(t.loop, i) : r = [t EXCEPT !.loop = q]
    BY <1>5
  <2>2. MayArm(t, i)
    BY <1>1, <1>2, <1>4, <1>5 DEF MayArm
  <2>3. /\ Base(r) /\ SameButLoop(t, r)
        /\ \A f \in Event : IsArmed(r.loop, f) <=> IsArmed(t.loop, f) \/ f = i
    BY <2>1, <2>2, <1>4, ArmBase
  <2>4. Awake(r, i)
    BY <2>3, <1>2 DEF Awake
  <2>5. Wakeup(r, {i - 1})
    <3> DEFINE more == {i, i - 1}
               fewer == {i - 1}
    <3>1. \A m \in t.alive : m \in more /\ m \notin fewer => Awake(r, m)
      BY <2>4
    <3>2. Wakeup(t, more) /\ \A f \in Event : IsArmed(t.loop, f) => IsArmed(r.loop, f)
      BY <2>3, <1>4
    <3> HIDE DEF more, fewer
    <3>3. Wakeup(r, fewer)
      BY <2>3, <3>1, <3>2, <1>4, ArmWakeup
    <3> QED
      BY <3>3 DEF fewer
  <2>6. Told(s, r, i)
    <3> SUFFICES ASSUME Untaken(r), i - 1 \in r.alive, r.store[i - 1] # << >>
                 PROVE  Awake(r, i - 1) \/ (space(s, i) = 0 /\ nodes[i - 1].kind # "adapt")
      BY DEF Told
    <3>1. r.store = t.store /\ r.alive = t.alive /\ r.out = t.out
      BY <2>3 DEF SameButLoop
    <3>2. Untaken(t)
      BY <3>1 DEF Untaken
    <3>3. Awake(t, i - 1) \/ (space(s, i) = 0 /\ nodes[i - 1].kind # "adapt")
      BY <3>1, <3>2, <1>4 DEF Told
    <3>4. i - 1 \in Event
      BY <3>1, <1>4, GiverFacts
    <3>5. Awake(t, i - 1) => Awake(r, i - 1)
      BY <2>3, <3>1, <3>4, SameFull DEF Awake
    <3> QED
      BY <3>3, <3>5
  <2> QED
    BY <2>3, <2>5, <2>6, <1>4 DEF SameButLoop
<1>6. CASE /\ r = t
           /\ t.store[i] # << >> => nodes[i].kind # "adapt" /\ ~(space(t, i + 1) > 0)
  <2>1. ASSUME t.store[i] # << >> PROVE Awake(t, i)
    <3>1. space(t, i + 1) \in Nat
      BY <1>2, <1>4, SpaceIsNat
    <3>2. space(t, i + 1) = 0
      BY <2>1, <3>1, <1>6
    <3> QED
      BY <2>1, <3>2, <1>6 DEF Awake, Full
  <2>2. Wakeup(t, {i - 1})
    BY <2>1, <1>4 DEF Wakeup
  <2> QED
    BY <2>2, <1>4, <1>6
<1> QED
  BY <1>5, <1>6 DEF Rearms, t

(* An immediate node is never asked while the node above it is full: its   *)
(* second element is its last, and a node that got it asks no more.        *)
LEMMA ImmediateHasSpace ==
  ASSUME Shape, fed \in Nat, NEW s, Base(s), NEW i \in s.alive, s.child_storage[i],
         nodes[i - 1].kind = "immediate"
  PROVE  space(s, i) # 0
<1>1. i \in Node /\ s.store \in [Node -> Seq(Elements)] /\ Top \in Nat /\ i \in Nat /\ s \in States
  BY GiverFacts
<1>2. 2 <= i /\ i <= Top /\ ~Critical(s.store[i])
  BY <1>1 DEF Base, Chained
<1>3. i = 2
  <2>1. SUFFICES ASSUME i # 2 PROVE FALSE
    OBVIOUS
  <2>2. i - 1 \in 2..Top
    BY <2>1, <1>1, <1>2
  <2> QED
    BY <2>2 DEF Shape
<1>4. nodes[1].kind = "immediate" /\ fed = 2 /\ Exhausted(Contents(s))
  BY <1>3 DEF Base, GivesTwo
<1> SUFFICES ASSUME space(s, i) = 0 PROVE FALSE
  OBVIOUS
<1>5. ~IsSink(i)
  BY DEF space
<1>6. nodes[2].kind = "buffer" /\ nodes[2].limit > 1 /\ 2 \in 2..Top
  BY <1>2, <1>3, <1>4, <1>5 DEF Shape, IsSink
<1>7. nodes[2].limit \in Nat
  <2>1. nodes[2] \in [kind : {"adapt", "immediate", "buffer", "sink", "detached"}, limit : Nat]
    <3>1. 2 \in 1..Top
      BY <1>1, <1>2, <1>3
    <3> QED
      BY <3>1, ElementOfSeq DEF Shape, Top
  <2> QED
    BY <2>1
<1> DEFINE y == s.store[2]
           c == Contents(s)
<1>8. Len(y) \in Nat /\ Len(y) > 1
  <2>1. Len(y) \in Nat
    BY <1>1, <1>3, LenProperties
  <2>2. nodes[2].limit - Len(y) = 0
    BY <1>3, <1>5 DEF space
  <2> QED
    BY <2>1, <2>2, <1>6, <1>7
<1>9. c[2] = y /\ 2 \in 1..Top
  BY <1>1, <1>2, <1>3, ContentsTypes
<1> HIDE DEF c, y
<1>10. PICK p : Counts(p, c, Top, 2)
  BY <1>4 DEF Base, Numbered, Counted, c
<1>11. p \in [Nat -> Nat] /\ p[2] <= 2 /\ p[2] = p[2 + 1] + Len(c[2])
       /\ \A k \in 1..Len(c[2]) : c[2][k].id = p[2 + 1] + k
  <2>1. 2 \in Nat /\ 1 <= 2 /\ 2 <= Top + 1
    BY <1>1, <1>9
  <2> QED
    BY <2>1, <1>10 DEF Counts
<1>12. p[3] \in Nat /\ p[3] = 0 /\ Len(c[2]) = 2
  <2>1. p[3] \in Nat /\ p[2] \in Nat /\ 2 + 1 = 3
    BY <1>11
  <2>2. p[2] = p[3] + Len(c[2]) /\ p[2] <= 2
    BY <2>1, <1>11
  <2>3. Len(c[2]) \in Nat /\ Len(c[2]) > 1
    BY <1>8, <1>9
  <2> DEFINE a == p[3]
             b == p[2]
             l == Len(c[2])
  <2>4. a \in Nat /\ b \in Nat /\ l \in Nat /\ b = a + l /\ b <= 2 /\ l > 1
    BY <2>1, <2>2, <2>3
  <2> HIDE DEF a, b, l
  <2>5. a = 0 /\ l = 2
    BY <2>4
  <2> QED
    BY <2>1, <2>5 DEF a, l
<1>13. 2 \in 1..Len(c[2]) /\ c[2][2].id = 2
  <2>1. 2 \in 1..Len(c[2]) /\ 2 + 1 = 3
    BY <1>12
  <2> QED
    BY <2>1, <1>11, <1>12
<1>14. c[2][2].kind = "critical"
  BY <1>4, <1>13 DEF Exhausted, c
<1> QED
  BY <1>2, <1>3, <1>9, <1>13, <1>14 DEF Critical, y

(* A node that was full tells its child. *)
LEMMA ParentHasFired ==
  ASSUME Shape, fed \in Nat, NEW s, Base(s), NEW i \in s.alive, s.child_storage[i],
         Wakeup(s, {i - 1}),
         Untaken(s) /\ s.store[i - 1] # << >> /\ nodes[i - 1].kind = "adapt" => Awake(s, i - 1)
  PROVE  LET r == parentHasFired(s, i - 1) IN Base(r) /\ Wakeup(r, {})
<1> DEFINE m == i - 1
           r == parentHasFired(s, i - 1)
<1>1. i \in Node /\ s.store \in [Node -> Seq(Elements)] /\ Top \in Nat /\ i \in Nat /\ s \in States
      /\ i <= Top
  BY GiverFacts
<1>2. 2 <= i /\ m \in s.alive /\ s.child[i]
  BY <1>1 DEF Base, Chained
<1>3. m < Top /\ m + 1 = i /\ m \in Nat /\ 1 <= m
  BY <1>1, <1>2
<1>4. m \in Node /\ m \in Event /\ ~IsSink(m) /\ m \in 1..Top
  <2> HIDE DEF m
  <2> QED
    BY <1>2, <1>3, GiverFacts
<1>5. nodes[m].kind \in {"adapt", "immediate", "buffer"}
  <2>1. CASE m = 1
    BY <2>1 DEF Shape
  <2>2. CASE m # 1
    <3>1. m \in 2..Top
      BY <2>2, <1>3, <1>4
    <3> HIDE DEF m
    <3> QED
      BY <3>1, <1>4 DEF Shape, IsSink
  <2> QED
    BY <2>1, <2>2
<1>6. space(s, i) \in Nat
  BY <1>2, SpaceIsNat
<1>7. r = parentHasFired(s, m)
  OBVIOUS
<1> HIDE DEF m, r
<1> SUFFICES Base(r) /\ Wakeup(r, {})
  BY DEF r
<1>8. ASSUME NEW q \in Arms(s.loop, m), s.store[m] # << >>, r = [s EXCEPT !.loop = q]
      PROVE  Base(r) /\ Wakeup(r, {})
  <2>1. MayArm(s, m)
    BY <1>2, <1>4, <1>8 DEF MayArm
  <2>2. /\ Base(r) /\ SameButLoop(s, r)
        /\ \A f \in Event : IsArmed(r.loop, f) <=> IsArmed(s.loop, f) \/ f = m
    BY <2>1, <1>8, ArmBase
  <2> DEFINE more == {m}
             fewer == {}
  <2>3. \A k \in s.alive : k \in more => Awake(r, k)
    BY <2>2, <1>4 DEF Awake
  <2>4. Wakeup(s, more) /\ \A f \in Event : IsArmed(s.loop, f) => IsArmed(r.loop, f)
    BY <2>2 DEF m
  <2> HIDE DEF more, fewer
  <2>5. Wakeup(r, fewer)
    BY <2>2, <2>3, <2>4, ArmWakeup
  <2> QED
    BY <2>2, <2>5 DEF fewer
<1>9. ASSUME r = s, Untaken(s) /\ s.store[m] # << >> => Awake(s, m)
      PROVE  Base(r) /\ Wakeup(r, {})
  <2>1. Wakeup(s, {})
    BY <1>9 DEF Wakeup, m
  <2> QED
    BY <2>1, <1>9
<1>10. CASE nodes[m].kind = "buffer"
  <2>1. CASE space(s, i) > 0 /\ s.store[m] # << >>
    <3>1. r = [s EXCEPT !.loop = DoArmLater(s.loop, m)]
      BY <2>1, <1>3, <1>7, <1>10 DEF parentHasFired
    <3> QED
      BY <2>1, <3>1, <1>8 DEF Arms
  <2>2. CASE ~(space(s, i) > 0 /\ s.store[m] # << >>)
    <3>1. r = s
      BY <2>2, <1>3, <1>7, <1>10 DEF parentHasFired
    <3>2. s.store[m] # << >> => space(s, m + 1) = 0
      BY <2>2, <1>3, <1>6
    <3>3. s.store[m] # << >> => Awake(s, m)
      BY <3>2, <1>10 DEF Awake, Full
    <3> QED
      BY <3>1, <3>3, <1>9
  <2> QED
    BY <2>1, <2>2
<1>11. CASE nodes[m].kind = "immediate"
  <2>1. space(s, m + 1) # 0
    BY <1>3, <1>11, ImmediateHasSpace DEF m
  <2>2. CASE s.store[m] # << >>
    <3>1. r = [s EXCEPT !.loop = DoArmNext(s.loop, m)]
      BY <2>1, <2>2, <1>7, <1>11 DEF parentHasFired
    <3> QED
      BY <2>2, <3>1, <1>8 DEF Arms
  <2>3. CASE s.store[m] = << >>
    <3>1. r = s
      BY <2>1, <2>3, <1>7, <1>11 DEF parentHasFired
    <3> QED
      BY <2>3, <3>1, <1>9
  <2> QED
    BY <2>2, <2>3
<1>12. CASE nodes[m].kind = "adapt"
  <2>1. r = s
    BY <1>7, <1>12 DEF parentHasFired
  <2> QED
    BY <2>1, <1>9, <1>12 DEF m
<1> QED
  BY <1>5, <1>10, <1>11, <1>12

-----------------------------------------------------------------------------
(* turn() has taken the event e out of the loop and fires it. *)
Ready(s, e) ==
    /\ Base(s) /\ Wakeup(s, {e})
    /\ e \in s.alive \cup {Daemon} /\ ~IsArmed(s.loop, e)
    /\ e \in s.alive => IF IsSink(e) THEN Critical(s.out) ELSE e < MaxNodes => s.store[e] # << >>

(* Exceptions that are no nodes, or nodes without a parent, are none. *)
LEMMA NoException ==
  ASSUME NEW s, NEW except, Wakeup(s, except), \A m \in except : m \notin s.alive \/ ~HasParent(m)
  PROVE  Wakeup(s, {})
BY DEF Wakeup

(* The turn of an adapt node or an immediate node. *)
LEMMA SourceFires ==
  ASSUME Shape, fed \in Nat, NEW s, NEW i \in s.alive, Ready(s, i),
         nodes[i].kind \in {"adapt", "immediate"}
  PROVE  Base(fire(s, i)) /\ Wakeup(fire(s, i), {})
<1> DEFINE r == fire(s, i)
           t == childHasFired(s, i + 1)
<1>1. Base(s) /\ Wakeup(s, {i}) /\ ~IsArmed(s.loop, i)
      /\ (~IsSink(i) => (i < MaxNodes => s.store[i] # << >>))
  BY DEF Ready
<1>2. i \in Nat /\ 1 <= i /\ i <= Top /\ i \in Node /\ Top \in Nat /\ i # Daemon /\ MaxNodes \in Nat /\ Top <= MaxNodes
      /\ ~IsSink(i)
  BY <1>1, GiverFacts DEF Daemon, IsSink
<1>3. i = 1
  <2>1. i \in 2..Top => FALSE
    BY DEF Shape
  <2> QED
    BY <2>1, <1>2
<1>4. CASE ~HasParent(i)
  <2>1. r = s
    <3>1. CASE nodes[i].kind = "adapt"
      BY <3>1, <1>2, <1>4 DEF fire, AdaptFire
    <3>2. CASE nodes[i].kind = "immediate"
      BY <3>2, <1>2, <1>4 DEF fire, ImmediateFire
    <3> QED
      BY <3>1, <3>2
  <2>2. Wakeup(s, {})
    BY <1>1, <1>4, NoException
  <2> QED
    BY <2>1, <2>2, <1>1
<1>5. CASE HasParent(i)
  <2>1. MayGive(s, i)
    <3>1. i < Top /\ i < MaxNodes
      BY <1>2, <1>5 DEF HasParent
    <3> QED
      BY <3>1, <1>1, <1>2 DEF MayGive
  <2>2. ~s.child[i]
    BY <1>1, <1>2, <1>3 DEF Base, Chained
  <2>3. Rearms(t, r, i)
    <3>1. CASE nodes[i].kind = "adapt"
      <4>1. r = IF t.store[i] # << >> THEN [t EXCEPT !.loop = DoArmLater(t.loop, i)] ELSE t
        BY <3>1, <1>2, <1>5 DEF fire, AdaptFire
      <4> HIDE DEF r, t
      <4> QED
        BY <4>1 DEF Rearms, Arms
    <3>2. CASE nodes[i].kind = "immediate"
      <4>1. r = IF t.store[i] # << >> /\ space(t, i + 1) > 0
                THEN [t EXCEPT !.loop = DoArmLast(t.loop, i)] ELSE t
        BY <3>2, <1>2, <1>5 DEF fire, ImmediateFire
      <4> HIDE DEF r, t
      <4> QED
        BY <3>2, <4>1 DEF Rearms, Arms
    <3> QED
      BY <3>1, <3>2
  <2> HIDE DEF r
  <2>4. Base(r) /\ r.alive = s.alive /\ Wakeup(r, {i - 1})
    BY <2>1, <2>2, <2>3, <1>1, Rearmed DEF t
  <2>5. i - 1 \notin r.alive
    BY <2>4, <1>1, <1>3, GiverFacts
  <2>6. Wakeup(r, {})
    BY <2>4, <2>5, NoException
  <2> QED
    BY <2>4, <2>6 DEF r
<1> QED
  BY <1>4, <1>5

(* A critical error at the front destroys the child. *)
LEMMA Dropping ==
  ASSUME Shape, fed \in Nat, NEW s, NEW i \in s.alive, Ready(s, i), nodes[i].kind = "buffer"
  PROVE  LET d == ChildDropped(s, i) IN
         /\ Base(d) /\ Wakeup(d, {i}) /\ i \in d.alive /\ ~IsArmed(d.loop, i)
         /\ d.store[i] = s.store[i]
         /\ d.child[i] => d.store[i] = << >> \/ ~isCritical(Head(d.store[i]))
<1> DEFINE d == ChildDropped(s, i)
<1>1. Base(s) /\ Wakeup(s, {i}) /\ ~IsArmed(s.loop, i)
  BY DEF Ready
<1>2. i \in Nat /\ 1 <= i /\ i <= Top /\ i \in Node /\ i \in Event /\ Top \in Nat
      /\ s.store \in [Node -> Seq(Elements)] /\ s \in States
  BY <1>1, GiverFacts
<1>3. CASE s.child[i] /\ s.store[i] # << >> /\ isCritical(Head(s.store[i]))
  <2>1. d = Destroyed(s, i)
    BY <1>3 DEF ChildDropped
  <2>2. 2 <= i
    BY <1>1, <1>2, <1>3 DEF Base, Chained
  <2>3. Critical(s.store[i])
    <3> DEFINE y == s.store[i]
    <3>1. y \in Seq(Elements) /\ y # << >> /\ isCritical(Head(y))
      BY <1>2, <1>3
    <3> HIDE DEF y
    <3>2. Head(y) = y[1] /\ Len(y) \in Nat /\ Len(y) >= 1
      BY <3>1, FrontGone
    <3>3. 1 \in 1..Len(y)
      BY <3>2
    <3>4. Critical(y)
      BY <3>1, <3>2, <3>3 DEF Critical, isCritical
    <3> QED
      BY <3>4 DEF y
  <2>4. EndsAbove(Contents(s), i - 1, Top)
    <3>1. Contents(s)[i] = s.store[i]
      <4>1. i \in 1..Top
        BY <1>2
      <4> QED
        BY <4>1, <1>2, ContentsTypes
    <3>2. i - 1 < i /\ i <= Top + 1
      BY <1>2
    <3> QED
      BY <2>3, <3>1, <3>2, <1>2 DEF EndsAbove
  <2>5. Base(d)
    BY <2>1, <2>2, <2>4, <1>1, <1>2, DestroyedBase
  <2>6. Wakeup(d, {i})
    <3> DEFINE ex == {i}
    <3>1. Wakeup(s, ex)
      BY <1>1
    <3> HIDE DEF ex
    <3>2. Wakeup(Destroyed(s, i), ex)
      BY <3>1, <1>1, <1>2, DestroyedWakeup
    <3> QED
      BY <2>1, <3>2 DEF ex
  <2>7. /\ d.alive = s.alive \ 1..(i - 1) /\ d.store[i] = s.store[i] /\ ~d.child[i]
        /\ ~IsArmed(d.loop, i)
    <3> HIDE DEF d
    <3>1. LET t == Destroyed(s, i) IN
          /\ t.alive = s.alive \ 1..(i - 1)
          /\ \A k \in Node : t.store[k] = IF k < i THEN << >> ELSE s.store[k]
          /\ \A k \in Node : t.child[k] <=> s.child[k] /\ k > i
          /\ \A f \in Event : IsArmed(t.loop, f) <=> IsArmed(s.loop, f) /\ f \notin 1..(i - 1)
      BY <1>1, <1>2, DestroyedFields
    <3>2. ~(i < i) /\ ~(i > i)
      BY <1>2
    <3> QED
      BY <2>1, <3>1, <3>2, <1>1, <1>2
  <2>8. i \in d.alive
    BY <2>7, <1>2
  <2> QED
    BY <2>5, <2>6, <2>7, <2>8
<1>4. CASE ~(s.child[i] /\ s.store[i] # << >> /\ isCritical(Head(s.store[i])))
  <2>1. d = s
    BY <1>4 DEF ChildDropped
  <2> QED
    BY <2>1, <1>1, <1>4
<1> QED
  BY <1>3, <1>4

(* The turn of a buffer: a critical error in front destroys the child, the *)
(* parent takes an element, and a child that waited is told.               *)
LEMMA BufferFires ==
  ASSUME Shape, fed \in Nat, NEW s, NEW i \in s.alive, Ready(s, i), nodes[i].kind = "buffer"
  PROVE  Base(fire(s, i)) /\ Wakeup(fire(s, i), {})
<1> DEFINE d == ChildDropped(s, i)
           t == childHasFired(d, i + 1)
           p == PassedUp(d, i)
           r == fire(s, i)
<1>1. Base(s) /\ (~IsSink(i) => (i < MaxNodes => s.store[i] # << >>))
  BY DEF Ready
<1>2. i \in Nat /\ 1 <= i /\ i <= Top /\ i \in Node /\ Top \in Nat /\ i # Daemon /\ MaxNodes \in Nat /\ Top <= MaxNodes
      /\ ~IsSink(i)
  BY <1>1, GiverFacts DEF Daemon, IsSink
<1>3. r = IF p.child_storage[i] /\ space(d, i) = 0 THEN parentHasFired(p, i - 1) ELSE p
  BY <1>2 DEF fire, QueueBufferFire
<1>4. /\ Base(d) /\ Wakeup(d, {i}) /\ i \in d.alive /\ ~IsArmed(d.loop, i)
      /\ d.store[i] = s.store[i]
      /\ d.child[i] => d.store[i] = << >> \/ ~isCritical(Head(d.store[i]))
  BY Dropping
<1> HIDE DEF d, r
<1>5. Base(p) /\ i \in p.alive /\ p.child = d.child /\ Wakeup(p, {i - 1}) /\ Told(d, p, i)
  <2>1. CASE ~HasParent(i)
    <3>1. p = d
      BY <2>1 DEF PassedUp
    <3>2. Wakeup(d, {})
      BY <2>1, <1>4, NoException
    <3>3. Wakeup(d, {i - 1})
      BY <3>2 DEF Wakeup
    <3>4. Told(d, d, i)
      <4> SUFFICES ASSUME Untaken(d), i - 1 \in d.alive, d.store[i - 1] # << >> PROVE Awake(d, i - 1)
        BY DEF Told
      <4>1. HasParent(i - 1)
        BY <1>2 DEF HasParent
      <4> QED
        BY <3>2, <4>1 DEF Wakeup
    <3> QED
      BY <3>1, <3>3, <3>4, <1>4
  <2>2. CASE HasParent(i)
    <3>1. MayGive(d, i)
      <4>1. i < Top /\ i < MaxNodes
        BY <2>2, <1>2 DEF HasParent
      <4> QED
        BY <4>1, <1>1, <1>2, <1>4 DEF MayGive
    <3>2. d.child[i] => ~isCritical(Head(d.store[i]))
      BY <3>1, <1>4 DEF MayGive
    <3>3. p = IF t.store[i] # << >> /\ space(t, i + 1) > 0
              THEN [t EXCEPT !.loop = DoArmLater(t.loop, i)] ELSE t
      BY <2>2 DEF PassedUp
    <3> HIDE DEF p, t
    <3>4. Rearms(t, p, i)
      BY <3>3 DEF Rearms, Arms
    <3>5. Base(p) /\ p.alive = d.alive /\ p.child = d.child /\ Wakeup(p, {i - 1}) /\ Told(d, p, i)
      BY <3>1, <3>2, <3>4, <1>4, Rearmed DEF t
    <3> QED
      BY <3>5, <1>4
  <2> QED
    BY <2>1, <2>2
<1> HIDE DEF p
<1>6. CASE p.child_storage[i] /\ space(d, i) = 0
  <2>1. Untaken(p) /\ p.store[i - 1] # << >> /\ nodes[i - 1].kind = "adapt" => Awake(p, i - 1)
    <3>1. i - 1 \in p.alive
      BY <1>2, <1>5, <1>6 DEF Base, Chained
    <3> QED
      BY <3>1, <1>5 DEF Told
  <2>2. r = parentHasFired(p, i - 1)
    BY <1>3, <1>6
  <2> QED
    BY <2>1, <2>2, <1>5, <1>6, ParentHasFired DEF r
<1>7. CASE ~(p.child_storage[i] /\ space(d, i) = 0)
  <2>1. r = p
    BY <1>3, <1>7
  <2>2. ASSUME Untaken(p), i - 1 \in p.alive, p.store[i - 1] # << >> PROVE Awake(p, i - 1)
    <3>1. Awake(p, i - 1) \/ (space(d, i) = 0 /\ nodes[i - 1].kind # "adapt")
      BY <2>2, <1>5 DEF Told
    <3>2. CASE space(d, i) = 0 /\ nodes[i - 1].kind # "adapt"
      <4>1. ~p.child_storage[i]
        BY <3>2, <1>7
      <4>2. 2 <= i /\ i - 1 + 1 = i
        <5>1. i - 1 \in Nat /\ 1 <= i - 1
          BY <2>2, <1>5, GiverFacts
        <5> QED
          BY <5>1, <1>2
      <4>3. p.child[i]
        BY <2>2, <4>2, <1>2, <1>5 DEF Base, Chained
      <4>4. Critical(p.store[i])
        BY <2>2, <4>1, <4>3, <1>2, <1>5 DEF Wakeup, Remembered
      <4>5. Full(p, i - 1 + 1)
        BY <4>2, <4>4 DEF Full
      <4> QED
        BY <3>2, <4>5 DEF Awake
    <3> QED
      BY <3>1, <3>2
  <2>3. Wakeup(p, {})
    BY <2>2, <1>5 DEF Wakeup
  <2> QED
    BY <2>1, <2>3, <1>5 DEF r
<1> QED
  BY <1>6, <1>7

(* What the daemon knows is not part of Base. *)
LEMMA FlagsBase ==
  ASSUME NEW s, Base(s), NEW t \in States,
         t.loop = s.loop, t.store = s.store, t.child = s.child,
         t.child_storage = s.child_storage, t.alive = s.alive, t.out = s.out,
         t.aborted = s.aborted, t.cut = s.cut
  PROVE  Base(t) /\ \A except : Wakeup(s, except) => Wakeup(t, except)
<1>1. Contents(t) = Contents(s) /\ Dead(t) = Dead(s)
  BY DEF Contents, Dead
<1>2. Chained(t) /\ Numbered(t) /\ GivesTwo(t) /\ TornBehind(t)
  BY <1>1 DEF Base, Chained, Numbered, GivesTwo, TornBehind
<1>3. Queued(t)
  BY <1>1 DEF Base, Queued
<1>4. ASSUME NEW except, Wakeup(s, except) PROVE Wakeup(t, except)
  BY <1>4 DEF Wakeup, Untaken, Remembered, Awake, Full, space
<1> QED
  BY <1>2, <1>3, <1>4 DEF Base

(* The turn of a sink: it got a critical error, destroys what is below it, *)
(* and a detached one reports to the daemon.                               *)
LEMMA SinkFires ==
  ASSUME Shape, fed \in Nat, NEW s, NEW i \in s.alive, Ready(s, i), IsSink(i)
  PROVE  Base(fire(s, i)) /\ Wakeup(fire(s, i), {})
<1> DEFINE t == Destroyed(s, i)
           q == DoArmLast(t.loop, Daemon)
           u == [t EXCEPT !.loop = q]
           r == fire(s, i)
<1>1. Base(s) /\ Wakeup(s, {i}) /\ Critical(s.out)
  BY DEF Ready
<1>2. i \in Nat /\ 1 <= i /\ i <= Top /\ i \in 1..Top /\ Top \in Nat /\ i # Daemon /\ s \in States
  BY <1>1, GiverFacts DEF Daemon
<1>3. i = Top /\ 2 <= i
  <2>1. i = Top
    BY <1>2 DEF Shape
  <2>2. i # 1
    BY DEF Shape, IsSink
  <2> QED
    BY <2>1, <2>2, <1>2
<1>4. r = SinkFire(s, i)
  BY <1>2 DEF fire, IsSink
<1>5. EndsAbove(Contents(s), i - 1, Top)
  <2>1. Contents(s)[Top + 1] = s.out /\ Top + 1 \in Nat /\ i - 1 < Top + 1 /\ Top + 1 <= Top + 1
    BY <1>2, <1>3, ContentsTypes
  <2> QED
    BY <2>1, <1>1 DEF EndsAbove
<1>6. Base(t)
  BY <1>1, <1>2, <1>3, <1>5, DestroyedBase
<1>7. Wakeup(t, {})
  <2> DEFINE ex == {i}
  <2>1. Wakeup(s, ex) /\ i <= Top + 1
    BY <1>1, <1>2
  <2> HIDE DEF ex
  <2>2. Wakeup(t, ex)
    BY <2>1, <1>1, <1>2, DestroyedWakeup
  <2>3. ~HasParent(i)
    BY <1>2, <1>3 DEF HasParent
  <2> QED
    BY <2>2, <2>3, NoException DEF ex
<1>8. CASE ~s.conveyor_sink
  <2>1. r = t
    BY <1>4, <1>8 DEF SinkFire
  <2> QED
    BY <2>1, <1>6, <1>7
<1>9. CASE s.conveyor_sink
  <2>1. r = [t EXCEPT !.loop = DoArmLast(@, Daemon), !.delete_nodes = TRUE, !.conveyor_sink = FALSE]
    BY <1>4, <1>9 DEF SinkFire
  <2> HIDE DEF t, r
  <2>2. MayArm(t, Daemon)
    <3>1. t.alive \in SUBSET (1..Top)
      BY <1>6 DEF Base, Chained
    <3> QED
      BY <3>1 DEF MayArm, Daemon
  <2>3. q \in Arms(t.loop, Daemon)
    BY DEF Arms
  <2> HIDE DEF q
  <2>4. /\ Base(u) /\ SameButLoop(t, u)
        /\ \A f \in Event : IsArmed(u.loop, f) <=> IsArmed(t.loop, f) \/ f = Daemon
    BY <2>2, <2>3, <1>6, ArmBase
  <2>5. Wakeup(u, {})
    <3> DEFINE none == {}
    <3>1. Wakeup(t, none) /\ \A m \in t.alive : m \in none => Awake(u, m)
      BY <1>7
    <3>2. \A f \in Event : IsArmed(t.loop, f) => IsArmed(u.loop, f)
      BY <2>4
    <3> HIDE DEF none, u
    <3>3. Wakeup(u, none)
      BY <2>4, <3>1, <3>2, <1>6, ArmWakeup
    <3> QED
      BY <3>3 DEF none
  <2>6. t \in States /\ u \in States
    BY <2>4, <1>6 DEF Base
  <2>7. r = [t EXCEPT !.loop = q, !.delete_nodes = TRUE, !.conveyor_sink = FALSE]
    BY <2>1 DEF q
  <2>8. /\ r \in States /\ r.loop = u.loop /\ r.store = u.store /\ r.child = u.child
        /\ r.child_storage = u.child_storage /\ r.alive = u.alive /\ r.out = u.out
        /\ r.aborted = u.aborted /\ r.cut = u.cut
    BY <2>6, <2>7 DEF States
  <2> HIDE DEF u
  <2>9. Base(r) /\ Wakeup(r, {})
    BY <2>4, <2>5, <2>8, FlagsBase
  <2> QED
    BY <2>9 DEF r
<1> QED
  BY <1>8, <1>9

(* The turn of the daemon. *)
LEMMA DaemonFires ==
  ASSUME Shape, NEW s, Ready(s, Daemon)
  PROVE  Base(fire(s, Daemon)) /\ Wakeup(fire(s, Daemon), {})
<1> DEFINE r == fire(s, Daemon)
<1>1. Base(s) /\ Wakeup(s, {Daemon}) /\ s \in States /\ s.alive \in SUBSET (1..Top)
  BY DEF Ready, Base, Chained
<1>2. r = [s EXCEPT !.delete_nodes = FALSE]
  BY DEF fire, SinksFire
<1> HIDE DEF r
<1>3. /\ r \in States /\ r.loop = s.loop /\ r.store = s.store /\ r.child = s.child
      /\ r.child_storage = s.child_storage /\ r.alive = s.alive /\ r.out = s.out
      /\ r.aborted = s.aborted /\ r.cut = s.cut
  BY <1>1, <1>2 DEF States
<1>4. Daemon \notin s.alive
  BY <1>1 DEF Daemon
<1>5. Wakeup(s, {})
  <2> DEFINE ex == {Daemon}
  <2>1. Wakeup(s, ex) /\ \A m \in ex : m \notin s.alive \/ ~HasParent(m)
    BY <1>1, <1>4
  <2> HIDE DEF ex
  <2> QED
    BY <2>1, NoException
<1> QED
  BY <1>1, <1>3, <1>5, FlagsBase DEF r

(* fire() of any event keeps the invariant. *)
LEMMA Fires ==
  ASSUME Shape, fed \in Nat, NEW s, NEW e, Ready(s, e)
  PROVE  Base(fire(s, e)) /\ Wakeup(fire(s, e), {})
<1>1. e = Daemon \/ e \in s.alive
  BY DEF Ready
<1>2. CASE e \in s.alive
  <2>1. e \in 1..Top
    BY <1>2 DEF Ready, Base, Chained
  <2>2. CASE e = 1
    BY <1>2, <2>2, SourceFires DEF Shape
  <2>3. CASE e # 1
    <3>1. e \in 2..Top
      BY <2>1, <2>3 DEF Shape
    <3>2. nodes[e].kind = "buffer" \/ IsSink(e)
      BY <3>1 DEF Shape, IsSink
    <3> QED
      BY <1>2, <3>2, BufferFires, SinkFires
  <2> QED
    BY <2>2, <2>3
<1> QED
  BY <1>1, <1>2, DaemonFires

-----------------------------------------------------------------------------
(***************************************************************************)
(* The steps of the specification.  Two uses of the library are left out:  *)
(* a buffer of one on an immediate node, whose assertion fails then, and   *)
(* building on a chain after take() has emptied it.                        *)
(***************************************************************************)
WideEnough == \A source \in Sources :
                 source = "immediate" => \A limit \in Caps[source] : limit > 1
TakenComplete == TakeFrom \in Nat /\ TakeFrom >= MaxNodes

(* The fields of the state that the variables make up. *)
LEMMA NowFields ==
  /\ Now.loop = loop /\ Now.store = store /\ Now.child = child
  /\ Now.child_storage = child_storage /\ Now.alive = alive
  /\ Now.conveyor_sink = conveyor_sink /\ Now.delete_nodes = delete_nodes
  /\ Now.out = out /\ Now.aborted = aborted /\ Now.cut = cut
BY DEF Now

(* A source alone: nothing is armed, and an immediate node holds its two   *)
(* elements.                                                               *)
LEMMA InitIInv ==
  ASSUME Init
  PROVE  IInv
<1>1. PICK source \in Sources, what \in Kinds :
        LET first == IF source = "adapt" THEN << >>
                     ELSE <<Element(1, what), Element(2, "critical")>> IN
        /\ LoopInit
        /\ nodes = <<[kind |-> source, limit |-> 0]>>
        /\ store = [i \in Node |-> IF i = 1 THEN first ELSE << >>]
        /\ child = [i \in Node |-> FALSE]
        /\ child_storage = [i \in Node |-> FALSE]
        /\ alive = {1}
        /\ conveyor_sink = FALSE
        /\ delete_nodes = FALSE
        /\ out = << >>
        /\ fed = Len(first) /\ turn = FALSE
        /\ aborted = FALSE
        /\ cut = FALSE
  BY DEF Init
<1> DEFINE first == IF source = "adapt" THEN << >>
                    ELSE <<Element(1, what), Element(2, "critical")>>
           s == Now
           c == Contents(s)
<1>2. /\ MaxNodes \in Nat /\ 1 <= MaxNodes /\ source \in {"adapt", "immediate"} /\ 1 \in Node /\ MaxFeed \in Nat
      /\ 0 \notin Node /\ 1 \in Event
  BY ChainAssumption, EventAssumption DEF Node
<1>3. /\ first \in Seq(Elements) /\ Len(first) \in Nat /\ fed = Len(first)
      /\ source = "adapt" => Len(first) = 0
      /\ source = "immediate" => Len(first) = 2
      /\ \A k \in 1..Len(first) : first[k].id = k /\ (k = 2 => first[k].kind = "critical")
  <2>1. CASE source = "adapt"
    <3>1. first = << >>
      BY <2>1
    <3> QED
      BY <2>1, <3>1, <1>1
  <2>2. CASE source = "immediate"
    <3> DEFINE a == Element(1, what)
               b == Element(2, "critical")
    <3>1. a \in Elements /\ b \in Elements /\ a.id = 1 /\ b.id = 2 /\ b.kind = "critical"
      BY <1>2 DEF Elements, Element
    <3>2. first = <<a, b>>
      BY <2>2
    <3> HIDE DEF a, b, first
    <3>3. first \in Seq(Elements) /\ Len(first) = 2 /\ first[1] = a /\ first[2] = b
      BY <3>1, <3>2
    <3>4. fed = Len(first)
      BY <1>1 DEF first
    <3>5. \A k \in 1..2 : k = 1 \/ k = 2
      OBVIOUS
    <3> QED
      BY <2>2, <3>1, <3>3, <3>4, <3>5
  <2> QED
    BY <2>1, <2>2, <1>2
<1> HIDE DEF first
<1>4. /\ loop = EmptyQueue /\ nodes = <<[kind |-> source, limit |-> 0]>>
      /\ store = [i \in Node |-> IF i = 1 THEN first ELSE << >>]
      /\ child = [i \in Node |-> FALSE] /\ child_storage = [i \in Node |-> FALSE]
      /\ alive = {1} /\ conveyor_sink = FALSE /\ delete_nodes = FALSE
      /\ out = << >> /\ aborted = FALSE /\ cut = FALSE
  BY <1>1 DEF first, LoopInit
<1>5. Top = 1 /\ nodes[1].kind = source /\ ~IsSink(1)
  BY <1>2, <1>4 DEF Top, IsSink
<1>6. Shape
  <2>1. nodes \in Seq([kind : {"adapt", "immediate", "buffer", "sink", "detached"}, limit : Nat])
    BY <1>2, <1>4
  <2>2. \A i \in 2..Top : FALSE
    BY <1>5
  <2>3. \A i \in 1..Top : i = 1
    BY <1>5
  <2> QED
    BY <2>1, <2>2, <2>3, <1>2, <1>5 DEF Shape
<1>7. /\ s.loop = EmptyQueue /\ s.store = store /\ s.child = child /\ s.child_storage = child_storage
      /\ s.alive = {1} /\ s.out = << >> /\ ~s.aborted /\ ~s.cut
  BY <1>4, NowFields
<1>8. store \in [Node -> Seq(Elements)] /\ child \in [Node -> BOOLEAN] /\ child_storage \in [Node -> BOOLEAN]
  BY <1>3, <1>4
<1>9. QueueInv(EmptyQueue, Dead(s)) /\ \A e \in Event : ~IsArmed(EmptyQueue, e)
  BY EmptyQueueInv
<1>10. s \in States
  <2>1. EmptyQueue \in Queues
    BY <1>9 DEF QueueInv
  <2>2. << >> \in Seq(Elements)
    OBVIOUS
  <2> QED
    BY <2>1, <2>2, <1>2, <1>4, <1>8 DEF States, Now
<1>11. store[1] = first /\ \A k \in Node : k # 1 => store[k] = << >>
  BY <1>2, <1>4
<1>12. \A k \in Node : ~child[k] /\ ~child_storage[k]
  BY <1>4
<1> HIDE DEF s
<1>13. Chained(s)
  <2>1. s.alive \in SUBSET (1..Top) /\ \A i \in s.alive : i = 1
    BY <1>5, <1>7
  <2>2. \A i \in s.alive : \A j \in 1..Top : i <= j => j \in s.alive
    BY <1>5, <1>7
  <2>3. ASSUME NEW k \in Node PROVE s.child[k] <=> 2 <= k /\ k <= Top /\ k - 1 \in s.alive
    <3>1. ~s.child[k]
      BY <1>7, <1>12
    <3>2. ~(2 <= k /\ k <= Top)
      BY <1>2, <1>5 DEF Node
    <3> QED
      BY <3>1, <3>2
  <2>4. \A k \in Node : ~s.child_storage[k]
    BY <1>7, <1>12
  <2>5. \A k \in Node : k \notin s.alive => s.store[k] = << >>
    BY <1>7, <1>11
  <2>6. \A k \in s.alive : ~IsSink(k) /\ nodes[k].kind # "buffer"
    BY <2>1, <1>2, <1>5
  <2> QED
    BY <2>1, <2>2, <2>3, <2>4, <2>5, <2>6 DEF Chained
<1>14. /\ c[1] = first /\ c[2] = << >> /\ \A j \in Nat : j # 1 => c[j] = << >>
  <2>1. 1 \in 1..Top /\ Top + 1 = 2
    BY <1>5
  <2>2. c[1] = first /\ c[2] = << >>
    BY <2>1, <1>6, <1>7, <1>10, <1>11, ContentsTypes
  <2>3. ASSUME NEW j \in Nat, j # 1 PROVE c[j] = << >>
    <3>1. j = 0 \/ j = 2 \/ j > Top + 1
      BY <2>1, <2>3
    <3> QED
      BY <2>2, <3>1, <1>6, <1>10, ContentsTypes
  <2> QED
    BY <2>2, <2>3
<1> HIDE DEF c
<1>15. Counted(c, 1, fed, {1})
  <2> DEFINE p == [j \in Nat |-> IF j = 1 THEN fed ELSE 0]
             al == {1}
  <2>1. p \in [Nat -> Nat] /\ (\A j \in Nat : p[j] <= fed) /\ p[1] = fed /\ p[3] = 0 /\ p[2] = 0
    BY <1>3
  <2> HIDE DEF p, al
  <2>2. ASSUME NEW j \in Nat, 1 <= j, j <= 2
        PROVE p[j] = p[j + 1] + Len(c[j]) /\ \A k \in 1..Len(c[j]) : c[j][k].id = p[j + 1] + k
    <3>1. CASE j = 1
      <4>1. fed = 0 + Len(first) /\ \A k \in 1..Len(first) : first[k].id = 0 + k
        BY <1>3
      <4> QED
        BY <3>1, <4>1, <2>1, <1>14
    <3>2. CASE j = 2
      <4>1. c[2] = << >> /\ Len(c[2]) = 0 /\ 2 + 1 = 3
        BY <1>14
      <4> QED
        BY <3>2, <4>1, <2>1
    <3> QED
      BY <2>2, <3>1, <3>2
  <2>3. Counts(p, c, 1, fed)
    <3>1. 1 + 1 = 2 /\ 1 + 2 = 3
      OBVIOUS
    <3> QED
      BY <2>1, <2>2, <3>1 DEF Counts
  <2>4. Counted(c, 1, fed, al)
    BY <2>1, <2>3 DEF Counted
  <2> QED
    BY <2>4 DEF al
<1>16. Numbered(s)
  BY <1>5, <1>7, <1>15 DEF Numbered, c
<1>17. GivesTwo(s)
  <2>1. nodes[1].kind = "immediate" => fed = 2
    BY <1>3, <1>5
  <2>2. Exhausted(c)
    <3> SUFFICES ASSUME NEW j \in Nat, NEW k \in 1..Len(c[j]), c[j][k].id = 2 PROVE c[j][k].kind = "critical"
      BY DEF Exhausted
    <3>1. j = 1
      BY <1>14
    <3> QED
      BY <3>1, <1>3, <1>14
  <2> QED
    BY <2>1, <2>2 DEF GivesTwo, c
<1>18. Queued(s)
  <2>1. \A i \in s.alive : i \in Event
    BY <1>2, <1>7
  <2>2. s.loop.laterInsert \notin Dead(s)
    <3>1. s.loop.laterInsert = HeadSlot
      BY <1>7 DEF EmptyQueue
    <3>2. Dead(s) = {}
      BY <1>5, <1>7 DEF Dead
    <3> QED
      BY <3>2
  <2> QED
    BY <2>1, <2>2, <1>7, <1>9 DEF Queued
<1>19. TornBehind(s)
  BY <1>5, <1>7 DEF TornBehind
<1>20. Wakeup(s, {})
  <2>1. Untaken(s)
    BY <1>7 DEF Untaken
  <2>2. \A i \in s.alive : ~HasParent(i)
    BY <1>5, <1>7 DEF HasParent
  <2>3. Remembered(s)
    BY <1>7, <1>12 DEF Remembered
  <2> QED
    BY <2>1, <2>2, <2>3 DEF Wakeup
<1> QED
  BY <1>3, <1>6, <1>7, <1>10, <1>13, <1>16, <1>17, <1>18, <1>19, <1>20 DEF IInv, Base, s

(* A step that becomes s and builds nothing. *)
LEMMA BecomesIInv ==
  ASSUME Shape, fed \in Nat, NEW s, Base(s), Wakeup(s, {}), Become(s),
         nodes' = nodes, fed' = fed
  PROVE  IInv'
<1>1. s \in States
  BY DEF Base
<1>2. Now' = s
  <2>1. s = [loop |-> s.loop, store |-> s.store, child |-> s.child,
             child_storage |-> s.child_storage, alive |-> s.alive,
             conveyor_sink |-> s.conveyor_sink, delete_nodes |-> s.delete_nodes,
             out |-> s.out, aborted |-> s.aborted, cut |-> s.cut]
    BY <1>1 DEF States
  <2> QED
    BY <2>1 DEF Become, Now
<1>3. Top' = Top
  BY DEF Top
<1>4. Shape'
  BY <1>3 DEF Shape, IsSink
<1>6. (Now \in States)'
  BY <1>1, <1>2
<1>7. Contents(Now)' = Contents(s)
  BY <1>2, <1>3 DEF Contents
<1>8. Dead(Now)' = Dead(s)
  BY <1>2, <1>3 DEF Dead
<1>9. Chained(Now)'
  BY <1>2, <1>3 DEF Base, Chained, IsSink
<1>10. Numbered(Now)' /\ GivesTwo(Now)' /\ TornBehind(Now)'
  BY <1>2, <1>3, <1>7 DEF Base, Numbered, GivesTwo, TornBehind
<1>11. Queued(Now)'
  BY <1>2, <1>8 DEF Base, Queued, IsSink
<1>12. Base(Now)'
  BY <1>2, <1>6, <1>9, <1>10, <1>11 DEF Base
<1>13. Wakeup(Now, {})'
  BY <1>2, <1>3 DEF Wakeup, Untaken, HasParent, Awake, Full, space, IsSink, Remembered
<1> QED
  BY <1>4, <1>12, <1>13 DEF IInv

(* turn() takes the head out of the queue and fires it. *)
LEMMA FireIInv ==
  ASSUME IInv, Fire
  PROVE  IInv'
<1> DEFINE s == Now
           e == s.loop.link[HeadSlot]
           t == [s EXCEPT !.loop = DoTurn(s.loop)]
<1>1. Shape /\ fed \in Nat /\ Base(s) /\ Wakeup(s, {}) /\ s.loop = loop
  BY NowFields DEF IInv
<1>2. e # Null /\ Become(fire(t, e)) /\ nodes' = nodes /\ fed' = fed
  BY <1>1 DEF Fire
<1> HIDE DEF s
<1>3. /\ Base(t) /\ SameButLoop(s, t)
      /\ e \in s.alive \cup {Daemon} /\ IsArmed(s.loop, e)
      /\ \A f \in Event : IsArmed(t.loop, f) <=> IsArmed(s.loop, f) /\ f # e
  BY <1>1, <1>2, TurnBase
<1> HIDE DEF e, t
<1>4. /\ t.store = s.store /\ t.child = s.child /\ t.child_storage = s.child_storage
      /\ t.alive = s.alive /\ t.out = s.out
  BY <1>3 DEF SameButLoop
<1>5. \A m \in s.alive : m \in Event
  BY <1>1, GiverFacts
<1>6. e \in Event
  BY <1>3, <1>5, EventAssumption
<1>7. Wakeup(t, {e})
  <2>1. Untaken(t) <=> Untaken(s)
    BY <1>4 DEF Untaken
  <2>2. Remembered(t) <=> Remembered(s)
    BY <1>4 DEF Remembered
  <2>3. ASSUME Untaken(s), NEW m \in s.alive, m # e, HasParent(m), s.store[m] # << >>
        PROVE  Awake(t, m)
    <3>1. Awake(s, m)
      BY <2>3, <1>1 DEF Wakeup
    <3>2. IsArmed(s.loop, m) => IsArmed(t.loop, m)
      BY <2>3, <1>3, <1>5
    <3> QED
      BY <3>1, <3>2, <1>4, SameFull DEF Awake
  <2> QED
    BY <2>1, <2>2, <2>3, <1>1, <1>4 DEF Wakeup
<1>8. Ready(t, e)
  <2>1. ~IsArmed(t.loop, e)
    BY <1>3, <1>6
  <2>2. e \in s.alive => IF IsSink(e) THEN Critical(s.out) ELSE e < MaxNodes => s.store[e] # << >>
    BY <1>1, <1>3 DEF Base, Queued
  <2> QED
    BY <2>1, <2>2, <1>3, <1>4, <1>7 DEF Ready
<1> DEFINE r == fire(t, e)
<1>9. Base(r) /\ Wakeup(r, {})
  BY <1>1, <1>8, Fires
<1> HIDE DEF r
<1> QED
  BY <1>1, <1>2, <1>9, BecomesIInv DEF r

(* The user lets go of the chain. *)
LEMMA DropIInv ==
  ASSUME IInv, Drop
  PROVE  IInv'
<1> DEFINE s == Now
           i == Top + 1
           r == Destroyed(s, i)
           none == {}
<1>1. Shape /\ fed \in Nat /\ Base(s) /\ Wakeup(s, none)
  BY DEF IInv
<1>2. Become(r) /\ nodes' = nodes /\ fed' = fed
  BY DEF Drop
<1>3. i \in Nat /\ 2 <= i /\ 1 <= i /\ i <= Top + 1 /\ i = Top + 1
  BY <1>1 DEF Shape
<1> HIDE DEF s, i, none
<1>4. Base(r)
  BY <1>1, <1>3, DestroyedBase
<1>5. Wakeup(r, none)
  BY <1>1, <1>3, DestroyedWakeup
<1> HIDE DEF r
<1> QED
  BY <1>1, <1>2, <1>4, <1>5, BecomesIInv DEF none

(* take() from the top of a complete chain. *)
LEMMA TakeIInv ==
  ASSUME TakenComplete, IInv, Take
  PROVE  IInv'
<1> DEFINE s == Now
           r == Given(s, Top)
<1>1. Shape /\ fed \in Nat /\ Base(s) /\ Wakeup(s, {}) /\ s \in States
  BY DEF IInv, Base
<1>2. /\ Top \in s.alive /\ ~IsSink(Top) /\ Top >= TakeFrom /\ s.store[Top] # << >>
      /\ Become([Popped(s, Top) EXCEPT !.out = Append(@, getResult(s, Top))])
      /\ nodes' = nodes /\ fed' = fed
  BY NowFields DEF Take
<1>3. Top = MaxNodes /\ Top \in Node
  BY <1>1, <1>2, ChainAssumption DEF Shape, TakenComplete, Node
<1> HIDE DEF s
<1>4. [Popped(s, Top) EXCEPT !.out = Append(@, getResult(s, Top))] = r
  <2> DEFINE x == getImpl(Head(s.store[Top]))
             y2 == Tail(s.store[Top])
             w0 == [s.store EXCEPT ![Top] = y2]
             w == [s EXCEPT !.store[Top] = y2]
             o == Append(s.out, x)
  <2>1. getResult(s, Top) = x
    BY <1>2 DEF getResult
  <2>2. Popped(s, Top) = w
    BY <1>2 DEF Popped
  <2> HIDE DEF x, y2
  <2>3. w.out = s.out /\ w = [s EXCEPT !.store = w0]
    BY <1>1 DEF States
  <2> HIDE DEF w, w0
  <2>4. [Popped(s, Top) EXCEPT !.out = Append(@, getResult(s, Top))] = [w EXCEPT !.out = o]
    BY <2>1, <2>2, <2>3
  <2>5. r = [s EXCEPT !.store = w0, !.out = o]
    BY DEF Given, w0, y2, x
  <2> HIDE DEF o
  <2>6. [[s EXCEPT !.store = w0] EXCEPT !.out = o] = [s EXCEPT !.store = w0, !.out = o]
    BY <1>1 DEF States
  <2> QED
    BY <2>3, <2>4, <2>5, <2>6
<1>5. Base(r) /\ r.out # << >>
  <2> DEFINE i == Top
  <2>1. /\ i \in s.alive /\ s.store[i] # << >> /\ (~IsArmed(s.loop, i) \/ i = MaxNodes)
        /\ (i = Top \/ (i + 1 = Top /\ IsSink(Top)))
    BY <1>2, <1>3
  <2> HIDE DEF i
  <2>2. Base(Given(s, i)) /\ Given(s, i).out # << >>
    BY <2>1, <1>1, GivenBase
  <2> QED
    BY <2>2 DEF i
<1> HIDE DEF r
<1>6. Wakeup(r, {})
  BY <1>2, <1>3, <1>5 DEF Wakeup, Untaken
<1> QED
  BY <1>1, <1>2, <1>4, <1>5, <1>6, BecomesIInv

(* feed() and fail(): the new element is the youngest, and the source is   *)
(* armed.                                                                  *)
LEMMA FeedIInv ==
  ASSUME IInv, NEW kind \in Kinds, Feed(kind)
  PROVE  IInv'
<1> DEFINE s == Now
           x == Element(fed + 1, kind)
           y == store[1]
           c == Contents(s)
           d == Contents(Now)'
<1>1. Shape /\ fed \in Nat /\ Base(s) /\ Wakeup(s, {}) /\ s \in States
  BY DEF IInv, Base
<1>2. /\ s.loop = loop /\ s.store = store /\ s.child = child
      /\ s.child_storage = child_storage /\ s.alive = alive
      /\ s.conveyor_sink = conveyor_sink /\ s.delete_nodes = delete_nodes
      /\ s.out = out /\ s.aborted = aborted /\ s.cut = cut
  BY NowFields
<1>3. /\ nodes[1].kind = "adapt" /\ 1 \in alive /\ fed < MaxFeed /\ fed' = fed + 1
      /\ store' = [store EXCEPT ![1] = Append(y, x)]
      /\ loop' = DoArmNext(loop, 1)
      /\ nodes' = nodes /\ child' = child /\ child_storage' = child_storage /\ alive' = alive
      /\ conveyor_sink' = conveyor_sink /\ delete_nodes' = delete_nodes /\ out' = out
      /\ aborted' = aborted /\ cut' = cut
  BY DEF Feed
<1>4. Top \in Nat /\ 1 <= Top /\ Top <= MaxNodes /\ 1 \in Node /\ 1 \in Event /\ ~IsSink(1) /\ Top' = Top
      /\ 1 \in 1..Top /\ 1..Top \subseteq Node /\ 1..Top \subseteq Event
  BY <1>1, <1>3, ChainAssumption, EventAssumption DEF Shape, Node, Top, IsSink
<1>5. x \in Elements /\ x.id = fed + 1
  BY <1>1, <1>3, ChainAssumption DEF Elements, Element
<1>6. store \in [Node -> Seq(Elements)] /\ y \in Seq(Elements)
  BY <1>1, <1>2, <1>4, StateFields
<1> HIDE DEF x, y
<1>7. Append(y, x) \in Seq(Elements) /\ Longer(Append(y, x), y, x) /\ Len(y) \in Nat
  BY <1>5, <1>6, BackGrown DEF Longer
<1>8. /\ store' \in [Node -> Seq(Elements)] /\ store'[1] # << >> /\ Longer(store'[1], store[1], x)
      /\ \A k \in Node : k # 1 => store'[k] = store[k]
  <2> DEFINE z == Append(y, x)
  <2>1. z \in Seq(Elements) /\ Longer(z, y, x) /\ Len(y) \in Nat /\ store' = [store EXCEPT ![1] = z]
    BY <1>3, <1>7
  <2> HIDE DEF z
  <2>2. z # << >>
    BY <2>1 DEF Longer
  <2> QED
    BY <2>1, <2>2, <1>4, <1>6 DEF y
<1>9. QueueInv(loop, Dead(s)) /\ Dead(s) \in SUBSET Event /\ 1 \notin Dead(s)
  BY <1>1, <1>2, <1>3, NodeIsEvent DEF Base, Chained, Queued
<1>10. /\ QueueInv(loop', Dead(s))
       /\ \A f \in Event : IsArmed(loop', f) <=> IsArmed(loop, f) \/ f = 1
       /\ loop'.laterInsert \in {loop.laterInsert, 1}
  <2> DEFINE e == 1
             q == loop
             dead == Dead(s)
  <2>1. QueueInv(q, dead) /\ dead \in SUBSET Event /\ e \notin dead /\ e \in Event /\ loop' = DoArmNext(q, e)
    BY <1>3, <1>4, <1>9
  <2> HIDE DEF e, q, dead
  <2>2. LET r == DoArmNext(q, e) IN
        /\ QueueInv(r, dead)
        /\ \A f \in Event : IsArmed(r, f) <=> IsArmed(q, f) \/ f = e
        /\ r.laterInsert \in {q.laterInsert, e}
    BY <2>1, ArmNextInv
  <2> QED
    BY <2>1, <2>2 DEF e, q, dead
<1>11. /\ Now'.loop = loop' /\ Now'.store = store' /\ Now'.child = child
       /\ Now'.child_storage = child_storage /\ Now'.alive = alive
       /\ Now'.out = out /\ Now'.aborted = aborted /\ Now'.cut = cut
  BY <1>3 DEF Now
<1>12. (Now \in States)'
  <2>1. loop' \in Queues
    BY <1>10 DEF QueueInv
  <2>2. /\ s.child \in [Node -> BOOLEAN] /\ s.child_storage \in [Node -> BOOLEAN]
        /\ s.alive \in SUBSET Node /\ s.conveyor_sink \in BOOLEAN
        /\ s.delete_nodes \in BOOLEAN /\ s.out \in Seq(Elements)
        /\ s.aborted \in BOOLEAN /\ s.cut \in BOOLEAN
    BY <1>1, StateFields
  <2>3. /\ child \in [Node -> BOOLEAN] /\ child_storage \in [Node -> BOOLEAN]
        /\ alive \in SUBSET Node /\ conveyor_sink \in BOOLEAN
        /\ delete_nodes \in BOOLEAN /\ out \in Seq(Elements)
        /\ aborted \in BOOLEAN /\ cut \in BOOLEAN
    BY <2>2, <1>2
  <2> HIDE DEF s
  <2> QED
    BY <2>1, <2>3, <1>3, <1>8 DEF Now, States
<1> DEFINE t == Now'
<1> HIDE DEF s
<1>13. Chained(Now)'
  <2>1. Chained(s)
    BY <1>1 DEF Base
  <2>2. \A k \in Node : child_storage[k] => child[k] /\ k # 1 /\ ~Critical(store[k])
    <3>1. \A k \in Node : child_storage[k] => child[k] /\ ~Critical(store[k])
      BY <2>1, <1>2 DEF Chained
    <3>2. ~child[1]
      BY <2>1, <1>2, <1>4 DEF Chained
    <3> QED
      BY <3>1, <3>2
  <2>3. \A k \in Node : k \notin alive => k # 1 /\ store[k] = << >>
    BY <2>1, <1>2, <1>3 DEF Chained
  <2>4. \A k \in alive : k \in Node
    BY <2>1, <1>2, <1>4 DEF Chained
  <2>5. \A k \in alive : IsSink(k) => store'[k] = << >>
    BY <2>1, <2>4, <1>2, <1>4, <1>8 DEF Chained
  <2>6. \A k \in alive : nodes[k].kind = "buffer" => Len(store'[k]) <= nodes[k].limit
    BY <2>1, <2>4, <1>2, <1>3, <1>8 DEF Chained
  <2>7. /\ alive \in SUBSET (1..Top)
        /\ \A i \in alive : \A j \in 1..Top : i <= j => j \in alive
        /\ \A k \in Node : child[k] <=> 2 <= k /\ k <= Top /\ k - 1 \in alive
    BY <2>1, <1>2 DEF Chained
  <2>8. \A k \in Node : child_storage[k] => child[k] /\ ~Critical(store'[k])
    BY <2>2, <1>8
  <2>9. \A k \in Node : k \notin alive => store'[k] = << >>
    BY <2>3, <1>8
  <2> QED
    BY <2>5, <2>6, <2>7, <2>8, <2>9, <1>3, <1>4, <1>11 DEF Chained, IsSink
<1>14. /\ d[1] = store'[1] /\ c[1] = store[1] /\ \A j \in Nat : j # 1 => d[j] = c[j]
  <2>1. d = [j \in Nat |-> IF 1 <= j /\ j <= Top THEN store'[j] ELSE IF j = Top + 1 THEN out ELSE << >>]
    BY <1>4, <1>11 DEF Contents
  <2>2. c = [j \in Nat |-> IF 1 <= j /\ j <= Top THEN store[j] ELSE IF j = Top + 1 THEN out ELSE << >>]
    BY <1>2 DEF Contents
  <2> HIDE DEF c, d, Top
  <2>3. ASSUME NEW j \in Nat, j # 1 PROVE d[j] = c[j]
    <3>1. CASE 1 <= j /\ j <= Top
      <4>1. j \in 1..Top
        BY <3>1, <1>4
      <4>2. store'[j] = store[j]
        BY <2>3, <4>1, <1>4, <1>8
      <4> QED
        BY <2>1, <2>2, <3>1, <4>2
    <3>2. CASE ~(1 <= j /\ j <= Top)
      BY <2>1, <2>2, <3>2
    <3> QED
      BY <3>1, <3>2
  <2> QED
    BY <2>1, <2>2, <2>3, <1>4
<1>15. Numbered(Now)'
  <2> DEFINE n == Top
             f == fed
  <2>1. n \in Nat /\ n >= 1 /\ f \in Nat /\ HasLengths(c) /\ Counted(c, n, f, alive) /\ x.id = f + 1
        /\ 1 \in alive
    BY <1>1, <1>2, <1>3, <1>4, <1>5, ContentsTypes DEF Base, Numbered
  <2>2. Longer(d[1], c[1], x)
    BY <1>8, <1>14
  <2>3. \A j \in Nat : j # 1 => d[j] = c[j]
    BY <1>14
  <2> HIDE DEF c, d, n, f
  <2>4. Counted(d, n, f + 1, alive)
    BY <2>1, <2>2, <2>3, CountedFed
  <2> QED
    BY <2>4, <1>3, <1>4, <1>11 DEF Numbered, d, n, f
<1>16. GivesTwo(Now)'
  BY <1>3 DEF GivesTwo
<1>17. Queued(Now)'
  <2>1. Dead(Now)' = Dead(s)
    BY <1>2, <1>4, <1>11 DEF Dead
  <2>2. Queued(s)
    BY <1>1 DEF Base
  <2>3. ~cut => loop'.laterInsert \notin Dead(s)
    BY <2>2, <1>2, <1>9, <1>10 DEF Queued
  <2>4. \A e \in Event : IsArmed(loop', e) => e \in alive \cup {Daemon}
    BY <2>2, <1>2, <1>3, <1>10 DEF Queued
  <2>5. ASSUME NEW i \in alive, IsArmed(loop', i)
        PROVE  IF IsSink(i) THEN Critical(out) ELSE i < MaxNodes => store'[i] # << >>
    <3>1. CASE i = 1
      BY <3>1, <1>4, <1>8
    <3>2. CASE i # 1
      <4>1. i \in Node /\ i \in Event
        BY <1>1, <1>2, <1>4 DEF Base, Chained
      <4>2. IsArmed(loop, i) /\ store'[i] = store[i]
        BY <2>5, <3>2, <4>1, <1>8, <1>10
      <4> QED
        BY <2>2, <4>2, <1>2 DEF Queued
    <3> QED
      BY <3>1, <3>2
  <2> QED
    BY <2>1, <2>3, <2>4, <2>5, <1>3, <1>10, <1>11 DEF Queued, IsSink
<1>18. TornBehind(Now)'
  <2>1. \A i \in 1..Top : i \in alive
    <3>1. ASSUME NEW i \in 1..Top PROVE i \in alive
      <4>1. 1 <= i
        BY <1>4
      <4> QED
        BY <4>1, <1>1, <1>2, <1>3 DEF Base, Chained
    <3> QED
      BY <3>1
  <2> QED
    BY <2>1, <1>4, <1>11 DEF TornBehind
<1>19. Wakeup(Now, {})'
  <2>1. Untaken(s) <=> IsSink(Top) \/ out = << >>
    BY <1>2 DEF Untaken
  <2>2. ASSUME Untaken(s), NEW i \in alive, HasParent(i), store'[i] # << >>
        PROVE  IsArmed(loop', i) \/ (nodes[i].kind # "adapt" /\ Full(t, i + 1))
    <3>1. i \in Nat /\ 1 <= i /\ i \in Node /\ i \in Event /\ i + 1 \in Node
      BY <2>2, <1>1, <1>2, GiverFacts DEF HasParent
    <3>2. CASE i = 1
      BY <3>1, <3>2, <1>10
    <3>3. CASE i # 1
      <4>1. store'[i] = store[i] /\ store'[i + 1] = store[i + 1]
        BY <3>1, <3>3, <1>8
      <4>2. Awake(s, i)
        BY <2>2, <4>1, <1>1, <1>2 DEF Wakeup
      <4>3. Full(s, i + 1) <=> Full(t, i + 1)
        BY <4>1, <1>2, <1>11, SameFull
      <4> QED
        BY <3>1, <4>2, <4>3, <1>2, <1>10 DEF Awake
    <3> QED
      BY <3>2, <3>3
  <2>3. ASSUME Untaken(s), NEW k \in Node, child[k], ~child_storage[k] PROVE Critical(store'[k])
    <3>1. k # 1
      BY <2>3, <1>1, <1>2, <1>4 DEF Base, Chained
    <3> QED
      BY <2>3, <3>1, <1>1, <1>2, <1>8 DEF Wakeup, Remembered
  <2>4. Untaken(Now)' <=> Untaken(s)
    BY <2>1, <1>3, <1>4, <1>11 DEF Untaken, IsSink
  <2>5. Untaken(s) => Remembered(Now)'
    BY <2>3, <1>11 DEF Remembered
  <2>6. ASSUME NEW i PROVE Full(Now, i + 1)' <=> Full(t, i + 1)
    BY <1>3 DEF Full, space, IsSink
  <2>7. ASSUME Untaken(s), NEW i \in alive, (i < Top), store'[i] # << >> PROVE Awake(Now, i)'
    BY <2>2, <2>6, <2>7, <1>3, <1>11 DEF Awake, HasParent
  <2>8. ~Untaken(s) => Top = MaxNodes
    BY <1>1 DEF Wakeup
  <2> QED
    BY <2>4, <2>5, <2>7, <2>8, <1>4, <1>11 DEF Wakeup, HasParent
<1>20. Base(Now)'
  <2>1. ~aborted
    BY <1>1, <1>2 DEF Base
  <2> QED
    BY <2>1, <1>11, <1>12, <1>13, <1>15, <1>16, <1>17, <1>18 DEF Base
<1>21. Shape'
  BY <1>1, <1>3, <1>4 DEF Shape, IsSink
<1> QED
  BY <1>1, <1>3, <1>19, <1>20, <1>21 DEF IInv

(* buffer() and sink(): the new top is empty, and the old one is armed if  *)
(* it holds something.                                                     *)
LEMMA BuildIInv ==
  ASSUME IInv, NEW kind \in {"buffer", "sink", "detached"}, NEW limit \in Nat,
         kind = "buffer" => limit > (IF nodes[1].kind = "immediate" THEN 1 ELSE 0),
         Build(kind, limit)
  PROVE  IInv'
<1> DEFINE s == Now
           n == Top
           c == Contents(s)
           d == Contents(Now)'
<1>1. Shape /\ fed \in Nat /\ Base(s) /\ Wakeup(s, {}) /\ s \in States
  BY DEF IInv, Base
<1>2. /\ s.loop = loop /\ s.store = store /\ s.child = child
      /\ s.child_storage = child_storage /\ s.alive = alive
      /\ s.conveyor_sink = conveyor_sink /\ s.delete_nodes = delete_nodes
      /\ s.out = out /\ s.aborted = aborted /\ s.cut = cut
  BY NowFields
<1>3. /\ n \in alive /\ n < MaxNodes /\ ~IsSink(n)
      /\ nodes' = Append(nodes, [kind |-> kind, limit |-> limit])
      /\ child' = [child EXCEPT ![n + 1] = TRUE]
      /\ child_storage' = [child_storage EXCEPT ![n + 1] = TRUE]
      /\ alive' = alive \cup {n + 1}
      /\ conveyor_sink' = (kind = "detached")
      /\ loop' = setParent(loop)
      /\ store' = store /\ delete_nodes' = delete_nodes /\ out' = out /\ fed' = fed
      /\ aborted' = aborted /\ cut' = cut
  BY DEF Build
<1>4. /\ n \in Nat /\ 1 <= n /\ MaxNodes \in Nat /\ n + 1 \in Node /\ n \in Node /\ n + 1 \in Nat
      /\ n \in Event /\ n + 1 \in Event /\ n + 1 # n
      /\ 1..n \subseteq Node /\ 1..n \subseteq Event
  BY <1>1, <1>3, ChainAssumption, EventAssumption DEF Shape, Node
<1>5. /\ Top' = n + 1
      /\ nodes' \in Seq([kind : {"adapt", "immediate", "buffer", "sink", "detached"}, limit : Nat])
      /\ \A k \in 1..n : nodes'[k] = nodes[k]
      /\ nodes'[n + 1].kind = kind /\ nodes'[n + 1].limit = limit
  <2> DEFINE S == [kind : {"adapt", "immediate", "buffer", "sink", "detached"}, limit : Nat]
             x == [kind |-> kind, limit |-> limit]
             z == Append(nodes, x)
  <2>1. x \in S /\ nodes \in Seq(S) /\ x.kind = kind /\ x.limit = limit
    BY <1>1 DEF Shape
  <2> HIDE DEF x, S
  <2>2. z \in Seq(S) /\ Len(z) = Len(nodes) + 1 /\ (\A k \in 1..Len(nodes) : z[k] = nodes[k])
        /\ z[Len(nodes) + 1] = x
    BY <2>1, BackGrown
  <2>3. nodes' = z
    BY <1>3 DEF x
  <2> HIDE DEF z
  <2> QED
    BY <2>1, <2>2, <2>3 DEF Top, S
<1>6. Chained(s) /\ Queued(s) /\ s.alive \in SUBSET (1..n)
  BY <1>1 DEF Base, Chained
<1>7. n + 1 \notin alive /\ alive \subseteq 1..n
  BY <1>2, <1>4, <1>6
<1>8. out = << >> /\ Untaken(s)
  <2>1. Untaken(s)
    BY <1>1, <1>3, <1>4 DEF Wakeup
  <2> QED
    BY <2>1, <1>2, <1>3 DEF Untaken
<1>9. \A k \in 1..n : IsSink(k)' <=> IsSink(k)
  BY <1>5 DEF IsSink
<1> HIDE DEF n, s
<1>10. Shape'
  <2>1. /\ nodes' \in Seq([kind : {"adapt", "immediate", "buffer", "sink", "detached"}, limit : Nat])
        /\ n + 1 \in Nat /\ 1 <= n + 1 /\ n + 1 <= MaxNodes
    BY <1>3, <1>4, <1>5
  <2>2. nodes'[1] = nodes[1]
    BY <1>4, <1>5
  <2>3. nodes'[1].kind \in {"adapt", "immediate"} \cap Sources
    BY <2>2, <1>1 DEF Shape
  <2>4. ASSUME NEW i \in 2..(n + 1)
        PROVE  /\ nodes'[i].kind \in {"buffer", "sink", "detached"}
               /\ nodes'[i].kind = "buffer" =>
                    nodes'[i].limit > (IF nodes'[1].kind = "immediate" THEN 1 ELSE 0)
    <3>1. CASE i = n + 1
      BY <2>2, <3>1, <1>5
    <3>2. CASE i # n + 1
      <4>1. i \in 2..n /\ i \in 1..n
        BY <3>2, <1>4
      <4>2. nodes'[i] = nodes[i]
        BY <4>1, <1>5
      <4> QED
        BY <2>2, <4>1, <4>2, <1>1 DEF Shape, n
    <3> QED
      BY <3>1, <3>2
  <2>5. ASSUME NEW i \in 1..(n + 1), IsSink(i)' PROVE i = n + 1
    <3>1. CASE i \in 1..n
      <4>1. IsSink(i)
        BY <2>5, <3>1, <1>9
      <4>2. i = n
        BY <3>1, <4>1, <1>1 DEF Shape, n
      <4> QED
        BY <4>1, <4>2, <1>3
    <3>2. CASE i \notin 1..n
      BY <3>2, <1>4
    <3> QED
      BY <3>1, <3>2
  <2> QED
    BY <2>1, <2>3, <2>4, <2>5, <1>5 DEF Shape
<1>11. /\ \A k \in Node : child'[k] <=> child[k] \/ k = n + 1
       /\ \A k \in Node : child_storage'[k] <=> child_storage[k] \/ k = n + 1
       /\ child' \in [Node -> BOOLEAN] /\ child_storage' \in [Node -> BOOLEAN]
  <2>1. child \in [Node -> BOOLEAN] /\ child_storage \in [Node -> BOOLEAN]
    BY <1>1, <1>2, StateFields
  <2> QED
    BY <2>1, <1>3, <1>4
<1>12. /\ QueueInv(loop', Dead(s))
       /\ \A f \in Event : IsArmed(loop', f) <=> IsArmed(loop, f) \/ (f = n /\ store[n] # << >>)
       /\ loop'.laterInsert \in {loop.laterInsert, n}
  <2> DEFINE q == loop
             dead == Dead(s)
  <2>1. QueueInv(q, dead) /\ dead \in SUBSET Event /\ n \notin dead /\ n \in Event
    BY <1>1, <1>2, <1>3, <1>4, <1>6, NodeIsEvent DEF Queued, n
  <2>2. loop' = IF store[n] # << >> THEN DoArmLater(q, n) ELSE q
    BY <1>3 DEF setParent, n
  <2> HIDE DEF q, dead
  <2>3. LET r == DoArmLater(q, n) IN
        /\ QueueInv(r, dead)
        /\ \A f \in Event : IsArmed(r, f) <=> IsArmed(q, f) \/ f = n
        /\ r.laterInsert \in {q.laterInsert, n}
    BY <2>1, ArmLaterInv
  <2>4. CASE store[n] # << >>
    BY <2>2, <2>3, <2>4 DEF q, dead
  <2>5. CASE store[n] = << >>
    BY <2>1, <2>2, <2>5 DEF q, dead
  <2> QED
    BY <2>4, <2>5
<1>13. /\ Now'.loop = loop' /\ Now'.store = store /\ Now'.child = child'
       /\ Now'.child_storage = child_storage' /\ Now'.alive = alive'
       /\ Now'.out = out /\ Now'.aborted = aborted /\ Now'.cut = cut
  BY <1>3 DEF Now
<1>14. (Now \in States)'
  <2>1. loop' \in Queues
    BY <1>12 DEF QueueInv
  <2>2. /\ store \in [Node -> Seq(Elements)]
        /\ alive \in SUBSET Node
        /\ delete_nodes \in BOOLEAN /\ out \in Seq(Elements)
        /\ aborted \in BOOLEAN /\ cut \in BOOLEAN
    BY <1>1, <1>2, StateFields
  <2>3. alive' \in SUBSET Node /\ conveyor_sink' \in BOOLEAN
    BY <2>2, <1>3, <1>4
  <2> QED
    BY <2>1, <2>2, <2>3, <1>3, <1>11 DEF Now, States
<1>15. Chained(Now)'
  <2>1. alive' \in SUBSET (1..(n + 1))
    BY <1>3, <1>4, <1>7
  <2>2. ASSUME NEW i \in alive', NEW j \in 1..(n + 1), i <= j PROVE j \in alive'
    <3>1. CASE j = n + 1
      BY <3>1, <1>3
    <3>2. CASE j # n + 1
      <4>1. j \in 1..n /\ i \in alive
        BY <2>1, <2>2, <3>2, <1>3, <1>4
      <4> QED
        BY <2>2, <4>1, <1>2, <1>3, <1>6 DEF Chained, n
    <3> QED
      BY <3>1, <3>2
  <2>3. ASSUME NEW k \in Node PROVE child'[k] <=> 2 <= k /\ k <= n + 1 /\ k - 1 \in alive'
    <3>1. k \in Nat
      BY ChainAssumption DEF Node
    <3>2. child[k] <=> 2 <= k /\ k <= n /\ k - 1 \in alive
      BY <1>2, <1>6 DEF Chained, n
    <3>3. CASE k = n + 1
      <4>1. k - 1 \in alive' /\ 2 <= k /\ k <= n + 1
        BY <3>3, <1>3, <1>4
      <4> QED
        BY <3>3, <4>1, <1>11
    <3>4. CASE k # n + 1
      <4>1. child'[k] <=> child[k]
        BY <3>4, <1>11
      <4>2. k <= n + 1 <=> k <= n
        BY <3>1, <3>4, <1>4
      <4>3. k <= n => (k - 1 \in alive' <=> k - 1 \in alive)
        BY <3>1, <1>3, <1>4
      <4> QED
        BY <3>2, <4>1, <4>2, <4>3
    <3> QED
      BY <3>3, <3>4
  <2>4. ASSUME NEW k \in Node, child_storage'[k] PROVE child'[k] /\ ~Critical(store[k])
    <3>1. CASE k = n + 1
      <4>1. store[k] = << >>
        BY <3>1, <1>2, <1>6, <1>7 DEF Chained
      <4>2. ~Critical(store[k])
        BY <4>1 DEF Critical
      <4> QED
        BY <3>1, <4>2, <1>11
    <3>2. CASE k # n + 1
      BY <2>4, <3>2, <1>2, <1>6, <1>11 DEF Chained
    <3> QED
      BY <3>1, <3>2
  <2>5. \A k \in Node : k \notin alive' => store[k] = << >>
    BY <1>2, <1>3, <1>6 DEF Chained
  <2>6. store[n + 1] = << >>
    BY <1>2, <1>4, <1>6, <1>7 DEF Chained
  <2>7. ASSUME NEW k \in alive', IsSink(k)' PROVE store[k] = << >>
    <3>1. CASE k = n + 1
      BY <2>6, <3>1
    <3>2. CASE k # n + 1
      <4>1. k \in alive /\ k \in 1..n
        BY <3>2, <1>3, <1>7
      <4> QED
        BY <2>7, <4>1, <1>2, <1>6, <1>9 DEF Chained
    <3> QED
      BY <3>1, <3>2
  <2>8. ASSUME NEW k \in alive', nodes'[k].kind = "buffer" PROVE Len(store[k]) <= nodes'[k].limit
    <3>1. CASE k = n + 1
      <4>1. Len(store[k]) = 0 /\ nodes'[k].limit = limit
        BY <2>6, <3>1, <1>5
      <4> QED
        BY <4>1
    <3>2. CASE k # n + 1
      <4>1. k \in alive /\ k \in 1..n
        BY <3>2, <1>3, <1>7
      <4> QED
        BY <2>8, <4>1, <1>2, <1>5, <1>6 DEF Chained
    <3> QED
      BY <3>1, <3>2
  <2> QED
    BY <2>1, <2>2, <2>3, <2>4, <2>5, <2>7, <2>8, <1>5, <1>13 DEF Chained
<1>16. /\ d[n + 2] = c[n + 1] /\ d[n + 1] = << >> /\ \A j \in Nat : j <= n => d[j] = c[j]
       /\ \A j \in Nat : j > n + 2 => d[j] = << >>
       /\ c[n + 1] = out
  <2>1. d = [j \in Nat |-> IF 1 <= j /\ j <= n + 1 THEN store[j] ELSE IF j = n + 1 + 1 THEN out ELSE << >>]
    BY <1>5, <1>13 DEF Contents
  <2>2. c = [j \in Nat |-> IF 1 <= j /\ j <= n THEN store[j] ELSE IF j = n + 1 THEN out ELSE << >>]
    BY <1>2 DEF Contents, n
  <2>3. store[n + 1] = << >>
    BY <1>2, <1>4, <1>6, <1>7 DEF Chained
  <2>4. n + 2 \in Nat /\ n + 1 + 1 = n + 2 /\ ~(n + 2 <= n + 1) /\ ~(n + 1 <= n) /\ 1 <= n + 1
    BY <1>4
  <2> HIDE DEF c, d
  <2>5. c[n + 1] = out
    BY <2>2, <2>4, <1>4
  <2>6. d[n + 2] = out
    BY <2>1, <2>4, <1>4
  <2>7. d[n + 1] = << >>
    BY <2>1, <2>3, <2>4, <1>4
  <2>8. ASSUME NEW j \in Nat, j <= n PROVE d[j] = c[j]
    <3>1. j <= n + 1 /\ j # n + 1 /\ j # n + 1 + 1
      BY <2>8, <1>4
    <3> QED
      BY <2>1, <2>2, <2>8, <3>1
  <2>9. ASSUME NEW j \in Nat, j > n + 2 PROVE d[j] = << >>
    <3>1. ~(j <= n + 1) /\ j # n + 1 + 1
      BY <2>9, <1>4
    <3> QED
      BY <2>1, <3>1
  <2> QED
    BY <2>5, <2>6, <2>7, <2>8, <2>9
<1>17. Numbered(Now)'
  <2> DEFINE f == fed
             later == alive'
             al == alive
  <2>1. n \in Nat /\ n >= 1 /\ f \in Nat /\ HasLengths(c) /\ Counted(c, n, f, al)
        /\ (1 \in later => 1 \in al)
    BY <1>1, <1>2, <1>3, <1>4, ContentsTypes DEF Base, Numbered, n
  <2>2. Len(d[n + 1]) = 0 /\ d[n + 2] = c[n + 1] /\ \A j \in Nat : j <= n => d[j] = c[j]
    BY <1>16
  <2> HIDE DEF c, d, f, later, al
  <2>3. Counted(d, n + 1, f, later)
    BY <2>1, <2>2, CountedBuilt
  <2> QED
    BY <2>3, <1>3, <1>5, <1>13 DEF Numbered, d, f, later
<1> HIDE DEF c, d
<1>18. GivesTwo(Now)'
  <2>1. nodes'[1] = nodes[1]
    BY <1>4, <1>5
  <2>2. nodes[1].kind = "immediate" => fed = 2 /\ Exhausted(c)
    BY <1>1 DEF Base, GivesTwo, c
  <2>3. ASSUME Exhausted(c) PROVE Exhausted(d)
    <3> SUFFICES ASSUME NEW j \in Nat, NEW k \in 1..Len(d[j]), d[j][k].id = 2
                 PROVE  d[j][k].kind = "critical"
      BY DEF Exhausted
    <3>1. CASE j <= n
      BY <2>3, <3>1, <1>16 DEF Exhausted
    <3>2. CASE j > n
      <4>1. d[j] = << >>
        <5>1. j = n + 1 \/ j = n + 2 \/ j > n + 2
          BY <3>2, <1>4
        <5> QED
          BY <5>1, <1>8, <1>16
      <4> QED
        BY <4>1
    <3> QED
      BY <3>1, <3>2, <1>4
  <2> QED
    BY <2>1, <2>2, <2>3, <1>3 DEF GivesTwo, d
<1>19. Queued(Now)'
  <2>1. Dead(Now)' = Dead(s)
    <3>1. Dead(Now)' = (1..(n + 1)) \ (alive \cup {n + 1})
      BY <1>3, <1>5, <1>13 DEF Dead
    <3>2. Dead(s) = (1..n) \ alive
      BY <1>2 DEF Dead, n
    <3> QED
      BY <3>1, <3>2, <1>4
  <2>2. ~cut => loop'.laterInsert \notin Dead(s)
    BY <1>2, <1>3, <1>6, <1>12 DEF Queued, Dead
  <2>3. \A e \in Event : IsArmed(loop', e) => e \in alive' \cup {Daemon}
    BY <1>2, <1>3, <1>6, <1>12 DEF Queued
  <2>4. ASSUME NEW i \in alive', IsArmed(loop', i)
        PROVE  IF IsSink(i)' THEN Critical(out) ELSE i < MaxNodes => store[i] # << >>
    <3>1. i # n + 1
      <4>1. SUFFICES ASSUME i = n + 1 PROVE FALSE
        OBVIOUS
      <4>2. IsArmed(loop, n + 1)
        BY <2>4, <4>1, <1>4, <1>12
      <4>3. n + 1 # Daemon
        BY <1>4 DEF Daemon
      <4> QED
        BY <4>2, <4>3, <1>2, <1>4, <1>6, <1>7 DEF Queued
    <3>2. i \in alive /\ i \in 1..n /\ i \in Event
      BY <3>1, <1>3, <1>4, <1>7
    <3>3. CASE IsArmed(loop, i)
      BY <3>2, <3>3, <1>2, <1>6, <1>9 DEF Queued
    <3>4. CASE i = n /\ store[n] # << >>
      BY <3>2, <3>4, <1>3, <1>9
    <3> QED
      BY <2>4, <3>2, <3>3, <3>4, <1>12
  <2> QED
    BY <2>1, <2>2, <2>3, <2>4, <1>12, <1>13 DEF Queued
<1>20. TornBehind(Now)'
  <2> SUFFICES ASSUME NEW i \in 1..(n + 1), i \notin alive' PROVE EndsAbove(d, i, n + 1)
    BY <1>5, <1>13 DEF TornBehind, d
  <2>1. i \in 1..n /\ i \notin alive
    BY <1>3, <1>4
  <2>2. EndsAbove(c, i, n)
    BY <2>1, <1>1, <1>2, <1>3 DEF Base, TornBehind, n, c
  <2>3. PICK j \in Nat : i < j /\ j <= n + 1 /\ Critical(c[j])
    BY <2>2 DEF EndsAbove
  <2>4. j <= n
    <3>1. SUFFICES ASSUME j = n + 1 PROVE FALSE
      BY <2>3, <1>4
    <3>2. c[j] = << >>
      BY <3>1, <1>8, <1>16
    <3> QED
      BY <2>3, <3>2 DEF Critical
  <2>5. d[j] = c[j] /\ j <= n + 1 + 1
    BY <2>4, <1>4, <1>16
  <2> QED
    BY <2>3, <2>5 DEF EndsAbove
<1>21. Wakeup(Now, {})'
  <2>1. Untaken(Now)'
    BY <1>8, <1>13 DEF Untaken
  <2>2. ASSUME NEW i \in alive', i < n + 1, store[i] # << >> PROVE Awake(Now, i)'
    <3>1. i \in alive /\ i \in 1..n /\ i \in Node /\ i \in Event /\ i \in Nat /\ i <= n
      <4>1. i # n + 1
        BY <2>2, <1>4
      <4>2. i \in alive /\ i \in 1..n
        BY <4>1, <1>3, <1>7
      <4> QED
        BY <4>2, <1>4
    <3>2. CASE i = n
      BY <2>2, <3>1, <3>2, <1>12, <1>13 DEF Awake
    <3>3. CASE i # n
      <4>1. i < n /\ i + 1 \in 1..n
        BY <3>1, <3>3, <1>4
      <4>2. Awake(s, i)
        BY <2>2, <3>1, <4>1, <1>1, <1>2, <1>8 DEF Wakeup, HasParent, n
      <4>3. nodes'[i] = nodes[i] /\ nodes'[i + 1] = nodes[i + 1] /\ (IsSink(i + 1)' <=> IsSink(i + 1))
        BY <3>1, <4>1, <1>5, <1>9
      <4>4. Full(Now, i + 1)' <=> Full(s, i + 1)
        <5>1. space(Now, i + 1)' = space(s, i + 1)
          BY <4>3, <1>2, <1>13 DEF space
        <5> QED
          BY <5>1, <1>2, <1>13 DEF Full
      <4>5. IsArmed(loop, i) => IsArmed(loop', i)
        BY <3>1, <1>12
      <4> QED
        BY <4>2, <4>3, <4>4, <4>5, <1>2, <1>13 DEF Awake
    <3> QED
      BY <3>2, <3>3
  <2>3. Remembered(Now)'
    <3> SUFFICES ASSUME NEW k \in Node, child'[k], ~child_storage'[k] PROVE Critical(store[k])
      BY <1>13 DEF Remembered
    <3>1. child[k] /\ ~child_storage[k]
      BY <1>11
    <3> QED
      BY <3>1, <1>1, <1>2, <1>8 DEF Wakeup, Remembered
  <2> QED
    BY <2>1, <2>2, <2>3, <1>5, <1>13 DEF Wakeup, HasParent
<1>22. Base(Now)'
  <2>1. ~aborted
    BY <1>1, <1>2 DEF Base
  <2> QED
    BY <2>1, <1>13, <1>14, <1>15, <1>17, <1>18, <1>19, <1>20 DEF Base
<1> QED
  BY <1>1, <1>3, <1>10, <1>21, <1>22 DEF IInv

(* Every step keeps the invariant. *)
LEMMA NextIInv ==
  ASSUME WideEnough, TakenComplete, IInv, [Next]_vars
  PROVE  IInv'
<1>1. CASE Next
  <2>1. ASSUME NEW kind \in Kinds, Feed(kind) PROVE IInv'
    BY <2>1, FeedIInv
  <2>2. ASSUME NEW limit \in Caps[nodes[1].kind], Buffer(limit) PROVE IInv'
    <3>1. nodes[1].kind \in Sources /\ Caps \in [Sources -> SUBSET (Nat \ {0})]
      BY ChainAssumption DEF IInv, Shape
    <3>2. limit \in Nat \ {0}
      BY <3>1
    <3>3. nodes[1].kind = "immediate" => limit > 1
      BY <3>1 DEF WideEnough
    <3>4. limit \in Nat /\ limit > (IF nodes[1].kind = "immediate" THEN 1 ELSE 0)
      BY <3>2, <3>3
    <3> QED
      BY <2>2, <3>4, BuildIInv DEF Buffer
  <2>3. CASE Sink
    BY <2>3, BuildIInv DEF Sink
  <2>4. CASE Detach
    BY <2>4, BuildIInv DEF Detach
  <2>5. CASE Take
    BY <2>5, TakeIInv
  <2>6. CASE Drop
    BY <2>6, DropIInv
  <2>7. CASE Fire
    BY <2>7, FireIInv
  <2> QED
    BY <1>1, <2>1, <2>2, <2>3, <2>4, <2>5, <2>6, <2>7 DEF Next
<1>2. CASE UNCHANGED vars
  <2> DEFINE s == Now
  <2>1. Shape /\ fed \in Nat /\ Base(s) /\ Wakeup(s, {})
    BY DEF IInv
  <2>2. Become(s) /\ nodes' = nodes /\ fed' = fed
    BY <1>2, NowFields DEF Become, vars
  <2> HIDE DEF s
  <2> QED
    BY <2>1, <2>2, BecomesIInv
<1> QED
  BY <1>1, <1>2

(* The inductive invariant holds in every behaviour of the chain. *)
THEOREM Invariance ==
  ASSUME WideEnough, TakenComplete
  PROVE  Spec => []IInv
<1>1. Init => IInv
  BY InitIInv
<1>2. IInv /\ [Next]_vars => IInv'
  BY NextIInv
<1> QED
  BY <1>1, <1>2, PTL DEF Spec

-----------------------------------------------------------------------------
(* The recursive function of Flow, of n storages st below the elements o. *)
IsFlow(f, n, m, o, st) == f = [i \in 0..m |-> IF i = 0 THEN o ELSE f[i - 1] \o st[n + 1 - i]]

(* Its step at i: one more storage, the one of node n + 1 - i. *)
FlowStep(f, n, st, i) == f[i] = f[i - 1] \o st[n + 1 - i]

(* A flow begins with what came out and takes one storage after another. *)
LEMMA FlowSteps ==
  ASSUME NEW n \in Nat, NEW m \in Nat, NEW o, NEW st, NEW f, IsFlow(f, n, m, o, st)
  PROVE  f[0] = o /\ \A i \in 1..m : FlowStep(f, n, st, i)
<1>1. 0 \in 0..m
  OBVIOUS
<1>2. f[0] = o
  BY <1>1 DEF IsFlow
<1>3. ASSUME NEW i \in 1..m PROVE FlowStep(f, n, st, i)
  <2>1. i \in 0..m /\ i # 0
    OBVIOUS
  <2> QED
    BY <2>1 DEF IsFlow, FlowStep
<1> QED
  BY <1>2, <1>3

(* It exists. *)
LEMMA FlowExists ==
  ASSUME NEW n \in Nat, NEW o, NEW st
  PROVE  \E f : IsFlow(f, n, n, o, st)
<1> DEFINE T == {m \in Nat : \E f : IsFlow(f, n, m, o, st)}
<1>1. 0 \in T
  <2> DEFINE f == [i \in 0..0 |-> o]
  <2>1. \A i \in 0..0 : i = 0
    OBVIOUS
  <2>2. IsFlow(f, n, 0, o, st)
    BY <2>1 DEF IsFlow
  <2> HIDE DEF f
  <2> QED
    BY <2>2
<1>2. ASSUME NEW m \in T PROVE m + 1 \in T
  <2>1. PICK f : IsFlow(f, n, m, o, st)
    OBVIOUS
  <2>2. m \in Nat /\ m + 1 \in Nat /\ m + 1 - 1 = m
    OBVIOUS
  <2>3. f[0] = o /\ \A i \in 1..m : FlowStep(f, n, st, i)
    BY <2>1, <2>2, FlowSteps
  <2> DEFINE z == f[m] \o st[n + 1 - (m + 1)]
             g == [i \in 0..(m + 1) |-> IF i = m + 1 THEN z ELSE f[i]]
  <2> HIDE DEF z
  <2>4. g[m + 1] = z /\ \A i \in 0..m : g[i] = f[i]
    BY <2>2
  <2>5. DOMAIN g = 0..(m + 1) /\ g = [i \in 0..(m + 1) |-> g[i]]
    OBVIOUS
  <2> HIDE DEF g
  <2>6. ASSUME NEW i \in 0..(m + 1) PROVE g[i] = IF i = 0 THEN o ELSE g[i - 1] \o st[n + 1 - i]
    <3>1. CASE i = 0
      <4>1. 0 \in 0..m
        BY <2>2
      <4> QED
        BY <2>3, <2>4, <3>1, <4>1
    <3>2. CASE i = m + 1
      <4>1. i # 0 /\ i - 1 = m /\ m \in 0..m
        BY <2>2, <3>2
      <4>2. g[i - 1] = f[m]
        BY <2>4, <4>1
      <4> QED
        BY <2>4, <3>2, <4>1, <4>2 DEF z
    <3>3. CASE i # 0 /\ i # m + 1
      <4>1. i \in 0..m /\ i - 1 \in 0..m /\ i \in 1..m
        BY <2>2, <3>3
      <4>2. f[i] = f[i - 1] \o st[n + 1 - i]
        BY <2>3, <4>1 DEF FlowStep
      <4>3. g[i] = f[i] /\ g[i - 1] = f[i - 1]
        BY <2>4, <4>1
      <4> QED
        BY <3>3, <4>2, <4>3
    <3> QED
      BY <3>1, <3>2, <3>3
  <2>7. IsFlow(g, n, m + 1, o, st)
    BY <2>5, <2>6 DEF IsFlow
  <2> QED
    BY <2>2, <2>7
<1>3. T \in SUBSET Nat
  OBVIOUS
<1> HIDE DEF T
<1>4. n \in T
  BY <1>1, <1>2, <1>3, Induction
<1> QED
  BY <1>4 DEF T

FlowGood(f, p, n, S, i) == /\ f[i] \in Seq(S) /\ Len(f[i]) = p[n + 1 - i]
                           /\ \A k \in 1..Len(f[i]) : f[i][k].id = k

(* It is numbered from 1, and p[1] is its length. *)
LEMMA FlowCounted ==
  ASSUME NEW S, NEW n \in Nat, n >= 1, NEW fd \in Nat, NEW o, NEW st, NEW c, NEW p, Counts(p, c, n, fd),
         NEW f, IsFlow(f, n, n, o, st),
         c[n + 1] = o, \A j \in 1..n : c[j] = st[j],
         \A j \in Nat : c[j] \in Seq(S)
  PROVE  FlowGood(f, p, n, S, n)
<1>1. /\ p \in [Nat -> Nat] /\ p[n + 2] = 0
      /\ \A j \in Nat : 1 <= j /\ j <= n + 1 => p[j] = p[j + 1] + Len(c[j])
      /\ \A j \in Nat : 1 <= j /\ j <= n + 1 => \A k \in 1..Len(c[j]) : c[j][k].id = p[j + 1] + k
  BY DEF Counts
<1>0. f[0] = o /\ \A i \in 1..n : FlowStep(f, n, st, i)
  BY FlowSteps
<1> DEFINE T == {i \in Nat : i <= n => FlowGood(f, p, n, S, i)}
<1>2. 0 \in T
  <2>1. f[0] = c[n + 1]
    BY <1>0
  <2> DEFINE m == n + 1
  <2>2. m \in Nat /\ 1 <= m /\ m <= n + 1 /\ m + 1 = n + 2 /\ n + 1 - 0 = m
    OBVIOUS
  <2>3. f[0] = c[m]
    BY <2>1
  <2> HIDE DEF m
  <2>4. p[m] = p[m + 1] + Len(c[m]) /\ \A k \in 1..Len(c[m]) : c[m][k].id = p[m + 1] + k
    BY <2>2, <1>1
  <2>5. p[m] = 0 + Len(c[m]) /\ \A k \in 1..Len(c[m]) : c[m][k].id = 0 + k
    BY <2>2, <2>4, <1>1
  <2>6. c[m] \in Seq(S) /\ Len(c[m]) \in Nat
    BY <2>2, LenProperties
  <2>7. p[m] = Len(c[m]) /\ \A k \in 1..Len(c[m]) : c[m][k].id = k
    BY <2>5, <2>6
  <2>8. FlowGood(f, p, n, S, 0)
    BY <2>2, <2>3, <2>6, <2>7 DEF FlowGood
  <2> QED
    BY <2>8
<1>3. ASSUME NEW i \in T PROVE i + 1 \in T
  <2>0. i \in Nat /\ i + 1 \in Nat /\ (i <= n => FlowGood(f, p, n, S, i))
    OBVIOUS
  <2>1. ASSUME i + 1 <= n PROVE FlowGood(f, p, n, S, i + 1)
    <3>1. i <= n /\ i + 1 \in 1..n /\ i + 1 - 1 = i
      BY <2>0, <2>1
    <3>2. f[i] \in Seq(S) /\ Len(f[i]) = p[n + 1 - i] /\ \A k \in 1..Len(f[i]) : f[i][k].id = k
      BY <2>0, <3>1 DEF FlowGood
    <3> DEFINE j == n - i
               a == f[i]
               b == c[j]
               z == f[i + 1]
    <3>3. j \in Nat /\ 1 <= j /\ j <= n + 1 /\ j \in 1..n /\ j + 1 = n + 1 - i /\ n + 1 - (i + 1) = j
      <4>1. i \in Int /\ n \in Int /\ i >= 0 /\ i + 1 <= n
        BY <2>0, <2>1
      <4> HIDE DEF a, b, z
      <4> QED
        BY <4>1
    <3>4. z = a \o b
      <4> DEFINE m == i + 1
      <4>0. m \in 1..n /\ m - 1 = i /\ n + 1 - m = j /\ z = f[m]
        <5> HIDE DEF a, b
        <5> QED
          BY <3>1, <3>3
      <4> HIDE DEF a, b, z, j, m
      <4>5. FlowStep(f, n, st, m)
        BY <4>0, <1>0
      <4>2. f[m] = f[m - 1] \o st[n + 1 - m]
        BY <4>5, Zenon DEF FlowStep
      <4>3. st[j] = c[j]
        BY <3>3
      <4>4. f[m] = f[i] \o st[j]
        BY <4>0, <4>2, Zenon
      <4> QED
        BY <4>0, <4>3, <4>4, Zenon DEF a, b
    <3> HIDE DEF j
    <3>5. p[j] = p[j + 1] + Len(b) /\ \A k \in 1..Len(b) : b[k].id = p[j + 1] + k
      BY <3>3, <1>1
    <3>6. a \in Seq(S) /\ b \in Seq(S) /\ Len(a) = p[j + 1]
      BY <3>2, <3>3
    <3>7. \A k \in 1..Len(a) : a[k].id = k
      BY <3>2
    <3>8. \A k \in 1..Len(b) : b[k].id = Len(a) + k
      BY <3>5, <3>6
    <3> HIDE DEF a, b, z
    <3>9. z \in Seq(S) /\ Len(z) = Len(a) + Len(b) /\ \A k \in 1..Len(z) : z[k].id = k
      BY <3>4, <3>6, <3>7, <3>8, FlowGrows, ZenonT(30)
    <3>10. Len(z) = p[n + 1 - (i + 1)]
      BY <3>3, <3>5, <3>6, <3>9
    <3> QED
      BY <3>9, <3>10 DEF FlowGood, z
  <2> QED
    BY <2>0, <2>1
<1>4. T \in SUBSET Nat
  OBVIOUS
<1> HIDE DEF T
<1>5. n \in T
  BY <1>2, <1>3, <1>4, Induction
<1> QED
  BY <1>5 DEF T

(* The elements of Flow are numbered from 1 in their order, and as long as *)
(* the source is alive they are all that was fed.                          *)
LEMMA FlowNumbered ==
  ASSUME IInv
  PROVE  /\ \A k \in 1..Len(Flow) : Flow[k].id = k
         /\ Len(Flow) \in Nat
         /\ 1 \in alive => Len(Flow) = fed
<1> DEFINE n == Top
           o == out
           st == store
           fd == fed
           c == Contents(Now)
           f == CHOOSE g : g = [i \in 0..n |-> IF i = 0 THEN o ELSE g[i - 1] \o st[n + 1 - i]]
<1>1. n \in Nat /\ n >= 1 /\ fd \in Nat /\ Now \in States /\ Shape
  BY DEF IInv, Shape, Base
<1>2. Flow = f[n]
  BY DEF Flow
<1>4. PICK p : Counts(p, c, n, fd) /\ (1 \in alive => p[1] = fd)
  BY NowFields DEF IInv, Base, Numbered, Counted
<1>5. c[n + 1] = o /\ (\A j \in 1..n : c[j] = st[j]) /\ \A j \in Nat : c[j] \in Seq(Elements)
  BY <1>1, ContentsTypes, NowFields
<1> HIDE DEF n, o, st, c, fd
<1>3. IsFlow(f, n, n, o, st)
  <2>1. \E g : IsFlow(g, n, n, o, st)
    BY <1>1, FlowExists
  <2>2. f = CHOOSE g : IsFlow(g, n, n, o, st)
    BY DEF IsFlow
  <2> HIDE DEF f
  <2> QED
    BY <2>1, <2>2
<1> HIDE DEF f
<1>6. FlowGood(f, p, n, Elements, n)
  BY <1>1, <1>3, <1>4, <1>5, FlowCounted
<1>7. f[n] \in Seq(Elements) /\ Len(f[n]) = p[1] /\ \A k \in 1..Len(f[n]) : f[n][k].id = k
  <2>1. n + 1 - n = 1
    BY <1>1
  <2> QED
    BY <2>1, <1>6 DEF FlowGood
<1>8. Len(f[n]) \in Nat
  BY <1>7, LenProperties
<1> QED
  BY <1>2, <1>4, <1>7, <1>8 DEF fd

-----------------------------------------------------------------------------
(* What IInv says of the loop, in the terms of NoDeadEvents. *)
LEMMA LoopReaches ==
  ASSUME IInv
  PROVE  NoDeadEvents
<1> DEFINE live == alive \cup {Daemon, HeadSlot}
           q == loop
           dead == Dead(Now)
<1>1. Queued(Now) /\ Shape /\ Now \in States /\ alive \in SUBSET (1..Top)
  BY NowFields DEF IInv, Base, Chained
<1>2. \A e \in Event : IsArmed(q, e) => e \in live
  BY <1>1, NowFields DEF Queued
<1>3. QueueInv(q, dead) /\ (~cut => q.laterInsert \notin dead)
  BY <1>1, NowFields DEF Queued
<1> HIDE DEF q, dead, live
<1>4. PointsTo(q, dead, q.laterInsert) /\ \E lost \in SUBSET Event : Apart(q, dead, lost)
  BY <1>3 DEF QueueInv
<1>5. PICK lost \in SUBSET Event : Apart(q, dead, lost)
  BY <1>4
<1>6. HeadSlot \in live
  BY DEF live
<1>7. q.nextInsert \in live /\ q.tail \in live
  BY <1>2, <1>5, <1>6 DEF Apart, OnList
<1>8. ~cut => q.laterInsert \in live
  BY <1>2, <1>3, <1>4, <1>6 DEF PointsTo
<1> QED
  BY <1>2, <1>7, <1>8 DEF NoDeadEvents, q, live

(* What Wakeup says, in the terms of NoLostWakeup. *)
LEMMA NodesWakeUp ==
  ASSUME IInv
  PROVE  NoLostWakeup
<1> SUFFICES ASSUME IsSink(Top) \/ out = << >>,
                    NEW i \in alive, HasParent(i), store[i] # << >>
             PROVE  \/ IsArmed(loop, i)
                    \/ space(Now, i + 1) = 0 /\ child_storage[i + 1]
                    \/ \E k \in 1..Len(store[i + 1]) : store[i + 1][k].kind = "critical"
  BY DEF NoLostWakeup
<1>1. /\ Shape /\ Chained(Now) /\ alive \in SUBSET (1..Top) /\ Wakeup(Now, {})
      /\ child \in [Node -> BOOLEAN]
  BY NowFields, StateFields DEF IInv, Base, Chained
<1>2. Untaken(Now)
  BY NowFields DEF Untaken
<1>3. Awake(Now, i) /\ Remembered(Now)
  BY <1>1, <1>2, NowFields DEF Wakeup
<1>4. CASE IsArmed(loop, i)
  BY <1>4
<1>5. CASE Full(Now, i + 1)
  <2> DEFINE k == i + 1
  <2>1. i \in Nat /\ 1 <= i /\ i < Top /\ Top \in Nat /\ Top <= MaxNodes /\ MaxNodes \in Nat
    BY <1>1, ChainAssumption DEF Shape, HasParent
  <2>2. k \in Node /\ 2 <= k /\ k <= Top /\ k - 1 = i
    BY <2>1 DEF Node
  <2> HIDE DEF k
  <2>3. child[k]
    BY <2>2, <1>1, NowFields DEF Chained
  <2>4. child_storage[k] \/ Critical(store[k])
    BY <2>2, <2>3, <1>3, NowFields DEF Remembered
  <2>5. space(Now, k) = 0 \/ Critical(store[k])
    BY <1>5, NowFields DEF Full, k
  <2> QED
    BY <2>4, <2>5 DEF Critical, k
<1> QED
  BY <1>3, <1>4, <1>5, NowFields DEF Awake

(* What TornBehind says, in the terms of NoEarlyTeardown. *)
LEMMA NodesOutlive ==
  ASSUME IInv
  PROVE  NoEarlyTeardown
<1> SUFFICES ASSUME NEW i \in 1..Top, i \notin alive, ~Dropped
             PROVE  \/ \E k \in 1..Len(out) : out[k].kind = "critical"
                    \/ \E j \in (i + 1)..Top : \E k \in 1..Len(store[j]) :
                          store[j][k].kind = "critical"
  BY DEF NoEarlyTeardown
<1> DEFINE c == Contents(Now)
           n == Top
<1>1. Shape /\ n \in Nat /\ n >= 1
  BY DEF IInv, Shape
<1>2. EndsAbove(c, i, n)
  BY NowFields DEF IInv, Base, TornBehind, Dropped
<1>3. /\ \A j \in Nat : 1 <= j /\ j <= n => c[j] = store[j]
      /\ c[n + 1] = out
  BY <1>1, NowFields DEF Contents
<1> HIDE DEF c, n
<1>4. PICK j \in Nat : i < j /\ j <= n + 1 /\ Critical(c[j])
  BY <1>2 DEF EndsAbove
<1>5. i \in Nat /\ i >= 1
  BY <1>1 DEF n
<1>6. CASE j = n + 1
  <2>1. Critical(out)
    BY <1>3, <1>4, <1>6
  <2> QED
    BY <2>1 DEF Critical
<1>7. CASE j # n + 1
  <2>1. 1 <= j /\ j <= n /\ j \in (i + 1)..n
    BY <1>1, <1>4, <1>5, <1>7
  <2>2. Critical(store[j])
    BY <1>3, <1>4, <2>1
  <2> QED
    BY <2>1, <2>2 DEF Critical, n
<1> QED
  BY <1>6, <1>7

-----------------------------------------------------------------------------
(* The theorems about chains of any length, with any limits and elements. *)

(* Every handler leaves the fields of the nodes and of the loop within     *)
(* their types, and nothing below the source or above the top is alive.    *)
THEOREM TypeCorrect ==
  ASSUME WideEnough, TakenComplete
  PROVE  Spec => []TypeOK
<1>1. IInv => TypeOK
  <2> SUFFICES ASSUME IInv PROVE TypeOK
    OBVIOUS
  <2>1. Now \in States /\ Shape /\ fed \in Nat /\ Chained(Now)
    BY DEF IInv, Base
  <2>2. /\ loop \in Queues /\ store \in [Node -> Seq(Elements)]
        /\ child \in [Node -> BOOLEAN] /\ child_storage \in [Node -> BOOLEAN]
        /\ conveyor_sink \in BOOLEAN /\ delete_nodes \in BOOLEAN /\ out \in Seq(Elements)
        /\ aborted \in BOOLEAN /\ cut \in BOOLEAN
    BY <2>1, NowFields, StateFields
  <2>3. alive \subseteq 1..Top
    BY <2>1, NowFields DEF Chained
  <2>4. Top \in Node
    BY <2>1, ChainAssumption DEF Shape, Node
  <2> QED
    BY <2>1, <2>2, <2>3, <2>4 DEF TypeOK, Shape
<1> QED
  BY <1>1, Invariance, PTL

(* Between feed() and the user or the sink no element is lost, doubled or  *)
(* overtaken, however the nodes take turns and whatever is destroyed.      *)
THEOREM ElementsConserved ==
  ASSUME WideEnough, TakenComplete
  PROVE  Spec => []Conservation
<1>1. IInv => Conservation
  BY FlowNumbered DEF Conservation
<1> QED
  BY <1>1, Invariance, PTL

(* Only a critical error that has passed a node, or the owner of the       *)
(* chain, destroys it (fire() of a buffer and of a sink).                  *)
THEOREM NoNodeDiesEarly ==
  ASSUME WideEnough, TakenComplete
  PROVE  Spec => []NoEarlyTeardown
<1>1. IInv => NoEarlyTeardown
  BY NodesOutlive
<1> QED
  BY <1>1, Invariance, PTL

(* A node with something to give is armed, or its full parent will call    *)
(* parentHasFired() on it: no chain stops with elements in it.             *)
THEOREM NoWakeupIsLost ==
  ASSUME WideEnough, TakenComplete
  PROVE  Spec => []NoLostWakeup
<1>1. IInv => NoLostWakeup
  BY NodesWakeUp
<1> QED
  BY <1>1, Invariance, PTL

(* ~Event() takes a destroyed node out of the loop for good: the list, the *)
(* tail and next_insert_point never lead to it (nor does                   *)
(* later_insert_point, unless it was in the node when it was destroyed).   *)
THEOREM NoDeadEventReached ==
  ASSUME WideEnough, TakenComplete
  PROVE  Spec => []NoDeadEvents
<1>1. IInv => NoDeadEvents
  BY LoopReaches
<1> QED
  BY <1>1, Invariance, PTL

(* No assertion fails, no empty queue is popped and no source is asked for *)
(* an element it does not have, in any order of turns.                     *)
THEOREM ProtocolKept ==
  ASSUME WideEnough, TakenComplete
  PROVE  Spec => []NoProtocolError
<1>1. IInv => NoProtocolError
  <2> SUFFICES ASSUME IInv PROVE NoProtocolError
    OBVIOUS
  <2>1. ~aborted
    BY NowFields DEF IInv, Base
  <2>2. Len(Flow) \in Nat /\ \A k \in 1..Len(Flow) : Flow[k].id = k
    BY FlowNumbered
  <2>3. ASSUME NEW k \in 1..Len(Flow) PROVE Flow[k].id # 0
    <3>1. Flow[k].id = k /\ k # 0
      BY <2>2
    <3> QED
      BY <3>1
  <2> QED
    BY <2>1, <2>3 DEF NoProtocolError, NoAssertionFails, RetrievalsHaveData
<1> QED
  BY <1>1, Invariance, PTL
=============================================================================
