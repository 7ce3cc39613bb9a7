---------------------------- MODULE Merge_proofs ----------------------------
(***************************************************************************)
(* Merge for any number of children, lanes and limits: the order of each   *)
(* child's elements, the turn of each appendage and the wakeups of the     *)
(* merge node.  As in ConveyorChain_proofs the invariant is a predicate of *)
(* a state record, so that every operator within a handler can be shown to *)
(* keep it.                                                                *)
(***************************************************************************)
EXTENDS Merge, EventLoop_proofs, FiniteSetTheorems

-----------------------------------------------------------------------------
Items == [child : Child, id : Nat, kind : Kinds \cup {"value", "critical"}]

States == [loop : Queues, store : [Child -> Seq(Items)], held : [Child -> Seq(Items)],
           error_or_value : [Child -> Seq(Items)], next_appendage : Nat,
           lane : Seq(Items), out : Seq(Items), destroyed : SUBSET Event,
           passed : [Child -> Nat], aborted : BOOLEAN, cut : BOOLEAN]

(* What handlers do not change: no child is attached twice. *)
Frame == /\ kind \in [Child -> ChildKinds] /\ limit \in Nat
         /\ appendages \in Seq(Child)
         /\ \A i, j \in 1..Len(appendages) : appendages[i] = appendages[j] => i = j
         /\ fed \in [Child -> Nat]

(* An appendage holds one element at most, only a buffered child has a     *)
(* second storage, and the lane is built before anything is in it.         *)
Slots(s) ==
    /\ \A k \in Child : /\ Len(s.error_or_value[k]) <= 1
                        /\ ~Attached(k) => s.error_or_value[k] = << >>
                        /\ kind[k] # "buffered" => s.held[k] = << >>
    /\ Len(s.lane) <= limit
    /\ top = "none" => s.lane = << >>

(* How many others can be served before position j has its turn, when      *)
(* position i was served last; conveyors may be attached meanwhile.        *)
Ahead(i, j) == IF i < j THEN j - i - 1 ELSE MaxChild - i + j - 1

Turns(s) ==
    /\ s.next_appendage <= Len(appendages)
    /\ \A k \in Child : s.error_or_value[k] = << >> => s.passed[k] = 0
    /\ \A j \in 1..Len(appendages) : s.error_or_value[appendages[j]] # << >> =>
          s.passed[appendages[j]] + Ahead(s.next_appendage, j) < MaxChild

(* Who owns whom: as long as the merge node exists only sources below a    *)
(* buffer can be gone, and all it owns goes with it.                       *)
Owned(s) ==
    /\ Merger \notin s.destroyed =>
          \A e \in s.destroyed : \E k \in Child : e = Source(k) /\ kind[k] = "buffered"
    /\ Merger \in s.destroyed =>
          \A k \in Child : Attached(k) => Source(k) \in s.destroyed /\ ChildBuffer(k) \in s.destroyed
    /\ \A k \in Child : ChildBuffer(k) \in s.destroyed => Source(k) \in s.destroyed
    /\ SinkNode \in s.destroyed => Merger \in s.destroyed /\ Lane \in s.destroyed

(* Sources are armed with something to give. *)
Queued(s) ==
    /\ QueueInv(s.loop, s.destroyed)
    /\ \A k \in Child : IsArmed(s.loop, Source(k)) => s.store[k] # << >>

(* What has passed the merge node, the youngest in the lane. *)
Given(s) == [i \in Nat |-> IF i <= Len(s.out) THEN s.out[i] ELSE s.lane[i - Len(s.out)]]
Many(s) == Len(s.out) + Len(s.lane)

(* p[i] is the number of elements of child k among the first i of g, and   *)
(* its elements are numbered by it.                                        *)
CountsAt(p, k, i, x) == IF x.child = k THEN p[i] = p[i - 1] + 1 /\ x.id = p[i]
                        ELSE p[i] = p[i - 1]
Tally(p, k, g, m) == /\ p \in [Nat -> Nat] /\ p[0] = 0
                     /\ \A i \in 1..m : CountsAt(p, k, i, g[i])

(* g gets x behind its m elements. *)
Extends(g, m, h, x) == h[m + 1] = x /\ \A i \in 1..m : h[i] = g[i]

(* The elements of seq are child k's and numbered from n + 1 on. *)
Follow(n, k, seq) == \A i \in 1..Len(seq) : seq[i].child = k /\ seq[i].id = n + i

(* The elements of child k that have not passed yet follow the n that      *)
(* have, and all are there as long as its source is.                       *)
Rest(n, k, s, f) ==
    /\ Follow(n, k, s.error_or_value[k])
    /\ Follow(n + Len(s.error_or_value[k]), k, s.held[k])
    /\ Follow(n + Len(s.error_or_value[k]) + Len(s.held[k]), k, s.store[k])
    /\ Source(k) \notin s.destroyed =>
          n + Len(s.error_or_value[k]) + Len(s.held[k]) + Len(s.store[k]) = f[k]

NumberedOf(k, s, f) == \E p : Tally(p, k, Given(s), Many(s)) /\ Rest(p[Many(s)], k, s, f)
Numbered(s, f) == \A k \in Child : NumberedOf(k, s, f)

Base(s) == /\ s \in States
           /\ Slots(s)
           /\ Turns(s)
           /\ Owned(s)
           /\ Queued(s)
           /\ Numbered(s, fed)

(* A lane that holds something is armed. *)
LaneAwake(s) == s.lane # << >> /\ Lane \notin s.destroyed => IsArmed(s.loop, Lane)

(* The merge node with something to give is armed, or waits for the lane,  *)
(* or is about to be destroyed.                                            *)
Waits(s) == LaneSpace(s) = 0 \/ LaneEnds(s)
Serves(s) == queued(s) # {} /\ top = "built" /\ ~s.aborted /\ Merger \notin s.destroyed
MergerAwake(s) == Serves(s) => IsArmed(s.loop, Merger) \/ Waits(s)

IInv == Frame /\ Base(Now) /\ LaneAwake(Now) /\ MergerAwake(Now)

-----------------------------------------------------------------------------
(* The fields of a state. *)
LEMMA StateFields ==
  ASSUME NEW s \in States
  PROVE  /\ s.loop \in Queues /\ s.store \in [Child -> Seq(Items)]
         /\ s.held \in [Child -> Seq(Items)] /\ s.error_or_value \in [Child -> Seq(Items)]
         /\ s.next_appendage \in Nat /\ s.lane \in Seq(Items) /\ s.out \in Seq(Items)
         /\ s.destroyed \in SUBSET Event /\ s.passed \in [Child -> Nat]
         /\ s.aborted \in BOOLEAN /\ s.cut \in BOOLEAN
BY DEF States

(* The nodes are different events. *)
LEMMA NodesAreEvents ==
  /\ MaxChild \in Nat /\ Child = 1..MaxChild
  /\ Merger \in Event /\ Lane \in Event /\ SinkNode \in Event
  /\ Merger # Lane /\ Merger # SinkNode /\ Lane # SinkNode
  /\ \A k \in Child :
        /\ Source(k) \in Event /\ ChildBuffer(k) \in Event
        /\ Source(k) \notin {Merger, Lane, SinkNode} /\ ChildBuffer(k) \notin {Merger, Lane, SinkNode}
        /\ \A j \in Child : Source(k) # ChildBuffer(j)
        /\ ChildBuffer(k) - MaxChild = k /\ ChildBuffer(k) \notin Child
  /\ \A e \in Event : \/ e \in {Merger, Lane, SinkNode} \/ (\E k \in Child : e = Source(k))
                      \/ \E k \in Child : e = ChildBuffer(k)
<1>1. MaxChild \in Nat /\ Child = 1..MaxChild /\ Event = 1..(2 * MaxChild) \cup {Merger, Lane, SinkNode}
  BY MergeAssumption
<1> HIDE DEF MaxChild
<1>2. ASSUME NEW e \in 1..(2 * MaxChild), e \notin Child PROVE \E k \in Child : e = ChildBuffer(k)
  <2>1. e - MaxChild \in Child /\ e = MaxChild + (e - MaxChild)
    BY <1>1, <1>2
  <2> QED
    BY <2>1 DEF ChildBuffer
<1>3. ASSUME NEW k \in Child
      PROVE  /\ k \in 1..(2 * MaxChild) /\ MaxChild + k \in 1..(2 * MaxChild)
             /\ k # 0 /\ k # -1 /\ k # -2 /\ MaxChild + k \notin {0, -1, -2}
             /\ \A j \in Child : k # MaxChild + j
             /\ MaxChild + k - MaxChild = k /\ MaxChild + k \notin Child
  BY <1>1, <1>3
<1> QED
  BY <1>1, <1>2, <1>3 DEF Source, ChildBuffer, Merger, Lane, SinkNode

(* A set of numbers has a smallest. *)
LEMMA Smallest ==
  ASSUME NEW S \in SUBSET Nat, S # {}
  PROVE  \E x \in S : \A y \in S : x <= y
<1>1. IsWellFoundedOn(OpToRel(<, Nat), Nat)
  BY NatLessThanWellFounded
<1>2. PICK x \in S : \A y \in S : ~ (<<y, x>> \in OpToRel(<, Nat))
  BY <1>1, WFMin
<1>3. x \in Nat /\ S \subseteq Nat
  BY <1>2
<1>4. ASSUME NEW y \in S PROVE x <= y
  <2>1. y \in Nat /\ ~ (y < x)
    BY <1>2, <1>3 DEF OpToRel
  <2> QED
    BY <1>3, <2>1
<1> QED
  BY <1>2, <1>4

(* No more appendages than children. *)
LEMMA FewAppendages ==
  ASSUME Frame
  PROVE  Len(appendages) \in Nat /\ Len(appendages) <= MaxChild
<1> DEFINE n == Len(appendages)
           a == appendages
           m == MaxChild
<1>1. n \in Nat /\ a \in [1..n -> Child] /\ \A i, j \in 1..n : a[i] = a[j] => i = j
  BY LenProperties DEF Frame
<1>2. m \in Nat /\ Child = 1..m
  BY NodesAreEvents
<1> HIDE DEF n, a, m
<1>3. IsFiniteSet(1..n) /\ Cardinality(1..n) = n /\ IsFiniteSet(1..m) /\ Cardinality(1..m) = m
  <2>1. \A b, c \in Int : IsFiniteSet(b..c) /\ Cardinality(b..c) = IF b <= c THEN c - b + 1 ELSE 0
    BY FS_Interval
  <2>2. n \in Int /\ m \in Int /\ 1 \in Int
    BY <1>1, <1>2
  <2>3. n = IF 1 <= n THEN n - 1 + 1 ELSE 0
    BY <1>1
  <2>4. m = IF 1 <= m THEN m - 1 + 1 ELSE 0
    BY <1>2
  <2> QED
    BY <2>1, <2>2, <2>3, <2>4
<1>4. ~(m < n)
  <2>1. SUFFICES ASSUME Cardinality(1..m) < Cardinality(1..n) PROVE FALSE
    BY <1>3
  <2>2. a \in [1..n -> 1..m]
    BY <1>1, <1>2
  <2>3. \E x, y \in 1..n : x # y /\ a[x] = a[y]
    BY <1>3, <2>1, <2>2, FS_PigeonHole
  <2> QED
    BY <1>1, <2>3
<1> QED
  BY <1>1, <1>2, <1>4 DEF n, m

(* Where attached children are. *)
LEMMA AttachedAt ==
  ASSUME Frame
  PROVE  /\ \A k \in Child : Attached(k) <=> \E j \in 1..Len(appendages) : k = appendages[j]
         /\ \A j \in 1..Len(appendages) : appendages[j] \in Child /\ Attached(appendages[j])
         /\ \A k : Attached(k) => k \in Child
<1>1. DOMAIN appendages = 1..Len(appendages) /\ appendages \in [1..Len(appendages) -> Child]
  BY LenProperties DEF Frame
<1> QED
  BY <1>1 DEF Attached, Range

-----------------------------------------------------------------------------
(* getResult() serves a filled appendage, and every other filled one comes *)
(* nearer to its turn.                                                     *)
LEMMA ServedNext ==
  ASSUME Frame, NEW s \in States, s.next_appendage <= Len(appendages), queued(s) # {}
  PROVE  LET i == Served(s) IN
         /\ i \in 1..Len(appendages) /\ appendages[i] \in queued(s) /\ appendages[i] \in Child
         /\ s.error_or_value[appendages[i]] # << >>
         /\ \A j \in 1..Len(appendages) : j # i /\ s.error_or_value[appendages[j]] # << >> =>
               Ahead(i, j) < Ahead(s.next_appendage, j)
<1> DEFINE n == Len(appendages)
           p == s.next_appendage
           filled == {i \in 1..n : appendages[i] \in queued(s)}
           ahead == {i \in filled : i > p}
           from == IF ahead # {} THEN ahead ELSE filled
           i == Served(s)
           m == MaxChild
<1>1. n \in Nat /\ n <= m /\ p \in Nat /\ p <= n /\ m \in Nat
  BY FewAppendages, StateFields, NodesAreEvents
<1>2. \A j \in 1..n : appendages[j] \in Child
                      /\ (appendages[j] \in queued(s) <=> s.error_or_value[appendages[j]] # << >>)
  BY AttachedAt DEF queued, Attached
<1>3. filled # {} /\ filled \subseteq 1..n /\ ahead \subseteq filled
  BY AttachedAt DEF queued, Attached
<1>4. i = CHOOSE x \in from : \A y \in from : x <= y
  BY DEF Served
<1>5. from # {} /\ from \in SUBSET Nat /\ from \subseteq filled
  BY <1>1, <1>3
<1> HIDE DEF n, p, m, filled, ahead, from, i
<1>6. i \in from /\ \A y \in from : i <= y
  <2>1. \E x \in from : \A y \in from : x <= y
    BY <1>5, Smallest
  <2> QED
    BY <1>4, <2>1
<1>7. i \in 1..n /\ i \in filled
  BY <1>3, <1>5, <1>6
<1>8. ASSUME NEW j \in 1..n, j # i, j \in filled PROVE Ahead(i, j) < Ahead(p, j)
  <2>1. j \in Nat /\ i \in Nat /\ 1 <= j /\ 1 <= i /\ j <= m /\ i <= m
    BY <1>1, <1>7
  <2>2. CASE ahead # {}
    <3>1. i > p /\ from = ahead
      BY <2>2, <1>6 DEF from, ahead
    <3>2. j > p => i < j
      <4>1. j > p => j \in from
        BY <1>8, <3>1 DEF ahead
      <4> QED
        BY <4>1, <1>6, <2>1, <1>8
    <3> QED
      BY <1>1, <2>1, <3>1, <3>2 DEF Ahead, m
  <2>3. CASE ahead = {}
    <3>1. ~(j > p) /\ j \in from
      BY <2>3, <1>8 DEF from, ahead
    <3>2. i < j
      BY <3>1, <1>6, <2>1, <1>8
    <3> QED
      BY <1>1, <2>1, <3>1, <3>2 DEF Ahead, m
  <2> QED
    BY <2>2, <2>3
<1>9. \A j \in 1..n : j # i /\ s.error_or_value[appendages[j]] # << >> => Ahead(i, j) < Ahead(p, j)
  <2>1. \A j \in 1..n : s.error_or_value[appendages[j]] # << >> => j \in filled
    BY <1>2 DEF filled
  <2> QED
    BY <1>8, <2>1
<1>10. appendages[i] \in queued(s) /\ appendages[i] \in Child /\ s.error_or_value[appendages[i]] # << >>
  BY <1>2, <1>7 DEF filled
<1> QED
  BY <1>7, <1>9, <1>10 DEF i, n, p

-----------------------------------------------------------------------------
(***************************************************************************)
(* The numbers of a child's elements.                                      *)
(***************************************************************************)
(* One element more has passed the merge node. *)
LEMMA TallyGrows ==
  ASSUME NEW k, NEW m \in Nat, NEW g, NEW h, NEW x, Extends(g, m, h, x),
         NEW p, Tally(p, k, g, m), x.child = k => x.id = p[m] + 1
  PROVE  \E q : /\ Tally(q, k, h, m + 1)
                /\ x.child = k => q[m + 1] = p[m] + 1
                /\ x.child # k => q[m + 1] = p[m]
<1> DEFINE v == IF x.child = k THEN p[m] + 1 ELSE p[m]
           q == [i \in Nat |-> IF i = m + 1 THEN v ELSE p[i]]
<1>1. p \in [Nat -> Nat] /\ p[0] = 0 /\ \A i \in 1..m : CountsAt(p, k, i, g[i])
  BY DEF Tally
<1>2. p[m] \in Nat /\ v \in Nat /\ (x.child = k => v = p[m] + 1 /\ x.id = v) /\ (x.child # k => v = p[m])
  BY <1>1
<1> HIDE DEF v
<1>3. q \in [Nat -> Nat] /\ q[m + 1] = v /\ \A i \in 0..m : q[i] = p[i]
  BY <1>1, <1>2
<1> HIDE DEF q
<1>4. q[0] = 0 /\ q[m] = p[m]
  BY <1>1, <1>3
<1>5. ASSUME NEW i \in 1..(m + 1) PROVE CountsAt(q, k, i, h[i])
  <2>1. CASE i = m + 1
    <3>1. i - 1 = m
      BY <2>1
    <3>2. q[i] = v /\ q[i - 1] = p[m] /\ h[i] = x
      BY <2>1, <3>1, <1>3, <1>4 DEF Extends
    <3> QED
      BY <3>2, <1>2 DEF CountsAt
  <2>2. CASE i # m + 1
    <3>1. i \in 1..m /\ i \in 0..m /\ i - 1 \in 0..m
      BY <2>2
    <3>2. q[i] = p[i] /\ q[i - 1] = p[i - 1] /\ h[i] = g[i] /\ CountsAt(p, k, i, g[i])
      BY <3>1, <1>1, <1>3 DEF Extends
    <3> QED
      BY <3>2 DEF CountsAt
  <2> QED
    BY <2>1, <2>2
<1>6. Tally(q, k, h, m + 1)
  BY <1>3, <1>4, <1>5 DEF Tally
<1> QED
  BY <1>2, <1>3, <1>6

(* A run of elements loses its first. *)
LEMMA FollowTail ==
  ASSUME NEW n \in Nat, NEW k, NEW seq \in Seq(Items), seq # << >>, Follow(n, k, seq)
  PROVE  /\ Tail(seq) \in Seq(Items) /\ Len(Tail(seq)) = Len(seq) - 1 /\ Len(seq) \in Nat /\ Len(seq) >= 1
         /\ Follow(n + 1, k, Tail(seq))
         /\ Head(seq) \in Items /\ Head(seq).child = k /\ Head(seq).id = n + 1
<1> DEFINE z == Tail(seq)
           x == Head(seq)
<1>1. /\ z \in Seq(Items) /\ Len(z) = Len(seq) - 1 /\ Len(seq) \in Nat /\ Len(seq) >= 1
      /\ \A i \in 1..(Len(seq) - 1) : z[i] = seq[i + 1]
      /\ x = seq[1] /\ x \in Items
  BY FrontGone
<1> HIDE DEF z, x
<1>2. \A i \in 1..Len(seq) : seq[i].child = k /\ seq[i].id = n + i
  BY DEF Follow
<1>3. x.child = k /\ x.id = n + 1
  BY <1>1, <1>2
<1>4. ASSUME NEW i \in 1..Len(z) PROVE z[i].child = k /\ z[i].id = n + 1 + i
  <2>1. i + 1 \in 1..Len(seq) /\ z[i] = seq[i + 1] /\ n + (i + 1) = n + 1 + i
    BY <1>1
  <2> QED
    BY <2>1, <1>2
<1> QED
  BY <1>1, <1>3, <1>4 DEF Follow, z, x

(* A run of elements gets the next one. *)
LEMMA FollowAppend ==
  ASSUME NEW n \in Nat, NEW k, NEW seq \in Seq(Items), Follow(n, k, seq),
         NEW x \in Items, x.child = k, x.id = n + Len(seq) + 1
  PROVE  /\ Append(seq, x) \in Seq(Items) /\ Len(Append(seq, x)) = Len(seq) + 1 /\ Len(seq) \in Nat
         /\ Follow(n, k, Append(seq, x))
<1> DEFINE z == Append(seq, x)
<1>1. /\ z \in Seq(Items) /\ Len(z) = Len(seq) + 1 /\ Len(seq) \in Nat
      /\ \A i \in 1..Len(seq) : z[i] = seq[i]
      /\ z[Len(seq) + 1] = x
  BY BackGrown
<1> HIDE DEF z
<1>2. ASSUME NEW i \in 1..Len(z) PROVE z[i].child = k /\ z[i].id = n + i
  <2>1. CASE i = Len(seq) + 1
    <3>1. z[i] = x /\ n + i = n + Len(seq) + 1
      BY <2>1, <1>1
    <3> QED
      BY <3>1
  <2>2. CASE i # Len(seq) + 1
    <3>1. i \in 1..Len(seq)
      BY <2>2, <1>1
    <3> QED
      BY <3>1, <1>1 DEF Follow
  <2> QED
    BY <2>1, <2>2
<1> QED
  BY <1>1, <1>2 DEF Follow, z

(* An appendage with one element. *)
LEMMA FollowOne ==
  ASSUME NEW n \in Nat, NEW k, NEW x \in Items, x.child = k, x.id = n + 1
  PROVE  <<x>> \in Seq(Items) /\ Len(<<x>>) = 1 /\ Follow(n, k, <<x>>)
<1>1. <<x>> \in Seq(Items) /\ Len(<<x>>) = 1 /\ <<x>>[1] = x
  OBVIOUS
<1> DEFINE z == <<x>>
<1>2. z \in Seq(Items) /\ Len(z) = 1 /\ z[1] = x
  BY <1>1
<1> HIDE DEF z
<1>3. \A i \in 1..Len(z) : i = 1
  BY <1>2
<1>4. Follow(n, k, z)
  BY <1>2, <1>3 DEF Follow
<1> QED
  BY <1>2, <1>4 DEF z

(* Nothing is numbered as it should be. *)
LEMMA FollowNone ==
  ASSUME NEW n, NEW k
  PROVE  << >> \in Seq(Items) /\ Len(<< >>) = 0 /\ Follow(n, k, << >>)
<1>1. << >> \in Seq(Items) /\ Len(<< >>) = 0
  OBVIOUS
<1> QED
  BY <1>1 DEF Follow

-----------------------------------------------------------------------------
(***************************************************************************)
(* What arming, turning and destroying do to a state.                      *)
(***************************************************************************)
SameButLoop(s, t) ==
    /\ t.store = s.store /\ t.held = s.held /\ t.error_or_value = s.error_or_value
    /\ t.next_appendage = s.next_appendage /\ t.lane = s.lane /\ t.out = s.out
    /\ t.destroyed = s.destroyed /\ t.passed = s.passed /\ t.aborted = s.aborted
    /\ t.cut = s.cut

(* What Base says of the data depends on the data. *)
LEMMA SameNumbered ==
  ASSUME NEW s, NEW t, NEW f, Numbered(s, f), s.destroyed \subseteq t.destroyed,
         t.store = s.store, t.held = s.held, t.error_or_value = s.error_or_value,
         t.lane = s.lane, t.out = s.out
  PROVE  Numbered(t, f)
<1>1. Given(t) = Given(s) /\ Many(t) = Many(s)
  BY DEF Given, Many
<1>2. ASSUME NEW k \in Child, NEW n, Rest(n, k, s, f) PROVE Rest(n, k, t, f)
  BY <1>2 DEF Rest
<1> HIDE DEF Given, Many
<1> QED
  BY <1>1, <1>2 DEF Numbered, NumberedOf

(* The queue changes, and nothing else. *)
LEMMA LoopBase ==
  ASSUME NEW s, Base(s), NEW q, QueueInv(q, s.destroyed),
         \A k \in Child : IsArmed(q, Source(k)) => s.store[k] # << >>
  PROVE  LET t == [s EXCEPT !.loop = q] IN Base(t) /\ t.loop = q /\ SameButLoop(s, t)
<1> DEFINE t == [s EXCEPT !.loop = q]
<1>1. s \in States /\ Slots(s) /\ Turns(s) /\ Owned(s) /\ Numbered(s, fed)
  BY DEF Base
<1>2. q \in Queues
  BY DEF QueueInv
<1>3. t \in States /\ t.loop = q /\ SameButLoop(s, t)
  BY <1>1, <1>2 DEF States, SameButLoop
<1> HIDE DEF t
<1>4. Slots(t) /\ Turns(t) /\ Owned(t)
  BY <1>1, <1>3 DEF Slots, Turns, Owned, SameButLoop
<1>5. Queued(t)
  BY <1>3 DEF Queued, SameButLoop
<1>6. Numbered(t, fed)
  BY <1>1, <1>3, SameNumbered DEF SameButLoop
<1> QED
  BY <1>3, <1>4, <1>5, <1>6 DEF Base, t

Arms(q, e) == {DoArmNext(q, e), DoArmLater(q, e), DoArmLast(q, e)}

(* A node that exists is armed. *)
LEMMA ArmBase ==
  ASSUME NEW s, Base(s), NEW e \in Event, e \notin s.destroyed,
         \A k \in Child : e = Source(k) => s.store[k] # << >>,
         NEW q \in Arms(s.loop, e)
  PROVE  LET t == [s EXCEPT !.loop = q] IN
         /\ Base(t) /\ SameButLoop(s, t)
         /\ \A f \in Event : IsArmed(t.loop, f) <=> IsArmed(s.loop, f) \/ f = e
<1> DEFINE l == s.loop
           dead == s.destroyed
<1>1. QueueInv(l, dead) /\ dead \in SUBSET Event
      /\ \A k \in Child : IsArmed(l, Source(k)) => s.store[k] # << >>
  BY StateFields DEF Base, Queued
<1> HIDE DEF l, dead
<1>2. QueueInv(q, dead) /\ \A f \in Event : IsArmed(q, f) <=> IsArmed(l, f) \/ f = e
  <2>1. e \notin dead /\ q \in Arms(l, e)
    BY DEF l, dead
  <2>2. CASE q = DoArmNext(l, e)
    BY <1>1, <2>1, <2>2, ArmNextInv
  <2>3. CASE q = DoArmLater(l, e)
    BY <1>1, <2>1, <2>3, ArmLaterInv
  <2>4. CASE q = DoArmLast(l, e)
    BY <1>1, <2>1, <2>4, ArmLastInv
  <2> QED
    BY <2>1, <2>2, <2>3, <2>4 DEF Arms
<1>3. \A k \in Child : IsArmed(q, Source(k)) => s.store[k] # << >>
  BY <1>1, <1>2, NodesAreEvents
<1> DEFINE t == [s EXCEPT !.loop = q]
<1>4. Base(t) /\ t.loop = q /\ SameButLoop(s, t)
  BY <1>2, <1>3, LoopBase DEF dead
<1> HIDE DEF t
<1> QED
  BY <1>2, <1>4 DEF t, l

(* Arming keeps everyone awake. *)
LEMMA ArmAwake ==
  ASSUME NEW s, NEW t, SameButLoop(s, t), \A f \in Event : IsArmed(s.loop, f) => IsArmed(t.loop, f)
  PROVE  (LaneAwake(s) => LaneAwake(t)) /\ (MergerAwake(s) => MergerAwake(t))
<1>1. Merger \in Event /\ Lane \in Event
  BY NodesAreEvents
<1>2. queued(t) = queued(s) /\ LaneSpace(t) = LaneSpace(s) /\ (LaneEnds(t) <=> LaneEnds(s))
  BY DEF SameButLoop, queued, LaneSpace, LaneEnds
<1>3. LaneAwake(s) => LaneAwake(t)
  BY <1>1 DEF SameButLoop, LaneAwake
<1>4. MergerAwake(s) => MergerAwake(t)
  BY <1>1, <1>2 DEF SameButLoop, MergerAwake, Serves, Waits
<1> QED
  BY <1>3, <1>4

(* turn() takes the first event out of the queue. *)
LEMMA TurnBase ==
  ASSUME NEW s, Base(s), s.loop.link[HeadSlot] # Null
  PROVE  LET e == s.loop.link[HeadSlot]
             t == [s EXCEPT !.loop = DoTurn(s.loop)] IN
         /\ Base(t) /\ SameButLoop(s, t)
         /\ e \in Event /\ e \notin s.destroyed /\ IsArmed(s.loop, e)
         /\ \A f \in Event : IsArmed(t.loop, f) <=> IsArmed(s.loop, f) /\ f # e
<1> DEFINE l == s.loop
           dead == s.destroyed
           e == s.loop.link[HeadSlot]
           q == DoTurn(l)
           t == [s EXCEPT !.loop = q]
<1>1. QueueInv(l, dead) /\ dead \in SUBSET Event
      /\ \A k \in Child : IsArmed(l, Source(k)) => s.store[k] # << >>
  BY StateFields DEF Base, Queued
<1>2. e = l.link[HeadSlot] /\ e # Null
  OBVIOUS
<1> HIDE DEF l, dead, e
<1>3. /\ e \in Event /\ IsArmed(l, e) /\ e \notin dead
      /\ QueueInv(q, dead)
      /\ \A f \in Event : IsArmed(q, f) <=> IsArmed(l, f) /\ f # e
  BY <1>1, <1>2, TurnInv
<1> HIDE DEF q
<1>4. \A k \in Child : IsArmed(q, Source(k)) => s.store[k] # << >>
  BY <1>1, <1>3, NodesAreEvents
<1>5. Base(t) /\ t.loop = q /\ SameButLoop(s, t)
  BY <1>3, <1>4, LoopBase DEF dead
<1> HIDE DEF t
<1> QED
  BY <1>3, <1>5 DEF t, l, q, e, dead

(* The destructors of the nodes in order, n of them. *)
LEMMA DestroyedBase ==
  ASSUME NEW s, Base(s), NEW n \in Nat, NEW order, DOMAIN order = 1..n,
         \A i \in 1..n : order[i] \in Event
  PROVE  LET t == Destroyed(s, order)
             gone == Range(order) IN
         /\ Owned(t) => Base(t)
         /\ t.store = s.store /\ t.held = s.held /\ t.error_or_value = s.error_or_value
         /\ t.next_appendage = s.next_appendage /\ t.lane = s.lane /\ t.out = s.out
         /\ t.passed = s.passed /\ t.aborted = s.aborted
         /\ t.destroyed = s.destroyed \cup gone
         /\ \A f \in Event : IsArmed(t.loop, f) <=> IsArmed(s.loop, f) /\ f \notin gone
<1> DEFINE l == s.loop
           dead == s.destroyed
           gone == Range(order)
           q == FoldLeft(DoDisarm, s.loop, order)
           t == Destroyed(s, order)
<1>1. s \in States /\ Slots(s) /\ Turns(s) /\ Queued(s) /\ Numbered(s, fed)
  BY DEF Base
<1>2. QueueInv(l, dead) /\ dead \in SUBSET Event
      /\ \A k \in Child : IsArmed(l, Source(k)) => s.store[k] # << >>
  BY <1>1, StateFields DEF Queued
<1>3. gone = {order[i] : i \in 1..n} /\ gone \in SUBSET Event
  BY DEF Range
<1>4. q = FoldLeft(DoDisarm, l, order)
  OBVIOUS
<1>5. /\ t = [s EXCEPT !.loop = q, !.cut = s.cut \/ s.loop.laterInsert \in gone,
                       !.destroyed = s.destroyed \cup gone]
  BY <1>1 DEF Destroyed, States
<1> HIDE DEF l, dead, gone, q, t
<1>6. /\ QueueInv(q, dead \cup gone)
      /\ \A f \in Event : IsArmed(q, f) <=> IsArmed(l, f) /\ f \notin gone
  <2>1. LET r == FoldLeft(DoDisarm, l, order)
            all == {order[i] : i \in 1..n} IN
        /\ QueueInv(r, dead \cup all)
        /\ \A f \in Event : IsArmed(r, f) <=> IsArmed(l, f) /\ f \notin all
        /\ r.laterInsert = l.laterInsert
    BY <1>2, DisarmAllInv
  <2> QED
    BY <1>3, <1>4, <2>1
<1>7. q \in Queues
  BY <1>6 DEF QueueInv
<1>8. /\ t \in States /\ t.loop = q /\ t.destroyed = s.destroyed \cup gone
      /\ t.store = s.store /\ t.held = s.held /\ t.error_or_value = s.error_or_value
      /\ t.next_appendage = s.next_appendage /\ t.lane = s.lane /\ t.out = s.out
      /\ t.passed = s.passed /\ t.aborted = s.aborted
  BY <1>1, <1>3, <1>5, <1>7 DEF States
<1>9. Slots(t) /\ Turns(t)
  BY <1>1, <1>8 DEF Slots, Turns
<1>10. Queued(t)
  <2>1. QueueInv(t.loop, t.destroyed)
    BY <1>6, <1>8 DEF dead
  <2>2. \A k \in Child : IsArmed(t.loop, Source(k)) => t.store[k] # << >>
    BY <1>2, <1>6, <1>8, NodesAreEvents
  <2> QED
    BY <2>1, <2>2 DEF Queued
<1>11. Numbered(t, fed)
  <2>1. s.destroyed \subseteq t.destroyed
    BY <1>8
  <2> QED
    BY <1>1, <1>8, <2>1, SameNumbered
<1> QED
  BY <1>6, <1>8, <1>9, <1>10, <1>11 DEF Base, l, gone, t

-----------------------------------------------------------------------------
(***************************************************************************)
(* What moving an element does to a state.                                 *)
(***************************************************************************)
(* An element goes into the sink when the lane has no buffer. *)
LEMMA GivenOut ==
  ASSUME NEW s \in States, s.lane = << >>, NEW x \in Items,
         NEW u, u.lane = << >>, u.out = Append(s.out, x)
  PROVE  Many(u) = Many(s) + 1 /\ Many(s) \in Nat /\ Extends(Given(s), Many(s), Given(u), x)
<1> DEFINE o == s.out
           z == u.out
           n == Len(o)
<1>1. Len(z) = n + 1 /\ n \in Nat /\ (\A i \in 1..n : z[i] = o[i]) /\ z[n + 1] = x
  BY StateFields, BackGrown
<1>2. Len(s.lane) = 0 /\ Len(u.lane) = 0
  OBVIOUS
<1> HIDE DEF o, z, n
<1>3. Many(s) = n /\ Many(u) = n + 1
  BY <1>1, <1>2 DEF Many, n, o, z
<1>4. Given(s) = [i \in Nat |-> IF i <= n THEN o[i] ELSE s.lane[i - n]]
      /\ Given(u) = [i \in Nat |-> IF i <= Len(z) THEN z[i] ELSE u.lane[i - Len(z)]]
  BY DEF Given, n, o, z
<1>5. (\A i \in 1..n : Given(s)[i] = o[i]) /\ \A i \in 1..(n + 1) : Given(u)[i] = z[i]
  <2>1. ASSUME NEW i \in 1..n PROVE Given(s)[i] = o[i]
    BY <1>1, <1>4
  <2>2. ASSUME NEW i \in 1..(n + 1) PROVE Given(u)[i] = z[i]
    BY <1>1, <1>4
  <2> QED
    BY <2>1, <2>2
<1> HIDE DEF Given
<1>6. n + 1 \in 1..(n + 1) /\ \A i \in 1..n : i \in 1..(n + 1)
  BY <1>1
<1> QED
  BY <1>1, <1>3, <1>5, <1>6 DEF Extends

(* An element goes into the buffer of the lane. *)
LEMMA GivenLane ==
  ASSUME NEW s \in States, NEW x \in Items, NEW u, u.out = s.out, u.lane = Append(s.lane, x)
  PROVE  Many(u) = Many(s) + 1 /\ Many(s) \in Nat /\ Extends(Given(s), Many(s), Given(u), x)
<1> DEFINE o == s.out
           l == s.lane
           z == u.lane
           n == Len(o)
           m == Len(l)
<1>1. Len(z) = m + 1 /\ m \in Nat /\ (\A i \in 1..m : z[i] = l[i]) /\ z[m + 1] = x
  BY StateFields, BackGrown
<1>2. n \in Nat
  BY StateFields, LenProperties
<1>3. u.out = o
  OBVIOUS
<1>4. Given(s) = [i \in Nat |-> IF i <= n THEN o[i] ELSE l[i - n]]
      /\ Given(u) = [i \in Nat |-> IF i <= n THEN o[i] ELSE z[i - n]]
  BY <1>3 DEF Given
<1>5. Many(s) = n + m /\ Many(u) = n + Len(z)
  BY <1>3 DEF Many
<1> HIDE DEF o, l, z, n, m, Given, Many
<1>6. Many(s) \in Nat /\ Many(u) = Many(s) + 1
  BY <1>1, <1>2, <1>5
<1>7. Given(u)[n + m + 1] = x
  <2> DEFINE j == n + m + 1
  <2>1. j \in Nat /\ ~(j <= n) /\ j - n = m + 1
    BY <1>1, <1>2
  <2> HIDE DEF j
  <2>2. Given(u)[j] = z[j - n]
    BY <2>1, <1>4
  <2> QED
    BY <2>1, <2>2, <1>1 DEF j
<1>8. ASSUME NEW i \in 1..(n + m) PROVE Given(u)[i] = Given(s)[i]
  <2>1. i \in Nat
    BY <1>1, <1>2
  <2>2. CASE i <= n
    BY <2>1, <2>2, <1>4
  <2>3. CASE ~(i <= n)
    <3>1. i - n \in 1..m
      BY <1>1, <1>2, <2>3
    <3>2. z[i - n] = l[i - n]
      BY <3>1, <1>1
    <3> QED
      BY <2>1, <2>3, <3>2, <1>4
  <2> QED
    BY <2>2, <2>3
<1> QED
  BY <1>5, <1>6, <1>7, <1>8 DEF Extends

(* The lane gives its first element to the sink. *)
LEMMA GivenMoves ==
  ASSUME NEW s \in States, s.lane # << >>, NEW u, u.out = Append(s.out, Head(s.lane)), u.lane = Tail(s.lane)
  PROVE  Many(u) = Many(s) /\ Many(s) \in Nat /\ \A i \in 1..Many(s) : Given(u)[i] = Given(s)[i]
<1> DEFINE o == s.out
           l == s.lane
           y == u.out
           z == u.lane
           n == Len(o)
           m == Len(l)
           x == Head(l)
<1>0. o \in Seq(Items) /\ l \in Seq(Items)
  BY StateFields
<1>1. /\ Len(z) = m - 1 /\ m \in Nat /\ m >= 1 /\ x = l[1] /\ x \in Items
      /\ \A i \in 1..(m - 1) : z[i] = l[i + 1]
  BY <1>0, FrontGone
<1>2. y = Append(o, x)
  OBVIOUS
<1> HIDE DEF x
<1>3. Len(y) = n + 1 /\ n \in Nat /\ (\A i \in 1..n : y[i] = o[i]) /\ y[n + 1] = x
  BY <1>0, <1>1, <1>2, BackGrown
<1>4. Given(s) = [i \in Nat |-> IF i <= n THEN o[i] ELSE l[i - n]]
      /\ Given(u) = [i \in Nat |-> IF i <= Len(y) THEN y[i] ELSE z[i - Len(y)]]
  BY DEF Given
<1>5. Many(s) = n + m /\ Many(u) = Len(y) + Len(z)
  BY DEF Many
<1> HIDE DEF o, l, y, z, n, m, Given, Many
<1>6. Many(s) \in Nat /\ Many(u) = Many(s)
  BY <1>1, <1>3, <1>5
<1>7. ASSUME NEW i \in 1..(n + m) PROVE Given(u)[i] = Given(s)[i]
  <2>1. i \in Nat
    BY <1>1, <1>3
  <2>2. CASE i <= n
    <3>1. i \in 1..n /\ i <= Len(y)
      BY <2>2, <1>3
    <3> QED
      BY <2>1, <2>2, <3>1, <1>3, <1>4
  <2>3. CASE i = n + 1
    <3>1. i <= Len(y) /\ ~(i <= n) /\ i - n = 1
      BY <2>3, <1>3
    <3> QED
      BY <2>1, <2>3, <3>1, <1>1, <1>3, <1>4
  <2>4. CASE i > n + 1
    <3>1. ~(i <= n) /\ ~(i <= Len(y)) /\ i - Len(y) \in 1..(m - 1) /\ i - Len(y) + 1 = i - n
      BY <2>1, <2>4, <1>1, <1>3
    <3>2. z[i - Len(y)] = l[i - n]
      BY <3>1, <1>1
    <3> QED
      BY <2>1, <3>1, <3>2, <1>4
  <2> QED
    BY <2>1, <2>2, <2>3, <2>4, <1>3
<1> QED
  BY <1>5, <1>6, <1>7

(* getResult() of the merge node takes x from the appendage of child k. *)
Passes(s, u, i, k, x) ==
    /\ u.error_or_value = [s.error_or_value EXCEPT ![k] = << >>]
    /\ u.next_appendage = i
    /\ u.passed = [c \in Child |-> IF c = k \/ c \notin queued(s) THEN 0 ELSE s.passed[c] + 1]
    /\ u.loop = s.loop /\ u.store = s.store /\ u.held = s.held
    /\ u.destroyed = s.destroyed /\ u.aborted = s.aborted
    /\ Many(u) = Many(s) + 1 /\ Many(s) \in Nat /\ Extends(Given(s), Many(s), Given(u), x)

(* It has its turn later the more often it was served. *)
LEMMA PassTurns ==
  ASSUME Frame, NEW s, s \in States, Slots(s), Turns(s), queued(s) # {},
         NEW u, Passes(s, u, Served(s), appendages[Served(s)], Result(s))
  PROVE  Turns(u)
<1> DEFINE n == Len(appendages)
           i == Served(s)
           k == appendages[i]
           p == s.next_appendage
           m == MaxChild
<1>1. n \in Nat /\ n <= m /\ p \in Nat /\ m \in Nat
  BY FewAppendages, StateFields, NodesAreEvents
<1>2. s.next_appendage <= n /\ s.passed \in [Child -> Nat] /\ s.error_or_value \in [Child -> Seq(Items)]
  BY StateFields DEF Turns
<1>3. /\ i \in 1..n /\ k \in queued(s) /\ k \in Child
      /\ \A j \in 1..n : j # i /\ s.error_or_value[appendages[j]] # << >> => Ahead(i, j) < Ahead(p, j)
  BY <1>2, ServedNext
<1>4. /\ u.error_or_value = [s.error_or_value EXCEPT ![k] = << >>] /\ u.next_appendage = i
      /\ u.passed = [c \in Child |-> IF c = k \/ c \notin queued(s) THEN 0 ELSE s.passed[c] + 1]
  BY DEF Passes
<1>5. \A c \in Child : c \in queued(s) <=> Attached(c) /\ s.error_or_value[c] # << >>
  BY DEF queued, Attached
<1>6. \A j \in 1..n : appendages[j] \in Child /\ Attached(appendages[j])
  BY AttachedAt
<1> HIDE DEF n, i, k, p, m
<1>7. ASSUME NEW c \in Child, u.error_or_value[c] = << >> PROVE u.passed[c] = 0
  BY <1>2, <1>4, <1>5, <1>7
<1>8. ASSUME NEW j \in 1..n, u.error_or_value[appendages[j]] # << >>
      PROVE  u.passed[appendages[j]] + Ahead(i, j) < m
  <2> DEFINE c == appendages[j]
  <2>1. c \in Child /\ Attached(c)
    BY <1>6
  <2>2. c # k /\ s.error_or_value[c] # << >>
    BY <1>2, <1>3, <1>4, <1>8, <2>1
  <2>3. j # i
    BY <2>2 DEF k
  <2>4. Ahead(i, j) < Ahead(p, j)
    BY <1>3, <2>2, <2>3
  <2>5. s.passed[c] + Ahead(p, j) < m
    BY <2>2 DEF Turns, n, p, m
  <2>6. u.passed[c] = s.passed[c] + 1 /\ s.passed[c] \in Nat
    BY <1>2, <1>4, <1>5, <2>1, <2>2
  <2>7. Ahead(i, j) \in Int /\ Ahead(p, j) \in Int
    BY <1>1, <1>3 DEF Ahead, m
  <2> HIDE DEF c, Ahead
  <2>8. s.passed[c] + 1 + Ahead(i, j) < m
    BY <1>1, <2>4, <2>5, <2>6, <2>7
  <2> QED
    BY <2>6, <2>8 DEF c
<1>9. u.next_appendage <= n
  BY <1>1, <1>3, <1>4
<1> QED
  BY <1>4, <1>7, <1>8, <1>9 DEF Turns, n, m

(* Every other child's elements are where they were. *)
LEMMA PassNumbered ==
  ASSUME NEW s, s \in States, Slots(s), Numbered(s, fed),
         NEW i, NEW k \in Child, s.error_or_value[k] # << >>, NEW x, x = s.error_or_value[k][1],
         NEW u, Passes(s, u, i, k, x)
  PROVE  Numbered(u, fed)
<1> DEFINE m == Many(s)
           g == Given(s)
           h == Given(u)
           e == s.error_or_value[k]
<1>1. m \in Nat /\ Many(u) = m + 1 /\ Extends(g, m, h, x)
  BY DEF Passes
<1>2. /\ u.error_or_value = [s.error_or_value EXCEPT ![k] = << >>] /\ u.destroyed = s.destroyed
      /\ u.store = s.store /\ u.held = s.held
      /\ s.error_or_value \in [Child -> Seq(Items)] /\ s.held \in [Child -> Seq(Items)]
      /\ s.store \in [Child -> Seq(Items)]
  BY StateFields DEF Passes
<1>3. e \in Seq(Items) /\ e # << >> /\ Len(e) <= 1 /\ Len(e) \in Nat
  BY <1>2, LenProperties DEF Slots
<1>4. Len(e) = 1
  <2>1. Len(e) # 0
    BY <1>3, EmptySeq
  <2>2. Len(e) \in Nat /\ Len(e) <= 1
    BY <1>3
  <2> HIDE DEF e
  <2> QED
    BY <2>1, <2>2
<1> HIDE DEF m, g, h
<1>5. ASSUME NEW c \in Child PROVE NumberedOf(c, u, fed)
  <2>1. PICK p : Tally(p, c, g, m) /\ Rest(p[m], c, s, fed)
    BY DEF Numbered, NumberedOf, g, m
  <2>2. p[m] \in Nat
    BY <2>1, <1>1 DEF Tally
  <2>3. CASE c = k
    <3>1. Follow(p[m], k, e)
      BY <2>1, <2>3 DEF Rest
    <3> HIDE DEF e
    <3>2. x.child = k /\ x.id = p[m] + 1
      <4>1. 1 \in 1..Len(e) /\ x = e[1]
        BY <1>4 DEF e
      <4> QED
        BY <3>1, <4>1 DEF Follow
    <3>3. PICK q : Tally(q, c, h, m + 1) /\ q[m + 1] = p[m] + 1
      <4>1. Tally(p, c, g, m) /\ (x.child = c => x.id = p[m] + 1)
        BY <2>1, <3>2
      <4>2. \E q : /\ Tally(q, c, h, m + 1)
                   /\ x.child = c => q[m + 1] = p[m] + 1
                   /\ x.child # c => q[m + 1] = p[m]
        BY <1>1, <4>1, TallyGrows
      <4> QED
        BY <4>2, <2>3, <3>2
    <3> DEFINE b == s.held[k]
               d == s.store[k]
               n == p[m]
    <3>4. Len(b) \in Nat /\ Len(d) \in Nat
      BY <1>2, LenProperties
    <3>5. Follow(n + 1, k, b) /\ Follow(n + 1 + Len(b), k, d)
          /\ (Source(k) \notin s.destroyed => n + 1 + Len(b) + Len(d) = fed[k])
      BY <2>1, <2>3, <1>4 DEF Rest, e
    <3>6. u.error_or_value[k] = << >> /\ u.held[k] = b /\ u.store[k] = d
      BY <1>2
    <3> HIDE DEF b, d, n
    <3>7. Len(<< >>) = 0 /\ Follow(n + 1, k, << >>)
      BY FollowNone
    <3>8. n + 1 + 0 = n + 1
      BY <2>2 DEF n
    <3>9. Rest(n + 1, k, u, fed)
      BY <1>2, <3>5, <3>6, <3>7, <3>8 DEF Rest
    <3> QED
      BY <2>3, <3>3, <3>9, <1>1 DEF NumberedOf, h, n
  <2>4. CASE c # k
    <3>1. x.child # c
      <4>1. PICK r : Rest(r[m], k, s, fed)
        BY DEF Numbered, NumberedOf, m
      <4>2. Follow(r[m], k, e)
        BY <4>1 DEF Rest
      <4>3. 1 \in 1..Len(e) /\ x = e[1]
        BY <1>4
      <4> QED
        BY <2>4, <4>2, <4>3 DEF Follow
    <3>2. PICK q : Tally(q, c, h, m + 1) /\ q[m + 1] = p[m]
      <4>1. Tally(p, c, g, m) /\ (x.child = c => x.id = p[m] + 1)
        BY <2>1, <3>1
      <4>2. \E q : /\ Tally(q, c, h, m + 1)
                   /\ x.child = c => q[m + 1] = p[m] + 1
                   /\ x.child # c => q[m + 1] = p[m]
        BY <1>1, <4>1, TallyGrows
      <4> QED
        BY <4>2, <3>1
    <3>3. u.error_or_value[c] = s.error_or_value[c]
      BY <1>2, <2>4
    <3>4. Rest(p[m], c, u, fed)
      BY <2>1, <3>3, <1>2 DEF Rest
    <3> QED
      BY <3>2, <3>4, <1>1 DEF NumberedOf, h
  <2> QED
    BY <2>3, <2>4
<1> QED
  BY <1>5 DEF Numbered

(* getResult() keeps what Base says. *)
LEMMA PassBase ==
  ASSUME Frame, NEW s, Base(s), queued(s) # {}, NEW u \in States,
         Passes(s, u, Served(s), appendages[Served(s)], Result(s)),
         Len(u.lane) <= limit, top = "none" => u.lane = << >>
  PROVE  Base(u)
<1> DEFINE i == Served(s)
           k == appendages[i]
           x == Result(s)
<1>1. s \in States /\ Slots(s) /\ Turns(s) /\ Owned(s) /\ Queued(s) /\ Numbered(s, fed)
  BY DEF Base
<1>2. k \in Child /\ s.error_or_value[k] # << >>
  BY <1>1, ServedNext DEF Turns
<1>3. x = s.error_or_value[k][1]
  BY DEF Result
<1>4. Turns(u)
  BY <1>1, PassTurns
<1> HIDE DEF i, k, x
<1>5. Passes(s, u, i, k, x)
  BY DEF i, k, x
<1>6. Numbered(u, fed)
  BY <1>1, <1>2, <1>3, <1>5, PassNumbered
<1>7. /\ u.error_or_value = [s.error_or_value EXCEPT ![k] = << >>] /\ u.destroyed = s.destroyed
      /\ u.store = s.store /\ u.held = s.held /\ u.loop = s.loop
      /\ s.error_or_value \in [Child -> Seq(Items)]
  BY <1>1, <1>5, StateFields DEF Passes
<1>8. Owned(u) /\ Queued(u)
  BY <1>1, <1>7 DEF Owned, Queued
<1>9. Slots(u)
  <2>1. ASSUME NEW c \in Child
        PROVE  /\ Len(u.error_or_value[c]) <= 1
               /\ ~Attached(c) => u.error_or_value[c] = << >>
               /\ kind[c] # "buffered" => u.held[c] = << >>
    <3>1. CASE c = k
      <4>1. u.error_or_value[c] = << >> /\ Len(<< >>) = 0
        BY <3>1, <1>7
      <4> QED
        BY <4>1, <1>1, <1>7 DEF Slots
    <3>2. CASE c # k
      <4>1. u.error_or_value[c] = s.error_or_value[c]
        BY <3>2, <1>7
      <4> QED
        BY <4>1, <1>1, <1>7 DEF Slots
    <3> QED
      BY <3>1, <3>2
  <2> QED
    BY <2>1 DEF Slots
<1> QED
  BY <1>4, <1>6, <1>8, <1>9 DEF Base

(* What a handler leaves alone when it only moves elements. *)
SameControl(s, u) ==
    /\ u.loop = s.loop /\ u.store = s.store /\ u.held = s.held
    /\ u.destroyed = s.destroyed /\ u.aborted = s.aborted

(* take(), or the sink above the merge node, gets what getResult() took. *)
LEMMA TakenOut ==
  ASSUME Frame, NEW s, Base(s), queued(s) # {}, s.lane = << >>
  PROVE  LET u == [Taken(s) EXCEPT !.out = Append(@, Result(s))] IN
         Base(u) /\ SameControl(s, u) /\ u.lane = << >>
<1> DEFINE i == Served(s)
           k == appendages[i]
           x == Result(s)
           e == [s.error_or_value EXCEPT ![k] = << >>]
           o == Append(s.out, x)
           v == [c \in Child |-> IF c = k \/ c \notin queued(s) THEN 0 ELSE s.passed[c] + 1]
           u == [Taken(s) EXCEPT !.out = Append(@, Result(s))]
<1>1. s \in States /\ s.next_appendage <= Len(appendages)
  BY DEF Base, Turns
<1>2. i \in 1..Len(appendages) /\ k \in Child /\ s.error_or_value[k] # << >>
  BY <1>1, ServedNext
<1>3. x = s.error_or_value[k][1]
  BY DEF Result
<1>4. u = [s EXCEPT !.error_or_value = e, !.next_appendage = i, !.passed = v, !.out = o]
  BY <1>1 DEF Taken, States
<1> HIDE DEF u, i, k, x
<1>5. x \in Items
  <2>1. s.error_or_value[k] \in Seq(Items)
    BY <1>1, <1>2, StateFields
  <2> QED
    BY <1>2, <1>3, <2>1, FrontGone
<1>6. e \in [Child -> Seq(Items)]
  <2>1. s.error_or_value \in [Child -> Seq(Items)] /\ << >> \in Seq(Items)
    BY <1>1, StateFields, FollowNone
  <2> QED
    BY <2>1
<1>7. o \in Seq(Items)
  BY <1>1, <1>5, StateFields, BackGrown
<1>8. v \in [Child -> Nat] /\ i \in Nat
  <2>1. s.passed \in [Child -> Nat]
    BY <1>1, StateFields
  <2> QED
    BY <1>2, <2>1
<1> DEFINE o1 == o
           e1 == e
           v1 == v
<1> HIDE DEF o1, e1, v1
<1>9. /\ u \in States /\ SameControl(s, u) /\ u.lane = << >> /\ u.out = o1
      /\ u.error_or_value = e1 /\ u.next_appendage = i /\ u.passed = v1
  <2>1. u = [s EXCEPT !.error_or_value = e1, !.next_appendage = i, !.passed = v1, !.out = o1]
    BY <1>4 DEF o1, e1, v1
  <2>2. e1 \in [Child -> Seq(Items)] /\ o1 \in Seq(Items) /\ v1 \in [Child -> Nat]
    BY <1>6, <1>7, <1>8 DEF o1, e1, v1
  <2> QED
    BY <1>1, <1>8, <2>1, <2>2 DEF States, SameControl
<1>10. Many(u) = Many(s) + 1 /\ Many(s) \in Nat /\ Extends(Given(s), Many(s), Given(u), x)
  <2>1. u.out = Append(s.out, x)
    BY <1>9 DEF o1
  <2> QED
    BY <1>1, <1>5, <1>9, <2>1, GivenOut
<1>11. Passes(s, u, i, k, x)
  BY <1>9, <1>10 DEF Passes, SameControl, e1, v1
<1>12. Len(u.lane) <= limit
  <2>1. Len(<< >>) = 0 /\ limit \in Nat
    BY DEF Frame
  <2> QED
    BY <1>9, <2>1
<1>13. Base(u)
  <2>1. Passes(s, u, Served(s), appendages[Served(s)], Result(s))
    BY <1>11 DEF i, k, x
  <2> QED
    BY <1>9, <1>12, <2>1, PassBase
<1> QED
  BY <1>9, <1>13 DEF u

(* The buffer above the merge node gets it. *)
LEMMA TakenLane ==
  ASSUME Frame, NEW s, Base(s), queued(s) # {}, top # "none", Len(s.lane) < limit
  PROVE  LET u == [Taken(s) EXCEPT !.lane = Append(@, Result(s))] IN
         Base(u) /\ SameControl(s, u) /\ u.lane # << >>
<1> DEFINE i == Served(s)
           k == appendages[i]
           x == Result(s)
           e == [s.error_or_value EXCEPT ![k] = << >>]
           o == Append(s.lane, x)
           v == [c \in Child |-> IF c = k \/ c \notin queued(s) THEN 0 ELSE s.passed[c] + 1]
           u == [Taken(s) EXCEPT !.lane = Append(@, Result(s))]
<1>1. s \in States /\ s.next_appendage <= Len(appendages)
  BY DEF Base, Turns
<1>2. i \in 1..Len(appendages) /\ k \in Child /\ s.error_or_value[k] # << >>
  BY <1>1, ServedNext
<1>3. x = s.error_or_value[k][1]
  BY DEF Result
<1>4. u = [s EXCEPT !.error_or_value = e, !.next_appendage = i, !.passed = v, !.lane = o]
  BY <1>1 DEF Taken, States
<1> HIDE DEF u, i, k, x
<1>5. x \in Items
  <2>1. s.error_or_value[k] \in Seq(Items)
    BY <1>1, <1>2, StateFields
  <2> QED
    BY <1>2, <1>3, <2>1, FrontGone
<1>6. e \in [Child -> Seq(Items)]
  <2>1. s.error_or_value \in [Child -> Seq(Items)] /\ << >> \in Seq(Items)
    BY <1>1, StateFields, FollowNone
  <2> QED
    BY <2>1
<1>7. o \in Seq(Items) /\ Len(o) = Len(s.lane) + 1 /\ Len(s.lane) \in Nat
  BY <1>1, <1>5, StateFields, BackGrown
<1>8. v \in [Child -> Nat] /\ i \in Nat
  <2>1. s.passed \in [Child -> Nat]
    BY <1>1, StateFields
  <2> QED
    BY <1>2, <2>1
<1> DEFINE o1 == o
           e1 == e
           v1 == v
<1> HIDE DEF o1, e1, v1
<1>9. /\ u \in States /\ SameControl(s, u) /\ u.lane = o1 /\ u.out = s.out
      /\ u.error_or_value = e1 /\ u.next_appendage = i /\ u.passed = v1
  <2>1. u = [s EXCEPT !.error_or_value = e1, !.next_appendage = i, !.passed = v1, !.lane = o1]
    BY <1>4 DEF o1, e1, v1
  <2>2. e1 \in [Child -> Seq(Items)] /\ o1 \in Seq(Items) /\ v1 \in [Child -> Nat]
    BY <1>6, <1>7, <1>8 DEF o1, e1, v1
  <2> QED
    BY <1>1, <1>8, <2>1, <2>2 DEF States, SameControl
<1>10. Many(u) = Many(s) + 1 /\ Many(s) \in Nat /\ Extends(Given(s), Many(s), Given(u), x)
  <2>1. u.lane = Append(s.lane, x) /\ u.out = s.out
    BY <1>9 DEF o1
  <2> QED
    BY <1>1, <1>5, <2>1, GivenLane
<1>11. Passes(s, u, i, k, x)
  BY <1>9, <1>10 DEF Passes, SameControl, e1, v1
<1>12. Len(u.lane) <= limit /\ u.lane # << >>
  <2>1. Len(u.lane) = Len(s.lane) + 1 /\ Len(s.lane) \in Nat /\ limit \in Nat
    BY <1>7, <1>9 DEF o1, Frame
  <2>2. Len(u.lane) <= limit /\ Len(u.lane) # 0
    BY <2>1
  <2> QED
    BY <2>2, EmptySeq
<1>13. Base(u)
  <2>1. Passes(s, u, Served(s), appendages[Served(s)], Result(s))
    BY <1>11 DEF i, k, x
  <2> QED
    BY <1>9, <1>12, <2>1, PassBase
<1> QED
  BY <1>9, <1>12, <1>13 DEF u

(* The lane's buffer gives its first element to the sink. *)
LEMMA LaneGives ==
  ASSUME Frame, NEW s, Base(s), s.lane # << >>
  PROVE  LET u == [s EXCEPT !.lane = Tail(@), !.out = Append(@, Head(s.lane))] IN
         /\ Base(u) /\ SameControl(s, u) /\ u.error_or_value = s.error_or_value
         /\ u.lane = Tail(s.lane)
<1> DEFINE l == Tail(s.lane)
           x == Head(s.lane)
           o == Append(s.out, x)
           u == [s EXCEPT !.lane = Tail(@), !.out = Append(@, Head(s.lane))]
<1>1. s \in States /\ Slots(s) /\ Turns(s) /\ Owned(s) /\ Queued(s) /\ Numbered(s, fed)
  BY DEF Base
<1>2. l \in Seq(Items) /\ Len(l) = Len(s.lane) - 1 /\ Len(s.lane) \in Nat /\ x \in Items
  BY <1>1, StateFields, FrontGone
<1>3. u = [s EXCEPT !.lane = l, !.out = o]
  BY <1>1 DEF States
<1> HIDE DEF u, l, x
<1>4. o \in Seq(Items)
  BY <1>1, <1>2, StateFields, BackGrown
<1>5. u.lane = l /\ u.out = o
  BY <1>1, <1>3 DEF States
<1>6. Many(u) = Many(s) /\ Many(s) \in Nat /\ \A i \in 1..Many(s) : Given(u)[i] = Given(s)[i]
  BY <1>1, <1>5, GivenMoves DEF l, x
<1> HIDE DEF o
<1>7. /\ u \in States /\ SameControl(s, u) /\ u.error_or_value = s.error_or_value
      /\ u.next_appendage = s.next_appendage /\ u.passed = s.passed
  BY <1>1, <1>2, <1>3, <1>4 DEF States, SameControl
<1>8. Turns(u) /\ Owned(u) /\ Queued(u)
  BY <1>1, <1>7 DEF Turns, Owned, Queued, SameControl
<1>9. Slots(u)
  <2>1. Len(s.lane) <= limit /\ limit \in Nat /\ top # "none"
    BY <1>1 DEF Slots, Frame
  <2>2. Len(u.lane) <= limit
    BY <1>2, <1>5, <2>1
  <2> QED
    BY <1>1, <1>7, <2>1, <2>2 DEF Slots, SameControl
<1>10. Numbered(u, fed)
  <2> DEFINE m == Many(s)
             g == Given(s)
             h == Given(u)
  <2>1. Many(u) = m /\ \A i \in 1..m : h[i] = g[i]
    BY <1>6
  <2> HIDE DEF m, g, h
  <2>2. ASSUME NEW k \in Child PROVE NumberedOf(k, u, fed)
    <3>1. PICK p : Tally(p, k, g, m) /\ Rest(p[m], k, s, fed)
      BY <1>1 DEF Numbered, NumberedOf, g, m
    <3>2. Tally(p, k, h, m)
      BY <3>1, <2>1 DEF Tally
    <3>3. Rest(p[m], k, u, fed)
      BY <3>1, <1>7 DEF Rest, SameControl
    <3> QED
      BY <2>1, <3>2, <3>3 DEF NumberedOf, h
  <2> QED
    BY <2>2 DEF Numbered
<1> QED
  BY <1>5, <1>7, <1>8, <1>9, <1>10 DEF Base, l, u

-----------------------------------------------------------------------------
(***************************************************************************)
(* What the handlers of a child do to a state.                             *)
(***************************************************************************)
(* Only the storages of child k and its appendage change, and an appendage *)
(* is filled only if it was empty.                                         *)
ChildMoves(s, u, k) ==
    /\ u.loop = s.loop /\ u.next_appendage = s.next_appendage /\ u.lane = s.lane
    /\ u.out = s.out /\ u.destroyed = s.destroyed /\ u.passed = s.passed
    /\ u.aborted = s.aborted
    /\ \A c \in Child : c # k => /\ u.store[c] = s.store[c] /\ u.held[c] = s.held[c]
                                 /\ u.error_or_value[c] = s.error_or_value[c]
    /\ \/ u.error_or_value[k] = s.error_or_value[k]
       \/ s.error_or_value[k] = << >> /\ Len(u.error_or_value[k]) = 1 /\ Attached(k)

(* Base survives when the order of the child's elements does. *)
LEMMA ChildBase ==
  ASSUME Frame, NEW s, Base(s), NEW k \in Child, NEW u \in States, ChildMoves(s, u, k),
         kind[k] # "buffered" => u.held[k] = << >>,
         IsArmed(s.loop, Source(k)) => u.store[k] # << >>,
         \A n \in Nat : Rest(n, k, s, fed) => Rest(n, k, u, fed)
  PROVE  Base(u)
<1>1. s \in States /\ Slots(s) /\ Turns(s) /\ Owned(s) /\ Queued(s) /\ Numbered(s, fed)
  BY DEF Base
<1>2. /\ u.loop = s.loop /\ u.next_appendage = s.next_appendage /\ u.lane = s.lane
      /\ u.out = s.out /\ u.destroyed = s.destroyed /\ u.passed = s.passed
      /\ \A c \in Child : c # k => /\ u.store[c] = s.store[c] /\ u.held[c] = s.held[c]
                                   /\ u.error_or_value[c] = s.error_or_value[c]
      /\ \/ u.error_or_value[k] = s.error_or_value[k]
         \/ s.error_or_value[k] = << >> /\ Len(u.error_or_value[k]) = 1 /\ Attached(k)
  BY DEF ChildMoves
<1>3. Owned(u)
  BY <1>1, <1>2 DEF Owned
<1>4. Queued(u)
  <2>1. ASSUME NEW c \in Child, IsArmed(u.loop, Source(c)) PROVE u.store[c] # << >>
    BY <1>1, <1>2, <2>1 DEF Queued
  <2> QED
    BY <1>1, <1>2, <2>1 DEF Queued
<1>5. Slots(u)
  <2>1. ASSUME NEW c \in Child
        PROVE  /\ Len(u.error_or_value[c]) <= 1
               /\ ~Attached(c) => u.error_or_value[c] = << >>
               /\ kind[c] # "buffered" => u.held[c] = << >>
    <3>1. /\ Len(s.error_or_value[c]) <= 1
          /\ ~Attached(c) => s.error_or_value[c] = << >>
          /\ kind[c] # "buffered" => s.held[c] = << >>
      BY <1>1 DEF Slots
    <3>2. CASE c # k
      BY <1>2, <3>1, <3>2
    <3>3. CASE c = k /\ u.error_or_value[k] = s.error_or_value[k]
      BY <3>1, <3>3
    <3>4. CASE c = k /\ Len(u.error_or_value[k]) = 1 /\ Attached(k)
      <4>1. 1 <= 1
        OBVIOUS
      <4> QED
        BY <3>4, <4>1
    <3> QED
      BY <1>2, <3>2, <3>3, <3>4
  <2> QED
    BY <1>1, <1>2, <2>1 DEF Slots
<1>6. Turns(u)
  <2> DEFINE n == Len(appendages)
             p == s.next_appendage
             m == MaxChild
  <2>1. n \in Nat /\ n <= m /\ p \in Nat /\ m \in Nat /\ p <= n
    BY <1>1, FewAppendages, StateFields, NodesAreEvents DEF Turns
  <2>2. \A c \in Child : s.error_or_value[c] = << >> => s.passed[c] = 0
    BY <1>1 DEF Turns
  <2>3. \A j \in 1..n : s.error_or_value[appendages[j]] # << >> => s.passed[appendages[j]] + Ahead(p, j) < m
    BY <1>1 DEF Turns
  <2>4. \A j \in 1..n : appendages[j] \in Child
    BY AttachedAt
  <2> HIDE DEF n, p, m
  <2>5. ASSUME NEW c \in Child, u.error_or_value[c] = << >> PROVE s.error_or_value[c] = << >>
    BY <1>2, <2>5
  <2>6. ASSUME NEW j \in 1..n, u.error_or_value[appendages[j]] # << >>
        PROVE  u.passed[appendages[j]] + Ahead(p, j) < m
    <3>1. CASE s.error_or_value[appendages[j]] # << >>
      BY <1>2, <2>3, <3>1
    <3>2. CASE s.error_or_value[appendages[j]] = << >>
      <4>1. u.passed[appendages[j]] = 0
        BY <1>2, <2>2, <2>4, <3>2
      <4>2. Ahead(p, j) \in Int /\ Ahead(p, j) < m
        BY <2>1 DEF Ahead, m
      <4> HIDE DEF Ahead
      <4>3. 0 + Ahead(p, j) < m
        BY <4>2
      <4> QED
        BY <4>1, <4>3
    <3> QED
      BY <3>1, <3>2
  <2>7. u.next_appendage <= n /\ u.next_appendage = p
    BY <1>2, <2>1 DEF p
  <2>8. \A c \in Child : u.error_or_value[c] = << >> => u.passed[c] = 0
    BY <1>2, <2>2, <2>5
  <2> QED
    BY <2>6, <2>7, <2>8 DEF Turns, n, p, m
<1>7. Numbered(u, fed)
  <2>1. Given(u) = Given(s) /\ Many(u) = Many(s) /\ Many(s) \in Nat
    <3>1. Many(s) \in Nat
      <4> DEFINE a == Len(s.out)
                 b == Len(s.lane)
      <4>1. a \in Nat /\ b \in Nat
        BY <1>1, StateFields, LenProperties
      <4>2. Many(s) = a + b
        BY DEF Many
      <4> HIDE DEF a, b
      <4> QED
        BY <4>1, <4>2
    <3> QED
      BY <1>2, <3>1 DEF Given, Many
  <2> DEFINE m == Many(s)
             g == Given(s)
  <2> HIDE DEF m, g
  <2>2. ASSUME NEW c \in Child PROVE NumberedOf(c, u, fed)
    <3>1. PICK p : Tally(p, c, g, m) /\ Rest(p[m], c, s, fed)
      BY <1>1 DEF Numbered, NumberedOf, g, m
    <3>2. p[m] \in Nat
      BY <2>1, <3>1 DEF Tally, m
    <3>3. Rest(p[m], c, u, fed)
      <4>1. CASE c = k
        BY <3>1, <3>2, <4>1
      <4>2. CASE c # k
        <5>1. u.store[c] = s.store[c] /\ u.held[c] = s.held[c] /\ u.destroyed = s.destroyed
              /\ u.error_or_value[c] = s.error_or_value[c]
          BY <1>2, <4>2
        <5> QED
          BY <3>1, <5>1 DEF Rest
      <4> QED
        BY <4>1, <4>2
    <3> QED
      BY <2>1, <3>1, <3>3 DEF NumberedOf, g, m
  <2> QED
    BY <2>2 DEF Numbered
<1> QED
  BY <1>3, <1>4, <1>5, <1>6, <1>7 DEF Base

(* The elements of a child of which the last storage gives its first to an *)
(* empty appendage, when there is no storage between.                      *)
LEMMA RestFromStore ==
  ASSUME NEW s \in States, NEW k \in Child, NEW u, NEW n \in Nat, NEW f, Rest(n, k, s, f),
         s.error_or_value[k] = << >>, s.held[k] = << >>, s.store[k] # << >>,
         u.error_or_value[k] = <<Head(s.store[k])>>, u.held[k] = << >>,
         u.store[k] = Tail(s.store[k]), u.destroyed = s.destroyed
  PROVE  Rest(n, k, u, f) /\ Len(u.error_or_value[k]) = 1
<1> DEFINE d == s.store[k]
           z == Tail(d)
           x == Head(d)
           w == <<x>>
<1>1. Len(s.error_or_value[k]) = 0 /\ Len(s.held[k]) = 0
  OBVIOUS
<1>2. n + 0 = n /\ n + 0 + 0 = n
  OBVIOUS
<1>3. d \in Seq(Items) /\ d # << >> /\ Follow(n, k, d)
      /\ (Source(k) \notin s.destroyed => n + 0 + 0 + Len(d) = f[k])
  BY <1>1, <1>2, StateFields DEF Rest
<1>4. u.error_or_value[k] = w /\ u.store[k] = z
  OBVIOUS
<1> HIDE DEF d
<1>5. /\ Len(z) = Len(d) - 1 /\ Len(d) \in Nat
      /\ Follow(n + 1, k, z) /\ x \in Items /\ x.child = k /\ x.id = n + 1
  BY <1>3, FollowTail
<1> HIDE DEF z, x
<1>6. Len(w) = 1 /\ Follow(n, k, w)
  BY <1>5, FollowOne
<1> HIDE DEF w
<1>7. n + Len(w) = n + 1 /\ n + Len(w) + 0 = n + 1 /\ n + Len(w) + 0 + Len(z) = n + 0 + 0 + Len(d)
  BY <1>5, <1>6
<1>8. Len(<< >>) = 0 /\ Follow(n + 1, k, << >>)
  BY FollowNone
<1> QED
  BY <1>3, <1>4, <1>5, <1>6, <1>7, <1>8 DEF Rest

(* The same when the child's buffer gives its first. *)
LEMMA RestFromHeld ==
  ASSUME NEW s \in States, NEW k \in Child, NEW u, NEW n \in Nat, NEW f, Rest(n, k, s, f),
         s.error_or_value[k] = << >>, s.held[k] # << >>,
         u.error_or_value[k] = <<Head(s.held[k])>>, u.held[k] = Tail(s.held[k]),
         u.store[k] = s.store[k], u.destroyed = s.destroyed
  PROVE  Rest(n, k, u, f) /\ Len(u.error_or_value[k]) = 1
<1> DEFINE d == s.held[k]
           z == Tail(d)
           x == Head(d)
           w == <<x>>
           b == s.store[k]
<1>1. Len(s.error_or_value[k]) = 0
  OBVIOUS
<1>2. n + 0 = n
  OBVIOUS
<1>3. d \in Seq(Items) /\ d # << >> /\ Follow(n, k, d) /\ Follow(n + Len(d), k, b)
      /\ (Source(k) \notin s.destroyed => n + Len(d) + Len(b) = f[k])
  BY <1>1, <1>2, StateFields DEF Rest
<1>4. u.error_or_value[k] = w /\ u.held[k] = z /\ u.store[k] = b
  OBVIOUS
<1>5. Len(b) \in Nat
  BY StateFields, LenProperties
<1> HIDE DEF d, b
<1>6. /\ Len(z) = Len(d) - 1 /\ Len(d) \in Nat
      /\ Follow(n + 1, k, z) /\ x \in Items /\ x.child = k /\ x.id = n + 1
  BY <1>3, FollowTail
<1> HIDE DEF z, x
<1>7. Len(w) = 1 /\ Follow(n, k, w)
  BY <1>6, FollowOne
<1> HIDE DEF w
<1>8. n + Len(w) = n + 1 /\ n + Len(w) + Len(z) = n + Len(d)
  BY <1>6, <1>7
<1> QED
  BY <1>3, <1>4, <1>6, <1>7, <1>8 DEF Rest

(* The child's buffer gets the first element of the source. *)
LEMMA RestIntoHeld ==
  ASSUME NEW s \in States, NEW k \in Child, NEW u, NEW n \in Nat, NEW f, Rest(n, k, s, f),
         s.store[k] # << >>,
         u.error_or_value[k] = s.error_or_value[k], u.held[k] = Append(s.held[k], Head(s.store[k])),
         u.store[k] = Tail(s.store[k]), u.destroyed = s.destroyed
  PROVE  Rest(n, k, u, f)
<1> DEFINE e == s.error_or_value[k]
           b == s.held[k]
           d == s.store[k]
           z == Tail(d)
           x == Head(d)
           a == Append(b, x)
           m == n + Len(e)
           r == m + Len(b)
<1>1. b \in Seq(Items) /\ d \in Seq(Items) /\ d # << >> /\ Len(e) \in Nat /\ Len(b) \in Nat
  BY StateFields, LenProperties
<1>2. Follow(n, k, e) /\ Follow(m, k, b) /\ Follow(r, k, d)
      /\ (Source(k) \notin s.destroyed => r + Len(d) = f[k])
  BY DEF Rest
<1>3. u.error_or_value[k] = e /\ u.held[k] = a /\ u.store[k] = z
  OBVIOUS
<1> HIDE DEF e, b, d
<1>4. m \in Nat /\ r \in Nat
  BY <1>1
<1>5. r = m + Len(b) /\ m = n + Len(e)
  OBVIOUS
<1> HIDE DEF m, r
<1>6. /\ Len(z) = Len(d) - 1 /\ Len(d) \in Nat
      /\ Follow(r + 1, k, z) /\ x \in Items /\ x.child = k /\ x.id = r + 1
  BY <1>1, <1>2, <1>4, FollowTail
<1> HIDE DEF z, x
<1>7. x.id = m + Len(b) + 1
  BY <1>5, <1>6
<1>8. Len(a) = Len(b) + 1 /\ Follow(m, k, a)
  BY <1>1, <1>2, <1>4, <1>6, <1>7, FollowAppend
<1> HIDE DEF a
<1>9. m + Len(a) = r + 1 /\ r + 1 + Len(z) = r + Len(d)
  BY <1>1, <1>4, <1>5, <1>6, <1>8
<1> QED
  BY <1>2, <1>3, <1>5, <1>6, <1>8, <1>9 DEF Rest

(* An assertion fails. *)
LEMMA AbortBase ==
  ASSUME NEW s, Base(s)
  PROVE  LET t == [s EXCEPT !.aborted = TRUE] IN
         /\ Base(t) /\ t.aborted /\ t.loop = s.loop /\ t.destroyed = s.destroyed /\ t.lane = s.lane
<1> DEFINE t == [s EXCEPT !.aborted = TRUE]
<1>1. s \in States /\ Slots(s) /\ Turns(s) /\ Owned(s) /\ Queued(s) /\ Numbered(s, fed)
  BY DEF Base
<1>2. /\ t \in States /\ t.aborted /\ t.loop = s.loop /\ t.destroyed = s.destroyed /\ t.lane = s.lane
      /\ t.store = s.store /\ t.held = s.held /\ t.error_or_value = s.error_or_value
      /\ t.next_appendage = s.next_appendage /\ t.out = s.out /\ t.passed = s.passed
  BY <1>1 DEF States
<1> HIDE DEF t
<1>3. Slots(t) /\ Turns(t) /\ Owned(t) /\ Queued(t)
  BY <1>1, <1>2 DEF Slots, Turns, Owned, Queued
<1>4. Numbered(t, fed)
  BY <1>1, <1>2, SameNumbered
<1> QED
  BY <1>2, <1>3, <1>4 DEF Base, t

(* Appendage::childHasFired, below which a child has something to give:    *)
(* the merge node is armed, or the assertion fails because the appendage   *)
(* still holds an element.                                                 *)
LEMMA AppendageFires ==
  ASSUME Frame, NEW s, Base(s), NEW k \in Child, Attached(k), Merger \notin s.destroyed,
         IF kind[k] = "buffered" THEN s.held[k] # << >>
         ELSE s.store[k] # << >> /\ ~IsArmed(s.loop, Source(k))
  PROVE  LET t == AppendageChildHasFired(s, k) IN
         /\ Base(t)
         /\ t.aborted \/ IsArmed(t.loop, Merger)
         /\ t.destroyed = s.destroyed /\ t.lane = s.lane
         /\ \A e \in Event : IsArmed(s.loop, e) => IsArmed(t.loop, e)
<1> DEFINE t == AppendageChildHasFired(s, k)
<1>1. s \in States
  BY DEF Base
<1>2. CASE s.error_or_value[k] # << >>
  <2>1. t = [s EXCEPT !.aborted = TRUE]
    BY <1>2 DEF AppendageChildHasFired
  <2> HIDE DEF t
  <2>2. Base(t) /\ t.aborted /\ t.loop = s.loop /\ t.destroyed = s.destroyed /\ t.lane = s.lane
    BY <2>1, AbortBase
  <2> QED
    BY <2>2 DEF t
<1>3. CASE s.error_or_value[k] = << >>
  <2> DEFINE x == ChildResult(s, k)
             p == ChildPopped(s, k)
             u == [p EXCEPT !.error_or_value[k] = <<x>>]
             q == DoArmLater(u.loop, Merger)
  <2>1. /\ Base(u) /\ u.destroyed = s.destroyed /\ u.lane = s.lane /\ u.loop = s.loop
        /\ p \in States
    <3>0. s.held \in [Child -> Seq(Items)] /\ s.store \in [Child -> Seq(Items)]
          /\ s.error_or_value \in [Child -> Seq(Items)]
      BY <1>1, StateFields
    <3>1. CASE kind[k] = "buffered"
      <4> DEFINE d == s.held[k]
                 h == [s.held EXCEPT ![k] = Tail(d)]
                 e == [s.error_or_value EXCEPT ![k] = <<Head(d)>>]
      <4>1. d # << >> /\ x = Head(d)
        BY <3>1 DEF ChildResult
      <4>2. p = [s EXCEPT !.held = h]
        BY <3>1, <1>1 DEF ChildPopped, States
      <4>3. u = [s EXCEPT !.held = h, !.error_or_value = e]
        BY <4>1, <4>2, <1>1 DEF States
      <4>4. d \in Seq(Items)
        BY <3>0
      <4> HIDE DEF u, p, x, d
      <4>5. Tail(d) \in Seq(Items) /\ Head(d) \in Items
        BY <4>1, <4>4, FrontGone
      <4>6. h \in [Child -> Seq(Items)]
        BY <3>0, <4>5
      <4>7. <<Head(d)>> \in Seq(Items)
        BY <4>5
      <4>8. e \in [Child -> Seq(Items)]
        BY <3>0, <4>7
      <4>9. h[k] = Tail(d) /\ e[k] = <<Head(d)>> /\ \A c \in Child : c # k => h[c] = s.held[c] /\ e[c] = s.error_or_value[c]
        BY <3>0
      <4> HIDE DEF h, e
      <4>10. /\ u \in States /\ u.held = h /\ u.error_or_value = e /\ u.store = s.store
             /\ u.destroyed = s.destroyed /\ u.lane = s.lane /\ u.loop = s.loop /\ u.out = s.out
             /\ u.next_appendage = s.next_appendage /\ u.passed = s.passed /\ u.aborted = s.aborted
        BY <1>1, <4>3, <4>6, <4>8 DEF States
      <4>11. ASSUME NEW n \in Nat, Rest(n, k, s, fed)
             PROVE  Rest(n, k, u, fed)
        <5>1. u.error_or_value[k] = <<Head(s.held[k])>> /\ u.held[k] = Tail(s.held[k]) /\ s.held[k] # << >>
          BY <4>1, <4>9, <4>10 DEF d
        <5> QED
          BY <1>1, <1>3, <4>10, <4>11, <5>1, RestFromHeld
      <4>12. Len(e[k]) = 1
        BY <4>9
      <4>13. ChildMoves(s, u, k)
        BY <1>3, <4>9, <4>10, <4>12 DEF ChildMoves
      <4>14. IsArmed(s.loop, Source(k)) => u.store[k] # << >>
        BY <4>10 DEF Base, Queued
      <4>15. p \in States
        BY <1>1, <4>2, <4>6 DEF States
      <4> QED
        BY <3>1, <4>10, <4>11, <4>13, <4>14, <4>15, ChildBase
    <3>2. CASE kind[k] # "buffered"
      <4> DEFINE d == s.store[k]
                 h == [s.store EXCEPT ![k] = Tail(d)]
                 e == [s.error_or_value EXCEPT ![k] = <<Head(d)>>]
      <4>1. d # << >> /\ x = Head(d)
        BY <3>2 DEF ChildResult
      <4>2. p = [s EXCEPT !.store = h]
        BY <3>2, <4>1, <1>1 DEF ChildPopped, States
      <4>3. u = [s EXCEPT !.store = h, !.error_or_value = e]
        BY <4>1, <4>2, <1>1 DEF States
      <4>4. d \in Seq(Items)
        BY <3>0
      <4> HIDE DEF u, p, x, d
      <4>5. Tail(d) \in Seq(Items) /\ Head(d) \in Items
        BY <4>1, <4>4, FrontGone
      <4>6. h \in [Child -> Seq(Items)]
        BY <3>0, <4>5
      <4>7. <<Head(d)>> \in Seq(Items)
        BY <4>5
      <4>8. e \in [Child -> Seq(Items)]
        BY <3>0, <4>7
      <4>9. h[k] = Tail(d) /\ e[k] = <<Head(d)>> /\ \A c \in Child : c # k => h[c] = s.store[c] /\ e[c] = s.error_or_value[c]
        BY <3>0
      <4> HIDE DEF h, e
      <4>10. /\ u \in States /\ u.store = h /\ u.error_or_value = e /\ u.held = s.held
             /\ u.destroyed = s.destroyed /\ u.lane = s.lane /\ u.loop = s.loop /\ u.out = s.out
             /\ u.next_appendage = s.next_appendage /\ u.passed = s.passed /\ u.aborted = s.aborted
        BY <1>1, <4>3, <4>6, <4>8 DEF States
      <4>11. s.held[k] = << >>
        BY <3>2 DEF Base, Slots
      <4>12. ASSUME NEW n \in Nat, Rest(n, k, s, fed)
             PROVE  Rest(n, k, u, fed)
        <5>1. u.error_or_value[k] = <<Head(s.store[k])>> /\ u.store[k] = Tail(s.store[k]) /\ s.store[k] # << >>
          BY <4>1, <4>9, <4>10 DEF d
        <5> QED
          BY <1>1, <1>3, <4>10, <4>11, <4>12, <5>1, RestFromStore
      <4>13. Len(e[k]) = 1
        BY <4>9
      <4>14. ChildMoves(s, u, k)
        BY <1>3, <4>9, <4>10, <4>13 DEF ChildMoves
      <4>15. ~IsArmed(s.loop, Source(k)) /\ u.held[k] = << >>
        BY <3>2, <4>10, <4>11
      <4>16. p \in States
        BY <1>1, <4>2, <4>6 DEF States
      <4> QED
        BY <4>10, <4>12, <4>14, <4>15, <4>16, ChildBase
    <3> QED
      BY <3>1, <3>2
  <2>2. t = [u EXCEPT !.loop = q]
    <3>1. t = [p EXCEPT !.error_or_value[k] = <<x>>, !.loop = DoArmLater(@, Merger)]
      BY <1>3 DEF AppendageChildHasFired
    <3> HIDE DEF x, p, t
    <3> QED
      BY <2>1, <3>1 DEF States
  <2> HIDE DEF u, q, t
  <2>3. q \in Arms(u.loop, Merger)
    BY DEF q, Arms
  <2>4. Merger \in Event /\ \A c \in Child : Merger # Source(c)
    BY NodesAreEvents
  <2>5. /\ Base(t) /\ SameButLoop(u, t)
        /\ \A f \in Event : IsArmed(t.loop, f) <=> IsArmed(u.loop, f) \/ f = Merger
    BY <2>1, <2>2, <2>3, <2>4, ArmBase
  <2> QED
    BY <2>1, <2>4, <2>5 DEF SameButLoop, t
<1> QED
  BY <1>2, <1>3

(* childHasFired() of a child's buffer, below which the source has         *)
(* something to give.                                                      *)
LEMMA BufferFires ==
  ASSUME Frame, NEW s, Base(s), NEW k \in Child, kind[k] = "buffered", Source(k) \notin s.destroyed,
         s.store[k] # << >>, ~IsArmed(s.loop, Source(k))
  PROVE  LET t == BufferChildHasFired(s, k) IN
         /\ Base(t) /\ t.destroyed = s.destroyed /\ t.lane = s.lane /\ t.aborted = s.aborted
         /\ t.error_or_value = s.error_or_value
         /\ \A e \in Event : IsArmed(s.loop, e) => IsArmed(t.loop, e)
<1> DEFINE t == BufferChildHasFired(s, k)
<1>1. s \in States
  BY DEF Base
<1>2. CASE Len(s.held[k]) = ChildLimit
  BY <1>2 DEF BufferChildHasFired
<1>3. CASE Len(s.held[k]) # ChildLimit
  <2> DEFINE d == s.store[k]
             b == s.held[k]
             x == Head(d)
             z == Tail(d)
             a == Append(b, x)
             h == [s.held EXCEPT ![k] = a]
             w == [s.store EXCEPT ![k] = z]
             u == [s EXCEPT !.held = h, !.store = w]
             q == DoArmLater(s.loop, ChildBuffer(k))
  <2>1. s.held \in [Child -> Seq(Items)] /\ s.store \in [Child -> Seq(Items)]
    BY <1>1, StateFields
  <2>2. t = [s EXCEPT !.held = h, !.store = w, !.loop = q]
    BY <1>1, <1>3 DEF BufferChildHasFired, States
  <2>3. d \in Seq(Items) /\ d # << >> /\ b \in Seq(Items)
    BY <2>1
  <2> HIDE DEF d, b, q, t
  <2>4. z \in Seq(Items) /\ x \in Items
    BY <2>3, FrontGone
  <2> HIDE DEF z, x
  <2>5. a \in Seq(Items)
    BY <2>3, <2>4, BackGrown
  <2>6. a = Append(s.held[k], Head(s.store[k])) /\ z = Tail(s.store[k])
    BY DEF x, z, d, b
  <2> HIDE DEF a
  <2>7. h \in [Child -> Seq(Items)] /\ w \in [Child -> Seq(Items)]
        /\ h[k] = a /\ w[k] = z /\ \A c \in Child : c # k => h[c] = s.held[c] /\ w[c] = s.store[c]
    BY <2>1, <2>4, <2>5
  <2> HIDE DEF h, w
  <2>8. /\ u \in States /\ u.held = h /\ u.store = w /\ u.error_or_value = s.error_or_value
        /\ u.destroyed = s.destroyed /\ u.lane = s.lane /\ u.loop = s.loop /\ u.out = s.out
        /\ u.next_appendage = s.next_appendage /\ u.passed = s.passed /\ u.aborted = s.aborted
        /\ t = [u EXCEPT !.loop = q]
    BY <1>1, <2>2, <2>7 DEF States
  <2> HIDE DEF u
  <2>9. ASSUME NEW n \in Nat, Rest(n, k, s, fed) PROVE Rest(n, k, u, fed)
    <3>1. u.held[k] = Append(s.held[k], Head(s.store[k])) /\ u.store[k] = Tail(s.store[k])
          /\ u.error_or_value[k] = s.error_or_value[k]
      BY <2>6, <2>7, <2>8
    <3> QED
      BY <1>1, <2>8, <2>9, <3>1, RestIntoHeld
  <2>10. ChildMoves(s, u, k)
    BY <2>7, <2>8 DEF ChildMoves
  <2>11. Base(u)
    BY <2>8, <2>9, <2>10, ChildBase
  <2>12. ChildBuffer(k) \notin u.destroyed
    BY <2>8 DEF Base, Owned
  <2>13. q \in Arms(u.loop, ChildBuffer(k))
    BY <2>8 DEF q, Arms
  <2>14. ChildBuffer(k) \in Event /\ \A c \in Child : ChildBuffer(k) # Source(c)
    BY NodesAreEvents
  <2>15. /\ Base(t) /\ SameButLoop(u, t)
         /\ \A f \in Event : IsArmed(t.loop, f) <=> IsArmed(u.loop, f) \/ f = ChildBuffer(k)
    BY <2>8, <2>11, <2>12, <2>13, <2>14, ArmBase
  <2> QED
    BY <2>8, <2>15 DEF SameButLoop, t
<1> QED
  BY <1>2, <1>3

(* Everything that exists is awake. *)
Good(s) == Base(s) /\ LaneAwake(s) /\ MergerAwake(s)

(* Arming keeps a good state good. *)
LEMMA ArmGood ==
  ASSUME NEW s, Good(s), NEW e \in Event, e \notin s.destroyed,
         \A k \in Child : e = Source(k) => s.store[k] # << >>,
         NEW q \in Arms(s.loop, e)
  PROVE  Good([s EXCEPT !.loop = q])
<1> DEFINE t == [s EXCEPT !.loop = q]
<1>1. /\ Base(t) /\ SameButLoop(s, t)
      /\ \A f \in Event : IsArmed(t.loop, f) <=> IsArmed(s.loop, f) \/ f = e
  BY ArmBase DEF Good
<1> HIDE DEF t
<1>2. LaneAwake(t) /\ MergerAwake(t)
  BY <1>1, ArmAwake DEF Good
<1> QED
  BY <1>1, <1>2 DEF Good, t

(* A state in which the merge node is armed or an assertion failed. *)
LEMMA ArmedGood ==
  ASSUME NEW s, LaneAwake(s), NEW t, Base(t), t.aborted \/ IsArmed(t.loop, Merger),
         t.destroyed = s.destroyed, t.lane = s.lane,
         \A e \in Event : IsArmed(s.loop, e) => IsArmed(t.loop, e)
  PROVE  Good(t)
<1>1. Lane \in Event
  BY NodesAreEvents
<1>2. LaneAwake(t)
  BY <1>1 DEF LaneAwake
<1>3. MergerAwake(t)
  BY DEF MergerAwake, Serves
<1> QED
  BY <1>2, <1>3 DEF Good

(* fire() of a source. *)
LEMMA SourceFires ==
  ASSUME Frame, NEW s, Good(s), NEW k \in Child, Source(k) \notin s.destroyed,
         s.store[k] # << >>, ~IsArmed(s.loop, Source(k))
  PROVE  Good(SourceFire(s, k))
<1> DEFINE r == SourceFire(s, k)
           t == IF kind[k] = "buffered" THEN BufferChildHasFired(s, k)
                ELSE AppendageChildHasFired(s, k)
<1>1. CASE kind[k] # "buffered" /\ ~Attached(k)
  BY <1>1 DEF SourceFire
<1>2. CASE kind[k] = "buffered" \/ Attached(k)
  <2>1. Good(t) /\ t.destroyed = s.destroyed
    <3>1. CASE kind[k] = "buffered"
      <4>1. /\ Base(t) /\ t.destroyed = s.destroyed /\ t.lane = s.lane /\ t.aborted = s.aborted
            /\ t.error_or_value = s.error_or_value
            /\ \A e \in Event : IsArmed(s.loop, e) => IsArmed(t.loop, e)
        BY <3>1, BufferFires DEF Good
      <4> HIDE DEF t
      <4>2. queued(t) = queued(s) /\ LaneSpace(t) = LaneSpace(s) /\ (LaneEnds(t) <=> LaneEnds(s))
        BY <4>1 DEF queued, LaneSpace, LaneEnds
      <4>3. Merger \in Event /\ Lane \in Event
        BY NodesAreEvents
      <4>4. LaneAwake(t) /\ MergerAwake(t)
        BY <4>1, <4>2, <4>3 DEF Good, LaneAwake, MergerAwake, Serves, Waits
      <4> QED
        BY <4>1, <4>4 DEF Good
    <3>2. CASE kind[k] # "buffered"
      <4>1. Merger \notin s.destroyed
        BY <1>2, <3>2 DEF Good, Base, Owned
      <4>2. /\ Base(t)
            /\ t.aborted \/ IsArmed(t.loop, Merger)
            /\ t.destroyed = s.destroyed /\ t.lane = s.lane
            /\ \A e \in Event : IsArmed(s.loop, e) => IsArmed(t.loop, e)
        BY <1>2, <3>2, <4>1, AppendageFires DEF Good
      <4> HIDE DEF t
      <4>3. LaneAwake(s)
        BY DEF Good
      <4> QED
        BY <4>2, <4>3, ArmedGood
    <3> QED
      BY <3>1, <3>2
  <2>2. r = IF t.store[k] = << >> THEN t
            ELSE IF kind[k] = "immediate"
            THEN IF t.error_or_value[k] = << >> THEN [t EXCEPT !.loop = DoArmLast(@, k)] ELSE t
            ELSE [t EXCEPT !.loop = DoArmLater(@, k)]
    BY <1>2 DEF SourceFire
  <2> HIDE DEF t, r
  <2>3. t \in States
    BY <2>1 DEF Good, Base
  <2>4. \/ r = t \/ (t.store[k] # << >> /\ \E q \in Arms(t.loop, Source(k)) : r = [t EXCEPT !.loop = q])
    BY <2>2, <2>3 DEF Arms, Source, States
  <2>5. Source(k) \in Event /\ \A c \in Child : Source(k) = Source(c) => c = k
    BY NodesAreEvents DEF Source
  <2>6. ASSUME NEW q \in Arms(t.loop, Source(k)), t.store[k] # << >> PROVE Good([t EXCEPT !.loop = q])
    BY <2>1, <2>5, <2>6, ArmGood
  <2> QED
    BY <2>1, <2>4, <2>6 DEF r
<1> QED
  BY <1>1, <1>2

(* Destroying a source keeps everyone awake. *)
LEMMA SourceGone ==
  ASSUME Frame, NEW s, Good(s), NEW k \in Child, kind[k] = "buffered"
  PROVE  LET t == Destroyed(s, <<Source(k)>>) IN
         /\ Good(t) /\ t.destroyed = s.destroyed \cup {Source(k)} /\ t.held = s.held
<1> DEFINE o == <<Source(k)>>
           t == Destroyed(s, o)
<1>1. Source(k) \in Event /\ (\A c \in Child : Source(k) # ChildBuffer(c)) /\ Source(k) \notin {Merger, Lane, SinkNode}
      /\ Lane \in Event /\ Merger \in Event /\ \A c \in Child : Source(c) = Source(k) => c = k
  BY NodesAreEvents DEF Source
<1>2. 1 \in Nat /\ DOMAIN o = 1..1 /\ Range(o) = {Source(k)} /\ \A i \in 1..1 : o[i] \in Event
  BY <1>1 DEF Range
<1> HIDE DEF o
<1>3. /\ Owned(t) => Base(t)
      /\ t.held = s.held /\ t.error_or_value = s.error_or_value /\ t.lane = s.lane
      /\ t.aborted = s.aborted
      /\ t.destroyed = s.destroyed \cup {Source(k)}
      /\ \A f \in Event : IsArmed(t.loop, f) <=> IsArmed(s.loop, f) /\ f \notin {Source(k)}
  <2> DEFINE n == 1
  <2>1. n \in Nat /\ DOMAIN o = 1..n /\ \A i \in 1..n : o[i] \in Event
    BY <1>2
  <2> HIDE DEF n
  <2> QED
    BY <1>2, <2>1, DestroyedBase DEF Good
<1> HIDE DEF t
<1>4. Owned(s)
  BY DEF Good, Base
<1>5. Owned(t)
  BY <1>1, <1>3, <1>4 DEF Owned
<1>6. queued(t) = queued(s) /\ LaneSpace(t) = LaneSpace(s) /\ (LaneEnds(t) <=> LaneEnds(s))
  BY <1>3 DEF queued, LaneSpace, LaneEnds
<1>7. LaneAwake(t) /\ MergerAwake(t)
  BY <1>1, <1>3, <1>6 DEF Good, LaneAwake, MergerAwake, Serves, Waits
<1> QED
  BY <1>3, <1>5, <1>7 DEF Good, t, o

(* fire() of a child's buffer. *)
LEMMA ChildBufferFires ==
  ASSUME Frame, NEW s, Good(s), NEW k \in Child, ChildBuffer(k) \notin s.destroyed
  PROVE  Good(ChildBufferFire(s, k))
<1> DEFINE r == ChildBufferFire(s, k)
           d == IF s.held[k] # << >> /\ isCritical(Head(s.held[k]))
                THEN Destroyed(s, <<Source(k)>>) ELSE s
           t == AppendageChildHasFired(d, k)
<1>1. s.held[k] # << >> => kind[k] = "buffered"
  BY DEF Good, Base, Slots
<1>2. ChildBuffer(k) \in Event /\ ChildBuffer(k) # Source(k) /\ Merger # Source(k)
      /\ \A c \in Child : ChildBuffer(k) # Source(c)
  BY NodesAreEvents
<1>3. /\ Good(d) /\ d.held = s.held /\ ChildBuffer(k) \notin d.destroyed
      /\ Merger \in d.destroyed => Merger \in s.destroyed
  BY <1>1, <1>2, SourceGone
<1>4. r = IF ~Attached(k) \/ s.held[k] = << >> THEN d
          ELSE IF t.held[k] # << >> /\ t.error_or_value[k] = << >>
          THEN [t EXCEPT !.loop = DoArmLater(@, ChildBuffer(k))] ELSE t
  BY DEF ChildBufferFire
<1> HIDE DEF r, d, t
<1>5. CASE ~Attached(k) \/ s.held[k] = << >>
  BY <1>3, <1>4, <1>5 DEF r
<1>6. CASE Attached(k) /\ s.held[k] # << >>
  <2>1. Merger \notin d.destroyed
    BY <1>3, <1>6 DEF Good, Base, Owned
  <2>2. /\ Base(t)
        /\ t.aborted \/ IsArmed(t.loop, Merger)
        /\ t.destroyed = d.destroyed /\ t.lane = d.lane
        /\ \A e \in Event : IsArmed(d.loop, e) => IsArmed(t.loop, e)
    BY <1>1, <1>3, <1>6, <2>1, AppendageFires DEF Good, t
  <2>3. LaneAwake(d)
    BY <1>3 DEF Good
  <2>4. Good(t) /\ t \in States
    BY <2>2, <2>3, ArmedGood DEF Base
  <2>5. r = t \/ \E q \in Arms(t.loop, ChildBuffer(k)) : r = [t EXCEPT !.loop = q]
    BY <1>4, <1>6, <2>4 DEF Arms, States
  <2>6. ASSUME NEW q \in Arms(t.loop, ChildBuffer(k)) PROVE Good([t EXCEPT !.loop = q])
    BY <1>2, <1>3, <2>2, <2>4, ArmGood
  <2> QED
    BY <2>4, <2>5, <2>6 DEF r
<1> QED
  BY <1>5, <1>6

-----------------------------------------------------------------------------
(***************************************************************************)
(* What the handlers of the merge node, the lane and the sink do.          *)
(***************************************************************************)
(* The nodes that go with the merge node. *)
LEMMA MergedNodes ==
  ASSUME Frame
  PROVE  LET n == 2 * Len(appendages) + 1 IN
         /\ n \in Nat /\ DOMAIN Merged = 1..n /\ \A i \in 1..n : Merged[i] \in Event
         /\ Merger \in Range(Merged)
         /\ \A k \in Child : Attached(k) => Source(k) \in Range(Merged) /\ ChildBuffer(k) \in Range(Merged)
         /\ \A e \in Range(Merged) :
               e = Merger \/ \E k \in Child : Attached(k) /\ e \in {Source(k), ChildBuffer(k)}
<1> DEFINE m == Len(appendages)
           n == 2 * m + 1
           a == Merged
<1>1. m \in Nat /\ n \in Nat
  BY FewAppendages
<1>2. a = [i \in 1..n |-> IF i <= m THEN Source(appendages[i])
                          ELSE IF i <= 2 * m THEN ChildBuffer(appendages[i - m])
                          ELSE Merger]
  BY DEF Merged
<1>3. /\ \A k \in Child : Attached(k) <=> \E j \in 1..m : k = appendages[j]
      /\ \A j \in 1..m : appendages[j] \in Child /\ Attached(appendages[j])
  BY AttachedAt
<1>4. Merger \in Event /\ \A k \in Child : Source(k) \in Event /\ ChildBuffer(k) \in Event
  BY NodesAreEvents
<1> HIDE DEF m, a, Merger, Source, ChildBuffer
<1>5. DOMAIN a = 1..n
  BY <1>2
<1>6. ASSUME NEW i \in 1..n
      PROVE  \/ a[i] = Merger
             \/ \E j \in 1..m : a[i] \in {Source(appendages[j]), ChildBuffer(appendages[j])}
  <2>1. CASE i <= m
    <3>1. i \in 1..m /\ a[i] = Source(appendages[i])
      BY <1>1, <1>2, <2>1
    <3> QED
      BY <3>1
  <2>2. CASE ~(i <= m) /\ i <= 2 * m
    <3> DEFINE j == i - m
    <3>1. j \in 1..m /\ a[i] = ChildBuffer(appendages[j])
      BY <1>1, <1>2, <2>2
    <3> HIDE DEF j
    <3> QED
      BY <3>1
  <2>3. CASE ~(i <= m) /\ ~(i <= 2 * m)
    BY <1>2, <2>3
  <2> QED
    BY <2>1, <2>2, <2>3
<1>7. n \in 1..n /\ a[n] = Merger
  BY <1>1, <1>2
<1>8. ASSUME NEW j \in 1..m
      PROVE  \E x, y \in 1..n : a[x] = Source(appendages[j]) /\ a[y] = ChildBuffer(appendages[j])
  <2> DEFINE y == m + j
  <2>1. j \in 1..n /\ a[j] = Source(appendages[j])
    BY <1>1, <1>2
  <2>2. y \in 1..n /\ ~(y <= m) /\ y <= 2 * m /\ y - m = j
    BY <1>1
  <2> HIDE DEF y
  <2>3. a[y] = ChildBuffer(appendages[j])
    BY <1>2, <2>2
  <2> QED
    BY <2>1, <2>2, <2>3
<1>9. Range(a) = {a[i] : i \in 1..n}
  BY <1>5 DEF Range
<1> HIDE DEF n
<1>10. \A i \in 1..n : a[i] \in Event
  BY <1>3, <1>4, <1>6
<1>11. Merger \in Range(a)
  BY <1>7, <1>9
<1>12. ASSUME NEW k \in Child, Attached(k) PROVE Source(k) \in Range(a) /\ ChildBuffer(k) \in Range(a)
  <2>1. PICK j \in 1..m : k = appendages[j]
    BY <1>3, <1>12
  <2> QED
    BY <2>1, <1>8, <1>9
<1>13. ASSUME NEW e \in Range(a)
       PROVE  e = Merger \/ \E k \in Child : Attached(k) /\ e \in {Source(k), ChildBuffer(k)}
  <2>1. PICK i \in 1..n : e = a[i]
    BY <1>9
  <2> QED
    BY <1>3, <1>6, <2>1
<1> QED
  BY <1>1, <1>5, <1>10, <1>11, <1>12, <1>13 DEF n, m, a

(* The merge node is destroyed with all it owns. *)
LEMMA MergeGoneBase ==
  ASSUME Frame, NEW s, Base(s)
  PROVE  LET t == MergeGone(s) IN
         /\ Base(t) /\ Merger \in t.destroyed
         /\ SinkNode \notin s.destroyed => SinkNode \notin t.destroyed
         /\ Lane \notin s.destroyed => Lane \notin t.destroyed
         /\ t.lane = s.lane /\ t.error_or_value = s.error_or_value /\ t.out = s.out
<1> DEFINE o == Merged
           t == MergeGone(s)
           n == 2 * Len(appendages) + 1
           gone == Range(o)
<1>1. /\ n \in Nat /\ DOMAIN o = 1..n /\ \A i \in 1..n : o[i] \in Event
      /\ Merger \in gone
      /\ \A k \in Child : Attached(k) => Source(k) \in gone /\ ChildBuffer(k) \in gone
      /\ \A e \in gone :
            e = Merger \/ \E k \in Child : Attached(k) /\ e \in {Source(k), ChildBuffer(k)}
  BY MergedNodes
<1>2. t = Destroyed(s, o)
  BY DEF MergeGone
<1> HIDE DEF n, o, t
<1>3. /\ Owned(t) => Base(t)
      /\ t.error_or_value = s.error_or_value /\ t.lane = s.lane /\ t.out = s.out
      /\ t.destroyed = s.destroyed \cup gone
  BY <1>1, <1>2, DestroyedBase
<1> HIDE DEF gone
<1>4. /\ Merger # Lane /\ Merger # SinkNode /\ Lane # SinkNode
      /\ \A k \in Child : /\ Source(k) \notin {Merger, Lane, SinkNode} /\ ChildBuffer(k) \notin {Merger, Lane, SinkNode}
                          /\ \A j \in Child : (Source(k) # ChildBuffer(j)) /\ (ChildBuffer(k) = ChildBuffer(j) => k = j)
  <2>1. MaxChild \in Nat /\ Child = 1..MaxChild
    BY NodesAreEvents
  <2>2. \A k, j \in Child : MaxChild + k = MaxChild + j => k = j
    <3> HIDE DEF MaxChild
    <3> QED
      BY <2>1
  <2>3. \A k, j \in Child : ChildBuffer(k) = ChildBuffer(j) => k = j
    BY <2>2 DEF ChildBuffer
  <2> HIDE DEF Merger, Lane, SinkNode, Source, ChildBuffer
  <2> QED
    BY <2>3, NodesAreEvents
<1> HIDE DEF Merger, Lane, SinkNode, Source, ChildBuffer
<1>5. SinkNode \notin gone /\ Lane \notin gone
  BY <1>1, <1>4
<1>6. Owned(s)
  BY DEF Base
<1>7. ASSUME NEW k \in Child, ChildBuffer(k) \in t.destroyed PROVE Source(k) \in t.destroyed
  <2>1. CASE ChildBuffer(k) \in s.destroyed
    BY <2>1, <1>3, <1>6 DEF Owned
  <2>2. CASE ChildBuffer(k) \in gone
    <3>1. PICK j \in Child : Attached(j) /\ ChildBuffer(k) \in {Source(j), ChildBuffer(j)}
      BY <1>1, <1>4, <2>2
    <3>2. k = j
      BY <1>4, <3>1
    <3> QED
      BY <1>1, <1>3, <3>1, <3>2
  <2> QED
    BY <1>3, <1>7, <2>1, <2>2
<1>8. Owned(t)
  BY <1>1, <1>3, <1>5, <1>6, <1>7 DEF Owned
<1> QED
  BY <1>1, <1>3, <1>5, <1>6, <1>8 DEF Owned, t

(* fire() of the sink destroys everything. *)
LEMMA SinkFires ==
  ASSUME Frame, NEW s, Base(s)
  PROVE  Good(Destroyed(MergeGone(s), <<Lane>>))
<1> DEFINE r == MergeGone(s)
           o == <<Lane>>
           t == Destroyed(r, o)
<1>1. Base(r) /\ Merger \in r.destroyed
  BY MergeGoneBase
<1>2. Lane \in Event /\ Lane # SinkNode /\ Lane # Merger /\ \A k \in Child : Lane # Source(k) /\ Lane # ChildBuffer(k)
  BY NodesAreEvents
<1>3. 1 \in Nat /\ DOMAIN o = 1..1 /\ Range(o) = {Lane} /\ \A i \in 1..1 : o[i] \in Event
  BY <1>2 DEF Range
<1> HIDE DEF r, o
<1>4. (Owned(t) => Base(t)) /\ t.destroyed = r.destroyed \cup {Lane}
  <2> DEFINE n == 1
  <2>1. n \in Nat /\ DOMAIN o = 1..n /\ \A i \in 1..n : o[i] \in Event
    BY <1>3
  <2> HIDE DEF n
  <2> QED
    BY <1>1, <1>3, <2>1, DestroyedBase
<1> HIDE DEF t
<1>5. Owned(r)
  BY <1>1 DEF Base
<1>6. Owned(t)
  BY <1>1, <1>2, <1>4, <1>5 DEF Owned
<1>7. Merger \in t.destroyed /\ Lane \in t.destroyed
  BY <1>1, <1>4
<1>8. LaneAwake(t) /\ MergerAwake(t)
  BY <1>7 DEF LaneAwake, MergerAwake, Serves
<1> QED
  BY <1>4, <1>6, <1>8 DEF Good, t, r, o

(* The user lets go of the sink. *)
LEMMA SinkDropped ==
  ASSUME Frame, NEW s, Base(s)
  PROVE  Good(Destroyed(MergeGone(s), <<Lane, SinkNode>>))
<1> DEFINE r == MergeGone(s)
           o == <<Lane, SinkNode>>
           n == 2
           t == Destroyed(r, o)
<1>1. Base(r) /\ Merger \in r.destroyed
  BY MergeGoneBase
<1>2. /\ Lane \in Event /\ SinkNode \in Event
      /\ \A k \in Child : /\ Source(k) \notin {Lane, SinkNode}
                          /\ ChildBuffer(k) \notin {Lane, SinkNode}
  BY NodesAreEvents
<1> HIDE DEF Lane, SinkNode, Merger, Source, ChildBuffer
<1>3. n \in Nat /\ DOMAIN o = 1..n /\ \A i \in 1..n : o[i] \in Event
  BY <1>2
<1>4. Range(o) = {Lane, SinkNode}
  BY <1>3 DEF Range
<1> HIDE DEF r, o, n
<1>5. (Owned(t) => Base(t)) /\ t.destroyed = r.destroyed \cup {Lane, SinkNode}
  BY <1>1, <1>3, <1>4, DestroyedBase
<1> HIDE DEF t
<1>6. Owned(r)
  BY <1>1 DEF Base
<1>7. Owned(t)
  BY <1>1, <1>2, <1>5, <1>6 DEF Owned
<1>8. LaneAwake(t) /\ MergerAwake(t)
  BY <1>1, <1>5 DEF LaneAwake, MergerAwake, Serves
<1> QED
  BY <1>5, <1>7, <1>8 DEF Good, t, r, o

(* The room in the lane. *)
LEMMA LaneRoom ==
  ASSUME Frame, NEW s, s \in States, Slots(s)
  PROVE  /\ LaneSpace(s) \in Nat
         /\ LaneSpace(s) = 0 <=> limit # 0 /\ Len(s.lane) = limit
         /\ limit = 0 => s.lane = << >>
         /\ Len(s.lane) \in Nat /\ limit \in Nat /\ Len(s.lane) <= limit
<1> DEFINE n == Len(s.lane)
<1>1. n \in Nat /\ limit \in Nat /\ n <= limit
  BY StateFields, LenProperties DEF Slots, Frame
<1>2. n = 0 => s.lane = << >>
  BY StateFields, EmptySeq
<1>3. LaneSpace(s) = IF limit = 0 THEN 1 ELSE limit - n
  BY DEF LaneSpace
<1> HIDE DEF n
<1> QED
  BY <1>1, <1>2, <1>3 DEF n

(* The sink or the buffer above the merge node is told of an element.  A   *)
(* critical error arms the sink, an element in the lane the lane.          *)
LEMMA LaneTold ==
  ASSUME Frame, NEW s, Base(s), LaneAwake(s), Merger \notin s.destroyed, queued(s) # {}, top # "none"
  PROVE  LET t == LaneChildHasFired(s) IN Base(t) /\ LaneAwake(t) /\ t.destroyed = s.destroyed
<1> DEFINE x == Result(s)
           t == LaneChildHasFired(s)
<1>1. s \in States /\ Slots(s) /\ Owned(s)
  BY DEF Base
<1>2. /\ Lane \in Event /\ SinkNode \in Event
      /\ \A k \in Child : Lane # Source(k) /\ SinkNode # Source(k)
  BY NodesAreEvents
<1>3. SinkNode \notin s.destroyed /\ Lane \notin s.destroyed
  BY <1>1, <1>2 DEF Owned
<1>4. /\ LaneSpace(s) \in Nat /\ Len(s.lane) \in Nat /\ limit \in Nat /\ Len(s.lane) <= limit
      /\ (LaneSpace(s) = 0 <=> limit # 0 /\ Len(s.lane) = limit)
      /\ (limit = 0 => s.lane = << >>)
  BY <1>1, LaneRoom
<1>5. CASE limit = 0
  <2> DEFINE u == [Taken(s) EXCEPT !.out = Append(@, Result(s))]
             q == IF isCritical(x) THEN DoArmLast(u.loop, SinkNode) ELSE u.loop
  <2>1. Base(u) /\ SameControl(s, u) /\ u.lane = << >>
    BY <1>4, <1>5, TakenOut
  <2>2. t = [u EXCEPT !.loop = q]
    BY <1>1, <1>5 DEF LaneChildHasFired, Taken, States
  <2> HIDE DEF u, x, t
  <2>3. u \in States
    BY <2>1 DEF Base
  <2>4. CASE isCritical(x)
    <3>1. q \in Arms(u.loop, SinkNode)
      BY <2>4 DEF Arms
    <3>2. SinkNode \notin u.destroyed
      BY <1>3, <2>1 DEF SameControl
    <3> HIDE DEF q
    <3>3. Base(t) /\ SameButLoop(u, t)
      BY <1>2, <2>1, <2>2, <3>1, <3>2, ArmBase
    <3>4. t.lane = << >> /\ t.destroyed = s.destroyed
      BY <2>1, <3>3 DEF SameButLoop, SameControl
    <3> QED
      BY <3>3, <3>4 DEF LaneAwake, t
  <2>5. CASE ~isCritical(x)
    <3>1. t = u
      BY <2>2, <2>3, <2>5 DEF States
    <3> QED
      BY <2>1, <3>1 DEF LaneAwake, SameControl, t
  <2> QED
    BY <2>4, <2>5
<1>6. CASE limit # 0 /\ LaneSpace(s) = 0
  BY <1>6 DEF LaneChildHasFired
<1>7. CASE limit # 0 /\ LaneSpace(s) # 0
  <2> DEFINE u == [Taken(s) EXCEPT !.lane = Append(@, Result(s))]
             q == DoArmLater(u.loop, Lane)
  <2>1. Len(s.lane) < limit
    BY <1>4, <1>7
  <2>2. Base(u) /\ SameControl(s, u)
    BY <2>1, TakenLane
  <2>3. t = [u EXCEPT !.loop = q]
    BY <1>1, <1>7 DEF LaneChildHasFired, Taken, States
  <2> HIDE DEF u, t
  <2>4. q \in Arms(u.loop, Lane) /\ Lane \notin u.destroyed
    BY <1>3, <2>2 DEF Arms, SameControl
  <2> HIDE DEF q
  <2>5. /\ Base(t) /\ SameButLoop(u, t)
        /\ \A f \in Event : IsArmed(t.loop, f) <=> IsArmed(u.loop, f) \/ f = Lane
    BY <1>2, <2>2, <2>3, <2>4, ArmBase
  <2> QED
    BY <1>2, <2>2, <2>5 DEF SameButLoop, SameControl, LaneAwake, t
<1> QED
  BY <1>5, <1>6, <1>7

(* fire() of the merge node. *)
LEMMA MergerFires ==
  ASSUME Frame, NEW s, Base(s), LaneAwake(s), Merger \notin s.destroyed
  PROVE  Good(MergerFire(s))
<1> DEFINE r == MergerFire(s)
           t == LaneChildHasFired(s)
           q == DoArmLater(t.loop, Merger)
<1>1. CASE queued(s) = {}
  <2>1. r = [s EXCEPT !.aborted = TRUE]
    BY <1>1 DEF MergerFire
  <2> HIDE DEF r
  <2>2. Base(r) /\ r.aborted /\ r.loop = s.loop /\ r.destroyed = s.destroyed /\ r.lane = s.lane
    BY <2>1, AbortBase
  <2>3. LaneAwake(r) /\ MergerAwake(r)
    BY <2>2 DEF LaneAwake, MergerAwake, Serves
  <2> QED
    BY <2>2, <2>3 DEF Good, r
<1>2. CASE queued(s) # {} /\ top = "none"
  <2>1. r = s
    BY <1>2 DEF MergerFire
  <2>2. MergerAwake(s)
    BY <1>2 DEF MergerAwake, Serves
  <2> QED
    BY <2>1, <2>2 DEF Good
<1>3. CASE queued(s) # {} /\ top # "none"
  <2>1. Base(t) /\ LaneAwake(t) /\ t.destroyed = s.destroyed
    BY <1>3, LaneTold
  <2>2. r = IF queued(t) # {} /\ LaneSpace(t) > 0 THEN [t EXCEPT !.loop = q] ELSE t
    <3>1. r = IF queued(t) # {} /\ LaneSpace(t) > 0 THEN [t EXCEPT !.loop = DoArmLater(@, Merger)] ELSE t
      BY <1>3 DEF MergerFire
    <3>2. t \in States
      BY <2>1 DEF Base
    <3> HIDE DEF t, r
    <3>3. [t EXCEPT !.loop = DoArmLater(@, Merger)] = [t EXCEPT !.loop = q]
      BY <3>2 DEF States
    <3> QED
      BY <3>1, <3>3
  <2> HIDE DEF r, t
  <2>3. LaneSpace(t) \in Nat
    BY <2>1, LaneRoom DEF Base
  <2>4. CASE queued(t) # {} /\ LaneSpace(t) > 0
    <3>1. q \in Arms(t.loop, Merger) /\ Merger \notin t.destroyed
      BY <2>1 DEF Arms
    <3>2. Merger \in Event /\ \A k \in Child : Merger # Source(k)
      BY NodesAreEvents
    <3>3. r = [t EXCEPT !.loop = q]
      BY <2>2, <2>4
    <3> HIDE DEF q
    <3>4. /\ Base(r) /\ SameButLoop(t, r)
          /\ \A f \in Event : IsArmed(r.loop, f) <=> IsArmed(t.loop, f) \/ f = Merger
      BY <2>1, <3>1, <3>2, <3>3, ArmBase
    <3>5. r.destroyed = t.destroyed /\ r.lane = t.lane /\ IsArmed(r.loop, Merger)
      BY <3>2, <3>4 DEF SameButLoop
    <3> QED
      BY <2>1, <3>4, <3>5, ArmedGood DEF r
  <2>5. CASE ~(queued(t) # {} /\ LaneSpace(t) > 0)
    <3>1. r = t
      BY <2>2, <2>5
    <3>2. MergerAwake(t)
      BY <2>3, <2>5 DEF MergerAwake, Serves, Waits
    <3> QED
      BY <2>1, <3>1, <3>2 DEF Good, r
  <2> QED
    BY <2>4, <2>5
<1> QED
  BY <1>1, <1>2, <1>3

(* parentHasFired() of the merge node. *)
LEMMA ParentFires ==
  ASSUME Frame, NEW s, Base(s), LaneAwake(s), Merger \notin s.destroyed,
         queued(s) # {} => LaneSpace(s) > 0
  PROVE  Good(MergerParentHasFired(s))
<1> DEFINE r == MergerParentHasFired(s)
           q == DoArmLater(s.loop, Merger)
<1>1. s \in States
  BY DEF Base
<1>2. CASE queued(s) = {}
  <2>1. r = s
    BY <1>2 DEF MergerParentHasFired
  <2>2. MergerAwake(s)
    BY <1>2 DEF MergerAwake, Serves
  <2> QED
    BY <2>1, <2>2 DEF Good
<1>3. CASE queued(s) # {}
  <2>1. r = [s EXCEPT !.loop = q]
    BY <1>1, <1>3 DEF MergerParentHasFired, States
  <2>2. q \in Arms(s.loop, Merger)
    BY DEF Arms
  <2> HIDE DEF r, q
  <2>3. Merger \in Event /\ \A k \in Child : Merger # Source(k)
    BY NodesAreEvents
  <2>4. /\ Base(r) /\ SameButLoop(s, r)
        /\ \A f \in Event : IsArmed(r.loop, f) <=> IsArmed(s.loop, f) \/ f = Merger
    BY <2>1, <2>2, <2>3, ArmBase
  <2>5. r.destroyed = s.destroyed /\ r.lane = s.lane /\ IsArmed(r.loop, Merger)
    BY <2>3, <2>4 DEF SameButLoop
  <2> QED
    BY <2>4, <2>5, ArmedGood DEF r
<1> QED
  BY <1>2, <1>3

(* A critical error behind the first element of the lane is in its rest.   *)
LEMMA EndsBehind ==
  ASSUME NEW s \in States, s.lane # << >>, ~isCritical(Head(s.lane)), LaneEnds(s),
         NEW t, t.lane = Tail(s.lane)
  PROVE  LaneEnds(t)
<1> DEFINE l == s.lane
           z == Tail(l)
           x == Head(l)
<1>1. /\ Len(z) = Len(l) - 1 /\ Len(l) \in Nat /\ Len(l) >= 1 /\ x = l[1]
      /\ \A k \in 1..(Len(l) - 1) : z[k] = l[k + 1]
  BY StateFields, FrontGone
<1>2. PICK i \in 1..Len(l) : isCritical(l[i])
  BY DEF LaneEnds
<1>3. ~isCritical(x) /\ t.lane = z
  OBVIOUS
<1> HIDE DEF l, z, x, isCritical
<1>4. i # 1
  BY <1>1, <1>2, <1>3
<1> DEFINE j == i - 1
<1>5. j \in 1..(Len(l) - 1) /\ j + 1 = i
  BY <1>1, <1>2, <1>4
<1> HIDE DEF j
<1>6. j \in 1..Len(z) /\ z[j] = l[i]
  BY <1>1, <1>5
<1> QED
  BY <1>2, <1>3, <1>6 DEF LaneEnds

(* fire() of the lane's buffer. *)
LEMMA LaneFires ==
  ASSUME Frame, NEW s, Base(s), MergerAwake(s), Lane \notin s.destroyed
  PROVE  Good(LaneFire(s))
<1> DEFINE x == Head(s.lane)
           d == IF s.lane # << >> /\ isCritical(x) THEN MergeGone(s) ELSE s
           g == IF s.lane = << >> THEN d
                ELSE [d EXCEPT !.lane = Tail(@), !.out = Append(@, x),
                               !.loop = IF isCritical(x) THEN DoArmLast(@, SinkNode) ELSE @]
           m == IF g.lane # << >> THEN [g EXCEPT !.loop = DoArmLater(@, Lane)] ELSE g
           told == LaneSpace(s) = 0 /\ ~LaneEnds(s) /\ Merger \notin m.destroyed
           r == LaneFire(s)
<1>1. s \in States /\ Slots(s) /\ Owned(s)
  BY DEF Base
<1>2. r = IF told THEN MergerParentHasFired(m) ELSE m
  BY DEF LaneFire
<1>3. /\ Len(s.lane) \in Nat /\ limit \in Nat
      /\ (LaneSpace(s) = 0 <=> limit # 0 /\ Len(s.lane) = limit)
  BY <1>1, LaneRoom
<1>4. CASE s.lane = << >>
  <2>1. LaneSpace(s) # 0
    <3>1. Len(s.lane) = 0
      BY <1>4
    <3> QED
      BY <1>3, <3>1
  <2>2. d = s
    BY <1>4
  <2>3. g = s
    BY <1>4, <2>2
  <2> HIDE DEF d, g
  <2>4. m = s
    BY <1>4, <2>3
  <2> HIDE DEF m, r
  <2>5. r = s
    BY <1>2, <2>1, <2>4
  <2>6. LaneAwake(s)
    BY <1>4 DEF LaneAwake
  <2> QED
    BY <2>5, <2>6 DEF Good, r
<1>5. CASE s.lane # << >>
  <2> DEFINE u == [d EXCEPT !.lane = Tail(@), !.out = Append(@, Head(d.lane))]
             p == IF isCritical(x) THEN DoArmLast(u.loop, SinkNode) ELSE u.loop
  <2>1. /\ Base(d) /\ d.lane = s.lane /\ d.error_or_value = s.error_or_value
        /\ Lane \notin d.destroyed /\ SinkNode \notin d.destroyed
        /\ isCritical(x) => Merger \in d.destroyed
        /\ ~isCritical(x) => d = s
    BY <1>1, <1>5, MergeGoneBase DEF Owned
  <2> HIDE DEF d
  <2>2. /\ Base(u) /\ SameControl(d, u) /\ u.error_or_value = d.error_or_value
        /\ u.lane = Tail(d.lane)
    BY <1>5, <2>1, LaneGives
  <2>3. d \in States /\ u \in States
    BY <2>1, <2>2 DEF Base
  <2>4. g = [u EXCEPT !.loop = p]
    BY <1>5, <2>1, <2>3 DEF States
  <2>5. /\ Lane \in Event /\ SinkNode \in Event /\ Merger \in Event
        /\ \A k \in Child : Lane # Source(k) /\ SinkNode # Source(k)
    BY NodesAreEvents
  <2> HIDE DEF u, x, g
  <2>6. /\ Base(g) /\ SameButLoop(u, g)
        /\ \A f \in Event : IsArmed(u.loop, f) => IsArmed(g.loop, f)
    <3>1. CASE isCritical(x)
      <4>1. p \in Arms(u.loop, SinkNode)
        BY <3>1 DEF Arms
      <4>2. SinkNode \notin u.destroyed
        BY <2>1, <2>2 DEF SameControl
      <4> HIDE DEF p
      <4> QED
        BY <2>2, <2>4, <2>5, <4>1, <4>2, ArmBase
    <3>2. CASE ~isCritical(x)
      <4>1. g = u
        BY <2>3, <2>4, <3>2 DEF States
      <4> QED
        BY <2>2, <4>1 DEF SameButLoop
    <3> QED
      BY <3>1, <3>2
  <2>7. /\ Base(m) /\ SameButLoop(g, m) /\ LaneAwake(m)
        /\ \A f \in Event : IsArmed(g.loop, f) => IsArmed(m.loop, f)
    <3>1. CASE g.lane # << >>
      <4> DEFINE q == DoArmLater(g.loop, Lane)
      <4>1. g \in States
        BY <2>6 DEF Base
      <4>2. m = [g EXCEPT !.loop = q]
        BY <3>1, <4>1 DEF States
      <4>3. q \in Arms(g.loop, Lane) /\ Lane \notin g.destroyed
        BY <2>1, <2>2, <2>6 DEF Arms, SameControl, SameButLoop
      <4> HIDE DEF q, m
      <4>4. /\ Base(m) /\ SameButLoop(g, m)
            /\ \A f \in Event : IsArmed(m.loop, f) <=> IsArmed(g.loop, f) \/ f = Lane
        BY <2>5, <2>6, <4>2, <4>3, ArmBase
      <4> QED
        BY <2>5, <4>4 DEF LaneAwake
    <3>2. CASE g.lane = << >>
      <4>1. m = g
        BY <3>2
      <4> QED
        BY <2>6, <3>2, <4>1 DEF LaneAwake, SameButLoop
    <3> QED
      BY <3>1, <3>2
  <2> HIDE DEF m, p
  <2>8. /\ m.lane = Tail(s.lane) /\ m.destroyed = d.destroyed /\ m.aborted = d.aborted
        /\ m.error_or_value = s.error_or_value
    BY <2>1, <2>2, <2>6, <2>7 DEF SameControl, SameButLoop
  <2>9. ~isCritical(x) => /\ m.destroyed = s.destroyed /\ m.aborted = s.aborted
                          /\ \A f \in Event : IsArmed(s.loop, f) => IsArmed(m.loop, f)
    BY <2>1, <2>2, <2>6, <2>7, <2>8 DEF SameControl
  <2>10. queued(m) = queued(s)
    BY <2>8 DEF queued
  <2> HIDE DEF r
  <2>11. CASE told
    <3>1. r = MergerParentHasFired(m) /\ Merger \notin m.destroyed /\ LaneSpace(s) = 0
      BY <1>2, <2>11
    <3> HIDE DEF told
    <3>2. LaneSpace(m) > 0
      <4> DEFINE a == Len(s.lane)
                 b == Len(m.lane)
      <4>1. b = a - 1 /\ a \in Nat /\ limit \in Nat /\ limit # 0 /\ a = limit
        BY <1>1, <1>3, <1>5, <2>8, <3>1, StateFields, FrontGone
      <4>2. LaneSpace(m) = IF limit = 0 THEN 1 ELSE limit - b
        BY DEF LaneSpace
      <4> HIDE DEF a, b
      <4> QED
        BY <4>1, <4>2
    <3> QED
      BY <2>7, <3>1, <3>2, ParentFires DEF r
  <2>12. CASE ~told
    <3>1. r = m
      BY <1>2, <2>12
    <3>2. MergerAwake(m)
      <4>1. SUFFICES ASSUME Serves(m) PROVE IsArmed(m.loop, Merger) \/ Waits(m)
        BY DEF MergerAwake
      <4>2. ~isCritical(x)
        BY <2>1, <2>8, <4>1 DEF Serves
      <4>3. Serves(s)
        BY <2>9, <2>10, <4>1, <4>2 DEF Serves
      <4>4. IsArmed(s.loop, Merger) \/ LaneSpace(s) = 0 \/ LaneEnds(s)
        BY <4>3 DEF MergerAwake, Waits
      <4>5. Merger \notin m.destroyed
        BY <4>1 DEF Serves
      <4>6. IsArmed(s.loop, Merger) \/ LaneEnds(s)
        BY <2>12, <4>4, <4>5
      <4>7. CASE IsArmed(s.loop, Merger)
        BY <2>5, <2>9, <4>2, <4>7
      <4>8. CASE LaneEnds(s)
        <5>1. ~isCritical(Head(s.lane))
          BY <4>2 DEF x
        <5>2. LaneEnds(m)
          BY <1>1, <1>5, <2>8, <4>8, <5>1, EndsBehind
        <5> QED
          BY <5>2 DEF Waits
      <4> QED
        BY <4>6, <4>7, <4>8
    <3> QED
      BY <2>7, <3>1, <3>2 DEF Good, r
  <2> QED
    BY <2>11, <2>12
<1> QED
  BY <1>4, <1>5

(* fire() of any node, after turn() has taken it out of the queue. *)
LEMMA NodeFires ==
  ASSUME Frame, NEW s, Base(s), NEW e \in Event, e \notin s.destroyed, ~IsArmed(s.loop, e),
         e # Lane => LaneAwake(s), e # Merger => MergerAwake(s),
         \A k \in Child : e = Source(k) => s.store[k] # << >>
  PROVE  Good(fire(s, e))
<1>1. /\ Merger \in Event /\ Lane \in Event /\ SinkNode \in Event
      /\ Merger # Lane /\ Merger # SinkNode /\ Lane # SinkNode
      /\ \A k \in Child :
            /\ Source(k) \notin {Merger, Lane, SinkNode} /\ ChildBuffer(k) \notin {Merger, Lane, SinkNode}
            /\ ChildBuffer(k) - MaxChild = k /\ ChildBuffer(k) \notin Child /\ Source(k) \in Child
      /\ Merger \notin Child /\ Lane \notin Child /\ SinkNode \notin Child
      /\ \/ e \in {Merger, Lane, SinkNode} \/ (\E k \in Child : e = Source(k))
         \/ \E k \in Child : e = ChildBuffer(k)
  BY NodesAreEvents DEF Source
<1> HIDE DEF Merger, Lane, SinkNode, ChildBuffer
<1>2. CASE e = Merger
  <2>1. fire(s, e) = MergerFire(s)
    BY <1>1, <1>2 DEF fire
  <2> QED
    BY <1>1, <1>2, <2>1, MergerFires
<1>3. CASE e = Lane
  <2>1. fire(s, e) = LaneFire(s)
    BY <1>1, <1>3 DEF fire
  <2> QED
    BY <1>1, <1>3, <2>1, LaneFires
<1>4. CASE e = SinkNode
  <2>1. fire(s, e) = Destroyed(MergeGone(s), <<Lane>>)
    BY <1>1, <1>4 DEF fire
  <2> QED
    BY <2>1, SinkFires
<1>5. ASSUME NEW k \in Child, e = Source(k) PROVE Good(fire(s, e))
  <2>1. fire(s, e) = SourceFire(s, k)
    BY <1>1, <1>5 DEF fire, Source
  <2>2. Good(s)
    BY <1>1, <1>5 DEF Good
  <2> QED
    BY <1>5, <2>1, <2>2, SourceFires
<1>6. ASSUME NEW k \in Child, e = ChildBuffer(k) PROVE Good(fire(s, e))
  <2>1. fire(s, e) = ChildBufferFire(s, k)
    <3>1. e \notin {Merger, Lane, SinkNode} /\ e \notin Child /\ e - MaxChild = k
      BY <1>1, <1>6
    <3> QED
      BY <3>1 DEF fire
  <2>2. Good(s)
    BY <1>1, <1>6 DEF Good
  <2> QED
    BY <1>6, <2>1, <2>2, ChildBufferFires
<1> QED
  BY <1>1, <1>2, <1>3, <1>4, <1>5, <1>6

-----------------------------------------------------------------------------
(***************************************************************************)
(* The actions.                                                            *)
(***************************************************************************)
(* The fields of the state. *)
LEMMA NowFields ==
  /\ Now.loop = loop /\ Now.store = store /\ Now.held = held
  /\ Now.error_or_value = error_or_value /\ Now.next_appendage = next_appendage
  /\ Now.lane = lane /\ Now.out = out /\ Now.destroyed = destroyed
  /\ Now.passed = passed /\ Now.aborted = aborted /\ Now.cut = cut
BY DEF Now

(* A step that becomes s. *)
LEMMA BecomeNow ==
  ASSUME NEW s, s \in States, Become(s)
  PROVE  Now' = s
<1>1. s = [loop |-> s.loop, store |-> s.store, held |-> s.held, error_or_value |-> s.error_or_value,
           next_appendage |-> s.next_appendage, lane |-> s.lane, out |-> s.out,
           destroyed |-> s.destroyed, passed |-> s.passed, aborted |-> s.aborted, cut |-> s.cut]
  BY DEF States
<1> QED
  BY <1>1 DEF Become, Now

(* A step that becomes s, attaches no child and builds nothing. *)
LEMMA BecomesIInv ==
  ASSUME Frame, NEW s, s \in States, Slots(s), Turns(s), Owned(s), Queued(s), Numbered(s, fed'),
         LaneAwake(s), MergerAwake(s), Become(s), fed' \in [Child -> Nat],
         kind' = kind, limit' = limit, appendages' = appendages, top' = top
  PROVE  IInv'
<1>1. Now' = s
  BY BecomeNow
<1>2. Frame'
  BY DEF Frame
<1>3. Slots(Now)' /\ Turns(Now)' /\ Owned(Now)' /\ Queued(Now)'
  BY <1>1 DEF Slots, Turns, Owned, Queued, Attached
<1>4. Numbered(Now, fed)'
  BY <1>1 DEF Numbered, NumberedOf, Rest, Given, Many
<1>5. LaneAwake(Now)'
  BY <1>1 DEF LaneAwake
<1>6. queued(Now)' = queued(s) /\ LaneSpace(Now)' = LaneSpace(s) /\ (LaneEnds(Now)' <=> LaneEnds(s))
  BY <1>1 DEF queued, LaneSpace, LaneEnds
<1>7. MergerAwake(Now)'
  BY <1>1, <1>6 DEF MergerAwake, Serves, Waits
<1>8. (Now \in States)'
  BY <1>1
<1> QED
  BY <1>2, <1>3, <1>4, <1>5, <1>7, <1>8 DEF IInv, Base

(* turn() takes the head out of the queue and fires it. *)
LEMMA FireIInv ==
  ASSUME IInv, Fire
  PROVE  IInv'
<1> DEFINE s == Now
           e == s.loop.link[HeadSlot]
           t == [s EXCEPT !.loop = DoTurn(s.loop)]
           r == fire(t, e)
<1>1. Frame /\ Base(s) /\ LaneAwake(s) /\ MergerAwake(s) /\ s.loop = loop
  BY NowFields DEF IInv
<1>2. /\ e # Null /\ Become(r)
      /\ kind' = kind /\ limit' = limit /\ appendages' = appendages /\ top' = top /\ fed' = fed
  BY <1>1 DEF Fire
<1> HIDE DEF s
<1>3. /\ Base(t) /\ SameButLoop(s, t)
      /\ e \in Event /\ e \notin s.destroyed /\ IsArmed(s.loop, e)
      /\ \A f \in Event : IsArmed(t.loop, f) <=> IsArmed(s.loop, f) /\ f # e
  BY <1>1, <1>2, TurnBase
<1> HIDE DEF e, t
<1>4. /\ t.store = s.store /\ t.error_or_value = s.error_or_value /\ t.lane = s.lane
      /\ t.destroyed = s.destroyed /\ t.aborted = s.aborted
  BY <1>3 DEF SameButLoop
<1>5. Merger \in Event /\ Lane \in Event
  BY NodesAreEvents
<1>6. e # Lane => LaneAwake(t)
  BY <1>1, <1>3, <1>4, <1>5 DEF LaneAwake
<1>7. e # Merger => MergerAwake(t)
  <2>1. queued(t) = queued(s) /\ LaneSpace(t) = LaneSpace(s) /\ (LaneEnds(t) <=> LaneEnds(s))
    BY <1>4 DEF queued, LaneSpace, LaneEnds
  <2> QED
    BY <1>1, <1>3, <1>4, <1>5, <2>1 DEF MergerAwake, Serves, Waits
<1>8. \A k \in Child : e = Source(k) => t.store[k] # << >>
  BY <1>1, <1>3, <1>4 DEF Base, Queued
<1>9. Good(r)
  <2>1. e \notin t.destroyed /\ ~IsArmed(t.loop, e)
    BY <1>3, <1>4
  <2> QED
    BY <1>1, <1>3, <1>6, <1>7, <1>8, <2>1, NodeFires
<1> HIDE DEF r
<1>10. /\ r \in States /\ Slots(r) /\ Turns(r) /\ Owned(r) /\ Queued(r) /\ Numbered(r, fed')
       /\ LaneAwake(r) /\ MergerAwake(r) /\ fed' \in [Child -> Nat]
  BY <1>1, <1>2, <1>9 DEF Good, Base, Frame
<1> QED
  BY <1>1, <1>2, <1>10, BecomesIInv

(* take() on the conveyor that merge() returned. *)
LEMMA TakeIInv ==
  ASSUME IInv, Take
  PROVE  IInv'
<1> DEFINE s == Now
           u == [Taken(s) EXCEPT !.out = Append(@, Result(s))]
<1>1. Frame /\ Base(s) /\ LaneAwake(s) /\ MergerAwake(s)
  BY DEF IInv
<1>2. /\ top = "none" /\ queued(s) # {} /\ Become(u)
      /\ kind' = kind /\ limit' = limit /\ appendages' = appendages /\ top' = top /\ fed' = fed
  BY DEF Take
<1> HIDE DEF s
<1>3. s.lane = << >>
  BY <1>1, <1>2 DEF Base, Slots
<1>4. Base(u) /\ u.lane = << >>
  BY <1>1, <1>2, <1>3, TakenOut
<1> HIDE DEF u
<1>5. LaneAwake(u) /\ MergerAwake(u)
  BY <1>2, <1>4 DEF LaneAwake, MergerAwake, Serves
<1>6. /\ u \in States /\ Slots(u) /\ Turns(u) /\ Owned(u) /\ Queued(u) /\ Numbered(u, fed')
      /\ fed' \in [Child -> Nat]
  BY <1>1, <1>2, <1>4 DEF Base, Frame
<1> QED
  BY <1>1, <1>2, <1>5, <1>6, BecomesIInv

(* The user lets go of the merged conveyor, or of the sink. *)
LEMMA DropIInv ==
  ASSUME IInv, DropMerged \/ DropSink
  PROVE  IInv'
<1> DEFINE s == Now
<1>1. Frame /\ Base(s)
  BY DEF IInv
<1>2. \E u \in {MergeGone(s), Destroyed(MergeGone(s), <<Lane, SinkNode>>)} :
         /\ Become(u) /\ Good(u)
         /\ kind' = kind /\ limit' = limit /\ appendages' = appendages /\ top' = top /\ fed' = fed
  <2>1. CASE DropMerged
    <3> DEFINE u == MergeGone(s)
    <3>1. /\ top = "none" /\ Become(u)
          /\ kind' = kind /\ limit' = limit /\ appendages' = appendages /\ top' = top /\ fed' = fed
      BY <2>1 DEF DropMerged
    <3> HIDE DEF s
    <3>2. Base(u) /\ Merger \in u.destroyed /\ u.lane = s.lane
      BY <1>1, MergeGoneBase
    <3>3. s.lane = << >>
      BY <1>1, <3>1 DEF Base, Slots
    <3> HIDE DEF u
    <3>4. LaneAwake(u) /\ MergerAwake(u)
      BY <3>2, <3>3 DEF LaneAwake, MergerAwake, Serves
    <3> QED
      BY <3>1, <3>2, <3>4 DEF Good, u
  <2>2. CASE DropSink
    <3> DEFINE u == Destroyed(MergeGone(s), <<Lane, SinkNode>>)
    <3>1. /\ Become(u)
          /\ kind' = kind /\ limit' = limit /\ appendages' = appendages /\ top' = top /\ fed' = fed
      BY <2>2 DEF DropSink
    <3> HIDE DEF s
    <3>2. Good(u)
      BY <1>1, SinkDropped
    <3> QED
      BY <3>1, <3>2
  <2> QED
    BY <2>1, <2>2
<1> HIDE DEF s
<1>3. PICK u : /\ Become(u) /\ Good(u)
               /\ kind' = kind /\ limit' = limit /\ appendages' = appendages /\ top' = top /\ fed' = fed
  BY <1>2
<1>4. /\ u \in States /\ Slots(u) /\ Turns(u) /\ Owned(u) /\ Queued(u) /\ Numbered(u, fed')
      /\ LaneAwake(u) /\ MergerAwake(u) /\ fed' \in [Child -> Nat]
  BY <1>1, <1>3 DEF Good, Base, Frame
<1> QED
  BY <1>1, <1>3, <1>4, BecomesIInv

(* attach() to a merge node that is gone. *)
LEMMA AttachGoneIInv ==
  ASSUME IInv, NEW k \in Child, AttachGone(k)
  PROVE  IInv'
<1> DEFINE s == Now
           u == [s EXCEPT !.aborted = TRUE]
<1>1. Frame /\ Base(s) /\ LaneAwake(s)
  BY DEF IInv
<1>2. /\ aborted' = TRUE /\ loop' = loop
      /\ kind' = kind /\ limit' = limit /\ store' = store /\ held' = held
      /\ appendages' = appendages
      /\ error_or_value' = error_or_value /\ next_appendage' = next_appendage
      /\ top' = top /\ lane' = lane /\ out' = out /\ destroyed' = destroyed /\ fed' = fed
      /\ passed' = passed /\ cut' = cut
  BY DEF AttachGone
<1>3. Become(u)
  BY <1>2 DEF Become, Now
<1> HIDE DEF s
<1>4. Base(u) /\ u.aborted /\ u.loop = s.loop /\ u.destroyed = s.destroyed /\ u.lane = s.lane
  BY <1>1, AbortBase
<1> HIDE DEF u
<1>5. LaneAwake(u) /\ MergerAwake(u)
  BY <1>1, <1>4 DEF LaneAwake, MergerAwake, Serves
<1>6. /\ u \in States /\ Slots(u) /\ Turns(u) /\ Owned(u) /\ Queued(u) /\ Numbered(u, fed')
      /\ fed' \in [Child -> Nat]
  BY <1>1, <1>2, <1>4 DEF Base, Frame
<1> QED
  BY <1>1, <1>2, <1>3, <1>5, <1>6, BecomesIInv

(* feed() and fail() of a child's feeder. *)
LEMMA FeedIInv ==
  ASSUME IInv, NEW k \in Child, NEW what \in Kinds, Feed(k, what)
  PROVE  IInv'
<1> DEFINE s == Now
           d == store[k]
           x == Element(k, fed[k] + 1, what)
           a == Append(d, x)
           w == [store EXCEPT ![k] = a]
           q == DoArmNext(loop, Source(k))
           u == [s EXCEPT !.store = w]
           v == [u EXCEPT !.loop = q]
<1>1. Frame /\ Base(s) /\ LaneAwake(s) /\ MergerAwake(s)
  BY DEF IInv
<1>2. /\ Source(k) \notin destroyed
      /\ fed' = [fed EXCEPT ![k] = @ + 1] /\ store' = w /\ loop' = q
      /\ kind' = kind /\ limit' = limit /\ held' = held /\ appendages' = appendages
      /\ error_or_value' = error_or_value /\ next_appendage' = next_appendage
      /\ top' = top /\ lane' = lane /\ out' = out /\ destroyed' = destroyed
      /\ passed' = passed /\ aborted' = aborted /\ cut' = cut
  BY DEF Feed
<1>3. /\ s \in States /\ Slots(s) /\ Turns(s) /\ Owned(s) /\ Queued(s) /\ Numbered(s, fed)
      /\ fed \in [Child -> Nat]
  BY <1>1 DEF Base, Frame
<1>4. /\ s.loop = loop /\ s.store = store /\ s.held = held
      /\ s.error_or_value = error_or_value /\ s.next_appendage = next_appendage
      /\ s.lane = lane /\ s.out = out /\ s.destroyed = destroyed
      /\ s.passed = passed /\ s.aborted = aborted /\ s.cut = cut
  BY NowFields
<1> HIDE DEF s
<1>5. /\ store \in [Child -> Seq(Items)] /\ held \in [Child -> Seq(Items)]
      /\ error_or_value \in [Child -> Seq(Items)]
  BY <1>3, <1>4, StateFields
<1>6. x \in Items /\ x.child = k /\ x.id = fed[k] + 1
  BY <1>3 DEF Element, Items
<1> HIDE DEF x
<1>7. d \in Seq(Items)
  BY <1>5
<1> HIDE DEF d
<1>8. a \in Seq(Items) /\ Len(a) = Len(d) + 1 /\ Len(d) \in Nat
  BY <1>6, <1>7, BackGrown
<1>9. a # << >>
  <2>1. Len(a) # 0
    BY <1>8
  <2> QED
    BY <2>1
<1> HIDE DEF a
<1>10. w \in [Child -> Seq(Items)] /\ w[k] = a /\ \A c \in Child : c # k => w[c] = store[c]
  BY <1>5, <1>8
<1> HIDE DEF w
<1>11. /\ u \in States /\ u.loop = loop /\ u.store = w /\ u.held = held
       /\ u.error_or_value = error_or_value /\ u.next_appendage = next_appendage
       /\ u.lane = lane /\ u.out = out /\ u.destroyed = destroyed
       /\ u.passed = passed /\ u.aborted = aborted /\ u.cut = cut
  BY <1>3, <1>4, <1>10 DEF States
<1> HIDE DEF u
<1>12. Source(k) \in Event /\ \A c \in Child : Source(c) = Source(k) => c = k
  BY NodesAreEvents DEF Source
<1>13. QueueInv(loop, destroyed) /\ destroyed \in SUBSET Event
       /\ \A c \in Child : IsArmed(loop, Source(c)) => store[c] # << >>
  BY <1>3, <1>4, StateFields DEF Queued
<1>14. QueueInv(q, destroyed) /\ \A f \in Event : IsArmed(q, f) <=> IsArmed(loop, f) \/ f = Source(k)
  BY <1>2, <1>12, <1>13, ArmNextInv
<1> HIDE DEF q
<1>15. q \in Queues
  BY <1>14 DEF QueueInv
<1>16. /\ v \in States /\ v.loop = q /\ v.store = w /\ v.held = held
       /\ v.error_or_value = error_or_value /\ v.next_appendage = next_appendage
       /\ v.lane = lane /\ v.out = out /\ v.destroyed = destroyed
       /\ v.passed = passed /\ v.aborted = aborted /\ v.cut = cut
  BY <1>11, <1>15 DEF States
<1> HIDE DEF v
<1>17. Slots(v) /\ Turns(v) /\ Owned(v)
  BY <1>3, <1>4, <1>16 DEF Slots, Turns, Owned
<1>18. Queued(v)
  <2>1. ASSUME NEW c \in Child, IsArmed(q, Source(c)) PROVE w[c] # << >>
    <3>1. CASE c = k
      BY <1>9, <1>10, <3>1
    <3>2. CASE c # k
      <4>1. Source(c) \in Event
        BY NodesAreEvents
      <4> QED
        BY <1>10, <1>12, <1>13, <1>14, <2>1, <3>2, <4>1
    <3> QED
      BY <3>1, <3>2
  <2> QED
    BY <1>14, <1>16, <2>1 DEF Queued
<1>19. Merger \in Event /\ Lane \in Event
  BY NodesAreEvents
<1>20. LaneAwake(v)
  BY <1>1, <1>4, <1>14, <1>16, <1>19 DEF LaneAwake
<1>21. MergerAwake(v)
  <2>1. queued(v) = queued(s) /\ LaneSpace(v) = LaneSpace(s) /\ (LaneEnds(v) <=> LaneEnds(s))
    BY <1>4, <1>16 DEF queued, LaneSpace, LaneEnds
  <2> QED
    BY <1>1, <1>4, <1>14, <1>16, <1>19, <2>1 DEF MergerAwake, Serves, Waits
<1>22. Numbered(v, fed')
  <2>1. Given(v) = Given(s) /\ Many(v) = Many(s) /\ Many(s) \in Nat
    <3> DEFINE y == Len(s.out)
               z == Len(s.lane)
    <3>1. y \in Nat /\ z \in Nat /\ Many(s) = y + z
      BY <1>3, StateFields, LenProperties DEF Many
    <3> HIDE DEF y, z
    <3>2. Many(s) \in Nat
      BY <3>1
    <3> QED
      BY <1>4, <1>16, <3>2 DEF Given, Many
  <2> DEFINE m == Many(s)
             g == Given(s)
  <2> HIDE DEF m, g
  <2>2. ASSUME NEW c \in Child PROVE NumberedOf(c, v, fed')
    <3>1. PICK p : Tally(p, c, g, m) /\ Rest(p[m], c, s, fed)
      BY <1>3 DEF Numbered, NumberedOf, g, m
    <3>2. p[m] \in Nat
      BY <2>1, <3>1 DEF Tally, m
    <3>3. Rest(p[m], c, v, fed')
      <4>1. CASE c # k
        <5>1. fed'[c] = fed[c] /\ w[c] = store[c]
          BY <1>2, <1>3, <1>10, <4>1
        <5> QED
          BY <3>1, <1>4, <1>16, <5>1 DEF Rest
      <4>2. CASE c = k
        <5> DEFINE n == p[m]
                   y == Len(error_or_value[k])
                   z == Len(held[k])
                   r == n + y + z
        <5>1. y \in Nat /\ z \in Nat
          BY <1>5, LenProperties
        <5>2. /\ Follow(n, k, error_or_value[k]) /\ Follow(n + y, k, held[k]) /\ Follow(r, k, d)
              /\ r + Len(d) = fed[k]
          BY <3>1, <4>2, <1>2, <1>4 DEF Rest, d
        <5> HIDE DEF n, y, z
        <5>3. r \in Nat
          BY <3>2, <5>1 DEF n
        <5> HIDE DEF r
        <5>4. x.id = r + Len(d) + 1
          BY <1>6, <5>2
        <5>5. Follow(r, k, a)
          BY <1>6, <1>7, <5>2, <5>3, <5>4, FollowAppend DEF a
        <5>6. fed'[k] = fed[k] + 1
          BY <1>2, <1>3
        <5>7. r + Len(a) = fed'[k]
          BY <1>8, <5>2, <5>3, <5>6
        <5>8. v.error_or_value[k] = error_or_value[k] /\ v.held[k] = held[k] /\ v.store[k] = a
          BY <1>10, <1>16
        <5> QED
          BY <4>2, <5>2, <5>5, <5>7, <5>8 DEF Rest, r, y, z, n
      <4> QED
        BY <4>1, <4>2
    <3> QED
      BY <2>1, <3>1, <3>3 DEF NumberedOf, g, m
  <2> QED
    BY <2>2 DEF Numbered
<1>23. Become(v)
  BY <1>2, <1>16 DEF Become
<1>24. fed' \in [Child -> Nat]
  BY <1>2, <1>3
<1> QED
  BY <1>1, <1>2, <1>16, <1>17, <1>18, <1>20, <1>21, <1>22, <1>23, <1>24, BecomesIInv

(* The state after a child or the lane has been armed by setParent(). *)
SetParent(s, e, armed) == IF armed THEN [s EXCEPT !.loop = DoArmLater(@, e)] ELSE s

(* attach(): one appendage more, which is empty. *)
LEMMA AttachIInv ==
  ASSUME IInv, NEW k \in Child, Attach(k)
  PROVE  IInv'
<1> DEFINE s == Now
           buffered == kind[k] = "buffered"
           node == IF buffered THEN ChildBuffer(k) ELSE Source(k)
           waiting == IF buffered THEN held[k] ELSE store[k]
           u == SetParent(s, node, waiting # << >>)
           n == Len(appendages)
           a == appendages'
<1>1. Frame /\ Good(s)
  BY DEF IInv, Good
<1>2. /\ ~Attached(k) /\ Merger \notin destroyed /\ a = Append(appendages, k)
      /\ loop' = IF waiting # << >> THEN DoArmLater(loop, node) ELSE loop
      /\ kind' = kind /\ limit' = limit /\ store' = store /\ held' = held
      /\ error_or_value' = error_or_value /\ next_appendage' = next_appendage
      /\ top' = top /\ lane' = lane /\ out' = out /\ destroyed' = destroyed /\ fed' = fed
      /\ passed' = passed /\ aborted' = aborted /\ cut' = cut
  BY DEF Attach
<1>3. s \in States /\ Owned(s) /\ Slots(s) /\ Turns(s)
  BY <1>1 DEF Good, Base
<1>4. /\ s.loop = loop /\ s.store = store /\ s.held = held
      /\ s.error_or_value = error_or_value /\ s.next_appendage = next_appendage
      /\ s.lane = lane /\ s.out = out /\ s.destroyed = destroyed
      /\ s.passed = passed /\ s.aborted = aborted /\ s.cut = cut
  BY NowFields
<1>5. /\ \A c \in Child : Source(c) = Source(k) => c = k
      /\ \A c \in Child : Source(c) # ChildBuffer(k)
      /\ Source(k) \in Event /\ ChildBuffer(k) \in Event
  BY NodesAreEvents DEF Source
<1> HIDE DEF s, Source, ChildBuffer, Merger
<1>6. node \in Event /\ node \notin s.destroyed
  BY <1>2, <1>3, <1>4, <1>5 DEF Owned
<1>7. waiting # << >> => \A c \in Child : node = Source(c) => s.store[c] # << >>
  BY <1>4, <1>5
<1> HIDE DEF node, waiting
<1>8. u = [s EXCEPT !.loop = loop']
  BY <1>2, <1>3, <1>4 DEF SetParent, States
<1>9. Good(u)
  <2>1. CASE waiting # << >>
    <3>1. loop' \in Arms(s.loop, node)
      BY <1>2, <1>4, <2>1 DEF Arms
    <3> QED
      BY <1>1, <1>6, <1>7, <1>8, <2>1, <3>1, ArmGood
  <2>2. CASE waiting = << >>
    BY <1>1, <2>2 DEF SetParent
  <2> QED
    BY <2>1, <2>2
<1>10. Become(u) /\ u.destroyed = destroyed /\ u.error_or_value = error_or_value
  BY <1>2, <1>3, <1>4, <1>8 DEF Become, States
<1> HIDE DEF u
<1>11. u \in States /\ Slots(u) /\ Turns(u) /\ Owned(u) /\ Queued(u) /\ Numbered(u, fed) /\ LaneAwake(u) /\ MergerAwake(u)
  BY <1>9 DEF Good, Base
<1>12. Now' = u
  BY <1>10, <1>11, BecomeNow
<1>13. /\ a \in Seq(Child) /\ Len(a) = n + 1 /\ n \in Nat
       /\ (\A i \in 1..n : a[i] = appendages[i]) /\ a[n + 1] = k
  BY <1>1, <1>2, BackGrown DEF Frame
<1>14. /\ \A c \in Child : Attached(c) <=> \E j \in 1..n : c = appendages[j]
       /\ \A j \in 1..n : appendages[j] \in Child
       /\ \A c : Attached(c) => c \in Child
  BY <1>1, AttachedAt
<1>15. \A i, j \in 1..n : appendages[i] = appendages[j] => i = j
  BY <1>1 DEF Frame
<1> HIDE DEF n
<1>16. Frame'
  <2>1. ASSUME NEW i \in 1..(n + 1), NEW j \in 1..(n + 1), a[i] = a[j] PROVE i = j
    <3>1. i # n + 1 => i \in 1..n
      BY <1>13
    <3>2. j # n + 1 => j \in 1..n
      BY <1>13
    <3>3. \A l \in 1..n : a[l] # k
      BY <1>2, <1>13, <1>14
    <3> QED
      BY <1>13, <1>15, <2>1, <3>1, <3>2, <3>3
  <2> QED
    BY <1>1, <1>2, <1>13, <2>1 DEF Frame
<1>17. \A c \in Child : Attached(c)' <=> Attached(c) \/ c = k
  <2>1. \A c \in Child : Attached(c)' <=> \E j \in 1..(n + 1) : c = a[j]
    <3>1. DOMAIN a = 1..(n + 1)
      BY <1>13, LenProperties
    <3> QED
      BY <3>1 DEF Attached, Range
  <2>2. n + 1 \in 1..(n + 1) /\ \A j \in 1..(n + 1) : j = n + 1 \/ j \in 1..n
    BY <1>13
  <2>3. \A j \in 1..n : j \in 1..(n + 1)
    BY <1>13
  <2> QED
    BY <1>13, <1>14, <2>1, <2>2, <2>3
<1>18. u.error_or_value[k] = << >>
  BY <1>2, <1>11 DEF Slots
<1>19. Slots(Now)'
  BY <1>2, <1>11, <1>12, <1>17 DEF Slots
<1>20. Turns(Now)'
  <2>1. u.next_appendage \in Nat /\ u.next_appendage <= n
    BY <1>11, StateFields DEF Turns, n
  <2>2. u.next_appendage <= n + 1
    BY <1>13, <2>1
  <2>3. ASSUME NEW j \in 1..(n + 1), u.error_or_value[a[j]] # << >>
        PROVE  u.passed[a[j]] + Ahead(u.next_appendage, j) < MaxChild
    <3>1. j \in 1..n
      BY <1>13, <1>18, <2>3
    <3> QED
      BY <1>11, <1>13, <2>3, <3>1 DEF Turns, n
  <2>4. \A c \in Child : u.error_or_value[c] = << >> => u.passed[c] = 0
    BY <1>11 DEF Turns
  <2> HIDE DEF Ahead, MaxChild
  <2> QED
    BY <1>12, <1>13, <2>2, <2>3, <2>4 DEF Turns
<1>21. Owned(Now)'
  BY <1>2, <1>10, <1>11, <1>12 DEF Owned
<1>22. Queued(Now)' /\ LaneAwake(Now)'
  BY <1>11, <1>12 DEF Queued, LaneAwake
<1>23. Numbered(Now, fed)'
  BY <1>2, <1>11, <1>12 DEF Numbered, NumberedOf, Rest, Given, Many
<1>24. MergerAwake(Now)'
  <2>1. queued(Now)' = queued(u)
    <3>1. \A c : Attached(c)' => c \in Child
      <4>1. DOMAIN a = 1..(n + 1) /\ \A j \in 1..(n + 1) : a[j] \in Child
        BY <1>13, LenProperties
      <4> QED
        BY <4>1 DEF Attached, Range
    <3>2. queued(Now)' = {c \in Range(a) : u.error_or_value[c] # << >>} /\ queued(u) = {c \in Range(appendages) : u.error_or_value[c] # << >>}
      BY <1>12 DEF queued
    <3>3. \A c : (Attached(c) <=> c \in Range(appendages)) /\ (Attached(c)' <=> c \in Range(a))
      BY DEF Attached
    <3> HIDE DEF queued, Attached
    <3> QED
      BY <1>14, <1>17, <1>18, <3>1, <3>2, <3>3
  <2>2. LaneSpace(Now)' = LaneSpace(u) /\ (LaneEnds(Now)' <=> LaneEnds(u))
    BY <1>2, <1>12 DEF LaneSpace, LaneEnds
  <2> QED
    BY <1>2, <1>11, <1>12, <2>1, <2>2 DEF MergerAwake, Serves, Waits
<1>25. (Now \in States)'
  BY <1>11, <1>12
<1> QED
  BY <1>16, <1>19, <1>20, <1>21, <1>22, <1>23, <1>24, <1>25 DEF IInv, Base

(* sink(), or buffer() and sink(), on the conveyor that merge() returned. *)
LEMMA BuildLaneIInv ==
  ASSUME IInv, BuildLane
  PROVE  IInv'
<1> DEFINE s == Now
           u == SetParent(s, Merger, queued(s) # {})
<1>1. Frame /\ Good(s)
  BY DEF IInv, Good
<1>2. /\ Merger \notin destroyed /\ top' = "built"
      /\ loop' = IF queued(s) # {} THEN DoArmLater(loop, Merger) ELSE loop
      /\ kind' = kind /\ limit' = limit /\ store' = store /\ held' = held
      /\ appendages' = appendages
      /\ error_or_value' = error_or_value /\ next_appendage' = next_appendage
      /\ lane' = lane /\ out' = out /\ destroyed' = destroyed /\ fed' = fed
      /\ passed' = passed /\ aborted' = aborted /\ cut' = cut
  BY DEF BuildLane
<1>3. s \in States
  BY <1>1 DEF Good, Base
<1>4. /\ s.loop = loop /\ s.store = store /\ s.held = held
      /\ s.error_or_value = error_or_value /\ s.next_appendage = next_appendage
      /\ s.lane = lane /\ s.out = out /\ s.destroyed = destroyed
      /\ s.passed = passed /\ s.aborted = aborted /\ s.cut = cut
  BY NowFields
<1>5. Merger \in Event /\ \A c \in Child : Merger # Source(c)
  BY NodesAreEvents
<1> HIDE DEF s, Merger, Source
<1>6. u = [s EXCEPT !.loop = loop']
  BY <1>2, <1>3, <1>4 DEF SetParent, States
<1>7. Base(u) /\ LaneAwake(u) /\ (queued(s) # {} => IsArmed(u.loop, Merger))
  <2>1. CASE queued(s) # {}
    <3>1. loop' \in Arms(s.loop, Merger)
      BY <1>2, <1>4, <2>1 DEF Arms
    <3>2. Base(s) /\ LaneAwake(s) /\ Merger \notin s.destroyed
      BY <1>1, <1>2, <1>4 DEF Good
    <3> HIDE DEF u
    <3>3. /\ Base(u) /\ SameButLoop(s, u)
          /\ \A f \in Event : IsArmed(u.loop, f) <=> IsArmed(s.loop, f) \/ f = Merger
      BY <1>5, <1>6, <3>1, <3>2, ArmBase
    <3>4. LaneAwake(u)
      BY <3>2, <3>3, ArmAwake
    <3> QED
      BY <1>5, <3>3, <3>4
  <2>2. CASE queued(s) = {}
    BY <1>1, <2>2 DEF SetParent, Good
  <2> QED
    BY <2>1, <2>2
<1>8. Become(u) /\ u.error_or_value = s.error_or_value
  BY <1>2, <1>3, <1>4, <1>6 DEF Become, States
<1> HIDE DEF u
<1>9. u \in States /\ Slots(u) /\ Turns(u) /\ Owned(u) /\ Queued(u) /\ Numbered(u, fed)
  BY <1>7 DEF Base
<1>10. Now' = u
  BY <1>8, <1>9, BecomeNow
<1>11. Frame'
  BY <1>1, <1>2 DEF Frame
<1>12. Slots(Now)' /\ Turns(Now)' /\ Owned(Now)' /\ Queued(Now)' /\ LaneAwake(Now)'
  BY <1>2, <1>7, <1>9, <1>10 DEF Slots, Turns, Owned, Queued, Attached, LaneAwake
<1>13. Numbered(Now, fed)'
  BY <1>2, <1>9, <1>10 DEF Numbered, NumberedOf, Rest, Given, Many
<1>14. MergerAwake(Now)'
  <2>1. queued(Now)' = queued(s)
    BY <1>2, <1>8, <1>10 DEF queued
  <2> QED
    BY <1>7, <1>10, <2>1 DEF MergerAwake, Serves
<1>15. (Now \in States)'
  BY <1>9, <1>10
<1> QED
  BY <1>11, <1>12, <1>13, <1>14, <1>15 DEF IInv, Base

(* Initially nothing has passed and the immediate children hold their two. *)
LEMMA InitIInv == Init => IInv
<1> SUFFICES ASSUME Init PROVE IInv
  OBVIOUS
<1>0. PICK what \in [Child -> Kinds] :
         store = [k \in Child |-> IF kind[k] = "immediate"
                    THEN <<Element(k, 1, what[k]), Element(k, 2, "critical")>> ELSE << >>]
  BY DEF Init
<1> DEFINE s == Now
           x(k) == Element(k, 1, what[k])
           y(k) == Element(k, 2, "critical")
<1>1. /\ loop = EmptyQueue /\ kind \in [Child -> ChildKinds] /\ limit \in LaneLimits
      /\ store = [k \in Child |-> IF kind[k] = "immediate" THEN <<x(k), y(k)>> ELSE << >>]
      /\ fed = [k \in Child |-> Len(store[k])]
      /\ held = [k \in Child |-> << >>] /\ appendages = << >>
      /\ error_or_value = [k \in Child |-> << >>] /\ next_appendage = 0
      /\ lane = << >> /\ out = << >> /\ destroyed = {} /\ passed = [k \in Child |-> 0]
      /\ aborted = FALSE /\ cut = FALSE
  BY <1>0 DEF Init, LoopInit
<1>2. /\ s.loop = loop /\ s.store = store /\ s.held = held
      /\ s.error_or_value = error_or_value /\ s.next_appendage = next_appendage
      /\ s.lane = lane /\ s.out = out /\ s.destroyed = destroyed
      /\ s.passed = passed /\ s.aborted = aborted /\ s.cut = cut
  BY NowFields
<1>3. ASSUME NEW k \in Child
      PROVE  /\ x(k) \in Items /\ y(k) \in Items /\ x(k).child = k /\ y(k).child = k
             /\ x(k).id = 1 /\ y(k).id = 2
  BY DEF Element, Items
<1> HIDE DEF x, y, s
<1>4. ASSUME NEW k \in Child
      PROVE  store[k] \in Seq(Items) /\ Len(store[k]) \in Nat /\ Follow(0, k, store[k])
  <2>1. CASE kind[k] = "immediate"
    <3> DEFINE z == <<x(k), y(k)>>
    <3>1. z \in Seq(Items) /\ Len(z) = 2 /\ z[1] = x(k) /\ z[2] = y(k)
      BY <1>3
    <3>2. store[k] = z
      BY <1>1, <2>1
    <3> HIDE DEF z
    <3>3. \A i \in 1..Len(z) : i = 1 \/ i = 2
      BY <3>1
    <3>4. Follow(0, k, z)
      <4>1. z[1].child = k /\ z[1].id = 0 + 1 /\ z[2].child = k /\ z[2].id = 0 + 2
        BY <1>3, <3>1
      <4> QED
        BY <3>3, <4>1 DEF Follow
    <3>5. Len(z) \in Nat
      BY <3>1
    <3> QED
      BY <3>1, <3>2, <3>4, <3>5
  <2>2. CASE kind[k] # "immediate"
    <3>1. store[k] = << >>
      BY <1>1, <2>2
    <3>2. << >> \in Seq(Items) /\ Len(<< >>) = 0 /\ Follow(0, k, << >>)
      BY FollowNone
    <3> QED
      BY <3>1, <3>2
  <2> QED
    BY <2>1, <2>2
<1>5. /\ store \in [Child -> Seq(Items)] /\ fed \in [Child -> Nat]
      /\ held \in [Child -> Seq(Items)] /\ error_or_value \in [Child -> Seq(Items)]
  <2>1. store = [k \in Child |-> store[k]]
    BY <1>1
  <2>2. << >> \in Seq(Items)
    BY FollowNone
  <2>3. store \in [Child -> Seq(Items)]
    BY <1>4, <2>1
  <2>4. fed \in [Child -> Nat]
    BY <1>1, <1>4
  <2>5. held \in [Child -> Seq(Items)] /\ error_or_value \in [Child -> Seq(Items)]
    BY <1>1, <2>2
  <2> QED
    BY <2>3, <2>4, <2>5
<1>6. Len(appendages) = 0 /\ Len(lane) = 0 /\ Len(out) = 0 /\ limit \in Nat /\ appendages \in Seq(Child)
  BY <1>1, MergeAssumption
<1>7. Frame
  BY <1>1, <1>5, <1>6 DEF Frame
<1>8. QueueInv(loop, destroyed) /\ \A e \in Event : ~IsArmed(loop, e)
  BY <1>1, EmptyQueueInv
<1>9. s \in States
  <2>1. loop \in Queues
    BY <1>8 DEF QueueInv
  <2>2. lane \in Seq(Items) /\ out \in Seq(Items) /\ passed \in [Child -> Nat] /\ next_appendage \in Nat
    <3>1. << >> \in Seq(Items)
      BY FollowNone
    <3> QED
      BY <1>1, <3>1
  <2>3. destroyed \in SUBSET Event /\ aborted \in BOOLEAN /\ cut \in BOOLEAN
    BY <1>1
  <2> QED
    BY <1>5, <2>1, <2>2, <2>3 DEF States, s, Now
<1>10. ASSUME NEW k \in Child PROVE error_or_value[k] = << >> /\ held[k] = << >> /\ passed[k] = 0
  BY <1>1
<1>11. Slots(s)
  <2>1. Len(<< >>) <= 1 /\ Len(lane) <= limit
    BY <1>6
  <2> QED
    BY <1>1, <1>2, <1>10, <2>1 DEF Slots
<1>12. Turns(s)
  <2>1. next_appendage <= Len(appendages) /\ 1..Len(appendages) = {}
    BY <1>1, <1>6
  <2> QED
    BY <1>2, <1>10, <2>1 DEF Turns
<1>13. Owned(s)
  BY <1>1, <1>2 DEF Owned
<1>14. Queued(s)
  <2>1. \A k \in Child : Source(k) \in Event
    BY NodesAreEvents
  <2> QED
    BY <1>2, <1>8, <2>1 DEF Queued
<1>15. Numbered(s, fed)
  <2> DEFINE p == [i \in Nat |-> 0]
  <2>1. Many(s) = 0
    BY <1>2, <1>6 DEF Many
  <2>2. ASSUME NEW k \in Child PROVE NumberedOf(k, s, fed)
    <3>1. p \in [Nat -> Nat] /\ p[0] = 0 /\ 1..0 = {}
      OBVIOUS
    <3> HIDE DEF p
    <3>2. Tally(p, k, Given(s), 0)
      BY <3>1 DEF Tally
    <3>3. Follow(0, k, << >>) /\ Len(<< >>) = 0
      BY FollowNone
    <3>4. fed[k] = Len(store[k]) /\ Len(store[k]) \in Nat
      BY <1>1, <1>4
    <3>5. 0 + 0 = 0 /\ 0 + 0 + 0 = 0 /\ 0 + 0 + 0 + Len(store[k]) = fed[k]
      BY <3>4
    <3>6. Rest(0, k, s, fed)
      BY <1>2, <1>4, <1>10, <3>3, <3>5 DEF Rest
    <3> QED
      BY <2>1, <3>1, <3>2, <3>6 DEF NumberedOf
  <2> QED
    BY <2>2 DEF Numbered
<1>16. LaneAwake(s)
  BY <1>1, <1>2 DEF LaneAwake
<1>17. MergerAwake(s)
  <2>1. queued(s) = {}
    <3>1. Range(appendages) = {}
      BY <1>1 DEF Range
    <3> QED
      BY <3>1 DEF queued
  <2> QED
    BY <2>1 DEF MergerAwake, Serves
<1> QED
  BY <1>7, <1>9, <1>11, <1>12, <1>13, <1>14, <1>15, <1>16, <1>17 DEF IInv, Base, s

(* Every step keeps the invariant. *)
LEMMA NextIInv ==
  ASSUME IInv, [Next]_vars
  PROVE  IInv'
<1>1. CASE Next
  <2>1. ASSUME NEW k \in Child, Attach(k) PROVE IInv'
    BY <2>1, AttachIInv
  <2>2. ASSUME NEW k \in Child, NEW what \in Kinds, Feed(k, what) PROVE IInv'
    BY <2>2, FeedIInv
  <2>3. CASE BuildLane
    BY <2>3, BuildLaneIInv
  <2>4. CASE Take
    BY <2>4, TakeIInv
  <2>5. CASE Fire
    BY <2>5, FireIInv
  <2>6. ASSUME NEW k \in Child, AttachGone(k) PROVE IInv'
    BY <2>6, AttachGoneIInv
  <2>7. CASE DropMerged \/ DropSink
    BY <2>7, DropIInv
  <2> QED
    BY <1>1, <2>1, <2>2, <2>3, <2>4, <2>5, <2>6, <2>7 DEF Next
<1>2. CASE UNCHANGED vars
  <2> DEFINE s == Now
  <2>1. /\ Frame /\ s \in States /\ Slots(s) /\ Turns(s) /\ Owned(s) /\ Queued(s) /\ Numbered(s, fed')
        /\ LaneAwake(s) /\ MergerAwake(s) /\ fed' \in [Child -> Nat]
    BY <1>2 DEF IInv, Base, Frame, vars
  <2>2. /\ Become(s) /\ kind' = kind /\ limit' = limit /\ appendages' = appendages /\ top' = top
    BY <1>2, NowFields DEF Become, vars
  <2> HIDE DEF s
  <2> QED
    BY <2>1, <2>2, BecomesIInv
<1> QED
  BY <1>1, <1>2

(* The inductive invariant holds in every behaviour. *)
THEOREM Invariance == Spec => []IInv
<1>1. IInv /\ [Next]_vars => IInv'
  BY NextIInv
<1> QED
  BY <1>1, InitIInv, PTL DEF Spec

(* However many children there are and whoever is fed most: while an       *)
(* appendage holds an element, fewer elements than there can be children   *)
(* are taken from others (getResult, next_appendage).                      *)
THEOREM EveryAppendageHasItsTurn == Spec => []RoundRobin
<1>1. IInv => RoundRobin
  <2> SUFFICES ASSUME IInv, NEW k \in Child PROVE passed[k] < MaxChild
    BY DEF RoundRobin
  <2> DEFINE s == Now
             m == MaxChild
             p == s.next_appendage
  <2>1. Frame /\ s \in States /\ Slots(s) /\ Turns(s) /\ s.passed = passed
    BY NowFields DEF IInv, Base
  <2> HIDE DEF s
  <2>2. m \in Nat /\ Child = 1..m /\ passed[k] \in Nat
    BY <2>1, NodesAreEvents, StateFields
  <2>3. CASE s.error_or_value[k] = << >>
    <3>1. passed[k] = 0
      BY <2>1, <2>3 DEF Turns
    <3>2. m >= 1
      <4> HIDE DEF m
      <4> QED
        BY <2>2
    <3> HIDE DEF m
    <3> QED
      BY <2>2, <3>1, <3>2 DEF m
  <2>4. CASE s.error_or_value[k] # << >>
    <3>1. PICK j \in 1..Len(appendages) : k = appendages[j]
      BY <2>1, <2>4, AttachedAt DEF Slots
    <3>2. passed[k] + Ahead(p, j) < m
      BY <2>1, <2>4, <3>1 DEF Turns
    <3>3. p \in Nat /\ p <= Len(appendages) /\ Len(appendages) \in Nat /\ Len(appendages) <= m
      BY <2>1, StateFields, FewAppendages DEF Turns
    <3> HIDE DEF p, m
    <3>4. Ahead(p, j) \in Nat
      <4>1. j \in Nat /\ j >= 1 /\ j <= m
        BY <2>2, <3>3
      <4>2. Ahead(p, j) = IF p < j THEN j - p - 1 ELSE m - p + j - 1
        BY DEF Ahead, m
      <4> QED
        BY <2>2, <3>3, <4>1, <4>2
    <3> HIDE DEF Ahead
    <3>5. passed[k] < m
      BY <2>2, <3>2, <3>4
    <3> QED
      BY <3>5 DEF m
  <2> QED
    BY <2>3, <2>4
<1> QED
  BY <1>1, Invariance, PTL

(* For every limit of the lane and any number of children: the merge node  *)
(* with something to give is armed, or a full lane that will tell it is,   *)
(* or the lane ends with a critical error (fire, parentHasFired).          *)
THEOREM NoWakeupIsLost == Spec => []NoLostWakeup
<1>1. IInv => NoLostWakeup
  <2> SUFFICES ASSUME IInv, queued(Now) # {}, top = "built", ~aborted, Merger \notin destroyed
               PROVE  \/ IsArmed(loop, Merger)
                      \/ LaneSpace(Now) = 0 /\ IsArmed(loop, Lane)
                      \/ LaneEnds(Now)
    BY DEF NoLostWakeup
  <2> DEFINE s == Now
  <2>1. Frame /\ s \in States /\ Slots(s) /\ Owned(s) /\ LaneAwake(s) /\ MergerAwake(s)
    BY DEF IInv, Base
  <2>2. s.loop = loop /\ s.lane = lane /\ s.destroyed = destroyed /\ s.aborted = aborted
    BY NowFields
  <2> HIDE DEF s
  <2>3. Serves(s)
    BY <2>2 DEF Serves, s
  <2>4. IsArmed(loop, Merger) \/ LaneSpace(s) = 0 \/ LaneEnds(s)
    BY <2>1, <2>2, <2>3 DEF MergerAwake, Waits
  <2>5. LaneSpace(s) = 0 => IsArmed(loop, Lane)
    <3>1. \A k \in Child : Lane # Source(k)
      BY NodesAreEvents
    <3>2. Lane \notin s.destroyed
      BY <2>1, <2>2, <3>1 DEF Owned
    <3>3. LaneSpace(s) = 0 => Len(s.lane) # 0
      BY <2>1, LaneRoom
    <3>4. LaneSpace(s) = 0 => s.lane # << >>
      BY <3>3
    <3> QED
      BY <2>1, <2>2, <3>2, <3>4 DEF LaneAwake
  <2> QED
    BY <2>4, <2>5 DEF s
<1> QED
  BY <1>1, Invariance, PTL

-----------------------------------------------------------------------------
(***************************************************************************)
(* What Flow says of the numbers.                                          *)
(***************************************************************************)
(* One step of the recursive function of Flow, at the element x. *)
PickOf(r, k, x) == IF x.child = k THEN Append(r, x) ELSE r

(* That function, for the first m elements of g. *)
IsOf(f, k, g, m) == f = [i \in 0..m |-> IF i = 0 THEN << >> ELSE PickOf(f[i - 1], k, g[i])]

(* It begins empty and takes one element after another. *)
LEMMA OfSteps ==
  ASSUME NEW m \in Nat, NEW k, NEW g, NEW f, IsOf(f, k, g, m)
  PROVE  f[0] = << >> /\ \A i \in 1..m : f[i] = PickOf(f[i - 1], k, g[i])
<1>1. 0 \in 0..m
  OBVIOUS
<1>2. f[0] = << >>
  BY <1>1 DEF IsOf
<1>3. ASSUME NEW i \in 1..m PROVE f[i] = PickOf(f[i - 1], k, g[i])
  <2>1. i \in 0..m /\ i # 0
    OBVIOUS
  <2> HIDE DEF PickOf
  <2> QED
    BY <2>1 DEF IsOf
<1> QED
  BY <1>2, <1>3

(* It exists. *)
LEMMA OfExists ==
  ASSUME NEW n \in Nat, NEW k, NEW g
  PROVE  \E f : IsOf(f, k, g, n)
<1> DEFINE T == {m \in Nat : \E f : IsOf(f, k, g, m)}
<1>1. 0 \in T
  <2> DEFINE f == [i \in 0..0 |-> << >>]
  <2>1. \A i \in 0..0 : i = 0
    OBVIOUS
  <2>2. IsOf(f, k, g, 0)
    BY <2>1 DEF IsOf
  <2> HIDE DEF f
  <2> QED
    BY <2>2
<1>2. ASSUME NEW m \in T PROVE m + 1 \in T
  <2>1. PICK f : IsOf(f, k, g, m)
    OBVIOUS
  <2>2. m \in Nat /\ m + 1 \in Nat /\ m + 1 - 1 = m
    OBVIOUS
  <2>3. f[0] = << >> /\ \A i \in 1..m : f[i] = PickOf(f[i - 1], k, g[i])
    BY <2>1, <2>2, OfSteps
  <2> DEFINE z == PickOf(f[m], k, g[m + 1])
             h == [i \in 0..(m + 1) |-> IF i = m + 1 THEN z ELSE f[i]]
  <2> HIDE DEF z, PickOf
  <2>4. h[m + 1] = z /\ \A i \in 0..m : h[i] = f[i]
    BY <2>2
  <2>5. DOMAIN h = 0..(m + 1) /\ h = [i \in 0..(m + 1) |-> h[i]]
    OBVIOUS
  <2> HIDE DEF h
  <2>6. ASSUME NEW i \in 0..(m + 1) PROVE h[i] = IF i = 0 THEN << >> ELSE PickOf(h[i - 1], k, g[i])
    <3>1. CASE i = 0
      <4>1. 0 \in 0..m
        BY <2>2
      <4> QED
        BY <2>3, <2>4, <3>1, <4>1
    <3>2. CASE i = m + 1
      <4>1. i # 0 /\ i - 1 = m /\ m \in 0..m
        BY <2>2, <3>2
      <4>2. h[i - 1] = f[m]
        BY <2>4, <4>1
      <4> QED
        BY <2>4, <3>2, <4>1, <4>2 DEF z
    <3>3. CASE i # 0 /\ i # m + 1
      <4>1. i \in 0..m /\ i - 1 \in 0..m /\ i \in 1..m
        BY <2>2, <3>3
      <4>2. f[i] = PickOf(f[i - 1], k, g[i])
        BY <2>3, <4>1
      <4>3. h[i] = f[i] /\ h[i - 1] = f[i - 1]
        BY <2>4, <4>1
      <4> QED
        BY <3>3, <4>2, <4>3
    <3> QED
      BY <3>1, <3>2, <3>3
  <2>7. IsOf(h, k, g, m + 1)
    BY <2>5, <2>6 DEF IsOf
  <2> QED
    BY <2>2, <2>7
<1>3. T \in SUBSET Nat
  OBVIOUS
<1> HIDE DEF T
<1>4. n \in T
  BY <1>1, <1>2, <1>3, Induction
<1> QED
  BY <1>4 DEF T

OfGood(r, n) == r \in Seq(Items) /\ Len(r) = n /\ \A j \in 1..Len(r) : r[j].id = j

(* One step keeps count. *)
LEMMA PickCounts ==
  ASSUME NEW k, NEW x \in Items, NEW p \in [Nat -> Nat], NEW i \in Nat, i # 0, CountsAt(p, k, i, x),
         NEW r, OfGood(r, p[i - 1])
  PROVE  OfGood(PickOf(r, k, x), p[i])
<1>1. r \in Seq(Items) /\ Len(r) = p[i - 1] /\ \A j \in 1..Len(r) : r[j].id = j
  BY DEF OfGood
<1>2. CASE x.child # k
  <2>1. p[i] = p[i - 1] /\ PickOf(r, k, x) = r
    BY <1>2 DEF CountsAt, PickOf
  <2> QED
    BY <2>1
<1>3. CASE x.child = k
  <2>1. p[i] = p[i - 1] + 1 /\ x.id = p[i]
    BY <1>3 DEF CountsAt
  <2> DEFINE z == Append(r, x)
             n == Len(r)
  <2>2. z \in Seq(Items) /\ Len(z) = n + 1 /\ n \in Nat /\ (\A j \in 1..n : z[j] = r[j]) /\ z[n + 1] = x
    <3>1. r \in Seq(Items)
      BY <1>1
    <3> QED
      BY <3>1, BackGrown
  <2>3. PickOf(r, k, x) = z
    BY <1>3 DEF PickOf
  <2> HIDE DEF z
  <2>4. n = p[i - 1] /\ \A j \in 1..n : r[j].id = j
    BY <1>1
  <2> HIDE DEF n
  <2>5. ASSUME NEW j \in 1..Len(z) PROVE z[j].id = j
    <3>1. CASE j = n + 1
      BY <2>1, <2>2, <2>4, <3>1
    <3>2. CASE j # n + 1
      <4>1. j \in 1..n
        BY <2>2, <3>2
      <4> QED
        BY <2>2, <2>4, <4>1
    <3> QED
      BY <3>1, <3>2
  <2>6. Len(z) = p[i]
    BY <2>1, <2>2, <2>4
  <2> QED
    BY <2>2, <2>3, <2>5, <2>6 DEF OfGood
<1> QED
  BY <1>2, <1>3

(* The function numbers the elements of child k from 1. *)
LEMMA OfCounted ==
  ASSUME NEW n \in Nat, NEW k, NEW g, NEW p, Tally(p, k, g, n), NEW f, IsOf(f, k, g, n),
         \A i \in 1..n : g[i] \in Items
  PROVE  OfGood(f[n], p[n])
<1>1. p \in [Nat -> Nat] /\ p[0] = 0 /\ \A i \in 1..n : CountsAt(p, k, i, g[i])
  BY DEF Tally
<1>2. f[0] = << >> /\ \A i \in 1..n : f[i] = PickOf(f[i - 1], k, g[i])
  BY OfSteps
<1> DEFINE T == {i \in Nat : i <= n => OfGood(f[i], p[i])}
<1>3. 0 \in T
  <2>1. OfGood(<< >>, 0)
    BY DEF OfGood
  <2> QED
    BY <1>1, <1>2, <2>1
<1> HIDE DEF OfGood, PickOf, CountsAt
<1>4. ASSUME NEW i \in T PROVE i + 1 \in T
  <2> DEFINE j == i + 1
  <2>1. i \in Nat /\ j \in Nat /\ j # 0 /\ j - 1 = i /\ (i <= n => OfGood(f[i], p[i]))
    OBVIOUS
  <2>2. j <= n => i <= n /\ j \in 1..n
    BY <2>1
  <2> HIDE DEF j
  <2>3. ASSUME j <= n PROVE OfGood(f[j], p[j])
    <3>1. f[j] = PickOf(f[j - 1], k, g[j]) /\ CountsAt(p, k, j, g[j]) /\ g[j] \in Items
      BY <1>1, <1>2, <2>2, <2>3
    <3>2. OfGood(f[j - 1], p[j - 1])
      BY <2>1, <2>2, <2>3
    <3> DEFINE r == f[j - 1]
               x == g[j]
    <3>3. OfGood(r, p[j - 1]) /\ CountsAt(p, k, j, x) /\ x \in Items /\ f[j] = PickOf(r, k, x)
      BY <3>1, <3>2
    <3> HIDE DEF r, x
    <3> QED
      BY <1>1, <2>1, <3>3, PickCounts
  <2> QED
    BY <2>1, <2>3 DEF j
<1>5. T \in SUBSET Nat
  OBVIOUS
<1> HIDE DEF T
<1>6. n \in T
  BY <1>3, <1>4, <1>5, Induction
<1> QED
  BY <1>6 DEF T

(* The elements of one child are numbered from 1 in the order of Flow, and *)
(* as long as the source exists they are all it was given.                 *)
LEMMA FlowNumbered ==
  ASSUME IInv, NEW k \in Child
  PROVE  /\ \A i \in 1..Len(Flow(k)) : Flow(k)[i].id = i
         /\ Source(k) \notin destroyed => Len(Flow(k)) = fed[k]
<1> DEFINE g == out \o lane
           n == Len(g)
           f == CHOOSE h : h = [i \in 0..n |-> IF i = 0 THEN << >>
                                               ELSE IF g[i].child = k THEN Append(h[i - 1], g[i])
                                               ELSE h[i - 1]]
           e == error_or_value[k]
           b == held[k]
           d == store[k]
           s == Now
           m == Many(s)
           w == Given(s)
<1>1. s \in States /\ Numbered(s, fed)
  BY DEF IInv, Base
<1>2. /\ s.out = out /\ s.lane = lane /\ s.error_or_value = error_or_value /\ s.held = held
      /\ s.store = store /\ s.destroyed = destroyed
  BY NowFields
<1>3. Flow(k) = f[n] \o e \o b \o d
  BY DEF Flow
<1> HIDE DEF s
<1>4. e \in Seq(Items) /\ b \in Seq(Items) /\ d \in Seq(Items) /\ out \in Seq(Items) /\ lane \in Seq(Items)
  BY <1>1, <1>2, StateFields
<1>5. PICK p : Tally(p, k, w, m) /\ Rest(p[m], k, s, fed)
  BY <1>1 DEF Numbered, NumberedOf
<1> HIDE DEF f
<1>6. n = m /\ n \in Nat /\ \A i \in 1..n : g[i] = w[i] /\ g[i] \in Items
  <2> DEFINE x == Len(out)
             y == Len(lane)
  <2>1. x \in Nat /\ y \in Nat
    BY <1>4, LenProperties
  <2>2. n = x + y /\ g \in Seq(Items)
    BY <1>4, ConcatProperties
  <2>3. \A i \in 1..(x + y) : g[i] = IF i <= x THEN out[i] ELSE lane[i - x]
    BY <1>4, ConcatProperties
  <2>4. \A i \in 1..n : g[i] \in Items
    BY <2>2, ElementOfSeq
  <2>5. m = x + y
    BY <1>2 DEF Many
  <2>6. w = [i \in Nat |-> IF i <= x THEN out[i] ELSE lane[i - x]]
    BY <1>2 DEF Given
  <2> HIDE DEF x, y, g, n, m, w
  <2>7. \A i \in 1..n : g[i] = w[i]
    BY <2>1, <2>2, <2>3, <2>6
  <2> QED
    BY <2>1, <2>2, <2>4, <2>5, <2>7
<1> HIDE DEF g, n, m, w, e, b, d
<1>7. IsOf(f, k, g, n)
  <2>1. \E h : IsOf(h, k, g, n)
    BY <1>6, OfExists
  <2>2. f = CHOOSE h : IsOf(h, k, g, n)
    BY DEF f, IsOf, PickOf
  <2> QED
    BY <2>1, <2>2
<1>8. Tally(p, k, g, n) /\ Rest(p[n], k, s, fed)
  <2>1. Tally(p, k, w, n) /\ Rest(p[n], k, s, fed)
    BY <1>5, <1>6
  <2> HIDE DEF Rest, CountsAt
  <2> QED
    BY <1>6, <2>1 DEF Tally
<1>9. OfGood(f[n], p[n])
  BY <1>6, <1>7, <1>8, OfCounted
<1> DEFINE a == f[n]
           q == p[n]
<1>10. a \in Seq(Items) /\ Len(a) = q /\ q \in Nat /\ \A j \in 1..Len(a) : a[j].id = j
  BY <1>9, LenProperties DEF OfGood
<1>11. /\ Follow(q, k, e) /\ Follow(q + Len(e), k, b) /\ Follow(q + Len(e) + Len(b), k, d)
       /\ Source(k) \notin destroyed => q + Len(e) + Len(b) + Len(d) = fed[k]
  BY <1>2, <1>8 DEF Rest, e, b, d
<1> HIDE DEF a, q
<1> DEFINE a1 == a \o e
           a2 == a1 \o b
           a3 == a2 \o d
<1>12. a1 \in Seq(Items) /\ Len(a1) = q + Len(e) /\ \A i \in 1..Len(a1) : a1[i].id = i
  <2>1. \A i \in 1..Len(e) : e[i].id = Len(a) + i
    BY <1>10, <1>11 DEF Follow
  <2>2. a1 \in Seq(Items) /\ Len(a1) = Len(a) + Len(e) /\ \A i \in 1..Len(a1) : a1[i].id = i
    BY <1>4, <1>10, <2>1, FlowGrows, ZenonT(30)
  <2> HIDE DEF a1
  <2> QED
    BY <1>10, <2>2
<1> HIDE DEF a1
<1>13. a2 \in Seq(Items) /\ Len(a2) = q + Len(e) + Len(b) /\ \A i \in 1..Len(a2) : a2[i].id = i
  <2>1. \A i \in 1..Len(b) : b[i].id = Len(a1) + i
    BY <1>11, <1>12 DEF Follow
  <2>2. a2 \in Seq(Items) /\ Len(a2) = Len(a1) + Len(b) /\ \A i \in 1..Len(a2) : a2[i].id = i
    BY <1>4, <1>12, <2>1, FlowGrows, ZenonT(30)
  <2> HIDE DEF a2
  <2> QED
    BY <1>12, <2>2
<1> HIDE DEF a2
<1>14. a3 \in Seq(Items) /\ Len(a3) = q + Len(e) + Len(b) + Len(d) /\ \A i \in 1..Len(a3) : a3[i].id = i
  <2>1. \A i \in 1..Len(d) : d[i].id = Len(a2) + i
    BY <1>11, <1>13 DEF Follow
  <2>2. a3 \in Seq(Items) /\ Len(a3) = Len(a2) + Len(d) /\ \A i \in 1..Len(a3) : a3[i].id = i
    BY <1>4, <1>13, <2>1, FlowGrows, ZenonT(30)
  <2> HIDE DEF a3
  <2> QED
    BY <1>13, <2>2
<1>15. Flow(k) = a3
  BY <1>3, Zenon DEF a3, a2, a1, a
<1> HIDE DEF a3
<1> QED
  BY <1>11, <1>14, <1>15

(* For any number of children, lanes and limits: what one child was given  *)
(* is never lost, doubled or reordered on its way through the merge node   *)
(* (Appendage::childHasFired, getResult).                                  *)
THEOREM ElementsConserved == Spec => []Conservation
<1>1. IInv => Conservation
  BY FlowNumbered DEF Conservation
<1> QED
  BY <1>1, Invariance, PTL
=============================================================================
