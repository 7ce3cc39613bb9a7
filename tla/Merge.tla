-------------------------------- MODULE Merge --------------------------------
(***************************************************************************)
(* A MergeConveyor on an event loop (async.h, async.tmpl.h): conveyors are *)
(* attached to a merge node, which takes their elements in turn and passes *)
(* them up in one lane, into a sink or through a buffer into a sink.       *)
(*                                                                         *)
(* A child is a source (AdaptConveyorNode or ImmediateConveyorNode) or a   *)
(* buffer above an AdaptConveyorNode.  Between a child and the merge node  *)
(* is an Appendage, which holds one element at most.                       *)
(*                                                                         *)
(* As in ConveyorChain a step is one call of the user or one turn() of the *)
(* loop, and every handler is an operator from state to state.             *)
(***************************************************************************)
EXTENDS EventLoop, Integers, Sequences, SequencesExt

CONSTANTS Child,        \* 1..n: the conveyors that may be attached
          ChildKinds,   \* what a child can be: "adapt", "buffered", "immediate"
          ChildLimit,   \* limit of a child's buffer
          LaneLimits,   \* limits of the buffer above the merge node; 0: there is none
          Kinds,        \* kinds of elements given to a feeder
          MaxFeed       \* bound: calls of feed() and fail() on each child

MaxChild == Cardinality(Child)

(* The nodes are events of the loop. *)
Source(k) == k
ChildBuffer(k) == MaxChild + k
Merger == 0
Lane == -1
SinkNode == -2

ASSUME MergeAssumption ==
    /\ MaxChild \in Nat /\ Child = 1..MaxChild
    /\ Event = 1..(2 * MaxChild) \cup {Merger, Lane, SinkNode}
    /\ ChildKinds \subseteq {"adapt", "buffered", "immediate"}
    /\ ChildLimit \in Nat \ {0} /\ LaneLimits \subseteq Nat /\ MaxFeed \in Nat

VARIABLES kind,            \* what each child is
          limit,           \* limit of the lane's buffer, 0: there is none
          store,           \* storage of each source
          held,            \* storage of each child's buffer
          appendages,      \* children in the order in which they were attached
          error_or_value,  \* what the appendage of each child holds
          next_appendage,
          top,             \* parent of the merge node: "none", or the lane is "built"
          lane,            \* storage of the lane's buffer
          out,             \* what the sink or the user got
          destroyed,       \* nodes that do not exist any more
          fed,             \* number of elements put into each child
          turn,            \* history: changed by every turn() of the loop
          passed,          \* history: how often others were taken while it held one
          aborted,         \* an assertion failed
          cut              \* a node was destroyed with later_insert_point in it

vars == <<loop, kind, limit, store, held, appendages, error_or_value, next_appendage,
          top, lane, out, destroyed, fed, turn, passed, aborted, cut>>

Now == [loop |-> loop, store |-> store, held |-> held, error_or_value |-> error_or_value,
        next_appendage |-> next_appendage, lane |-> lane, out |-> out,
        destroyed |-> destroyed, passed |-> passed, aborted |-> aborted, cut |-> cut]

Become(s) == /\ loop' = s.loop /\ store' = s.store /\ held' = s.held
             /\ error_or_value' = s.error_or_value
             /\ next_appendage' = s.next_appendage
             /\ lane' = s.lane /\ out' = s.out /\ destroyed' = s.destroyed
             /\ passed' = s.passed /\ aborted' = s.aborted /\ cut' = s.cut

-----------------------------------------------------------------------------
Element(k, n, what) == [child |-> k, id |-> n, kind |-> what]
isCritical(x) == x.kind = "critical"

Attached(k) == k \in Range(appendages)

(* Queues of the merge node and of the appendages. *)
queued(s) == {k \in Range(appendages) : s.error_or_value[k] # << >>}

(* space() of the merge node's parent. *)
LaneSpace(s) == IF limit = 0 THEN 1 ELSE limit - Len(s.lane)

(* Destructors of nodes, one after the other: the events are disarmed.     *)
(* disarm() leaves later_insert_point where it is.                         *)
Destroyed(s, order) ==
    [s EXCEPT !.loop = FoldLeft(DoDisarm, @, order),
              !.cut = @ \/ s.loop.laterInsert \in Range(order),
              !.destroyed = @ \cup Range(order)]

(* The merge node owns its appendages, and each of them its child.  A      *)
(* conveyor that was not attached is still the user's.                     *)
Merged == LET n == Len(appendages) IN
          [i \in 1..(2 * n + 1) |-> IF i <= n THEN Source(appendages[i])
                                   ELSE IF i <= 2 * n THEN ChildBuffer(appendages[i - n])
                                   ELSE Merger]

MergeGone(s) == Destroyed(s, Merged)

-----------------------------------------------------------------------------
(* Fault: the search starts from the first appendage every time. *)
ServedFirst(s) ==
    LET n == Len(appendages)
        filled == {i \in 1..n : appendages[i] \in queued(s)}
    IN CHOOSE i \in filled : \A j \in filled : i <= j

(* The position of the appendage that getResult() takes from: the first    *)
(* filled one from next_appendage on, then from the start.                 *)
Served(s) ==
    LET n == Len(appendages)
        filled == {i \in 1..n : appendages[i] \in queued(s)}
        ahead == {i \in filled : i > s.next_appendage}
        from == IF ahead # {} THEN ahead ELSE filled
    IN CHOOSE i \in from : \A j \in from : i <= j

(* Fault: the appendage keeps its element. *)
TakenStays(s) == [s EXCEPT !.next_appendage = Served(s)]

(* MergeConveyorNode::getResult: the element and the state after it.       *)
(* Nobody tells the child of the appendage that there is space.            *)
Result(s) == LET i == Served(s) IN s.error_or_value[appendages[i]][1]

Taken(s) ==
    LET i == Served(s) IN
    [s EXCEPT !.error_or_value[appendages[i]] = << >>,
              !.next_appendage = i,
              !.passed = [k \in Child |-> IF k = appendages[i] \/ k \notin queued(s)
                                          THEN 0 ELSE @[k] + 1]]

(* childHasFired() of the merge node's parent, a sink or a buffer. *)
LaneChildHasFired(s) ==
    LET x == Result(s) IN
    IF limit = 0
    THEN [Taken(s) EXCEPT !.out = Append(@, x),
                          !.loop = IF isCritical(x) THEN DoArmLast(@, SinkNode) ELSE @]
    ELSE IF LaneSpace(s) = 0 THEN s
    ELSE [Taken(s) EXCEPT !.lane = Append(@, x), !.loop = DoArmLater(@, Lane)]

(* MergeConveyorNode::fire *)
MergerFire(s) ==
    IF queued(s) = {} THEN [s EXCEPT !.aborted = TRUE]
    ELSE IF top = "none" THEN s
    ELSE LET t == LaneChildHasFired(s) IN
         IF queued(t) # {} /\ LaneSpace(t) > 0
         THEN [t EXCEPT !.loop = DoArmLater(@, Merger)] ELSE t

(* Fault: room in the lane does not start the merge node again. *)
MergerParentHasFiredIgnores(s) == s

(* MergeConveyorNode::parentHasFired *)
MergerParentHasFired(s) ==
    IF queued(s) # {} /\ LaneSpace(s) > 0
    THEN [s EXCEPT !.loop = DoArmLater(@, Merger)] ELSE s

(* The lane's buffer forgets its child_storage when it gets a critical     *)
(* error.                                                                  *)
LaneEnds(s) == \E i \in 1..Len(s.lane) : isCritical(s.lane[i])

(* QueueBufferConveyorNode::fire of the lane, below a sink. *)
LaneFire(s) ==
    LET x == Head(s.lane)
        dropped == IF s.lane # << >> /\ isCritical(x) THEN MergeGone(s) ELSE s
        given == IF s.lane = << >> THEN dropped
                 ELSE [dropped EXCEPT !.lane = Tail(@), !.out = Append(@, x),
                          !.loop = IF isCritical(x) THEN DoArmLast(@, SinkNode) ELSE @]
        rearmed == IF given.lane # << >> THEN [given EXCEPT !.loop = DoArmLater(@, Lane)]
                   ELSE given
    IN IF LaneSpace(s) = 0 /\ ~LaneEnds(s) /\ Merger \notin rearmed.destroyed
       THEN MergerParentHasFired(rearmed) ELSE rearmed

-----------------------------------------------------------------------------
(* The element a child has ready.  An adapt node without one makes a       *)
(* critical error.                                                         *)
ChildResult(s, k) ==
    LET from == IF kind[k] = "buffered" THEN s.held[k] ELSE s.store[k] IN
    IF from = << >> THEN Element(k, 0, "critical") ELSE Head(from)

ChildPopped(s, k) ==
    IF kind[k] = "buffered" THEN [s EXCEPT !.held[k] = Tail(@)]
    ELSE IF s.store[k] = << >> THEN s
    ELSE [s EXCEPT !.store[k] = Tail(@)]

(* MergeConveyorNode::Appendage::childHasFired *)
AppendageChildHasFired(s, k) ==
    IF s.error_or_value[k] # << >> THEN [s EXCEPT !.aborted = TRUE]
    ELSE [ChildPopped(s, k) EXCEPT !.error_or_value[k] = <<ChildResult(s, k)>>,
                                   !.loop = DoArmLater(@, Merger)]

(* QueueBufferConveyorNode::childHasFired of a child's buffer. *)
BufferChildHasFired(s, k) ==
    IF Len(s.held[k]) = ChildLimit THEN s
    ELSE [s EXCEPT !.held[k] = Append(@, Head(s.store[k])),
                   !.store[k] = Tail(@),
                   !.loop = DoArmLater(@, ChildBuffer(k))]

(* fire() of a source.  Without a parent it does nothing. *)
SourceFire(s, k) ==
    IF kind[k] # "buffered" /\ ~Attached(k) THEN s
    ELSE LET t == IF kind[k] = "buffered" THEN BufferChildHasFired(s, k)
                  ELSE AppendageChildHasFired(s, k) IN
         IF t.store[k] = << >> THEN t
         ELSE IF kind[k] = "immediate"
         THEN IF t.error_or_value[k] = << >> THEN [t EXCEPT !.loop = DoArmLast(@, k)] ELSE t
         ELSE [t EXCEPT !.loop = DoArmLater(@, k)]

(* fire() of a child's buffer: a critical error at its front destroys the  *)
(* source; an adapt node need not be told of space.                        *)
ChildBufferFire(s, k) ==
    LET dropped == IF s.held[k] # << >> /\ isCritical(Head(s.held[k]))
                   THEN Destroyed(s, <<Source(k)>>) ELSE s
    IN IF ~Attached(k) \/ s.held[k] = << >> THEN dropped
       ELSE LET t == AppendageChildHasFired(dropped, k) IN
            IF t.held[k] # << >> /\ t.error_or_value[k] = << >>
            THEN [t EXCEPT !.loop = DoArmLater(@, ChildBuffer(k))] ELSE t

fire(s, e) ==
    CASE e = Merger   -> MergerFire(s)
      [] e = Lane     -> LaneFire(s)
      [] e = SinkNode -> Destroyed(MergeGone(s), <<Lane>>)
      [] e \in Child  -> SourceFire(s, e)
      [] OTHER        -> ChildBufferFire(s, e - MaxChild)

-----------------------------------------------------------------------------
(* The children are still the user's.  An immediate one was made of a      *)
(* value or of an error, and gives "Exhausted" after it.                   *)
Init == /\ LoopInit
        /\ kind \in [Child -> ChildKinds]
        /\ limit \in LaneLimits
        /\ \E what \in [Child -> Kinds] :
              store = [k \in Child |-> IF kind[k] = "immediate"
                         THEN <<Element(k, 1, what[k]), Element(k, 2, "critical")>>
                         ELSE << >>]
        /\ turn = FALSE
        /\ fed = [k \in Child |-> Len(store[k])]
        /\ held = [k \in Child |-> << >>]
        /\ appendages = << >>
        /\ error_or_value = [k \in Child |-> << >>]
        /\ next_appendage = 0
        /\ top = "none" /\ lane = << >> /\ out = << >>
        /\ destroyed = {}
        /\ passed = [k \in Child |-> 0]
        /\ aborted = FALSE /\ cut = FALSE

Feed(k, what) ==
    /\ kind[k] # "immediate" /\ Source(k) \notin destroyed /\ fed[k] < MaxFeed
    /\ fed' = [fed EXCEPT ![k] = @ + 1]
    /\ store' = [store EXCEPT ![k] = Append(@, Element(k, fed[k] + 1, what))]
    /\ loop' = DoArmNext(loop, Source(k))
    /\ UNCHANGED <<kind, limit, held, appendages, error_or_value, next_appendage, top,
                   lane, out, destroyed, turn, passed, aborted, cut>>

(* Conveyor::merge, MergeConveyor::attach: a child that holds something is *)
(* armed (setParent).                                                      *)
Attach(k) ==
    LET node == IF kind[k] = "buffered" THEN ChildBuffer(k) ELSE Source(k)
        waiting == IF kind[k] = "buffered" THEN held[k] ELSE store[k] IN
    /\ ~Attached(k) /\ Merger \notin destroyed
    /\ appendages' = Append(appendages, k)
    /\ loop' = IF waiting # << >> THEN DoArmLater(loop, node) ELSE loop
    /\ UNCHANGED <<kind, limit, store, held, error_or_value, next_appendage, top, lane,
                   out, destroyed, fed, turn, passed, aborted, cut>>

(* attach() when the merge node is gone: the weak pointer to its data      *)
(* cannot be locked.                                                       *)
AttachGone(k) ==
    /\ ~Attached(k) /\ Merger \in destroyed
    /\ aborted' = TRUE
    /\ UNCHANGED <<loop, kind, limit, store, held, appendages, error_or_value,
                   next_appendage, top, lane, out, destroyed, fed, turn, passed, cut>>

(* sink(), or buffer(limit).sink(), on the conveyor that merge() returned. *)
BuildLane ==
    /\ top = "none" /\ appendages # << >> /\ Merger \notin destroyed
    /\ top' = "built"
    /\ loop' = IF queued(Now) # {} THEN DoArmLater(loop, Merger) ELSE loop
    /\ UNCHANGED <<kind, limit, store, held, appendages, error_or_value, next_appendage,
                   lane, out, destroyed, fed, turn, passed, aborted, cut>>

(* take() on that conveyor instead. *)
Take == /\ top = "none" /\ queued(Now) # {} /\ Merger \notin destroyed
        /\ Become([Taken(Now) EXCEPT !.out = Append(@, Result(Now))])
        /\ UNCHANGED <<kind, limit, appendages, top, fed, turn>>

(* The user lets go of that conveyor, or of the sink, with all below it.   *)
(* He keeps the MergeConveyor.                                             *)
DropMerged == /\ top = "none" /\ appendages # << >> /\ Merger \notin destroyed
              /\ Become(MergeGone(Now))
              /\ UNCHANGED <<kind, limit, appendages, top, fed, turn>>

DropSink == /\ top = "built" /\ SinkNode \notin destroyed
            /\ Become(Destroyed(MergeGone(Now), <<Lane, SinkNode>>))
            /\ UNCHANGED <<kind, limit, appendages, top, fed, turn>>

Fire == /\ loop.link[HeadSlot] # Null
        /\ Become(fire([Now EXCEPT !.loop = DoTurn(loop)], loop.link[HeadSlot]))
        /\ turn' = ~turn
        /\ UNCHANGED <<kind, limit, appendages, top, fed>>

Next == /\ ~aborted
        /\ \/ \E k \in Child : \/ Attach(k) \/ AttachGone(k)
                              \/ \E what \in Kinds : Feed(k, what)
           \/ BuildLane
           \/ Take
           \/ DropMerged \/ DropSink
           \/ Fire

Spec == Init /\ [][Next]_vars

(* turnLoop() turns while there is a head.  Only Fire changes turn, and it *)
(* always does, also when an event arms itself again and nothing else      *)
(* changes.                                                                *)
FairSpec == Spec /\ WF_turn(~aborted /\ loop.link[HeadSlot] # Null /\ turn' = ~turn)

-----------------------------------------------------------------------------
(* Everything a child was given, from the oldest to the youngest: what     *)
(* the merge node took of it, and what is still below.                     *)
Flow(k) == LET given == out \o lane
               of[i \in 0..Len(given)] ==
                  IF i = 0 THEN << >>
                  ELSE IF given[i].child = k THEN Append(of[i - 1], given[i])
                  ELSE of[i - 1]
           IN of[Len(given)] \o error_or_value[k] \o held[k] \o store[k]

(* What came from one child is never lost, doubled or overtaken by a later *)
(* element of the same child, however the children and the lane interleave *)
(* (Appendage::childHasFired, getResult).                                  *)
Conservation ==
    \A k \in Child :
        /\ \A i \in 1..Len(Flow(k)) : Flow(k)[i].id = i
        /\ Source(k) \notin destroyed => Len(Flow(k)) = fed[k]

(* Every appendage has its turn: while it holds an element fewer elements  *)
(* than there can be children are taken from others, whoever is fed most   *)
(* and whenever further conveyors are attached (next_appendage).           *)
RoundRobin == \A k \in Child : passed[k] < MaxChild

(* The merge node does not sleep on a full appendage: it is armed, or the  *)
(* lane is full and will tell it, or the lane ends with a critical error   *)
(* (fire, parentHasFired, setParent).                                      *)
NoLostWakeup ==
    queued(Now) # {} /\ top = "built" /\ ~aborted /\ Merger \notin destroyed =>
        \/ IsArmed(loop, Merger)
        \/ LaneSpace(Now) = 0 /\ IsArmed(loop, Lane)
        \/ LaneEnds(Now)

(* What reached an appendage, and what an adapt node holds below one,      *)
(* comes out in the end.  (A buffer or an immediate node below an          *)
(* appendage is told nothing when there is room again: getResult.)         *)
MergeDrains ==
    top = "built" ~>
        \/ aborted \/ cut \/ Merger \in destroyed
        \/ \A k \in Range(appendages) :
              error_or_value[k] = << >> /\ (kind[k] = "adapt" => store[k] = << >>)

(* No assertion of the merge node or of an appendage fails, as long as     *)
(* nobody attaches to a merge node that is gone.                           *)
NoAssertionFails == aborted => Merger \in destroyed
=============================================================================
