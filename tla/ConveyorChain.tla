---------------------------- MODULE ConveyorChain ----------------------------
(***************************************************************************)
(* One conveyor chain on an event loop (async.h, async.tmpl.h, async.cpp): *)
(* a source (AdaptConveyorNode with its feeder, or ImmediateConveyorNode), *)
(* buffers (QueueBufferConveyorNode) and at the top either nothing, so     *)
(* that the user take()s, or a SinkConveyorNode.                           *)
(*                                                                         *)
(* Nodes are numbered upwards from the source, node i + 1 owns node i and  *)
(* is its `parent`.  Every retrieval passes a then() (ConvertConveyorNode) *)
(* whose function throws on elements of kind "throws".                     *)
(*                                                                         *)
(* A step is one call of the user or one turn() of the loop.  turn() calls *)
(* fire(), which calls into the neighbours and arms events on the way, so  *)
(* each handler is an operator from a state s to the state after it; Now   *)
(* is the state as such a record.                                          *)
(*                                                                         *)
(* A destroyed node's memory is gone, but the loop may still point into it *)
(* (see cut).  What is stored through such a pointer is never found again. *)
(*                                                                         *)
(* Operators marked Fault are in no specification (see EventLoop).         *)
(***************************************************************************)
EXTENDS EventLoop, Integers, Sequences, SequencesExt

CONSTANTS MaxNodes,   \* bound: the length of the chain
          MaxFeed,    \* bound: calls of feed() and fail()
          Sources,    \* kinds of source: "adapt", "immediate"
          Caps,       \* limits given to buffer() on a chain with a source of each kind
          Kinds,      \* kinds of elements given to the feeder
          TakeFrom    \* the user calls take() on chains of at least this length

ASSUME ChainAssumption == /\ MaxNodes \in Nat \ {0} /\ MaxFeed \in Nat
                          /\ Sources \subseteq {"adapt", "immediate"}
                          /\ Caps \in [Sources -> SUBSET (Nat \ {0})]
                          /\ Kinds \subseteq {"value", "throws", "recoverable", "critical"}

Node == 1..MaxNodes
Daemon == 0                  \* EventLoop::daemon_sink, an Event too

ASSUME EventAssumption == Event = Node \cup {Daemon}

VARIABLES nodes,          \* kind and limit of the nodes built so far
          store,          \* storage of each node
          child,          \* child # nullptr
          child_storage,  \* child_storage # nullptr
          alive,          \* nodes not destroyed
          conveyor_sink,  \* the sink is known to the daemon
          delete_nodes,   \* the daemon has the sink in delete_nodes
          out,            \* elements that came out at the top
          fed,            \* number of elements put in
          turn,           \* history: changed by every turn() of the loop
          aborted,        \* an assertion failed, or an empty queue was popped
          cut             \* a node was destroyed with later_insert_point in it

vars == <<loop, nodes, store, child, child_storage, alive, conveyor_sink,
          delete_nodes, out, fed, turn, aborted, cut>>

Now == [loop |-> loop, store |-> store, child |-> child,
        child_storage |-> child_storage, alive |-> alive,
        conveyor_sink |-> conveyor_sink, delete_nodes |-> delete_nodes,
        out |-> out, aborted |-> aborted, cut |-> cut]

Become(s) == /\ loop' = s.loop
             /\ store' = s.store
             /\ child' = s.child
             /\ child_storage' = s.child_storage
             /\ alive' = s.alive
             /\ conveyor_sink' = s.conveyor_sink
             /\ delete_nodes' = s.delete_nodes
             /\ out' = s.out
             /\ aborted' = s.aborted
             /\ cut' = s.cut

-----------------------------------------------------------------------------
Top == Len(nodes)
HasParent(i) == i < Top
IsSink(i) == nodes[i].kind \in {"sink", "detached"}

Element(n, kind) == [id |-> n, kind |-> kind]

(* Fault: every error is critical. *)
isAnyError(x) == x.kind \in {"critical", "recoverable"}

isCritical(x) == x.kind = "critical"

(* ConvertConveyorNode::getImpl: a throwing function makes a critical error, *)
(* errors are propagated.                                                   *)
getImpl(x) == IF x.kind = "throws" THEN [x EXCEPT !.kind = "critical"] ELSE x

(* space(), asked of parents only. *)
space(s, i) == IF IsSink(i) THEN 1 ELSE nodes[i].limit - Len(s.store[i])

(* getResult() of a source with nothing to give is a critical error. *)
getResult(s, i) == IF s.store[i] = << >> THEN Element(0, "critical")
                   ELSE getImpl(Head(s.store[i]))

(* Fault: the element stays. *)
PoppedNothing(s, i) == s

(* The state after getResult(); std::queue::pop on an empty queue is        *)
(* undefined.                                                              *)
Popped(s, i) ==
    IF s.store[i] # << >> THEN [s EXCEPT !.store[i] = Tail(@)]
    ELSE [s EXCEPT !.aborted = @ \/ nodes[i].kind = "buffer"]

(* The destructors of the nodes below i, the deepest one first: each event *)
(* is disarmed and its parent unlinked.                                    *)
Destroyed(s, i) ==
    LET below == 1..(i - 1) IN
    [s EXCEPT !.loop = FoldLeft(DoDisarm, @, [k \in below |-> k]),
              !.cut = @ \/ s.loop.laterInsert \in below,
              !.alive = @ \ below,
              !.store = [k \in Node |-> IF k \in below THEN << >> ELSE @[k]],
              !.child = [k \in Node |-> @[k] /\ k > i],
              !.child_storage = [k \in Node |-> @[k] /\ k > i]]

(* QueueBufferConveyorNode::childHasFired *)
BufferChildHasFired(s, i) ==
    IF ~(s.child[i] /\ space(s, i) > 0) THEN s
    ELSE LET x == getResult(s, i - 1) IN
         [Popped(s, i - 1) EXCEPT !.store[i] = Append(@, x),
                                  !.child_storage[i] = @ /\ ~isCritical(x),
                                  !.loop = DoArmLater(@, i)]

(* SinkConveyorNode::childHasFired *)
SinkChildHasFired(s, i) ==
    IF ~s.child[i] THEN s
    ELSE LET x == getResult(s, i - 1) IN
         [Popped(s, i - 1) EXCEPT !.out = Append(@, x),
                                  !.loop = IF isCritical(x) THEN DoArmLast(@, i) ELSE @]

childHasFired(s, i) == IF IsSink(i) THEN SinkChildHasFired(s, i)
                       ELSE BufferChildHasFired(s, i)

(* parentHasFired() of a buffer, an immediate node and an adapt node. *)
parentHasFired(s, i) ==
    CASE nodes[i].kind = "buffer" ->
            IF space(s, i + 1) > 0 /\ s.store[i] # << >>
            THEN [s EXCEPT !.loop = DoArmLater(@, i)] ELSE s
      [] nodes[i].kind = "immediate" ->
            IF space(s, i + 1) = 0 THEN [s EXCEPT !.aborted = TRUE]
            ELSE IF s.store[i] # << >> THEN [s EXCEPT !.loop = DoArmNext(@, i)]
            ELSE s
      [] nodes[i].kind = "adapt" -> s

-----------------------------------------------------------------------------
(* fire() of each kind of node. *)

(* Fault: armed again with nothing left. *)
AdaptFireAlwaysArms(s, i) ==
    IF ~HasParent(i) THEN s
    ELSE [childHasFired(s, i + 1) EXCEPT !.loop = DoArmLater(@, i)]

AdaptFire(s, i) ==
    IF ~HasParent(i) THEN s
    ELSE LET t == childHasFired(s, i + 1) IN
         IF t.store[i] # << >> THEN [t EXCEPT !.loop = DoArmLater(@, i)] ELSE t

ImmediateFire(s, i) ==
    IF ~HasParent(i) THEN s
    ELSE LET t == childHasFired(s, i + 1) IN
         IF t.store[i] # << >> /\ space(t, i + 1) > 0
         THEN [t EXCEPT !.loop = DoArmLast(@, i)] ELSE t

(* A critical error at the front destroys the child before it moves on. *)
ChildDropped(s, i) ==
    IF s.child[i] /\ s.store[i] # << >> /\ isCritical(Head(s.store[i]))
    THEN Destroyed(s, i) ELSE s

(* The parent takes an element, and the node stays armed if it can go on. *)
PassedUp(s, i) ==
    IF ~HasParent(i) THEN s
    ELSE LET t == childHasFired(s, i + 1) IN
         IF t.store[i] # << >> /\ space(t, i + 1) > 0
         THEN [t EXCEPT !.loop = DoArmLater(@, i)] ELSE t

(* Fault: the space is asked for after the parent has taken. *)
QueueBufferFireAsksLate(s, i) ==
    LET passed == PassedUp(ChildDropped(s, i), i) IN
    IF passed.child_storage[i] /\ space(passed, i) = 0
    THEN parentHasFired(passed, i - 1) ELSE passed

(* A node that was full tells its child. *)
QueueBufferFire(s, i) ==
    LET dropped == ChildDropped(s, i)
        passed == PassedUp(dropped, i) IN
    IF passed.child_storage[i] /\ space(dropped, i) = 0
    THEN parentHasFired(passed, i - 1) ELSE passed

(* Fault: a sink that reports to the daemon keeps its child. *)
SinkFireKeepsChild(s, i) ==
    IF ~s.conveyor_sink THEN Destroyed(s, i)
    ELSE [s EXCEPT !.loop = DoArmLast(@, Daemon),
                   !.delete_nodes = TRUE,
                   !.conveyor_sink = FALSE]

SinkFire(s, i) ==
    LET t == Destroyed(s, i) IN
    IF ~s.conveyor_sink THEN t
    ELSE [t EXCEPT !.loop = DoArmLast(@, Daemon),
                   !.delete_nodes = TRUE,
                   !.conveyor_sink = FALSE]

(* ConveyorSinks::fire.  std::remove_if leaves the only sink of the list   *)
(* where it is, and nothing is erased.                                     *)
SinksFire(s) == [s EXCEPT !.delete_nodes = FALSE]

fire(s, e) ==
    IF e = Daemon THEN SinksFire(s)
    ELSE CASE nodes[e].kind = "adapt"     -> AdaptFire(s, e)
           [] nodes[e].kind = "immediate" -> ImmediateFire(s, e)
           [] nodes[e].kind = "buffer"    -> QueueBufferFire(s, e)
           [] IsSink(e)                   -> SinkFire(s, e)

-----------------------------------------------------------------------------
(* An immediate node gives the value or the error it was made of once and  *)
(* "Exhausted" once.  queued() is the length of the storage, up to one.    *)
Init == \E source \in Sources, what \in Kinds :
        LET first == IF source = "adapt" THEN << >>
                     ELSE <<Element(1, what), Element(2, "critical")>> IN
        /\ LoopInit
        /\ nodes = <<[kind |-> source, limit |-> 0]>>
        /\ store = [i \in Node |-> IF i = 1 THEN first ELSE << >>]
        /\ child = [i \in Node |-> FALSE]
        /\ child_storage = [i \in Node |-> FALSE]
        /\ alive = {1}
        /\ conveyor_sink = FALSE
        /\ delete_nodes = FALSE
        /\ out = << >>
        /\ fed = Len(first) /\ turn = FALSE
        /\ aborted = FALSE
        /\ cut = FALSE

(* AdaptConveyorFeeder::feed and fail.  Without a feedee they do nothing. *)
Feed(kind) == /\ nodes[1].kind = "adapt"
              /\ 1 \in alive
              /\ fed < MaxFeed
              /\ fed' = fed + 1
              /\ store' = [store EXCEPT ![1] = Append(@, Element(fed + 1, kind))]
              /\ loop' = DoArmNext(loop, 1)
              /\ UNCHANGED <<nodes, child, child_storage, alive, conveyor_sink,
                             delete_nodes, out, turn, aborted, cut>>

(* ConveyorEventStorage::setParent on the top node: it is armed later if   *)
(* it holds something (the new node is empty and has space).               *)
setParent(q) == IF store[Top] # << >> THEN DoArmLater(q, Top) ELSE q

(* A new node takes the chain over; Top' is its number. *)
Build(kind, limit) ==
    /\ Top \in alive /\ Top < MaxNodes /\ ~IsSink(Top)
    /\ nodes' = Append(nodes, [kind |-> kind, limit |-> limit])
    /\ child' = [child EXCEPT ![Top + 1] = TRUE]
    /\ child_storage' = [child_storage EXCEPT ![Top + 1] = TRUE]
    /\ alive' = alive \cup {Top + 1}
    /\ conveyor_sink' = (kind = "detached")
    /\ loop' = setParent(loop)
    /\ UNCHANGED <<store, delete_nodes, out, fed, turn, aborted, cut>>

Buffer(limit) == Build("buffer", limit)
Sink == Build("sink", 0)
Detach == Build("detached", 0)

(* Conveyor::take.  With nothing queued it returns an error. *)
Take == /\ Top \in alive /\ ~IsSink(Top) /\ Top >= TakeFrom
        /\ store[Top] # << >>
        /\ Become([Popped(Now, Top) EXCEPT !.out = Append(@, getResult(Now, Top))])
        /\ UNCHANGED <<nodes, fed, turn>>

(* The user lets go of the conveyor or of the SinkConveyor. *)
Drop == /\ Top \in alive /\ nodes[Top].kind # "detached"
        /\ Become(Destroyed(Now, Top + 1))
        /\ UNCHANGED <<nodes, fed, turn>>

(* EventLoop::turn *)
Fire == /\ loop.link[HeadSlot] # Null
        /\ Become(fire([Now EXCEPT !.loop = DoTurn(loop)], loop.link[HeadSlot]))
        /\ turn' = ~turn
        /\ UNCHANGED <<nodes, fed>>

Next == /\ ~aborted
        /\ \/ \E kind \in Kinds : Feed(kind)
           \/ \E limit \in Caps[nodes[1].kind] : Buffer(limit)
           \/ Sink
           \/ Detach
           \/ Take
           \/ Drop
           \/ Fire

Spec == Init /\ [][Next]_vars

(* turnLoop() turns while there is a head.  Only Fire changes turn, and it *)
(* always does, also when an event arms itself again and nothing else      *)
(* changes.                                                                *)
FairSpec == Spec /\ WF_turn(~aborted /\ loop.link[HeadSlot] # Null /\ turn' = ~turn)

-----------------------------------------------------------------------------
(* An element's number and its kind; number 0 is an error for want of one. *)
Elements == [id : 0..MaxFeed \cup 0..2, kind : Kinds \cup {"value", "critical"}]

(* The state of the nodes and of the loop; the top node is the last one    *)
(* built, and only nodes that were built are alive.                        *)
TypeOK == /\ loop \in Queues
          /\ nodes \in Seq([kind : {"adapt", "immediate", "buffer", "sink", "detached"},
                            limit : Nat])
          /\ Top \in Node
          /\ store \in [Node -> Seq(Elements)]
          /\ child \in [Node -> BOOLEAN]
          /\ child_storage \in [Node -> BOOLEAN]
          /\ alive \subseteq 1..Top
          /\ \A b \in {conveyor_sink, delete_nodes, aborted, cut} : b \in BOOLEAN
          /\ out \in Seq(Elements)
          /\ fed \in Nat

(* The user has let go of the whole chain. *)
Dropped == Top \notin alive

(* Everything in the chain from the oldest element to the youngest: what   *)
(* came out, then the storages from the top down.                          *)
Flow == LET upTo[i \in 0..Top] ==
              IF i = 0 THEN out ELSE upTo[i - 1] \o store[Top + 1 - i]
        IN upTo[Top]

(* No element is lost, doubled or overtaken: what came out, followed by    *)
(* the storages from the top down, is what was put in, in its order, and   *)
(* all of it as long as the source lives.  (No limit, no full neighbour,   *)
(* no error changes that.)                                                 *)
Conservation == /\ \A k \in 1..Len(Flow) : Flow[k].id = k
                /\ 1 \in alive => Len(Flow) = fed

(* A node is destroyed only by its owner letting go of the chain or behind *)
(* a critical error that has already passed it: errors that are            *)
(* recoverable never end a chain, and no element in front of the error is  *)
(* destroyed with it.                                                      *)
NoEarlyTeardown ==
    \A i \in 1..Top : i \notin alive /\ ~Dropped =>
        \/ \E k \in 1..Len(out) : out[k].kind = "critical"
        \/ \E j \in (i + 1)..Top : \E k \in 1..Len(store[j]) :
              store[j][k].kind = "critical"

(* No lost wakeup: a node that holds elements and has a parent is armed,   *)
(* or its parent is full and will tell it (child_storage), or a critical   *)
(* error ahead will destroy it.  (A chain the user take()s from is         *)
(* excepted: see TakeGetsAll.)                                             *)
NoLostWakeup ==
    IsSink(Top) \/ out = << >> =>
    \A i \in alive : HasParent(i) /\ store[i] # << >> =>
        \/ IsArmed(loop, i)
        \/ space(Now, i + 1) = 0 /\ child_storage[i + 1]
        \/ \E k \in 1..Len(store[i + 1]) : store[i + 1][k].kind = "critical"

(* No destroyed node can be reached from the loop: not through the list,   *)
(* not through the tail, and not through next_insert_point.  The later     *)
(* point is excepted: see cut.                                             *)
NoDeadEvents ==
    LET live == alive \cup {Daemon, HeadSlot} IN
    /\ \A e \in Event : IsArmed(loop, e) => e \in live
    /\ loop.nextInsert \in live
    /\ loop.tail \in live
    /\ ~cut => loop.laterInsert \in live

(* No assertion of a node fails and no empty std::queue is popped.         *)
(* (ImmediateConveyorNode::parentHasFired asserts "parent->space() > 0".)  *)
NoAssertionFails == ~aborted

(* No source is asked for an element it does not have ("Signal for         *)
(* retrieval of storage sent even though no data is present",              *)
(* AdaptConveyorNode::getResult).                                          *)
RetrievalsHaveData == \A k \in 1..Len(Flow) : Flow[k].id # 0

(* No node is used in a way that it asserts against or makes an error of,  *)
(* in any order of turns.                                                  *)
NoProtocolError == NoAssertionFails /\ RetrievalsHaveData

(* A chain that ends in a sink drains: in the end nothing waits in any     *)
(* storage, however small the buffers are.                                 *)
SinkDrains ==
    IsSink(Top) ~> cut \/ Dropped \/ \A i \in alive : store[i] = << >>

(* A sink that received a critical error destroys everything below it, and *)
(* a detached one reports to the daemon, which handles the report.         *)
TornDown ==
    IsSink(Top) /\ (\E k \in 1..Len(out) : out[k].kind = "critical")
      ~> \/ cut \/ Dropped
         \/ alive = {Top} /\ ~conveyor_sink /\ ~delete_nodes

(* As TornDown, of every behaviour. *)
AlwaysTornDown ==
    IsSink(Top) /\ (\E k \in 1..Len(out) : out[k].kind = "critical")
      ~> Dropped \/ alive = {Top}

(* The user of a chain without a sink gets every element by taking: while  *)
(* something is stored below, the top node will hold an element again.     *)
TakeGetsAll ==
    (\E i \in alive : store[i] # << >>) /\ Top = MaxNodes /\ ~IsSink(Top)
      ~> cut \/ Dropped \/ store[Top] # << >>
         \/ \A i \in alive : store[i] = << >>
=============================================================================
