# A TLA+ verification of forstio

forstio (namespace `saw`) is a C++ framework for asynchronous programs on one
thread: an event loop, chains of processing nodes ("conveyors") that elements
are pushed through, byte buffers, messages with a binary codec, and a Unix
driver that turns epoll reports into elements. This directory holds TLA+
specifications of its core, the TLC configurations that check them on small
instances, and proofs, checked by TLAPS, that hold for instances of any size.

Paths below are relative to the repository; `async.h` and its neighbours are in
`source/forstio/`, `io-unix.*` in `driver/`.

## 1. Inventory

| Part | State | Operations | What makes it correct |
|---|---|---|---|
| **Event, EventLoop** (`async.cpp`, `async.h`) | an intrusive list (`head`, `next`, `prev`), its `tail`, two insertion points | `armNext`, `armLater`, `armLast`, `disarm`, `turn`, `turnLoop` | the pointers stay a list; an event fires once per arming, in the promised order; nothing armed later starves; no pointer into a destroyed event |
| **Conveyor chain** (`async.h`, `async.tmpl.h`) | per node: storage, `child`, `child_storage`, `parent`; it is an event of the loop | `feed`, `fail`, `then`, `buffer`, `sink`, `detach`, `take`, destruction, `fire`, `childHasFired`, `parentHasFired` | no element lost, doubled or overtaken; no lost wakeup between neighbours; only a critical error ends a chain, behind what was fed before it |
| **ConveyorSinks** (`async.cpp` 287-327) | detached sinks, `delete_nodes` | `add`, `destroySinkConveyorNode`, `fire` | a finished detached chain is released |
| **MergeConveyor** (`async.tmpl.h` 82-97, 282-453) | appendages with one slot each, `next_appendage` | `merge`, `attach`, `getResult`, `fire` | no element of an appendage overwritten, every appendage served, the merge node told of room |
| **Buffer, RingBuffer** (`buffer.cpp`) | a vector, two positions, `write_reached_read` | `push`, `pop`, segment and composite lengths, advances | a byte queue; every segment lies in the vector |
| **BufferView, ArrayBuffer** (`buffer.cpp` 83-192, 355-432) | two offsets into another buffer; a vector used once from front to back (`ChainArrayBuffer` is declared only) | the same interface | a view shows what the buffer would show after the same advances |
| **AsyncIoStream, step helpers** (`io.cpp`, `io_helpers.cpp`) | one read and one write task, listeners | `read`, `write`, `readDone`, `writeDone`, `onReadDisconnected`, `readStep`, `writeStep` | a task moves exactly its bytes and ends; no task sleeps on a readable socket |
| **Unix driver** (`io-unix.*`) | epoll, descriptors, signals, pipe | `pollImpl`, `wait`, `wake`, `onSignal`, `notify` of stream, server, datagram | with edge-triggered reports none may be missed; the program sleeps only with nothing to do |
| **StreamingIoPeer** (`io_peer.tmpl.h`) | two ring buffers, a codec | `send`, the read and the write sink | messages arrive whole and in order; memory lent to a stream is left alone; no write is forgotten |
| **Messages** (`message.h`, `message_container.h`, `schema.h`) | a tree of values per message; the index of a union | `init`, `set`, `get`, `resize` of builders and readers | a message is always one of its schema |
| **ProtoKel codec** (`proto_kel.h`, `stream_endian.h`) | none of its own; a view of the buffer while it runs | `encode`, `decode` | decode inverts encode; a partial message leaves the buffer as it was; a packet is never misread as another length |
| **TLS** (`tls/`) | a GnuTLS session | handshake, `read`, `write` | as a stream |
| **Errors, log, timer** | values | | critical, recoverable or none |

How they interact: a driver calls `notify` on the owner of a descriptor, which
feeds a source node; the source arms itself; `turn()` fires it; it calls
`childHasFired` on its parent, which pulls the element with `getResult`, stores
it and arms itself, or, being a sink, is done; a buffer that was full calls
`parentHasFired` on its child. A critical error that reaches the front of a
buffer destroys the nodes below; one that reaches the sink destroys the chain,
and a detached sink reports to `ConveyorSinks`, itself an event of the loop. A
peer sits on top: it lends memory of its rings to the tasks of an
`AsyncIoStream` and runs the codec on them when the tasks report.

What is hard here: there is one thread, but handlers call into each other and
arm and destroy events while the loop is turning; wakeups between neighbours
depend on whether one of them was full a moment ago; the kernel and the peer
act between any two system calls, and epoll reports each change once.
`PROJECT.json` lists the hazards line by line.

## 2. Modules

| Module | Models |
|---|---|
| `EventLoop` | the run queue, pointer by pointer; `EventLoop_proofs` |
| `EventQueue` | what it promises: a sequence with two insertion positions |
| `EventLoopOrder` | both side by side, with the properties; `EventLoopOrder_proofs` |
| `ConveyorChain` | one chain of nodes on the loop of `EventLoop`; `ConveyorChain_proofs` |
| `Merge` | a merge node with its children and a lane above, on the same loop; `Merge_proofs` |
| `RingBuffer` | the ring and the bulk transfers; `RingBuffer_proofs` |
| `ByteQueue` | what a buffer promises: a bounded queue of bytes |
| `AsyncIo` | one `AsyncIoStream` on a `UnixIoStream` on edge-triggered epoll; `AsyncIo_proofs` |
| `EventPort` | `wait` and `poll` on a port with signals, a server and a datagram socket; `EventPort_proofs` |
| `Messages` | schemas, messages, and what builders and readers do to them |
| `ProtoKel` | the codec on a `BufferView`, as operators |
| `Codec` | two programs that exchange messages with it |
| `IoPeer` | two `StreamingIoPeer`s, their streams and the socket between them; `IoPeer_proofs` |
| `MessageChannel` | what they promise: messages whole, once, in order |
| `MC*` | instances for TLC |

Operators whose comment begins with *Fault* are not part of any specification.
Each is a wrong version of the operator defined after it, a slip one can imagine
in that code; put in its place it makes a property fail, which shows that the
property depends on the code.

### EventLoop, EventQueue, EventLoopOrder

A *slot* stands for the address of an `Event *`: `HeadSlot` is `&loop.head` and
event `e` is `&e->next`. A record `q` holds the contents of the slots (`link`),
`prev` of each event, and the slots that `next_insert_point`,
`later_insert_point` and `tail` hold. `DoArmNext`, `DoArmLater`, `DoArmLast`,
`DoDisarm` and `DoTurn` are the five functions, from record to record, so that
`ConveyorChain` can call several of them within one handler.

`disarm` moves `tail` and `next_insert_point` off the event it removes, but not
`later_insert_point`. `EventLoopOrder` follows the calls up to the first disarm
that leaves it behind (`cut`); `ConveyorChain` goes on from there.

`EventQueue` is the abstract specification. Its variable `queue` is carried
along in `EventLoopOrder`, where `Represents` ties every pointer to it, and
`ImplementsQueue` says that the steps seen on it are steps of `EventQueue`.

### ConveyorChain

Nodes are numbered from the source upwards. A user step builds, feeds, takes or
drops; `Fire` is one `turn()`. As a handler calls its neighbours, each is an
operator from state to state and an action applies the whole of it. All node
types that hold elements are there; `then` and `attach` nodes hold none, and
every retrieval passes through a function that throws on elements of kind
`"throws"` (`getImpl`). Elements carry their number and their kind. An immediate
node is made of an element of any kind: a value, or an error.

When a node is destroyed while `later_insert_point` is in it, later stores go
through a dangling pointer, which is undefined. The model takes the outcome of a
build that does not reuse the memory at once: the store is never found again.
It is recorded in `cut`, and the liveness properties that pass except it.

### RingBuffer

`push` and `pop` of chunks check the composite length once and then copy
segment by segment; an iteration is an action, and `op` is the transfer under
way. `StreamIn` and `StreamOut` are the other users: a stream reads into
`&write()` and then advances. `fifo` is a history variable: the bytes
written and not yet read. `writeAdvance(0)` on a full ring clears the flag, so
that the ring claims to be empty; `wiped` records it and the steps end there.

`ByteQueue` is the abstract specification. `ImplementsByteQueue` is a refinement
with the mapping `mapped`: the bytes read from the vector itself, from
`read_position` on, and not the history variable (except once wiped). A transfer
of several segments is several steps of the queue.

### AsyncIo

The first seven variables are the socket as the kernel keeps it and are modelled
from how the driver uses it: bytes that arrived (`rx`) and bytes that wait to
leave (`tx`), numbered; whether the peer is there; and `edge`, the ready list of
epoll, with the EPOLLET rule: an arrival, an end of file, a reset, or room after
a send that found none, puts the descriptor on it, and `epoll_wait` takes it off
and reports the mask of that moment. The other variables are the fields of
`AsyncIoStream` and its two steppers; `signals` counts the elements in the three
chains between `notify` and the steppers. Each iteration of a stepper's loop is
an action, because peer and kernel act between system calls. The user may
construct the `AsyncIoStream` long after the descriptor was registered, as
happens to accepted connections.

### Merge

Built like `ConveyorChain`, on the same loop. A child is an adapt node, a buffer
above one, or an immediate value or error; it may be fed before it is attached, and be
attached at any time. Between a child and the merge node is an `Appendage` with
room for one element, `error_or_value`. Above is nothing yet (`top = "none"`, the
user may `take`), a sink, or a buffer of `limit` below a sink. `getResult` is
split into the position it serves (`Served`), the element (`Result`) and the
state after it (`Taken`). `aborted` is a failed assertion; the steps end there.
`passed` is history: how often others were served while an appendage waited. With
the merge node the children that were attached are destroyed; the others are still
the user's. The user may drop the merged conveyor (`DropMerged`) or the sink above
it (`DropSink`), and `attach()` to a merge node that is gone fails an assertion
(`AttachGone`).

### EventPort

`pc` is where the one thread of the program is: with the user, in `epoll_wait`,
in the batch, reading signals, turning the loop, or reading datagrams. Each
system call is a step, and connections, datagrams and signals arrive between any
two. `ready` is the ready list of epoll with the EPOLLET rule as in `AsyncIo`;
`signal_fd` is level-triggered and ready while a signal is pending. Conveyor
chains are numbers of elements (`fed`), and `turn()` serves any of them. History
variables record who has to hear of a signal (`owed`), where one of the known
causes leaves something in a socket without a report to come (`missed`), and why
work may wait while the port blocks (`late`). A sleeping `epoll_wait` may fail
(`EpollFails`), which `pollImpl` tells nobody. Nothing ever reaches the pipe of
`wake()`, so that its branch in the batch has no step.

### Messages, ProtoKel, Codec

A schema is a tree of records, a message a tree of numbers, strings and
sequences. Tuples and structs are the same tree, because names are resolved at
compile time. A Builder or a Reader is the path to a place in a message;
`Through` is the message after the reference was taken and used, because
`get<i>()` of a union replaces the alternative that is held, in a Reader too.

`ProtoKel` computes on views: what can be read, how far it was read, what was
written, how much room is left, and the error of the call that failed. Bytes
have `Base` values and lengths a width, so that little-endian numbers of several
bytes occur. The length of an array is handed to `resize` before it is compared
with anything; one beyond `MaxElements` throws, which the model keeps as an error
of its own (`"exception"`) that ends the receiver. The buffer below is the queue
of bytes of `ByteQueue`, which `RingBuffer` is proved to implement.

In `Codec` a sender uses references and encodes, bytes arrive one by one, and a
receiver decodes whenever it likes into one root that it keeps. The sender may
have been built with another schema: one with one alternative more, or with a
wider number.

### IoPeer

A peer that sends and one that receives. The rings are kept with their
positions, because what matters is which memory a task was given: `TasksKeepTheirMemory`
compares the piece of the ring a stream works on with what the ring would hand
out. The streams do what `AsyncIo` shows of them, in portions of any size. The codec
is a parameter, as it is of the template: `encode` and `decode` are constants,
`MCIoPeer` gives them the values of `ProtoKel`, and what the peers rely on is
stated as `EncodeAppends`, `DecodeAdvances` and `DecodeInverts`. `DecodeRound` is
one round of the `while(true)` of the read sink and `DecodeAll` the loop, as
many rounds as there are bytes in the ring and one more, which is all of it
(`DecodeLoopEnds`). `io_peer.tmpl.h` is included by no source and does
not compile (`size_bytes`, `readSegmengtLength`, repeated default arguments,
`return error` from a `void` function); it is modelled as it is meant to read.

## 3. What TLC checks

| Run | Instance | Shows |
|---|---|---|
| `event_loop` | 5 events | all calls in all orders keep the pointers equal to the queue (`Represents`, `ImplementsQueue`); events armed last fire last (`LastFiresLast`); an event armed later is served although others re-arm themselves for ever (`LaterIsServed`) |
| `ring_buffer` | 4 bytes of 2 values, transfers up to 4 | a queue of bytes (`Contents`, `ImplementsByteQueue`), segments inside the vector, exact transfers that end |
| `conveyor` | up to 5 nodes, limits 1 and 2, 3 elements of 4 kinds, both sources | `Conservation`, `NoEarlyTeardown`, `NoLostWakeup`, `NoDeadEvents`, `NoProtocolError`, whatever is built, fed, taken or dropped when; chains with a sink drain (`SinkDrains`) and are torn down (`TornDown`) |
| `merge` | 2 children of 3 kinds, 2 elements each, a sink or a buffer of 1 above | the order of each child is kept (`Conservation`), each has its turn (`RoundRobin`), no lost wakeup, appendages and adapt nodes drain |
| `async_io_safety` | 2 bytes each way, send buffer of 1 | `ReadsAreExact`, `WritesAreExact`, and no report lost to a task that waits (`NoLostSignal`) |
| `async_io_liveness` | 1 byte in, 2 out | waiting tasks are served, listeners hear of the disconnect |
| `event_port` | batches of 2, 2 turns at most, 2 listeners, 2 arrivals | the reasons for which the program sleeps on work (`SleepsOnlyIdle`) or leaves something in a socket (`LeftOnlyIfMissed`) are the named ones, wherever `epoll_wait` fails; signals are told (`SignalsAreTold`) |
| `codec` | 4-valued bytes, lengths of 2 bytes, 3 schemas of the sender, 2 messages | `RoundTrip`, `AcceptedAsSent`, `PartialIsRecoverable` at every cut of every packet |
| `io_peer` | rings of 5 and 6, a socket of 4, 3 messages | memory lent to the streams (`TasksKeepTheirMemory`), refinement of `MessageChannel`, `Delivered`; `MCCodecAssumption`: the codec of `ProtoKel` satisfies what the theorems ask of a codec, on all strings of up to 4 bytes and up to 2 bytes behind a packet |
| `conveyor_teardown_lost`, `conveyor_take_starves`, `merge_assert` | 2 or 3 nodes | the findings of section 5 |

Why the bounds are enough. Five events give every relative position of the two
insertion points, the tail and the event that is removed, with neighbours on
both sides. Four cells let segments wrap, fill the ring and split in two. A
chain of five nodes has buffers with a buffer above and below; a limit of 1
makes each of them full and three elements keep three of them busy at once.
Two children and two elements each are enough for one appendage to be filled
while the other is served, and for a child to fire into a full one; a lane of 1
fills. A send buffer of one byte makes a write of two stop in the middle, a read
of exactly two bytes needs two arrivals or meets the end of file half way.
Batches of two of the three descriptors are full or not, and a limit of two
turns is reached or not. The schema of the codec has every kind of node, and
strings, arrays and alternatives of different sizes; a second packet stands
behind the first when it is decoded. `MaxElements` is 6: arrays of that schema
never reach it, and what a sender with a wider number sends does. The rings of
the peers hold one packet and a half, so that packets wrap and writes take two
segments.

The instances keep away from the findings, as those would end every longer
behaviour: in `conveyor`, chains from a value get buffers of 2 and the user takes
at the full length only. No run checks for deadlock: a chain at rest, a loop
without events or a stream nobody uses may stop, which is why what must happen
is stated as liveness.

Fairness. `turnLoop()` turns as long as there is a head, so turning is weakly
fair (in `ConveyorChain` and `Merge` by way of `turn`, which every turn changes,
as a turn may leave everything else as it was). The loops of `push`, `pop`,
`readStep`, `writeStep`, `pollImpl` and `turnLoop` are plain loops: weakly fair.
In `AsyncIo`, polling and the three chains are strongly fair: the user may do
other things in between, time and again, but a program on this library comes
back to the loop, and the loop serves what was armed; `EventPort` assumes that
the program enters the port again, and does not assume that `epoll_wait` fails.
`IoPeer` assumes of streams and sinks what `AsyncIo` and `EventLoopOrder` show.
Nothing is assumed of the user, the peer or the order of their steps.

## 4. What is proved

The runs look at small instances; the theorems hold for every value of the
constants that the named assumptions admit. All but one (`DecodeLoopEnds`) are
invariance or refinement proofs: an inductive invariant that implies the
property, with one lemma per action or handler.

**The run queue** (`EventLoopOrder_proofs`, from `HeadAssumption` and
`NullAssumption` only: the head and the null pointer are no events).
`ListRepresentsQueue`, `TypeCorrect`, `LastsFireLast`, `LoopImplementsQueue`. The
inductive invariant is `TypeOK /\ Represents /\ LastsBehind`. `Represents` alone
is inductive for the list, but which events are behind the later point is not in
it; `LastsBehind` adds that those are the ones armed with `armLast`. Everything
rests on two facts about lists, `InsertIsList` and `RemoveIsList`: inserting at
the slot of position k, or taking out the k-th event, turns a list of the order
into a list of the new order. Each call is one or the other, and
`PointAfterInsert` and `PointAfterRemove` follow the three pointers.

**The run queue when events are destroyed** (`EventLoop_proofs`; lemmas for the
next two parts). `QueueInv(q, dead)` is what every call keeps when some events are
destroyed and `later_insert_point` may have been left in one of them: the list
is linked both ways and never comes round (`Ordered`, a rank), no destroyed
event is armed, only the later point may be in one, and there is a set `lost` of
events that hang on a destroyed one, apart from what the head leads to
(`Apart`). `ArmNextInv`, `ArmLaterInv`, `ArmLastInv`, `TurnInv` and `DisarmAllInv`
say so of the five calls and of the destructors of a whole chain, and that the
head of a turn is an armed event.

**A conveyor chain** (`ConveyorChain_proofs`, from `ChainAssumption`,
`EventAssumption` and those of the loop; chains of any length, any limits, any
number of elements). `TypeCorrect`, `ElementsConserved`, `NoNodeDiesEarly`,
`NoWakeupIsLost`, `NoDeadEventReached`, `ProtocolKept`: all six invariants of the
run `conveyor`. They carry two hypotheses, which leave out the uses of the
library that section 5 reports as broken, as that run does: `WideEnough`, no
buffer of limit 1 on an immediate node, and `TakenComplete`, nothing is built
above a chain after `take()`. The inductive invariant is
`IInv == Shape /\ Base(Now) /\ Wakeup(Now, {})`:

* `Shape`: a source, buffers, and a sink at most at the top;
* `Base`, which every operator within a handler keeps. `Chained`: what is alive
  is the chain from some node up, `child` and `child_storage` agree with that,
  no storage is beyond its limit. `Numbered`: there are prefix counts p[j], the
  number of elements in storage j and above, and elements are numbered by them;
  a count is what makes `Conservation` inductive, because an element that moves
  changes one count, where `Flow` is one long concatenation. `GivesTwo`: an
  immediate node's second element is critical and its last, so that a buffer it
  has filled has forgotten its `child_storage` and never asks it
  (`ImmediateHasSpace`). `Queued`: `QueueInv`, and
  armed nodes have something to give, so that no empty queue is popped.
  `TornBehind`: every destroyed node has a critical error above it;
* `Wakeup`: nodes with elements are armed or wait for a full parent, and no
  adapt node waits. Within a handler it has exceptions: the node that fires
  (`TakenWakeup`), then its child (`Told`), which `parentHasFired` removes again
  if the node was full before. That is why the space must be asked for before the
  parent takes.

Each handler is a chain of operators on the state record, so there is a lemma for
each operator (`DestroyedBase`, `MoveBase`, `ArmBase`), then for each node's turn
(`SourceFires`, `BufferFires`, `SinkFires`, `DaemonFires`), then for each action.

**A merge node** (`Merge_proofs`, from `MergeAssumption` and those of the loop: any
number of children of all kinds, any limits, a sink or a buffer above).
`ElementsConserved`, `EveryAppendageHasItsTurn`, `NoWakeupIsLost`: all three
invariants of the run `merge`, without further hypotheses. A behaviour ends where
an assertion fails (section 5); the theorems hold up to there and there. The
inductive invariant is `IInv == Frame /\ Base(Now) /\ LaneAwake(Now) /\ MergerAwake(Now)`:

* `Frame`: no child is attached twice, so that there are at most `MaxChild`
  appendages (`FewAppendages`, the pigeonhole principle);
* `Turns`: an appendage that holds an element was passed over so often that its
  distance from `next_appendage` (`Ahead`) still fits below `MaxChild`. The
  distance is measured round `MaxChild` places and not round the appendages there
  are, because one may be attached while another waits. `ServedNext` shows that
  serving the first filled place brings every other filled one nearer;
* `Numbered`: for each child there is a count p[i] of its elements among the
  first i that passed the merge node, its elements are numbered by it, and what
  is in its appendage, buffer and source follows (`Rest`). `Flow` filters a
  concatenation and is not inductive by itself;
* `Owned`: while the merge node exists only sources below a buffer can be
  destroyed, and what it owns goes with it, whoever destroys it (`DropIInv`);
  `Queued`: `QueueInv`, and armed sources have something to give; `Slots`: an
  appendage holds one element at most;
* `LaneAwake` and `MergerAwake`: a lane that holds something is armed, and the
  merge node is armed or waits for it. The first is what makes waiting for a full
  lane safe; the handler of each is entered without its own part and restores it.

**The ring** (`RingBuffer_proofs`, for every size, alphabet and transfer length,
from `SizeAssumption`, `ChunkAssumption` and `ByteAssumption`). `FirstInFirstOut`,
`LengthsAgree`, `SegmentsStayInside`, `TransfersAreExact`, `TypeCorrect`,
`RingImplementsQueue`. The inductive invariant says that the positions are in
range, the flag is set only with equal positions, `fifo` lies in the ring from
`read_position` on, and a transfer under way still has the room or the bytes
that it checked at its start. `CopyInRing` and `CopyOutRing` show that copying a
segment that does not run over the end appends to, or cuts, `fifo`;
`FirstWriteSegment` and `FirstReadSegment` that the segments the code computes
never do. `RingImplementsQueue` is the refinement of `ByteQueue`: by
`FirstInFirstOut` the mapped bytes are `fifo`, and each action appends to it,
cuts its front, or leaves it.

**A stream** (`AsyncIo_proofs`, from `AsyncIoAssumption`: any number of bytes, any
send buffer, all lengths of reads and writes). `TypeCorrect`, `ReadsExact`,
`WritesExact`, `NoSignalIsLost`. The inductive invariant is
`IInv == ReadInv /\ WriteInv /\ SignalInv`. `ReadInv` says that what is in the
socket is a run of consecutive bytes up to the last one received, and what a
pending read holds is the run directly in front of it. `WriteInv` says the same
of what was delivered, what waits in the send buffer and what the task has still
to send. `SignalInv` adds to `NoLostSignal` that only a stream that exists has tasks,
and that the kernel remembers having refused bytes (`nospace`) as long as a
write waits for a full send buffer.

**The port** (`EventPort_proofs`, from `EventPortAssumption`: any batch size, turn
limit and number of listeners). `SleepsIdle`, `NothingElseIsLeft` and
`NoSignalIsLost`: a signal a listener has to hear of is pending in the kernel or
already in that listener's chain. The inductive invariant is
`IInv == Known /\ IdleOrLate`. `Known` has `BatchHandled` (what `epoll_wait` returned
is handled before it is called again, because it replaces `events`), `ServerKnown`,
`DatagramKnown` and `OwedIsOnItsWay`. `IdleOrLate` is stronger than
`SleepsOnlyIdle`: it says of every chain, also before the program blocks, that it
is empty or excused (`Excused`) whenever the user has control or `epoll_wait` is
called. A chain that the user feeds excuses itself only, so that feeding it does
not cover up what the port left.

**Two peers** (`IoPeer_proofs`, from `PeerAssumption`: rings and a socket of any
size, any messages, any number of them). `LentMemoryIsKept`, `PeersImplementChannel`,
`DecodeLoopEnds`. The codec is any that satisfies the hypotheses of the theorem:
`EncodeAppends`, encode puts the packet of the message behind what the buffer holds,
or fails; `DecodeAdvances`, decode fails or takes at least one byte from the front;
`DecodeInverts`, decode gives the message whose packet is in front and takes just
that, and fails on a part of a packet. It may refuse a whole packet, as
`ProtoKel` does beyond `Limits::packet_size`, and may do anything with bytes that
are no packet. The memory needs the first two only, the loop the second. TLC
evaluates the three for `ProtoKel` on short buffers (`MCCodecAssumption`); for all
buffers they are what `RoundTrip` and `PartialIsRecoverable` of the run `codec`
are about. The inductive invariant is `MemoryInv /\ FlowInv`:

* `MemoryInv`: a write task runs on the front segment of the ring, or a report
  says how much of it is written, never both; after a failed write the ring is
  never empty again, which is why `send` starts no second task on a stream that
  failed. A read task has the segment behind the ring, and bytes that landed are
  still in front of where the ring goes on;
* `FlowInv`: there are the packets of all accepted messages one behind the other
  (`flow`) and the places where they end (`ends`). What was received is a prefix of
  what was sent, and behind its last packet the flow goes on in the ring of the
  receiver, in the memory lent to its stream, in the socket, and in the ring of the
  sender, whose front is in the socket already while a task runs (`Gone`). The
  refinement alone is not inductive: it does not say where the bytes are.

Every action moves bytes from one of these places to the next (`At`: a sequence is
a part of the flow at a position). The read sink moves as many messages as its
loop finds; that follows by induction on its rounds from `RoundFlow`.

Three kinds of induction over data were needed and are written out with sets of
natural numbers: that the fold over the destroyed nodes is defined and keeps
`QueueInv`; that `Flow`, in both modules a recursive function, is the sequence
the counts describe; and the rounds of the loop that decodes.

Only model-checked: liveness under fairness, which this prover cannot express
(`LaterIsServed`, `SinkDrains`, `TornDown`, `Delivered` and the others of section
3 that say something happens); and the run `codec`. `Messages`, `ProtoKel` and
`Codec` are recursive over schemas, with RECURSIVE operators: what they compute for
every schema would need induction over such trees, so `RoundTrip`, `AcceptedAsSent`,
`PartialIsRecoverable` and the types of `Codec` stay with TLC.

## 5. Findings

Three runs are expected to end in a violation; each was reproduced with a small
program against the library.

1. **A teardown that never happens** (`async.cpp` 137). `later_insert_point`
   may point into a destroyed event; the sink armed last afterwards is stored
   into freed memory.
2. **`take()` starves** (`async.tmpl.h` 139). It makes room in a full buffer
   and tells nobody, so the buffer below sleeps for ever.
3. **A merged conveyor that is fed twice aborts** (`async.tmpl.h` 410). An
   adapt node fires into its appendage without asking for space; `feed`, `poll`,
   `feed`, `poll` with no sink yet fails the assertion, and so do two children
   with two elements each and a sink.

Without a run of their own; the runs that pass keep away from these, as section 3
says, or name them as exceptions:

* An immediate value below a buffer of 1 aborts (`async.tmpl.h` 265).
  `ImmediateConveyorNode::parentHasFired` asserts that its parent has space, but
  a full buffer without a parent calls it too: `Conveyor<int>{5}.buffer(1)` and
  `poll()`. Reproduced. With `MCCaps1` and `Sources = {"immediate"}` TLC finds
  `NoProtocolError` violated in three steps: buffer, fire, fire.
* An error out of nothing (`async.tmpl.h` 526). After `feed` and `take` the
  source is still armed; a parent built then gets a critical error nobody
  raised, and a buffer in the place of the source pops an empty `std::queue`.
  Reproduced. With `MCCaps1`, `Sources = {"adapt"}` and `TakeFrom = 1` TLC finds
  `NoProtocolError` violated by feed, take, sink, fire.
* A merge node keeps the second element (`async.tmpl.h` 306). `getResult` tells no
  child that its appendage is free: the second element of a buffered or immediate
  child never comes out. Reproduced. `MergeDrains` therefore speaks of adapt
  nodes; said of all kinds, it fails with one buffered child and two elements.
* A full ring counts as a message too long (`io_peer.tmpl.h` 25). The read sink
  gives up before it decodes: whole messages in the ring are lost, as with two
  packets of 3 bytes in the ring of 6 of the run `io_peer`, and a packet of exactly
  the size of the ring can be sent but never received. `Delivered` excepts a
  receiver that gave up.

What the code also does, with nothing in the repository that says otherwise; the
models follow it and the properties name it as an exception:

* `UnixIoStream::read` reports every failure of `recv` as busy. After a reset
  the read stays pending with its report used up; `ReadIsServed` and
  `NoLostSignal` except exactly that state.
* A completion or a disconnect that is found before its listener was asked for
  is dropped; `DisconnectIsTold` speaks of listeners that were there in time.
* `EventLoop::wait()` blocks with events armed in three ways: after a full batch
  (`io-unix.h` 147), after 65536 turns (`async.cpp` 185), and on a chain that the
  user has fed since the last turn (`async.cpp` 240). `SleepsOnlyIdle` shows that there
  is no fourth.
* `UnixServer::notify` accepts one connection for a report and
  `UnixDatagram::read` takes an empty datagram for the end; `LeftOnlyIfMissed`
  shows that nothing else is left behind.
* `get<i>()` of a union replaces the alternative that is held, through a Reader
  too. The message stays one of its schema, so that `TypeOK` holds of it.
* `decode` of an array resizes to a length of 64 bits off the wire
  (`proto_kel.h` 494), which may throw; between programs of one schema it does not
  (`PartialIsRecoverable`).

Outside the models:

* `wake()` calls `send` on a pipe, which the system refuses.
* `TlsIoStream::read` returns the length asked for and not the number of bytes
  it got (`tls/tls.cpp` 63).

## 6. Not modelled, and what is left

Not modelled: GnuTLS and the thin layer over it (`setupTlsNetwork` returns
nothing yet); address parsing and socket set-up, datagram writes and `wake()`
(system calls without state of their own); `ArrayBuffer`, which the library does
not use; `OneTimeConveyorNode`, which is never constructed; logging.

Left: `ConveyorSinks` with several detached chains.
