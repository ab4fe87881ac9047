# Scrimmage: specifications and proofs

TLA+ models of the concurrent and stateful parts of Scrimmage, the TLC
configurations that check them on small instances, and TLAPS proofs of what
holds for every instance. Paths below are relative to the repository.

## 1. The system

Scrimmage is a set of C++ header libraries for an exchange: a lock-free ring
buffer and a pinned thread to consume it (`libs/common`, `libs/concurrency`), a
matching engine with its pools and books (`libs/match`), TCP and UDP plumbing
(`libs/networking`) and a market-data book (`libs/market-data`). The two
applications only print a line so far; the components meet through the calls
below, as `libs/match/Architecture.md` draws them: clients and the synthetic
injector produce orders, rings per symbol range carry them to the matching
engine, and the engine reports fills by TCP and matches by UDP.

| Component | State | Operations | What is hard, and what makes it correct |
|---|---|---|---|
| `SpScRingBuffer` | slots, `_head`, `_tail`, `_dropped`, `_highWaterMark` | `tryPush`, `push`, `tryPop` | two threads without a lock, stale indices, wrap-around: a bounded FIFO without data races |
| `SpScRingBufferConsumer`, `PinnedThread` | the current thread, its stop flag | `start`, `stop`, destructor, `consumeLoop` | stop, restart and destruction at any moment: items handled once, in order; joins return |
| `MatchingEngine` | order pool, books of resting orders by hash and side | `submitOrder`, `matchOrder` | partial fills, slot reuse, erasing while walking: no quantity lost, slots accounted for, priority |
| `OrderBookPool`, `OrderBookEntry` | a free list threaded through the entries | `allocate`, `free`, `reset` | never hand out an entry in use |
| `MatchingEnginePartition` | a ring of orders, a ring of fills | `submitOrder`, `processOrders` | a queue at its limit, a report lost on one path and sent on another |
| `PriceLevels`, `OrderMap`, `OrderBook` | linked lists of entries per price level, id table | append, unlink, reduce; insert, find, erase | list surgery, totals, index wrap, id collisions |
| `TcpEncoder`, `TcpFramer` | the unframed bytes | `encode`, `push`, `nextFrame` | messages cut anywhere; length limits |
| `TcpServer`, `TcpClient`, `TcpConnectionManager`, `TcpHeartbeat`, `TcpPipeline`, `UdpPipeline` | a running flag and threads | `start`, `stop`, loops, `sendAll` | stopping a blocked thread, restarting, partial sends |
| `OrderBookFeed`, `SyntheticDataInjector`, `MarketDataPipeline` | sorted bids and asks under a mutex, a callback | `upsert`, `remove`, `snapshot`, the injector's loop | callback under the lock, updates in several steps |
| `UdpMulticastSender`, `UdpMulticastReceiver`, `UdpSocket` | a descriptor, an address | constructors, `send`, `recv` | a constructor that fails half-way |

`PROJECT.json` lists the components with what is modelled of each, and the
hazards, at their lines, that the properties are for.

## 2. The modules

| Module | Models | Kind |
|---|---|---|
| `BoundedFifo` | what a queue between two threads promises | abstract specification |
| `SpScRingBuffer` | `libs/common/SpScRingBuffer/SpScRingBuffer.h` | component; implements `BoundedFifo` |
| `SpScRingBufferProofs` | | theorems about `SpScRingBuffer` |
| `SpScRingBufferConsumer` | `SpScRingBufferConsumer.h` and `PinnedThread.h`, around the ring | composition; extends `SpScRingBuffer` |
| `MatchingEngine` | `libs/match/MatchingEngine.h` | component |
| `OrderBookPool` | `libs/match/OrderPool.h`, `OrderBookEntry.h` | component |
| `PriceLevels` | `libs/match/PriceLevels.h` | component |
| `TcpFraming` | `libs/networking/tcp/TcpEncoder.h`, `TcpFramer.h`, with the stream between them | composition; implements `BoundedFifo` |
| `ServiceThread` | the classes with a loop: `TcpPipeline`, `UdpPipeline`, `TcpConnectionManager`, `TcpHeartbeat`, `TcpServer`, `SyntheticDataInjector`, and the constructors of their sockets | component, one kind per class |
| `OrderBookFeed` | `libs/market-data/OrderBookFeed.h` | component |
| `MarketData` | `SyntheticDataInjector.h`, `MarketDataPipeline.h` writing to the feed | composition; extends `ServiceThread` and `OrderBookFeed` |
| `MatchingEnginePartition` | `libs/match/MatchingEnginePartition.h` with `TcpClient::sendAll` | composition over two `BoundedFifo`s |
| `SpScRingBufferConsumerProofs`, `MatchingEngineProofs`, `PriceLevelsProofs`, `TcpFramingProofs`, `ServiceThreadProofs`, `MarketDataProofs` | | theorems about the module of that name; the first and the last build on the proofs of the module theirs extends |
| `DataTheorems` | | lemmas on sums over finite sets, remainders and sequences |
| `MC...` | | instances for TLC |

Names follow the source where TLA+ allows. Operators such as `FullNever` or
`EraseNothing` that stand before a definition and are used nowhere are faulty
variants of it, kept to show that a property notices the fault (`mutants` in
`PROJECT.json`).

### SpScRingBuffer

Each load, store or slot access of a thread is a step. `head` and `tail` are the
values last stored; `tailSeen` and `headSeen` are what the *other* thread's next
load returns, and catch up at any later moment (`TailBecomesVisible`,
`HeadBecomesVisible`). This covers every behaviour that the acquire and relaxed
loads of one writer's variable allow: a value may be old but never older than one
already read. The slots are plain memory; the model lets producer and consumer be
between the index load and the slot access at the same time, and `NoSlotRace`
says they are then at different slots. `UpdateHighWaterMark` is a step after
`PublishHead`, as in the code, and its compare-exchange loop is one step because
only the producer writes the mark. `accepted` and `delivered` are history
variables that grow at the stores to `_head` and `_tail`.

`push` is `Push`, then `PushRoom` or `PushTimeout`; the clock is abstracted to
"may have run out", so a timeout can happen at any moment the ring looks full.
`pushWithTimeout` is `push`. A pushed item that times out is not counted in
`_dropped`, as in the code.

### SpScRingBufferConsumer

Adds the owner (`Start`, `Stop`, `Destroy`, `Joined`) and the threads. `Start`
creates the new thread and only then asks the previous one to stop and waits for
it, in the order `_pinnedThread = std::make_unique<PinnedThread>(...)` does. Each
thread loads its own stop flag (relaxed: `stopFlag` and `stopSeen`) once per
round. The callback is a step of its own after `tryPop`. With two threads on the
ring the model lets both load the same `_tail`.

`tryPop` loads `_tail` relaxed, as if it were the caller's own. A thread made by
`start` is not ordered after the one before it, which is joined only after the launch,
whether it still runs or has ended. So the first loads of a thread return any values
of `_tail` and `_head` between the oldest that the owner may still see (`known`, which a
join moves on) and the newest (`FirstLoads`); later loads are never older than earlier
ones and catch up in finite time (`TailReaches`, `HeadReaches`). `tails` is the
modification order of `_tail`. What a racing access to a slot reads is taken to be the
slot's content at that moment.

`tooSoon` records that `start` came too soon: another thread was running, or the new
thread's first loads were too old to see where the last one stopped. Without it the
consumer keeps the order (`RestartKeepsOrder`); with it, it does not (`consumer_restart`).
A caller cannot tell that it has waited long enough, since `stop` does not join; only a
new consumer object is safe.

### MatchingEngine

`Accept` is `submitOrder` up to the loop, `Fill` is one round of the loop with
crossing prices, `EndMatch` is the rest of `matchOrder`, `Drop` is an exhausted
pool. The engine has one thread, so the steps of one submission are not
interleaved with another's; they are steps because the loop is. The pool is not
in the repository in the form used here (`OrderPool<Order>` with `acquire` and
`release`): it returns any free slot, or none. `hashSymbol` is the constant
`Hash`: what matters is only which symbols share a book. Order ids are the order
of acceptance. `filled` sums what `_executionReportCb` was told of each order.

### OrderBookPool

`allocate` and `free` are steps (one thread). `Reset` is the part of
`OrderBookEntry::reset` that touches the list.

### PriceLevels

The fields of the levels and the fields the class uses of the pool's entries
(`_nextIndex`, `_levelIndex`, `_quantity`; the entry type with these fields is not
in the repository) are variables. `unlinkFromLevel` is a walk of several steps,
because its loop is what can go wrong. The callers of the class are not written;
the guards of `AppendToLevel` and `ReduceQuantity` state what the class needs of
them (the entry is in no list; it is in one and has that quantity), while
`UnlinkStart` takes any entry. `queue` is the history of appends and unlinks that
the lists are compared with. `setTickSize` accepts any value, 0 too; `priceToLevel`
then divides by zero, so `PricesRoundTrip` is stated for the other ticks. Unsigned arithmetic is modulo `QtyMod` and
`PriceMod`, so that totals and prices wrap in small instances as they do at 2^32.

### TcpFraming

`Send` is `TcpEncoder::encode` into a stream, `Push` and `PushOverflow` are
`TcpFramer::push` of a piece, `NextFrame` is `nextFrame`. No code in the
repository connects the two classes; the stream is TCP (external): bytes arrive
once, in order, in pieces of any size up to `MaxPiece`, and the framer's user may
call `nextFrame` or not between two pieces. The header is written and read digit
by digit in base `ByteBase`, so the cast to 16 bits loses what it loses in the
code. When `push` throws, the connection is given up.

### ServiceThread

Six classes have the same shape: `start` sets `_running` and makes a thread, `stop`
clears it and joins, the destructor calls `stop`, and a loop tests `_running`
between two blocking calls. The module states the shape once (`StartThread`,
`While`, `Recv`, `Callback`, `JoinMember`) and each class as the combination that its
code is; `kind` is chosen in `Init`. What differs is kept: `TcpHeartbeat::start`
returns while running, the manager and the server hold threads in a vector, the
server's accept thread makes further threads and opens and closes descriptors, the
TCP loop ends on a failed `recv` where the UDP loop goes on. Assigning to a joinable
`std::thread` is `std::terminate` (owner `"terminated"`). Constructing a `std::thread` is
taken to succeed.

Before that the sockets are constructed, call by call; any call may fail. `fds` are
the open descriptors: `TcpClient` closes its own before it throws, the UDP classes do
not. A blocking call returns with data, with a failure, or never. The owner is one
thread; `addConnection` comes before `startAll`. How `TcpHeartbeat` spends the rest of
an interval, and `sleep_for`, are a step.

### OrderBookFeed and MarketData

`Upsert` and `RemoveOrder` are one step each, because the mutex is held throughout;
the return of the callback, which gives the mutex back, is a second. `std::sort` is
not stable, so `Upsert` chooses among all sorted results, and `resize` keeps the first
`MaxLevels`. `snapshot` reads the book while the mutex is free, which is when the
properties look at it. The callback touches nothing of the book and is registered
before the first update: that a callback which updates the book or takes a snapshot
waits for itself is not modelled. `remove` may be called with an id that is not there.

`MarketData` refines the callback step of `ServiceThread`: the injector's round is
`2 * levels` calls of `upsert`, each a step that needs the mutex, and the drift of the
mid price at its end; `processOrder` is one call from the UDP loop. Prices are in
half ticks (`Tick = 2`), so that a drift of less than a tick exists. The drift is at most
a tick either way: `uniform_real_distribution` gives `[-0.01, 0.01)`, but `midPrice` is a
double, and the rounding of the sum can make a drift just below a tick a whole one
(100.0 + 0.00999... is 100.01). Prices are otherwise exact in the model; what rounding
adds to a price is below any difference the properties tell apart. Each `start` begins
again at the first price, and removes nothing of what an earlier run has written. The
other classes of `ServiceThread` run as they do there and leave the book alone, so that one
run checks both modules. The pool and the index
that `processOrder` uses are not in the repository and are taken to succeed.

### MatchingEnginePartition

`submitOrder` and `tryPop` use the rings as `BoundedFifo`, which the ring is proved to
implement. `sendAll` is a step per `send`; `send` takes any part of what it is
given. Bytes are identified by report and place, a place beyond the report being
whatever lies there in memory.

## 3. The runs

| Run | Instance | Shows |
|---|---|---|
| `ring_buffer` | 3 slots, 5 items of 2 kinds, 2 drops, 1 consumer | the ring is race free, keeps its items, keeps a sound mark, implements `BoundedFifo`, and is live |
| `consumer_lifecycle` | 3 slots, 4 items, 2 threads | unless a start comes too soon, stops and restarts keep the order and lose nothing; each thread, the restarted one too, handles every accepted item unless it is itself asked to stop; joins return and no thread outlives the consumer, with any overlap of threads and any age of their loads |
| `consumer_restart` | 3 slots, 2 items, 2 threads | **violated**: a thread started beside another loads a new `_tail` with an old `_head` and hands a slot nobody filled to the callback |
| `matching_engine` | 3 slots, 4 orders, prices 1-2, quantities 0-2 | conservation, accounting of slots, time priority, termination |
| `crossed_book` | the same | **violated**: an order rests although a resting order crosses it |
| `order_pool` | 3 entries | **violated**: `allocate` returns an entry in use |
| `price_levels` | 3 entries, 2 levels, quantities of 2 bits, prices of 3 bits | the links of each level spell its queue, totals are right modulo their width, unlink ends and says when a level is empty, prices and levels convert both ways |
| `tcp_framing` | bytes of 2 values, messages of 0-3 bytes, 5 messages, pieces of 1-3 bytes | messages come out once, whole, in order; overflow only with frames left in the buffer |
| `tcp_framing_long` | a message of 4 bytes, one more than the length field can say | **violated**: the frame that comes out is not the message |
| `services` | six classes, 3 threads: a manager of 2 connections, a server with 2 clients; a book of depth 2, 1 or 3 levels, drift of one tick, 1 remove, packets for 3 ids and 2 prices | no thread and no descriptor is lost, nothing runs after `stop`, a restart after `stop` is safe, `stop` returns unless a peer stays silent for ever; the book is sorted, without duplicates and within its depth; drops only its worst; after the first round of a run the orders of its levels cross by at most a tick; `stop` leaves whole rounds |
| `udp_constructors` | a UDP pipeline | **violated**: a UDP constructor that throws leaves its descriptor open |
| `send_all` | reports of 2 bytes, 2 kinds of orders, 3 orders, rings of 2 slots | **violated**: `sendAll` sends bytes from behind the report |

Bounds. Three slots are the least for which full, empty and in-between differ;
five items take both indices round the ring more than once with every
combination of stale views. Two threads are the least for a restart; four items
take a ring of three slots round once and one place further, with the restart anywhere.
They are pushed as 1, 2, 3, 4 (`InTurn`): nothing looks at an item, so what is true of
items that all differ is true of any. After a start that came too soon the run goes on
with one item only (`FewWhenTooSoon`): threads that overlap can take out far more than was
pushed, `RestartKeepsOrder` says nothing of these states, and what `JoinReturns` and
`QuietAfterDestruction` say depends on the loop and on the order of stop, launch and join,
not on how many items there are. Four orders
through three slots are enough for a sweep over two resting orders, a resting
order filled by two submissions, reuse of a released slot and an exhausted pool.
Three entries are the least with a front, a middle and an end. The framer's limit
of 7 bytes is exactly an incomplete frame (4) and a piece (3); the messages look
like each other's headers. Three threads let the accept thread run beside two clients, a
manager of two connections start, and one of one connection start again while it runs.
Depth 2 with one and with three levels has
both a book that is never full and one that drops an order in each round; the mid
price moves up to a tick either way, which is the largest drift of one round. A tick size
of 0 is in `price_levels`.

The bounds (`MaxItems`, `MaxDropped`, `MaxOrders`, `MaxFrees`, `MaxMessages`,
`MaxRemoves`) appear only as guards of the calls from outside; nothing is cut short
inside an operation. `MaxPops` bounds the items taken out of the ring: it is no less than
`MaxItems` and so takes effect only where overlapping threads pop more than was pushed.
`MaxRemoves` also bounds how often the user contends with a writer for the mutex, which
`InjectorStops` needs: `std::mutex` promises no fairness. `MaxDrift` bounds where the random walk of the mid price may go.

Deadlock is checked for the ring, whose consumer always polls. The other systems
may stop: the consumer once it is destroyed, the engine when no more orders come,
the framer when nothing more is sent, a service when it is destroyed, has terminated
or waits for a silent peer. The price levels always have a caller.

Fairness. A thread inside an operation keeps running, a thread in `consumeLoop`
keeps looping, a walk or a match that has begun goes on, the stream delivers and
the framer's user goes on taking out frames, a store to an atomic becomes visible
in finite time (the C++ standard asks for it; for the consumer's threads this is
`HeadShown`, `HeadReaches`, `TailReaches` and `StopBecomesVisible`), `join` returns once its thread has ended, and the feed's callback returns. Nothing is
assumed of callers: no push, start, stop or order needs ever to happen, and a
push's time need never run out. Nothing is assumed of peers either: `recv`, `read` and
`accept` may block for ever, which is why `StopReturnsUnlessSilent` has the hypothesis
that each thread leaves its blocking call again and again (the code closes no socket to
wake its threads; with a silent peer `stop` waits for ever).

## 4. What is proved

Every invariant, action property and refinement that a passing run checks is also a
theorem, for every value of the constants; `PROJECT.json` lists them. The constants are
assumed only to be of their kind (`NoThread` is no thread, the hash maps symbols to
books, prices are integers and quantities naturals); the bounds play no part, with the
exceptions stated below as hypotheses. None of the properties that take several steps
to break is inductive by itself; what was added to each is below. Each inductive
invariant was checked with TLC before it was proved.

**The ring** (`SpScRingBufferProofs`), under the hypothesis `SingleConsumer` (at most one
thread calls `tryPop`, which is what the class asks of its users and what
`consumer_restart` shows the consumer class not to guarantee):

* `TypeCorrect`, `RaceFree`, `QueueIntact`, `MarkSound`: the four invariants of
  the run;
* `DropsJustified`: the action property on refused items;
* `RingImplementsFifo`: the ring implements `BoundedFifo` with
  `Limit = Capacity - 1`.

`IInv` adds `RingOrder`, which says that going round the ring from the producer's view of
`_tail` one meets `_tail`, the consumer's view of `_head` and `_head`, in this
order and within one lap. It is what makes stale views harmless: from it and the
producer's `~Full` follows that the slot about to be written is not one the
consumer may read. `ProducerKnows` and `ConsumerKnows` carry each thread's tests
to the step where it relies on them. The arithmetic is in a few lemmas on
`Distance`, one of which shows that the code's
`(head + Capacity - tail) % Capacity` computes it. Each step that moves an index
or a view has a lemma; the others are in `LocalStepIInv`. The lemmas need only
`OneInside`, that no two threads are inside `tryPop` at the moment, so that they can be
used where several threads exist.

**The consumer** (`SpScRingBufferConsumerProofs`), for any number of restarts and any ring:

* `NoThreadOutlives` (`QuietAfterDestruction`), with any overlap of threads. `LInv` says
  that a thread that runs is the one in `_pinnedThread` or the one the owner is joining; it
  holds because `start` begins only when no join is pending.
* `RestartsKeepOrder` (`RestartKeepsOrder`): as long as no start came too soon, the
  callback gets the accepted items in order, each once. `KInv` is, under `~tooSoon`, the
  ring's `IInv`, carried from thread to thread over a stop and a start, and
  `ConsumerSound`: `IndicesSound` ties the places in the orders of stores to the indices
  (`_tail` is the last of `tails`, and the number of items taken out modulo the capacity),
  `LoadsSound` says that the thread in the loop loads the last `_tail` and a `_head` that is
  not behind it, and `HandledSound` that the callback is behind
  `tryPop` by the one item of the thread that is about to call it. A new thread may know of
  fewer items than its predecessor; `LoadsAreTheRings` shows that its `tryPop` is
  nevertheless a step of the ring, or finds the ring empty where it could have found more.

**The matching engine** (`MatchingEngineProofs`), for every pool, set of symbols and books,
hash function, price and quantity and any number of orders: `EngineTypeCorrect`,
`NothingLost` (`QuantityConserved`), `SlotsKept` (`PoolAccounted`), `TimePriority`
(`OldestFilledFirst`) and `BothSidesFilled` (`BuysEqualSells`). The invariant ties each slot
in use to one accepted order (`SlotsHoldOrders`), says that an order without a slot is
filled (`GoneIsFilled`), that the books hold slots in order of arrival and each by right
(`BooksSound`), and that the loop's index never leaves the front (`IncomingSound`): a
resting order that survives a fill has used up the incoming one, so `++i` is always
followed by the return. Time priority follows from the last two. `FillNamed` turns a round
of the loop into equations; `FillIInv` is the main lemma. For `BothSidesFilled` a fill adds
the same amount to one summand of either side's sum.

**The price levels** (`PriceLevelsProofs`), for pools, levels and widths of every size:
`LevelsTypeCorrect`, `LinksSpellQueues` (`ListsMatchQueues`), `UnlinkTellsEmptied`
(`EmptiedIsRight`), `TotalsAreSums` (`TotalsMatch`) and `PricesReturn` (`PricesRoundTrip`);
the tick size may be any number below the width, 0 too.
The invariant adds `WalkSound`: `prev` and `idx`, which `unlinkFromLevel` set several rounds
earlier and writes through at the end, are neighbours in the list, and the walk has not
passed the entry it looks for. `FoundNamed` turns the removal of the found entry into
equations on the queue. The totals are sums over the entries of a level, equal to the
code's modulo the width of a quantity. `PricesReturn` uses that the number of level indices
is a multiple of `MaxLevels`, which is a power of two in the code.

**The framing** (`TcpFramingProofs`), for every byte width, every set of messages and every
way to cut the stream:

* `FramingTypeCorrect`;
* `FramingInStep` (`InStep`) and `FramingImplementsFifo` (`CarriesMessages`) under the
  hypothesis `LengthsFit`, that the length field can say the length of each message;
  `tcp_framing_long` shows that they fail without it;
* `DrainedNeverOverflows` (`OverflowOnlyUndrained`) under `LengthsFit` and
  `RoomForFrameAndPiece`: the limit has room for the largest incomplete frame and a piece.
  The limit is an argument of the framer's constructor, so this is a rule for its users:
  the largest frame is not enough.

The invariant is `InStep` with the types: buffer and stream together are the encoding of
the messages on their way. From it `FrontOfBuffer` shows that the two bytes at the front
are a length and not a part of a message, and `FrameTaken` that `nextFrame` takes out
exactly the oldest message.

**The services** (`ServiceThreadProofs`), for any set of threads and any of the classes:
`ThreadsHeld` (`EveryThreadHeld`), `QuietWhenStopped` (`QuietAfterStop`), `NoDescriptorLost`
(`DescriptorsClosed`, for all but the UDP constructors, which `udp_constructors` refutes)
and `StartAfterStop` (`RestartSafe`). The invariant adds
to the threads held which descriptors are open at each place of the code: of a server
those of the threads between `socket` and `close` (`ServerDescriptors`), of the others
those of the constructed sockets and the one under construction (`SocketDescriptors`);
and that `_running` is set while a heartbeat is started, on which its `start` relies.

**The market data** (`MarketDataProofs`), for any depth, number of levels, packets and
threads and with removals at any moment: `BookStaysSound` (`BookSound`), `WorstIsDropped`
(`DepthDropsWorst`), `CrossingIsSmall` (`CrossedAtMostTick`) and `RestsOnWholeRounds`
(`WholeRoundsAtRest`). The last two are about the orders of the run's own levels, the
first of them once the first round is over. What an earlier run with more levels has left
besides stays in the book, at its old prices, and is outside both. The steps are steps of
`ServiceThread` (`StepsAreServiceSteps`), so its invariant is reused; from it comes
`OneWriter`, that an injector in the middle of a round is inside the body of its one thread.
`Streamed` is what the crossing depends on: the orders already written in this round are
about the new mid price, the others about the price of the round before, which is at
most a tick away. An order that `resize` dropped, or a removal took out, only
takes away from what `Streamed` speaks of; so that this holds whichever permutation
`std::sort` chose, `UpsertIs` says what any of them leaves.

**Induction over data.** The library's induction theorems take a predicate, which the
provers cannot instantiate. `DataTheorems` states what is needed with sets instead:
`FiniteSetMin` (of the subsets of a finite set in a collection one is smallest) and
`NatSetInduction` (a set with 0 and all successors holds every natural number), both from
the well-foundedness of a relation. With them it is shown what the library's sum over a
set and `FlattenSeq` compute.

**A caution about the prover.** The SMT encoding of tlapm 1.4.5 takes `0 <= Len(s)` for true
of every value together with `Len(s) = n <=> DOMAIN s = 1 .. n`, which is contradictory
beside a function that is no sequence. The obligations that the SMT solver proved were
therefore run again without the first of these axioms (for sequences it follows from
`s \in Seq(S)`), and the leaves that needed it were rewritten; none of the proofs depends on
it. Each inductive invariant has also been checked with TLC.

**Only model-checked**, because fairness is beyond the prover: the liveness properties
`EveryItemDelivered`, `PushUnblocks`, `JoinReturns`, `HandledUnlessStopped`,
`SubmissionsReturn`, `UnlinkReturns`, `EveryMessageReceived`, `StopReturnsUnlessSilent` and
`InjectorStops`. The properties of the violated runs are refuted, not proved.

## 5. Plan

1. Proofs: the safety parts of what the liveness runs show, where they say more than the
   theorems (a rank that every round of `unlinkFromLevel` and of the matching loop
   decreases).
2. Model, once the code exists: the order map with its callers, the matching functions
   of `OrderBook`, the pool and the index of `MarketDataPipeline`.

The order so far followed importance: the ring carries every order and every
report, the engine is the program's purpose, the consumer and the lists are where
state is easiest to corrupt, and the services are where threads are started and
stopped.

## 6. Not modelled

* The applications, which print a line and end; build files; the vendored GoogleTest.
* `OrderBook` declares its matching functions and defines none of them; `reset` and
  `setTickSize` forward to `PriceLevels`.
* `OrderMap`: a direct-mapped table that compares no ids. It has no callers yet, and
  with them no rule on which ids may be in it together.
* `PriceLevels::_bestLevel`, stored for code that is not written.
* `UdpSocket`, which nothing uses; `ownsSymbol`, accessors, and the encoder side of the
  pipelines, which hand a call on.
* CPU affinity, stack warm-up, pausing and the timing within an interval: they change no
  state of the program. Log output, layout and alignment of structures.
* Undefined behaviour that the interfaces leave to their users: `setUpdateCallback`
  during updates, `addConnection` while the manager runs (its threads hold references
  into the vector), two threads that own one service, two producers or two consumers
  of one ring other than by a restart, two threads in `OrderBookPool::allocate`.
* Callbacks that call back (a snapshot from the feed's callback waits for itself, an
  order submitted from an execution report): nothing in the repository registers one.
* Two symbols in one book: `matchOrder` fills one with the other whenever their hashes
  agree modulo 1024. The model has this (books are picked by `Hash` alone), and the
  theorems hold with it; no property says otherwise.
