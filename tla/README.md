# A verification project for LowLatencyTradingEngine

TLA+ models of the exchange in `src/`, what TLC checks of them on small
instances, and what TLAPS proves of them for all. Paths are relative to the
repository. The code is the reference; `PROJECT.json` has, for every definition
of a module, the lines it stands for.

## The system

The exchange is one process (`src/exchange/exchange_main.cpp`) with three
threads that share three lock-free queues, a fourth that nothing starts
(the snapshot synthesizer), and one more thread per logger. A trading client has
a thread that receives the market data:

    clients --TCP--> OrderServer --client_requests--> MatchingEngine --market_updates--> MarketDataPublisher --UDP--> MarketDataConsumer
            <--TCP--     (gateway)  <--client_responses--                                       |                         ^
                                                                                snapshot_md_updates --> SnapshotSynthesizer --UDP

### Inventory

| component | state | operations | talks to | what makes it correct |
|---|---|---|---|---|
| `LFQueue` (`common/lf_queue.h`) | ring, two indices, counter | `getNextToWriteTo`, `updateWriteIndex`, `getNextToRead`, `updateReadIndex`, `size` | one producer and one consumer thread | a FIFO channel: nothing lost, repeated, torn, or left behind |
| `MemPool` (`common/mem_pool.h`) | blocks with a flag, one cursor | `allocate`, `deallocate` | order book, snapshot | never hands out a block in use; has the size asked for |
| `MEOrderBook` (`exchange/matcher`) | two circular lists of price levels, a circular list of orders in each, price map, client map, two pools, id counter | `add`, `cancel` and their helpers | engine (responses, updates) | price-time priority, never crossed; lists and maps agree; loops end |
| `MatchingEngine` | a book per ticker | `run`, `processClientRequest`, `sendClientResponse`, `sendMarketUpdate` | queues | handles every request once, in order |
| `OrderServer` | next numbers in and out, socket of every client | `run`, `recvCallback`, `recvFinishedCallback` | TCP server, sequencer, queues | requests in order and once, sessions, replies in order |
| `FIFOSequencer` | pending array | `addClientRequest`, `sequenceAndPublish` | order server, `client_requests` | publishes all that is accepted, earliest first |
| `TCPServer`, `TCPSocket` | sockets, in and outbound buffers | `listen`, `poll`, `sendAndRecv`, `send` | kernel, order server | every connection is accepted; what a client can read are its replies, in order |
| `MarketDataPublisher` | next incremental number, the slot in hand, socket buffer | `start`, `stop`, `run` | engine, synthesizer, multicast | one numbered record for every update, in order; the synthesizer is told the same |
| `SnapshotSynthesizer` | live orders by ticker, pool, last number, time of the last snapshot | `addToSnapshot`, `publishSnapshot`, `run`, `stop` | publisher, multicast | a snapshot is the books at its number; no ASSERT fails while the books are well linked |
| `MarketDataConsumer` (`trading/market_data`) | expected number, recovery flag, two queues of messages | `recvCallback`, `startSnapshotSync`, `checkSnapshotSync`, `queueMessage` | multicast, strategy | gap-free stream; nothing that arrived is thrown away; recovery ends |
| `MarketOrderBook` (`trading/strategy`) | lists as in `MEOrderBook`, best bid and offer | `updateBBO`, `getBBO`; the rest has no body | consumer | unfinished in the repository |
| `Logger` (`common/logging.h`) | queue, file, running flag | `log`, `pushValue`, `flushQueue`, destructor | every thread | the text is the format with its values; entries are written |
| `McastSocket`, `socket_utils.h` | buffers | `init`, `join`, `leave`, `send`, `sendAndRecv` | kernel | - |
| `thread_utils.h`, `exchange_main.cpp` | threads | start, signal handler | all | orderly end |

The hard behaviours are: the two threads on a queue between the statements of
an update; long legal sequences of orders that build and unbuild linked lists
shared by two maps; clients that repeat, skip, reconnect and go away while
responses are under way; partial sends; unsorted arrival times; limits of
pools, rings and arrays; a slot that is used after its release; lost, reordered
and repeated datagrams and the recovery from them; stops and ends with work in
the queues. `PROJECT.json` lists them under "hazards" at their lines.

## Modules

| module | models | size of its state |
|---|---|---|
| `Channel` | abstract: a bounded FIFO channel whose consumer never stops | sequence |
| `LFQueue` | `lf_queue.h`, one shared access per step | ring, indices, counter, two program counters |
| `MemPool` | `mem_pool.h` | flags, cursor, status |
| `PriceTimeBook` | abstract: a set of orders that trades in price-time priority | set of orders, the incoming order |
| `MEOrderBook` | `me_order_book.{h,cpp}`, pointer by pointer | two pools, two maps, two entries, the `add` in progress |
| `OrderServer` | gateway thread, sequencer, TCP server and sockets; around it peers, kernel, engine | see the module |
| `MarketDataPublisher` | publisher thread over an instance of `LFQueue`; the engine fills the queue, the main thread stops it | the queue's, the slot in hand, buffer, histories of both outputs |
| `SnapshotSynthesizer` | synthesizer thread; the books of the tickers write its queue | log of updates, table of live orders, last number, clock |
| `MarketDataConsumer` | a client's market data thread; two senders and a network with faults around it | datagrams on the way, two maps of messages, expected number |
| `Logger` | `log()`, the logger's thread and the destructor | queue, what is written and flushed, the call in progress |
| `MC...` | instances for TLC: symmetry, views and bounds | |
| `...Proofs` | theorems of a module | |

`MEOrderBook` refines `PriceTimeBook` (`ActsAsPriceTimeBook`) and `LFQueue`
refines `Channel` (`ImplementsChannel`), so modules that compose threads may use
the abstract ones: `OrderServer`, `SnapshotSynthesizer` and `Logger` take their
queues as FIFO. `MarketDataPublisher` composes the queue as it is
(`Queue == INSTANCE LFQueue`), because it uses a slot after releasing it, which
a FIFO does not show.

### How state and actions correspond to the code

**LFQueue.** The three atomics are sequentially consistent and each index is
written by one thread, so one assignment is one step: a push is `BeginFill`,
`EndFill` (the stores into the slot; `Torn` in between), `AdvanceWrite`,
`CountWrite`; a pop is `Peek`, `AdvanceRead`, `CountRead`. The k-th element is
the number k. `MaxBacklog` is not in the code: the queue never waits, and its
correctness rests on the load. `BeginFill` needs fewer than `MaxBacklog`
counted elements. The run and the proofs have `MaxBacklog <= Size`.

**MemPool.** The scan of `updateNextFreeIndex` is one step (the pool is used by
one thread): it ends on the first free block after the cursor, which
`IsNextFree` says without a loop. A failing `ASSERT` sets `status`, after which
nothing happens.

**MEOrderBook.** A pointer is the number of the order it points to, or the
order its level was created for, and 0 is null. An object returned to its pool
keeps its contents and loses `live`: a stale pointer reads the old object. In a
well linked book there is none (`LevelsSorted`, `QueuesInTimeOrder`,
`ClientIndexSound`). Past a misplaced level there may be, and the pools come
back to a block: by round robin (`MemPoolProofs`), so only after every other
free block, but the pool of levels has 256. What is checked and proved past a
misplaced level is therefore said of the allocations up to the first reuse of a
block. Both pools end the process with their last free block
(`OrderPoolFull`, `LevelPoolFull`). `add` is cut
at its loops: `Add`, a `Match` for each call of `match()`, then `Filled`,
`JoinLevel` or `NewLevel`, a `Walk` for each round of the search, `Splice`.
`cancel` is one step. A null dereference or a failing `ASSERT` in a step is
`Crash`; every action has the guard that excludes it. (A cancel cannot crash,
`CancelAlwaysWorks`, so its guard excludes nothing.) A request of no known type
ends the process too (`InvalidRequest`). Messages are kept for
one step (`responses`, `updates`): no step of the book reads them. `mislinked`
is a history variable: it is set when `addOrdersAtPrice` puts a level in a
wrong place, or `addOrder` an order in the list of another price with the same
index. All other defects of the lists follow from these two.

**OrderServer.** The program accepts no connection. An event of the listener
sets a variable that lives as long as the call of `poll()` and leaves its round
of the loop over the events with `continue`, while the accept loop is inside the
round (`tcp_server.cpp:75-132`): the event of another socket has to be reported
after it by the same `epoll_wait`, and the program starts with no other socket. `Poll`
says so: `Reported` are the events of an `epoll_wait` (edge triggered, kept in
`ready`), and `Takes` is the whole backlog only if the listener and another
socket are among them, in the right order; otherwise nothing. `accepts_nothing`
and the theorem `AcceptsNothing` are about the program as it is, which is
`Registered = <<>>`. All that lies behind an accepted connection would be dead
code in it. To say something of that code, the module takes the sockets a server
begins with as a constant, `Registered` (`receive_sockets_` is a public member);
nothing else of the code is changed, in particular not `Poll`. The other
properties of the gateway are about such a server, and the theorems about every
`Registered`, the empty one included.

One action per stage of the loop in `run()`: `Poll` (accept or not,
erase dead sockets, start the visit), `ReadData`/`ReadNothing`/`ReadEnd` for
`recvmsg`, one `HandleRequest` for each round of `recvCallback`'s loop,
`Flush` for the send, `SequenceAndPublish`, and one `Respond` for each
response. Peers, kernel and engine act between any two of them. A request is
`[client, seq, time, conn]`; `conn` is a history, and so is the `rank` of a
response, its number among those the engine made for the client. Requests are
whole: `recvCallback` leaves a partial request in the buffer, as if it had not
arrived. Of a send the kernel takes some whole responses and perhaps a part of
the next; the rest is dropped (`tcp_socket.cpp:84`). Behind such a part the
client cannot tell responses apart any more: `cut`, after which nothing is
`Legible`. A peer may close (what it sent can still be read) or reset (it is
discarded).

**MarketDataPublisher.** The thread's control (`mpc`) runs through `run()`: `Loop`
(`while (run_)`), `TakeNext`, `Send` (the number and the first 8 bytes of the
update into the socket's buffer, whose ASSERT ends the process when it is full;
the record names the update the bytes are of), `Release` (the two
statements of `updateReadIndex`), `Copy` (the push for the synthesizer, read
from the slot that is already released), and `SendAndRecv` when the queue is
found empty. `Start` has both outcomes of `connect()`. The steps of the queue
are those of `LFQueue`, so the engine may begin to fill a slot anywhere between
them. `sent`, `snapshot_md_updates` are histories.

**SnapshotSynthesizer.** The books write updates into `log` as `MEOrderBook`
sends them: an order is told with a fresh id, then told smaller, then told as
gone. That is all a well linked book tells (`UpdatesTellTheBook`). After a level
was misplaced a book can fill an order again that left it (SELL A at 10 and B at
9, cancel B, SELL C at 9: `me_order_book.h:136` leaves the entry of the bids at
B's old level, and a BUY meets B) and tell of it once more: `TellGone`. A CANCEL of
this kind ends the engine on the block that is free already, so that the
synthesizer may or may not get to see it; the model has both. `addToSnapshot`
is one step with its ASSERTs and the limits of the two
tables and the pool; `publishSnapshot` is one step, because it reads nothing
that another thread writes; the clock (`due`) and `stop()` act in between.

**MarketDataConsumer.** `Handle` is one round of the loop in `recvCallback`:
early return, gap test, `startSnapshotSync` (`Recover` with empty maps),
`queueMessage`, `checkSnapshotSync` (`CheckSnapshotSync`, one disjunct for each
of its returns), or the update is passed on. `Receive...` is a `recv` of the
loop in `run()`. The network loses a datagram, delivers it again, or delivers
one out of turn; each is a fault and is counted. The snapshot's sender repeats
snapshots for ever, with everything sent so far in them.

**Logger.** `Log` is one round of `while(*s)` in either of the two `log`s (they
differ in what a placeholder does, `PushValue`); `Test`, `Write`, `Flush` are
the statements of `flushQueue`; `Destroy` and `Close` those of the destructor.
The buffer of the file goes to the disk at any `Write` (it may be full), at
`Flush` and at `Close`. An element is a character or a number.

## Runs

Every passing run has its properties broken by a mutant of the code, listed in
`PROJECT.json`; the mutated forms stand next to the definitions.

| run | what it shows |
|---|---|
| `mem_pool` | the cursor always stands on a free block; reuse is round robin |
| `lf_queue` | FIFO, intact, nothing left behind; refinement of `Channel` with its liveness |
| `order_book` | up to the first misplaced level: lists sorted and linked both ways, queues in time order, no crash of a handler but with the last block of a pool, the loops get on, refinement of `PriceTimeBook`, market updates that tell the book exactly, responses that tell both clients of a trade the same; and past it too: the client index stays sound, keeps what it should, and every cancel goes through |
| `order_server` | of a server that was given one connection and can accept another: order and uniqueness of requests, session binding, the empty pending array, the response loop's ASSERT, the order of the replies a client can read when sends are cut |
| `market_data_publisher` | one record for every update, in order and numbered; the synthesizer is told the same updates; a stop leaves nothing behind; every update gets its record sent, unless a burst longer than the buffer ends the process |
| `snapshot_synthesizer` | a snapshot is the books of all tickers at exactly its number; the process ends only at a limit of its tables or for an order that was told as gone before (no ASSERT fails below the limits for well linked books); a thread that finds its queue empty again and again gets every update into a snapshot |
| `market_data_consumer` | under loss, repetition and reordering the engine gets a gap-free stream, and nothing that arrived is thrown away; on a reliable network it gets everything |
| `logger` | the text is the format with its values, whatever the doubled, trailing or missing `%`; what is logged gets to the disk; a destroyed logger loses only what was logged during its thread's last sleep |

The remaining runs are counterexamples to what the repository says of itself,
each with a finding:

| run | the code |
|---|---|
| `accepts_nothing` | no connection is ever accepted (`tcp_server.cpp:81`), although the loops of gateway and engine go round for ever |
| `best_bid` | the entry of the bids moves to a level in the middle (`me_order_book.h:130`) |
| `sequencer_drops` | on a connection that was given, of the requests of one pass all but the first are dropped (`fifo_sequencer.h:47`) |
| `recovery_never_ends` | no snapshot is ever accepted: `next_snapshot_seq` does not count the `SNAPSHOT_START` (`market_data_consumer.cpp:60`) |

`recovery_never_ends` cannot be mended in that one place. With a `Complete` that counts
the marks too, `RecoveryEnds` holds, and then `FollowsTheStream` and
`NothingThrownAway` fail when datagrams are reordered: the `SNAPSHOT_END` of a
newer snapshot is taken with the state of an older one, because the messages of
two snapshots have the same numbers.

The modules contain more of what the code does against its intention. These
behaviours have no run of their own; the passing runs and theorems name the
condition under which they stay away:

* the entry of the bids can be overwritten by a level of asks
  (`me_order_book.h:136`), and two prices that are equal modulo the table's
  size share a level (`me_order_book.h:69`): both set `mislinked`;
* after levels were misplaced, the search for the place of another can go
  round a cycle for ever (`me_order_book.h:105`; `LoopsAdvance` speaks of
  books without a misplaced level), and an order that left the book can be
  filled again. The update of such a fill fails the ASSERT of the synthesizer
  (`snapshot_synthesizer.cpp:48`; `ExitNeedsCause`);
* a pool made for n elements holds n - 1: `allocate` looks for the next free
  block before it returns (`mem_pool.h:29`; `CrashOnlyIfMislinked` counts
  with it, for orders and for levels);
* the ring has no full test (`lf_queue.h:26`): with more elements in flight than
  slots, the slot under the reader is overwritten (`MaxBacklog <= Size`). For
  the publisher's copy after the release one slot less is safe: with
  `MaxBacklog = Size`, `SnapshotSeesTheStream` is violated
  (`MaxBacklog < Size` in the run and the theorems);
* a client that names two resting orders alike cannot cancel the first any more
  (`me_order_book.h:231`; `ClientIndexKept` says when an entry may change);
* `checkForMatch` takes the 64 bit market order id as a 32 bit quantity
  (`me_order_book.cpp:97`; `QtyModulus`);
* a client that reconnects is locked out, because it stays bound to the socket
  that was closed (`order_server.h:62`; `SessionBinding`);
* what a non-blocking send leaves over is discarded (`tcp_socket.cpp:84`): replies
  get lost, and when one was cut in the middle, everything behind it is
  misframed. Up to there replies are never reordered (`RepliesInOrder`);
* the result of `connect()`, 0 on success, is the condition of an ASSERT
  (`socket_utils.h:148`; `Start` of the publisher has both outcomes);
* eight bytes of an update are sent, the size of a pointer
  (`market_data_publisher.cpp:20`): what the publisher sends and what the
  consumer reads do not fit together, so each is checked with a peer of its own;
* nothing starts the synthesizer, so its queue is written and never read
  (`market_data_publisher.h:21`). If it ran: the table has a million tickers, and
  between two orders their CLEARs, some 44 MB, fit the 64 MB of the socket's
  buffer but no datagram (`snapshot_synthesizer.cpp:105`). The model's table is
  small and a datagram has no size limit;
* nothing bounds the inner loop of the synthesizer (`snapshot_synthesizer.cpp:134`):
  while its queue is never empty, it does not look at the clock
  (`EveryUpdateInASnapshot` has that as its condition);
* a datagram that comes twice is a gap for the consumer as well, and in the
  recovery that never ends the queue of incremental messages grows for ever.

### Bounds, and why they are enough

* `mem_pool`: six blocks. The code compares indices only; six have every
  pattern of holes on both sides of the cursor and every wrap. The proofs
  cover all sizes.
* `lf_queue`: three slots, eight pushes: both indices wrap twice, and a push
  and a pop overlap in every way. The proofs cover all sizes.
* `order_book`: five orders of two clients that name all their orders alike,
  four bid and two ask prices, quantities 1 and 2, a table of five prices: 10
  and 15 share a place, on one side and across the sides. Three levels on a
  side (misplacement in both directions), three orders at a level, partial and
  full fills, fills over two levels, removal at the head, in the middle and at
  the end. Each pool has five blocks, so a fifth live order ends the process in
  a well linked book. That the pool of levels runs out before that of the
  orders needs more orders than a run can have; there the theorem
  `CrashNeedsCause` speaks, for all sizes of both. Two bounds are stated in
  `MCMEOrderBook` (`Bounded`): past a misplaced level no fifth order comes
  (`MaxWhenMislinked`), and only the first and the third order may ask for two
  (`LargeOrders`), enough for a partial fill on either side and a fill of two
  orders. `best_bid` has three orders and neither of the two bounds. Books of
  different tickers share nothing.
* `order_server`: two clients, two connections, three requests, numbers 1 and
  2, one of the first two requests may trade. The server was given one of the
  connections (`OneRegistered`); when a request on it is reported together with
  the listener, the other may be accepted. Repetition, a gap, the wrong
  connection and a client that leaves all need at most two requests of a
  client; the third is the other client's or a retry. `MaxPending = 2`
  stands for 1024 and is reached.
* `accepts_nothing`: no connection is given (`NoneRegistered`); one client, one
  request. `sequencer_drops`: two requests on the connection that was given.
* `market_data_publisher`: four slots, at most three elements in flight, nine
  updates (two turns and more of the ring), a buffer of five records: a burst
  fills it, and pauses empty it. The proofs cover all sizes.
* `snapshot_synthesizer`: two tickers of a table of three, three ids and a pool
  of three blocks (of which two can be handed out), four updates: every
  interleaving of the two books, an order told smaller twice, an order told
  smaller or gone after it was gone, ids that reach the table's end, the pool's
  end. After the fourth update the queue stays empty, so the condition of
  `EveryUpdateInASnapshot` fails only where the thread was stopped or the
  process ended. Side, price and quantity are carried along
  and compared with nothing, so one of each will do.
* `market_data_consumer`: four updates in datagrams of one or two, two faults,
  two datagrams of snapshots on the way: a loss and a repetition, a loss and an
  overtaking, two losses. The proofs cover all numbers. `recovery_never_ends`
  needs one fault.
* `logger`: two calls, every format of up to three characters, none, one or two
  values: doubled, single and trailing `%`, in a run of three as well, and more
  or fewer values than placeholders.
* Symmetry: clients (book, gateway), in safety runs only. The connections of the
  gateway are not symmetric: one is given. The runs of the publisher,
  synthesizer, consumer and logger have liveness and no symmetry.
* Views: `MEOrderBook` hides the messages, which no step reads, and what is
  left in returned blocks as long as the book is well linked (no pointer leads
  there: `LevelsSorted`, `QueuesInTimeOrder`, `ClientIndexSound`). Past a
  misplaced level the view keeps everything, so of well linked states that
  differ only in returned blocks one is continued past it. `OrderServer` hides
  the time of requests that left the pending array, and events that would not be
  reported.
* `WhenLookedAt` (`order_server`, synthesizer) delays what other actors do
  until the thread looks at it. Their steps commute with every step of the
  thread in between, and none of the properties mentions their variables
  alone. The counterexample runs do not use it.

Deadlock is not checked where the process may end (`ASSERT`, `FATAL`, a null
pointer) or a bound is reached.

### Fairness

* `LFQueue`: a push that began goes on and the consumer polls for ever (both
  are loops of a thread without a wait). Beginning a push is never forced.
* `MEOrderBook`: none. That its loops end is an action property
  (`LoopsAdvance`: every round gets nearer to the end).
* `OrderServer` (`FairSpec`, of `accepts_nothing` only): the loop of the gateway
  and the loop of the engine never block (`epoll_wait` with a timeout of 0,
  `MSG_DONTWAIT`, spinning on the queue). Peers are never forced to do anything.
* `MarketDataPublisher`: its thread never blocks, and the engine finishes a
  push it began. Neither `start()`, `stop()` nor a push is forced.
* `SnapshotSynthesizer`: its thread never blocks, and a minute passes. The
  books are not forced to write, nor to pause.
* `MarketDataConsumer`: weak for the handling of a datagram and for the senders
  of snapshots (which send them again and again), strong for the receipt of the
  datagram that is next on each group: `run()` polls both sockets in every
  round, but which of the two has the turn, and that the recovery leaves and
  joins a group, would let a weakly fair one wait for ever. Faults and `stop()`
  are never forced, losses neither.
* `Logger`: its thread wakes up and writes; a call of `log()` and the destructor,
  once begun, go on.

## Proofs

The proofs hold for all values of the constants that satisfy the assumptions in
the modules. They are checked by `tlapm` to the last leaf.

* **`MemPoolProofs`**: type correctness; `NextFreeSafe` (the cursor stands on a
  free block; inductive with the type invariant alone, since the scan ends on
  a free block and `deallocate` only frees); `ReuseIsRoundRobin`.
* **`LFQueueProofs`**: two invariants. Under any load (`AnyLoadInv`): a push
  and a pop under way have passed their tests, and what they saw of the counter
  still holds, because only the other thread moves it the other way. That gives
  the types and `NeverInvalidRead`: the `ASSERT` in `updateReadIndex` holds
  however far the producer runs ahead, so it cannot find out an overrun. Under
  `MaxBacklog <= Size`: `QueueIsFifo`. The property is not inductive; `IInv`
  adds that the counter is the written minus the read elements, corrected by
  where the two threads are (`CounterInv`), that the write index is that many
  places after the read index (`IndexInv`) and that the slots in between hold
  the numbers in order (`ContentInv`). The load assumption is needed where a
  push starts: the slot it tears is not one in between. From the same invariant
  `ActsAsChannel`: every step of the ring is a step of `Channel` or changes
  nothing of it, the safety part of `ImplementsChannel`.
* **`MEOrderBookProofs`**: everything that `order_book` checks. The invariant of
  the whole book (`BookInv`) has three parts, because the code keeps some of its
  promises past a misplaced level and the others not:
  1. `IInv`, with no condition: types, and the client index. Types are not
     inductive alone: a pointer read from a level must lead to a level that was
     created, so that it has a first order (`LinkInv`), and the order that `add`
     works on must not be live before it rests and must be live while its level
     is placed (`TakerInv`). The removal of an order only clears the entry of its
     own client, so an entry of another survives with a live order
     (`IndexSound`).
  2. `StructInv`, with no condition either: the orders of each entry of the
     price map form one ring in the order of their arrival, both ways, and the map
     and the live levels lead to each other (`BookHangsTogether`). From it
     `CancelWorks`: the neighbours of a live order are never null, and the last
     order of a level takes with it a level that is in the map.
  3. `ListInv`, while nothing is misplaced: every order is at a level of its own
     price, the levels of a side are a ring from best to worst
     with the entry at the best, and no bid reaches an ask. While a new level
     is being placed the ring is that of the others, and the search stands
     on one of them (`WalkInv`). Ranking prices by side (`Rank`) makes one
     argument do for both sides, and the same notion of a ring (`Ring`)
     serves levels and orders, so that inserting and removing is proved once.
     `CrashOnlyIfMislinked`, `QuietInv` and `OwnerInv` complete it: a crash has a
     cause, between requests nothing is left to fill, and a live order has a
     client and the client's name for it.

  From `BookInv` follow `LevelsAreSorted`, `QueuesAreInTimeOrder`,
  `CrashNeedsCause`, the action properties (`BothLoopsAdvance`,
  `TradesAreHeard`, `UpdatesAreComplete`, `NamesStayKnown`) and the refinement
  `ImplementsPriceTime`, one case for each action: `match` fills at the touch,
  which is the first of its side (`MatchFills`), and an order rests only after
  the search found nothing that crosses. The abstract book itself is proved in
  types and `NeverCrossed`, for all sets of integer prices and
  positive quantities and any number of orders, without a look at the pointers;
  the refinement carries its promises over to them: `PointersNeverCross` and
  `PriorityOfPointers` (that the price-time book fills by price and time is its
  definition; that the pointers do is not). The parts of the invariant were checked with the bounds
  of `order_book` before they were proved.
* **`OrderServerProofs`**: `RequestsInOrder`, `SessionsAreBound`,
  `PassesAreClosed`, `SocketIsKnown` and the types, each an invariant of its
  own with the parts it needs: what is pending rises after what is published
  and stays below the next expected number (`OrderInv`); what was accepted came
  in on the socket the client is bound to (`BoundIn`), what goes out is on it
  (`BoundOut`); whoever the engine owes an answer has a socket (`KnownInv`);
  something is pending only between a read and the publication (`PassInv`). No
  step takes a client's socket away: that is what makes the session proofs go
  through, and it is also what locks a client out that reconnects. That a
  closed socket's erasure leaves sockets is an induction over a sequence; it is
  done with a least counterexample (`LeastElement`), because the library's
  induction schema is out of reach. For `RepliesAreNumbered` the responses that
  wait are matched with the numbers still to be given: those of a client are
  all from the next number to the last one made, in order (`WaitingInv`), so
  the first to be sent has its rank as its number; and what is in a buffer
  rises after what was delivered (`SentInv`), which a send keeps whatever
  prefix the kernel takes, and so does the discarding of the rest.
  All these hold for every `Registered`. For the empty one, the program as it
  is, `AcceptsNothing` says that no socket is ever received from and nothing is
  published: an event of the listener alone accepts nothing, and no other can
  come before a connection is accepted (`DeafInv`).

* **`MarketDataPublisherProofs`**: under `MaxBacklog < Size`,
  `SynthesizerSeesTheStream`, `StreamNumbered`, `StopIsClean` and the types. The
  queue's invariant is not proved again: every step of the publisher is a step
  of `LFQueue` or leaves it alone, so `LFQueueProofs` is instantiated
  (`QueueInv`). On top of it: where the thread is in `run()` and in the pop go
  together (`PlaceInv`); one slot stays free, also while an element is being
  released (`SlackInv`); the slot in hand has the update of the number in
  hand (`SlotInv`), which the engine's filling of a slot keeps because the slot
  just released is the last one a turn of the ring gets to (`OtherSlot`).
* **`SnapshotSynthesizerProofs`**: `ExitsForCause`, the types and
  `TableFollowsBooks` (the table of live orders is the books after the updates
  taken, the number a snapshot carries), for any tickers, prices, sizes and
  number of updates. The ASSERTs compare an update with what earlier ones left,
  so three facts go together: the table is the books as far as the log was
  taken (`TableInv`); the books tell only what follows from their own orders,
  those that were told as gone included (`LogInv`); what was taken had an id
  within the table (`RowInv`). Of the conditions of `addToSnapshot` only the two
  limits can then fail, and that the order is there when it was told as gone
  before (`OnlyCauses`). The last update that names an order exists because each
  append names at most one place (`Lasts`), which avoids an induction over the
  log. `SnapshotsAreTheBook` then needs what the two loops of
  `publishSnapshot()` compute. They are recursive functions; that such a
  recursion has a solution (`JoinExists`), and that it puts its blocks one
  behind the other without a gap (`JoinedBlocks`), is shown with a least
  counterexample for any blocks, and used twice: the orders of a row, the rows
  of the table. What the messages tell is kept as a fact about the books at the
  snapshot's number (`SnapInv`), which later updates do not change
  (`PastStays`).
* **`LoggerProofs`**: `FormatIsRendered`, `DiskHasWhatWasSeen` and the types,
  for all formats and values and any number of calls. The second needs one fact
  about the thread: outside its inner loop all that it saw is on the disk
  (`DiskInv`). The first is about a state in the middle of a call, at the head
  of the loop of `log()`: how many places of the format are done says what is
  left of the format and of the values and what the queue ends with, and a `%`
  that the loop stands before is the first of two or alone (`InCall`). That the
  loop looks one character ahead is the same as counting the `%` that end at a
  place (`PercentsNext`); that values and places that want one run out together
  is counting those (`ValuedNext`). Texts are put together by recursive
  functions, which again get a solution and agree with each other by a least
  counterexample (`Assembled`, `SameRounds`).
* **`MarketDataConsumerProofs`**: `StreamFollowed`, `ArrivedIsKept`, the types
  and `NoSnapshotEndsRecovery`, for any number of updates, faults and
  datagrams. The heart is what `checkSnapshotSync` can do. Between two records
  the queue of the snapshot is `Quiet`: empty, or a start under number 0 alone.
  One more message of whatever number never gets past the first three tests and
  leaves a quiet queue (`OneMoreWaits`). Hence the snapshot branch never passes
  anything on: the stream is what was received in order before the first gap
  (`StreamInv`), and what arrived is in it or queued (`ArrivedInv`). The two
  safety theorems therefore say less of this code than they would of one that
  does recover; the properties themselves speak of snapshots too, and TLC finds
  them broken in the attempt at a mend described above.

### Model-checked only

* All liveness (`EveryElementRead` and the liveness of `ImplementsChannel`,
  `EveryUpdateIsSent`, `EveryUpdateInASnapshot`,
  `ReliableMeansDelivered`, `EverythingIsWritten`): liveness under fairness is out
  of the prover's reach. `BothLoopsAdvance` has what the termination of the
  book's loops rests on: each round lowers a natural number or goes on in
  a finite strict order.
* The four counterexamples: they are about one schedule each. That no schedule
  of the program accepts a connection is the theorem `AcceptsNothing`, and that
  none ends a recovery is `NoSnapshotEndsRecovery`.

## Not modelled

* `exchange_main.cpp` and `thread_utils.h`: the components are built, started and
  deleted by one thread, and only sleeps of seconds keep a deletion from the
  threads that use what is deleted. An untimed model would report every use
  the sleeps exclude.
* The trading side's `MarketOrderBook`: `onMarketUpdate()` has no body, so the
  lists that `updateBBO()` sums over are never built.
* Build files, editor settings, `socket_example.cpp`: no part of the exchange.
* Socket options and addresses (`socket_utils.h`), conversions to strings, times
  in log lines.
* Requests with ids beyond the tables. A client order id is looked up with `at()`,
  which throws in a `noexcept` function and ends the process at once
  (`me_order_book.h:231`, `me_order_book.cpp:175`). A client id and a ticker are
  indices of `operator[]` (`order_server.h:61`, `matching_engine.h:36`), so one
  beyond the tables is undefined behaviour, of which there is no state to
  explore. The constructor of `MEOrderBook` initializes neither of its
  hash maps; the object is larger than two gigabytes, so this build gets it as
  zero pages, and `Init` says null. The array of `SnapshotSynthesizer` asks for
  eight terabytes; its dimensions are constants here. `epoll_wait` is told of
  more events than `events_[1024]` holds only beyond 1024 sockets.

## Plan

Done: all components with behaviour of their own, as above. Left, in this order:

1. `MatchingEngine` composed of `PriceTimeBook` and two `Channel`s with a
   gateway that was given its connections: every published request is answered, and responses of an order come
   in the order of its life.
2. Proofs about that composition, from the theorems about its parts.

## Running it

    tlc -workers 2 -config OrderBook.cfg MCMEOrderBook
    tlapm MEOrderBookProofs.tla

with the configuration and module of each run in `PROJECT.json`. `order_book`
and `order_server` take two to three minutes each, `snapshot_synthesizer` and
`logger` about half a minute, the others seconds.
