# NanoVaultDb in TLA+

NanoVaultDb is a C++ database with two halves: a small SQL engine that stores
tables in flat files with B+ tree indexes, and a high-frequency-trading (HFT)
side that receives market data, keeps limit order books, computes indicators
and strategies per packet and streams signals to WebSocket clients.  This
directory models the parts of it that carry state and make decisions.  Paths
below are relative to the repository's root (`src/` here).

- [1. The system](#1-the-system)
- [2. Modules](#2-modules)
- [3. Checks](#3-checks)
- [4. Proofs](#4-proofs)
- [5. What the models leave out](#5-what-the-models-leave-out)
- [6. Findings](#6-findings)
- [7. What could come next](#7-what-could-come-next)

## 1. The system

| part | code | state | operations |
|---|---|---|---|
| Order book | `hft_clean/src/order_book.cpp`, `hft_clean/include/order_book.hpp`, `price_level.hpp`, `types.hpp` | order map, bid and ask ladders of FIFO levels, sequence numbers | `add_order`, `cancel_order`, `modify_order`, `clear`, depth and BBO queries, callbacks |
| Memory pool | `hft_clean/include/memory_pool.hpp` | slab, stack of free slot indexes | `allocate`, `deallocate`, `reset` |
| Market data handler | `hft_clean/src/market_data_handler.cpp` | books and adapters per exchange and symbol | `get_or_create_book`, `register_adapter`, `feed`, `apply_delta` |
| Exchange adapters | `hft_clean/src/exchange_adapter.cpp` | none beyond the callback | parse a Binance or Zerodha message into deltas |
| Binance synchronisation | `hft_clean/binance.hpp` | frame buffer, snapshot id, flags shared by two threads | snapshot, replay of buffered frames, live frames, gap detection, bounded resync |
| Feed threads | `UDPReceiver.hpp`, `tradePackets.hpp`, `hft_storage.hpp` | packet, trade and signal queues, history rings | receive, parse, run indicators and strategies, forward signals |
| Signal server | `web_socks_og.hpp` | session list, signal queue | accept, join, leave, poll the queue and broadcast |
| Indicators, strategies | `IndicatorHandler.hpp`, `strategyHandler.hpp`, `pool.hpp`, `strategyPool.hpp`, `fastindicator/`, `faststrategy/`, `hft.hpp` | per-symbol tables of callbacks, rolling sums | register on a symbol, run once per packet |
| Batch writer | `batchWriter.hpp`, `io_uring_queue.hpp` | tick counters, file offset, io_uring | flush the history every n ticks |
| Queues | `utils/spsc.hpp`, `utils/mpmc.hpp`, `utils/work_stealing_deque.hpp` | ring buffers and atomics | push/pop, enqueue/dequeue, push/pop/steal |
| Thread pools | `threadPool.hpp`, `hft_clean/binance.hpp` | task queue, stop flag | enqueue, worker loop, destructor |
| Table storage | `utility.hpp`, `generator.hpp`, `initialLoad.hpp` | `.index`, `.data`, `.delete` files, schema cache, table locks | create, drop, insert, update, delete, vacuum, load |
| B+ tree | `storageTree.hpp` | nodes, parent and leaf links, node and tree locks | insert, search, remove with rebalancing, scan |
| Key-value store | `generator.hpp` (712-797) | map with expiry, expiry heap | set, get with lazy expiry, expiry thread |
| Statement log | `logging.hpp`, `shell.cpp`, `main_db_class.hpp` | one log file | log before a statement, clear after it, replay at start |
| SQL front end | `SQL_LEXER.hpp`, `SQL_PARSER.hpp`, `selectAstEvaluator.hpp` | tokens, current database | tokenise, parse and dispatch, evaluate WHERE |
| Schema files | `json.hpp`, `databaseSchemaReader.hpp`, `meta_data.hpp` | JSON documents | load, edit, save |
| SQL server | `network_server.cpp`, `db_engine.cpp`, `nano_vault_db_networking/src/main.rs` | listening socket, one thread per client | split the byte stream at `;`, run, answer |
| Vendored and peripheral | `websocketpp/`, `third_party/`, `include/nlohmann`, `asio/`, `orderbook/` (an unfinished second order book that nothing includes), benchmarks, demos | | |

How they interact.  Three pipelines cross the HFT side: (1) `BinanceSync` pulls
a snapshot into a book while a second thread buffers the depth stream, then
feeds the frames through `MarketDataHandler` and an adapter into
`OrderBook::add_order`; (2) trade and candle streams go through
`tradePacketsQueue` to the trade handler, which, like the UDP receiver, pushes
packets into `PacketParseQueue`; the packet parser updates history rings, runs
the indicators and strategies of the symbol and counts ticks for the batch
writer; (3) strategy results go through `webSocketsPacketParser` and
`web_socket_queue` to the signal server.  On the SQL side the lexer and parser
dispatch to `generator.hpp`, which works on the table files and on the B+
trees of `dbBtrees` under per-table locks.  Statements run in one thread, that
of the shell or of the caller of `NanoVaultDB::execute`; the server that would
run one thread per client (`network_server.cpp`) does not compile at this
commit.  Tables are vacuumed at the start of `NanoVaultDB`; `main.cpp` has the
vacuum and the statement log commented out, and nothing starts the six-hourly
vacuum thread and the expiry thread of the key-value store.  The HFT side runs
beside the statements: five pinned threads, and a pool of eight for streams.

What is hard in each part, and what makes it right:

- *Order book*: one call touches the pool, the map, two ladders and a linked
  list in an order that keeps each consistent with the others, while it walks
  the list that it takes apart.  Right: slots partition into free and owned,
  levels list exactly the resting orders in arrival order, totals are the sums,
  the book never crosses, trades follow price-time priority, FOK is all or
  nothing, every call returns.
- *Binance synchronisation*: snapshot and stream race on two threads.  Right: a
  live book has seen every update, and what the snapshot lacks once, or a gap is
  reported; nothing of an abandoned cycle stays; resync is bounded.
- *Feed threads and queues*: lock-free rings meant for one producer and one
  consumer.  Right: what is popped was pushed, in order, once; only a full
  queue loses anything, and the threads can be stopped one after the other.
- *Table storage*: three files, the caches and the trees change one after the
  other.  Right: after a restart the rows are those of the statements that
  finished; the tombstones line up with the rows; no two live rows share an
  id; a vacuum changes no visible row; an index built from the files holds
  exactly the live rows.
- *B+ tree*: splits and merges of one writer beside scans that take no table
  lock.  Right: a search finds what was stored, leaves are chained in order,
  nodes are linked both ways and a scan misses nothing.
- *Thread pool*: sleeping workers, a stop flag, tasks that do not end.  Right:
  each task is started once, no wake-up is lost, nothing queued is dropped.
- *Statement log*: replay.  Right: a statement interrupted by a crash takes
  effect at least once.
- *Registration of strategies*: a session fills an array that the packet parser
  reads without a lock.  Right: what was stored stays callable and no two names
  share a place.

`PROJECT.json` lists every hazard at its line.

## 2. Modules

| module | models | kind |
|---|---|---|
| `MemoryPool` | `Book::MemoryPool` | component: variables `free_list`, `free_top` and one action per operation |
| `OrderBook` | `Book::OrderBook` on top of `MemoryPool` | component: every operation that changes state |
| `MatchingEngine` | price-time priority matching | abstract specification |
| `MCOrderBook` | finite values for the constants of `OrderBook` | model-checking module |
| `SPSCQueue` | `SPSCQueue<T, Capacity>` | component: `push` and `pop`, one step per visible load or store |
| `BoundedQueue` | a FIFO queue of bounded length | abstract specification |
| `BPlusTree` | `BPlusTree<K, V>` with one writer and scans | component |
| `MCBPlusTree` | finite values for `BPlusTree` | model-checking module |
| `TableStorage` | a table's files, its trees, the statements, vacuum, start, the statement log | composition of storage and log |
| `BinanceSync` | both threads of `binance.hpp`, the exchange, what the book holds | component with its environment |
| `FeedThreads` | receiver, trade handler, packet parser, strategy parser, poller, session, shutdown | composition over bounded queues |
| `ThreadPool` | `threadPool.hpp`, the streams it runs, the end of the program | component with its environment |
| `OrderBookProofs` (with `MemoryPool`), `SPSCQueueProofs`, `BinanceSyncProofs`, `FeedThreadsProofs`, `ThreadPoolProofs`, `TableStorageProofs`, `BPlusTreeShapeProofs`, `BPlusTreeProofs` | | theorems |

### OrderBook

| variable | code |
|---|---|
| `orders` | `order_map_`, with the `Order` of each id, its links `prev` and `next` and the pool `slot` that holds it |
| `ladder["BUY"]`, `ladder["SELL"]` | `bid_ladder_`, `ask_ladder_`: price to `PriceLevel` |
| `free_list`, `free_top` | `order_pool_` |
| `order_id_seq` | `order_id_seq_` |
| `bbo` | what `notify_bbo` last passed to `on_bbo_update` |
| `pc`, `call`, `at`, `cur`, `fills` | the stack of the call in progress: where it stands, its arguments, `it->first` and `cur_id` of `match_order`, and the number of trades in `result.fills` |

The engine is single threaded ("Single-threaded by design",
`hft_clean/include/market_data_handler.hpp`), so a call that has started runs
to its end.  It is nevertheless a chain of steps and not one action, because
`add_order` calls `on_trade` and `on_order_filled` between fills and whoever
listens may read the book there: invariants about the book are checked after
each fill.  `cancel_order` and `clear` call back only at their end and are one
step each; `modify_order` is the cancellation and then the steps of
`add_order`.  The steps of `add_order`:

    add_order -> RejectOrder                              bad arguments, pool empty
              -> KillOrder                                FOK that cannot be filled
              -> AdmitOrder -> EnterLevel -> FillMaker ... FillMaker -> LeaveLevel
                               (next level)                                 |
                            -> EndSweep -> RefusePostOnly | CompleteTaker | RestTaker | AbandonTaker

Two details matter.  After a walk the code reads `it->first` although
`fill_order` may have erased the node `it` points to; the read value is then
arbitrary, and `LeaveLevel` lets it be the price of any level or of none.  And
`add_order` has no branch for a MARKET order with a rest or a POST_ONLY order
that did not cross: such an order stays in the map and in its slot but in no
level (`AbandonTaker`), and `cancel_order` later treats it as if a level held
it.

`MatchingEngine` knows resting orders and at most one active order.  `OrderBook`
implements it under the mapping `Engine`: resting orders are the LIMIT orders
of the map that are not being added, whether or not the lists and totals agree;
so the refinement says that the lists and totals steer the engine to the right
trades, in price-time priority, that a FOK order is accepted only if it can be
filled and never leaves part filled, and that what rests is what did not trade.

### SPSCQueue

| variable | code |
|---|---|
| `head`, `tail` | `head_`, `tail_` |
| `buffer` | `buffer_` |
| `producer[p]` | the call of `push` in thread `p`: where it stands, its argument, its local `h`, the last value of `tail_` it saw, and the last answer |
| `consumer` | the call of `pop`: where it stands, the last value of `head_` it saw, the caller's variable, and what the last successful call returned in it |

    push -> LoadTail (full: return false) -> WriteSlot -> Publish (return true)
    pop  (empty: return false) -> ReadSlot -> Release (return true)

An acquire load may return an old value: the one the thread saw last or any
later one (`Loadable`).  The slots are plain memory; release and acquire make
the slot visible with the index, and `NoSlotRace` is the proof obligation that
goes with treating them so.  The indexes are `size_t` counters that wrap, at
2^64 in the code and at `IndexValues` in the model; nothing else bounds a run.
What a thread pushes, and whether it tries again after `false`, is open, since
the callers do both: the receivers drop and count, the packet parser and the
stream threads spin, the strategy parser ignores the answer.

`BoundedQueue` sees a push as begun, then accepted or refused, and a pop as one
step.  `SPSCQueue` implements it with the items between `tail` and `head` as the
queue: a push takes effect when it publishes the index, a pop when it gives up
the slot.  A refusal may be spurious, because the producer may not have seen
the latest pop.

### BPlusTree

| variable | code |
|---|---|
| `node` | the allocated nodes: keys, values or children, `next`, `parent` |
| `root` | `root` |
| `call` | the writer's call in progress: where it stands and its node or key |
| `scan[s]` | a `forEachKey` in progress: the next leaf, and for the properties what it has met and what was stored meanwhile |
| `stored` | what the finished changes of leaves amount to |

    insert -> insert_into_leaf -> split_leaf -> insert_into_parent -> split_internal -> ... | NewRoot
    remove -> delete_from_leaf -> rebalance -> borrow_from_left | borrow_from_right
                                            | merge_with_left | merge_with_right -> Relock

INSERT, UPDATE and DELETE change a tree under the table's mutex, so that there is
one writer; STATISTICS scans without that mutex and meets it at `tree_mutex`
and the leaf's lock only.  Each step is one stretch under a lock.  Two
undefined behaviours are modelled by their outcomes: a merge that leaves its
parent short calls `handle_underflow` for it with the parent's mutex held, and
going on there locks it again (`Relock`: the library throws, or the thread
hangs); and an empty root is deleted together with the child that has become
the root, after which `root` is no allocated node and nothing is followed.

### TableStorage

| variable | code |
|---|---|
| `files`, `present`, `fresh` | `.index`, `.data`, `.delete`; which exist; the `.new` files of a vacuum |
| `moved` | removes and renames done by `replaceFile` |
| `log` | `logging.txt` |
| `ids`, `keys`, `built` | the trees in `dbBtrees` on the primary key and on the UNIQUE column, and whether they are those built at start |
| `phase`, `stmt`, `scan`, `pending`, `replaying` | the stack of the one thread; `pending` is the tombstone still in the stream's buffer |
| `before`, `kills`, `cut` | for the properties: the table at the start of the statement, and how it was interrupted |

    Start -> CopyRows -> RemoveOld, RenameNew (three times) -> LoadTrees -> ReadLog -> ready
    Submit -> BeginInsert -> WriteTombstone -> WriteData -> WriteIndex -> ClearLog -> ready
           -> BeginScan -> (SkipRow | KillRow [-> WriteTombstone -> ... ])* -> EndScan -> ClearLog
           -> NewTrees | Refuse

One step per write to a file; `Crash` (the process is killed) may come between
any two.  What was written stays (the operating system runs on), what a stream
had buffered is lost.  The model follows `NanoVaultDB` with its shell: vacuum at
start, log, replay.  After a kill inside `replaceFile` the files are of two
generations and the model stops (`wrecked`).

### BinanceSync

| variable | code |
|---|---|
| `updates`, `framed`, `wire` | the exchange: its update ids, those packed in frames, frames on the connection |
| `buf`, `state` | `SyncBuffer`, `SyncState` of the cycle |
| `ws` | `ws_thread`: where it is, its frame, `last_u` |
| `sync` | the thread in `execute()`: where it is, the frames it has drained |
| `resync_count`, `book` | `resync_count`; the updates fed into the book, each with its cycle and its way: with the snapshot, in the replay, or live |

The exchange packs all updates since the last frame into one, and may lose
frames.  The snapshot may be older or newer than the stream.  Connecting,
reading, parsing and the snapshot may fail, the snapshot also after it has put some
levels into the book.

### FeedThreads

| variable | code |
|---|---|
| `at` | where each of `worker_threads` is in its loop |
| `parseQueue`, `stratQueue`, `webQueue` | `PacketParseQueue` (counted), `webSocketsPacketParser`, `web_socket_queue` |
| `packets`, `dropped`, `sent`, `lost` | packets that came, `dropped`, signals broadcast and signals that no queue took |
| `next`, `decided`, `signal` | `process_packet`'s position, numbers of the decisions, and the one each parser holds |
| `index`, `entries`, `slot` | `strategyIndex`, `strategys`, `strategysIndexStorage` |
| `reg`, `closing` | the session in `parsingAddStrategy`; the thread being joined at the end |

Calling an entry without a function, or one behind the array, ends the program
(`CallNothing`).  `std::jthread`s of a vector are destroyed one after the
other: each is asked to stop and joined before the next is asked.

### ThreadPool

| variable | code |
|---|---|
| `at`, `task` | where each worker is, and the stream it runs |
| `mutex`, `tasks`, `stop` | `queue_mtx_`, `tasks_`, `stop_` |
| `main`, `enqueued`, `started` | the session's thread; tasks enqueued and started |
| `frames`, `handler` | places taken in `tradePacketsQueue`, and whether its handler is still there |
| `spurious` | wake-ups without a cause |

A worker's look at the queue and its block are two steps, with the mutex held in
between; everything else under the mutex is one.

An operator whose comment starts with "Mutant of X" is a variant of X with one
plausible slip in it.  No specification uses it; `PROJECT.json` says which
property fails when it takes the place of X.

## 3. Checks

| run | what is open | checks | bounds | distinct states |
|---|---|---|---|---|
| `order_book` | LIMIT, IOC, FOK orders | type invariant, pool partition, uncrossed book, level lists, level totals, reported BBO, refinement of `MatchingEngine`, every call returns | 4 slots, 5 ids, 2 sides, prices 0-2, quantities 0-2 | 0.79 M |
| `order_book_all_types` | LIMIT, MARKET, POST_ONLY orders | pool partition also when orders are abandoned in the map | 4 slots, 4 ids, same values | 2.9 M |
| `post_only_totals` | LIMIT, POST_ONLY orders | the documented meaning of `total_qty`; violated, section 6 | same | |
| `spsc_queue` | one thread that pushes, one that pops | type invariant with one slot always free, no race on a slot, refinement of `BoundedQueue`, every item arrives | capacity 4, 8 index values, 2 items | 38 k |
| `two_producers` | two threads that push | a push that answers true has queued its item; violated, section 6 | same | |
| `b_plus_tree` | any insertions and removals beside a scan | type invariant; searches find what was stored, the chain of leaves is in order and complete, parents, depth and occupancy are right, a scan misses nothing | 5 keys, 2 values, nodes of 1-2 keys, 12 addresses | 0.72 M |
| `tree_integrity` | the same without scan | the integrity that `README.md:197` promises; violated, section 6 | 5 keys, 1 value | |
| `table_storage` | INSERT, UPDATE, DELETE, USE and refused statements, kills | type invariant; rows stay readable, other rows stay untouched, statements take effect at least once, the trees match the table | 4 statements, 2 values, 2 kills | 0.88 M |
| `vacuum_crash` | the same | the crash consistency that `README.md:205` promises; violated, section 6 | 2 statements, 2 kills | |
| `binance_sync` | cuts into frames, lost frames, failures, age of the snapshot | type invariant with the bound on attempts; a live book is contiguous, no frame is fed by both threads, the threads take turns, nothing is carried over, gaps have a cause, cycles end | 6 updates, 1 resync | 1.1 M |
| `feed_threads` | arrival, acceptance, decisions, failing registrations, time of the shutdown | type invariant; no signal is lost on the way, null entries are called only where one was not stored, shutdown ends, signals are served | 2 packets, 3 registrations, limit 3, queues of 1 | 0.38 M |
| `thread_pool` | frames, ends of streams, spurious wake-ups, time of the exit | type invariant; each task once, none dropped, tasks start, destruction ends | 3 workers, 4 tasks, queue of 1, 1 spurious wake-up | 35 k |

### Bounds

*Order book.*  `MaxOrderId` caps the 64-bit id sequence; `clear` starts it again,
so behaviours are unbounded although ids are not.  Four slots and five ids let
the pool run empty, give a level a first, a middle and a last order to unlink,
and let a taker sweep two levels of two orders.  Two valid prices are enough
for every relation between a limit and a level; price 0 and quantity 0 are the
invalid values that validation rejects; quantities 1 and 2 give part fills on
either side.  `PRICE_MIN` and `PRICE_MAX` lie just outside the prices.

*Ring.*  Capacity 4 gives an oldest, a middle and a newest item; with 8 index
values each counter wraps after every second round of the slots.  Two items
tell order and duplication apart.  The code requires a power of two; nothing
depends on it and the proofs do not assume it.

*Tree.*  With nodes of one or two keys, five keys build three levels, and every
lender, every merge, the recursive lock and the collapse of the root occur.
The source's nodes are larger; only the counts differ.  Calls are unbounded.
Neighbouring keys hold different values, so that an exchange of entries shows;
key 3 is inserted with either value, so that INSERT also overwrites.

*Table.*  Four statements allow a removal that leaves ids and positions apart,
an insert behind it, an update that meets both and one more; two kills allow one
in a statement and one in its replay, or one in each of two statements.

*Synchronisation.*  Six updates fill buffer, snapshot, replay and live stream
with a frame to be lost in each, and one resync shows a second cycle and the
end of the attempts.

*Feed.*  Limit 3 with three registrations reaches the limit, which is refused
while the index stays raised; queues of one place are full at once; two packets
that two stored strategies see (the third entry is never stored) make up to four
signals, enough to fill every place on the way; `SignalsServed` speaks of each of them.

*Pool.*  Three workers: one blocked, one about to block and one running; four
tasks are one more than workers.  `QueueSize` 1 fills at once.

### Fairness

- Order book: weak fairness of `CallStep`, the steps of a call that has started,
  since the engine runs on the caller's thread and never blocks.  Nothing is
  assumed about new calls.
- Ring: a store becomes visible in finite time (a `pop` that sees the present
  head) and the popping thread goes on; nothing about the pushing thread.
- `BinanceSync`: both threads are scheduled; the exchange owes no frame.  That is
  why `CyclesEnd` excepts a thread that waits in `read()` for want of a frame.
- `FeedThreads`: weak fairness of each thread, since each is pinned to a processor
  of its own; nothing of `recvfrom`, of packets and of the session.
- `ThreadPool`: weak fairness of each worker, the handler and the session's thread
  once it has begun to enqueue or to exit; nothing of the exchange, so that a
  stream may wait for ever, which both liveness properties except.

### Deadlock

Checked in every run but three.  A tree's writer stops for good after a
recursive lock or at a tree without a root (`b_plus_tree`, `tree_integrity`);
`execute()` returns, or waits for a frame that never comes (`binance_sync`).  In the other
models the ends of the program are named actions.

## 4. Proofs

Checked by TLAPS for every capacity, every set of prices and quantities and
every bound on ids (`BookAssumption`, `CapacityAssumption`).

`OrderBookProofs`, for the slot allocator: a fresh or reset pool is sound for a caller that holds
nothing (`FreshPool`); `allocate` hands out a slot that nobody holds
(`AllocateSound`); giving back a held slot keeps the pool sound and never
writes past the array (`DeallocateSound`, by counting free and held slots with
the cardinality theorems).

For the book:

- `StructureHolds` is the inductive invariant `StructureInv`: types of both
  indexes, the partition of the slots, and what is known of the call in
  progress.  Two strengthenings make it inductive.  No link, head, tail or
  cursor names the order being added (`LastLinked`): without it a sweep might
  fill the taker against itself and release its slot twice.  The order being
  added has the side, type and limit of the call (`TakerMatchesCall`): without
  it an order with the extreme price of a MARKET order might come to rest.
  One lemma per action; the updates of the map and of the ladders are lemmas
  about the operators they are built from.
- `TypeCorrect` and `NoSlotLeaks`: `[]TypeOK` and `[]PoolPartition`, for all
  order types, abandoned orders included.
- `NeverCrossed`: `[]NotCrossed`, for all order types.  Only `RestTaker` adds a
  price to a ladder (`OnlyRestAddsPrices`), and `SweepInv` says that a taker
  with a rest reaches no level of the other side when its sweep ends.
- `BboReported`: `[]BboCurrent`, under the assumption that no MARKET or
  POST_ONLY order is submitted (`RestingTypes`); with one, the property is false
  (section 6).

For its levels and for the engine, under `RestingTypes` too, and for the same reason:

- The first lemmas are about sums over finite sets of integers, which the community
  module defines by a fold in an order that `CHOOSE` decides: any summand can be
  taken out (`SumRemove`), renaming does not matter (`SumRenamed`), and the sum of
  the levels' totals is the sum over their orders (`SumGrouped`).  They are
  inductions over the subsets of a finite set, stated without an operator as
  parameter: the set of counterexamples, if not empty, has a smallest member.
- `LevelsHold` is the inductive invariant `LevelInv`.  It describes a linked list
  without following it: the orders of a level are those of the map at its side
  and price (`At`), `prev` of each is the greatest older one and `next` the least
  newer one (`Chained`), and total and count are theirs (`Counted`).  Ids grow with
  arrival, so that appending is at the greatest id.  To be inductive it needs the
  place of a walk (`WalkInv`: the cursor is the head of the level at `it->first`, and
  no level is better), and from `StructureInv` and `NotCrossed` that the order being added is in no
  list and that the book never crosses, for a maker must not be on the taker's side.
- `ListsAreOrders`, `TotalsAreSums`: `[]LevelsListOrders` and `[]LevelTotals`.
  The first says that no level is without orders, and so that the clean-up after a
  walk, which reads a freed node, never removes anything.
- `BookImplementsEngine`: `Spec => ImplementsEngine`.  One lemma per action:
  `FillMaker` is a trade with the order of highest priority, because the head of
  a level is its oldest order and the walk is at the best level; `CompleteTaker` and
  `RestTaker` come when nothing is left to trade with; the others that do not
  change what rests are stutters.  Fill-or-kill needs one more invariant, `FokInv`:
  the rest of such an order never exceeds what rests within its limit.
  `can_fill_fok` establishes it, through the levels' totals, and each fill takes the
  same from both sides.
- `CallsAreFinite`: each step of a call that has begun makes the natural number
  `StepsLeft` smaller, which is at most four times the quantity and three.  A walk
  that has come to its end goes back to the loop over the levels; that the loop does
  not find the same level again rests on `LevelInv`, by which a level that is entered
  has a head in the map, so that something is traded in it.  `CallsReturn` adds only
  the fairness of a thread that keeps running.  With POST_ONLY orders neither holds
  (section 6).

`SPSCQueueProofs`, for one pushing and one popping thread, every capacity that
divides the number of index values, and every set of items:

- The first lemmas are arithmetic modulo `IndexValues` and `Capacity`; later
  ones use only the facts they state about `Distance`, `Succ`, `Loadable` and
  `Slot`.
- `RingHolds` is the inductive invariant `RingInv`.  The type invariant is not
  inductive: the test for a full ring uses an old tail, so `ProducerView` bounds
  the ring as seen from the tail that the producer saw last, and `ConsumerView`
  places the head that the consumer saw last between the real tail and head.
- `RingTyped`, `NoDataRace`: `[]TypeOK` and `[]NoSlotRace`.
- `RingIsQueue`: `Spec => ImplementsQueue`.  One lemma per action: `Publish`
  appends, `Release` takes the head, a failed test for room refuses, and all
  other steps leave the mapped state alone.

`BinanceSyncProofs`, for every number of updates and of attempts:

- `SyncHolds` is the inductive invariant `SyncInv`.  Besides types it says where
  the two threads can be together (`Control`), that every frame still to come
  begins after those the book has seen (`Ordered`), that what the book holds is
  dated by its cycle (`OwnCycle`), and, the strengthening that `LiveIsContiguous`
  needs, what the book is before the first live frame (`Contiguous`): the
  snapshot, or something that only frames behind a gap can follow.  For
  `FedByOneThread` it adds that what was replayed lies before all that is still to
  come, and that nothing is fed live before the gate is open (`Apart`).
- `SyncTypeCorrect`, `OneOwner`, `CyclesApart`, `LiveBookContiguous`,
  `NoFrameTwice` and `GapCaused`: all invariants of the run.

`ThreadPoolProofs`, for every set of workers and number of tasks: `PoolHolds` is
the inductive invariant `PoolInv`, in which started and queued tasks are numbered
on pointwise (`TasksNumbered`; `EachTaskOnce` as a concatenation follows), a
running task has been started (`TasksRunOnce`), and `stop_` is set exactly from
`SetStop` on (`LeavesLast`), so that a worker that sees it set and the queue empty
finds it so for ever.  `PoolTyped`, `TasksStartedOnce`, `NoTaskDropped`: all
invariants of the run.

`FeedThreadsProofs`, for every number of entries and registrations and every size
of the queues: `FeedHolds` is the inductive invariant `FeedInv`.  `Registry` says
that the k-th name has entry k - 1 and that the index counts the names but for one
that is being registered, whatever failed before; `Calling` that nothing moves
after a crash, so that `CrashNeedsUnstored` has only to be shown for the step that
crashes.  `FeedTyped` bounds `dropped` by counting the packet in flight.
`CrashesExplained`; `SlotsKept`, that no two names share a slot, a fact about the
session alone that is proved and not run.  `SignalsAreKept` is `[]SignalsKept`, by
`SignalInv`: the signals broadcast, queued and held, laid out in one line with a
zero for a thread that holds none, are the decisions but for the lost ones in their
order (`InOrder`), and a thread holds a signal only where it is about to push it.
Each step then moves a boundary in that line (`ParserPushes`, `HeadTaken`,
`HeldPushed`, `HeadSent`), adds at its end (`SignalAdded`) or leaves a gap
(`GapLeft`); zeros do not matter (`ZeroBetween`).

`TableStorageProofs`, for every number of statements and kills and every set of
values:

- The first lemmas are about the files: what each of the three writes of
  `insertRow` and a tombstone do to the rows (`NewTombstone`, `ValueAppended`,
  `RowAppended`, `TombstoneWritten`), and that the vacuum's copy holds the live rows
  and is sound (`CompactedFacts`; the rank of a position among the live ones is a
  bijection, `RankFacts`).
- `StorageHolds` is the inductive invariant `StorageInv`.  `RowsReadable` alone is
  not inductive: `FilesInv` adds the vacuum's copies and which of them have been put
  in place, and `PlaceInv` where a statement stands: the rows that a scan has left
  behind are dead, or not selected, or the one whose tombstone is in the buffer, and
  those it appended are alive (`ScanSound`); and between the writes of `insertRow`
  the byte and the value of the row to come are there.
- `StorageTyped`, `RowsStayReadable`: `[]TypeOK` and `[]RowsReadable`.
- `TreesMatch`: `[]TreesMatchTable`, by `TreesInv`, which says of the trees during a
  statement what the property says at rest, but for the key of the row to come.
- `RowsKept`: `[]OthersUntouched`.  `RowsInv` says it at every moment, of `Stored`,
  the rows that would be found if the program were killed now.
- `StatementsTakeEffect`: `[]AtLeastOnce`, by `EffectInv`.  The log holds the
  statement until its replay begins (`LogInv`); the numbers of rows before and now
  differ by what has been written and at most one for each kill (`AheadInv` for
  UPDATE, which appends before it removes; `InsertInv`); a statement that ended has
  had its effect, and one that has not is in the log unless its replay was killed
  (`DoneInv`).  That an UPDATE never takes its own new rows for rows it should have
  removed rests on ids that only grow (`AboveInv`), and that on the greatest id never
  being lost by an UPDATE that is killed and replayed (`TopInv`).

`BPlusTreeShapeProofs` and `BPlusTreeProofs`, for every set of keys and values, any
number of nodes and of scans, and any `MIN_KEYS` and `MAX_KEYS` of which the second
is at least twice the first (`TreeConstants`):

- The invariant does not follow the links of a tree: an induction along them would
  need a theorem with an operator as parameter.  It says instead that a height `h[n]` and a range of
  keys from `lo[n]` to `hi[n]` can be given to each node so that every link agrees
  with them (`Tree`): a child is one lower than its parent and its range is the one
  between the keys beside it (`Kids`), ranges of one height do not overlap
  (`Apart`), the keys of a node are sorted and in its range (`Keyed`), every node
  but the root stands in its parent's list (`Listed`), the leaves are those of height 0
  (`Levels`), and the next leaf begins where a leaf ends (`Chained`).
- `BPlusTreeShapeProofs` is about these trees, as values: what inserting, erasing,
  cutting and joining do to a sequence; that a descent ends in the leaf whose range
  the key is in (`DescentTo`, by a least height where it would not); and that halving a
  leaf or an internal node, growing a root, adding a child, moving a key between
  neighbours and merging them leave a tree (`CutBounds`, `InnerCut`, `RootGrown`,
  `Shifted`, `Merged`).  Between a split and the entry in the parent the new node is in
  no list: the tree is then one with a pending node (`Pending`), right of `L` from
  the key `k` on.  Last come the leaves as a chain: of finitely many nodes, the number
  of those that begin above a leaf falls along it (`RankFalls`).
- `IndexHolds` is the inductive invariant `IndexInv`: such a tree, in which a leaf
  holds exactly what is stored in its range (`Held`), no node but one about to be split
  has more than `MAX_KEYS` keys (`Full`), no leaf but one about to be rebalanced
  too few (`Filled`), and a scan has met all that was there below the leaf it has
  come to (`Scanned`), which a split or a merge does not change because it keeps
  scans out while it moves keys.  Or the root is gone with its nodes (`Gone`).  One
  lemma per action.  Two things that the code does make it true and are easy to
  break: `insert_into_parent` finds the place by the promoted key and not by the
  pointer (`PendingPlaced` shows that they agree), and a borrow writes the new bound
  into the parent although the leaves alone would look right.
- `TreeTyped`, `SearchesFind`, `TreesWellFormed` and `ScansComplete`: `[]TypeOK`,
  `[]SearchFinds`, `[]WellFormed` and `ScanComplete`.  `WellFormed` computes the
  depths of the leaves by a recursive function; that it has one value is shown of
  any function that satisfies the recursion, by the heights (`OneDepth`).
- `ChainsInOrder`: `[]ChainInOrder`.  `ChainKeys` collects keys along the chain of
  leaves by a recursive function, and such a function is only known to be what its
  equation says if there is one that satisfies it.  There is: with finitely many
  nodes (`TreesFinite`) the rank of a leaf bounds the way to the end, and were there
  leaves without a value, one of least rank would have one (`ChainEnds`).  In the same
  way every solution is the stored keys from the leaf on, in order (`ChainAscends`).
  It holds with a pending node too: a split links the new leaf before the parent
  knows of it.

The assumptions are those named in the modules (`TreeConstants`, `BookAssumption`,
`CapacityAssumption`, `SyncConstants`, `PoolConstants`, `FeedConstants`,
`StorageConstants`, `EmptyLog`, `NoNumbers`): numbers are natural, sets of workers
are finite and not empty, the empty log is no statement, and the key for a string
that is no number is not one of the values.

Every invariant that a passing run checks is stated by a theorem.  Only model-checked:
the liveness properties, which need fairness and `ENABLED`.

## 5. What the models leave out

Of the ring: `empty`, which only reads; reordering beyond what release and
acquire allow is not possible in the code.  Of the order book: timestamps,
symbols, exchanges, trade records and statistics, on which no decision depends;
overflow of 64-bit totals and ids; callbacks that call back into the book (the
class documents none); depth queries, which only read.  Of the tree: `print`, and
two writers, which the tables' mutexes exclude.  Of the storage: byte offsets
(kept as numbers of values), column types, CREATE and DROP, several tables, loss
of what the operating system had cached.  Of the feed: the content of packets,
history rings, indicators, the batch writer, several symbols.  Of the
synchronisation: prices and quantities, and what an update does to the book.

Not modelled at all, with the reason:

| part | why |
|---|---|
| Exchange adapters, SQL lexer and parser, schema files and JSON | conversions of text without a state that outlives the call |
| WHERE evaluation | a pure function on one row; `TableStorage` uses only whether a condition holds |
| Indicators | registered as strategies are, line for line; otherwise arithmetic on doubles and an allocator that aborts when it is used up |
| Batch writer | a counter and an offset in one thread; what can go wrong is decided by io_uring and the file system, and the code answers no failure |
| Key-value store | a map in one thread; its expiry thread is never started |
| MPMC queue, work-stealing deque | nothing instantiates them |
| SQL server and bindings | the server does not compile at this commit; the bindings pass on one statement at a time |
| Second order book | included nowhere, does not compile |
| Vendored code, benchmarks, demos | not the program's own logic; most of the lines under `src/` that no module models are here |

## 6. Findings

- *Level totals and POST_ONLY* (run `post_only_totals`).  `price_level.hpp:18`
  says that `total_qty` is the "sum of all resting Order::remaining at this
  price".  A POST_ONLY order that does not cross never enters a level, since
  `add_order` links LIMIT orders only, yet stays active in the map; cancelling
  it subtracts its quantity from the level at its price, decrements that
  level's count and, having no links, resets its head and tail.  The LIMIT
  orders of the level are then no longer reachable from it, and the next order
  that has something left to trade there never returns: `match_order` finds the
  level not empty, for its count is above zero, walks from a head of 0 past nothing,
  and begins again (`order_book.cpp:140`).  `CallsReturn` fails in this way when
  `OrderTypes` has POST_ONLY; `CallsAreFinite` shows that without POST_ONLY and
  MARKET orders nothing of the kind can happen.

- *Two producers on an SPSC queue* (run `two_producers`).  `tradePackets.hpp:99`
  announces "Directly push to HFTStorage queue for processing", and a push that
  fails is counted in `dropped`.  But the trade handler and the UDP receiver,
  two threads started at `main.cpp:26` and `main.cpp:30`, both push into
  `PacketParseQueue`.  When both load the same head they write the same slot
  and publish the same index: both pushes return true, and one packet is
  neither processed nor counted.

- *Deleting from the B+ tree* (run `tree_integrity`).  `README.md:197` says that
  "Updates and deletions maintain structural integrity".  When the last two
  children of the root merge, `storageTree.hpp:329` and `367` make the merged
  leaf the root and delete the old one, whose destructor deletes the children
  that it still lists: the new root.

- *Vacuum* (run `vacuum_crash`).  `README.md:205` promises "atomic file
  replacement to ensure crash consistency during cleanup".  `replaceFile`
  removes the old file before it renames the new one, for three files in turn;
  killed in between, the table has no `.index`, or an `.index` whose offsets are
  for the other `.data`.

Seen while modelling, without a run of their own:

- A MARKET order with a rest, and a POST_ONLY order that crossed, return without
  `notify_bbo` although the book changed; the comment "POST_ONLY: cancel if it
  crossed" (`order_book.cpp:84`) describes a branch that runs after the trades
  have been executed and reported, and a POST_ONLY order that traded in full
  there is left in the map for good.
- `binance.hpp:298`: the first live frame is compared with the snapshot although
  the replay may have advanced the book.  After any replay that fed a frame, the
  live frame that follows it exactly is refused as a gap and the cycle is
  repeated.  `GapHasCause` names this as the one other cause of a gap.
- `binance.hpp:249` and `295`: a frame with U <= lastUpdateId < u is fed as a whole,
  so that the updates in it that the snapshot holds reach the book a second time,
  as new orders.  `FedByOneThread` allows this and no other repetition.
- `binance.hpp:240`, `UDPReceiver.hpp:141`: a thread that is joined may sit in a
  blocking read; without another frame or datagram the join waits for ever.
  `CyclesEnd` and `StopEnds` of `FeedThreads` except exactly this.
- `generator.hpp:308` and `436`: ids of removed rows stay in the primary key's
  tree until the next start, because the branch for `int64_t` asks `std::stoll`
  to return that type, and on Linux it returns another; STATISTICS counts them.
  `TreesMatchTable` allows exactly these.
- `SQL_PARSER.hpp:284`: USE replaces all trees, those on strings too, by empty
  ones on `int64_t`, until the program is started again.
- `generator.hpp:321`: UPDATE hands the columns to `insertRow` in the order of
  their declaration, while INSERT and all readers go by the order of names.  If
  the two differ, an UPDATE exchanges values between columns.
- `utility.hpp:441`: UNIQUE is not enforced, and removing one of two equal values
  takes the key of both out of the tree.
- `initialLoad.hpp:65`: the vacuum at start includes HFT tables, whose `.index`
  is empty, so that their `.data` is replaced by an empty file.
- `hft_clean/binance_trades.hpp:77`: at the end of the program a stream that finds
  `tradePacketsQueue` full waits for ever for a handler that has been joined, and
  the destructor of the pool waits for it.  `TasksStart` and `StopEnds` of
  `ThreadPool` assume that streams end and do not exclude this.


## 7. What could come next

- A table declared in another order than that of its column names, and DROP and
  CREATE beside the statement log.
- The server with its client threads, once it compiles: `insertRow` reads the
  size of the index file before it takes the file locks (`utility.hpp:314`),
  `createTable` unlocks a mutex that it never locked (`generator.hpp:608`), and
  no lock protects `currentDatabase` and the caches.
- The expiry thread of the key-value store and the six-hourly vacuum, once
  something starts them.
