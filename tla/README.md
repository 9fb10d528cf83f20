# A verification of BinanceHistoricDataFetcher in TLA+

The program keeps order books of Binance futures symbols up to date from a
WebSocket feed, publishes snapshots of them (to a database or by UDP multicast),
and downloads historical data into a database. This directory holds TLA+ modules
of its core, TLC configurations that check them on small instances, and proofs,
checked by TLAPS, that the main properties hold for every value of the constants.
Paths below are relative to the repository.

    tlc -config SyncOne.cfg MCBookSync.tla        check one configuration
    tlapm BookSyncProofs.tla                      check one module of proofs

## 1. Inventory

| # | Component | State | Operations | Talks to |
|---|---|---|---|---|
| 1 | `Orderbook`, `MultiSymbolOrderbook`, `BinanceOrderbook` | two maps price -> level per symbol | `add`, `remove`, `get_levels`, `get_snapshot` | called by 2 and 3 |
| 2 | `BinanceFuturesOrderbook` | one `Context` per symbol: event queue, `last_update_id`, `is_initialized` | `init`, `init_order_book`, `process_update`, `deque_update` | REST endpoint, 1; queues shared with 4 |
| 3 | `BinanceFuturesBookBuilder` | `is_running_`, one thread per symbol | `start`, `stop`, `build_book` | owns 2 and 4; enqueues on the event queue |
| 4 | `BinanceFuturesSocketClient` and its order book subclass | a connection, a worker thread | `start`, `stop`, `on_open`, `on_message`, `on_close` | exchange; queues of 2 |
| 5 | `QuestDBWriter` | row buffer, `eventsWritten_`, a `Context` of three flags | `write`, `close` | takes from an event queue; database |
| 6 | `HistoricalDataProcessor`, `FileDownloader` | temporary directory, `producerDone` | `process`, `download` | HTTP, file system; produces for 5 |
| 7 | `OrderbookArchiver`, `app/archiver` | static `is_running_`, a writer thread | `start`, `stop`, destructor, signal handler | owns 3 and 5 |
| 8 | `MarketDataPublisher`, `app/live` | static `is_running_`, server thread, sequence number | `start`, `stop`, `run`, destructor, signal handler | owns 3 and 9 |
| 9 | `MulticastServer`, `socket/utils.h` | socket, send buffer | `start` (`create_socket`), `send`, `send_and_receive`, `stop` | UDP |
| 10 | `FixedPoint` | none | decimal text <-> `int32_t` | used by 2, 5 |
| 11 | enumerations, settings, data models | none | name tables, JSON fields | all |
| 12 | CLI11 (vendored) | | | `app/` |

What is hard in them, and what makes each correct:

* **1 Order book.** Quantities are `int32_t` and `add` *adds*; price validity is
  decided after a conversion to unsigned; a depth event is applied level by level.
  Correct: exactly the levels that the feed left with a positive quantity are
  present, a snapshot shows the best ones, and an event takes effect as a whole.
* **2, 3, 4 Synchronisation.** A book is a REST snapshot id plus the stream of
  depth events from the right one on. Events arrive on one thread while another
  takes them in bulks of unknown size; events get lost; a gap sends the thread
  through the synchronisation again, in the middle of publishing; `start` and
  `stop` run on a third thread. Correct: an initialised book has no gap; no event
  is applied twice or late; snapshots are published in order; no builder starts on
  a book that is not ready; `stop` leaves no thread behind; nobody is stuck.
* **5, 6 Writer and historical pipeline.** A producer, a consumer and three flags
  without a lock; the consumer looks at the queue and then at the flag. Correct:
  events are stored in order, at most once, in batches of bounded size; nothing is
  held back at the end; events that get lost are bounded; `process` returns.
* **7, 8 Archiver and publisher.** A static flag that signal handlers, `start` and
  `stop` all use; a builder, a consumer's thread and a main thread that are to end in
  the right order; failures in the middle of starting and stopping. Correct: no signal
  is forgotten, the consumer is closed after the builder, two threads are never in one
  buffer, `stop` returns, a signal leads to an orderly stop (it does not: section 5).
* **9 Multicast.** UDP may lose and reorder, and `run` catches exceptions half-way; the
  sequence number must tell. Sockets are tried one after the other: none may be lost.
* **6, `createUrls`.** Months and days are stepped by hand. Correct: the loop goes round
  once for every period of the range and ends, and each period gets a url of its own (it
  does not: section 5).

`PROJECT.json` lists the hazards at their lines, with the properties that cover them.

## 2. Modules

    OrderBook      operators on one book                     (component 1)
      AtomicBook     abstract: events take effect as a whole
      LevelLoop      the loops of apply_update; implements AtomicBook
      BookSync       threads of 2, 3 and 4, built on OrderBook
    Builder        abstract: the life of a book builder, for its owners;
                   BookSync implements it, Archiver and Publisher use it
    StoredLog      abstract: an ordered log of batches
    EventWriter    the thread of QuestDBWriter::write        (component 5)
      Historical     composes it with FileDownloader and process();
                     implements StoredLog                     (component 6)
      Archiver       composes it with Builder, OrderbookArchiver and
                     main(); implements StoredLog             (component 7)
    NumberedStream abstract: what a receiver of datagrams may rely on
    MulticastServer  create_socket, send, sendto, close      (component 9)
      Publisher      composes it with Builder, MarketDataPublisher and
                     main(); implements NumberedStream        (component 8)
    DateRange      the loop of FileDownloader::createUrls    (component 6)
    MCLevelLoop, MCBookSync, MCDateRange           instances for TLC
    OrderBookProofs      lemmas, used by LevelLoopProofs
    EventWriterProofs    lemmas, used by HistoricalProofs and ArchiverProofs
    BookSyncProofs, PublisherProofs, DateRangeProofs

Definitions named after "Slip:" are plausible mistakes (a dropped guard, `>` for
`>=`). No specification uses them. They stand next to what they would replace, and
show for each property an error in the code that it would find.

### OrderBook
A side is a total function on `Prices` that is `Absent` where the map has no key;
sides compare as `BidComparator` and `AskComparator` do. `Add`, `Remove`,
`GetLevels` are `Orderbook::add`, `remove`, `get_levels`. `Wrap` is `int32_t`
arithmetic with `MaxQuantity` for 2^31-1. (Signed overflow is undefined in C++; the
model takes what two's complement hardware gives.) `IsValidPrice` refuses only 0: the
parameter is unsigned and the test is `> 0.0`. `ApplyUpdate` is a whole event.

### LevelLoop
| Action | Code |
|---|---|
| `Begin` | `process_update` enters `apply_update` with the event's bids, then asks |
| `Visit` | one iteration: `update_price_level` if the quantity is positive, else `remove_price_level` |
| `Snapshot` | `build_book` calls `get_snapshot(symbol, depth_)` |
| `Finish` | the event is done with |

`before` and `resting` are history variables. `Events` lists each price at most once
per side, as the exchange does.

### BookSync
The exchange numbers the updates of a symbol; a depth event is a run of ids with
`U = first`, `u = final`, `pu = prev`. `first` need not be `prev + 1`, as on the
futures streams. The level changes of an event are taken from `Payloads`.

| Actions | Code |
|---|---|
| `Trade`, `OnMessage`, `Missed` | exchange; `on_message`; an event that does not arrive |
| `OnOpen`, `ConnectFails`, `OnClose` | callbacks of the worker thread |
| `StartSocket`, `StartThrows`, `StartBuilders` | `BookBuilder::start`, with the joins of `init` |
| `StopSocket`, `ClearRunning`, `Joined` | `BookBuilder::stop`, in the order of its statements |
| `Fetch`, `FetchFails`, `DequeueInit`, `SkipOld`, `Adopt`, `Refetch` | `init_order_book` |
| `Continue`, `DequeueBuild`, `PollEmpty`, `Process`, `OutOfSync` | `build_book` with `process_update` |

Points where the model says something differently from the code:

* `init_order_book` filters a batch into `valid_events` and then walks the result.
  The model walks the batch once and skips (`SkipOld`) what the filter drops;
  `floor` is the snapshot the filter used, which `Refetch` does not change.
* A REST snapshot is its `lastUpdateId`, any id up to the exchange's current one.
  The code uses nothing else of it: the levels of the snapshot are not put in the book.
* A thread in `init_order_book` is one of `init`'s while `main = "init"`, and
  a builder re-synchronising later.
* An exception that leaves a thread ends the process: `alive = FALSE`. This is what
  a closed connection does (`on_close` calls `stop`, which joins the thread it runs
  on) and what a failed fetch does (`value()` or `throw` inside a thread).
* `event_queue` keeps all that was published, with the id it was made after.
  The consumer is left out: taking from the queue disables nothing.
* Every symbol of a message is assumed to be one of `Symbols`.

### EventWriter and Historical
Events are numbered in the order they are enqueued; `produced` counts them, and is
changed by the module that composes the writer with a producer. `Held`, `Lost` and the
parts `QueueInv` and `RowsInv` of the invariant are the writer's own and stand in
`EventWriter`. `wpc` follows `write()`:
`outer`, `inner`, `dequeue`, `ask` (line 57), `put`, `count` (78-81), `flush`
(84-87), `last` and `askLast` (the two halves of line 89), `close`. The clock
of the flush interval is not modelled; time may be up after any event. `FlushFails`
and `PutFails` (a symbol without exchange info, line 127) are exceptions out of the
thread. `Historical` adds `FileDownloader::download` (`NoFile`, `OpenFile`,
`ReadLine`, `EndOfFile`, `Finish`) and the two joins of `process()`. One file per
symbol is read, as `break` in line 64 has it. Downloading, unzipping and opening are
external: they succeed or not. A line that does not parse is no event. The queue is
taken to be first-in first-out, which moodycamel's queue is for one producer.

### Builder
`phase` goes from `new` over `starting`, `running` and `stopping` to `stopped` (or to
`threw`), events are published between the return of `start` and the return of `stop`,
and the process may end at any time. That `start` or `stop` returns is not promised:
`init` may wait for ever, and so may a synchronisation during `stop`. BookSync
implements it for each symbol (`BuilderSpec`, with `Phase` and the events of
that symbol), so nothing Archiver and Publisher assume of the builder's life is their
own invention.

### Archiver
| Actions | Code |
|---|---|
| `SetRunning`, `Register`, `StartBuilder`, `BuilderStarted`, `StartWriter`, `StartFailed` | `start`, with its catch block |
| `CheckStarted`, `LeaveLoop`, `Destroy`, `Rethrow` | `main` |
| `CallStop` | another owner calls the public `stop` |
| `EnterStop`, `StopBuilder`, `BuilderStopped`, `Join` | `stop` |
| `CloseAsks`, `CloseFlushes`, `CloseFails`, `CloseSender`, `Clear` | `QuestDBWriter::close`, called by `stop` |
| `DestroyMembers`, `DestroyJoinable` | the end of the destructor; a joinable thread ends the process |
| `Signal`, `Publish`, `BuilderThrows`, `WriteStep` | signal handler, book thread, writer's thread |
| `Race` | two threads in `dbBuffer_` or in the sender: undefined, the model ends there |

The `catch` around `builder_->stop()` is left out, here and in Publisher: a thread of the
builder that throws ends the process, and its `stop` itself, which joins threads and closes
a socket, is taken to return if it ends at all.

The program calls `stop` only when the flag is already cleared, so in it `stop` never
gets past its first line; `CallStop` is what the class allows besides. There is one
book thread: the queue orders the events of one producer only, and the order of rows
of different symbols in the database is left open.

### MulticastServer and Publisher
`create_udp_socket` tries candidates one after the other (`SocketFails`, `Unusable`,
`Usable`), its local `sockfd` stays -1 until one is chosen, and `close(sockfd)` on a
failure closes nothing. All socket configurations are initial states, the program's
(UDP, neither listening nor with timestamps) among them. A datagram is what the send
buffer held when `sendto` was called; `Sendto` lets the network take it or not. In
`send_and_receive` a datagram that somebody sent to the socket calls `recv_callback_`,
which is never set, inside a `noexcept` function (`Received`).

`Publisher` follows `run` (`Loop`, `Dequeue`, `NotDequeued`, `Encode`, `EncodeFails`,
`SendAndReceive`, `Count`), `start`, `stop`, the destructor and `main` as Archiver does.
Events have a symbol, and `Dequeue` takes the oldest event of any producer. `offered`
and `dropped` are history variables: what `sendto` was called for, and what an
exception made `run` forget. `docs/DATAGRAM_MSG.md` describes a binary header (id,
length, payload) where the code sends one JSON text with the id in it; the models are
about the id, not about this layout.

### DateRange
`AddMonth` and `AddDay` are one iteration of the loop, `Parse` the two dates before it.
The calendar (`Leap`, `LastDay`, `SysDays`, `Before`) is `std::chrono`'s and external.
Dates are `Written`: months from 1 to 12 and days from 1 to 31, also days that their month
has not, which `sys_days` takes for days of the next month; the year is any integer, where
`std::chrono::year` ends at 32767. The urls of a call differ in the formatted date alone, so
`urls` has this text; `Format` is `std::format`, which replaces braces, and there are none
in the two `Patterns`. For which period each url is made is a history variable, `visited`.
The reference it is compared with counts by formulas: `MonthNumber`, and `DayNumber` with
its `153 * m + 2`.

## 3. What the runs check

| Run | Instance | States, time | Question |
|---|---|---|---|
| `level_loop` | 3 prices (0, 1, 2), quantities -2..1, depth 1, events of up to 2 levels | 752,500, 27 s | is walking the levels the same as applying the event? |
| `level_quantity` | the same | stops at a counterexample | does a level have the quantity the feed gave? No |
| `sync_one` | 1 symbol, 6 updates | 130,758, 42 s | is a book complete and in order across losses and re-synchronisations? |
| `sync_two` | 2 symbols, 3 updates each | 477,886, 17 s | do `start` and `stop` line up with all threads, as Builder says? |
| `old_events` | 1 symbol, 5 updates | stops at a counterexample | are events older than the snapshot dropped? No |
| `historical` | batches of 2, 2 symbols, 8 events | 20,192, 2 s | do events get to the database, in order, and how many do not? |
| `archiver` | batches of 2, 6 events | 37,190, 7 s | what do signals, failures and an early `stop` do to the pipeline? |
| `archiver_signal` | batches of 2, 1 event | stops at a counterexample | has `stop` stopped the archiver when it returns? No |
| `publisher` | 2 symbols, 2 events, 2 descriptors (0 and 3), 2 candidates, 12 configurations | 299,112, 46 s | can a receiver rely on the numbers, and does its destruction leave a thread or a socket? |
| `publisher_signal` | 1 event | stops at a counterexample | is a handled signal remembered? No |
| `publisher_socket` | 1 event | stops at a counterexample | does a publisher without a socket give up? No |
| `dates` | 1,184 pairs of dates, monthly and daily | 30,138, 3 s | one round of the loop for every period, and an end? |

Properties, in the order of the configurations:

* `WalkedSoFar`: between two iterations the book is the one before the event with
  exactly the levels visited so far applied. `PresentIffLastPositive`: presence of a
  level follows the feed, even when its quantity wraps. `SnapshotShowsBest`: at most
  `Depth` levels per side, none better left out. `AtomicSpec`: refinement of AtomicBook.
* `GapFree`: an initialised book has every update id from its snapshot to
  `last_update_id`. `PublishedInOrder`, `AppliedAtMostOnce`: snapshots in order, no
  event twice, across re-synchronisations. `ResyncOnlyOnGap`: a book is given up only
  for an event whose predecessor is missing. `SynchronisedBeforeUse`,
  `StoppedMeansJoined`: flags and threads agree. `BuilderSpec`: refinement of Builder.
* `EventsConsumed`, `StopReturns` (liveness): a queued event is taken off the queue;
  `stop` returns unless a book is being synchronised.
* `FlushedBeforeReturn`, `LossBounded`, `LogSpec`, `ProcessReturns`: nothing is held
  back; lost events are bounded by stored ones plus one; refinement of StoredLog;
  `process` returns or the process ends.
* Archiver. `SignalKept`: after a handled signal the flag stays cleared.
  `RaceNeedsDirectStop`: `close` and `write` meet in the buffer or sender only when an
  owner stops a running archiver. `ClosedLast`: the writer is closed after the builder's
  threads are joined. `DestroyedFlushed`: what is destroyed in peace holds no row back.
  `UsesBuilder`, `LogSpec`: refinements of Builder and StoredLog. `StopReturns`,
  `SignalEnds` (liveness): `stop` returns and a signal ends the program, but for a
  builder that hangs and a `close` whose flush failed. `LossBounded` holds here as well,
  where a second thread flushes and tells the writer to end at any moment.
* Publisher. `StreamSpec`: refinement of NumberedStream. `EventsOffered` (liveness):
  every event is offered or dropped while the publisher runs. `DestroyedQuiet`: once the
  publisher is destroyed, `run` has returned, the builder publishes no more, and the program's
  socket is closed, whatever the server thread was doing when the owner or a signal came.
  `NoDescriptorLost`: what `create_socket` opened is the server's or closed. `PacketsTell`:
  the id of a datagram says how many events were offered before it, the ids of two of a
  symbol which is newer, so a receiver knows what it misses in whatever order they come.
  `UsesBuilder`, `StopReturns` as above.
* `VisitsRange`: at every point of the loop it has gone round for the first of the periods
  that counting by formulas gives, each once and in order, and when it is left for all of
  them, with one url pushed in each round. `LoopEnds`: the loop ends.

### Why the bounds are enough
* `MaxQuantity = 1` wraps at the second addition to a level, the shortest history with
  an overflow. Two prices are what a "better" and a "worse" level need, 0 is the
  refused one. Two levels per event reach both loops, or one loop twice.
* In `sync_one` six updates allow a synchronisation, a published event, a gap, a second
  synchronisation and a published event after it, with one event split over two ids.
  The number of events on a queue or in a batch is bounded by `MaxId` as well.
* `sync_two` is about joins. Two symbols are where "some" and "all" differ; with three
  updates one of them can meet a gap and be synchronised again while the other publishes.
* With `BatchSize = 2` and 8 events the writer fills batches, cuts them short, and
  drops an event after several of them. The bound of `LossBounded` is reached.
* In `archiver` 6 events are three batches: rows are in the buffer when `close` comes, in
  each of the states `write` can be in, and events are still on the queue. The bound of
  `LossBounded` is reached here too, by a batch without rows after `running` is cleared.
* In `publisher` two events of two symbols are taken in either order, of one symbol in
  one; a number is used again when it was not counted; a second candidate follows one
  that failed. Descriptor 0 is the one `!start()` is true for. (With three events, which
  takes four minutes and 1,924,296 states, the same properties hold.)
* `dates` has every combination of days 1, 2, 15 and 28 to 31 from November to February,
  and Februaries and Marches of 2000, 2023, 2024 and 2100. `MaxPeriods` is more than any
  of these ranges has; a loop that does not end meets it, and `LoopEnds` fails.
* Bounds of TLC's instances: `MaxListed` (levels of an event), `MaxId` (updates of a
  symbol), `MaxEvents` (events of all files, or of the builder), `MaxCandidates`
  (addresses of `getaddrinfo`), `MaxPeriods`. The proofs hold for any value.

Deadlock is checked for LevelLoop. In the others everything may rightly end: the
exchange has made `MaxId` updates, `stop` or `process` has returned, the owner has been
destroyed, the process has terminated.

### Fairness
* `BookSync`: weak fairness of the main thread inside `start` and inside `stop`, and of
  each book thread (the operating system schedules threads, and the HTTP client's request
  returns in some way). Nothing is assumed of the exchange, the connection, or the caller
  of `stop`.
* `Historical`: weak fairness of the three threads; a download ends in some way, and a
  file has an end.
* `Archiver`, `Publisher`: weak fairness of the main thread and of the writer's or
  server's thread. Nothing is assumed of the builder (its `start` and `stop` need not
  return), of signals, of the network, or of when an owner calls `stop`.
* `DateRange`: weak fairness of the loop.

## 4. What is proved

Every invariant, action property and refinement that a passing run checks is a theorem,
for all values of the constants that satisfy the ASSUMEs of the modules: finite
`Symbols`, `Prices` a finite set of integers, `MaxQuantity`, `Depth`, `MaxId`,
`MaxListed`, `SymbolCount`, `MaxEvents`, `MaxCandidates`, `MaxPeriods` in Nat,
`Descriptors` a set of natural numbers, `BatchSize` positive, `Payloads` made of listed
levels, `Ranges` pairs of written dates; for Publisher any non-empty `Symbols`.

* **OrderBookProofs**: lemmas. `Wrap` stays in range, an added-to level is present,
  what `ApplyLevel` does at each price, `ApplyUpdate` and `GetLevels` give books.
  `GetLevelsShowsBest` counts: a finite non-empty set of prices has a best one
  (`BestPrice`), so if more than `Depth` levels were shown, the worst of them would have
  `Depth` better ones in the book; and the better ones of a level that is left out
  include all that are shown.
* **LevelLoopProofs**: `TypeCorrect`, `LoopsApplyPrefix` (`WalkedSoFar`),
  `PresenceFollowsFeed`, `SnapshotsShowBest`, `LoopsAreAtomic` (refinement of AtomicBook).
  `LoopInv` is `WalkedSoFar` with the type, and with the facts that a snapshot that is held
  is `GetLevels` of the present book (`SnapshotCurrent`), that none is held during a walk,
  and that none is held, and `next` is 1, between events. The core is `IterationApplies`:
  one iteration extends the applied prefix by one level. It needs `IsEvent` (a price is
  listed once per side), since `add` is not idempotent. The refinement maps the book to
  `before` during a walk: the abstract update happens when the last level is visited.
* **BookSyncProofs**: `TypeCorrect`, `NoGaps`, `OrderedPublication`,
  `SynchronisedFirst`, `StopJoinsAll`, `AppliedOnce`, `ResyncMeansGap`,
  `ImplementsBuilder` (refinement of Builder). The invariant
  `SyncInv` strengthens the safety properties by two parts. `FeedInv`: batch, then
  queue, hold events in order, each starting where an earlier one ended or later, all
  between `last` and `sent`. Without it `GapFree` is not inductive: `pu = last` would not
  say that the event is new. `ControlInv`: which threads run in which phase of the main
  thread. Lemmas `FeedAppend`, `FeedDequeue`, `FeedTail`, `FeedDrop` say that every
  queue operation keeps `Feed`; the two action properties follow from `FeedInv`.
* **EventWriterProofs**: what is true of `write()` whoever composes it. `QueueInv`: the
  queue has the last events produced, consecutive. `RowsInv`: stored events and rows are
  increasing, and older than what waits. `QueueNext` and `RowsNext`: the writer's steps
  keep them; `EnqueueKeepsOrder`: so does a producer; `StoreKeepsOrder`: so does a flush,
  by whichever thread. `FlushStores`: a flush of a batch of at most `BatchSize` rows is a
  step of StoredLog, or nothing.
* **HistoricalProofs**: `TypeCorrect`, `ReturnsFlushed`, `LossAtMostHalf`,
  `StoresInOrder` (refinement of StoredLog). `HistInv` adds to `QueueInv` and `RowsInv`
  that `eventsWritten_` counts the rows (`CountInv`),
  which flag goes with which program point (`ControlInv`), and the loss so far at each
  point (`LossInv`). The last is needed because the bound is only restored by the next
  batch's first row: line 89 may drop an event exactly when a batch with rows precedes
  it, or, once, after the producer is through.
* **ArchiverProofs**: `TypeCorrect`, `NoSignalLost`, `RaceOnlyByOwner`,
  `ClosedAfterBuilder`, `DestroyedClean`, `LossAtMostHalf`, `UsesBuilderRight` (refinement
  of Builder), `StoresInOrder` (refinement of StoredLog).
  `ArchInv` has one part for each thing the main thread's place decides: how far the
  builder is (`PhaseInv`), who can have got past the first line of `stop` (`FlagInv`: only
  an owner who did not wait), what has become of the writer's thread (`ThreadInv`), in
  which order sender and flags are closed (`CloseInv`). `BatchInv` adds that rows without
  a count exist only between the two steps that make and count one: without it a closed
  sender with no rows counted would not mean an empty buffer, which `DestroyedFlushed`
  needs, since `close` looks at the count only. For the log, `close` flushes without
  resetting the count, so rows and count are no longer equal: `CountInv` says that there are
  never more rows than counted, which keeps a batch within `BatchSize`. For the loss,
  `LossInv` separates the time before `running` is cleared, when only a batch with rows
  leads to line 89 (nobody sets `producerDone` here), from the time after, when a batch
  without rows gets there, but `write` returns behind it: hence one more, once.
* **PublisherProofs**: `TypeCorrect`, `DestroyedLeavesNothing`, `DescriptorsKept`,
  `StreamNumbered` (refinement of NumberedStream), `PacketsTellOrder`, `UsesBuilderRight`.
  `PubInv` has
  `PhaseInv` and `OwnerInv` as above; `SocketInv` (while candidates are tried `sockfd` is
  -1 until the last, which is why at most one descriptor is open) and `ClosedInv` (a destroyed
  publisher has none); `QueueInv` and
  `TakenInv` (each producer's events are in order, and those taken are older than those
  waiting); and `StreamInv` (the buffer is empty unless a message is under way, and the
  number is one more than the events offered, but between `sendto` and the increment).
  `PacketsTellOrder` uses `StreamNumbered` and nothing else of the publisher: the abstract
  stream is enough for a receiver.
* **DateRangeProofs**: `RangeVisited`, for dates of any year. The calendar comes first: a
  year has 365 days or 366 (`YearLength`), the formula gives each month the length of the
  table (`MonthLength`), years and months are apart by at least what lies between
  (`YearsApart`), so a step of the loop adds 1 to the number of the day or month
  (`NextDayCounts`, `NextMonthCounts`), `sys_days` keeps the number of a day that its month
  has not (`SysDaysCounts`), and `Before` is `<` on numbers (`BeforeIsLess`). `RangeInv`
  adds that the number of `current` is that of the first period and the length of `visited`,
  and that after a round for a month it is the first day of one, without which the last month
  could come twice or not at all. Since `Len(visited) <= Periods` at every point, the loop
  runs at most `Periods` times; that it gets there is the liveness property.

`TypeOK` of Archiver is not in a run, only proved: Historical's run checks the same type of
the writer's state.

Only model-checked: the liveness properties `EventsConsumed`, `StopReturns`,
`ProcessReturns`, `SignalEnds`, `EventsOffered` and `LoopEnds` (liveness and ENABLED are
beyond the prover), and the counterexamples.

## 5. Findings

1. `level_quantity`: `Orderbook::add` adds the listed quantity to an existing level
   (`orderbook.h:100`), where the comment at line 97 says "update quantity" and
   `docs/DATAGRAM_MSG.md:175` promises a snapshot of the order book. The feed gives new
   quantities, not differences, so a level that is listed twice shows a sum.
2. `old_events`: after a re-fetch inside the loop (`binance_futures_orderbook.cpp:73`)
   the rest of the batch is not filtered against the new snapshot, against the comment at
   line 50. Older events are taken for a stale snapshot and cause further fetches.
3. `archiver_signal`: a signal clears the flag that `stop` exchanges, so `stop` and the
   destructor ("safety-net: ensure we stop on destruction", `orderbook_archiver.cpp:18`) do
   nothing; `main` prints that the archiver was stopped successfully, and the destruction of
   a joinable thread ends the process. A failed start ends the same way (line 58).
4. `publisher_signal`: `MarketDataPublisher::start` sets the flag after it has registered
   the handlers (line 24 after 20-23): a signal in between is forgotten.
5. `publisher_socket`: `run` tests `!start()` of a function that returns a descriptor or
   -1 (line 47). It publishes into descriptor -1, and gives up on descriptor 0.

Seen while modelling, and not stated as a property of a run:

* `stop()` during a synchronisation may hang: `init_order_book` does not look at
  `is_running_` and the socket that would wake it is stopped (`StopReturns` says so).
* No handler for a failed connection: `start()` then waits for ever in `init`.
* `write()` line 89 drops an event whenever its try_dequeue succeeds. If the producer
  enqueues and finishes between the two halves of line 89, those events stay on the queue.
* `close()` from the main thread races with `write()` when an owner stops a running
  archiver (`RaceNeedsDirectStop` says that only then). When its flush throws, `stop` joins
  a writer that has not been told to end (`StopReturns` names this case).
* The socket of a candidate that cannot be bound is not closed (`utils.h:119`, `127`:
  `close(sockfd)` where `fd` is meant), and SO_TIMESTAMP is set on -1 (`utils.h:125`), so a
  configuration with timestamps never gets a socket.
* A datagram sent to the publisher's socket ends the process: `recv_callback_` is not set.
* The publisher has the flag of finding 3 too. After Ctrl-C, which its handlers are there
  "to allow [...] to stop" (`market_data_publisher.cpp:19`), the `stop` of `main` returns at
  line 32 with the server thread and the builder running, and the destruction of the
  joinable thread ends the process (`DestroyJoinable` in Publisher).
* `createUrls` formats dates with `std::format("%Y-%m", ...)` and `"%Y-%m-%d"`
  (`file_downloader.cpp:257`, `273`), patterns without braces: every url of a range has the
  pattern in it instead of a date, although the command line asks for months or days from
  one date to another (`app/cli/main.cpp:37-45`). In DateRange `urls` is a sequence of equal
  texts, and no property says that they differ.
* `FileDownloader::download` reads only the first url per symbol (`break`, line 64);
  `unzipFile` passes the directory instead of `zip_path` to the extractor.

## 6. Not modelled, and why

* TLS set-up, HTTP, zip files, the database: libraries. They appear as steps that
  succeed or fail, and so do the system calls behind a socket.
* Messages that are not depth updates (ignored by the code) and JSON text.
* `FixedPoint`: conversion between text, `double` and `int32_t`. TLA+ has no
  floating-point numbers, and a model with exact fractions would assume what is in
  question. The models start from its results.
* Row layout, enumerations, settings, command lines: no state.
* The accessors nothing calls (`get_top_of_book`, `remove_book`, `enque_update`,
  `MulticastServer::join`, `set_recv_callback`, ...).
* The size of the send buffer: it holds one message of kilobytes in 64 MB, and `StreamInv`
  says that it never holds more than one.
* The relaxed memory order inside the queue library; a queue operation is one step.
* `CLI11.hpp`, a vendored argument parser: 11,527 of the 14,795 lines of the repository.
  What the models stand for is a share of the other 3,268.

## 7. What could follow

* The order of events of several producers in the database (Archiver with a queue per
  producer, as Publisher has).
* If the findings are repaired: `StopStops` (and the same of the publisher), `CtrlCStops`
  and `NoSocketNoLoop` become invariants, as does that the urls of a range differ.
