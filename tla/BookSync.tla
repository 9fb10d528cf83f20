------------------------------ MODULE BookSync ------------------------------
(***************************************************************************)
(* Keeping the order books of several symbols in step with the exchange:   *)
(* BinanceFuturesBookBuilder, BinanceFuturesOrderbook and the              *)
(* BinanceFuturesSocketClient that feeds them, as concurrent threads.      *)
(*                                                                         *)
(*   - the main thread runs BookBuilder::start and, later, stop;           *)
(*   - the socket's worker thread puts every depth event of a symbol on    *)
(*     that symbol's queue (on_message) and handles a closed connection;   *)
(*   - each symbol has one book thread at a time: first the one that       *)
(*     BinanceFuturesOrderbook::init starts, which synchronises the book,  *)
(*     then the one BookBuilder::start starts, which applies the events    *)
(*     and publishes a snapshot after each.                                *)
(*                                                                         *)
(* The exchange is external: it numbers the updates of a symbol 1, 2, ...  *)
(* and groups consecutive ones into depth events, each saying which event  *)
(* came before it (pu).  A REST snapshot is known by its lastUpdateId; the *)
(* code uses nothing else of it.                                           *)
(*                                                                         *)
(* An exception that leaves a thread, or the callback of one, ends the     *)
(* process (std::terminate): alive becomes FALSE and nothing moves again.  *)
(*                                                                         *)
(* Operators introduced by "Slip:" are wrong on purpose, as in OrderBook.  *)
(***************************************************************************)
EXTENDS OrderBook, Sequences

CONSTANTS
  Symbols,      \* the symbols the builder was created for
  Payloads,     \* the level changes a depth event may carry
  MaxId         \* bound: the number of updates the exchange makes per symbol

ASSUME SymbolsAssumption == IsFiniteSet(Symbols)
ASSUME PayloadsAssumption == Payloads \subseteq Changes
ASSUME MaxIdAssumption == MaxId \in Nat

VARIABLES
  \* the exchange
  head,         \* [Symbols -> Nat] id of the last update of the symbol
  sent,         \* [Symbols -> Nat] final id of the last depth event sent out
  \* the process
  alive,        \* FALSE once std::terminate has been called
  main,         \* where the main thread is in start and stop
  socket,       \* the connection of the socket client
  is_running,   \* BookBuilder::is_running_
  pc,           \* [Symbols -> where the symbol's book thread is]
  queue,        \* [Symbols -> price_level_queue]
  batch,        \* [Symbols -> events dequeued and not yet looked at]
  floor,        \* [Symbols -> lastUpdateId that init's filter compares with]
  snap,         \* [Symbols -> lastUpdateId of the REST snapshot held by init]
  last,         \* [Symbols -> Context::last_update_id (= previous_u)]
  initialized,  \* [Symbols -> Context::is_initialized]
  book,         \* [Symbols -> the Orderbook of the symbol]
  event_queue,  \* [Symbols -> the DataEvents published for it so far]
  covered       \* history: the ids whose events were applied since the last sync

exchangeVars == <<head, sent>>
threadVars == <<pc, batch, floor, snap, last, initialized, book, event_queue, covered>>
processVars == <<alive, main, socket, is_running>>
vars == <<head, sent, queue, threadVars, processVars>>

\* A depth event: U, u, pu, and the levels b and a.
Event == [first : Nat, final : Nat, prev : Nat, changes : Payloads]

\* What build_book enqueues for the consumer, with the id of the depth event
\* it was made after.
DataEvent == [id : Nat, levels : Books]

MainStates == {"start", "init", "running", "stopping", "joining", "stopped", "threw"}
SocketStates == {"idle", "connecting", "open", "failed", "stopped"}
ThreadStates == {"off", "fetch", "await", "scan", "ready", "loop", "poll", "process", "exited"}

\* The states of a thread inside init_order_book, and of one inside build_book
\* proper.
Initializing == {"fetch", "await", "scan"}
Building == {"loop", "poll", "process"}

Init ==
  /\ head = [s \in Symbols |-> 0]
  /\ sent = [s \in Symbols |-> 0]
  /\ queue = [s \in Symbols |-> << >>]
  /\ alive = TRUE
  /\ main = "start"
  /\ socket = "idle"
  /\ is_running = FALSE
  /\ pc = [s \in Symbols |-> "off"]
  /\ batch = [s \in Symbols |-> << >>]
  /\ floor = [s \in Symbols |-> 0]
  /\ snap = [s \in Symbols |-> 0]
  /\ last = [s \in Symbols |-> 0]
  /\ initialized = [s \in Symbols |-> FALSE]
  /\ book = [s \in Symbols |-> EmptyBook]
  /\ event_queue = [s \in Symbols |-> << >>]
  /\ covered = [s \in Symbols |-> {}]

Terminate ==
  /\ alive' = FALSE
  /\ UNCHANGED <<exchangeVars, queue, threadVars, main, socket, is_running>>

------------------------------------------------------------------------------
(* The exchange. *)

\* The order book of a symbol changes at the exchange.
Trade(s) ==
  /\ alive
  /\ head[s] < MaxId
  /\ head' = [head EXCEPT ![s] = @ + 1]
  /\ UNCHANGED <<sent, queue, threadVars, processVars>>

\* The exchange makes a depth event of the updates since the last one.  Its
\* first id need not follow the previous event's final id directly.
NewEvents(s) ==
  {[first |-> first, final |-> head[s], prev |-> sent[s], changes |-> changes] :
     first \in sent[s] + 1 .. head[s], changes \in Payloads}

\* on_message: an event of a connected stream goes to the symbol's queue.
OnMessage(s) ==
  /\ alive
  /\ socket = "open"
  /\ head[s] > sent[s]
  /\ \E event \in NewEvents(s) : queue' = [queue EXCEPT ![s] = Append(@, event)]
  /\ sent' = [sent EXCEPT ![s] = head[s]]
  /\ UNCHANGED <<head, threadVars, processVars>>

\* An event the client does not get: it is not subscribed yet, or the server
\* drops the message.
Missed(s) ==
  /\ alive
  /\ head[s] > sent[s]
  /\ sent' = [sent EXCEPT ![s] = head[s]]
  /\ UNCHANGED <<head, queue, threadVars, processVars>>

------------------------------------------------------------------------------
(* The socket's worker thread. *)

\* on_open: the connection is made and the subscription sent.
OnOpen ==
  /\ alive
  /\ socket = "connecting"
  /\ socket' = "open"
  /\ UNCHANGED <<exchangeVars, queue, threadVars, alive, main, is_running>>

\* The connection cannot be made.  No handler is registered for it: run()
\* returns and the worker thread ends.
ConnectFails ==
  /\ alive
  /\ socket = "connecting"
  /\ socket' = "failed"
  /\ UNCHANGED <<exchangeVars, queue, threadVars, alive, main, is_running>>

\* on_close while should_reconnect_ holds, that is, before stop(): it calls
\* stop(), which joins the worker thread from the worker thread.  The join
\* throws std::system_error through the event loop and the thread.
OnClose ==
  /\ alive
  /\ socket = "open"
  /\ Terminate

------------------------------------------------------------------------------
(* The main thread. *)

\* start(): the socket client is started and init starts a thread per symbol.
StartSocket ==
  /\ alive
  /\ main = "start"
  /\ socket' = "connecting"
  /\ main' = "init"
  /\ pc' = [s \in Symbols |-> "fetch"]
  /\ UNCHANGED <<exchangeVars, queue, batch, floor, snap, last, initialized, book,
                 event_queue, covered, alive, is_running>>

\* start(): the socket client does not start and start() throws.
StartThrows ==
  /\ alive
  /\ main = "start"
  /\ main' = "threw"
  /\ UNCHANGED <<exchangeVars, queue, threadVars, alive, socket, is_running>>

\* Slip: only one of the threads is joined.
SomeReady == \E s \in Symbols : pc[s] = "ready"
SomeExited == \E s \in Symbols : pc[s] = "exited"

\* Slip: the threads are detached instead of joined.
Detached == TRUE

\* What init's joins wait for, and what stop's do.
AllReady == \A s \in Symbols : pc[s] = "ready"
AllExited == \A s \in Symbols : pc[s] = "exited"

\* start(): init has joined all its threads; the builder threads are started.
StartBuilders ==
  /\ alive
  /\ main = "init"
  /\ AllReady
  /\ main' = "running"
  /\ is_running' = TRUE
  /\ pc' = [s \in Symbols |-> "loop"]
  /\ UNCHANGED <<exchangeVars, queue, batch, floor, snap, last, initialized, book,
                 event_queue, covered, alive, socket>>

\* stop(): the socket client stops its event loop and joins its worker.
StopSocket ==
  /\ alive
  /\ main = "running"
  /\ main' = "stopping"
  /\ socket' = "stopped"
  /\ UNCHANGED <<exchangeVars, queue, threadVars, alive, is_running>>

\* stop(): is_running_ = false.
ClearRunning ==
  /\ alive
  /\ main = "stopping"
  /\ main' = "joining"
  /\ is_running' = FALSE
  /\ UNCHANGED <<exchangeVars, queue, threadVars, alive, socket>>

\* stop(): the builder threads have been joined.
Joined ==
  /\ alive
  /\ main = "joining"
  /\ AllExited
  /\ main' = "stopped"
  /\ UNCHANGED <<exchangeVars, queue, threadVars, alive, socket, is_running>>

------------------------------------------------------------------------------
(* The book thread of a symbol, inside init_order_book. *)

\* The REST request is answered with a snapshot of some moment up to now.
RestSnapshots(s) == 0 .. head[s]

\* fetch_snapshot at the start of init_order_book.
Fetch(s) ==
  /\ alive
  /\ pc[s] = "fetch"
  /\ \E id \in RestSnapshots(s) : snap' = [snap EXCEPT ![s] = id]
  /\ pc' = [pc EXCEPT ![s] = "await"]
  /\ UNCHANGED <<exchangeVars, queue, batch, floor, last, initialized, book,
                 event_queue, covered, processVars>>

\* Slip: the newest events are taken first, as from a stack.
DequeueNewest(s, n) ==
  /\ batch' = [batch EXCEPT ![s] = SubSeq(queue[s], Len(queue[s]) - n + 1, Len(queue[s]))]
  /\ queue' = [queue EXCEPT ![s] = SubSeq(@, 1, Len(@) - n)]

\* Slip: the last event read is left on the queue.
DequeueOneLess(s, n) ==
  /\ batch' = [batch EXCEPT ![s] = SubSeq(queue[s], 1, n)]
  /\ queue' = [queue EXCEPT ![s] = SubSeq(@, n, Len(@))]

\* deque_update: the n events at the front of the queue.  try_dequeue_bulk may
\* return fewer than are there.
Dequeue(s, n) ==
  /\ batch' = [batch EXCEPT ![s] = SubSeq(queue[s], 1, n)]
  /\ queue' = [queue EXCEPT ![s] = SubSeq(@, n + 1, Len(@))]

\* The while loop of init_order_book: a batch to look for the first event in.
\* Its events are filtered against the snapshot held now.
DequeueInit(s) ==
  /\ alive
  /\ pc[s] = "await"
  /\ \E n \in 1 .. Len(queue[s]) : Dequeue(s, n)
  /\ floor' = [floor EXCEPT ![s] = snap[s]]
  /\ pc' = [pc EXCEPT ![s] = "scan"]
  /\ UNCHANGED <<exchangeVars, snap, last, initialized, book, event_queue, covered,
                 processVars>>

\* The loop over valid_events: the first event to process spans the snapshot.
Spans(event, id) == event.first <= id /\ id <= event.final

\* It is at an event that was kept and does not span the snapshot.
NotFirst(s) ==
  /\ pc[s] = "scan"
  /\ Head(batch[s]).final >= floor[s]
  /\ ~Spans(Head(batch[s]), snap[s])

\* fetch_snapshot returns nullopt or throws: init_order_book throws, at its
\* start or at value(), and nothing in the thread catches it.
FetchFails(s) ==
  /\ alive
  /\ pc[s] = "fetch" \/ NotFirst(s)
  /\ Terminate

\* The batch has one event less; an empty one sends the thread back to where
\* it gets the next batch.
NextInBatch(s, empty) ==
  /\ batch' = [batch EXCEPT ![s] = Tail(@)]
  /\ pc' = [pc EXCEPT ![s] = IF Tail(batch[s]) = << >> THEN empty ELSE @]

\* The loop over socket_events drops what the snapshot already includes.  (The
\* code filters the whole batch before it looks at the first valid event; the
\* snapshot compared with is floor in both readings.)
SkipOld(s) ==
  /\ alive
  /\ pc[s] = "scan"
  /\ Head(batch[s]).final < floor[s]
  /\ NextInBatch(s, "await")
  /\ UNCHANGED <<exchangeVars, queue, floor, snap, last, initialized, book,
                 event_queue, covered, processVars>>

\* The ids an event accounts for: its own and, because its pu names the event
\* before it, those between the two.
Ids(event) == event.prev + 1 .. event.final

\* The event that spans the snapshot is applied, the book is initialised and
\* init_order_book returns: the rest of the batch goes with it.  A thread of
\* init ends; a builder breaks out of its for loop.
Adopt(s) ==
  /\ alive
  /\ pc[s] = "scan"
  /\ LET event == Head(batch[s])
     IN  /\ event.final >= floor[s]
         /\ Spans(event, snap[s])
         /\ book' = [book EXCEPT ![s] = ApplyUpdate(@, event.changes)]
         /\ last' = [last EXCEPT ![s] = event.final]
         /\ covered' = [covered EXCEPT ![s] = Ids(event)]
  /\ initialized' = [initialized EXCEPT ![s] = TRUE]
  /\ batch' = [batch EXCEPT ![s] = << >>]
  /\ pc' = [pc EXCEPT ![s] = IF main = "init" THEN "ready" ELSE "loop"]
  /\ UNCHANGED <<exchangeVars, queue, floor, snap, event_queue, processVars>>

\* The event does not span it: a new snapshot is fetched and the loop goes on
\* to the next event of the batch.
Refetch(s) ==
  /\ alive
  /\ NotFirst(s)
  /\ \E id \in RestSnapshots(s) : snap' = [snap EXCEPT ![s] = id]
  /\ NextInBatch(s, "await")
  /\ UNCHANGED <<exchangeVars, queue, floor, last, initialized, book, event_queue,
                 covered, processVars>>

------------------------------------------------------------------------------
(* The book thread of a symbol, inside build_book. *)

\* Slip: while (true)
Forever == TRUE

\* while (is_running_)
GoesOn == is_running

Continue(s) ==
  /\ alive
  /\ pc[s] = "loop"
  /\ pc' = [pc EXCEPT ![s] = IF GoesOn THEN "poll" ELSE "exited"]
  /\ UNCHANGED <<exchangeVars, queue, batch, floor, snap, last, initialized, book,
                 event_queue, covered, processVars>>

DequeueBuild(s) ==
  /\ alive
  /\ pc[s] = "poll"
  /\ \E n \in 1 .. Len(queue[s]) : Dequeue(s, n)
  /\ pc' = [pc EXCEPT ![s] = "process"]
  /\ UNCHANGED <<exchangeVars, floor, snap, last, initialized, book, event_queue,
                 covered, processVars>>

\* Slip: return instead of continue.
PollEmptyReturns(s) ==
  /\ alive
  /\ pc[s] = "poll"
  /\ queue[s] = << >>
  /\ pc' = [pc EXCEPT ![s] = "exited"]
  /\ UNCHANGED <<exchangeVars, queue, batch, floor, snap, last, initialized, book,
                 event_queue, covered, processVars>>

\* deque_update finds nothing: continue.
PollEmpty(s) ==
  /\ alive
  /\ pc[s] = "poll"
  /\ queue[s] = << >>
  /\ pc' = [pc EXCEPT ![s] = "loop"]
  /\ UNCHANGED <<exchangeVars, queue, batch, floor, snap, last, initialized, book,
                 event_queue, covered, processVars>>

\* Slip: only an event from before the last one counts as out of sync.
NotBehind(s) == Head(batch[s]).prev >= last[s]

\* Slip: the rule of the spot streams, which have no pu.
FirstIsNext(s) == Head(batch[s]).first = last[s] + 1

\* process_update: the event follows the last one.
InSync(s) == Head(batch[s]).prev = last[s]

\* process_update succeeds and the new top of the book is published.
Process(s) ==
  /\ alive
  /\ pc[s] = "process"
  /\ InSync(s)
  /\ LET event == Head(batch[s])
     IN  /\ book' = [book EXCEPT ![s] = ApplyUpdate(@, event.changes)]
         /\ last' = [last EXCEPT ![s] = event.final]
         /\ covered' = [covered EXCEPT ![s] = @ \cup Ids(event)]
         /\ event_queue' = [event_queue EXCEPT ![s] =
              Append(@, [id |-> event.final, levels |-> GetLevels(book'[s], Depth)])]
  /\ NextInBatch(s, "loop")
  /\ UNCHANGED <<exchangeVars, queue, floor, snap, initialized, processVars>>

\* process_update finds a gap (-1): the thread goes through init_order_book
\* again and the rest of the batch is dropped.
OutOfSync(s) ==
  /\ alive
  /\ pc[s] = "process"
  /\ ~InSync(s)
  /\ initialized' = [initialized EXCEPT ![s] = FALSE]
  /\ batch' = [batch EXCEPT ![s] = << >>]
  /\ pc' = [pc EXCEPT ![s] = "fetch"]
  /\ UNCHANGED <<exchangeVars, queue, floor, snap, last, book, event_queue, covered,
                 processVars>>

------------------------------------------------------------------------------
ExchangeStep(s) == Trade(s) \/ OnMessage(s) \/ Missed(s)
SocketStep == OnOpen \/ ConnectFails \/ OnClose
StartStep == StartSocket \/ StartThrows \/ StartBuilders
StopStep == ClearRunning \/ Joined
InitStep(s) == Fetch(s) \/ FetchFails(s) \/ DequeueInit(s) \/ SkipOld(s) \/ Adopt(s) \/ Refetch(s)
BuildStep(s) == Continue(s) \/ DequeueBuild(s) \/ PollEmpty(s) \/ Process(s) \/ OutOfSync(s)

Next ==
  \/ \E s \in Symbols : ExchangeStep(s) \/ InitStep(s) \/ BuildStep(s)
  \/ SocketStep \/ StartStep \/ StopSocket \/ StopStep

\* The operating system schedules every thread of the process, and a REST
\* request returns.  Nothing is assumed of the exchange, of the connection, or
\* of when (and whether) stop() is called.
Fairness ==
  /\ WF_vars(StartStep)
  /\ WF_vars(StopStep)
  /\ \A s \in Symbols : WF_vars(InitStep(s)) /\ WF_vars(BuildStep(s))

Spec == Init /\ [][Next]_vars /\ Fairness

------------------------------------------------------------------------------
TypeOK ==
  /\ head \in [Symbols -> Nat] /\ sent \in [Symbols -> Nat]
  /\ alive \in BOOLEAN /\ is_running \in BOOLEAN
  /\ main \in MainStates /\ socket \in SocketStates
  /\ pc \in [Symbols -> ThreadStates]
  /\ queue \in [Symbols -> Seq(Event)] /\ batch \in [Symbols -> Seq(Event)]
  /\ floor \in [Symbols -> Nat] /\ snap \in [Symbols -> Nat] /\ last \in [Symbols -> Nat]
  /\ initialized \in [Symbols -> BOOLEAN]
  /\ book \in [Symbols -> Books]
  /\ event_queue \in [Symbols -> Seq(DataEvent)]
  /\ covered \in [Symbols -> SUBSET Nat]

\* A book that counts as initialised has every update since its REST snapshot:
\* all the ids from the snapshot's to last_update_id came in events that were
\* applied.  Lost events, dropped batches and re-synchronisations leave no hole
\* that the pu check of process_update lets through.
GapFree ==
  \A s \in Symbols : initialized[s] =>
    snap[s] <= last[s] /\ snap[s] + 1 .. last[s] \subseteq covered[s]

\* The snapshots published for a symbol are in the order of the depth events
\* they were made after, none is published twice, and none is ahead of the
\* book: a re-synchronisation in the middle changes nothing about that.
InOrderUpTo(events, id) ==
  /\ \A i, j \in DOMAIN events : i < j => events[i].id < events[j].id
  /\ \A i \in DOMAIN events : events[i].id <= id

PublishedInOrder == \A s \in Symbols : InOrderUpTo(event_queue[s], last[s])

\* is_initialized agrees with where the symbol's thread is: it is set when and
\* only when the thread has left init_order_book.  In particular no thread
\* applies or publishes an update of an unsynchronised book, and start() does
\* not return before every book is synchronised.
SynchronisedBeforeUse ==
  \A s \in Symbols :
    initialized[s] <=> pc[s] \notin Initializing \cup {"off"}

\* Once stop() has returned, no book thread is left to touch a book or to
\* enqueue another DataEvent, which is what lets the owner of the event queue
\* close its consumer.
StoppedMeansJoined ==
  main = "stopped" =>
    /\ socket = "stopped" /\ ~is_running
    /\ \A s \in Symbols : pc[s] = "exited" /\ batch[s] = << >>

\* A depth event is applied at most once and never after a later one, not even
\* when the book is synchronised again in between: the book changes only
\* together with a larger last_update_id.  (Orderbook::add adds quantities, so
\* an event applied twice would show.)
AppliedAtMostOnce ==
  [][\A s \in Symbols :
       /\ last'[s] >= last[s]
       /\ (book'[s] # book[s] \/ event_queue'[s] # event_queue[s]) => last'[s] > last[s]]_vars

\* A synchronised book is given up only when updates are really missing: the
\* event at hand names a predecessor the book has not reached.  It is never
\* given up for an event that is already in the book.
ResyncOnlyOnGap ==
  [][\A s \in Symbols :
       initialized[s] /\ ~initialized'[s] => Head(batch[s]).prev > last[s]]_vars

\* Refinement: as far as one symbol's events are concerned, the threads of the
\* builder behave like Builder: nothing of a symbol is published before start()
\* has returned or after stop() has, whatever the other symbols' threads do.
Phase ==
  IF main = "start" THEN "new"
  ELSE IF main = "init" THEN "starting"
  ELSE IF main = "joining" THEN "stopping"
  ELSE main

BuilderOf(s) == INSTANCE Builder WITH phase <- Phase, published <- Len(event_queue[s])
BuilderSpec ==
  /\ \A s \in Symbols : BuilderOf(s)!Init
  /\ [][\A s \in Symbols : [BuilderOf(s)!Next]_(BuilderOf(s)!vars)]_vars

\* Every depth event on a queue is taken off it, unless the process ends, stop()
\* is called, or the symbol's thread has left init and waits for the other
\* symbols' threads: the consumer side never gets stuck behind an event.
Queued(s, id) == \E i \in DOMAIN queue[s] : queue[s][i].final = id
StartStillWaits(s) == main = "init" /\ pc[s] = "ready"
EventsConsumed ==
  \A s \in Symbols : \A id \in 1 .. MaxId :
    Queued(s, id) ~>
      \/ ~Queued(s, id)
      \/ ~alive
      \/ main \in {"stopping", "joining", "stopped"}
      \/ StartStillWaits(s)

\* stop() returns, unless the process ends or some book is being synchronised:
\* init_order_book does not look at is_running_ and, with the socket stopped,
\* may wait for an event for ever.
StopReturns ==
  main \in {"stopping", "joining"} ~>
    main = "stopped" \/ ~alive \/ \E s \in Symbols : ~initialized[s]

\* The events init_order_book looks at are not older than its snapshot.  The
\* code says it drops the ones with a final id below the snapshot's and fetches
\* again when "this snapshot is stale"; but the events left in the batch are
\* not filtered again against the snapshot fetched in between.
OldEventsDropped ==
  \A s \in Symbols : NotFirst(s) => Head(batch[s]).final >= snap[s]

------------------------------------------------------------------------------
(* The inductive invariant. *)

\* What the exchange says of an event: it comes after its predecessor.
WellFormed(event) == event.prev < event.first /\ event.first <= event.final

\* Each event of q starts where an earlier one ended, or later.
Ordered(q) == \A i, j \in DOMAIN q : i < j => q[i].final <= q[j].prev

\* The events of q lie between update ids l and m.
Between(q, l, m) ==
  \A i \in DOMAIN q : WellFormed(q[i]) /\ l <= q[i].prev /\ q[i].final <= m

\* The events still to be handled, the batch b before the queue q, follow id l
\* in order and end at id m at the latest.
Feed(q, b, l, m) ==
  /\ l <= m
  /\ Ordered(q) /\ Ordered(b)
  /\ Between(q, l, m) /\ Between(b, l, m)
  /\ \A i \in DOMAIN b, j \in DOMAIN q : b[i].final <= q[j].prev

FeedInv ==
  \A s \in Symbols :
    sent[s] <= head[s] /\ Feed(queue[s], batch[s], last[s], sent[s])

\* Which threads run in which phase of the main thread, and when a thread has a
\* batch in hand.
ControlInv ==
  /\ is_running <=> main \in {"running", "stopping"}
  /\ main \in {"stopping", "joining", "stopped"} => socket = "stopped"
  /\ \A s \in Symbols :
       /\ main \in {"start", "threw"} => pc[s] = "off"
       /\ main = "init" => pc[s] \in Initializing \cup {"ready"}
       /\ main \in {"running", "stopping", "joining"} =>
            pc[s] \in Initializing \cup Building \cup {"exited"}
       /\ main = "stopped" => pc[s] = "exited"
       /\ pc[s] \in {"scan", "process"} <=> batch[s] # << >>

SyncInv ==
  /\ TypeOK /\ FeedInv /\ ControlInv
  /\ GapFree /\ PublishedInOrder /\ SynchronisedBeforeUse
==============================================================================
