--------------------------- MODULE BookSyncProofs ---------------------------
(***************************************************************************)
(* Proofs about BookSync, for every set of symbols, every depth of a       *)
(* snapshot, every set of payloads and any number of updates.              *)
(***************************************************************************)
EXTENDS BookSync, OrderBookProofs

(* The pending events of one symbol: the batch b and the queue q behind it. *)

\* on_message puts a newer event at the end of the queue.
LEMMA FeedAppend ==
  ASSUME NEW q \in Seq(Event), NEW b \in Seq(Event), NEW l \in Nat, NEW m \in Nat,
         NEW event \in Event, Feed(q, b, l, m), WellFormed(event), event.prev = m
  PROVE  Feed(Append(q, event), b, l, event.final)
<1> DEFINE r == Append(q, event)
<1>1. /\ Len(q) \in Nat /\ DOMAIN q = 1 .. Len(q)
      /\ DOMAIN r = 1 .. Len(q) + 1
      /\ \A i \in 1 .. Len(q) : r[i] = q[i]
      /\ r[Len(q) + 1] = event
  OBVIOUS
<1>2. /\ event.prev \in Nat /\ event.first \in Nat /\ event.final \in Nat
      /\ m < event.final
  BY DEF Event, WellFormed
<1>3. \A i \in DOMAIN q : q[i] \in Event
  BY <1>1
<1>4. \A i \in DOMAIN b : b[i] \in Event
  OBVIOUS
<1> HIDE DEF r
<1>5. ASSUME NEW i \in DOMAIN r
      PROVE  \/ i \in DOMAIN q /\ r[i] = q[i]
             \/ i = Len(q) + 1 /\ r[i] = event
  BY <1>1
<1>6. Ordered(r)
  <2> SUFFICES ASSUME NEW i \in DOMAIN r, NEW j \in DOMAIN r, i < j
               PROVE  r[i].final <= r[j].prev
    BY DEF Ordered
  <2>1. i \in DOMAIN q /\ r[i] = q[i]
    BY <1>1, <1>5
  <2>2. CASE j \in DOMAIN q /\ r[j] = q[j]
    BY <2>1, <2>2 DEF Feed, Ordered
  <2>3. CASE r[j] = event
    BY <2>1, <2>3 DEF Feed, Between
  <2> QED
    BY <1>5, <2>2, <2>3
<1>7. Between(r, l, event.final)
  <2> SUFFICES ASSUME NEW i \in DOMAIN r
               PROVE  WellFormed(r[i]) /\ l <= r[i].prev /\ r[i].final <= event.final
    BY DEF Between
  <2>1. CASE i \in DOMAIN q /\ r[i] = q[i]
    BY <2>1, <1>2, <1>3 DEF Feed, Between, Event
  <2>2. CASE r[i] = event
    BY <2>2, <1>2 DEF Feed
  <2> QED
    BY <1>5, <2>1, <2>2
<1>8. Between(b, l, event.final)
  BY <1>2, <1>4 DEF Feed, Between, Event
<1>9. ASSUME NEW i \in DOMAIN b, NEW j \in DOMAIN r
      PROVE  b[i].final <= r[j].prev
  <2>1. CASE j \in DOMAIN q /\ r[j] = q[j]
    BY <2>1 DEF Feed
  <2>2. CASE r[j] = event
    BY <2>2 DEF Feed, Between
  <2> QED
    BY <1>5, <2>1, <2>2
<1> QED
  BY <1>2, <1>6, <1>7, <1>8, <1>9 DEF Feed, r

\* The exchange goes on without the client.
LEMMA FeedMissed ==
  ASSUME NEW q \in Seq(Event), NEW b \in Seq(Event), NEW l \in Nat, NEW m \in Nat,
         NEW n \in Nat, Feed(q, b, l, m), m <= n
  PROVE  Feed(q, b, l, n)
<1>1. /\ \A i \in DOMAIN q : q[i] \in Event
      /\ \A i \in DOMAIN b : b[i] \in Event
  OBVIOUS
<1> QED
  BY <1>1 DEF Feed, Between, Event

\* deque_update takes a batch from the front of the queue.
LEMMA FeedDequeue ==
  ASSUME NEW q \in Seq(Event), NEW l \in Nat, NEW m \in Nat, NEW n \in 1 .. Len(q),
         Feed(q, << >>, l, m)
  PROVE  /\ Feed(SubSeq(q, n + 1, Len(q)), SubSeq(q, 1, n), l, m)
         /\ SubSeq(q, 1, n) \in Seq(Event) /\ SubSeq(q, 1, n) # << >>
         /\ SubSeq(q, n + 1, Len(q)) \in Seq(Event)
<1> DEFINE b == SubSeq(q, 1, n)
           r == SubSeq(q, n + 1, Len(q))
<1>1. Len(q) \in Nat /\ DOMAIN q = 1 .. Len(q) /\ n \in Nat /\ n >= 1
  OBVIOUS
<1>2. /\ b \in Seq(Event) /\ Len(b) = n /\ DOMAIN b = 1 .. n
      /\ \A i \in 1 .. n : b[i] = q[i]
  OBVIOUS
<1>3. /\ r \in Seq(Event) /\ DOMAIN r = 1 .. Len(q) - n
      /\ \A i \in 1 .. Len(q) - n : r[i] = q[n + i]
  OBVIOUS
<1>4. b # << >>
  BY <1>1, <1>2
<1> HIDE DEF b, r
<1>5. /\ \A i \in DOMAIN b : i \in DOMAIN q /\ b[i] = q[i]
      /\ \A i \in DOMAIN r : n + i \in DOMAIN q /\ r[i] = q[n + i]
      /\ DOMAIN b \subseteq Int /\ DOMAIN r \subseteq Int
      /\ \A i \in DOMAIN b, j \in DOMAIN r : i < n + j
  BY <1>1, <1>2, <1>3
<1>6. Ordered(b)
  BY <1>5 DEF Feed, Ordered
<1>7. Ordered(r)
  <2> SUFFICES ASSUME NEW i \in DOMAIN r, NEW j \in DOMAIN r, i < j
               PROVE  r[i].final <= r[j].prev
    BY DEF Ordered
  <2>1. n + i < n + j
    BY <1>1, <1>5
  <2> QED
    BY <1>5, <2>1 DEF Feed, Ordered
<1>8. Between(b, l, m) /\ Between(r, l, m)
  BY <1>5 DEF Feed, Between
<1>9. \A i \in DOMAIN b, j \in DOMAIN r : b[i].final <= r[j].prev
  BY <1>5 DEF Feed, Ordered
<1> QED
  BY <1>2, <1>3, <1>4, <1>6, <1>7, <1>8, <1>9 DEF Feed, b, r

\* The first event of the batch has been handled: dropped, or applied.
LEMMA FeedTail ==
  ASSUME NEW q \in Seq(Event), NEW b \in Seq(Event), NEW l \in Nat, NEW m \in Nat,
         Feed(q, b, l, m), b # << >>
  PROVE  /\ Head(b) \in Event /\ WellFormed(Head(b))
         /\ l <= Head(b).prev /\ Head(b).final <= m /\ l < Head(b).final
         /\ Tail(b) \in Seq(Event)
         /\ Feed(q, Tail(b), l, m)
         /\ Feed(q, Tail(b), Head(b).final, m)
<1> DEFINE t == Tail(b)
           h == Head(b)
<1>1. /\ Len(b) \in Nat /\ Len(b) >= 1 /\ DOMAIN b = 1 .. Len(b)
      /\ h = b[1] /\ h \in Event
  OBVIOUS
<1>2. /\ t \in Seq(Event) /\ DOMAIN t = 1 .. Len(b) - 1
      /\ \A i \in 1 .. Len(b) - 1 : t[i] = b[i + 1]
  OBVIOUS
<1>3. /\ \A i \in DOMAIN q : q[i] \in Event
      /\ \A i \in DOMAIN b : b[i] \in Event
  OBVIOUS
<1> HIDE DEF t, h
<1>4. /\ WellFormed(h) /\ l <= h.prev /\ h.final <= m /\ l < h.final
  <2>1. 1 \in DOMAIN b
    BY <1>1
  <2>2. WellFormed(h) /\ l <= h.prev /\ h.final <= m
    BY <1>1, <2>1 DEF Feed, Between
  <2>3. h.prev \in Nat /\ h.first \in Nat /\ h.final \in Nat
    BY <1>1 DEF Event
  <2> QED
    BY <2>2, <2>3 DEF WellFormed
<1>5. /\ \A i \in DOMAIN t : i + 1 \in DOMAIN b /\ t[i] = b[i + 1]
      /\ DOMAIN t \subseteq Int
      /\ \A i \in DOMAIN t : 1 < i + 1
      /\ 1 \in DOMAIN b
  BY <1>1, <1>2
<1>6. Ordered(t)
  <2> SUFFICES ASSUME NEW i \in DOMAIN t, NEW j \in DOMAIN t, i < j
               PROVE  t[i].final <= t[j].prev
    BY DEF Ordered
  <2>1. i + 1 < j + 1
    BY <1>5
  <2> QED
    BY <1>5, <2>1 DEF Feed, Ordered
<1>7. Between(t, l, m)
  BY <1>5 DEF Feed, Between
<1>8. Between(t, h.final, m)
  BY <1>1, <1>5 DEF Feed, Between, Ordered
<1>9. Between(q, h.final, m)
  BY <1>1, <1>5 DEF Feed, Between
<1>10. \A i \in DOMAIN t, j \in DOMAIN q : t[i].final <= q[j].prev
  BY <1>5 DEF Feed
<1> QED
  BY <1>1, <1>2, <1>4, <1>6, <1>7, <1>8, <1>9, <1>10 DEF Feed, t, h

\* The rest of the batch is dropped, or the batch is empty.
LEMMA FeedDrop ==
  ASSUME NEW q \in Seq(Event), NEW b \in Seq(Event), NEW l \in Nat, NEW m \in Nat,
         Feed(q, b, l, m)
  PROVE  Feed(q, << >>, l, m)
BY DEF Feed, Ordered, Between

------------------------------------------------------------------------------
(* The steps, and the invariant in the initial state. *)

\* Every step is one of these.
LEMMA Steps ==
  ASSUME [Next]_vars
  PROVE  \/ \E s \in Symbols :
              \/ Trade(s) \/ OnMessage(s) \/ Missed(s)
              \/ Fetch(s) \/ DequeueInit(s) \/ SkipOld(s) \/ Adopt(s) \/ Refetch(s)
              \/ Continue(s) \/ DequeueBuild(s) \/ PollEmpty(s) \/ Process(s) \/ OutOfSync(s)
         \/ OnOpen \/ ConnectFails \/ StartSocket \/ StartThrows \/ StartBuilders
         \/ StopSocket \/ ClearRunning \/ Joined
         \/ UNCHANGED <<exchangeVars, queue, threadVars, main, socket, is_running>> /\ alive' \in {alive, FALSE}
BY DEF Next, ExchangeStep, InitStep, BuildStep, SocketStep, StartStep, StopStep,
       FetchFails, OnClose, Terminate, vars, exchangeVars, threadVars, processVars

\* The inductive invariant holds when the process starts: nothing is queued, no
\* thread runs and no book is initialised.
LEMMA SyncInvInit == Init => SyncInv
<1> SUFFICES ASSUME Init PROVE SyncInv
  OBVIOUS
<1> USE DEF Init
<1>1. TypeOK
  <2>1. << >> \in Seq(Event) /\ << >> \in Seq(DataEvent)
    OBVIOUS
  <2>2. /\ queue \in [Symbols -> Seq(Event)] /\ batch \in [Symbols -> Seq(Event)]
        /\ event_queue \in [Symbols -> Seq(DataEvent)]
    BY <2>1
  <2>3. book \in [Symbols -> Books] /\ covered \in [Symbols -> SUBSET Nat]
    BY EmptyBookIsBook
  <2>4. main \in MainStates /\ socket \in SocketStates /\ pc \in [Symbols -> ThreadStates]
    BY DEF MainStates, SocketStates, ThreadStates
  <2> QED
    BY <2>2, <2>3, <2>4 DEF TypeOK
<1>2. FeedInv
  BY DEF FeedInv, Feed, Ordered, Between
<1>3. ControlInv
  BY DEF ControlInv
<1>4. GapFree /\ PublishedInOrder /\ SynchronisedBeforeUse
  BY DEF GapFree, PublishedInOrder, InOrderUpTo, SynchronisedBeforeUse, Initializing
<1> QED
  BY <1>1, <1>2, <1>3, <1>4 DEF SyncInv

------------------------------------------------------------------------------
(* Every step keeps the types. *)

\* An id of a REST snapshot is a natural number, and an event of the exchange
\* is an event.
LEMMA InputTypes ==
  ASSUME TypeOK, NEW s \in Symbols
  PROVE  /\ RestSnapshots(s) \subseteq Nat
         /\ NewEvents(s) \subseteq Event
         /\ \A event \in NewEvents(s) :
              /\ event.prev = sent[s] /\ event.final = head[s]
              /\ WellFormed(event)
<1>1. head[s] \in Nat /\ sent[s] \in Nat
  BY DEF TypeOK
<1>2. RestSnapshots(s) \subseteq Nat
  BY <1>1 DEF RestSnapshots
<1>3. ASSUME NEW event \in NewEvents(s)
      PROVE  /\ event \in Event
             /\ event.prev = sent[s] /\ event.final = head[s]
             /\ WellFormed(event)
  <2>1. PICK first \in sent[s] + 1 .. head[s], changes \in Payloads :
          event = [first |-> first, final |-> head[s], prev |-> sent[s], changes |-> changes]
    BY DEF NewEvents
  <2> QED
    BY <1>1, <2>1 DEF Event, WellFormed
<1> QED
  BY <1>2, <1>3

\* The ids an event accounts for.
LEMMA IdsAreNat ==
  ASSUME NEW event \in Event
  PROVE  Ids(event) \subseteq Nat
BY DEF Event, Ids

\* A non-empty batch has a first event, and a rest.
LEMMA BatchHead ==
  ASSUME NEW b \in Seq(Event), b # << >>
  PROVE  /\ Head(b) \in Event /\ Tail(b) \in Seq(Event)
         /\ Head(b).changes \in Changes
         /\ Head(b).first \in Nat /\ Head(b).final \in Nat /\ Head(b).prev \in Nat
<1>1. Head(b) \in Event /\ Tail(b) \in Seq(Event)
  OBVIOUS
<1> QED
  BY <1>1, PayloadsAssumption DEF Event

\* Every handler leaves state of the right type; ControlInv gives the batch that
\* scan and process read the head of.
LEMMA TypeNext == TypeOK /\ ControlInv /\ [Next]_vars => TypeOK'
<1> SUFFICES ASSUME TypeOK, ControlInv, [Next]_vars PROVE TypeOK'
  OBVIOUS
<1> USE DEF exchangeVars, threadVars, processVars
<1>1. ASSUME NEW s \in Symbols, Trade(s) PROVE TypeOK'
  BY <1>1 DEF Trade, TypeOK
<1>2. ASSUME NEW s \in Symbols, OnMessage(s) PROVE TypeOK'
  <2>1. PICK event \in NewEvents(s) : queue' = [queue EXCEPT ![s] = Append(@, event)]
    BY <1>2 DEF OnMessage
  <2>2. event \in Event
    BY <2>1, InputTypes
  <2>3. Append(queue[s], event) \in Seq(Event)
    BY <2>2 DEF TypeOK
  <2> QED
    BY <1>2, <2>1, <2>3 DEF OnMessage, TypeOK
<1>3. ASSUME NEW s \in Symbols, Missed(s) PROVE TypeOK'
  BY <1>3 DEF Missed, TypeOK
<1>4. ASSUME NEW s \in Symbols, Fetch(s) PROVE TypeOK'
  BY <1>4, InputTypes DEF Fetch, TypeOK, ThreadStates
<1>5. ASSUME NEW s \in Symbols, NEW n \in 1 .. Len(queue[s]), Dequeue(s, n)
      PROVE  batch' \in [Symbols -> Seq(Event)] /\ queue' \in [Symbols -> Seq(Event)]
  <2>1. queue[s] \in Seq(Event)
    BY DEF TypeOK
  <2>2. SubSeq(queue[s], 1, n) \in Seq(Event) /\ SubSeq(queue[s], n + 1, Len(queue[s])) \in Seq(Event)
    BY <2>1
  <2> QED
    BY <1>5, <2>2 DEF Dequeue, TypeOK
<1>6. ASSUME NEW s \in Symbols, DequeueInit(s) PROVE TypeOK'
  BY <1>5, <1>6 DEF DequeueInit, TypeOK, ThreadStates
<1>7. ASSUME NEW s \in Symbols, DequeueBuild(s) PROVE TypeOK'
  BY <1>5, <1>7 DEF DequeueBuild, TypeOK, ThreadStates
<1>8. ASSUME NEW s \in Symbols, pc[s] \in {"scan", "process"}
      PROVE  /\ batch[s] \in Seq(Event) /\ batch[s] # << >>
             /\ Head(batch[s]) \in Event /\ Tail(batch[s]) \in Seq(Event)
             /\ Head(batch[s]).changes \in Changes /\ Head(batch[s]).final \in Nat
  BY <1>8, BatchHead DEF ControlInv, TypeOK
<1>9. ASSUME NEW s \in Symbols, NEW empty \in ThreadStates,
             NextInBatch(s, empty), pc[s] \in {"scan", "process"}
      PROVE  batch' \in [Symbols -> Seq(Event)] /\ pc' \in [Symbols -> ThreadStates]
  <2>1. Tail(batch[s]) \in Seq(Event)
    BY <1>8, <1>9
  <2> QED
    BY <1>9, <2>1 DEF NextInBatch, TypeOK
<1>10. ASSUME NEW s \in Symbols, SkipOld(s) PROVE TypeOK'
  <2>1. "await" \in ThreadStates
    BY DEF ThreadStates
  <2> QED
    BY <1>9, <1>10, <2>1 DEF SkipOld, TypeOK
<1>11. ASSUME NEW s \in Symbols, Refetch(s) PROVE TypeOK'
  <2>1. "await" \in ThreadStates
    BY DEF ThreadStates
  <2>2. snap' \in [Symbols -> Nat]
    BY <1>11, InputTypes DEF Refetch, TypeOK
  <2> QED
    BY <1>9, <1>11, <2>1, <2>2 DEF Refetch, NotFirst, TypeOK
<1>12. ASSUME NEW s \in Symbols, Adopt(s) PROVE TypeOK'
  <2> DEFINE event == Head(batch[s])
  <2>1. event \in Event /\ event.changes \in Changes /\ event.final \in Nat
    BY <1>8, <1>12 DEF Adopt
  <2>2. ApplyUpdate(book[s], event.changes) \in Books /\ Ids(event) \subseteq Nat
    BY <2>1, ApplyUpdateIsBook, IdsAreNat DEF TypeOK
  <2> HIDE DEF event
  <2>3. /\ book' = [book EXCEPT ![s] = ApplyUpdate(book[s], event.changes)]
        /\ last' = [last EXCEPT ![s] = event.final]
        /\ covered' = [covered EXCEPT ![s] = Ids(event)]
    BY <1>12 DEF Adopt, event
  <2>4. book' \in [Symbols -> Books] /\ last' \in [Symbols -> Nat]
        /\ covered' \in [Symbols -> SUBSET Nat]
    BY <2>1, <2>2, <2>3 DEF TypeOK
  <2>5. pc' \in [Symbols -> ThreadStates] /\ initialized' \in [Symbols -> BOOLEAN]
    BY <1>12 DEF Adopt, TypeOK, ThreadStates
  <2> QED
    BY <1>12, <2>4, <2>5 DEF Adopt, TypeOK
<1>13. ASSUME NEW s \in Symbols, Process(s) PROVE TypeOK'
  <2> DEFINE event == Head(batch[s])
             new == ApplyUpdate(book[s], event.changes)
             published == [id |-> event.final, levels |-> GetLevels(book'[s], Depth)]
  <2>1. event \in Event /\ event.changes \in Changes /\ event.final \in Nat
    BY <1>8, <1>13 DEF Process
  <2>2. new \in Books /\ Ids(event) \subseteq Nat
    BY <2>1, ApplyUpdateIsBook, IdsAreNat DEF TypeOK
  <2> HIDE DEF event, new
  <2>3. /\ book' = [book EXCEPT ![s] = new]
        /\ last' = [last EXCEPT ![s] = event.final]
        /\ covered' = [covered EXCEPT ![s] = covered[s] \cup Ids(event)]
        /\ event_queue' = [event_queue EXCEPT ![s] = Append(event_queue[s], published)]
    BY <1>13 DEF Process, event, new
  <2>4. book' \in [Symbols -> Books] /\ last' \in [Symbols -> Nat]
        /\ covered' \in [Symbols -> SUBSET Nat]
    BY <2>1, <2>2, <2>3 DEF TypeOK
  <2>5. published \in DataEvent
    BY <2>1, <2>4, GetLevelsIsBook DEF DataEvent
  <2> HIDE DEF published
  <2>6. event_queue' \in [Symbols -> Seq(DataEvent)]
    BY <2>3, <2>5 DEF TypeOK
  <2>7. "loop" \in ThreadStates
    BY DEF ThreadStates
  <2> QED
    BY <1>9, <1>13, <2>4, <2>6, <2>7 DEF Process, TypeOK
<1>14. ASSUME NEW s \in Symbols, Continue(s) \/ PollEmpty(s) \/ OutOfSync(s) PROVE TypeOK'
  <2>1. CASE Continue(s) \/ PollEmpty(s)
    BY <2>1 DEF Continue, PollEmpty, TypeOK, ThreadStates
  <2>2. CASE OutOfSync(s)
    <3>1. << >> \in Seq(Event)
      OBVIOUS
    <3>2. batch' \in [Symbols -> Seq(Event)] /\ initialized' \in [Symbols -> BOOLEAN]
      BY <2>2, <3>1 DEF OutOfSync, TypeOK
    <3> QED
      BY <2>2, <3>2 DEF OutOfSync, TypeOK, ThreadStates
  <2> QED
    BY <1>14, <2>1, <2>2
<1>15. ASSUME \/ OnOpen \/ ConnectFails \/ StartSocket \/ StartThrows \/ StartBuilders
              \/ StopSocket \/ ClearRunning \/ Joined
       PROVE  TypeOK'
  BY <1>15 DEF OnOpen, ConnectFails, StartSocket, StartThrows, StartBuilders, StopSocket,
               ClearRunning, Joined, TypeOK, MainStates, SocketStates, ThreadStates
<1>16. ASSUME UNCHANGED <<exchangeVars, queue, threadVars, main, socket, is_running>>,
              alive' \in {alive, FALSE}
       PROVE  TypeOK'
  BY <1>16 DEF TypeOK
<1> QED
  BY <1>1, <1>2, <1>3, <1>4, <1>6, <1>7, <1>10, <1>11, <1>12, <1>13, <1>14, <1>15,
     <1>16, Steps

------------------------------------------------------------------------------
(* Every step keeps the threads and the main thread in step. *)

\* deque_update never hands over an empty batch.
LEMMA DequeueTakes ==
  ASSUME NEW q \in Seq(Event), NEW n \in 1 .. Len(q)
  PROVE  SubSeq(q, 1, n) # << >>
<1>1. Len(SubSeq(q, 1, n)) = n /\ n >= 1
  OBVIOUS
<1> QED
  BY <1>1

\* Every handler leaves the threads where the main thread's phase expects them:
\* off before start, inside init_order_book during init, gone after stop.
LEMMA ControlNext == TypeOK /\ ControlInv /\ [Next]_vars => ControlInv'
<1> SUFFICES ASSUME TypeOK, ControlInv, [Next]_vars PROVE ControlInv'
  OBVIOUS
<1> USE DEF exchangeVars, threadVars, processVars
<1>1. ASSUME NEW s \in Symbols, Trade(s) \/ OnMessage(s) \/ Missed(s) PROVE ControlInv'
  BY <1>1 DEF Trade, OnMessage, Missed, ControlInv
<1>2. ASSUME NEW s \in Symbols, Fetch(s) PROVE ControlInv'
  BY <1>2 DEF Fetch, ControlInv, TypeOK, Initializing, Building
<1>3. ASSUME NEW s \in Symbols, NEW n \in 1 .. Len(queue[s]), Dequeue(s, n)
      PROVE  batch'[s] # << >> /\ \A t \in Symbols \ {s} : batch'[t] = batch[t]
  <2>1. SubSeq(queue[s], 1, n) # << >>
    BY DequeueTakes DEF TypeOK
  <2> QED
    BY <1>3, <2>1 DEF Dequeue, TypeOK
<1>4. ASSUME NEW s \in Symbols, DequeueInit(s) PROVE ControlInv'
  <2>1. batch'[s] # << >> /\ \A t \in Symbols \ {s} : batch'[t] = batch[t]
    BY <1>3, <1>4 DEF DequeueInit
  <2> QED
    BY <1>4, <2>1 DEF DequeueInit, ControlInv, TypeOK, Initializing, Building
<1>5. ASSUME NEW s \in Symbols, DequeueBuild(s) PROVE ControlInv'
  <2>1. batch'[s] # << >> /\ \A t \in Symbols \ {s} : batch'[t] = batch[t]
    BY <1>3, <1>5 DEF DequeueBuild
  <2> QED
    BY <1>5, <2>1 DEF DequeueBuild, ControlInv, TypeOK, Initializing, Building
<1>6. ASSUME NEW s \in Symbols, SkipOld(s) PROVE ControlInv'
  BY <1>6 DEF SkipOld, NextInBatch, ControlInv, TypeOK, Initializing, Building
<1>7. ASSUME NEW s \in Symbols, Refetch(s) PROVE ControlInv'
  BY <1>7 DEF Refetch, NotFirst, NextInBatch, ControlInv, TypeOK, Initializing, Building
<1>8. ASSUME NEW s \in Symbols, Adopt(s) PROVE ControlInv'
  BY <1>8 DEF Adopt, ControlInv, TypeOK, MainStates, Initializing, Building
<1>9. ASSUME NEW s \in Symbols, Process(s) PROVE ControlInv'
  BY <1>9 DEF Process, NextInBatch, ControlInv, TypeOK, Initializing, Building
<1>10. ASSUME NEW s \in Symbols, Continue(s) \/ PollEmpty(s) \/ OutOfSync(s) PROVE ControlInv'
  <2>1. CASE Continue(s)
    BY <2>1 DEF Continue, GoesOn, ControlInv, TypeOK, MainStates, Initializing, Building
  <2>2. CASE PollEmpty(s)
    BY <2>2 DEF PollEmpty, ControlInv, TypeOK, Initializing, Building
  <2>3. CASE OutOfSync(s)
    BY <2>3 DEF OutOfSync, ControlInv, TypeOK, Initializing, Building
  <2> QED
    BY <1>10, <2>1, <2>2, <2>3
<1>11. ASSUME OnOpen \/ ConnectFails \/ StopSocket \/ ClearRunning PROVE ControlInv'
  BY <1>11 DEF OnOpen, ConnectFails, StopSocket, ClearRunning, ControlInv, TypeOK,
               Initializing, Building
<1>12. ASSUME StartSocket \/ StartThrows PROVE ControlInv'
  <2>1. CASE StartSocket
    <3>1. \A s \in Symbols : pc[s] = "off" /\ batch[s] = << >>
      BY <2>1 DEF StartSocket, ControlInv
    <3>2. \A s \in Symbols : pc'[s] = "fetch" /\ batch'[s] = << >>
      BY <2>1, <3>1 DEF StartSocket
    <3>3. main' = "init" /\ ~is_running'
      BY <2>1 DEF StartSocket, ControlInv
    <3> QED
      BY <3>2, <3>3 DEF ControlInv, Initializing
  <2>2. CASE StartThrows
    BY <2>2 DEF StartThrows, ControlInv
  <2> QED
    BY <1>12, <2>1, <2>2
<1>13. ASSUME StartBuilders PROVE ControlInv'
  BY <1>13 DEF StartBuilders, AllReady, ControlInv, TypeOK, Initializing, Building
<1>14. ASSUME Joined PROVE ControlInv'
  BY <1>14 DEF Joined, AllExited, ControlInv, TypeOK, Initializing, Building
<1>15. ASSUME UNCHANGED <<exchangeVars, queue, threadVars, main, socket, is_running>>
       PROVE  ControlInv'
  BY <1>15 DEF ControlInv
<1> QED
  BY <1>1, <1>2, <1>4, <1>5, <1>6, <1>7, <1>8, <1>9, <1>10, <1>11, <1>12, <1>13, <1>14,
     <1>15, Steps

------------------------------------------------------------------------------
(* Every step keeps the events in order. *)

\* Every handler keeps the events still to be handled in order, between
\* last_update_id and the last event the exchange sent.
LEMMA FeedNext == TypeOK /\ ControlInv /\ FeedInv /\ [Next]_vars => FeedInv'
<1> SUFFICES ASSUME TypeOK, ControlInv, FeedInv, [Next]_vars PROVE FeedInv'
  OBVIOUS
<1> USE DEF exchangeVars, threadVars, processVars
<1>1. /\ \A s \in Symbols : /\ queue[s] \in Seq(Event) /\ batch[s] \in Seq(Event)
                           /\ last[s] \in Nat /\ sent[s] \in Nat /\ head[s] \in Nat
                           /\ sent[s] <= head[s]
                           /\ Feed(queue[s], batch[s], last[s], sent[s])
  BY DEF TypeOK, FeedInv
<1>2. ASSUME NEW s \in Symbols, Trade(s) PROVE FeedInv'
  BY <1>1, <1>2 DEF Trade, FeedInv, TypeOK
<1>3. ASSUME NEW s \in Symbols, OnMessage(s) PROVE FeedInv'
  <2>1. PICK event \in NewEvents(s) : queue' = [queue EXCEPT ![s] = Append(queue[s], event)]
    BY <1>3 DEF OnMessage
  <2>2. event \in Event /\ event.prev = sent[s] /\ event.final = head[s] /\ WellFormed(event)
    BY <2>1, InputTypes
  <2>3. Feed(Append(queue[s], event), batch[s], last[s], head[s])
    BY <1>1, <2>2, FeedAppend
  <2>4. sent' = [sent EXCEPT ![s] = head[s]] /\ UNCHANGED <<head, batch, last>>
    BY <1>3 DEF OnMessage
  <2>5. queue \in [Symbols -> Seq(Event)] /\ sent \in [Symbols -> Nat]
    BY DEF TypeOK
  <2>6. /\ queue'[s] = Append(queue[s], event) /\ sent'[s] = head[s]
        /\ \A t \in Symbols \ {s} : queue'[t] = queue[t] /\ sent'[t] = sent[t]
    BY <2>1, <2>4, <2>5
  <2>7. ASSUME NEW t \in Symbols
        PROVE  sent'[t] <= head'[t] /\ Feed(queue'[t], batch'[t], last'[t], sent'[t])
    <3>1. CASE t = s
      <4>1. /\ sent'[t] = head[s] /\ head'[t] = head[s] /\ queue'[t] = Append(queue[s], event)
            /\ batch'[t] = batch[s] /\ last'[t] = last[s]
        BY <2>4, <2>6, <3>1
      <4>2. head[s] <= head[s]
        BY <1>1
      <4> QED
        BY <2>3, <4>1, <4>2
    <3>2. CASE t # s
      <4>1. /\ sent'[t] = sent[t] /\ head'[t] = head[t] /\ queue'[t] = queue[t]
            /\ batch'[t] = batch[t] /\ last'[t] = last[t]
        BY <2>4, <2>6, <3>2
      <4> QED
        BY <1>1, <4>1
    <3> QED
      BY <3>1, <3>2
  <2> QED
    BY <2>7 DEF FeedInv
<1>4. ASSUME NEW s \in Symbols, Missed(s) PROVE FeedInv'
  <2>1. Feed(queue[s], batch[s], last[s], head[s])
    BY <1>1, FeedMissed
  <2>2. sent' = [sent EXCEPT ![s] = head[s]] /\ UNCHANGED <<head, queue, batch, last>>
    BY <1>4 DEF Missed
  <2>3. sent \in [Symbols -> Nat]
    BY DEF TypeOK
  <2>4. ASSUME NEW t \in Symbols
        PROVE  sent'[t] <= head'[t] /\ Feed(queue'[t], batch'[t], last'[t], sent'[t])
    <3>1. CASE t = s
      BY <1>1, <2>1, <2>2, <2>3, <3>1
    <3>2. CASE t # s
      BY <1>1, <2>2, <2>3, <3>2
    <3> QED
      BY <3>1, <3>2
  <2> QED
    BY <2>4 DEF FeedInv
<1>5. ASSUME NEW s \in Symbols, pc[s] \notin {"scan", "process"},
             NEW n \in 1 .. Len(queue[s]), Dequeue(s, n),
             UNCHANGED <<head, sent, last>>
      PROVE  FeedInv'
  <2>1. batch[s] = << >>
    BY <1>5 DEF ControlInv
  <2>2. Feed(SubSeq(queue[s], n + 1, Len(queue[s])), SubSeq(queue[s], 1, n), last[s], sent[s])
    BY <1>1, <2>1, FeedDequeue
  <2> QED
    BY <1>1, <1>5, <2>2 DEF Dequeue, FeedInv, TypeOK
<1>6. ASSUME NEW s \in Symbols, DequeueInit(s) PROVE FeedInv'
  BY <1>5, <1>6 DEF DequeueInit
<1>7. ASSUME NEW s \in Symbols, DequeueBuild(s) PROVE FeedInv'
  BY <1>5, <1>7 DEF DequeueBuild
<1>8. ASSUME NEW s \in Symbols, pc[s] \in {"scan", "process"}
      PROVE  /\ Feed(queue[s], Tail(batch[s]), last[s], sent[s])
             /\ Feed(queue[s], Tail(batch[s]), Head(batch[s]).final, sent[s])
             /\ Feed(queue[s], << >>, Head(batch[s]).final, sent[s])
             /\ Feed(queue[s], << >>, last[s], sent[s])
  <2>1. batch[s] # << >>
    BY <1>8 DEF ControlInv
  <2>2. /\ Feed(queue[s], Tail(batch[s]), last[s], sent[s])
        /\ Feed(queue[s], Tail(batch[s]), Head(batch[s]).final, sent[s])
        /\ Tail(batch[s]) \in Seq(Event) /\ Head(batch[s]).final \in Nat
    BY <1>1, <2>1, FeedTail, BatchHead
  <2> QED
    BY <1>1, <2>2, FeedDrop
<1>9. ASSUME NEW s \in Symbols, SkipOld(s) \/ Refetch(s) PROVE FeedInv'
  <2>1. Feed(queue[s], Tail(batch[s]), last[s], sent[s])
    BY <1>8, <1>9 DEF SkipOld, Refetch, NotFirst
  <2> QED
    BY <1>1, <1>9, <2>1 DEF SkipOld, Refetch, NextInBatch, FeedInv, TypeOK
<1>10. ASSUME NEW s \in Symbols, Adopt(s) PROVE FeedInv'
  <2>1. Feed(queue[s], << >>, Head(batch[s]).final, sent[s])
    BY <1>8, <1>10 DEF Adopt
  <2>2. last' = [last EXCEPT ![s] = Head(batch[s]).final]
    BY <1>10 DEF Adopt
  <2> QED
    BY <1>1, <1>10, <2>1, <2>2 DEF Adopt, FeedInv, TypeOK
<1>11. ASSUME NEW s \in Symbols, Process(s) PROVE FeedInv'
  <2>1. Feed(queue[s], Tail(batch[s]), Head(batch[s]).final, sent[s])
    BY <1>8, <1>11 DEF Process
  <2>2. last' = [last EXCEPT ![s] = Head(batch[s]).final]
    BY <1>11 DEF Process
  <2> QED
    BY <1>1, <1>11, <2>1, <2>2 DEF Process, NextInBatch, FeedInv, TypeOK
<1>12. ASSUME NEW s \in Symbols, OutOfSync(s) PROVE FeedInv'
  <2>1. Feed(queue[s], << >>, last[s], sent[s])
    BY <1>8, <1>12 DEF OutOfSync
  <2> QED
    BY <1>1, <1>12, <2>1 DEF OutOfSync, FeedInv, TypeOK
<1>13. ASSUME UNCHANGED <<head, sent, queue, batch, last>> PROVE FeedInv'
  BY <1>13 DEF FeedInv
<1>14. ASSUME NEW s \in Symbols, Fetch(s) \/ Continue(s) \/ PollEmpty(s) PROVE FeedInv'
  BY <1>13, <1>14 DEF Fetch, Continue, PollEmpty
<1>15. ASSUME \/ OnOpen \/ ConnectFails \/ StartSocket \/ StartThrows \/ StartBuilders
              \/ StopSocket \/ ClearRunning \/ Joined
       PROVE  FeedInv'
  BY <1>13, <1>15 DEF OnOpen, ConnectFails, StartSocket, StartThrows, StartBuilders,
                      StopSocket, ClearRunning, Joined
<1> QED
  BY <1>2, <1>3, <1>4, <1>6, <1>7, <1>9, <1>10, <1>11, <1>12, <1>13, <1>14, <1>15, Steps

------------------------------------------------------------------------------
(* Every step keeps the three properties. *)

\* What the invariant says of the event at hand.
LEMMA EventAtHand ==
  ASSUME TypeOK, ControlInv, FeedInv, NEW s \in Symbols, pc[s] \in {"scan", "process"}
  PROVE  /\ Head(batch[s]) \in Event /\ WellFormed(Head(batch[s]))
         /\ last[s] <= Head(batch[s]).prev /\ last[s] < Head(batch[s]).final
<1>1. batch[s] # << >>
  BY DEF ControlInv
<1>2. /\ queue[s] \in Seq(Event) /\ batch[s] \in Seq(Event)
      /\ last[s] \in Nat /\ sent[s] \in Nat
  BY DEF TypeOK
<1>3. Feed(queue[s], batch[s], last[s], sent[s])
  BY DEF FeedInv
<1> QED
  BY <1>1, <1>2, <1>3, FeedTail

\* Every handler keeps is_initialized in step with where the thread is.
LEMMA SynchronisedNext ==
  TypeOK /\ ControlInv /\ SynchronisedBeforeUse /\ [Next]_vars => SynchronisedBeforeUse'
<1> SUFFICES ASSUME TypeOK, ControlInv, SynchronisedBeforeUse, [Next]_vars
             PROVE  SynchronisedBeforeUse'
  OBVIOUS
<1> USE DEF exchangeVars, threadVars, processVars
<1>1. ASSUME UNCHANGED <<pc, initialized>> PROVE SynchronisedBeforeUse'
  BY <1>1 DEF SynchronisedBeforeUse
<1>2. ASSUME NEW s \in Symbols, Trade(s) \/ OnMessage(s) \/ Missed(s)
      PROVE  SynchronisedBeforeUse'
  BY <1>1, <1>2 DEF Trade, OnMessage, Missed
<1>3. ASSUME NEW s \in Symbols, Fetch(s) \/ DequeueInit(s) PROVE SynchronisedBeforeUse'
  BY <1>3 DEF Fetch, DequeueInit, SynchronisedBeforeUse, TypeOK, Initializing
<1>4. ASSUME NEW s \in Symbols, SkipOld(s) \/ Refetch(s) PROVE SynchronisedBeforeUse'
  BY <1>4 DEF SkipOld, Refetch, NotFirst, NextInBatch, SynchronisedBeforeUse, TypeOK, Initializing
<1>5. ASSUME NEW s \in Symbols, Adopt(s) PROVE SynchronisedBeforeUse'
  BY <1>5 DEF Adopt, SynchronisedBeforeUse, TypeOK, Initializing
<1>6. ASSUME NEW s \in Symbols, Continue(s) \/ DequeueBuild(s) \/ PollEmpty(s)
      PROVE  SynchronisedBeforeUse'
  <2>1. CASE Continue(s)
    BY <2>1 DEF Continue, SynchronisedBeforeUse, TypeOK, Initializing
  <2>2. CASE DequeueBuild(s)
    BY <2>2 DEF DequeueBuild, SynchronisedBeforeUse, TypeOK, Initializing
  <2>3. CASE PollEmpty(s)
    BY <2>3 DEF PollEmpty, SynchronisedBeforeUse, TypeOK, Initializing
  <2> QED
    BY <1>6, <2>1, <2>2, <2>3
<1>7. ASSUME NEW s \in Symbols, Process(s) PROVE SynchronisedBeforeUse'
  BY <1>7 DEF Process, NextInBatch, SynchronisedBeforeUse, TypeOK, Initializing
<1>8. ASSUME NEW s \in Symbols, OutOfSync(s) PROVE SynchronisedBeforeUse'
  BY <1>8 DEF OutOfSync, SynchronisedBeforeUse, TypeOK, Initializing
<1>9. ASSUME StartSocket PROVE SynchronisedBeforeUse'
  BY <1>9 DEF StartSocket, ControlInv, SynchronisedBeforeUse, TypeOK, Initializing
<1>10. ASSUME StartBuilders PROVE SynchronisedBeforeUse'
  BY <1>10 DEF StartBuilders, AllReady, SynchronisedBeforeUse, TypeOK, Initializing
<1>11. ASSUME \/ OnOpen \/ ConnectFails \/ StartThrows \/ StopSocket \/ ClearRunning \/ Joined
       PROVE  SynchronisedBeforeUse'
  BY <1>1, <1>11 DEF OnOpen, ConnectFails, StartThrows, StopSocket, ClearRunning, Joined
<1> QED
  BY <1>1, <1>2, <1>3, <1>4, <1>5, <1>6, <1>7, <1>8, <1>9, <1>10, <1>11, Steps

\* No handler leaves a hole between the REST snapshot and last_update_id in an
\* initialised book: Adopt starts the cover, Process extends it by an event
\* whose pu is the id the cover ends at.
LEMMA GapFreeNext ==
  /\ TypeOK /\ ControlInv /\ FeedInv /\ SynchronisedBeforeUse /\ GapFree
  /\ [Next]_vars
  => GapFree'
<1> SUFFICES ASSUME TypeOK, ControlInv, FeedInv, SynchronisedBeforeUse, GapFree, [Next]_vars
             PROVE  GapFree'
  OBVIOUS
<1> USE DEF exchangeVars, threadVars, processVars
<1>1. ASSUME UNCHANGED <<initialized, snap, last, covered>> PROVE GapFree'
  BY <1>1 DEF GapFree
<1>2. ASSUME NEW s \in Symbols, Fetch(s) \/ Refetch(s) PROVE GapFree'
  <2>1. ~initialized[s]
    BY <1>2 DEF Fetch, Refetch, NotFirst, SynchronisedBeforeUse, Initializing
  <2> QED
    BY <1>2, <2>1 DEF Fetch, Refetch, GapFree, TypeOK
<1>3. ASSUME NEW s \in Symbols, Adopt(s) PROVE GapFree'
  <2> DEFINE event == Head(batch[s])
  <2>1. event \in Event /\ WellFormed(event)
    BY <1>3, EventAtHand DEF Adopt
  <2>2. event.first <= snap[s] /\ snap[s] <= event.final
    BY <1>3 DEF Adopt, Spans
  <2>3. snap[s] + 1 .. event.final \subseteq Ids(event)
    <3>1. event.first \in Nat /\ event.final \in Nat /\ event.prev \in Nat /\ snap[s] \in Nat
      BY <2>1 DEF Event, TypeOK
    <3>2. event.prev < event.first
      BY <2>1 DEF WellFormed
    <3>3. event.prev + 1 <= snap[s] + 1
      BY <2>2, <3>1, <3>2
    <3> HIDE DEF event
    <3> QED
      BY <3>1, <3>3 DEF Ids
  <2>4. /\ last' = [last EXCEPT ![s] = event.final]
        /\ covered' = [covered EXCEPT ![s] = Ids(event)]
        /\ initialized' = [initialized EXCEPT ![s] = TRUE]
        /\ snap' = snap
    BY <1>3 DEF Adopt
  <2> QED
    BY <2>2, <2>3, <2>4 DEF GapFree, TypeOK
<1>4. ASSUME NEW s \in Symbols, Process(s) PROVE GapFree'
  <2> DEFINE event == Head(batch[s])
  <2>1. event \in Event /\ last[s] < event.final /\ event.prev = last[s]
    BY <1>4, EventAtHand DEF Process, InSync
  <2>2. initialized[s]
    BY <1>4 DEF Process, SynchronisedBeforeUse, Initializing
  <2>3. snap[s] <= last[s] /\ snap[s] + 1 .. last[s] \subseteq covered[s]
    BY <2>2 DEF GapFree
  <2>4. snap[s] + 1 .. event.final \subseteq covered[s] \cup Ids(event)
    BY <2>1, <2>3 DEF Ids, Event, TypeOK
  <2>5. snap[s] <= event.final
    BY <2>1, <2>3 DEF Event, TypeOK
  <2>6. /\ last' = [last EXCEPT ![s] = event.final]
        /\ covered' = [covered EXCEPT ![s] = covered[s] \cup Ids(event)]
        /\ initialized' = initialized /\ snap' = snap
    BY <1>4 DEF Process
  <2> QED
    BY <2>4, <2>5, <2>6 DEF GapFree, TypeOK
<1>5. ASSUME NEW s \in Symbols, OutOfSync(s) PROVE GapFree'
  BY <1>5 DEF OutOfSync, GapFree, TypeOK
<1>6. ASSUME NEW s \in Symbols,
             \/ Trade(s) \/ OnMessage(s) \/ Missed(s) \/ DequeueInit(s) \/ SkipOld(s)
             \/ Continue(s) \/ DequeueBuild(s) \/ PollEmpty(s)
      PROVE  GapFree'
  BY <1>1, <1>6 DEF Trade, OnMessage, Missed, DequeueInit, SkipOld, Continue, DequeueBuild,
                    PollEmpty
<1>7. ASSUME \/ OnOpen \/ ConnectFails \/ StartSocket \/ StartThrows \/ StartBuilders
             \/ StopSocket \/ ClearRunning \/ Joined
      PROVE  GapFree'
  BY <1>1, <1>7 DEF OnOpen, ConnectFails, StartSocket, StartThrows, StartBuilders,
                    StopSocket, ClearRunning, Joined
<1> QED
  BY <1>1, <1>2, <1>3, <1>4, <1>5, <1>6, <1>7, Steps

\* One more published event, with an id above all the others.
LEMMA InOrderAppend ==
  ASSUME NEW q \in Seq(DataEvent), NEW id \in Nat, NEW event \in DataEvent,
         InOrderUpTo(q, id), id < event.id
  PROVE  InOrderUpTo(Append(q, event), event.id)
<1> DEFINE r == Append(q, event)
<1>1. /\ Len(q) \in Nat /\ DOMAIN q = 1 .. Len(q)
      /\ DOMAIN r = 1 .. Len(q) + 1
      /\ \A i \in 1 .. Len(q) : r[i] = q[i]
      /\ r[Len(q) + 1] = event
  OBVIOUS
<1>2. event.id \in Nat /\ \A i \in DOMAIN q : q[i].id \in Nat
  <2>1. \A i \in DOMAIN q : q[i] \in DataEvent
    OBVIOUS
  <2> QED
    BY <2>1 DEF DataEvent
<1> HIDE DEF r
<1>3. ASSUME NEW i \in DOMAIN r
      PROVE  \/ i \in DOMAIN q /\ r[i] = q[i]
             \/ i = Len(q) + 1 /\ r[i] = event
  BY <1>1
<1>4. ASSUME NEW i \in DOMAIN r PROVE r[i].id <= event.id
  BY <1>2, <1>3 DEF InOrderUpTo
<1>5. ASSUME NEW i \in DOMAIN r, NEW j \in DOMAIN r, i < j PROVE r[i].id < r[j].id
  <2>1. i \in DOMAIN q /\ r[i] = q[i]
    BY <1>1, <1>3, <1>5
  <2> QED
    BY <1>2, <1>3, <1>5, <2>1 DEF InOrderUpTo
<1> QED
  BY <1>4, <1>5 DEF InOrderUpTo, r

\* The book moves forward and nothing is published again.
LEMMA InOrderLater ==
  ASSUME NEW q \in Seq(DataEvent), NEW id \in Nat, NEW later \in Nat,
         InOrderUpTo(q, id), id <= later
  PROVE  InOrderUpTo(q, later)
<1>1. \A i \in DOMAIN q : q[i].id \in Nat
  <2>1. \A i \in DOMAIN q : q[i] \in DataEvent
    OBVIOUS
  <2> QED
    BY <2>1 DEF DataEvent
<1> QED
  BY <1>1 DEF InOrderUpTo

\* Every handler keeps the published snapshots in the order of their events.
LEMMA PublishedNext ==
  TypeOK /\ ControlInv /\ FeedInv /\ PublishedInOrder /\ [Next]_vars => PublishedInOrder'
<1> SUFFICES ASSUME TypeOK, ControlInv, FeedInv, PublishedInOrder, [Next]_vars
             PROVE  PublishedInOrder'
  OBVIOUS
<1> USE DEF exchangeVars, threadVars, processVars
<1>1. ASSUME UNCHANGED <<last, event_queue>> PROVE PublishedInOrder'
  BY <1>1 DEF PublishedInOrder
<1>2. ASSUME NEW s \in Symbols, Adopt(s) PROVE PublishedInOrder'
  <2> DEFINE event == Head(batch[s])
  <2>1. event.final \in Nat /\ last[s] < event.final
    BY <1>2, EventAtHand DEF Adopt, Event
  <2>2. InOrderUpTo(event_queue[s], event.final)
    BY <2>1, InOrderLater DEF PublishedInOrder, TypeOK
  <2>3. last' = [last EXCEPT ![s] = event.final] /\ event_queue' = event_queue
    BY <1>2 DEF Adopt
  <2> QED
    BY <2>2, <2>3 DEF PublishedInOrder, TypeOK
<1>3. ASSUME NEW s \in Symbols, Process(s) PROVE PublishedInOrder'
  <2> DEFINE event == Head(batch[s])
             published == [id |-> event.final, levels |-> GetLevels(book'[s], Depth)]
  <2>1. event.final \in Nat /\ last[s] < event.final
    BY <1>3, EventAtHand DEF Process, Event
  <2>2. book'[s] \in Books
    BY TypeNext DEF TypeOK
  <2>3. published \in DataEvent /\ published.id = event.final
    BY <2>1, <2>2, GetLevelsIsBook DEF DataEvent
  <2>4. /\ last' = [last EXCEPT ![s] = event.final]
        /\ event_queue' = [event_queue EXCEPT ![s] = Append(event_queue[s], published)]
    BY <1>3 DEF Process
  <2> HIDE DEF published
  <2>5. InOrderUpTo(Append(event_queue[s], published), event.final)
    BY <2>1, <2>3, InOrderAppend DEF PublishedInOrder, TypeOK
  <2> QED
    BY <2>4, <2>5 DEF PublishedInOrder, TypeOK
<1>4. ASSUME NEW s \in Symbols,
             \/ Trade(s) \/ OnMessage(s) \/ Missed(s) \/ Fetch(s) \/ DequeueInit(s)
             \/ SkipOld(s) \/ Refetch(s) \/ Continue(s) \/ DequeueBuild(s) \/ PollEmpty(s)
             \/ OutOfSync(s)
      PROVE  PublishedInOrder'
  BY <1>1, <1>4 DEF Trade, OnMessage, Missed, Fetch, DequeueInit, SkipOld, Refetch, Continue,
                    DequeueBuild, PollEmpty, OutOfSync
<1>5. ASSUME \/ OnOpen \/ ConnectFails \/ StartSocket \/ StartThrows \/ StartBuilders
             \/ StopSocket \/ ClearRunning \/ Joined
      PROVE  PublishedInOrder'
  BY <1>1, <1>5 DEF OnOpen, ConnectFails, StartSocket, StartThrows, StartBuilders,
                    StopSocket, ClearRunning, Joined
<1> QED
  BY <1>1, <1>2, <1>3, <1>4, <1>5, Steps

------------------------------------------------------------------------------
\* The inductive invariant holds in every state of every behaviour.
LEMMA SyncInvHolds == Spec => []SyncInv
<1>1. SyncInv /\ [Next]_vars => SyncInv'
  BY TypeNext, ControlNext, FeedNext, SynchronisedNext, GapFreeNext, PublishedNext DEF SyncInv
<1> QED
  BY <1>1, SyncInvInit, PTL DEF Spec

\* BookSync's types.
THEOREM TypeCorrect == Spec => []TypeOK
BY SyncInvHolds, PTL DEF SyncInv

\* A book that counts as initialised has missed no update since its REST
\* snapshot, whatever was lost, dropped or re-synchronised before.
THEOREM NoGaps == Spec => []GapFree
BY SyncInvHolds, PTL DEF SyncInv

\* The snapshots of a symbol are published in the order of the depth events
\* behind them, each once, across any number of re-synchronisations.
THEOREM OrderedPublication == Spec => []PublishedInOrder
BY SyncInvHolds, PTL DEF SyncInv

\* A thread is past init_order_book exactly when its book is initialised.
THEOREM SynchronisedFirst == Spec => []SynchronisedBeforeUse
BY SyncInvHolds, PTL DEF SyncInv

\* When stop() has returned, the socket's worker and every book thread are gone.
THEOREM StopJoinsAll == Spec => []StoppedMeansJoined
<1>1. SyncInv => StoppedMeansJoined
  BY DEF SyncInv, ControlInv, StoppedMeansJoined
<1> QED
  BY <1>1, SyncInvHolds, PTL

\* A depth event changes a book at most once, and never after a later event.
THEOREM AppliedOnce == Spec => AppliedAtMostOnce
<1> DEFINE step == \A s \in Symbols :
       /\ last'[s] >= last[s]
       /\ (book'[s] # book[s] \/ event_queue'[s] # event_queue[s]) => last'[s] > last[s]
<1>1. SyncInv /\ [Next]_vars => [step]_vars
  <2> SUFFICES ASSUME SyncInv, [Next]_vars PROVE step
    OBVIOUS
  <2> USE DEF exchangeVars, threadVars, processVars
  <2>0. TypeOK /\ ControlInv /\ FeedInv /\ last \in [Symbols -> Nat]
    BY DEF SyncInv, TypeOK
  <2>1. ASSUME UNCHANGED <<last, book, event_queue>> PROVE step
    BY <2>0, <2>1
  <2>2. ASSUME NEW s \in Symbols, Adopt(s) \/ Process(s) PROVE step
    <3>1. Head(batch[s]).final \in Nat /\ last[s] < Head(batch[s]).final
      <4>1. pc[s] \in {"scan", "process"}
        BY <2>2 DEF Adopt, Process
      <4> QED
        BY <2>0, <4>1, EventAtHand DEF Event
    <3>2. last' = [last EXCEPT ![s] = Head(batch[s]).final]
      BY <2>2 DEF Adopt, Process
    <3>3. \A t \in Symbols \ {s} : book'[t] = book[t] /\ event_queue'[t] = event_queue[t]
      BY <2>2 DEF Adopt, Process, SyncInv, TypeOK
    <3> QED
      BY <2>0, <3>1, <3>2, <3>3
  <2>3. ASSUME NEW s \in Symbols,
               \/ Trade(s) \/ OnMessage(s) \/ Missed(s) \/ Fetch(s) \/ DequeueInit(s)
               \/ SkipOld(s) \/ Refetch(s) \/ Continue(s) \/ DequeueBuild(s) \/ PollEmpty(s)
               \/ OutOfSync(s)
        PROVE  step
    BY <2>1, <2>3 DEF Trade, OnMessage, Missed, Fetch, DequeueInit, SkipOld, Refetch,
                      Continue, DequeueBuild, PollEmpty, OutOfSync
  <2>4. ASSUME \/ OnOpen \/ ConnectFails \/ StartSocket \/ StartThrows \/ StartBuilders
               \/ StopSocket \/ ClearRunning \/ Joined
        PROVE  step
    BY <2>1, <2>4 DEF OnOpen, ConnectFails, StartSocket, StartThrows, StartBuilders,
                      StopSocket, ClearRunning, Joined
  <2> QED
    BY <2>1, <2>2, <2>3, <2>4, Steps
<1> QED
  BY <1>1, SyncInvHolds, PTL DEF Spec, AppliedAtMostOnce

\* A book is re-synchronised only when an update is missing from it.
THEOREM ResyncMeansGap == Spec => ResyncOnlyOnGap
<1> DEFINE step == \A s \in Symbols :
       initialized[s] /\ ~initialized'[s] => Head(batch[s]).prev > last[s]
<1>1. SyncInv /\ [Next]_vars => [step]_vars
  <2> SUFFICES ASSUME SyncInv, [Next]_vars PROVE step
    OBVIOUS
  <2> USE DEF exchangeVars, threadVars, processVars
  <2>0. TypeOK /\ ControlInv /\ FeedInv
    BY DEF SyncInv
  <2>1. ASSUME UNCHANGED initialized PROVE step
    BY <2>1
  <2>2. ASSUME NEW s \in Symbols, OutOfSync(s) PROVE step
    <3>1. /\ Head(batch[s]).prev \in Nat /\ last[s] \in Nat
          /\ last[s] <= Head(batch[s]).prev /\ Head(batch[s]).prev # last[s]
      BY <2>0, <2>2, EventAtHand DEF OutOfSync, InSync, Event, TypeOK
    <3> QED
      BY <2>0, <2>2, <3>1 DEF OutOfSync, TypeOK
  <2>3. ASSUME NEW s \in Symbols, Adopt(s) PROVE step
    BY <2>0, <2>3 DEF Adopt, TypeOK
  <2>4. ASSUME NEW s \in Symbols,
               \/ Trade(s) \/ OnMessage(s) \/ Missed(s) \/ Fetch(s) \/ DequeueInit(s)
               \/ SkipOld(s) \/ Refetch(s) \/ Continue(s) \/ DequeueBuild(s) \/ PollEmpty(s)
               \/ Process(s)
        PROVE  step
    BY <2>1, <2>4 DEF Trade, OnMessage, Missed, Fetch, DequeueInit, SkipOld, Refetch,
                      Continue, DequeueBuild, PollEmpty, Process
  <2>5. ASSUME \/ OnOpen \/ ConnectFails \/ StartSocket \/ StartThrows \/ StartBuilders
               \/ StopSocket \/ ClearRunning \/ Joined
        PROVE  step
    BY <2>1, <2>5 DEF OnOpen, ConnectFails, StartSocket, StartThrows, StartBuilders,
                      StopSocket, ClearRunning, Joined
  <2> QED
    BY <2>1, <2>2, <2>3, <2>4, <2>5, Steps
<1> QED
  BY <1>1, SyncInvHolds, PTL DEF Spec, ResyncOnlyOnGap
\* A queue that an event is appended to is one longer.
LEMMA AppendCounts ==
  ASSUME NEW S, NEW q \in Seq(S), NEW e
  PROVE  Len(q) \in Nat /\ Len(Append(q, e)) = Len(q) + 1
<1> DEFINE T == S \cup {e}
<1>1. q \in Seq(T) /\ e \in T
  OBVIOUS
<1> HIDE DEF T
<1> QED
  BY <1>1

\* Seen by any one symbol, every step of the threads is a step of Builder or
\* leaves the builder as it is.
LEMMA BuilderNext ==
  ASSUME SyncInv, [Next]_vars, NEW r \in Symbols
  PROVE  [BuilderOf(r)!Next]_(BuilderOf(r)!vars)
<1> DEFINE n == Len(event_queue[r])
           step == [BuilderOf(r)!Next]_(BuilderOf(r)!vars)
<1> USE DEF exchangeVars, threadVars, processVars
<1>0. TypeOK /\ ControlInv
  BY DEF SyncInv
<1>1. ASSUME UNCHANGED <<alive, main, event_queue>> PROVE step
  BY <1>1 DEF BuilderOf!vars, Phase
<1>2. ASSUME alive, ~alive', UNCHANGED <<main, event_queue>> PROVE step
  BY <1>2 DEF BuilderOf!Next, BuilderOf!End, Phase
<1>3. CASE StartSocket
  BY <1>3 DEF StartSocket, BuilderOf!Next, BuilderOf!StartCalled, BuilderOf!Moves, Phase
<1>4. CASE StartThrows
  BY <1>4 DEF StartThrows, BuilderOf!Next, BuilderOf!StartThrows, BuilderOf!Moves, Phase
<1>5. CASE StartBuilders
  BY <1>5 DEF StartBuilders, BuilderOf!Next, BuilderOf!Started, BuilderOf!Moves, Phase
<1>6. CASE StopSocket
  BY <1>6 DEF StopSocket, BuilderOf!Next, BuilderOf!StopCalled, BuilderOf!Moves, Phase
<1>7. CASE ClearRunning
  BY <1>7 DEF ClearRunning, BuilderOf!vars, Phase
<1>8. CASE Joined
  BY <1>8 DEF Joined, BuilderOf!Next, BuilderOf!Stopped, BuilderOf!Moves, Phase
<1>9. ASSUME NEW s \in Symbols, Process(s) PROVE step
  <2>1. CASE s # r
    BY <1>0, <1>9, <2>1 DEF Process, TypeOK, BuilderOf!vars, Phase
  <2>2. CASE s = r
    <3>1. Phase \in {"running", "stopping"}
      BY <1>0, <1>9, <2>2 DEF Process, ControlInv, Initializing, Phase, TypeOK, MainStates
    <3>2. Len(event_queue'[r]) = Len(event_queue[r]) + 1
      BY <1>0, <1>9, <2>2, AppendCounts DEF Process, TypeOK
    <3> QED
      BY <1>9, <3>1, <3>2 DEF Process, BuilderOf!Next, BuilderOf!Publish, Phase
  <2> QED
    BY <2>1, <2>2
<1>10. ASSUME NEW s \in Symbols,
              \/ Trade(s) \/ OnMessage(s) \/ Missed(s) \/ Fetch(s) \/ DequeueInit(s)
              \/ SkipOld(s) \/ Refetch(s) \/ Continue(s) \/ DequeueBuild(s) \/ PollEmpty(s)
              \/ OutOfSync(s) \/ Adopt(s)
       PROVE  step
  BY <1>1, <1>10 DEF Trade, OnMessage, Missed, Fetch, DequeueInit, SkipOld, Refetch,
                     Continue, DequeueBuild, PollEmpty, OutOfSync, Adopt
<1>11. ASSUME NEW s \in Symbols, FetchFails(s) PROVE step
  BY <1>2, <1>11 DEF FetchFails, Terminate
<1>12. CASE OnClose
  BY <1>2, <1>12 DEF OnClose, Terminate
<1>13. CASE OnOpen \/ ConnectFails
  BY <1>1, <1>13 DEF OnOpen, ConnectFails
<1>14. CASE UNCHANGED vars
  BY <1>1, <1>14 DEF vars
<1> QED
  BY <1>3, <1>4, <1>5, <1>6, <1>7, <1>8, <1>9, <1>10, <1>11, <1>12, <1>13, <1>14
     DEF Next, ExchangeStep, SocketStep, StartStep, StopStep, InitStep, BuildStep

\* The synchroniser implements the abstract builder that the archiver and the
\* publisher are modelled with: for every symbol, events are published only
\* between the return of start() and the return of stop().
THEOREM ImplementsBuilder == Spec => BuilderSpec
<1>1. Init => \A s \in Symbols : BuilderOf(s)!Init
  BY DEF Init, BuilderOf!Init, Phase
<1>2. SyncInv /\ [Next]_vars =>
        [\A s \in Symbols : [BuilderOf(s)!Next]_(BuilderOf(s)!vars)]_vars
  BY BuilderNext
<1> QED
  BY <1>1, <1>2, SyncInvHolds, PTL DEF Spec, BuilderSpec
==============================================================================
