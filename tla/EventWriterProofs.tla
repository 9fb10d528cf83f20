------------------------- MODULE EventWriterProofs -------------------------
(***************************************************************************)
(* Proofs about EventWriter, whatever it is composed with: what enqueueing *)
(* an event, a step of write() and a flush do to the order of the events   *)
(* on the queue, in the row buffer and in the database, and what the loss  *)
(* of an event amounts to.  HistoricalProofs and ArchiverProofs use them.  *)
(***************************************************************************)
EXTENDS EventWriter, TLAPS

\* Append makes a sequence one longer and leaves what it had.
LEMMA AppendFacts ==
  ASSUME NEW S, NEW q \in Seq(S), NEW e \in S
  PROVE  /\ Append(q, e) \in Seq(S)
         /\ Len(q) \in Nat /\ Len(Append(q, e)) = Len(q) + 1
         /\ DOMAIN q = 1 .. Len(q) /\ DOMAIN Append(q, e) = 1 .. Len(q) + 1
         /\ \A i \in 1 .. Len(q) : Append(q, e)[i] = q[i]
         /\ Append(q, e)[Len(q) + 1] = e
OBVIOUS

\* Tail makes a non-empty sequence one shorter and moves its elements up.
LEMMA TailFacts ==
  ASSUME NEW S, NEW q \in Seq(S), q # << >>
  PROVE  /\ Tail(q) \in Seq(S) /\ Head(q) \in S /\ Head(q) = q[1]
         /\ Len(q) \in Nat \ {0} /\ Len(Tail(q)) = Len(q) - 1
         /\ DOMAIN q = 1 .. Len(q) /\ DOMAIN Tail(q) = 1 .. Len(q) - 1
         /\ \A i \in 1 .. Len(q) - 1 : Tail(q)[i] = q[i + 1]
OBVIOUS

\* Concatenation puts the elements of the second sequence behind the first's.
LEMMA ConcatFacts ==
  ASSUME NEW S, NEW p \in Seq(S), NEW q \in Seq(S)
  PROVE  /\ p \o q \in Seq(S)
         /\ Len(p) \in Nat /\ Len(q) \in Nat /\ Len(p \o q) = Len(p) + Len(q)
         /\ DOMAIN p = 1 .. Len(p) /\ DOMAIN q = 1 .. Len(q)
         /\ DOMAIN (p \o q) = 1 .. Len(p) + Len(q)
         /\ \A i \in 1 .. Len(p) : (p \o q)[i] = p[i]
         /\ \A i \in Len(p) + 1 .. Len(p) + Len(q) : (p \o q)[i] = q[i - Len(p)]
OBVIOUS

\* A sequence whose elements are in a set is a sequence over that set.
LEMMA SeqNarrows ==
  ASSUME NEW S, NEW T, NEW q \in Seq(S), \A i \in DOMAIN q : q[i] \in T
  PROVE  q \in Seq(T)
OBVIOUS

------------------------------------------------------------------------------
\* What the state variables that count events are, for arithmetic.
LEMMA WriterLengths ==
  ASSUME WriterTypeOK, produced \in Nat
  PROVE  /\ buffer \in Seq(Nat) /\ dbBuffer \in Seq(Nat) /\ database \in Seq(Nat)
         /\ Len(buffer) \in Nat /\ Len(dbBuffer) \in Nat /\ Len(database) \in Nat
         /\ DOMAIN buffer = 1 .. Len(buffer) /\ DOMAIN dbBuffer = 1 .. Len(dbBuffer)
         /\ DOMAIN database = 1 .. Len(database)
         /\ produced \in Nat /\ event \in Nat /\ eventsWritten \in Nat /\ Held \in 0 .. 1
BY DEF WriterTypeOK, Held

\* The event taken off the queue is the oldest one that is on it.
LEMMA TakeOldest ==
  ASSUME WriterTypeOK, produced \in Nat, QueueInv, Take
  PROVE  /\ buffer' \in Seq(Nat) /\ Len(buffer') = Len(buffer) - 1
         /\ Len(buffer') \in Nat /\ Len(buffer) >= 1
         /\ event' = produced - Len(buffer')
         /\ \A i \in DOMAIN buffer' : buffer'[i] = produced - Len(buffer') + i
<1>1. /\ Tail(buffer) \in Seq(Nat) /\ Head(buffer) = buffer[1]
      /\ Len(buffer) \in Nat \ {0} /\ Len(Tail(buffer)) = Len(buffer) - 1
      /\ DOMAIN buffer = 1 .. Len(buffer) /\ DOMAIN Tail(buffer) = 1 .. Len(buffer) - 1
      /\ \A i \in 1 .. Len(buffer) - 1 : Tail(buffer)[i] = buffer[i + 1]
  BY WriterLengths, TailFacts DEF Take
<1>2. event' = buffer[1] /\ buffer' = Tail(buffer)
  BY <1>1 DEF Take
<1>3. buffer[1] = produced - Len(buffer) + 1
  BY <1>1 DEF QueueInv
<1>4. ASSUME NEW i \in 1 .. Len(buffer) - 1
      PROVE  Tail(buffer)[i] = produced - Len(buffer) + (i + 1)
  BY <1>1 DEF QueueInv
<1>5. /\ buffer' \in Seq(Nat) /\ Len(buffer') = Len(buffer) - 1
      /\ Len(buffer') \in Nat /\ Len(buffer) >= 1
      /\ DOMAIN buffer' = 1 .. Len(buffer) - 1
  BY <1>1, <1>2
<1>6. event' = produced - Len(buffer')
  BY <1>2, <1>3, <1>5, WriterLengths
<1>7. ASSUME NEW i \in DOMAIN buffer'
      PROVE  buffer'[i] = produced - Len(buffer') + i
  <2>1. i \in 1 .. Len(buffer) - 1 /\ buffer'[i] = Tail(buffer)[i]
    BY <1>2, <1>5
  <2>2. buffer'[i] = produced - Len(buffer) + (i + 1)
    BY <1>4, <2>1
  <2>3. i \in Int /\ Len(buffer) \in Int /\ produced \in Int
    BY <2>1, WriterLengths
  <2>4. produced - Len(buffer) + (i + 1) = produced - (Len(buffer) - 1) + i
    BY <2>3
  <2> QED
    BY <1>5, <2>2, <2>4
<1> QED
  BY <1>5, <1>6, <1>7

\* The rows and what is stored stay as they are, and the queue moves on or not.
LEMMA RowsKept ==
  ASSUME WriterTypeOK, produced \in Nat, RowsInv, UNCHANGED <<database, dbBuffer>>,
         produced' - Len(buffer') - Held' \in Int,
         produced - Len(buffer) - Held <= produced' - Len(buffer') - Held'
  PROVE  RowsInv'
<1>1. ASSUME NEW n \in 1 .. produced - Len(buffer) - Held
      PROVE  n \in 1 .. produced' - Len(buffer') - Held'
  BY WriterLengths
<1> QED
  BY <1>1 DEF RowsInv

\* Steps that leave the queue and the rows alone keep the events in order.
LEMMA OrderKept ==
  ASSUME QueueInv, RowsInv, UNCHANGED <<produced, buffer, wpc, event, dbBuffer, database>>
  PROVE  QueueInv' /\ RowsInv'
BY DEF QueueInv, RowsInv, Held

\* Enqueueing the next event keeps the events in order.
LEMMA EnqueueKeepsOrder ==
  ASSUME WriterTypeOK, produced \in Nat, QueueInv, RowsInv,
         produced' = produced + 1, buffer' = Append(buffer, produced'),
         UNCHANGED <<wpc, event, dbBuffer, database>>
  PROVE  QueueInv' /\ RowsInv'
<1>1. QueueInv'
  <2>1. /\ Len(buffer') = Len(buffer) + 1 /\ DOMAIN buffer' = 1 .. Len(buffer) + 1
        /\ \A i \in 1 .. Len(buffer) : buffer'[i] = buffer[i]
        /\ buffer'[Len(buffer) + 1] = produced + 1
        /\ produced' = produced + 1 /\ Held' = Held /\ wpc' = wpc /\ event' = event
    BY WriterLengths, AppendFacts DEF Held
  <2>2. ASSUME NEW i \in 1 .. Len(buffer) + 1
        PROVE  buffer'[i] = produced' - Len(buffer') + i
    <3>1. CASE i = Len(buffer) + 1
      BY <2>1, <3>1, WriterLengths
    <3>2. CASE i \in 1 .. Len(buffer)
      <4>1. buffer[i] = produced - Len(buffer) + i
        BY <3>2, WriterLengths DEF QueueInv
      <4>2. buffer'[i] = buffer[i]
        BY <2>1, <3>2
      <4> QED
        BY <2>1, <4>1, <4>2, WriterLengths
    <3> QED
      BY <3>1, <3>2, WriterLengths
  <2>3. Len(buffer') + Held' <= produced'
    BY <2>1, WriterLengths DEF QueueInv
  <2>4. wpc' = "put" => event' = produced' - Len(buffer')
    BY <2>1, WriterLengths DEF QueueInv
  <2> QED
    BY <2>1, <2>2, <2>3, <2>4 DEF QueueInv
<1>2. RowsInv'
  <2>1. /\ Len(buffer') = Len(buffer) + 1 /\ Held' = Held /\ UNCHANGED <<database, dbBuffer>>
    BY WriterLengths, AppendFacts DEF Held
  <2> QED
    BY <2>1, RowsKept, WriterLengths
<1> QED
  BY <1>1, <1>2

\* A step of write() keeps the last events produced on the queue, in order.
LEMMA QueueNext ==
  ASSUME WriterTypeOK, produced \in Nat, QueueInv, WriterStep, UNCHANGED produced
  PROVE  QueueInv'
<1> USE DEF At
<1>1. CASE Dequeue
  <2>1. wpc = "dequeue" /\ wpc' = "put" /\ Held = 0 /\ Held' = 1 /\ Take
    BY <1>1 DEF Dequeue, Held
  <2>2. /\ Len(buffer') = Len(buffer) - 1 /\ Len(buffer') \in Nat
        /\ event' = produced - Len(buffer')
        /\ \A i \in DOMAIN buffer' : buffer'[i] = produced - Len(buffer') + i
    BY <2>1, TakeOldest
  <2>3. Len(buffer') + Held' <= produced
    BY <2>1, <2>2, WriterLengths DEF QueueInv
  <2> QED
    BY <2>2, <2>3 DEF QueueInv
<1>2. CASE Discard
  <2>1. wpc = "last" /\ wpc' = "outer" /\ Held = 0 /\ Held' = 0 /\ Take
    BY <1>2 DEF Discard, Held
  <2>2. /\ Len(buffer') = Len(buffer) - 1 /\ Len(buffer') \in Nat
        /\ event' = produced - Len(buffer')
        /\ \A i \in DOMAIN buffer' : buffer'[i] = produced - Len(buffer') + i
    BY <2>1, TakeOldest
  <2>3. Len(buffer') + Held' <= produced
    BY <2>1, <2>2, WriterLengths DEF QueueInv
  <2> QED
    BY <2>2, <2>3 DEF QueueInv
<1>3. CASE Put
  <2>1. Held = 1 /\ Held' = 0 /\ wpc' # "put" /\ buffer' = buffer
    BY <1>3 DEF Put, Held
  <2> QED
    BY <2>1, WriterLengths DEF QueueInv
<1>4. CASE \/ Outer \/ Inner \/ NotDequeued \/ Ask \/ Count \/ Flush \/ NothingLeft
           \/ AskLast \/ Close
  <2>1. Held = 0 /\ Held' = 0 /\ wpc' # "put" /\ buffer' = buffer
    BY <1>4 DEF Held, Outer, Inner, NotDequeued, Ask, Count, Flush, NothingLeft, AskLast, Close
  <2> QED
    BY <2>1, WriterLengths DEF QueueInv
<1>5. CASE FlushFails \/ PutFails
  BY <1>5 DEF FlushFails, PutFails, QueueInv, Held
<1> QED
  BY <1>1, <1>2, <1>3, <1>4, <1>5 DEF WriterStep

\* Storing the rows behind what is stored keeps them in order.
LEMMA StoreKeepsOrder ==
  ASSUME WriterTypeOK, produced \in Nat, RowsInv,
         database' = database \o dbBuffer, dbBuffer' = << >>,
         UNCHANGED <<produced, buffer>>, Held' = Held
  PROVE  RowsInv'
<1>1. /\ DOMAIN database' = 1 .. Len(database) + Len(dbBuffer)
      /\ \A i \in 1 .. Len(database) : database'[i] = database[i]
      /\ \A i \in Len(database) + 1 .. Len(database) + Len(dbBuffer) :
           database'[i] = dbBuffer[i - Len(database)]
  BY ConcatFacts, WriterLengths
<1>2. \A i \in DOMAIN database' :
        \/ i \in DOMAIN database /\ database'[i] = database[i]
        \/ /\ i > Len(database) /\ i - Len(database) \in DOMAIN dbBuffer
           /\ database'[i] = dbBuffer[i - Len(database)]
  <2> SUFFICES ASSUME NEW i \in 1 .. Len(database) + Len(dbBuffer)
               PROVE  \/ i \in 1 .. Len(database) /\ database'[i] = database[i]
                      \/ /\ i > Len(database) /\ i - Len(database) \in 1 .. Len(dbBuffer)
                         /\ database'[i] = dbBuffer[i - Len(database)]
    BY <1>1, WriterLengths
  <2>1. CASE i <= Len(database)
    BY <1>1, <2>1, WriterLengths
  <2>2. CASE i > Len(database)
    <3>1. i \in Len(database) + 1 .. Len(database) + Len(dbBuffer)
      BY <2>2, WriterLengths
    <3>2. i - Len(database) \in 1 .. Len(dbBuffer)
      BY <3>1, WriterLengths
    <3> QED
      BY <1>1, <2>2, <3>1, <3>2
  <2> QED
    BY <2>1, <2>2, WriterLengths
<1>3. ASSUME NEW i \in DOMAIN database', NEW j \in DOMAIN database', i < j
      PROVE  database'[i] < database'[j]
  <2>1. CASE j \in DOMAIN database
    <3>1. i \in 1 .. Len(database) /\ j \in 1 .. Len(database)
      BY <1>1, <1>3, <2>1, WriterLengths
    <3>2. database[i] < database[j]
      BY <1>3, <3>1, WriterLengths DEF RowsInv
    <3> QED
      BY <1>1, <3>1, <3>2
  <2>2. CASE /\ j > Len(database) /\ j - Len(database) \in DOMAIN dbBuffer
             /\ database'[j] = dbBuffer[j - Len(database)]
    <3>1. CASE i \in DOMAIN database /\ database'[i] = database[i]
      BY <2>2, <3>1 DEF RowsInv
    <3>2. CASE /\ i > Len(database) /\ i - Len(database) \in DOMAIN dbBuffer
               /\ database'[i] = dbBuffer[i - Len(database)]
      <4>1. i - Len(database) < j - Len(database)
        BY <1>1, <1>3, WriterLengths
      <4> QED
        BY <2>2, <3>2, <4>1 DEF RowsInv
    <3> QED
      BY <1>2, <3>1, <3>2
  <2> QED
    BY <1>2, <2>1, <2>2
<1>4. \A i \in DOMAIN database' : database'[i] \in 1 .. produced' - Len(buffer') - Held'
  BY <1>2 DEF RowsInv
<1>5. DOMAIN dbBuffer' = {}
  OBVIOUS
<1> QED
  BY <1>3, <1>4, <1>5 DEF RowsInv

\* A step of write() keeps the rows in the order of their events, behind what is
\* stored.
LEMMA RowsNext ==
  ASSUME WriterTypeOK, produced \in Nat, QueueInv, RowsInv, WriterStep, UNCHANGED produced
  PROVE  RowsInv'
<1> USE DEF At, rowVars
<1>1. CASE Dequeue
  <2>1. Held = 0 /\ Held' = 1 /\ Take /\ UNCHANGED <<database, dbBuffer>>
    BY <1>1 DEF Dequeue, Held
  <2> QED
    BY <2>1, TakeOldest, RowsKept, WriterLengths
<1>2. CASE Discard
  <2>1. Held = 0 /\ Held' = 0 /\ Take /\ UNCHANGED <<database, dbBuffer>>
    BY <1>2 DEF Discard, Held
  <2> QED
    BY <2>1, TakeOldest, RowsKept, WriterLengths
<1>3. CASE Put
  <2>1. /\ Held = 1 /\ Held' = 0 /\ buffer' = buffer /\ database' = database
        /\ event = produced - Len(buffer) /\ event >= 1
    BY <1>3, WriterLengths DEF Put, Held, QueueInv
  <2>2. /\ Len(dbBuffer') = Len(dbBuffer) + 1 /\ DOMAIN dbBuffer' = 1 .. Len(dbBuffer) + 1
        /\ \A i \in 1 .. Len(dbBuffer) : dbBuffer'[i] = dbBuffer[i]
        /\ dbBuffer'[Len(dbBuffer) + 1] = event
    BY <1>3, WriterLengths, AppendFacts DEF Put
  <2>3. /\ \A i \in DOMAIN database : database[i] \in 1 .. event - 1
        /\ \A i \in DOMAIN dbBuffer : dbBuffer[i] \in 1 .. event - 1
    BY <2>1, WriterLengths DEF RowsInv
  <2>4. \A i \in DOMAIN dbBuffer' : \/ i \in DOMAIN dbBuffer /\ dbBuffer'[i] = dbBuffer[i]
                                    \/ i = Len(dbBuffer) + 1 /\ dbBuffer'[i] = event
    BY <2>2, WriterLengths
  <2>5. ASSUME NEW i \in DOMAIN dbBuffer', NEW j \in DOMAIN dbBuffer', i < j
        PROVE  dbBuffer'[i] < dbBuffer'[j]
    <3>1. i \in DOMAIN dbBuffer /\ dbBuffer'[i] = dbBuffer[i]
      BY <2>2, <2>5, WriterLengths
    <3>2. CASE j \in DOMAIN dbBuffer
      BY <2>2, <2>5, <3>1, <3>2, WriterLengths DEF RowsInv
    <3>3. CASE j = Len(dbBuffer) + 1
      BY <2>2, <2>3, <3>1, <3>3, WriterLengths
    <3> QED
      BY <2>4, <3>2, <3>3
  <2>6. ASSUME NEW i \in DOMAIN database, NEW j \in DOMAIN dbBuffer'
        PROVE  database[i] < dbBuffer'[j]
    <3>1. CASE j \in DOMAIN dbBuffer /\ dbBuffer'[j] = dbBuffer[j]
      BY <3>1 DEF RowsInv
    <3>2. CASE dbBuffer'[j] = event
      BY <2>3, <3>2, WriterLengths
    <3> QED
      BY <2>4, <3>1, <3>2
  <2>7. /\ \A i \in DOMAIN database : database[i] \in 1 .. produced' - Len(buffer') - Held'
        /\ \A i \in DOMAIN dbBuffer' : dbBuffer'[i] \in 1 .. produced' - Len(buffer') - Held'
    <3>1. produced' - Len(buffer') - Held' = event /\ event \in Nat
      BY <2>1, WriterLengths
    <3>2. 1 .. event - 1 \subseteq 1 .. event /\ event \in 1 .. event
      BY <2>1, <3>1
    <3> QED
      BY <2>3, <2>4, <3>1, <3>2
  <2> QED
    BY <2>1, <2>5, <2>6, <2>7 DEF RowsInv
<1>4. CASE (Flush \/ Close) /\ eventsWritten > 0
  <2>1. /\ database' = database \o dbBuffer /\ dbBuffer' = << >>
        /\ Held = 0 /\ Held' = 0 /\ buffer' = buffer
    BY <1>4 DEF Flush, FlushRows, Close, Held
  <2> QED
    BY <2>1, StoreKeepsOrder
<1>5. CASE \/ Outer \/ Inner \/ NotDequeued \/ Ask \/ Count \/ NothingLeft \/ AskLast
           \/ (Flush \/ Close) /\ ~(eventsWritten > 0)
  <2>1. Held = 0 /\ Held' = 0 /\ UNCHANGED <<buffer, database, dbBuffer>>
    BY <1>5 DEF Held, Outer, Inner, NotDequeued, Ask, Count, Flush, FlushRows, NothingLeft,
                AskLast, Close
  <2> QED
    BY <2>1, RowsKept, WriterLengths
<1>6. CASE FlushFails \/ PutFails
  BY <1>6 DEF FlushFails, PutFails, RowsInv, Held
<1> QED
  BY <1>1, <1>2, <1>3, <1>4, <1>5, <1>6 DEF WriterStep

\* A flush of rows that are no more than a batch stores a batch.
LEMMA FlushStores ==
  ASSUME WriterTypeOK, WriterTypeOK', produced \in Nat, UNCHANGED produced, RowsInv',
         database' = database \o dbBuffer, Len(dbBuffer) \in 1 .. BatchSize
  PROVE  Log!Store
<1>1. /\ Len(database') = Len(database) + Len(dbBuffer)
      /\ \A i \in 1 .. Len(database) : database'[i] = database[i]
  <2>1. database \in Seq(Nat) /\ dbBuffer \in Seq(Nat)
    BY DEF WriterTypeOK
  <2>2. /\ Len(database \o dbBuffer) = Len(database) + Len(dbBuffer)
        /\ \A i \in 1 .. Len(database) : (database \o dbBuffer)[i] = database[i]
    BY <2>1, ConcatFacts
  <2> QED
    BY <2>2
<1>2. database' \in Seq(Nat) /\ DOMAIN database' = 1 .. Len(database')
  <2>1. database' \in Seq(Nat)
    BY DEF WriterTypeOK
  <2> QED
    BY <2>1, ConcatFacts
<1>3. database' \in Seq(1 .. produced)
  <2>1. \A i \in DOMAIN database' : database'[i] \in 1 .. produced
    <3>1. \A i \in DOMAIN database' : database'[i] \in 1 .. produced' - Len(buffer') - Held'
      BY DEF RowsInv
    <3>2. Len(buffer') \in Nat /\ Held' \in 0 .. 1
      BY DEF WriterTypeOK, Held
    <3>3. 1 .. produced' - Len(buffer') - Held' \subseteq 1 .. produced
      BY <3>2
    <3> QED
      BY <3>1, <3>3
  <2> QED
    BY <1>2, <2>1, SeqNarrows
<1>4. SubSeq(database', 1, Len(database)) = database
  <2>1. Len(database) \in Nat /\ Len(database) <= Len(database')
    BY <1>1, WriterLengths
  <2> QED
    BY <1>1, <1>2, <2>1, WriterLengths
<1>5. Log!Increasing(database')
  BY DEF RowsInv, Log!Increasing
<1>6. Len(database') \in Len(database) + 1 .. Len(database) + BatchSize
  BY <1>1, WriterLengths, BatchSizeAssumption
<1> QED
  BY <1>3, <1>4, <1>5, <1>6 DEF Log!Store
=============================================================================
