-------------------------- MODULE HistoricalProofs --------------------------
(***************************************************************************)
(* Proofs about Historical, for every batch size, number of symbols and    *)
(* number of events.                                                       *)
(***************************************************************************)
EXTENDS Historical, EventWriterProofs

\* The inductive invariant holds when process() starts its threads.
LEMMA HistInvInit == Init => HistInv
<1> SUFFICES ASSUME Init PROVE HistInv
  OBVIOUS
<1>1. TypeOK
  <2>1. eventsWritten \in 0 .. BatchSize
    BY BatchSizeAssumption DEF Init, WriterInit
  <2>2. buffer \in Seq(Nat) /\ dbBuffer \in Seq(Nat) /\ database \in Seq(Nat)
    BY DEF Init, WriterInit
  <2> QED
    BY <2>1, <2>2 DEF Init, WriterInit, TypeOK, WriterTypeOK, WriterStates
<1>2. QueueInv /\ RowsInv
  BY DEF Init, WriterInit, QueueInv, RowsInv, Held
<1>3. CountInv /\ ControlInv
  BY DEF Init, WriterInit, CountInv, ControlInv
<1>4. LossInv
  <2>1. /\ Len(buffer) = 0 /\ Len(dbBuffer) = 0 /\ Len(database) = 0 /\ Held = 0
        /\ produced = 0 /\ wpc = "outer" /\ producerDone = FALSE
    BY DEF Init, WriterInit, Held
  <2> QED
    BY <2>1 DEF LossInv, Lost
<1> QED
  BY <1>1, <1>2, <1>3, <1>4 DEF HistInv

------------------------------------------------------------------------------
(* Every step keeps the types, the flags and the count. *)

\* Every step leaves state of the right type.  CountInv keeps the count of a
\* batch that is not full below BatchSize.
LEMMA TypeNext == TypeOK /\ CountInv /\ [Next]_vars => TypeOK'
<1> SUFFICES ASSUME TypeOK, CountInv, [Next]_vars PROVE TypeOK'
  OBVIOUS
<1> USE DEF TypeOK, WriterTypeOK, WriterStates, contextVars, rowVars, writerVars, downloadVars
<1>1. CASE NoFile
  BY <1>1 DEF NoFile
<1>2. CASE OpenFile
  BY <1>2 DEF OpenFile
<1>3. CASE ReadLine
  <2>1. buffer' \in Seq(Nat)
    BY <1>3, AppendFacts DEF ReadLine
  <2> QED
    BY <1>3, <2>1 DEF ReadLine
<1>4. CASE EndOfFile
  BY <1>4 DEF EndOfFile
<1>5. CASE Finish
  BY <1>5 DEF Finish
<1>6. CASE MainStep
  BY <1>6 DEF MainStep, JoinProducer, JoinConsumer
<1>7. CASE ConsumeStep
  <2>1. ASSUME Take PROVE event' \in Nat /\ buffer' \in Seq(Nat)
    BY <2>1, TailFacts DEF Take
  <2>2. CASE Dequeue
    BY <1>7, <2>1, <2>2 DEF ConsumeStep, Dequeue
  <2>3. CASE Discard
    BY <1>7, <2>1, <2>3 DEF ConsumeStep, Discard
  <2>4. CASE Put
    <3>1. dbBuffer' \in Seq(Nat)
      BY <2>4, AppendFacts DEF Put
    <3> QED
      BY <1>7, <2>4, <3>1 DEF ConsumeStep, Put
  <2>5. CASE Count
    <3>1. eventsWritten' \in 0 .. BatchSize
      BY <2>5, BatchSizeAssumption DEF Count, At, CountInv
    <3> QED
      BY <1>7, <2>5, <3>1 DEF ConsumeStep, Count
  <2>6. CASE Flush
    <3>1. database' \in Seq(Nat) /\ dbBuffer' \in Seq(Nat)
      <4>1. database \o dbBuffer \in Seq(Nat) /\ << >> \in Seq(Nat)
        BY ConcatFacts
      <4> QED
        BY <2>6, <4>1 DEF Flush, FlushRows
    <3>2. eventsWritten' \in 0 .. BatchSize
      BY <2>6, BatchSizeAssumption DEF Flush, FlushRows
    <3> QED
      BY <1>7, <2>6, <3>1, <3>2 DEF ConsumeStep, Flush
  <2>7. CASE Close
    <3>1. database' \in Seq(Nat) /\ dbBuffer' \in Seq(Nat)
      BY <2>7, ConcatFacts DEF Close
    <3> QED
      BY <1>7, <2>7, <3>1 DEF ConsumeStep, Close
  <2>8. CASE Outer \/ Inner
    BY <1>7, <2>8 DEF ConsumeStep, Outer, Inner
  <2>9. CASE NotDequeued \/ Ask
    BY <1>7, <2>9 DEF ConsumeStep, NotDequeued, Ask
  <2>10. CASE FlushFails \/ PutFails
    <3>1. alive' \in BOOLEAN
      BY <2>10 DEF FlushFails, PutFails
    <3>2. UNCHANGED <<buffer, producerDone, consumerDone, running, wpc, event>>
      BY <2>10 DEF FlushFails, PutFails
    <3>3. UNCHANGED <<dbBuffer, eventsWritten, sender, database>>
      BY <2>10 DEF FlushFails, PutFails
    <3>4. WriterTypeOK'
      BY <3>1, <3>2, <3>3
    <3>5. UNCHANGED <<main, dpc, symbol, produced>>
      BY <1>7 DEF ConsumeStep
    <3> QED
      BY <3>4, <3>5
  <2>11. CASE NothingLeft \/ AskLast
    BY <1>7, <2>11 DEF ConsumeStep, NothingLeft, AskLast
  <2> QED
    BY <1>7, <2>2, <2>3, <2>4, <2>5, <2>6, <2>7, <2>8, <2>9, <2>10, <2>11
       DEF ConsumeStep, WriterStep
<1>8. CASE UNCHANGED vars
  BY <1>8 DEF vars
<1> QED
  BY <1>1, <1>2, <1>3, <1>4, <1>5, <1>6, <1>7, <1>8 DEF Next, DownloadStep

\* Every step keeps the flags in step with the threads: in particular the
\* writer only gives up, or flushes nothing, when the producer is through.
LEMMA ControlNext == TypeOK /\ CountInv /\ ControlInv /\ [Next]_vars => ControlInv'
<1> SUFFICES ASSUME TypeOK, CountInv, ControlInv, [Next]_vars PROVE ControlInv'
  OBVIOUS
<1> USE DEF ControlInv, contextVars, rowVars, writerVars, downloadVars, At
<1>1. CASE NoFile \/ OpenFile \/ ReadLine \/ EndOfFile
  BY <1>1 DEF NoFile, OpenFile, ReadLine, EndOfFile
<1>2. CASE Finish
  BY <1>2 DEF Finish
<1>3. CASE MainStep
  BY <1>3 DEF MainStep, JoinProducer, JoinConsumer
<1>4. CASE ConsumeStep
  <2>1. CASE Outer \/ Inner \/ Dequeue \/ NotDequeued \/ Ask \/ Put
    BY <1>4, <2>1 DEF ConsumeStep, Outer, Inner, Dequeue, NotDequeued, Ask, Put
  <2>2. CASE Count
    <3>1. eventsWritten' > 0
      BY <2>2 DEF Count, TypeOK, WriterTypeOK
    <3> QED
      BY <1>4, <2>2, <3>1 DEF ConsumeStep, Count
  <2>3. CASE Flush
    BY <1>4, <2>3 DEF ConsumeStep, Flush
  <2>4. CASE FlushFails \/ PutFails
    BY <1>4, <2>4 DEF ConsumeStep, FlushFails, PutFails
  <2>5. CASE Discard \/ NothingLeft \/ AskLast
    BY <1>4, <2>5 DEF ConsumeStep, Discard, NothingLeft, AskLast
  <2>6. CASE Close
    BY <1>4, <2>6 DEF ConsumeStep, Close
  <2> QED
    BY <1>4, <2>1, <2>2, <2>3, <2>4, <2>5, <2>6 DEF ConsumeStep, WriterStep
<1>5. CASE UNCHANGED vars
  BY <1>5 DEF vars
<1> QED
  BY <1>1, <1>2, <1>3, <1>4, <1>5 DEF Next, DownloadStep

\* Every step keeps eventsWritten_ at the number of rows, and below BatchSize
\* until the batch is flushed.
LEMMA CountNext == TypeOK /\ CountInv /\ ControlInv /\ [Next]_vars => CountInv'
<1> SUFFICES ASSUME TypeOK, CountInv, ControlInv, [Next]_vars PROVE CountInv'
  OBVIOUS
<1> USE DEF contextVars, rowVars, writerVars, downloadVars, At
<1>1. /\ dbBuffer \in Seq(Nat) /\ Len(dbBuffer) \in Nat /\ eventsWritten \in Nat
      /\ BatchSize \in Nat \ {0}
  BY BatchSizeAssumption DEF TypeOK, WriterTypeOK
<1>2. CASE DownloadStep \/ MainStep
  BY <1>2 DEF DownloadStep, NoFile, OpenFile, ReadLine, EndOfFile, Finish,
              MainStep, JoinProducer, JoinConsumer, CountInv
<1>3. CASE ConsumeStep
  <2>1. CASE Outer
    BY <1>1, <2>1 DEF Outer, CountInv
  <2>2. CASE Inner \/ Dequeue \/ NotDequeued \/ Ask
    BY <1>1, <2>2 DEF Inner, Dequeue, NotDequeued, Ask, CountInv
  <2>3. CASE Put
    <3>1. Len(dbBuffer') = Len(dbBuffer) + 1
      BY <2>3, <1>1, AppendFacts DEF Put, TypeOK, WriterTypeOK
    <3> QED
      BY <1>1, <2>3, <3>1 DEF Put, CountInv
  <2>4. CASE Count
    BY <1>1, <2>4 DEF Count, Full, CountInv
  <2>5. CASE Flush
    <3>1. eventsWritten' = 0 /\ Len(dbBuffer') = 0
      BY <1>1, <2>5 DEF Flush, FlushRows, CountInv
    <3> QED
      BY <1>1, <2>5, <3>1 DEF Flush, CountInv
  <2>6. CASE FlushFails \/ PutFails
    BY <2>6 DEF FlushFails, PutFails, CountInv
  <2>7. CASE Discard \/ NothingLeft \/ AskLast
    BY <1>1, <2>7 DEF Discard, NothingLeft, AskLast, CountInv
  <2>8. CASE Close
    BY <1>1, <2>8 DEF Close, CountInv
  <2> QED
    BY <1>3, <2>1, <2>2, <2>3, <2>4, <2>5, <2>6, <2>7, <2>8 DEF ConsumeStep, WriterStep
<1>4. CASE UNCHANGED vars
  BY <1>4 DEF vars, CountInv
<1> QED
  BY <1>2, <1>3, <1>4 DEF Next

------------------------------------------------------------------------------
(* Every step keeps the events in order. *)

\* What the state variables that count events are, for arithmetic.
LEMMA Lengths ==
  ASSUME TypeOK
  PROVE  /\ buffer \in Seq(Nat) /\ dbBuffer \in Seq(Nat) /\ database \in Seq(Nat)
         /\ Len(buffer) \in Nat /\ Len(dbBuffer) \in Nat /\ Len(database) \in Nat
         /\ DOMAIN buffer = 1 .. Len(buffer) /\ DOMAIN dbBuffer = 1 .. Len(dbBuffer)
         /\ DOMAIN database = 1 .. Len(database)
         /\ produced \in Nat /\ event \in Nat /\ eventsWritten \in Nat /\ Held \in 0 .. 1
         /\ WriterTypeOK
BY WriterLengths DEF TypeOK

\* Every step keeps the last events produced on the queue, in order, and the rows
\* behind what is stored, in the order of their events.
LEMMA OrderNext == TypeOK /\ QueueInv /\ RowsInv /\ [Next]_vars => QueueInv' /\ RowsInv'
<1> SUFFICES ASSUME TypeOK, QueueInv, RowsInv, [Next]_vars PROVE QueueInv' /\ RowsInv'
  OBVIOUS
<1> USE DEF contextVars, rowVars, writerVars, downloadVars
<1>1. CASE ReadLine
  <2>1. /\ produced' = produced + 1 /\ buffer' = Append(buffer, produced')
        /\ UNCHANGED <<wpc, event, dbBuffer, database>>
    BY <1>1 DEF ReadLine
  <2> QED
    BY <2>1, EnqueueKeepsOrder, Lengths
<1>2. CASE ConsumeStep
  <2>1. WriterStep /\ UNCHANGED produced
    BY <1>2 DEF ConsumeStep
  <2> QED
    BY <2>1, QueueNext, RowsNext, Lengths
<1>3. CASE NoFile \/ OpenFile \/ EndOfFile \/ Finish \/ MainStep \/ UNCHANGED vars
  <2>1. UNCHANGED <<produced, buffer, wpc, event, dbBuffer, database>>
    BY <1>3 DEF NoFile, OpenFile, EndOfFile, Finish, MainStep, JoinProducer, JoinConsumer, vars
  <2> QED
    BY <2>1, OrderKept
<1> QED
  BY <1>1, <1>2, <1>3 DEF Next, DownloadStep

------------------------------------------------------------------------------
(* Every step keeps the loss within what is stored. *)

\* The loss stays in bounds when the numbers of events lost and stored, and what
\* is known of the threads, change no worse than this.
LEMMA LossKept ==
  ASSUME TypeOK, LossInv, Len(dbBuffer') \in Nat, Len(database') \in Nat, producerDone' = producerDone,
         Lost' = Lost, Len(database') + Len(dbBuffer') = Len(database) + Len(dbBuffer),
         Len(dbBuffer') > 0 => Len(dbBuffer) > 0,
         wpc' = "last" => wpc = "last" \/ producerDone \/ Len(dbBuffer) > 0,
         wpc' \in {"ask", "flush", "last"} /\ buffer' # << >>
           => \/ wpc \in {"ask", "flush", "last"} /\ buffer # << >>
              \/ Len(dbBuffer) > 0
              \/ ~producerDone
  PROVE  LossInv'
<1>1. /\ Len(dbBuffer) \in Nat /\ Len(database) \in Nat /\ Lost \in Int
      /\ producerDone \in BOOLEAN
  BY Lengths DEF Lost, TypeOK, WriterTypeOK
<1> DEFINE stored == Len(database) + Len(dbBuffer)
           late == IF producerDone THEN 1 ELSE 0
<1>2. /\ Lost <= stored + late
      /\ Len(dbBuffer) > 0 => Lost + 1 <= stored + late
      /\ wpc = "last" /\ ~producerDone => Lost + 1 <= stored
      /\ wpc \in {"ask", "flush", "last"} /\ buffer # << >> => Lost <= stored
  BY DEF LossInv
<1>3. stored' = stored /\ late' = late
  OBVIOUS
<1>4. Lost' <= stored' + late'
  BY <1>2, <1>3
<1>5. Len(dbBuffer') > 0 => Lost' + 1 <= stored' + late'
  BY <1>2, <1>3
<1>6. wpc' = "last" /\ ~producerDone' => Lost' + 1 <= stored'
  BY <1>1, <1>2, <1>3
<1>7. wpc' \in {"ask", "flush", "last"} /\ buffer' # << >> => Lost' <= stored'
  BY <1>1, <1>2, <1>3
<1> QED
  BY <1>4, <1>5, <1>6, <1>7 DEF LossInv

\* Every step keeps the loss in bounds: the writer drops an event only after a
\* batch with rows, or, once, after the producer is through.
LEMMA LossNext ==
  TypeOK /\ QueueInv /\ CountInv /\ ControlInv /\ LossInv /\ [Next]_vars => LossInv'
<1> SUFFICES ASSUME TypeOK, QueueInv, CountInv, ControlInv, LossInv, [Next]_vars
             PROVE  LossInv'
  OBVIOUS
<1> USE DEF contextVars, rowVars, writerVars, downloadVars, At
<1>0. /\ Lost \in Int /\ producerDone \in BOOLEAN
      /\ Len(buffer) > 0 <=> buffer # << >>
  BY Lengths DEF Lost, TypeOK, WriterTypeOK
<1>1. CASE ReadLine
  <2>1. /\ Len(buffer') = Len(buffer) + 1 /\ produced' = produced + 1 /\ Held' = Held
        /\ UNCHANGED <<database, dbBuffer, wpc, producerDone>> /\ ~producerDone
    BY <1>1, Lengths, AppendFacts DEF ReadLine, Held, ControlInv
  <2>2. Lost' = Lost
    BY <2>1, Lengths DEF Lost
  <2> QED
    BY <2>1, <2>2, LossKept, Lengths
<1>2. CASE Finish
  <2>1. /\ UNCHANGED <<database, dbBuffer, wpc, buffer, produced>>
        /\ ~producerDone /\ producerDone' /\ Held' = Held
    BY <1>2 DEF Finish, Held, ControlInv
  <2>2. Lost' = Lost
    BY <2>1 DEF Lost
  <2> QED
    BY <1>0, <2>1, <2>2, Lengths DEF LossInv
<1>3. CASE NoFile \/ OpenFile \/ EndOfFile \/ MainStep
  <2>1. UNCHANGED <<database, dbBuffer, wpc, buffer, produced, producerDone>> /\ Held' = Held
    BY <1>3 DEF NoFile, OpenFile, EndOfFile, MainStep, JoinProducer, JoinConsumer, Held
  <2>2. Lost' = Lost
    BY <2>1 DEF Lost
  <2> QED
    BY <2>1, <2>2, LossKept, Lengths
<1>4. CASE ConsumeStep
  <2>1. produced' = produced /\ producerDone' = producerDone
    BY <1>4 DEF ConsumeStep, WriterStep, Outer, Inner, Dequeue, NotDequeued, Ask, Put, Count,
                Flush, FlushFails, PutFails, Discard, NothingLeft, AskLast, Close
  <2>2. CASE Outer \/ Inner \/ NothingLeft \/ AskLast
    <3>1. /\ UNCHANGED <<database, dbBuffer, buffer>> /\ Held = 0 /\ Held' = 0
          /\ wpc' \notin {"ask", "flush", "last"}
      BY <2>2 DEF Outer, Inner, NothingLeft, AskLast, Held, ControlInv
    <3>2. Lost' = Lost
      BY <2>1, <3>1 DEF Lost
    <3> QED
      BY <2>1, <3>1, <3>2, LossKept, Lengths
  <2>3. CASE Dequeue
    <3>1. /\ UNCHANGED <<database, dbBuffer>> /\ Held = 0 /\ Held' = 1 /\ wpc' = "put"
          /\ Len(buffer') = Len(buffer) - 1
      BY <2>3, TakeOldest, Lengths DEF Dequeue, Held
    <3>2. Lost' = Lost
      BY <2>1, <3>1, Lengths DEF Lost
    <3> QED
      BY <2>1, <3>1, <3>2, LossKept, Lengths
  <2>4. CASE NotDequeued
    <3>1. UNCHANGED <<database, dbBuffer, buffer>> /\ Held = 0 /\ Held' = 0 /\ wpc' = "ask"
      BY <2>4 DEF NotDequeued, Held
    <3>2. Lost' = Lost /\ buffer' = << >>
      BY <2>1, <2>4, <3>1 DEF Lost, NotDequeued
    <3> QED
      BY <2>1, <3>1, <3>2, LossKept, Lengths
  <2>5. CASE Ask
    <3>1. /\ UNCHANGED <<database, dbBuffer, buffer>> /\ Held = 0 /\ Held' = 0
          /\ wpc = "ask" /\ wpc' \in {"flush", "inner"}
      BY <2>5 DEF Ask, Held
    <3>2. Lost' = Lost
      BY <2>1, <3>1 DEF Lost
    <3> QED
      BY <2>1, <3>1, <3>2, LossKept, Lengths
  <2>6. CASE Put
    <3>1. /\ database' = database /\ buffer' = buffer /\ Held = 1 /\ Held' = 0
          /\ wpc' = "count" /\ Len(dbBuffer') = Len(dbBuffer) + 1
      BY <2>6, Lengths, AppendFacts DEF Put, Held
    <3>2. Lost' = Lost
      <4>1. /\ Len(database') = Len(database) /\ Len(buffer') = Len(buffer)
            /\ produced' = produced
        BY <2>1, <3>1
      <4>2. Lost = produced - Len(buffer) - 1 - Len(dbBuffer) - Len(database)
        BY <3>1 DEF Lost
      <4>3. Lost' = produced - Len(buffer) - 0 - (Len(dbBuffer) + 1) - Len(database)
        BY <3>1, <4>1 DEF Lost
      <4> QED
        BY <4>2, <4>3, Lengths
    <3>3. Len(dbBuffer') >= Len(dbBuffer)
      BY <3>1, Lengths
    <3> QED
      BY <1>0, <2>1, <3>1, <3>2, <3>3, Lengths DEF LossInv
  <2>7. CASE Count
    <3>1. /\ UNCHANGED <<database, dbBuffer, buffer>> /\ Held = 0 /\ Held' = 0
          /\ wpc' \in {"flush", "inner"} /\ Len(dbBuffer) > 0
      BY <2>7, Lengths DEF Count, Held, CountInv
    <3>2. Lost' = Lost
      BY <2>1, <3>1 DEF Lost
    <3> QED
      BY <2>1, <3>1, <3>2, LossKept, Lengths
  <2>8. CASE Flush
    <3>1. buffer' = buffer /\ Held = 0 /\ Held' = 0 /\ wpc = "flush" /\ wpc' = "last"
      BY <2>8 DEF Flush, Held
    <3>2. CASE eventsWritten > 0
      <4>1. /\ Len(dbBuffer') = 0 /\ Len(dbBuffer) > 0
            /\ Len(database') = Len(database) + Len(dbBuffer)
        BY <2>8, <3>2, Lengths, ConcatFacts DEF Flush, FlushRows, CountInv
      <4>2. Lost' = Lost
        BY <2>1, <3>1, <4>1, Lengths DEF Lost
      <4> QED
        BY <2>1, <3>1, <4>1, <4>2, LossKept, Lengths
    <3>3. CASE ~(eventsWritten > 0)
      <4>1. UNCHANGED <<dbBuffer, database>> /\ producerDone
        BY <2>8, <3>1, <3>3, Lengths DEF Flush, FlushRows, ControlInv
      <4>2. Lost' = Lost
        BY <2>1, <3>1, <4>1 DEF Lost
      <4> QED
        BY <2>1, <3>1, <4>1, <4>2, LossKept, Lengths
    <3> QED
      BY <3>2, <3>3
  <2>9. CASE FlushFails \/ PutFails
    <3>1. UNCHANGED <<database, dbBuffer, buffer, wpc>> /\ Held' = Held
      BY <2>9 DEF FlushFails, PutFails, Held
    <3>2. Lost' = Lost
      BY <2>1, <3>1 DEF Lost
    <3> QED
      BY <2>1, <3>1, <3>2, LossKept, Lengths
  <2>10. CASE Discard
    <3>1. /\ UNCHANGED <<database, dbBuffer>> /\ Held = 0 /\ Held' = 0
          /\ wpc = "last" /\ wpc' = "outer" /\ buffer # << >>
          /\ Len(buffer') = Len(buffer) - 1 /\ Len(dbBuffer) = 0
      BY <2>10, TakeOldest, Lengths DEF Discard, Held, Take, CountInv
    <3>2. Lost' = Lost + 1
      BY <2>1, <3>1, Lengths DEF Lost
    <3>3. Lost <= Len(database) + Len(dbBuffer)
      BY <3>1 DEF LossInv
    <3>4. ~producerDone => Lost + 1 <= Len(database) + Len(dbBuffer)
      BY <3>1 DEF LossInv
    <3> QED
      BY <1>0, <2>1, <3>1, <3>2, <3>3, <3>4, Lengths DEF LossInv
  <2>11. CASE Close
    <3>1. /\ UNCHANGED <<database, dbBuffer, buffer>> /\ Held = 0 /\ Held' = 0
          /\ wpc' = "returned"
      BY <2>11, Lengths DEF Close, Held, CountInv
    <3>2. Lost' = Lost
      BY <2>1, <3>1 DEF Lost
    <3> QED
      BY <2>1, <3>1, <3>2, LossKept, Lengths
  <2> QED
    BY <1>4, <2>2, <2>3, <2>4, <2>5, <2>6, <2>7, <2>8, <2>9, <2>10, <2>11
    DEF ConsumeStep, WriterStep
<1>5. CASE UNCHANGED vars
  <2>1. /\ UNCHANGED <<database, dbBuffer, wpc, buffer, produced, producerDone>>
        /\ Held' = Held
    BY <1>5 DEF vars, Held
  <2>2. Lost' = Lost
    BY <2>1 DEF Lost
  <2> QED
    BY <2>1, <2>2, LossKept, Lengths
<1> QED
  BY <1>1, <1>2, <1>3, <1>4, <1>5 DEF Next, DownloadStep

------------------------------------------------------------------------------
(* The theorems. *)

\* Every step keeps the inductive invariant.
LEMMA HistInvNext == HistInv /\ [Next]_vars => HistInv'
BY TypeNext, OrderNext, CountNext, ControlNext, LossNext DEF HistInv

\* The inductive invariant holds in every reachable state.
LEMMA HistInvHolds == Spec => []HistInv
BY HistInvInit, HistInvNext, PTL DEF Spec

\* The variables of the three threads and of the writer have their types; in
\* particular a batch never has more events than batchSize_ (questdb_writer.cpp:
\* 77-85).
THEOREM TypeCorrect == Spec => []TypeOK
BY HistInvHolds, PTL DEF HistInv

\* When process() returns, the writer holds no row back: every batch was flushed
\* before the sender was closed (questdb_writer.cpp: 40-47, 82-92).
THEOREM ReturnsFlushed == Spec => []FlushedBeforeReturn
<1>1. HistInv => FlushedBeforeReturn
  <2> SUFFICES ASSUME HistInv, main = "returned"
               PROVE  dbBuffer = << >> /\ eventsWritten = 0 /\ sender = "closed" /\ producerDone
    BY DEF FlushedBeforeReturn
  <2>1. wpc = "returned" /\ sender = "closed" /\ producerDone
    BY DEF HistInv, ControlInv
  <2>2. eventsWritten = 0 /\ Len(dbBuffer) = 0
    BY <2>1, Lengths DEF HistInv, CountInv
  <2>3. dbBuffer = << >>
    BY <2>2, Lengths DEF HistInv
  <2> QED
    BY <2>1, <2>2, <2>3
<1> QED
  BY <1>1, HistInvHolds, PTL

\* However the threads interleave, the dequeue in the condition that ends write()
\* (questdb_writer.cpp: 89) loses no more events than are stored or are rows,
\* plus one.
THEOREM LossAtMostHalf == Spec => []LossBounded
<1>1. HistInv => LossBounded
  <2> SUFFICES ASSUME HistInv PROVE LossBounded
    OBVIOUS
  <2>1. Lost \in Int /\ Len(database) \in Nat /\ Len(dbBuffer) \in Nat
    BY Lengths DEF HistInv, Lost
  <2> QED
    BY <2>1 DEF HistInv, LossInv, LossBounded
<1> QED
  BY <1>1, HistInvHolds, PTL

\* The pipeline implements StoredLog: each step of any thread is the production
\* of an event, the storing of a batch, or invisible.
THEOREM StoresInOrder == Spec => LogSpec
<1>1. Init => Log!Init
  BY DEF Init, WriterInit, Log!Init
<1>2. HistInv /\ HistInv' /\ [Next]_vars => [Log!Next]_(Log!vars)
  <2> SUFFICES ASSUME HistInv, HistInv', [Next]_vars PROVE [Log!Next]_(Log!vars)
    OBVIOUS
  <2> USE DEF contextVars, rowVars, writerVars, downloadVars, Log!vars
  <2>1. CASE ReadLine
    BY <2>1 DEF ReadLine, Log!Next, Log!Produce
  <2>2. CASE NoFile \/ OpenFile \/ EndOfFile \/ Finish \/ MainStep
    BY <2>2 DEF NoFile, OpenFile, EndOfFile, Finish, MainStep, JoinProducer, JoinConsumer
  <2>3. CASE ConsumeStep
    <3>1. produced' = produced
      BY <2>3 DEF ConsumeStep
    <3>2. CASE Flush
      <4>1. CASE eventsWritten > 0
        <5>1. database' = database \o dbBuffer /\ Len(dbBuffer) = eventsWritten
          BY <3>2, <4>1, Lengths DEF Flush, FlushRows, At, HistInv, CountInv
        <5>2. /\ WriterTypeOK /\ WriterTypeOK' /\ produced \in Nat /\ RowsInv'
              /\ eventsWritten \in 1 .. BatchSize
          BY <4>1, BatchSizeAssumption DEF HistInv, TypeOK, WriterTypeOK
        <5> QED
          BY <3>1, <5>1, <5>2, FlushStores DEF Log!Next
      <4>2. CASE ~(eventsWritten > 0)
        BY <3>1, <3>2, <4>2 DEF Flush, FlushRows
      <4> QED
        BY <4>1, <4>2
    <3>3. CASE Close
      <4>1. eventsWritten = 0
        BY <3>3 DEF Close, At, HistInv, CountInv
      <4> QED
        BY <3>1, <3>3, <4>1 DEF Close
    <3>4. CASE \/ Outer \/ Inner \/ Dequeue \/ NotDequeued \/ Ask \/ Put \/ Count
               \/ FlushFails \/ PutFails \/ Discard \/ NothingLeft \/ AskLast
      BY <3>1, <3>4 DEF Outer, Inner, Dequeue, NotDequeued, Ask, Put, Count, FlushFails, PutFails,
                        Discard, NothingLeft, AskLast
    <3> QED
      BY <2>3, <3>2, <3>3, <3>4 DEF ConsumeStep, WriterStep
  <2>4. CASE UNCHANGED vars
    BY <2>4 DEF vars
  <2> QED
    BY <2>1, <2>2, <2>3, <2>4 DEF Next, DownloadStep
<1> QED
  BY <1>1, <1>2, HistInvHolds, PTL DEF Spec, LogSpec, Log!Spec
=============================================================================
