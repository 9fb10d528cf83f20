---------------------------- MODULE EventWriter ----------------------------
(***************************************************************************)
(* QuestDBWriter (common/questdb_writer.cpp): a thread that takes          *)
(* DataEvents off a queue, collects a row for each in a buffer and flushes *)
(* the buffer to the database.  It shares a Context with the producer:     *)
(* producerDone tells it that no more events will come, running is cleared *)
(* by close().                                                             *)
(*                                                                         *)
(* Events are numbered in the order they are enqueued.  Their contents and *)
(* the layout of a row are left out.  This module has the writer's state   *)
(* and the steps of its thread; who fills the queue (and counts the events *)
(* in produced), and what else runs in the process, is added by the module *)
(* that composes it.                                                       *)
(*                                                                         *)
(* Operators introduced by "Slip:" are wrong on purpose, as in OrderBook.  *)
(***************************************************************************)
EXTENDS Integers, Sequences

CONSTANT BatchSize      \* batchSize_: rows after which the buffer is flushed

ASSUME BatchSizeAssumption == BatchSize \in Nat \ {0}

VARIABLES
  alive,          \* FALSE once std::terminate has been called
  buffer,         \* buffer_, the queue the producer fills
  producerDone,   \* Context::producerDone
  consumerDone,   \* Context::consumerDone
  running,        \* Context::running
  wpc,            \* where the thread is in write()
  event,          \* the local event of write(); 0 before the first one
  dbBuffer,       \* dbBuffer_: the rows not yet flushed
  eventsWritten,  \* eventsWritten_
  sender,         \* dbSender: open until it is closed
  database,       \* the rows the database has taken
  produced        \* how many events the producer has enqueued

contextVars == <<producerDone, consumerDone, running>>
rowVars == <<dbBuffer, eventsWritten, sender, database>>
writerVars == <<alive, buffer, contextVars, wpc, event, rowVars>>

WriterStates ==
  {"outer", "inner", "dequeue", "ask", "put", "count", "flush", "last", "askLast",
   "close", "returned"}

WriterInit ==
  /\ alive = TRUE
  /\ buffer = << >>
  /\ producerDone = FALSE
  /\ consumerDone = FALSE
  /\ running = TRUE
  /\ wpc = "outer"
  /\ event = 0
  /\ dbBuffer = << >>
  /\ eventsWritten = 0
  /\ sender = "open"
  /\ database = << >>

\* At(here): the thread takes a step from there.
At(here) == alive /\ wpc = here

\* while (running), before the clock of the batch is started.
Outer ==
  /\ At("outer")
  /\ wpc' = IF running THEN "inner" ELSE "returned"
  /\ UNCHANGED <<alive, buffer, contextVars, event, rowVars>>

\* while (running), before each event of the batch.
Inner ==
  /\ At("inner")
  /\ wpc' = IF running THEN "dequeue" ELSE "flush"
  /\ UNCHANGED <<alive, buffer, contextVars, event, rowVars>>

\* try_dequeue returns an event.
Take ==
  /\ buffer # << >>
  /\ event' = Head(buffer)
  /\ buffer' = Tail(buffer)

Dequeue ==
  /\ At("dequeue")
  /\ Take
  /\ wpc' = "put"
  /\ UNCHANGED <<alive, contextVars, rowVars>>

\* try_dequeue finds the queue empty.
NotDequeued ==
  /\ At("dequeue")
  /\ buffer = << >>
  /\ wpc' = "ask"
  /\ UNCHANGED <<alive, buffer, contextVars, event, rowVars>>

\* Slip: an empty queue ends the batch.
AskEndsBatch ==
  /\ At("ask")
  /\ wpc' = "flush"
  /\ UNCHANGED <<alive, buffer, contextVars, event, rowVars>>

\* Only then is producerDone read: break, or yield and go on.
Ask ==
  /\ At("ask")
  /\ wpc' = IF producerDone THEN "flush" ELSE "inner"
  /\ UNCHANGED <<alive, buffer, contextVars, event, rowVars>>

\* write...ToDbBuffer: the event becomes a row.
Put ==
  /\ At("put")
  /\ dbBuffer' = Append(dbBuffer, event)
  /\ wpc' = "count"
  /\ UNCHANGED <<alive, buffer, contextVars, event, eventsWritten, sender, database>>

\* The row cannot be made: at() finds no exchange info of the event's symbol, or
\* the buffer refuses a value.  Nothing keeps the exception inside the thread.
PutFails ==
  /\ At("put")
  /\ alive' = FALSE
  /\ UNCHANGED <<buffer, contextVars, wpc, event, rowVars>>

\* Slip: > instead of >=.
Over(n) == n > BatchSize

\* The batch has all its events.
Full(n) == n >= BatchSize

\* The row is counted.  The batch ends when it is full or when its time is up;
\* the clock is not modelled, so time may be up after any event.
Count ==
  /\ At("count")
  /\ eventsWritten' = eventsWritten + 1
  /\ \/ wpc' = "flush"
     \/ ~Full(eventsWritten') /\ wpc' = "inner"
  /\ UNCHANGED <<alive, buffer, contextVars, event, dbBuffer, sender, database>>

\* Slip: the count is not reset.
FlushWithoutReset ==
  IF eventsWritten > 0
    THEN /\ database' = database \o dbBuffer
         /\ dbBuffer' = << >>
         /\ UNCHANGED eventsWritten
    ELSE UNCHANGED <<database, dbBuffer, eventsWritten>>

\* Slip: the rows stay in the buffer.
FlushKeepsRows ==
  IF eventsWritten > 0
    THEN /\ database' = database \o dbBuffer
         /\ eventsWritten' = 0
         /\ UNCHANGED dbBuffer
    ELSE UNCHANGED <<database, dbBuffer, eventsWritten>>

\* Slip: the buffer is emptied before it is flushed.
FlushEmptied ==
  /\ dbBuffer' = << >>
  /\ eventsWritten' = 0
  /\ UNCHANGED database

\* dbSender.flush(dbBuffer_), which empties the buffer, and the reset of the
\* count, when anything was written.
FlushRows ==
  IF eventsWritten > 0
    THEN /\ database' = database \o dbBuffer
         /\ dbBuffer' = << >>
         /\ eventsWritten' = 0
    ELSE UNCHANGED <<database, dbBuffer, eventsWritten>>

Flush ==
  /\ At("flush")
  /\ eventsWritten > 0 => sender = "open"
  /\ FlushRows
  /\ wpc' = "last"
  /\ UNCHANGED <<alive, buffer, contextVars, event, sender>>

\* The database refuses the rows or cannot be reached, or the sender has been
\* closed by another thread's close(): flush throws, and no caller of write()
\* keeps the exception inside the thread.
FlushFails ==
  /\ At("flush")
  /\ eventsWritten > 0
  /\ alive' = FALSE
  /\ UNCHANGED <<buffer, contextVars, wpc, event, rowVars>>

\* The condition that is to end write() dequeues an event: it is not empty-
\* handed, so write() goes on, and the event is forgotten.
Discard ==
  /\ At("last")
  /\ Take
  /\ wpc' = "outer"
  /\ UNCHANGED <<alive, contextVars, rowVars>>

NothingLeft ==
  /\ At("last")
  /\ buffer = << >>
  /\ wpc' = "askLast"
  /\ UNCHANGED <<alive, buffer, contextVars, event, rowVars>>

AskLast ==
  /\ At("askLast")
  /\ wpc' = IF producerDone THEN "close" ELSE "outer"
  /\ UNCHANGED <<alive, buffer, contextVars, event, rowVars>>

\* close(), called by the thread itself; write() returns.
Close ==
  /\ At("close")
  /\ database' = IF eventsWritten > 0 THEN database \o dbBuffer ELSE database
  /\ dbBuffer' = IF eventsWritten > 0 THEN << >> ELSE dbBuffer
  /\ sender' = "closed"
  /\ consumerDone' = TRUE
  /\ running' = FALSE
  /\ wpc' = "returned"
  /\ UNCHANGED <<alive, buffer, producerDone, event, eventsWritten>>

WriterStep ==
  \/ Outer \/ Inner \/ Dequeue \/ NotDequeued \/ Ask \/ Put \/ PutFails \/ Count
  \/ Flush \/ FlushFails \/ Discard \/ NothingLeft \/ AskLast \/ Close

WriterTypeOK ==
  /\ alive \in BOOLEAN
  /\ producerDone \in BOOLEAN /\ consumerDone \in BOOLEAN /\ running \in BOOLEAN
  /\ wpc \in WriterStates
  /\ buffer \in Seq(Nat) /\ dbBuffer \in Seq(Nat) /\ database \in Seq(Nat)
  /\ event \in Nat
  /\ eventsWritten \in 0 .. BatchSize
  /\ sender \in {"open", "closed"}

\* How many events are neither stored, nor rows, nor in the writer's hands, nor
\* on the queue.
Held == IF wpc = "put" THEN 1 ELSE 0
Lost == produced - Len(buffer) - Held - Len(dbBuffer) - Len(database)

\* The dequeue in the condition that ends write() loses at most one event per
\* batch, and a batch stores at least one: no more events get lost than are
\* stored, or about to be, plus the one that the end of the producer or a close()
\* may catch between two looks at the queue.
LossBounded == Lost <= Len(database) + Len(dbBuffer) + 1

\* What the database gets, as StoredLog describes it.
Log == INSTANCE StoredLog

(* Parts of the inductive invariants of the modules that compose the writer. *)

\* The queue has the last events produced, one after the other, and the event
\* about to become a row is the one before them.
QueueInv ==
  /\ Len(buffer) + Held <= produced
  /\ \A i \in DOMAIN buffer : buffer[i] = produced - Len(buffer) + i
  /\ wpc = "put" => event = produced - Len(buffer)

\* The rows are earlier events, in order, each once: the stored ones first.
RowsInv ==
  /\ \A i, j \in DOMAIN database : i < j => database[i] < database[j]
  /\ \A i, j \in DOMAIN dbBuffer : i < j => dbBuffer[i] < dbBuffer[j]
  /\ \A i \in DOMAIN database, j \in DOMAIN dbBuffer : database[i] < dbBuffer[j]
  /\ \A i \in DOMAIN database : database[i] \in 1 .. produced - Len(buffer) - Held
  /\ \A i \in DOMAIN dbBuffer : dbBuffer[i] \in 1 .. produced - Len(buffer) - Held
=============================================================================
