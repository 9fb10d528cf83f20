----------------------------- MODULE Historical -----------------------------
(***************************************************************************)
(* HistoricalDataProcessor::process: a producer thread downloads and reads *)
(* one file per symbol (FileDownloader::download), a consumer thread       *)
(* stores what was read (EventWriter), and the main thread joins first the *)
(* one, then the other.                                                    *)
(*                                                                         *)
(* Downloading, unzipping and opening a file are external: for a symbol    *)
(* they succeed or do not.  The lines of a file that parse are its events; *)
(* the others are skipped by the code.                                     *)
(***************************************************************************)
EXTENDS EventWriter

CONSTANTS
  SymbolCount,    \* how many symbols were asked for
  MaxEvents       \* bound: how many events all the files have together

ASSUME SymbolCountAssumption == SymbolCount \in Nat
ASSUME MaxEventsAssumption == MaxEvents \in Nat

VARIABLES
  main,           \* where the main thread is in process()
  dpc,            \* where the producer is in download()
  symbol          \* the symbol it is at, counted from 1

downloadVars == <<dpc, symbol, produced>>
vars == <<writerVars, main, downloadVars>>

Init ==
  /\ WriterInit
  /\ main = "joinProducer"
  /\ dpc = "symbols"
  /\ symbol = 1
  /\ produced = 0

------------------------------------------------------------------------------
(* The producer.  The loop over a symbol's urls ends with break after the   *)
(* first one, whatever became of it: at most one file per symbol is read.   *)

\* Nothing is read for the symbol: no url (an empty or invalid range of
\* dates), a failed download or a failed extraction.
NoFile ==
  /\ alive
  /\ dpc = "symbols" /\ symbol <= SymbolCount
  /\ symbol' = symbol + 1
  /\ UNCHANGED <<writerVars, main, dpc, produced>>

\* The first url is downloaded and extracted; its file is opened.
OpenFile ==
  /\ alive
  /\ dpc = "symbols" /\ symbol <= SymbolCount
  /\ dpc' = "reading"
  /\ UNCHANGED <<writerVars, main, symbol, produced>>

\* readFuturesTradeFile, readCandleFile: a line becomes an event.
ReadLine ==
  /\ alive
  /\ dpc = "reading"
  /\ produced < MaxEvents
  /\ produced' = produced + 1
  /\ buffer' = Append(buffer, produced')
  /\ UNCHANGED <<alive, contextVars, wpc, event, rowVars, main, dpc, symbol>>

\* The end of the file; deleteFile and break.
EndOfFile ==
  /\ alive
  /\ dpc = "reading"
  /\ dpc' = "symbols"
  /\ symbol' = symbol + 1
  /\ UNCHANGED <<writerVars, main, produced>>

\* Slip: the flag is not set.
FinishSilently ==
  /\ alive
  /\ dpc = "symbols" /\ symbol > SymbolCount
  /\ dpc' = "returned"
  /\ UNCHANGED <<writerVars, main, symbol, produced>>

\* download() sets producerDone after the last symbol and returns.
Finish ==
  /\ alive
  /\ dpc = "symbols" /\ symbol > SymbolCount
  /\ producerDone' = TRUE
  /\ dpc' = "returned"
  /\ UNCHANGED <<alive, buffer, consumerDone, running, wpc, event, rowVars,
                 main, symbol, produced>>

------------------------------------------------------------------------------
(* The main thread. *)

JoinProducer ==
  /\ alive
  /\ main = "joinProducer" /\ dpc = "returned"
  /\ main' = "joinConsumer"
  /\ UNCHANGED <<writerVars, downloadVars>>

JoinConsumer ==
  /\ alive
  /\ main = "joinConsumer" /\ wpc = "returned"
  /\ main' = "returned"
  /\ UNCHANGED <<writerVars, downloadVars>>

------------------------------------------------------------------------------
DownloadStep == NoFile \/ OpenFile \/ ReadLine \/ EndOfFile \/ Finish
ConsumeStep == WriterStep /\ UNCHANGED <<main, downloadVars>>
MainStep == JoinProducer \/ JoinConsumer

Next == DownloadStep \/ ConsumeStep \/ MainStep

\* The operating system schedules the three threads, and a download ends in
\* some way.  (A file has an end because of MaxEvents.)
Fairness ==
  WF_vars(DownloadStep) /\ WF_vars(ConsumeStep) /\ WF_vars(MainStep)

Spec == Init /\ [][Next]_vars /\ Fairness

------------------------------------------------------------------------------
TypeOK ==
  /\ WriterTypeOK
  /\ main \in {"joinProducer", "joinConsumer", "returned"}
  /\ dpc \in {"symbols", "reading", "returned"}
  /\ symbol \in Nat
  /\ produced \in Nat

\* When process() has returned, the writer has nothing left in its hands: the
\* rows of every batch were flushed before the sender was closed, and the
\* producer was through.
FlushedBeforeReturn ==
  main = "returned" =>
    dbBuffer = << >> /\ eventsWritten = 0 /\ sender = "closed" /\ producerDone

\* Refinement: what reaches the database is a log of batches, in order and
\* without duplicates (StoredLog).
LogSpec == Log!Spec

\* process() returns, unless the database fails and the process ends.
ProcessReturns == <>(main = "returned" \/ ~alive)

------------------------------------------------------------------------------
(* The inductive invariant, with QueueInv and RowsInv of EventWriter. *)

\* eventsWritten_ is the number of rows; a batch is flushed when it is full.
CountInv ==
  /\ eventsWritten = Len(dbBuffer) - (IF wpc = "count" THEN 1 ELSE 0)
  /\ wpc \in {"inner", "dequeue", "ask", "put", "count"} => eventsWritten < BatchSize
  /\ wpc \in {"outer", "last", "askLast", "close", "returned"} => eventsWritten = 0

\* How the flags go with where the three threads are.
ControlInv ==
  /\ main # "joinProducer" => dpc = "returned"
  /\ main = "returned" => wpc = "returned"
  /\ producerDone <=> dpc = "returned"
  /\ running <=> wpc # "returned"
  /\ sender = "closed" <=> wpc = "returned"
  /\ wpc \in {"close", "returned"} => producerDone
  /\ wpc = "flush" /\ eventsWritten = 0 => producerDone

\* A batch with a row in it makes up for the event that line 89 may drop after
\* it.  The end of the producer allows for one batch without rows.
LossInv ==
  LET stored == Len(database) + Len(dbBuffer)
      late == IF producerDone THEN 1 ELSE 0
  IN  /\ Lost <= stored + late
      /\ Len(dbBuffer) > 0 => Lost + 1 <= stored + late
      /\ wpc = "last" /\ ~producerDone => Lost + 1 <= stored
      /\ wpc \in {"ask", "flush", "last"} /\ buffer # << >> => Lost <= stored

HistInv == TypeOK /\ QueueInv /\ RowsInv /\ CountInv /\ ControlInv /\ LossInv
=============================================================================
