------------------------------ MODULE Archiver ------------------------------
(***************************************************************************)
(* OrderbookArchiver and the program around it (app/archiver/main.cpp):    *)
(* the main thread starts a book builder and a thread that runs            *)
(* QuestDBWriter::write, waits, stops them and destroys the archiver.      *)
(* A signal handler may clear is_running_ at any moment.                   *)
(*                                                                         *)
(* The builder is known by what Builder promises, the writer is            *)
(* EventWriter step by step.  There is one book thread (one symbol): the   *)
(* queue keeps the order of one producer, and the order of rows of         *)
(* different symbols is left open.  The program calls stop() when it finds *)
(* is_running_ cleared; the class allows stop() to be called whenever its  *)
(* owner likes, and the model has both.                                    *)
(*                                                                         *)
(* close() runs on the main thread while write() may be running.  When two *)
(* threads are in the row buffer or in the sender at once the behaviour is *)
(* undefined: raced becomes TRUE and the model ends there.                 *)
(*                                                                         *)
(* Operators introduced by "Slip:" are wrong on purpose, as in OrderBook.  *)
(***************************************************************************)
EXTENDS EventWriter

CONSTANT MaxEvents      \* bound: how many events the builder publishes

ASSUME MaxEventsAssumption == MaxEvents \in Nat

VARIABLES
  main,           \* where the main thread is
  caller,         \* who called stop(): where it returns to
  is_running,     \* OrderbookArchiver::is_running_
  error,          \* error_codes of stop() is not empty
  writer_thread,  \* writer_thread_: no thread, a joinable one, a joined one
  phase,          \* the book builder, as in Builder
  signalled,      \* history: a signal has been handled
  raced           \* two threads have used the writer's buffer or sender at once

builderVars == <<phase, produced>>
ownerVars == <<main, caller, is_running, error, writer_thread>>
historyVars == <<signalled, raced>>
vars == <<writerVars, builderVars, ownerVars, historyVars>>

MainStates ==
  {"start", "register", "startBuilder", "builderStarting", "startWriter", "failed",
   "started", "polling", "stop", "stopBuilder", "builderStopping", "close",
   "closeFlush", "closeSender", "clear", "join", "returned", "destroyed"}

Callers == {"nobody", "start", "program", "owner", "destructor"}

Init ==
  /\ WriterInit
  /\ main = "start"
  /\ caller = "nobody"
  /\ is_running = FALSE
  /\ error = FALSE
  /\ writer_thread = "none"
  /\ phase = "new"
  /\ produced = 0
  /\ signalled = FALSE
  /\ raced = FALSE

\* AtMain(here): the main thread takes a step from there.
AtMain(here) == alive /\ main = here

\* std::terminate.
Terminate ==
  /\ alive' = FALSE
  /\ UNCHANGED <<buffer, contextVars, wpc, event, rowVars, builderVars, ownerVars,
                 signalled>>

\* Nothing but the main thread's own state changes.
OwnStep == UNCHANGED <<writerVars, builderVars, historyVars>>

------------------------------------------------------------------------------
(* start() *)

\* is_running_.exchange(true).  The program calls start() once: the flag was
\* not set.
SetRunning ==
  /\ AtMain("start")
  /\ is_running' = TRUE
  /\ main' = "register"
  /\ OwnStep /\ UNCHANGED <<caller, error, writer_thread>>

\* The signal handlers are registered.
Register ==
  /\ AtMain("register")
  /\ main' = "startBuilder"
  /\ OwnStep /\ UNCHANGED <<caller, is_running, error, writer_thread>>

\* book_builder_->start() is called, or throws at once.
StartBuilder ==
  /\ AtMain("startBuilder")
  /\ \/ phase' = "starting" /\ main' = "builderStarting"
     \/ phase' = "threw" /\ main' = "failed"
  /\ UNCHANGED <<writerVars, produced, historyVars, caller, is_running, error,
                 writer_thread>>

\* Slip: the flag is set once the builder runs.
BuilderStartedThenSet ==
  /\ AtMain("builderStarting")
  /\ phase' = "running"
  /\ is_running' = TRUE
  /\ main' = "startWriter"
  /\ UNCHANGED <<writerVars, produced, historyVars, caller, error, writer_thread>>

\* book_builder_->start() returns.
BuilderStarted ==
  /\ AtMain("builderStarting")
  /\ phase' = "running"
  /\ main' = "startWriter"
  /\ UNCHANGED <<writerVars, produced, historyVars, caller, is_running, error,
                 writer_thread>>

\* The thread that runs write() is created, or the system has none to give.
StartWriter ==
  /\ AtMain("startWriter")
  /\ \/ writer_thread' = "joinable" /\ main' = "started"
     \/ UNCHANGED writer_thread /\ main' = "failed"
  /\ OwnStep /\ UNCHANGED <<caller, is_running, error>>

\* The catch block of start(): the flag is cleared before stop() is called.
StartFailed ==
  /\ AtMain("failed")
  /\ is_running' = FALSE
  /\ main' = "stop"
  /\ caller' = "start"
  /\ OwnStep /\ UNCHANGED <<error, writer_thread>>

------------------------------------------------------------------------------
(* The owner. *)

\* main() looks at the flag once: EXIT_FAILURE, and the archiver is destroyed.
CheckStarted ==
  /\ AtMain("started")
  /\ IF is_running
       THEN main' = "polling" /\ UNCHANGED caller
       ELSE main' = "stop" /\ caller' = "destructor"
  /\ OwnStep /\ UNCHANGED <<is_running, error, writer_thread>>

\* main() leaves its loop when the flag is cleared, and calls stop().
LeaveLoop ==
  /\ AtMain("polling")
  /\ ~is_running
  /\ main' = "stop"
  /\ caller' = "program"
  /\ OwnStep /\ UNCHANGED <<is_running, error, writer_thread>>

\* Another owner calls stop() without waiting for a signal.
CallStop ==
  /\ AtMain("polling")
  /\ main' = "stop"
  /\ caller' = "owner"
  /\ OwnStep /\ UNCHANGED <<is_running, error, writer_thread>>

------------------------------------------------------------------------------
(* stop() *)

\* Slip: the flag is stored, not exchanged: every call goes on.
EnterAlways ==
  /\ AtMain("stop")
  /\ main' = "stopBuilder"
  /\ is_running' = FALSE
  /\ OwnStep /\ UNCHANGED <<caller, error, writer_thread>>

\* is_running_.exchange(false): a cleared flag means that stop() has been
\* called, and it returns.
EnterStop ==
  /\ AtMain("stop")
  /\ main' = IF is_running THEN "stopBuilder" ELSE "returned"
  /\ is_running' = FALSE
  /\ OwnStep /\ UNCHANGED <<caller, error, writer_thread>>

\* Slip: the writer is closed without waiting for the builder's threads.
StopBuilderHastily ==
  /\ AtMain("stopBuilder")
  /\ phase' = "stopping"
  /\ main' = "close"
  /\ UNCHANGED <<writerVars, produced, historyVars, caller, is_running, error,
                 writer_thread>>

\* book_builder_->stop() is called.
StopBuilder ==
  /\ AtMain("stopBuilder")
  /\ phase' = "stopping"
  /\ main' = "builderStopping"
  /\ UNCHANGED <<writerVars, produced, historyVars, caller, is_running, error,
                 writer_thread>>

\* book_builder_->stop() returns.
BuilderStopped ==
  /\ AtMain("builderStopping")
  /\ phase' = "stopped"
  /\ main' = "close"
  /\ UNCHANGED <<writerVars, produced, historyVars, caller, is_running, error,
                 writer_thread>>

\* quest_db_writer_->close(): is there anything to flush?
CloseAsks ==
  /\ AtMain("close")
  /\ main' = IF eventsWritten > 0 THEN "closeFlush" ELSE "closeSender"
  /\ OwnStep /\ UNCHANGED <<caller, is_running, error, writer_thread>>

\* close() flushes the rows.  The count is not reset.
CloseFlushes ==
  /\ AtMain("closeFlush")
  /\ database' = database \o dbBuffer
  /\ dbBuffer' = << >>
  /\ main' = "closeSender"
  /\ UNCHANGED <<alive, buffer, contextVars, wpc, event, eventsWritten, sender,
                 builderVars, historyVars, caller, is_running, error, writer_thread>>

\* The flush of close() throws: stop() notes the error and goes on to join the
\* writer, whose running flag has not been cleared.
CloseFails ==
  /\ AtMain("closeFlush")
  /\ error' = TRUE
  /\ main' = "join"
  /\ OwnStep /\ UNCHANGED <<caller, is_running, writer_thread>>

CloseSender ==
  /\ AtMain("closeSender")
  /\ sender' = "closed"
  /\ main' = "clear"
  /\ UNCHANGED <<alive, buffer, contextVars, wpc, event, dbBuffer, eventsWritten, database,
                 builderVars, historyVars, caller, is_running, error, writer_thread>>

\* Slip: consumerDone only.
ClearConsumerDone ==
  /\ AtMain("clear")
  /\ consumerDone' = TRUE
  /\ main' = "join"
  /\ UNCHANGED <<alive, buffer, producerDone, running, wpc, event, rowVars,
                 builderVars, historyVars, caller, is_running, error, writer_thread>>

\* consumerDone and running, which ends the loops of write().
Clear ==
  /\ AtMain("clear")
  /\ consumerDone' = TRUE
  /\ running' = FALSE
  /\ main' = "join"
  /\ UNCHANGED <<alive, buffer, producerDone, wpc, event, rowVars,
                 builderVars, historyVars, caller, is_running, error, writer_thread>>

\* writer_thread_.join() returns.
Join ==
  /\ AtMain("join")
  /\ wpc = "returned"
  /\ writer_thread' = "joined"
  /\ main' = "returned"
  /\ OwnStep /\ UNCHANGED <<caller, is_running, error>>

------------------------------------------------------------------------------
(* What follows stop(), depending on who called it. *)

\* start() rethrows, and main() does not catch.
Rethrow ==
  /\ AtMain("returned")
  /\ caller = "start"
  /\ Terminate /\ UNCHANGED raced

\* The owner destroys the archiver; the destructor calls stop().
Destroy ==
  /\ AtMain("returned")
  /\ caller \in {"program", "owner"}
  /\ main' = "stop"
  /\ caller' = "destructor"
  /\ OwnStep /\ UNCHANGED <<is_running, error, writer_thread>>

\* The members are destroyed.  A thread that is still joinable, the writer's or
\* one of the builder's, ends the process.
DestroyMembers ==
  /\ AtMain("returned")
  /\ caller = "destructor"
  /\ writer_thread # "joinable" /\ phase = "stopped"
  /\ main' = "destroyed"
  /\ OwnStep /\ UNCHANGED <<caller, is_running, error, writer_thread>>

DestroyJoinable ==
  /\ AtMain("returned")
  /\ caller = "destructor"
  /\ writer_thread = "joinable" \/ phase # "stopped"
  /\ Terminate /\ UNCHANGED raced

------------------------------------------------------------------------------
(* Signals, the builder's threads, the writer's thread. *)

\* Before the handlers are registered a signal ends the process; afterwards it
\* clears the flag.
Signal ==
  /\ alive /\ main # "destroyed"
  /\ IF main \in {"start", "register"}
       THEN Terminate /\ UNCHANGED raced
       ELSE /\ is_running' = FALSE
            /\ signalled' = TRUE
            /\ UNCHANGED <<writerVars, builderVars, main, caller, error, writer_thread,
                           raced>>

Publish ==
  /\ alive
  /\ phase \in {"running", "stopping"}
  /\ produced < MaxEvents
  /\ produced' = produced + 1
  /\ buffer' = Append(buffer, produced')
  /\ UNCHANGED <<alive, contextVars, wpc, event, rowVars, phase, ownerVars, historyVars>>

\* An exception leaves one of the builder's threads.
BuilderThrows ==
  /\ alive
  /\ phase \in {"starting", "running", "stopping"}
  /\ Terminate /\ UNCHANGED raced

WriteStep ==
  /\ writer_thread = "joinable"
  /\ WriterStep
  /\ UNCHANGED <<builderVars, ownerVars, historyVars>>

\* close() is at the buffer or the sender, and so is write().
BothInBuffer == main = "closeFlush" /\ (wpc = "put" \/ (wpc = "flush" /\ eventsWritten > 0))
BothInSender == main \in {"closeFlush", "closeSender"} /\ wpc = "flush" /\ eventsWritten > 0

Race ==
  /\ alive
  /\ BothInBuffer \/ BothInSender
  /\ raced' = TRUE
  /\ Terminate

------------------------------------------------------------------------------
StartStep == SetRunning \/ Register \/ StartBuilder \/ StartWriter \/ StartFailed
OwnerStep == CheckStarted \/ LeaveLoop \/ Rethrow \/ Destroy \/ DestroyMembers \/ DestroyJoinable
StopStep ==
  \/ EnterStop \/ StopBuilder \/ CloseAsks \/ CloseFlushes \/ CloseFails \/ CloseSender
  \/ Clear \/ Join
BuilderStep == BuilderStarted \/ BuilderStopped \/ Publish \/ BuilderThrows

Next ==
  \/ StartStep \/ OwnerStep \/ CallStop \/ StopStep
  \/ BuilderStep \/ WriteStep \/ Signal \/ Race

\* The operating system schedules the main thread and the writer's.  Nothing is
\* assumed of the builder (Builder promises neither that start() nor that
\* stop() returns), of signals, or of when an owner calls stop().
Fairness ==
  /\ WF_vars(StartStep) /\ WF_vars(OwnerStep) /\ WF_vars(StopStep)
  /\ WF_vars(WriteStep)

Spec == Init /\ [][Next]_vars /\ Fairness
------------------------------------------------------------------------------
TypeOK ==
  /\ WriterTypeOK
  /\ main \in MainStates /\ caller \in Callers
  /\ is_running \in BOOLEAN /\ error \in BOOLEAN
  /\ signalled \in BOOLEAN /\ raced \in BOOLEAN
  /\ writer_thread \in {"none", "joinable", "joined"}
  /\ phase \in {"new", "starting", "threw", "running", "stopping", "stopped"}
  /\ produced \in Nat

\* No signal gets lost: once one has been handled, no later step of start() or
\* of anything else makes the archiver count as running again.
SignalKept == signalled => ~is_running

\* close() and write() use the buffer and the sender at the same time only when
\* an owner calls stop() on a running archiver: in the program, where stop() is
\* called after the flag has been cleared, they never do.
RaceNeedsDirectStop == raced => caller = "owner"

\* The sender is closed, and write() told to end, only after the builder's
\* threads have been joined: no event is published into a closed pipeline.
ClosedLast == sender = "closed" \/ ~running => phase = "stopped"

\* An archiver that could be destroyed in peace had been stopped completely:
\* everything the writer had made a row of is in the database.
DestroyedFlushed ==
  main = "destroyed" =>
    /\ writer_thread = "joined" /\ phase = "stopped" /\ sender = "closed"
    /\ dbBuffer = << >> /\ eventsWritten = 0 /\ ~error

\* Refinement: the archiver uses the builder the way Builder asks for: stop()
\* is never called twice, and never on a builder whose start() has not returned.
TheBuilder == INSTANCE Builder WITH published <- produced
UsesBuilder == TheBuilder!Spec

\* Refinement: what reaches the database is a log of batches (StoredLog), also
\* with close() flushing from another thread.
LogSpec == Log!Spec

\* stop() returns, unless the process ends, the builder's stop() does not
\* return, or the flush of close() failed: then write() has not been told to end
\* and join() may wait for ever.
InStop ==
  main \in {"stop", "stopBuilder", "builderStopping", "close", "closeFlush",
            "closeSender", "clear", "join"}
StopReturns == InStop ~> ~InStop \/ ~alive \/ phase = "stopping" \/ error

\* A signal ends the program, unless the builder's start() or stop() or a
\* failed close() keeps the main thread waiting.
SignalEnds ==
  signalled ~> ~alive \/ main = "destroyed" \/ phase \in {"starting", "stopping"} \/ error

\* stop() leaves an archiver stopped.  orderbook_archiver.cpp says of the call in
\* the destructor "safety-net: ensure we stop on destruction", and main() prints
\* "Archiver stopped successfully" when its own call has returned; but a signal
\* has cleared the flag before, and stop() does nothing.
StopStops ==
  main = "returned" /\ caller # "start" => phase = "stopped" /\ writer_thread = "joined"
------------------------------------------------------------------------------
(* The inductive invariant. *)

\* The part of stop() behind its early return, before and after the builder has
\* been stopped.
Closing == {"close", "closeFlush", "closeSender", "clear", "join"}
Stopping == {"stopBuilder", "builderStopping"} \cup Closing

\* How far the builder is when the main thread is somewhere.
PhaseInv ==
  /\ main \in {"start", "register", "startBuilder"} => phase = "new"
  /\ main = "builderStarting" <=> phase = "starting"
  /\ main \in {"startWriter", "started", "polling", "stopBuilder"} => phase = "running"
  /\ main = "failed" => phase \in {"threw", "running"}
  /\ main = "builderStopping" <=> phase = "stopping"
  /\ main \in Closing \cup {"destroyed"} => phase = "stopped"
  /\ main \in {"stop", "returned"} => phase \in {"threw", "running", "stopped"}
  /\ main = "stop" /\ is_running => phase = "running"

\* Only an owner who did not wait for the flag gets past the early return of
\* stop(); after that the flag stays cleared.
FlagInv ==
  /\ SignalKept
  /\ main \in {"start", "register"} => ~signalled
  /\ main = "start" => ~is_running
  /\ main = "stop" /\ caller # "owner" => ~is_running
  /\ main \in Stopping => caller = "owner"
  /\ main \in Stopping \cup {"returned", "destroyed"} => ~is_running
  /\ RaceNeedsDirectStop /\ (raced => ~alive)

\* What has become of the writer's thread.
ThreadInv ==
  /\ main \in {"started", "polling"} \cup Stopping => writer_thread = "joinable"
  /\ main \in {"stop", "returned"} /\ caller # "start" => writer_thread # "none"
  /\ main = "stop" /\ is_running => writer_thread = "joinable"
  /\ writer_thread = "joined" =>
       /\ wpc = "returned" /\ phase = "stopped"
       /\ main \in {"stop", "returned", "destroyed"}
  /\ main = "destroyed" => writer_thread = "joined"

\* The sender is closed, then running is cleared, both by stop() and only when
\* its flush did not fail; write() never ends by itself.
CloseInv ==
  /\ ~producerDone
  /\ ~running => sender = "closed"
  /\ sender = "closed" => main \in {"clear", "join", "stop", "returned", "destroyed"}
  /\ sender = "closed" => phase = "stopped"
  /\ main = "clear" => sender = "closed"
  /\ error => running /\ sender = "open" /\ main = "join"
  /\ wpc = "returned" => ~running
  /\ wpc # "close"

\* Rows that are not counted exist only between the two steps that make a row
\* and count it; a batch that goes on is not full.
BatchInv ==
  /\ wpc # "count" /\ eventsWritten = 0 => dbBuffer = << >>
  /\ wpc \in {"inner", "dequeue", "ask", "put", "count"} => eventsWritten < BatchSize
  /\ wpc \in {"outer", "last", "askLast", "returned"} => eventsWritten = 0

\* No more rows wait to be flushed than are counted: after close() has flushed
\* there are fewer.
CountInv == Len(dbBuffer) <= eventsWritten + (IF wpc = "count" THEN 1 ELSE 0)

\* A batch with events makes up for the event that line 89 may drop after it.  A
\* batch without is flushed only once running has been cleared; what is dropped
\* then is the last, for write() goes back to its outer loop and returns.
LossInv ==
  LET stored == Len(database) + Len(dbBuffer)
  IN  /\ Lost <= stored + 1
      /\ running \/ wpc \notin {"outer", "returned"} => Lost <= stored
      /\ running /\ (Len(dbBuffer) > 0 \/ eventsWritten > 0 \/ wpc \in {"count", "last"})
           => Lost + 1 <= stored
      /\ running /\ wpc = "flush" => eventsWritten > 0

\* With QueueInv and RowsInv of EventWriter.
ArchInv ==
  /\ TypeOK /\ PhaseInv /\ FlagInv /\ ThreadInv /\ CloseInv /\ BatchInv
  /\ QueueInv /\ RowsInv /\ CountInv /\ LossInv
=============================================================================
