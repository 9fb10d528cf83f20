--------------------------- MODULE ArchiverProofs ---------------------------
(***************************************************************************)
(* Proofs about Archiver, for every batch size and number of events.       *)
(***************************************************************************)
EXTENDS Archiver, EventWriterProofs

\* Append and Tail keep a sequence over a set.
LEMMA SequenceTypes ==
  ASSUME NEW S, NEW q \in Seq(S), NEW p \in Seq(S), NEW e \in S
  PROVE  /\ Append(q, e) \in Seq(S) /\ q \o p \in Seq(S) /\ << >> \in Seq(S)
         /\ q # << >> => Head(q) \in S /\ Tail(q) \in Seq(S)
OBVIOUS

\* Every step is one of the writer's, the builder's or the owner's, or a signal,
\* or the end of the process.
LEMMA Steps ==
  ASSUME [Next]_vars
  PROVE  \/ SetRunning \/ Register \/ StartWriter \/ StartFailed \/ CheckStarted
         \/ LeaveLoop \/ CallStop \/ EnterStop \/ CloseAsks \/ CloseFails \/ Join
         \/ Destroy \/ DestroyMembers
         \/ StartBuilder \/ BuilderStarted \/ StopBuilder \/ BuilderStopped
         \/ CloseFlushes \/ CloseSender \/ Clear
         \/ Rethrow \/ DestroyJoinable \/ BuilderThrows \/ Race \/ Signal \/ Publish
         \/ WriteStep \/ UNCHANGED vars
BY DEF Next, StartStep, OwnerStep, StopStep, BuilderStep

\* The inductive invariant holds when main() calls start().
LEMMA ArchInvInit == Init => ArchInv
<1> SUFFICES ASSUME Init PROVE ArchInv
  OBVIOUS
<1>1. 0 \in 0 .. BatchSize /\ << >> \in Seq(Nat)
  BY BatchSizeAssumption
<1>2. TypeOK
  BY <1>1 DEF Init, WriterInit, TypeOK, WriterTypeOK, WriterStates, MainStates, Callers
<1>3. PhaseInv /\ FlagInv /\ ThreadInv /\ CloseInv /\ BatchInv
  BY DEF Init, WriterInit, PhaseInv, FlagInv, SignalKept, RaceNeedsDirectStop, ThreadInv,
         CloseInv, BatchInv, Closing, Stopping
<1>4. /\ Len(buffer) = 0 /\ Len(dbBuffer) = 0 /\ Len(database) = 0 /\ Held = 0
      /\ DOMAIN buffer = {} /\ DOMAIN dbBuffer = {} /\ DOMAIN database = {}
      /\ produced = 0 /\ wpc = "outer" /\ eventsWritten = 0
  BY DEF Init, WriterInit, Held
<1>5. QueueInv /\ RowsInv /\ CountInv
  BY <1>4 DEF QueueInv, RowsInv, CountInv
<1>6. LossInv
  BY <1>4 DEF LossInv, Lost
<1> QED
  BY <1>2, <1>3, <1>5, <1>6 DEF ArchInv

------------------------------------------------------------------------------
(* The writer's steps. *)

\* What a step of write() keeps of the writer's own invariants.
LEMMA WriterNext ==
  ASSUME WriterTypeOK, BatchInv, CloseInv, WriterStep
  PROVE  /\ WriterTypeOK' /\ BatchInv'
         /\ wpc' # "close" /\ (wpc' = "returned" => ~running)
         /\ UNCHANGED <<contextVars, sender>> /\ alive' \in {alive, FALSE}
         /\ alive
<1> USE DEF WriterTypeOK, WriterStates, BatchInv, contextVars, rowVars, writerVars, At
<1>0. wpc # "close" /\ ~producerDone /\ (wpc = "returned" => ~running)
  BY DEF CloseInv
<1>1. CASE Outer
  BY <1>0, <1>1, BatchSizeAssumption DEF Outer
<1>2. CASE Inner
  BY <1>0, <1>2 DEF Inner
<1>3. CASE Dequeue
  BY <1>0, <1>3, SequenceTypes DEF Dequeue, Take
<1>4. CASE NotDequeued
  BY <1>0, <1>4 DEF NotDequeued
<1>5. CASE Ask
  BY <1>0, <1>5 DEF Ask
<1>6. CASE Put
  <2>1. dbBuffer' \in Seq(Nat)
    BY <1>6, SequenceTypes DEF Put
  <2> QED
    BY <1>0, <1>6, <2>1 DEF Put
<1>7. CASE Count
  <2>1. eventsWritten' \in 1 .. BatchSize
    BY <1>7, BatchSizeAssumption DEF Count
  <2>2. wpc' = "flush" \/ (wpc' = "inner" /\ eventsWritten' < BatchSize)
    BY <1>7, <2>1, BatchSizeAssumption DEF Count, Full
  <2> QED
    BY <1>0, <1>7, <2>1, <2>2 DEF Count
<1>8. CASE Flush
  <2>1. eventsWritten' = 0 /\ dbBuffer' = << >> /\ database' \in Seq(Nat)
    <3>1. CASE eventsWritten > 0
      <4>1. database' = database \o dbBuffer /\ dbBuffer' = << >> /\ eventsWritten' = 0
        BY <1>8, <3>1 DEF Flush, FlushRows
      <4>2. database \o dbBuffer \in Seq(Nat)
        BY SequenceTypes
      <4> QED
        BY <4>1, <4>2
    <3>2. CASE ~(eventsWritten > 0)
      <4>1. eventsWritten = 0
        BY <3>2, BatchSizeAssumption
      <4> QED
        BY <1>8, <4>1 DEF Flush, FlushRows
    <3> QED
      BY <3>1, <3>2
  <2> QED
    BY <1>0, <1>8, <2>1, BatchSizeAssumption DEF Flush
<1>9. CASE FlushFails \/ PutFails
  BY <1>0, <1>9 DEF FlushFails, PutFails
<1>10. CASE Discard
  BY <1>0, <1>10, SequenceTypes DEF Discard, Take
<1>11. CASE NothingLeft
  BY <1>0, <1>11 DEF NothingLeft
<1>12. CASE AskLast
  BY <1>0, <1>12 DEF AskLast
<1>13. CASE Close
  BY <1>0, <1>13 DEF Close
<1> QED
  BY <1>1, <1>2, <1>3, <1>4, <1>5, <1>6, <1>7, <1>8, <1>9, <1>10, <1>11, <1>12, <1>13
     DEF WriterStep

------------------------------------------------------------------------------
(* Every step keeps the invariant. *)
\* What has to be shown of a step that leaves the writer alone.
LEMMA WriterUntouched ==
  ASSUME WriterTypeOK, BatchInv, UNCHANGED writerVars
  PROVE  WriterTypeOK' /\ BatchInv' /\ UNCHANGED <<wpc, producerDone, running, sender, alive>>
BY DEF WriterTypeOK, BatchInv, writerVars, contextVars, rowVars

\* The steps of the other threads: everything but the writer's own.
LEMMA OthersNext ==
  ASSUME TypeOK, BatchInv, [Next]_vars, ~WriteStep
  PROVE  TypeOK' /\ BatchInv' /\ UNCHANGED <<wpc, producerDone>>
<1> DEFINE goal == WriterTypeOK' /\ BatchInv' /\ UNCHANGED <<wpc, producerDone>>
           rest == /\ main' \in MainStates /\ caller' \in Callers
                   /\ is_running' \in BOOLEAN /\ error' \in BOOLEAN
                   /\ signalled' \in BOOLEAN /\ raced' \in BOOLEAN
                   /\ writer_thread' \in {"none", "joinable", "joined"}
                   /\ phase' \in {"new", "starting", "threw", "running", "stopping", "stopped"}
                   /\ produced' \in Nat
<1>0. WriterTypeOK /\ (UNCHANGED writerVars => goal)
  BY WriterUntouched DEF TypeOK
<1>a. SUFFICES goal /\ rest
  BY DEF TypeOK
<1> USE DEF AtMain, OwnStep, builderVars, ownerVars, historyVars
<1>1. CASE \/ SetRunning \/ Register \/ StartWriter \/ StartFailed \/ CheckStarted
           \/ LeaveLoop \/ CallStop
  <2>1. UNCHANGED writerVars
    BY <1>1 DEF SetRunning, Register, StartWriter, StartFailed, CheckStarted, LeaveLoop, CallStop
  <2>2. rest
    <3> USE DEF TypeOK, MainStates, Callers
    <3>1. CASE SetRunning \/ Register \/ StartWriter
      BY <3>1 DEF SetRunning, Register, StartWriter
    <3>2. CASE StartFailed \/ CheckStarted
      BY <3>2 DEF StartFailed, CheckStarted
    <3>3. CASE LeaveLoop \/ CallStop
      BY <3>3 DEF LeaveLoop, CallStop
    <3> QED
      BY <1>1, <3>1, <3>2, <3>3
  <2> QED
    BY <1>0, <2>1, <2>2
<1>2. CASE EnterStop \/ CloseAsks \/ CloseFails \/ Join \/ Destroy \/ DestroyMembers
  <2>1. UNCHANGED writerVars
    BY <1>2 DEF EnterStop, CloseAsks, CloseFails, Join, Destroy, DestroyMembers
  <2>2. rest
    <3> USE DEF TypeOK, MainStates, Callers
    <3>1. CASE EnterStop \/ CloseAsks
      BY <3>1 DEF EnterStop, CloseAsks
    <3>2. CASE CloseFails \/ Join
      BY <3>2 DEF CloseFails, Join
    <3>3. CASE Destroy \/ DestroyMembers
      BY <3>3 DEF Destroy, DestroyMembers
    <3> QED
      BY <1>2, <3>1, <3>2, <3>3
  <2> QED
    BY <1>0, <2>1, <2>2
<1>3. CASE StartBuilder \/ BuilderStarted \/ StopBuilder \/ BuilderStopped
  <2>1. UNCHANGED writerVars
    BY <1>3 DEF StartBuilder, BuilderStarted, StopBuilder, BuilderStopped
  <2>2. rest
    BY <1>3 DEF StartBuilder, BuilderStarted, StopBuilder, BuilderStopped, TypeOK,
                MainStates
  <2> QED
    BY <1>0, <2>1, <2>2
<1>4. CASE CloseFlushes
  <2>1. database' \in Seq(Nat) /\ dbBuffer' \in Seq(Nat) /\ dbBuffer' = << >>
    BY <1>0, <1>4, SequenceTypes DEF CloseFlushes, WriterTypeOK
  <2>2. goal
    BY <1>0, <1>4, <2>1 DEF CloseFlushes, WriterTypeOK, BatchInv, contextVars
  <2>3. rest
    BY <1>4 DEF CloseFlushes, TypeOK, MainStates
  <2> QED
    BY <2>2, <2>3
<1>5. CASE CloseSender \/ Clear
  <2>1. goal
    BY <1>0, <1>5 DEF CloseSender, Clear, WriterTypeOK, BatchInv, contextVars, rowVars
  <2>2. rest
    BY <1>5 DEF CloseSender, Clear, TypeOK, MainStates
  <2> QED
    BY <2>1, <2>2
<1>6. CASE Rethrow \/ DestroyJoinable \/ BuilderThrows \/ Race \/ Signal
  <2>1. goal
    <3>1. CASE UNCHANGED writerVars
      BY <1>0, <3>1
    <3>2. CASE Terminate
      BY <1>0, <3>2 DEF Terminate, WriterTypeOK, BatchInv, contextVars, rowVars
    <3> QED
      BY <1>6, <3>1, <3>2 DEF Rethrow, DestroyJoinable, BuilderThrows, Race, Signal
  <2>2. rest
    <3> USE DEF TypeOK, Terminate
    <3>1. CASE Rethrow \/ DestroyJoinable
      BY <3>1 DEF Rethrow, DestroyJoinable
    <3>2. CASE BuilderThrows
      BY <3>2 DEF BuilderThrows
    <3>3. CASE Race
      BY <3>3 DEF Race
    <3>4. CASE Signal
      BY <3>4 DEF Signal
    <3> QED
      BY <1>6, <3>1, <3>2, <3>3, <3>4
  <2> QED
    BY <2>1, <2>2
<1>7. CASE Publish
  <2>1. produced' \in Nat /\ buffer' \in Seq(Nat)
    BY <1>0, <1>7, SequenceTypes DEF Publish, TypeOK, WriterTypeOK
  <2>2. goal
    BY <1>0, <1>7, <2>1 DEF Publish, WriterTypeOK, BatchInv, contextVars, rowVars
  <2>3. rest
    BY <1>7, <2>1 DEF Publish, TypeOK
  <2> QED
    BY <2>2, <2>3
<1>8. CASE UNCHANGED vars
  BY <1>0, <1>8 DEF vars, TypeOK
<1> QED
  BY <1>1, <1>2, <1>3, <1>4, <1>5, <1>6, <1>7, <1>8, Steps

LEMMA TypeNext == TypeOK /\ BatchInv /\ CloseInv /\ [Next]_vars => TypeOK' /\ BatchInv'
<1> SUFFICES ASSUME TypeOK, BatchInv, CloseInv, [Next]_vars PROVE TypeOK' /\ BatchInv'
  OBVIOUS
<1>1. CASE WriteStep
  BY <1>1, WriterNext DEF WriteStep, TypeOK, builderVars, ownerVars, historyVars
<1> QED
  BY <1>1, OthersNext

LEMMA PhaseNext == PhaseInv /\ TypeOK /\ FlagInv /\ ThreadInv /\ [Next]_vars => PhaseInv'
<1> SUFFICES ASSUME PhaseInv, TypeOK, FlagInv, ThreadInv, [Next]_vars PROVE PhaseInv'
  OBVIOUS
<1>0. main \in MainStates
  BY DEF TypeOK
<1> USE DEF PhaseInv, MainStates, Stopping, Closing, AtMain, OwnStep, builderVars,
            ownerVars, historyVars
<1>1. CASE SetRunning \/ Register
  BY <1>0, <1>1 DEF SetRunning, Register
<1>2. CASE StartWriter
  BY <1>0, <1>2 DEF StartWriter
<1>3. CASE StartFailed
  BY <1>0, <1>3 DEF StartFailed
<1>4. CASE CheckStarted
  BY <1>0, <1>4 DEF CheckStarted
<1>5. CASE LeaveLoop \/ CallStop
  BY <1>0, <1>5 DEF LeaveLoop, CallStop
<1>6. CASE CloseAsks \/ CloseFails \/ Join
  BY <1>0, <1>6 DEF CloseAsks, CloseFails, Join
<1>7. CASE Destroy
  BY <1>0, <1>7 DEF Destroy, FlagInv
<1>8. CASE DestroyMembers
  BY <1>0, <1>8 DEF DestroyMembers
<1>9. CASE EnterStop
  BY <1>0, <1>9 DEF EnterStop
<1>10. CASE StartBuilder \/ BuilderStarted
  BY <1>0, <1>10 DEF StartBuilder, BuilderStarted
<1>11. CASE StopBuilder \/ BuilderStopped
  BY <1>0, <1>11 DEF StopBuilder, BuilderStopped
<1>12. CASE CloseFlushes \/ CloseSender \/ Clear
  BY <1>12 DEF CloseFlushes, CloseSender, Clear
<1>13. CASE Rethrow \/ DestroyJoinable \/ BuilderThrows \/ Race
  BY <1>13 DEF Rethrow, DestroyJoinable, BuilderThrows, Race, Terminate
<1>14. CASE Signal
  BY <1>0, <1>14 DEF Signal, Terminate
<1>15. CASE Publish \/ WriteStep
  BY <1>15 DEF Publish, WriteStep
<1>16. CASE UNCHANGED vars
  BY <1>16 DEF vars
<1> QED
  BY <1>1, <1>2, <1>3, <1>4, <1>5, <1>6, <1>7, <1>8, <1>9, <1>10, <1>11, <1>12, <1>13,
     <1>14, <1>15, <1>16, Steps

LEMMA FlagNext == FlagInv /\ PhaseInv /\ TypeOK /\ [Next]_vars => FlagInv'
<1> SUFFICES ASSUME FlagInv, PhaseInv, TypeOK, [Next]_vars PROVE FlagInv'
  OBVIOUS
<1>0. main \in MainStates /\ is_running \in BOOLEAN
  BY DEF TypeOK
<1> USE DEF FlagInv, SignalKept, RaceNeedsDirectStop, MainStates, Stopping, Closing, AtMain,
            OwnStep, builderVars, ownerVars, historyVars
<1>1. CASE SetRunning \/ Register
  BY <1>0, <1>1 DEF SetRunning, Register
<1>2. CASE StartWriter
  BY <1>0, <1>2 DEF StartWriter
<1>3. CASE StartFailed
  BY <1>0, <1>3 DEF StartFailed
<1>4. CASE CheckStarted
  BY <1>0, <1>4 DEF CheckStarted
<1>5. CASE LeaveLoop \/ CallStop
  BY <1>0, <1>5 DEF LeaveLoop, CallStop
<1>6. CASE CloseAsks \/ CloseFails \/ Join
  BY <1>0, <1>6 DEF CloseAsks, CloseFails, Join
<1>7. CASE Destroy
  BY <1>0, <1>7 DEF Destroy
<1>8. CASE DestroyMembers
  BY <1>0, <1>8 DEF DestroyMembers
<1>9. CASE EnterStop
  BY <1>0, <1>9 DEF EnterStop
<1>10. CASE StartBuilder \/ BuilderStarted
  BY <1>0, <1>10 DEF StartBuilder, BuilderStarted
<1>11. CASE StopBuilder \/ BuilderStopped
  BY <1>0, <1>11 DEF StopBuilder, BuilderStopped
<1>12. CASE CloseFlushes \/ CloseSender \/ Clear
  BY <1>12 DEF CloseFlushes, CloseSender, Clear
<1>13. CASE Rethrow \/ DestroyJoinable \/ BuilderThrows
  BY <1>13 DEF Rethrow, DestroyJoinable, BuilderThrows, Terminate
<1>14. CASE Race
  BY <1>14 DEF Race, BothInBuffer, BothInSender, Terminate
<1>15. CASE Signal
  BY <1>0, <1>15 DEF Signal, Terminate
<1>16. CASE Publish \/ WriteStep
  <2>1. UNCHANGED <<ownerVars, historyVars>>
    BY <1>16 DEF Publish, WriteStep
  <2>2. raced => ~alive'
    BY <1>16 DEF Publish, WriteStep, WriterStep, Outer, Inner, Dequeue, NotDequeued, Ask, Put,
                 Count, Flush, FlushFails, PutFails, Discard, NothingLeft, AskLast, Close, At
  <2> QED
    BY <2>1, <2>2
<1>17. CASE UNCHANGED vars
  BY <1>17 DEF vars, writerVars
<1> QED
  BY <1>1, <1>2, <1>3, <1>4, <1>5, <1>6, <1>7, <1>8, <1>9, <1>10, <1>11, <1>12, <1>13,
     <1>14, <1>15, <1>16, <1>17, Steps

LEMMA ThreadNext == ThreadInv /\ PhaseInv /\ FlagInv /\ CloseInv /\ TypeOK /\ BatchInv /\ [Next]_vars
                      => ThreadInv'
<1> SUFFICES ASSUME ThreadInv, PhaseInv, FlagInv, CloseInv, TypeOK, BatchInv, [Next]_vars
             PROVE  ThreadInv'
  OBVIOUS
<1>0. main \in MainStates /\ writer_thread \in {"none", "joinable", "joined"}
  BY DEF TypeOK
<1> USE DEF ThreadInv, MainStates, Stopping, Closing, AtMain, OwnStep, builderVars, ownerVars,
            historyVars
<1>a. ~WriteStep => UNCHANGED wpc
  BY OthersNext
<1>1. CASE SetRunning \/ Register
  BY <1>0, <1>1, <1>a DEF SetRunning, Register, writerVars
<1>2. CASE StartWriter
  BY <1>0, <1>2 DEF StartWriter, writerVars
<1>3. CASE StartFailed
  BY <1>0, <1>3 DEF StartFailed, writerVars
<1>4. CASE CheckStarted
  BY <1>0, <1>4 DEF CheckStarted, writerVars
<1>5. CASE LeaveLoop \/ CallStop
  BY <1>0, <1>5 DEF LeaveLoop, CallStop, writerVars
<1>6. CASE CloseAsks \/ CloseFails
  BY <1>0, <1>6 DEF CloseAsks, CloseFails, writerVars
<1>7. CASE Join
  BY <1>0, <1>7 DEF Join, writerVars, PhaseInv
<1>8. CASE Destroy
  BY <1>0, <1>8 DEF Destroy, writerVars, FlagInv
<1>9. CASE DestroyMembers
  BY <1>0, <1>9 DEF DestroyMembers, writerVars
<1>10. CASE EnterStop
  BY <1>0, <1>10 DEF EnterStop, writerVars
<1>11. CASE StartBuilder \/ BuilderStarted
  BY <1>0, <1>11 DEF StartBuilder, BuilderStarted, writerVars
<1>12. CASE StopBuilder \/ BuilderStopped
  BY <1>0, <1>12 DEF StopBuilder, BuilderStopped, writerVars
<1>13. CASE CloseFlushes \/ CloseSender \/ Clear
  BY <1>0, <1>13 DEF CloseFlushes, CloseSender, Clear
<1>14. CASE Rethrow \/ DestroyJoinable \/ BuilderThrows \/ Race
  BY <1>14 DEF Rethrow, DestroyJoinable, BuilderThrows, Race, Terminate
<1>15. CASE Signal
  BY <1>0, <1>15 DEF Signal, Terminate, writerVars
<1>16. CASE Publish
  BY <1>16 DEF Publish
<1>17. CASE WriteStep
  BY <1>17 DEF WriteStep
<1>18. CASE UNCHANGED vars
  BY <1>18 DEF vars, writerVars
<1> QED
  BY <1>1, <1>2, <1>3, <1>4, <1>5, <1>6, <1>7, <1>8, <1>9, <1>10, <1>11, <1>12, <1>13,
     <1>14, <1>15, <1>16, <1>17, <1>18, Steps

LEMMA CloseNext == CloseInv /\ PhaseInv /\ ThreadInv /\ TypeOK /\ BatchInv /\ [Next]_vars => CloseInv'
<1> SUFFICES ASSUME CloseInv, PhaseInv, ThreadInv, TypeOK, BatchInv, [Next]_vars PROVE CloseInv'
  OBVIOUS
<1>0. main \in MainStates /\ (~WriteStep => UNCHANGED <<wpc, producerDone>>)
  BY OthersNext DEF TypeOK
<1> USE DEF CloseInv, MainStates, Stopping, Closing, AtMain, OwnStep, builderVars, ownerVars,
            historyVars, contextVars, rowVars, writerVars
<1>1. CASE SetRunning \/ Register \/ StartWriter \/ StartFailed \/ CheckStarted
  BY <1>0, <1>1 DEF SetRunning, Register, StartWriter, StartFailed, CheckStarted
<1>2. CASE LeaveLoop \/ CallStop \/ Destroy \/ DestroyMembers
  BY <1>0, <1>2 DEF LeaveLoop, CallStop, Destroy, DestroyMembers
<1>3. CASE EnterStop
  BY <1>0, <1>3 DEF EnterStop, PhaseInv
<1>4. CASE CloseAsks
  BY <1>0, <1>4 DEF CloseAsks
<1>5. CASE CloseFails
  <2>1. sender = "open" /\ running
    BY <1>5 DEF CloseFails, TypeOK, WriterTypeOK
  <2> QED
    BY <1>0, <1>5, <2>1 DEF CloseFails
<1>6. CASE Join
  BY <1>0, <1>6 DEF Join
<1>7. CASE StartBuilder \/ BuilderStarted
  BY <1>0, <1>7 DEF StartBuilder, BuilderStarted, PhaseInv
<1>8. CASE StopBuilder \/ BuilderStopped
  BY <1>0, <1>8 DEF StopBuilder, BuilderStopped, PhaseInv
<1>9. CASE CloseFlushes
  BY <1>0, <1>9 DEF CloseFlushes
<1>10. CASE CloseSender
  BY <1>0, <1>10 DEF CloseSender, PhaseInv
<1>11. CASE Clear
  BY <1>0, <1>11 DEF Clear
<1>12. CASE Rethrow \/ DestroyJoinable \/ BuilderThrows \/ Race
  BY <1>0, <1>12 DEF Rethrow, DestroyJoinable, BuilderThrows, Race, Terminate
<1>13. CASE Signal
  <2>1. UNCHANGED <<wpc, producerDone, running, sender, main, error, phase>>
    BY <1>13 DEF Signal, Terminate
  <2> QED
    BY <2>1
<1>14. CASE Publish
  BY <1>0, <1>14 DEF Publish
<1>15. CASE WriteStep
  <2>1. WriterTypeOK /\ WriterStep /\ UNCHANGED <<main, error, phase>>
    BY <1>15 DEF WriteStep, TypeOK
  <2>2. wpc' # "close" /\ (wpc' = "returned" => ~running) /\ UNCHANGED <<contextVars, sender>>
    BY <2>1, WriterNext
  <2> QED
    BY <2>1, <2>2
<1>16. CASE UNCHANGED vars
  BY <1>16 DEF vars
<1> QED
  BY <1>1, <1>2, <1>3, <1>4, <1>5, <1>6, <1>7, <1>8, <1>9, <1>10, <1>11, <1>12, <1>13,
     <1>14, <1>15, <1>16, Steps

------------------------------------------------------------------------------
(* Every step keeps the events in order and the loss in bounds. *)

\* What the state variables that count events are, for arithmetic.
LEMMA Lengths ==
  ASSUME TypeOK
  PROVE  /\ WriterTypeOK /\ produced \in Nat /\ Held \in 0 .. 1
         /\ Len(buffer) \in Nat /\ Len(dbBuffer) \in Nat /\ Len(database) \in Nat
         /\ buffer \in Seq(Nat) /\ dbBuffer \in Seq(Nat) /\ database \in Seq(Nat)
         /\ eventsWritten \in Nat /\ running \in BOOLEAN /\ Lost \in Int
<1>1. WriterTypeOK /\ produced \in Nat /\ running \in BOOLEAN
  BY DEF TypeOK, WriterTypeOK
<1>2. /\ Len(buffer) \in Nat /\ Len(dbBuffer) \in Nat /\ Len(database) \in Nat
      /\ buffer \in Seq(Nat) /\ dbBuffer \in Seq(Nat) /\ database \in Seq(Nat)
      /\ eventsWritten \in Nat /\ Held \in 0 .. 1
  BY <1>1, WriterLengths
<1> QED
  BY <1>1, <1>2 DEF Lost

\* Only the builder, write() and the flush of close() touch events; only close()
\* touches running, and clears it.
LEMMA EventsUntouched ==
  ASSUME [Next]_vars, ~Publish, ~WriteStep, ~CloseFlushes
  PROVE  /\ UNCHANGED <<produced, buffer, wpc, event, dbBuffer, database, eventsWritten>>
         /\ running' \in {running, FALSE}
<1> USE DEF AtMain, OwnStep, builderVars, ownerVars, historyVars, contextVars, rowVars, writerVars
<1>1. CASE \/ SetRunning \/ Register \/ StartWriter \/ StartFailed \/ CheckStarted
           \/ LeaveLoop \/ CallStop
  BY <1>1 DEF SetRunning, Register, StartWriter, StartFailed, CheckStarted, LeaveLoop, CallStop
<1>2. CASE EnterStop \/ CloseAsks \/ CloseFails \/ Join \/ Destroy \/ DestroyMembers
  BY <1>2 DEF EnterStop, CloseAsks, CloseFails, Join, Destroy, DestroyMembers
<1>3. CASE StartBuilder \/ BuilderStarted \/ StopBuilder \/ BuilderStopped
  BY <1>3 DEF StartBuilder, BuilderStarted, StopBuilder, BuilderStopped
<1>4. CASE CloseSender \/ Clear
  BY <1>4 DEF CloseSender, Clear
<1>5. CASE Rethrow \/ DestroyJoinable \/ BuilderThrows \/ Race \/ Signal
  BY <1>5 DEF Rethrow, DestroyJoinable, BuilderThrows, Race, Signal, Terminate
<1>6. CASE UNCHANGED vars
  BY <1>6 DEF vars
<1> QED
  BY <1>1, <1>2, <1>3, <1>4, <1>5, <1>6, Steps

\* Every step keeps the queue and the rows in the order of their events.
LEMMA OrderNext == TypeOK /\ QueueInv /\ RowsInv /\ [Next]_vars => QueueInv' /\ RowsInv'
<1> SUFFICES ASSUME TypeOK, QueueInv, RowsInv, [Next]_vars PROVE QueueInv' /\ RowsInv'
  OBVIOUS
<1>1. CASE Publish
  <2>1. /\ produced' = produced + 1 /\ buffer' = Append(buffer, produced')
        /\ UNCHANGED <<wpc, event, dbBuffer, database>>
    BY <1>1 DEF Publish, rowVars
  <2> QED
    BY <2>1, EnqueueKeepsOrder, Lengths
<1>2. CASE WriteStep
  <2>1. WriterStep /\ UNCHANGED produced
    BY <1>2 DEF WriteStep, builderVars
  <2> QED
    BY <2>1, QueueNext, RowsNext, Lengths
<1>3. CASE CloseFlushes
  <2>1. /\ database' = database \o dbBuffer /\ dbBuffer' = << >> /\ Held' = Held
        /\ UNCHANGED <<produced, buffer, wpc, event>>
    BY <1>3 DEF CloseFlushes, builderVars, Held
  <2>2. RowsInv'
    BY <2>1, StoreKeepsOrder, Lengths
  <2> QED
    BY <2>1, <2>2 DEF QueueInv
<1>4. CASE ~Publish /\ ~WriteStep /\ ~CloseFlushes
  BY <1>4, EventsUntouched, OrderKept
<1> QED
  BY <1>1, <1>2, <1>3, <1>4

\* Every step keeps the rows no more than are counted.
LEMMA CountNext == TypeOK /\ CloseInv /\ CountInv /\ [Next]_vars => CountInv'
<1> SUFFICES ASSUME TypeOK, CloseInv, CountInv, [Next]_vars PROVE CountInv'
  OBVIOUS
<1>0. /\ Len(dbBuffer) \in Nat /\ eventsWritten \in Nat /\ dbBuffer \in Seq(Nat)
      /\ wpc # "close"
  BY Lengths DEF CloseInv
<1>1. CASE Publish
  BY <1>1 DEF Publish, rowVars, CountInv
<1>2. CASE WriteStep
  <2> USE DEF At, rowVars, CountInv
  <2>1. CASE Put
    <3>1. Len(dbBuffer') = Len(dbBuffer) + 1
      BY <1>0, <2>1, AppendFacts, Lengths DEF Put, WriterTypeOK
    <3> QED
      BY <1>0, <2>1, <3>1 DEF Put
  <2>2. CASE Count
    BY <1>0, <2>2 DEF Count
  <2>3. CASE Flush
    BY <1>0, <2>3 DEF Flush, FlushRows
  <2>4. CASE \/ Outer \/ Inner \/ Dequeue \/ NotDequeued \/ Ask \/ Discard \/ NothingLeft
             \/ AskLast
    BY <1>0, <2>4 DEF Outer, Inner, Dequeue, NotDequeued, Ask, Discard, NothingLeft, AskLast
  <2>5. CASE FlushFails \/ PutFails
    BY <2>5 DEF FlushFails, PutFails
  <2>6. CASE Close
    BY <1>0, <2>6 DEF Close
  <2> QED
    BY <1>2, <2>1, <2>2, <2>3, <2>4, <2>5, <2>6 DEF WriteStep, WriterStep
<1>3. CASE CloseFlushes
  <2>1. Len(dbBuffer') = 0 /\ UNCHANGED <<eventsWritten, wpc>>
    BY <1>3 DEF CloseFlushes
  <2> QED
    BY <1>0, <2>1 DEF CountInv
<1>4. CASE ~Publish /\ ~WriteStep /\ ~CloseFlushes
  BY <1>4, EventsUntouched DEF CountInv
<1> QED
  BY <1>1, <1>2, <1>3, <1>4

\* The loss stays in bounds when no event gets lost and write() stays where it is.
LEMMA LossKept ==
  ASSUME TypeOK, LossInv, UNCHANGED <<wpc, eventsWritten>>, Lost' = Lost,
         Len(database') + Len(dbBuffer') = Len(database) + Len(dbBuffer),
         Len(dbBuffer') > 0 => Len(dbBuffer) > 0, running' \in {running, FALSE}
  PROVE  LossInv'
<1>1. /\ Lost \in Int /\ Len(database) \in Nat /\ Len(dbBuffer) \in Nat
      /\ running \in BOOLEAN
  BY Lengths
<1> DEFINE stored == Len(database) + Len(dbBuffer)
<1>2. stored \in Nat /\ stored' = stored
  BY <1>1
<1>3. /\ Lost <= stored + 1
      /\ running \/ wpc \notin {"outer", "returned"} => Lost <= stored
      /\ running /\ (Len(dbBuffer) > 0 \/ eventsWritten > 0 \/ wpc \in {"count", "last"})
           => Lost + 1 <= stored
      /\ running /\ wpc = "flush" => eventsWritten > 0
  BY DEF LossInv
<1>4. running' => running
  OBVIOUS
<1>5. /\ Lost' <= stored' + 1
      /\ running' \/ wpc' \notin {"outer", "returned"} => Lost' <= stored'
      /\ running' /\ (Len(dbBuffer') > 0 \/ eventsWritten' > 0 \/ wpc' \in {"count", "last"})
           => Lost' + 1 <= stored'
      /\ running' /\ wpc' = "flush" => eventsWritten' > 0
  <2> HIDE DEF stored
  <2> QED
    BY <1>1, <1>2, <1>3, <1>4
<1> QED
  BY <1>5 DEF LossInv

\* A step of write() keeps the loss in bounds.
LEMMA WriterLossNext ==
  ASSUME TypeOK, QueueInv, BatchInv, CloseInv, LossInv, WriterStep, UNCHANGED produced
  PROVE  LossInv'
<1>0. /\ Len(buffer) \in Nat /\ Len(dbBuffer) \in Nat /\ Len(database) \in Nat
      /\ buffer \in Seq(Nat) /\ dbBuffer \in Seq(Nat) /\ database \in Seq(Nat)
      /\ eventsWritten \in Nat /\ Lost \in Int /\ produced \in Nat /\ WriterTypeOK
      /\ ~producerDone /\ wpc # "close"
  BY Lengths DEF CloseInv
<1>1. running' = running /\ running \in BOOLEAN
  BY <1>0, WriterNext, Lengths DEF contextVars
<1> DEFINE stored == Len(database) + Len(dbBuffer)
<1>2. /\ Lost <= stored + 1
      /\ running \/ wpc \notin {"outer", "returned"} => Lost <= stored
      /\ running /\ (Len(dbBuffer) > 0 \/ eventsWritten > 0 \/ wpc \in {"count", "last"})
           => Lost + 1 <= stored
      /\ running /\ wpc = "flush" => eventsWritten > 0
  BY DEF LossInv
<1> USE DEF At, rowVars
<1>3. CASE Outer \/ Inner \/ NotDequeued \/ Ask \/ Count \/ NothingLeft \/ AskLast
  <2>1. /\ UNCHANGED <<database, dbBuffer, buffer>> /\ Held = 0 /\ Held' = 0
        /\ wpc' # "last"
    BY <1>3 DEF Outer, Inner, NotDequeued, Ask, Count, NothingLeft, AskLast, Held
  <2>2. Lost' = Lost /\ stored' = stored
    BY <2>1 DEF Lost
  <2>3. CASE Count
    <3>1. wpc = "count" /\ eventsWritten' > 0 /\ wpc' # "outer" /\ wpc' # "returned"
      BY <1>0, <2>3 DEF Count
    <3> QED
      BY <1>0, <1>1, <1>2, <2>1, <2>2, <3>1 DEF LossInv
  <2>4. CASE Outer
    <3>1. UNCHANGED eventsWritten /\ wpc = "outer" /\ wpc' = IF running THEN "inner" ELSE "returned"
      BY <2>4 DEF Outer
    <3> QED
      BY <1>0, <1>1, <1>2, <2>1, <2>2, <3>1 DEF LossInv
  <2>5. CASE Inner
    <3>1. UNCHANGED eventsWritten /\ wpc = "inner" /\ wpc' = IF running THEN "dequeue" ELSE "flush"
      BY <2>5 DEF Inner
    <3> QED
      BY <1>0, <1>1, <1>2, <2>1, <2>2, <3>1 DEF LossInv
  <2>6. CASE NotDequeued \/ Ask \/ NothingLeft
    <3>1. /\ UNCHANGED eventsWritten /\ wpc \in {"dequeue", "ask", "last"}
          /\ wpc' \in {"ask", "inner", "askLast"}
      BY <1>0, <2>6 DEF NotDequeued, Ask, NothingLeft
    <3> QED
      BY <1>0, <1>1, <1>2, <2>1, <2>2, <3>1 DEF LossInv
  <2>7. CASE AskLast
    <3>1. UNCHANGED eventsWritten /\ wpc = "askLast" /\ wpc' = "outer"
      BY <1>0, <2>7 DEF AskLast
    <3> QED
      BY <1>0, <1>1, <1>2, <2>1, <2>2, <3>1 DEF LossInv
  <2> QED
    BY <1>3, <2>3, <2>4, <2>5, <2>6, <2>7
<1>4. CASE Dequeue
  <2>1. /\ UNCHANGED <<database, dbBuffer, eventsWritten>> /\ Held = 0 /\ Held' = 1
        /\ wpc = "dequeue" /\ wpc' = "put" /\ Take
    BY <1>4 DEF Dequeue, Held
  <2>2. Len(buffer') = Len(buffer) - 1
    BY <1>0, <2>1, TakeOldest
  <2>3. Lost' = Lost
    BY <1>0, <2>1, <2>2 DEF Lost
  <2> QED
    BY <1>0, <1>1, <1>2, <2>1, <2>3 DEF LossInv
<1>5. CASE Put
  <2>1. /\ UNCHANGED <<database, buffer, eventsWritten>> /\ Held = 1 /\ Held' = 0
        /\ wpc = "put" /\ wpc' = "count" /\ dbBuffer' = Append(dbBuffer, event) /\ event \in Nat
    BY <1>0, <1>5 DEF Put, Held, WriterTypeOK
  <2>2. Len(dbBuffer') = Len(dbBuffer) + 1
    BY <1>0, <2>1, AppendFacts
  <2>3. Lost' = Lost
    <3>1. Lost = produced - Len(buffer) - 1 - Len(dbBuffer) - Len(database)
      BY <2>1 DEF Lost
    <3>2. Lost' = produced - Len(buffer) - 0 - (Len(dbBuffer) + 1) - Len(database)
      BY <2>1, <2>2 DEF Lost
    <3> QED
      BY <1>0, <3>1, <3>2
  <2>4. Lost + 1 <= Len(database') + Len(dbBuffer')
    BY <1>0, <1>2, <2>1, <2>2
  <2> QED
    BY <1>0, <1>1, <2>1, <2>2, <2>3, <2>4 DEF LossInv
<1>6. CASE Flush
  <2>1. buffer' = buffer /\ Held = 0 /\ Held' = 0 /\ wpc = "flush" /\ wpc' = "last"
    BY <1>6 DEF Flush, Held
  <2>2. Len(database') + Len(dbBuffer') = stored
    <3>1. CASE eventsWritten > 0
      <4>1. database' = database \o dbBuffer /\ dbBuffer' = << >>
        BY <1>6, <3>1 DEF Flush, FlushRows
      <4> QED
        BY <1>0, <4>1, ConcatFacts
    <3>2. CASE ~(eventsWritten > 0)
      BY <1>6, <3>2 DEF Flush, FlushRows
    <3> QED
      BY <3>1, <3>2
  <2>3. Len(database') \in Nat /\ Len(dbBuffer') \in Nat
    <3>1. WriterTypeOK'
      BY <1>0, WriterNext
    <3> QED
      BY <3>1 DEF WriterTypeOK
  <2>4. Lost' = Lost
    <3>1. Lost = produced - Len(buffer) - stored
      BY <1>0, <2>1 DEF Lost
    <3>2. Lost' = produced - Len(buffer) - (Len(database') + Len(dbBuffer'))
      BY <1>0, <2>1, <2>3 DEF Lost
    <3> QED
      BY <2>2, <3>1, <3>2
  <2>5. running => eventsWritten > 0
    BY <1>2, <2>1
  <2> HIDE DEF stored
  <2>6. running => Lost + 1 <= stored
    BY <1>2, <2>5
  <2>7. Lost <= stored
    BY <1>2, <2>1
  <2>8. stored \in Nat
    BY <1>0 DEF stored
  <2> QED
    BY <1>0, <1>1, <2>1, <2>2, <2>3, <2>4, <2>6, <2>7, <2>8 DEF LossInv
<1>7. CASE FlushFails \/ PutFails
  <2>1. UNCHANGED <<wpc, eventsWritten, database, dbBuffer, buffer>> /\ Held' = Held
    BY <1>7 DEF FlushFails, PutFails, Held
  <2>2. Lost' = Lost
    BY <2>1 DEF Lost
  <2> QED
    BY <1>1, <2>1, <2>2, LossKept
<1>8. CASE Discard
  <2>1. /\ UNCHANGED <<database, dbBuffer, eventsWritten>> /\ Held = 0 /\ Held' = 0
        /\ wpc = "last" /\ wpc' = "outer" /\ Take
    BY <1>8 DEF Discard, Held
  <2>2. Len(buffer') = Len(buffer) - 1
    BY <1>0, <2>1, TakeOldest
  <2>3. Lost' = Lost + 1
    BY <1>0, <2>1, <2>2 DEF Lost
  <2>4. eventsWritten = 0 /\ Len(dbBuffer) = 0
    BY <2>1 DEF BatchInv
  <2> QED
    BY <1>0, <1>1, <1>2, <2>1, <2>3, <2>4 DEF LossInv
<1> QED
  BY <1>0, <1>3, <1>4, <1>5, <1>6, <1>7, <1>8 DEF WriterStep, Close

\* Every step keeps the loss in bounds.
LEMMA LossNext ==
  TypeOK /\ QueueInv /\ BatchInv /\ CloseInv /\ LossInv /\ [Next]_vars => LossInv'
<1> SUFFICES ASSUME TypeOK, QueueInv, BatchInv, CloseInv, LossInv, [Next]_vars PROVE LossInv'
  OBVIOUS
<1>0. /\ Len(buffer) \in Nat /\ Len(dbBuffer) \in Nat /\ Len(database) \in Nat
      /\ buffer \in Seq(Nat) /\ dbBuffer \in Seq(Nat) /\ database \in Seq(Nat)
      /\ produced \in Nat /\ Held \in 0 .. 1
  BY Lengths
<1>1. CASE Publish
  <2>1. /\ produced' = produced + 1 /\ buffer' = Append(buffer, produced + 1) /\ Held' = Held
        /\ UNCHANGED <<wpc, eventsWritten, dbBuffer, database, running>>
    BY <1>1 DEF Publish, rowVars, contextVars, Held
  <2>2. Len(buffer') = Len(buffer) + 1
    BY <1>0, <2>1, AppendFacts
  <2>3. Lost' = Lost
    BY <1>0, <2>1, <2>2 DEF Lost
  <2> QED
    BY <2>1, <2>3, LossKept
<1>2. CASE WriteStep
  BY <1>2, WriterLossNext DEF WriteStep, builderVars
<1>3. CASE CloseFlushes
  <2>1. /\ database' = database \o dbBuffer /\ dbBuffer' = << >> /\ Held' = Held
        /\ UNCHANGED <<produced, buffer, wpc, eventsWritten, running>>
    BY <1>3 DEF CloseFlushes, builderVars, contextVars, Held
  <2>2. Len(database') = Len(database) + Len(dbBuffer) /\ Len(dbBuffer') = 0
    BY <1>0, <2>1, ConcatFacts
  <2>3. Lost' = Lost
    BY <1>0, <2>1, <2>2 DEF Lost
  <2> QED
    BY <1>0, <2>1, <2>2, <2>3, LossKept
<1>4. CASE ~Publish /\ ~WriteStep /\ ~CloseFlushes
  <2>1. /\ UNCHANGED <<produced, buffer, wpc, dbBuffer, database, eventsWritten>>
        /\ running' \in {running, FALSE}
    BY <1>4, EventsUntouched
  <2>2. Lost' = Lost
    BY <2>1 DEF Lost, Held
  <2> QED
    BY <2>1, <2>2, LossKept
<1> QED
  BY <1>1, <1>2, <1>3, <1>4

\* Every step keeps the inductive invariant.
LEMMA ArchInvNext == ArchInv /\ [Next]_vars => ArchInv'
BY TypeNext, PhaseNext, FlagNext, ThreadNext, CloseNext, OrderNext, CountNext, LossNext
   DEF ArchInv

\* The inductive invariant holds in every reachable state.
LEMMA ArchInvHolds == Spec => []ArchInv
BY ArchInvInit, ArchInvNext, PTL DEF Spec

------------------------------------------------------------------------------
(* The theorems. *)

\* The variables of the main thread, of the writer and of the builder have their
\* types.
THEOREM TypeCorrect == Spec => []TypeOK
BY ArchInvHolds, PTL DEF ArchInv

\* Once a signal has been handled the archiver never counts as running again
\* (orderbook_archiver.cpp: 28-43, 112-115).
THEOREM NoSignalLost == Spec => []SignalKept
BY ArchInvHolds, PTL DEF ArchInv, FlagInv

\* close() and write() meet in the writer's buffer or sender only when an owner
\* calls stop() on an archiver that is still running (orderbook_archiver.cpp: 71,
\* 88; app/archiver/main.cpp: 143-151).
THEOREM RaceOnlyByOwner == Spec => []RaceNeedsDirectStop
BY ArchInvHolds, PTL DEF ArchInv, FlagInv

\* The sender is closed, and write() told to end, only behind the builder's stop()
\* (orderbook_archiver.cpp: 78-93).
THEOREM ClosedAfterBuilder == Spec => []ClosedLast
<1>1. ArchInv => ClosedLast
  BY DEF ArchInv, CloseInv, ClosedLast
<1> QED
  BY <1>1, ArchInvHolds, PTL

\* The members are destroyed in peace only behind a complete stop() that flushed
\* every row (orderbook_archiver.cpp: 17-24).
THEOREM DestroyedClean == Spec => []DestroyedFlushed
<1>1. ArchInv => DestroyedFlushed
  <2> SUFFICES ASSUME ArchInv, main = "destroyed"
               PROVE  /\ writer_thread = "joined" /\ phase = "stopped" /\ sender = "closed"
                      /\ dbBuffer = << >> /\ eventsWritten = 0 /\ ~error
    BY DEF DestroyedFlushed
  <2>1. writer_thread = "joined" /\ phase = "stopped" /\ wpc = "returned"
    BY DEF ArchInv, ThreadInv, PhaseInv
  <2>2. sender = "closed" /\ ~error
    BY <2>1 DEF ArchInv, CloseInv
  <2>3. eventsWritten = 0 /\ dbBuffer = << >>
    BY <2>1 DEF ArchInv, BatchInv
  <2> QED
    BY <2>1, <2>2, <2>3
<1> QED
  BY <1>1, ArchInvHolds, PTL

\* Towards the builder the archiver is the owner Builder describes: it calls
\* start() and stop() at most once and in this order (orderbook_archiver.cpp:
\* 39-47, 71-85).
THEOREM UsesBuilderRight == Spec => UsesBuilder
<1>1. Init => TheBuilder!Init
  BY DEF Init, WriterInit, TheBuilder!Init
<1>2. ArchInv /\ [Next]_vars => [TheBuilder!Next]_(TheBuilder!vars)
  <2> SUFFICES ASSUME ArchInv, [Next]_vars PROVE [TheBuilder!Next]_(TheBuilder!vars)
    OBVIOUS
  <2>0. PhaseInv /\ TypeOK /\ WriterTypeOK /\ BatchInv /\ CloseInv
    BY DEF ArchInv, TypeOK
  <2> USE DEF AtMain, OwnStep, builderVars, ownerVars, historyVars, contextVars, rowVars,
              writerVars, TheBuilder!vars, TheBuilder!Next, TheBuilder!Moves
  <2>1. CASE StartBuilder
    BY <2>0, <2>1 DEF StartBuilder, PhaseInv, TheBuilder!StartCalled, TheBuilder!StartThrows
  <2>2. CASE BuilderStarted
    BY <2>0, <2>2 DEF BuilderStarted, PhaseInv, TheBuilder!Started
  <2>3. CASE StopBuilder
    BY <2>0, <2>3 DEF StopBuilder, PhaseInv, TheBuilder!StopCalled
  <2>4. CASE BuilderStopped
    BY <2>0, <2>4 DEF BuilderStopped, PhaseInv, TheBuilder!Stopped
  <2>5. CASE Publish
    BY <2>5 DEF Publish, TheBuilder!Publish
  <2>6. CASE Rethrow \/ DestroyJoinable \/ BuilderThrows \/ Race
    BY <2>6 DEF Rethrow, DestroyJoinable, BuilderThrows, Race, Terminate, TheBuilder!End
  <2>7. CASE Signal
    BY <2>7 DEF Signal, Terminate, TheBuilder!End
  <2>8. CASE WriteStep
    <3>1. WriterStep /\ UNCHANGED <<phase, produced>>
      BY <2>8 DEF WriteStep
    <3>2. alive /\ alive' \in {alive, FALSE}
      BY <2>0, <3>1, WriterNext
    <3>3. alive' = alive \/ (alive = TRUE /\ alive' = FALSE)
      BY <2>0, <3>2 DEF WriterTypeOK
    <3> QED
      BY <3>1, <3>2, <3>3 DEF TheBuilder!End
  <2>9. CASE \/ SetRunning \/ Register \/ StartWriter \/ StartFailed \/ CheckStarted
             \/ LeaveLoop \/ CallStop \/ EnterStop \/ CloseAsks \/ CloseFails \/ Join
             \/ Destroy \/ DestroyMembers \/ CloseFlushes \/ CloseSender \/ Clear
             \/ UNCHANGED vars
    BY <2>9 DEF SetRunning, Register, StartWriter, StartFailed, CheckStarted, LeaveLoop,
                CallStop, EnterStop, CloseAsks, CloseFails, Join, Destroy, DestroyMembers,
                CloseFlushes, CloseSender, Clear, vars
  <2> QED
    BY <2>1, <2>2, <2>3, <2>4, <2>5, <2>6, <2>7, <2>8, <2>9, Steps
<1> QED
  BY <1>1, <1>2, ArchInvHolds, PTL DEF Spec, UsesBuilder, TheBuilder!Spec

\* However write() and close() interleave, the dequeue in the condition that ends
\* write() (questdb_writer.cpp: 89) loses no more events than are stored or are
\* rows, plus one: also when close() has flushed a batch from another thread.
THEOREM LossAtMostHalf == Spec => []LossBounded
<1>1. ArchInv => LossBounded
  BY DEF ArchInv, LossInv, LossBounded
<1> QED
  BY <1>1, ArchInvHolds, PTL

\* The archiver implements StoredLog: events reach the database in the order they
\* were published, each at most once, in batches of at most batchSize_, whichever
\* of write() and close() flushes them (questdb_writer.cpp: 32-47, 49-93).
THEOREM StoresInOrder == Spec => LogSpec
<1>1. Init => Log!Init
  BY DEF Init, WriterInit, Log!Init
<1>2. ArchInv /\ ArchInv' /\ [Next]_vars => [Log!Next]_(Log!vars)
  <2> SUFFICES ASSUME ArchInv, ArchInv', [Next]_vars PROVE [Log!Next]_(Log!vars)
    OBVIOUS
  <2>0. /\ WriterTypeOK /\ WriterTypeOK' /\ produced \in Nat /\ RowsInv' /\ wpc # "close"
        /\ database \in Seq(Nat) /\ Len(dbBuffer) \in Nat
    BY Lengths DEF ArchInv, TypeOK, CloseInv
  <2>1. ASSUME database' = database \o dbBuffer, UNCHANGED produced, Len(dbBuffer) <= BatchSize
        PROVE  [Log!Next]_(Log!vars)
    <3>1. CASE Len(dbBuffer) = 0
      <4>1. database' = database
        BY <2>0, <2>1, <3>1 DEF WriterTypeOK
      <4> QED
        BY <2>1, <4>1 DEF Log!vars
    <3>2. CASE Len(dbBuffer) # 0
      <4>1. Len(dbBuffer) \in 1 .. BatchSize
        BY <2>0, <2>1, <3>2, BatchSizeAssumption
      <4> QED
        BY <2>0, <2>1, <4>1, FlushStores DEF Log!Next
    <3> QED
      BY <3>1, <3>2
  <2>2. Len(dbBuffer) <= BatchSize
    <3>1. wpc = "count" => eventsWritten < BatchSize
      BY DEF ArchInv, BatchInv
    <3>2. eventsWritten \in 0 .. BatchSize
      BY <2>0 DEF WriterTypeOK
    <3>3. Len(dbBuffer) <= eventsWritten + (IF wpc = "count" THEN 1 ELSE 0)
      BY DEF ArchInv, CountInv
    <3> QED
      BY <2>0, <3>1, <3>2, <3>3, BatchSizeAssumption
  <2>3. CASE Publish
    BY <2>3 DEF Publish, rowVars, Log!Next, Log!Produce
  <2>4. CASE CloseFlushes
    BY <2>1, <2>2, <2>4 DEF CloseFlushes, builderVars
  <2>5. CASE WriteStep
    <3>1. WriterStep /\ UNCHANGED produced
      BY <2>5 DEF WriteStep, builderVars
    <3>2. CASE Flush /\ eventsWritten > 0
      BY <2>1, <2>2, <3>1, <3>2 DEF Flush, FlushRows
    <3>3. CASE \/ Outer \/ Inner \/ Dequeue \/ NotDequeued \/ Ask \/ Put \/ Count
               \/ Flush /\ ~(eventsWritten > 0)
               \/ FlushFails \/ PutFails \/ Discard \/ NothingLeft \/ AskLast
      BY <3>1, <3>3 DEF Outer, Inner, Dequeue, NotDequeued, Ask, Put, Count, Flush, FlushRows,
                        FlushFails, PutFails, Discard, NothingLeft, AskLast, rowVars, Log!vars
    <3> QED
      BY <2>0, <3>1, <3>2, <3>3 DEF WriterStep, Close, At
  <2>6. CASE ~Publish /\ ~WriteStep /\ ~CloseFlushes
    BY <2>6, EventsUntouched DEF Log!vars
  <2> QED
    BY <2>3, <2>4, <2>5, <2>6
<1> QED
  BY <1>1, <1>2, ArchInvHolds, PTL DEF Spec, LogSpec, Log!Spec
=============================================================================
