----------------------------- MODULE StoredLog -----------------------------
(***************************************************************************)
(* What the database gets from a pipeline of one producer and one          *)
(* QuestDBWriter: batches of events in the order they were produced, no    *)
(* event twice, no batch larger than asked for.  Events may be missing.    *)
(***************************************************************************)
EXTENDS Integers, Sequences

CONSTANT BatchSize      \* the most events of one batch

VARIABLES
  produced,             \* the number of events produced; they are 1, 2, ...
  database              \* the events stored so far, in the order they were

vars == <<produced, database>>

Increasing(events) ==
  \A i, j \in DOMAIN events : i < j => events[i] < events[j]

Init == produced = 0 /\ database = << >>

Produce == produced' = produced + 1 /\ UNCHANGED database

\* A batch is stored as a whole.
Store ==
  /\ database' \in Seq(1 .. produced)
  /\ Len(database') \in Len(database) + 1 .. Len(database) + BatchSize
  /\ SubSeq(database', 1, Len(database)) = database
  /\ Increasing(database')
  /\ UNCHANGED produced

Next == Produce \/ Store

Spec == Init /\ [][Next]_vars
=============================================================================
