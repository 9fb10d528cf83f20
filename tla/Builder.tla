------------------------------- MODULE Builder -------------------------------
(***************************************************************************)
(* What the owner of a BinanceFuturesBookBuilder and the consumer of its   *)
(* event queue may rely on: start() and stop() each run through once, in   *)
(* this order, and events are published only between the return of start() *)
(* and the return of stop().  Nothing is promised about start() or stop()  *)
(* ever returning, and the process may end at any time: an exception that  *)
(* leaves a thread of the builder ends it.                                 *)
(***************************************************************************)
EXTENDS Naturals

VARIABLES
  alive,        \* FALSE once the process has ended
  phase,        \* how far the builder is
  published     \* how many events it has put on the queue

vars == <<alive, phase, published>>

Init == alive = TRUE /\ phase = "new" /\ published = 0

\* The builder goes from one phase to another.
Moves(from, to) ==
  /\ alive
  /\ phase = from
  /\ phase' = to
  /\ UNCHANGED <<alive, published>>

StartCalled == Moves("new", "starting")
StartThrows == Moves("new", "threw")
Started == Moves("starting", "running")
StopCalled == Moves("running", "stopping")
Stopped == Moves("stopping", "stopped")

\* The threads publish until stop() has joined them.
Publish ==
  /\ alive
  /\ phase \in {"running", "stopping"}
  /\ published' = published + 1
  /\ UNCHANGED <<alive, phase>>

\* std::terminate, whoever calls it.
End ==
  /\ alive
  /\ alive' = FALSE
  /\ UNCHANGED <<phase, published>>

Next == StartCalled \/ StartThrows \/ Started \/ StopCalled \/ Stopped \/ Publish \/ End

Spec == Init /\ [][Next]_vars
=============================================================================
