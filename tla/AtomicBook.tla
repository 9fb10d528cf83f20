----------------------------- MODULE AtomicBook -----------------------------
(***************************************************************************)
(* What a reader of one symbol's book may rely on: the book goes from the  *)
(* state after one depth event to the state after the next in one step,    *)
(* and a published snapshot shows the top of a book in such a state, never *)
(* one with only part of an event's levels applied.                        *)
(***************************************************************************)
EXTENDS OrderBook

CONSTANTS
  Payloads,     \* the changes a depth event may carry
  Nothing       \* no snapshot has been built since the last event

VARIABLES
  book,         \* the book of the symbol
  snapshot      \* the snapshot built from it for publication, or Nothing

vars == <<book, snapshot>>

Init == book = EmptyBook /\ snapshot = Nothing

\* A depth event is applied: bids and asks, all levels at once.
Update ==
  /\ \E changes \in Payloads : book' = ApplyUpdate(book, changes)
  /\ snapshot' = Nothing

\* get_snapshot builds what will be published.
Snapshot ==
  /\ snapshot' = GetLevels(book, Depth)
  /\ UNCHANGED book

\* The snapshot has been handed over; the thread turns to the next event.
Forget == snapshot' = Nothing /\ UNCHANGED book

Next == Update \/ Snapshot \/ Forget

Spec == Init /\ [][Next]_vars
==============================================================================
