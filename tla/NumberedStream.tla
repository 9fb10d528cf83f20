--------------------------- MODULE NumberedStream ---------------------------
(***************************************************************************)
(* What a receiver of the publisher's datagrams may rely on                *)
(* (docs/DATAGRAM_MSG.md): events are offered to the network one after the *)
(* other, those of a symbol in the order of their production, the n-th     *)
(* with the sequence id n, each in a datagram of its own.  The network may *)
(* lose a datagram.  A receiver that has ids i and j knows how many events *)
(* it missed between them, and in which order to put what it has.          *)
(***************************************************************************)
EXTENDS Integers, Sequences

CONSTANT Symbols

VARIABLES
  offered,        \* the events offered so far
  wire            \* the datagrams the network has taken

vars == <<offered, wire>>

Init == offered = << >> /\ wire = {}

\* Events of one symbol are in order.
Increasing(events) ==
  \A i, j \in DOMAIN events :
    i < j /\ events[i].symbol = events[j].symbol => events[i].number < events[j].number

\* The datagram of the event that was offered last.
Datagram(events) ==
  << [sequence_id |-> Len(events), payload |-> events[Len(events)]] >>

\* The next event, later than all of its symbol before, with the next number.
Offer ==
  /\ offered' \in Seq([symbol : Symbols, number : Nat])
  /\ Len(offered') = Len(offered) + 1
  /\ SubSeq(offered', 1, Len(offered)) = offered
  /\ Increasing(offered')
  /\ wire' \in {wire, wire \cup {Datagram(offered')}}

Spec == Init /\ [][Offer]_vars
=============================================================================
