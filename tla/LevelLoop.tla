------------------------------ MODULE LevelLoop ------------------------------
(***************************************************************************)
(* How a depth event reaches the book: process_update calls apply_update   *)
(* for the bids and then for the asks, and each call walks its price       *)
(* levels one by one, adding to or erasing from the map of its side.       *)
(* build_book then builds a snapshot.  One thread does all this for one    *)
(* symbol, so the book of a symbol is never seen by another thread between *)
(* two levels; what has to be shown is that walking the levels gives the   *)
(* same book as applying the event as a whole.                             *)
(***************************************************************************)
EXTENDS OrderBook, Sequences

CONSTANTS
  Nothing,      \* the thread holds no snapshot
  MaxListed     \* bound: the most levels one event lists

ASSUME MaxListedAssumption == MaxListed \in Nat

VARIABLES
  book,         \* the Orderbook of the symbol
  listed,       \* the levels of the event being applied: bids, then asks
  next,         \* index of the next level the loops visit
  snapshot,     \* the snapshot build_book made of this event, or Nothing
  before,       \* history: the book when the event was begun
  resting       \* history: the <<side, price>> whose last quantity was positive

vars == <<book, listed, next, snapshot, before, resting>>

Listed == [side : Sides, price : Prices, quantity : 0 .. MaxQuantity]

\* The exchange lists a price at most once on a side.  The bids' loop runs
\* before the asks'.
IsEvent(ls) ==
  \A i, j \in DOMAIN ls : i < j =>
    /\ <<ls[i].side, ls[i].price>> # <<ls[j].side, ls[j].price>>
    /\ ls[i].side = "ask" => ls[j].side = "ask"

Events == {ls \in UNION {[1 .. n -> Listed] : n \in 0 .. MaxListed} : IsEvent(ls)}

\* The levels listed before position n, as changes to a book.
ChangesOf(ls, n) ==
  [side \in Sides |->
    [p \in Prices |->
      IF \E i \in DOMAIN ls : i < n /\ ls[i].side = side /\ ls[i].price = p
        THEN ls[CHOOSE i \in DOMAIN ls :
                  i < n /\ ls[i].side = side /\ ls[i].price = p].quantity
        ELSE Absent]]

\* The changes a whole event makes.
EventChanges == {ChangesOf(ls, Len(ls) + 1) : ls \in Events}

Walking == next <= Len(listed)

Init ==
  /\ book = EmptyBook
  /\ listed = << >>
  /\ next = 1
  /\ snapshot = Nothing
  /\ before = EmptyBook
  /\ resting = {}

\* apply_update is entered with the levels of the next event.
Begin ==
  /\ listed = << >>
  /\ \E ls \in Events : listed' = ls
  /\ UNCHANGED <<book, next, snapshot, before, resting>>

\* One iteration of the loop in apply_update: update_price_level (Add) when
\* the quantity is positive, remove_price_level (Remove) otherwise.
Visit ==
  /\ Walking
  /\ LET level == listed[next]
     IN  /\ book' = [book EXCEPT ![level.side] =
                       ApplyLevel(book[level.side], level.price, level.quantity)]
         /\ resting' = IF level.quantity > 0
                         THEN resting \cup {<<level.side, level.price>>}
                         ELSE resting \ {<<level.side, level.price>>}
  /\ next' = next + 1
  /\ UNCHANGED <<listed, snapshot, before>>

\* Slip: the snapshot is built while the levels are still being walked.
SnapshotEarly ==
  /\ listed # << >>
  /\ snapshot = Nothing
  /\ snapshot' = GetLevels(book, Depth)
  /\ UNCHANGED <<book, listed, next, before, resting>>

\* build_book: event.orderbook_snapshot = get_snapshot(symbol, depth_), after
\* process_update has returned.
Snapshot ==
  /\ ~Walking
  /\ listed # << >>
  /\ snapshot = Nothing
  /\ snapshot' = GetLevels(book, Depth)
  /\ UNCHANGED <<book, listed, next, before, resting>>

\* The event is done with: build_book's loop turns to the next one, or
\* init_order_book, which builds no snapshot, returns.
Finish ==
  /\ ~Walking
  /\ listed # << >>
  /\ listed' = << >>
  /\ next' = 1
  /\ snapshot' = Nothing
  /\ before' = book
  /\ UNCHANGED <<book, resting>>

Next == Begin \/ Visit \/ Snapshot \/ Finish

Spec == Init /\ [][Next]_vars

------------------------------------------------------------------------------
TypeOK ==
  /\ book \in Books /\ before \in Books
  /\ resting \subseteq Sides \X Prices
  /\ listed \in Events
  /\ next \in 1 .. Len(listed) + 1
  /\ snapshot \in Books \cup {Nothing}

\* While the levels of an event are being walked, the book is the one before
\* the event with exactly the levels visited so far applied to it: no iteration
\* of apply_update's loop undoes or repeats another one.
WalkedSoFar == book = ApplyUpdate(before, ChangesOf(listed, next))

\* A level is in the book exactly when the last quantity the feed gave for its
\* price was positive: add never loses a level, not even when the int32_t
\* quantity wraps around, remove erases from the right side, and price 0 never
\* enters the book.
PresentIffLastPositive ==
  \A side \in Sides, p \in Prices :
    book[side][p] # Absent <=> p # 0 /\ <<side, p>> \in resting

\* A snapshot built for publication has at most Depth levels on a side and
\* leaves out no level that is better than one it shows (get_levels).
SnapshotShowsBest ==
  snapshot # Nothing =>
    \A side \in Sides :
      LET shown == {p \in Prices : snapshot[side][p] # Absent}
          hidden == {p \in Prices : book[side][p] # Absent} \ shown
      IN  /\ Cardinality(shown) <= Depth
          /\ hidden # {} => Cardinality(shown) = Depth
          /\ \A p \in shown, q \in hidden : Better(side, p, q)

\* A snapshot that has not been handed over yet is one of the book as it is.
SnapshotCurrent == snapshot # Nothing => snapshot = GetLevels(book, Depth)

\* The inductive invariant: what is known between two steps of the loops.
LoopInv ==
  /\ TypeOK
  /\ WalkedSoFar
  /\ SnapshotCurrent
  /\ Walking => snapshot = Nothing
  /\ listed = << >> => next = 1 /\ snapshot = Nothing

\* Refinement: seen from outside the loops, an event is applied in one step
\* and every snapshot shows the book between two events.
Atomic == INSTANCE AtomicBook WITH book <- IF Walking THEN before ELSE book,
                                   Payloads <- EventChanges
AtomicSpec == Atomic!Spec

\* A price level of the event just applied has the quantity the event gave
\* for it, as a snapshot of the order book is documented to show
\* (docs/DATAGRAM_MSG.md: "A full or partial snapshot of the order book").
\* Orderbook::add adds to the quantity of an existing level instead.
LevelHasFeedQuantity ==
  ~Walking =>
    \A i \in DOMAIN listed :
      listed[i].quantity > 0 /\ IsValidPrice(listed[i].price) =>
        book[listed[i].side][listed[i].price] = listed[i].quantity
==============================================================================
