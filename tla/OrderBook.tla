------------------------------ MODULE OrderBook ------------------------------
(***************************************************************************)
(* The data of one symbol's order book and the operations on it:           *)
(* common::models::Orderbook (include/common/models/orderbook.h), reached  *)
(* through MultiSymbolOrderbook, and the two places that use them,         *)
(* BinanceFuturesOrderbook::apply_update and                               *)
(* BinanceOrderbook::get_snapshot.  No variables: the state machines that  *)
(* keep a book in their state extend this module.                          *)
(*                                                                         *)
(* Operators introduced by "Slip:" are wrong on purpose: each is a         *)
(* plausible mistake in the definition that follows it, and shows that     *)
(* some property would notice it.                                          *)
(*                                                                         *)
(* A side of the book is a std::map from price to level.  It is written    *)
(* here as a total function that is Absent where the map has no key.       *)
(***************************************************************************)
EXTENDS Integers, FiniteSets

CONSTANTS
  Prices,       \* the prices that can occur, in ticks (int32_t in the code)
  MaxQuantity,  \* the largest int32_t: 2^31 - 1 in the code
  Absent,       \* "this side has no level at this price"
  Depth         \* how many levels of a side a snapshot shows

ASSUME PricesAssumption == Prices \subseteq Int /\ IsFiniteSet(Prices)
ASSUME MaxQuantityAssumption == MaxQuantity \in Nat
ASSUME AbsentAssumption == Absent \notin Int
ASSUME DepthAssumption == Depth \in Nat

Sides == {"bid", "ask"}
Quantities == -(MaxQuantity + 1) .. MaxQuantity

\* The levels of one side, and the book of one symbol.
Levels == [Prices -> Quantities \cup {Absent}]
Books == [Sides -> Levels]

\* The levels an event lists (its b and a arrays); Absent means "not listed".
Changes == [Sides -> [Prices -> 0 .. MaxQuantity \cup {Absent}]]

EmptyBook == [side \in Sides |-> [p \in Prices |-> Absent]]

\* int32_t arithmetic that wraps around (signed overflow, as compiled).
Wrap(n) == ((n + MaxQuantity + 1) % (2 * (MaxQuantity + 1))) - (MaxQuantity + 1)

\* Slip: >= instead of >.
AcceptsZero(p) == p >= 0

\* The parameter is a uint32_t: only price 0 is refused, a negative price
\* converts to a large positive one.
IsValidPrice(p) == p # 0

\* Slip: the sum is taken to fit.
AddedToUnbounded(level, volume) == IF level = Absent THEN volume ELSE level + volume

\* What a level becomes when volume is added to it: a new level has that
\* volume, an existing one has it added to its quantity.
AddedTo(level, volume) == IF level = Absent THEN volume ELSE Wrap(level + volume)

\* Add and Remove: an unusable price or volume changes nothing.
Add(levels, p, volume) ==
  IF IsValidPrice(p) /\ volume > 0
    THEN [levels EXCEPT ![p] = AddedTo(levels[p], volume)]
    ELSE levels

Remove(levels, p) ==
  IF IsValidPrice(p) THEN [levels EXCEPT ![p] = Absent] ELSE levels

\* Slip: a quantity of zero is taken for an update.
ApplyLevelZero(levels, p, quantity) ==
  IF quantity >= 0 THEN Add(levels, p, quantity) ELSE Remove(levels, p)

\* One iteration of apply_update's loop.
ApplyLevel(levels, p, quantity) ==
  IF quantity > 0 THEN Add(levels, p, quantity) ELSE Remove(levels, p)

\* Both apply_update calls of one event (bids, then asks) as one step: a
\* listed level is added or removed, every other one is left alone.  The loops
\* themselves are LevelLoop's, which is shown to implement this.
ApplyUpdate(book, changes) ==
  [side \in Sides |->
    [p \in Prices |->
      LET quantity == changes[side][p]
      IN  IF quantity = Absent \/ ~IsValidPrice(p) THEN book[side][p]
          ELSE IF quantity > 0 THEN AddedTo(book[side][p], quantity)
          ELSE Absent]]

\* BidComparator and AskComparator: the order of the two maps.
Better(side, p, q) == IF side = "bid" THEN p > q ELSE p < q

\* The prices that come before p in the map of this side.
Ahead(book, side, p) ==
  {q \in Prices : book[side][q] # Absent /\ Better(side, q, p)}

\* Slip: count > depth instead of count >= depth.
GetLevelsOneMore(book, depth) ==
  [side \in Sides |->
    [p \in Prices |->
      IF Cardinality(Ahead(book, side, p)) <= depth THEN book[side][p] ELSE Absent]]

\* get_levels: the first depth levels of each side, best price first.
GetLevels(book, depth) ==
  [side \in Sides |->
    [p \in Prices |->
      IF Cardinality(Ahead(book, side, p)) < depth THEN book[side][p] ELSE Absent]]
==============================================================================
