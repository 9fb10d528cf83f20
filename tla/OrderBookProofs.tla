--------------------------- MODULE OrderBookProofs ---------------------------
(***************************************************************************)
(* Lemmas about OrderBook's operators, for every set of prices and every   *)
(* width of a quantity: they take books to books, and what they do at each *)
(* price; and what get_levels leaves of a side of every depth.             *)
(***************************************************************************)
EXTENDS OrderBook, FiniteSetTheorems, TLAPS

\* The sum of an existing quantity and a volume, wrapped, is a quantity again.
LEMMA WrapInRange ==
  ASSUME NEW n \in Int
  PROVE  Wrap(n) \in Quantities
<1> DEFINE w == 2 * (MaxQuantity + 1)
<1>1. w \in Nat /\ w > 0
  BY MaxQuantityAssumption
<1>2. (n + MaxQuantity + 1) % w \in 0 .. w - 1
  BY <1>1, MaxQuantityAssumption
<1> QED
  BY <1>2, MaxQuantityAssumption DEF Wrap, Quantities

\* Adding a volume to a level, or to none, leaves a level with a quantity.
LEMMA AddedToPresent ==
  ASSUME NEW level \in Quantities \cup {Absent}, NEW volume \in 0 .. MaxQuantity
  PROVE  AddedTo(level, volume) \in Quantities /\ AddedTo(level, volume) # Absent
<1>1. Quantities \subseteq Int
  BY MaxQuantityAssumption DEF Quantities
<1>2. CASE level = Absent
  BY <1>2, <1>1, AbsentAssumption, MaxQuantityAssumption DEF AddedTo, Quantities
<1>3. CASE level # Absent
  <2>1. level + volume \in Int
    BY <1>1, <1>3, MaxQuantityAssumption
  <2> QED
    BY <2>1, <1>1, <1>3, WrapInRange, AbsentAssumption DEF AddedTo
<1> QED
  BY <1>2, <1>3

\* The book a symbol starts with is a book.
LEMMA EmptyBookIsBook == EmptyBook \in Books
BY DEF EmptyBook, Books, Levels

\* What one iteration does to the level at each price of its side.
LEMMA ApplyLevelAt ==
  ASSUME NEW levels \in Levels, NEW p \in Prices, NEW quantity \in 0 .. MaxQuantity
  PROVE  /\ ApplyLevel(levels, p, quantity) \in Levels
         /\ \A q \in Prices :
              ApplyLevel(levels, p, quantity)[q] =
                IF q # p \/ ~IsValidPrice(p) THEN levels[q]
                ELSE IF quantity > 0 THEN AddedTo(levels[q], quantity)
                ELSE Absent
<1>1. levels[p] \in Quantities \cup {Absent}
  BY DEF Levels
<1>2. AddedTo(levels[p], quantity) \in Quantities \cup {Absent}
  BY <1>1, AddedToPresent
<1>3. CASE ~IsValidPrice(p)
  BY <1>3 DEF ApplyLevel, Add, Remove
<1>4. CASE IsValidPrice(p) /\ quantity > 0
  <2>1. ApplyLevel(levels, p, quantity) = [levels EXCEPT ![p] = AddedTo(levels[p], quantity)]
    BY <1>4 DEF ApplyLevel, Add
  <2> HIDE DEF AddedTo
  <2> QED
    BY <2>1, <1>2, <1>4 DEF Levels
<1>5. CASE IsValidPrice(p) /\ ~(quantity > 0)
  BY <1>5 DEF ApplyLevel, Remove, Levels
<1> QED
  BY <1>3, <1>4, <1>5

\* A book with one side replaced by levels is a book.
LEMMA SideReplaced ==
  ASSUME NEW b \in Books, NEW side \in Sides, NEW levels \in Levels
  PROVE  [b EXCEPT ![side] = levels] \in Books
BY DEF Books

\* A snapshot has the shape of a book.
LEMMA GetLevelsIsBook ==
  ASSUME NEW b \in Books, NEW depth
  PROVE  GetLevels(b, depth) \in Books
BY DEF GetLevels, Books, Levels

\* Applying an event to a book gives a book.
LEMMA ApplyUpdateIsBook ==
  ASSUME NEW b \in Books, NEW c \in Changes
  PROVE  ApplyUpdate(b, c) \in Books
<1>1. ASSUME NEW side \in Sides, NEW p \in Prices
      PROVE  ApplyUpdate(b, c)[side][p] \in Quantities \cup {Absent}
  <2>1. /\ b[side][p] \in Quantities \cup {Absent}
        /\ c[side][p] \in 0 .. MaxQuantity \cup {Absent}
    BY DEF Books, Levels, Changes
  <2>2. c[side][p] # Absent =>
          AddedTo(b[side][p], c[side][p]) \in Quantities
    BY <2>1, AddedToPresent
  <2>3. ApplyUpdate(b, c)[side][p] =
          IF c[side][p] = Absent \/ ~IsValidPrice(p) THEN b[side][p]
          ELSE IF c[side][p] > 0 THEN AddedTo(b[side][p], c[side][p]) ELSE Absent
    BY DEF ApplyUpdate
  <2> QED
    BY <2>1, <2>2, <2>3
<1>2. ApplyUpdate(b, c) =
        [side \in Sides |-> [p \in Prices |-> ApplyUpdate(b, c)[side][p]]]
  BY DEF ApplyUpdate
<1> QED
  BY <1>1, <1>2 DEF Books, Levels
------------------------------------------------------------------------------
(* The levels a snapshot shows. *)

\* Both comparators order the prices, one the other way round.
LEMMA BetterIsOrder ==
  ASSUME NEW side \in Sides, NEW p \in Int, NEW q \in Int, NEW r \in Int
  PROVE  /\ ~Better(side, p, p)
         /\ p # q => Better(side, p, q) \/ Better(side, q, p)
         /\ ~(Better(side, p, q) /\ Better(side, q, p))
         /\ Better(side, p, q) /\ Better(side, q, r) => Better(side, p, r)
         /\ \A other \in Sides \ {side} : Better(other, p, q) = Better(side, q, p)
BY DEF Better, Sides

\* A finite set of prices has a best one on either side.
LEMMA BestPrice ==
  ASSUME NEW S \in SUBSET Int, IsFiniteSet(S), S # {}, NEW side \in Sides
  PROVE  \E p \in S : \A q \in S \ {p} : Better(side, p, q)
<1> DEFINE ahead(p) == {q \in S : Better(side, q, p)}
           heads == {ahead(p) : p \in S}
<1>1. heads \subseteq FiniteSubsetsOf(S) /\ heads # {}
  <2>1. ASSUME NEW p \in S PROVE ahead(p) \in FiniteSubsetsOf(S)
    <3>1. ahead(p) \in SUBSET S
      OBVIOUS
    <3>2. IsFiniteSet(ahead(p))
      BY <3>1, FS_Subset
    <3> QED
      BY <3>1, <3>2 DEF FiniteSubsetsOf
  <2> QED
    BY <2>1
<1>2. IsWellFoundedOn(StrictSubsetOrdering(S), FiniteSubsetsOf(S))
  BY FS_StrictSubsetOrderingWellFounded
<1>3. PICK h \in heads : \A g \in heads : ~(<<g, h>> \in StrictSubsetOrdering(S))
  <2> HIDE DEF heads
  <2> QED
    BY <1>1, <1>2, WFMin
<1>4. PICK p \in S : h = ahead(p)
  BY <1>3
<1>5. ASSUME NEW q \in S, Better(side, q, p) PROVE FALSE
  <2>1. ahead(q) \subseteq ahead(p)
    BY <1>5, BetterIsOrder
  <2>2. q \in ahead(p) /\ q \notin ahead(q)
    BY <1>5, BetterIsOrder
  <2>3. <<ahead(q), ahead(p)>> \in StrictSubsetOrdering(S)
    BY <2>1, <2>2 DEF StrictSubsetOrdering
  <2> QED
    BY <1>3, <1>4, <2>3
<1>6. ASSUME NEW q \in S \ {p} PROVE Better(side, p, q)
  BY <1>5, BetterIsOrder
<1> QED
  BY <1>6

\* The levels that come before a price are finitely many.
LEMMA AheadFinite ==
  ASSUME NEW b, NEW side, NEW p
  PROVE  IsFiniteSet(Ahead(b, side, p)) /\ Cardinality(Ahead(b, side, p)) \in Nat
BY PricesAssumption, FS_Subset, FS_CardinalityType DEF Ahead

\* What get_levels leaves of a side: at most depth levels; depth of them when it
\* leaves any out; and none that is left out is better than one that is not.
LEMMA GetLevelsShowsBest ==
  ASSUME NEW b \in Books, NEW side \in Sides, NEW depth \in Nat
  PROVE  LET shown == {p \in Prices : GetLevels(b, depth)[side][p] # Absent}
             hidden == {p \in Prices : b[side][p] # Absent} \ shown
         IN  /\ Cardinality(shown) <= depth
             /\ hidden # {} => Cardinality(shown) = depth
             /\ \A p \in shown, q \in hidden : Better(side, p, q)
<1> DEFINE shown == {p \in Prices : GetLevels(b, depth)[side][p] # Absent}
           hidden == {p \in Prices : b[side][p] # Absent} \ shown
           ahead(p) == Ahead(b, side, p)
<1>1. \A p \in Prices : p \in shown <=> b[side][p] # Absent /\ Cardinality(ahead(p)) < depth
  BY DEF GetLevels
<1>2. \A p \in hidden : b[side][p] # Absent /\ ~(Cardinality(ahead(p)) < depth)
  BY <1>1
<1>3. /\ shown \in SUBSET Int /\ hidden \in SUBSET Int
      /\ IsFiniteSet(shown) /\ IsFiniteSet(hidden) /\ Cardinality(shown) \in Nat
  BY PricesAssumption, FS_Subset, FS_CardinalityType
<1>4. \A p, q \in Prices : q \in ahead(p) <=> b[side][q] # Absent /\ Better(side, q, p)
  BY DEF Ahead
<1>5. \A p \in Prices : /\ ahead(p) \subseteq Prices /\ IsFiniteSet(ahead(p))
                        /\ Cardinality(ahead(p)) \in Nat
  BY AheadFinite DEF Ahead
<1> HIDE DEF shown, ahead
<1>6. shown \subseteq Prices /\ hidden \subseteq Prices /\ Prices \subseteq Int
  BY PricesAssumption DEF shown
<1>7. ASSUME NEW p \in shown, NEW q \in hidden PROVE Better(side, p, q)
  <2>0. p \in Prices /\ q \in Prices /\ p # q /\ p \in Int /\ q \in Int
    BY <1>6
  <2> SUFFICES ASSUME Better(side, q, p) PROVE FALSE
    BY <2>0, BetterIsOrder
  <2>1. ASSUME NEW o \in ahead(q) PROVE o \in ahead(p)
    <3>1. o \in Prices /\ b[side][o] # Absent /\ Better(side, o, q)
      BY <1>4, <1>5, <2>0
    <3>2. Better(side, o, p)
      BY <1>6, <2>0, <3>1, BetterIsOrder
    <3> QED
      BY <1>4, <2>0, <3>1, <3>2
  <2>2. Cardinality(ahead(q)) <= Cardinality(ahead(p))
    BY <1>5, <1>6, <2>1, FS_Subset
  <2> QED
    BY <1>1, <1>2, <1>5, <1>6, <2>2
<1>8. Cardinality(shown) <= depth
  <2>1. CASE shown = {}
    BY <2>1, FS_EmptySet
  <2>2. CASE shown # {}
    <3>1. PICK w \in shown : \A q \in shown \ {w} : Better(side, q, w)
      <4>1. PICK other \in Sides : other # side
        BY DEF Sides
      <4>2. PICK w \in shown : \A q \in shown \ {w} : Better(other, w, q)
        BY <1>3, <2>2, BestPrice
      <4> QED
        BY <1>6, <4>1, <4>2, BetterIsOrder
    <3>2. shown \subseteq ahead(w) \cup {w}
      BY <1>1, <1>4, <1>6, <3>1
    <3>3. Cardinality(ahead(w)) \in Nat /\ Cardinality(ahead(w)) < depth
      BY <1>1, <1>5, <1>6
    <3>4. /\ IsFiniteSet(ahead(w) \cup {w})
          /\ Cardinality(ahead(w) \cup {w}) <= Cardinality(ahead(w)) + 1
          /\ Cardinality(ahead(w) \cup {w}) \in Nat
      <4>1. IsFiniteSet(ahead(w))
        BY <1>5, <1>6
      <4>2. /\ IsFiniteSet(ahead(w) \cup {w})
            /\ Cardinality(ahead(w) \cup {w}) =
                 IF w \in ahead(w) THEN Cardinality(ahead(w)) ELSE Cardinality(ahead(w)) + 1
        BY <4>1, FS_AddElement
      <4> QED
        BY <3>3, <4>2
    <3>5. Cardinality(shown) <= Cardinality(ahead(w) \cup {w})
      BY <3>2, <3>4, FS_Subset
    <3> QED
      BY <1>3, <3>3, <3>4, <3>5
  <2> QED
    BY <2>1, <2>2
<1>9. ASSUME hidden # {} PROVE Cardinality(shown) >= depth
  <2>1. PICK h \in hidden : \A q \in hidden \ {h} : Better(side, h, q)
    BY <1>3, <1>9, BestPrice
  <2>2. ahead(h) \subseteq shown
    <3> SUFFICES ASSUME NEW q \in ahead(h), q \notin shown PROVE FALSE
      OBVIOUS
    <3>1. q \in Prices /\ b[side][q] # Absent /\ Better(side, q, h)
      BY <1>4, <1>5, <1>6
    <3>2. q \in hidden
      BY <3>1
    <3> QED
      BY <1>6, <2>1, <3>1, <3>2, BetterIsOrder
  <2>3. Cardinality(ahead(h)) <= Cardinality(shown)
    BY <1>3, <2>2, FS_Subset
  <2>4. Cardinality(ahead(h)) \in Nat /\ ~(Cardinality(ahead(h)) < depth)
    BY <1>2, <1>5, <1>6
  <2> QED
    BY <1>3, <2>3, <2>4
<1>10. hidden # {} => Cardinality(shown) = depth
  BY <1>3, <1>8, <1>9
<1> QED
  BY <1>7, <1>8, <1>10 DEF shown
==============================================================================
