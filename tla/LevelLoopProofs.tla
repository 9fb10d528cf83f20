--------------------------- MODULE LevelLoopProofs ---------------------------
(***************************************************************************)
(* Proofs about LevelLoop, for every set of prices, every width of a       *)
(* quantity, every depth and every length of an event: that a level is in  *)
(* the book exactly when its last quantity was positive, and that the      *)
(* loops implement AtomicBook.                                             *)
(***************************************************************************)
EXTENDS LevelLoop, OrderBookProofs

\* The levels of an event are listed levels.
LEMMA EventIsSequence ==
  ASSUME NEW ls \in Events
  PROVE  /\ Len(ls) \in Nat
         /\ DOMAIN ls = 1 .. Len(ls)
         /\ \A i \in 1 .. Len(ls) : ls[i] \in Listed
         /\ IsEvent(ls)
<1>1. PICK n \in 0 .. MaxListed : ls \in [1 .. n -> Listed]
  BY DEF Events
<1>2. n \in Nat
  BY MaxListedAssumption
<1>3. Len(ls) = n
  BY <1>1, <1>2
<1> QED
  BY <1>1, <1>2, <1>3 DEF Events

------------------------------------------------------------------------------
\* An event lists a price of a side at most once, so position i decides what
\* ChangesOf says about it, and a price not listed before n is not changed.
LEMMA ChangesAt ==
  ASSUME NEW ls \in Events, NEW n \in Nat, NEW side \in Sides, NEW p \in Prices
  PROVE  /\ \A i \in 1 .. Len(ls) :
              i < n /\ ls[i].side = side /\ ls[i].price = p =>
                ChangesOf(ls, n)[side][p] = ls[i].quantity
         /\ (\A i \in 1 .. Len(ls) : ~(i < n /\ ls[i].side = side /\ ls[i].price = p)) =>
                ChangesOf(ls, n)[side][p] = Absent
<1> DEFINE here(i) == i < n /\ ls[i].side = side /\ ls[i].price = p
           pick == CHOOSE i \in DOMAIN ls : here(i)
<1>1. Len(ls) \in Nat /\ DOMAIN ls = 1 .. Len(ls) /\ IsEvent(ls)
  BY EventIsSequence
<1>2. ChangesOf(ls, n)[side][p] =
        IF \E i \in DOMAIN ls : here(i) THEN ls[pick].quantity ELSE Absent
  BY DEF ChangesOf
<1>3. ASSUME NEW i \in 1 .. Len(ls), here(i)
      PROVE  ChangesOf(ls, n)[side][p] = ls[i].quantity
  <2>1. pick \in DOMAIN ls /\ here(pick)
    BY <1>1, <1>3
  <2>2. pick = i
    <3> HIDE DEF pick
    <3> QED
      BY <1>1, <1>3, <2>1 DEF IsEvent
  <2> QED
    BY <1>1, <1>2, <1>3, <2>2
<1> HIDE DEF pick
<1>4. ASSUME \A i \in 1 .. Len(ls) : ~here(i)
      PROVE  ChangesOf(ls, n)[side][p] = Absent
  BY <1>1, <1>2, <1>4
<1> QED
  BY <1>3, <1>4

\* Nothing is listed before the first position.
LEMMA NothingYet ==
  ASSUME NEW ls \in Events, NEW b \in Books
  PROVE  ApplyUpdate(b, ChangesOf(ls, 1)) = b
<1>1. ASSUME NEW side \in Sides, NEW p \in Prices
      PROVE  ChangesOf(ls, 1)[side][p] = Absent
  <2>1. Len(ls) \in Nat
    BY EventIsSequence
  <2> QED
    BY <2>1, ChangesAt
<1>2. ApplyUpdate(b, ChangesOf(ls, 1)) =
        [side \in Sides |-> [p \in Prices |-> b[side][p]]]
  BY <1>1 DEF ApplyUpdate
<1> QED
  BY <1>2 DEF Books, Levels

\* Moving past position n adds the level listed there and nothing else.
LEMMA ChangesStep ==
  ASSUME NEW ls \in Events, NEW n \in 1 .. Len(ls),
         NEW side \in Sides, NEW p \in Prices
  PROVE  LET here == ls[n].side = side /\ ls[n].price = p
         IN  /\ here => /\ ChangesOf(ls, n + 1)[side][p] = ls[n].quantity
                        /\ ChangesOf(ls, n)[side][p] = Absent
             /\ ~here => ChangesOf(ls, n + 1)[side][p] = ChangesOf(ls, n)[side][p]
<1> DEFINE here(i) == ls[i].side = side /\ ls[i].price = p
<1>1. Len(ls) \in Nat /\ DOMAIN ls = 1 .. Len(ls) /\ IsEvent(ls)
  BY EventIsSequence
<1>2. n \in Nat /\ n + 1 \in Nat
  BY <1>1
<1>3. CASE here(n)
  <2>1. \A i \in 1 .. Len(ls) : ~(i < n /\ here(i))
    BY <1>1, <1>3 DEF IsEvent
  <2> QED
    BY <1>1, <1>2, <1>3, <2>1, ChangesAt
<1>4. CASE ~here(n)
  <2>1. CASE \E i \in 1 .. Len(ls) : i < n /\ here(i)
    <3>1. PICK i \in 1 .. Len(ls) : i < n /\ here(i)
      BY <2>1
    <3>2. i < n + 1
      BY <1>2, <3>1
    <3> QED
      BY <1>2, <1>4, <3>1, <3>2, ChangesAt
  <2>2. CASE \A i \in 1 .. Len(ls) : ~(i < n /\ here(i))
    <3>1. \A i \in 1 .. Len(ls) : ~(i < n + 1 /\ here(i))
      BY <1>1, <1>2, <1>4, <2>2
    <3> QED
      BY <1>2, <1>4, <2>2, <3>1, ChangesAt
  <2> QED
    BY <2>1, <2>2
<1> QED
  BY <1>3, <1>4

\* One iteration of the loop takes the book with the levels before n applied to
\* the book with the levels before n + 1 applied.
LEMMA IterationApplies ==
  ASSUME NEW ls \in Events, NEW n \in 1 .. Len(ls), NEW b \in Books,
         NEW done \in Books, done = ApplyUpdate(b, ChangesOf(ls, n))
  PROVE  [done EXCEPT ![ls[n].side] =
            ApplyLevel(done[ls[n].side], ls[n].price, ls[n].quantity)]
         = ApplyUpdate(b, ChangesOf(ls, n + 1))
<1> DEFINE level == ls[n]
           c == ChangesOf(ls, n)
           d == ChangesOf(ls, n + 1)
           walked == ApplyLevel(done[level.side], level.price, level.quantity)
           result == [done EXCEPT ![level.side] = walked]
<1>1. level \in Listed
  BY EventIsSequence
<1>2. /\ level.side \in Sides /\ level.price \in Prices
      /\ level.quantity \in 0 .. MaxQuantity /\ done[level.side] \in Levels
  BY <1>1 DEF Listed, Books
<1>3. walked \in Levels /\ result \in Books
  BY <1>2, ApplyLevelAt, SideReplaced
<1>4. ASSUME NEW side \in Sides, NEW p \in Prices
      PROVE  result[side][p] = ApplyUpdate(b, d)[side][p]
  <2>1. /\ ApplyUpdate(b, c)[side][p] =
             IF c[side][p] = Absent \/ ~IsValidPrice(p) THEN b[side][p]
             ELSE IF c[side][p] > 0 THEN AddedTo(b[side][p], c[side][p]) ELSE Absent
        /\ ApplyUpdate(b, d)[side][p] =
             IF d[side][p] = Absent \/ ~IsValidPrice(p) THEN b[side][p]
             ELSE IF d[side][p] > 0 THEN AddedTo(b[side][p], d[side][p]) ELSE Absent
    BY DEF ApplyUpdate
  <2>2. CASE level.side = side /\ level.price = p
    <3>1. d[side][p] = level.quantity /\ c[side][p] = Absent
      BY <2>2, ChangesStep
    <3>2. result[side] = walked
      BY <1>2, <2>2 DEF Books
    <3>3. level.quantity # Absent
      BY <1>2, AbsentAssumption
    <3>4. walked[p] = IF ~IsValidPrice(p) THEN done[side][p]
                      ELSE IF level.quantity > 0 THEN AddedTo(done[side][p], level.quantity)
                      ELSE Absent
      BY <1>2, <2>2, ApplyLevelAt
    <3>5. done[side][p] = b[side][p]
      BY <2>1, <3>1
    <3> QED
      BY <2>1, <3>1, <3>2, <3>3, <3>4, <3>5
  <2>3. CASE ~(level.side = side /\ level.price = p)
    <3>1. d[side][p] = c[side][p]
      BY <2>3, ChangesStep
    <3>2. result[side][p] = done[side][p]
      <4>1. CASE level.side # side
        BY <4>1, <1>2 DEF Books
      <4>2. CASE level.side = side
        <5>1. result[side] = walked
          BY <1>2, <4>2 DEF Books
        <5>2. walked[p] = done[side][p]
          BY <1>2, <2>3, <4>2, ApplyLevelAt
        <5> QED
          BY <5>1, <5>2
      <4> QED
        BY <4>1, <4>2
    <3> QED
      BY <2>1, <3>1, <3>2
  <2> QED
    BY <2>2, <2>3
<1>5. ApplyUpdate(b, d) =
        [side \in Sides |-> [p \in Prices |-> ApplyUpdate(b, d)[side][p]]]
  BY DEF ApplyUpdate
<1>6. result = [side \in Sides |-> [p \in Prices |-> result[side][p]]]
  BY <1>3 DEF Books, Levels
<1> QED
  BY <1>4, <1>5, <1>6

------------------------------------------------------------------------------
\* LoopInv holds initially: no event is at hand and the book is empty.
LEMMA LoopInvInit == Init => LoopInv
<1> SUFFICES ASSUME Init PROVE LoopInv
  OBVIOUS
<1>1. << >> \in Events
  <2>1. << >> \in [1 .. 0 -> Listed]
    OBVIOUS
  <2>2. 0 \in 0 .. MaxListed
    BY MaxListedAssumption
  <2>3. IsEvent(<< >>)
    BY DEF IsEvent
  <2> QED
    BY <2>1, <2>2, <2>3 DEF Events
<1>2. TypeOK
  BY <1>1, EmptyBookIsBook DEF Init, TypeOK
<1>3. WalkedSoFar
  BY <1>1, EmptyBookIsBook, NothingYet DEF Init, WalkedSoFar
<1> QED
  BY <1>2, <1>3 DEF Init, LoopInv, Walking, SnapshotCurrent

\* LoopInv is preserved by every step.
LEMMA LoopInvNext == LoopInv /\ [Next]_vars => LoopInv'
<1> SUFFICES ASSUME LoopInv, [Next]_vars PROVE LoopInv'
  OBVIOUS
<1> USE DEF LoopInv
<1>0. /\ Len(listed) \in Nat /\ listed \in Events /\ next \in 1 .. Len(listed) + 1
      /\ book \in Books /\ before \in Books
  BY EventIsSequence DEF TypeOK
<1>1. CASE Begin
  <2>1. PICK ls \in Events : listed' = ls
    BY <1>1 DEF Begin
  <2>2. listed = << >> /\ next = 1 /\ snapshot = Nothing
    BY <1>1 DEF Begin
  <2>3. Len(listed') \in Nat
    BY <2>1, EventIsSequence
  <2>4. TypeOK'
    BY <1>1, <2>1, <2>2, <2>3 DEF Begin, TypeOK
  <2>5. WalkedSoFar'
    <3>1. book = ApplyUpdate(before, ChangesOf(listed, 1))
      BY <2>2 DEF WalkedSoFar
    <3>2. book = before
      BY <1>0, <3>1, NothingYet
    <3>3. ApplyUpdate(before, ChangesOf(ls, 1)) = before
      BY <1>0, NothingYet
    <3> QED
      BY <1>1, <2>1, <2>2, <3>2, <3>3 DEF Begin, WalkedSoFar
  <2> QED
    BY <1>1, <2>2, <2>4, <2>5 DEF Begin, SnapshotCurrent
<1>2. CASE Visit
  <2>1. next \in 1 .. Len(listed)
    BY <1>0, <1>2 DEF Visit, Walking
  <2>2. listed[next] \in Listed
    BY <1>0, <2>1, EventIsSequence
  <2>3. /\ listed[next].side \in Sides /\ listed[next].price \in Prices
        /\ listed[next].quantity \in 0 .. MaxQuantity
        /\ book[listed[next].side] \in Levels
    BY <1>0, <2>2 DEF Listed, Books
  <2>4. book' \in Books
    BY <1>0, <1>2, <2>3, ApplyLevelAt, SideReplaced DEF Visit
  <2>5. resting' \subseteq Sides \X Prices
    BY <1>2, <2>3 DEF Visit, TypeOK
  <2>6. TypeOK'
    BY <1>0, <1>2, <2>1, <2>4, <2>5 DEF Visit, TypeOK
  <2>7. WalkedSoFar'
    <3>1. book = ApplyUpdate(before, ChangesOf(listed, next))
      BY DEF WalkedSoFar
    <3>2. book' = ApplyUpdate(before, ChangesOf(listed, next + 1))
      BY <1>0, <1>2, <2>1, <3>1, IterationApplies DEF Visit
    <3> QED
      BY <1>2, <3>2 DEF Visit, WalkedSoFar
  <2>8. snapshot' = Nothing /\ listed' # << >>
    BY <1>0, <1>2, <2>1 DEF Visit
  <2> QED
    BY <2>6, <2>7, <2>8 DEF SnapshotCurrent
<1>3. CASE Snapshot
  <2>1. ~Walking' /\ listed' # << >>
    BY <1>3 DEF Snapshot, Walking
  <2>2. TypeOK'
    BY <1>3, <1>0, GetLevelsIsBook DEF Snapshot, TypeOK
  <2>3. WalkedSoFar'
    BY <1>3 DEF Snapshot, WalkedSoFar
  <2>4. SnapshotCurrent'
    BY <1>3 DEF Snapshot, SnapshotCurrent
  <2> QED
    BY <2>1, <2>2, <2>3, <2>4
<1>4. CASE Finish
  <2>1. listed' = << >> /\ next' = 1 /\ book' = book /\ before' = book /\ snapshot' = Nothing
    BY <1>4 DEF Finish
  <2>2. << >> \in Events
    <3>1. << >> \in [1 .. 0 -> Listed]
      OBVIOUS
    <3>2. 0 \in 0 .. MaxListed
      BY MaxListedAssumption
    <3>3. IsEvent(<< >>)
      BY DEF IsEvent
    <3> QED
      BY <3>1, <3>2, <3>3 DEF Events
  <2>3. TypeOK'
    BY <1>0, <1>4, <2>1, <2>2 DEF Finish, TypeOK
  <2>4. WalkedSoFar'
    BY <1>0, <2>1, <2>2, NothingYet DEF WalkedSoFar
  <2>5. ~Walking'
    BY <2>1 DEF Walking
  <2> QED
    BY <2>1, <2>3, <2>4, <2>5 DEF SnapshotCurrent
<1>5. CASE UNCHANGED vars
  BY <1>5 DEF vars, TypeOK, WalkedSoFar, Walking, SnapshotCurrent
<1> QED
  BY <1>1, <1>2, <1>3, <1>4, <1>5 DEF Next

\* LoopInv holds in every state of every behaviour.
LEMMA LoopInvHolds == Spec => []LoopInv
BY LoopInvInit, LoopInvNext, PTL DEF Spec

------------------------------------------------------------------------------
\* LevelLoop's types, and what the loops have done so far, in every behaviour.
THEOREM TypeCorrect == Spec => []TypeOK
<1>1. LoopInv => TypeOK
  BY DEF LoopInv
<1> QED
  BY <1>1, LoopInvHolds, PTL

\* Walking the levels of an event one by one gives, at every point of the loops
\* of apply_update, the book before the event with exactly the levels visited so
\* far applied.
THEOREM LoopsApplyPrefix == Spec => []WalkedSoFar
<1>1. LoopInv => WalkedSoFar
  BY DEF LoopInv
<1> QED
  BY <1>1, LoopInvHolds, PTL

\* A level is in the book exactly when the last quantity listed for its price
\* was positive and the price is not 0, for quantities of every width, including
\* when the sum of apply_update's additions wraps around.
THEOREM PresenceFollowsFeed == Spec => []PresentIffLastPositive
<1>1. Init => PresentIffLastPositive
  BY DEF Init, PresentIffLastPositive, EmptyBook
<1>2. LoopInv /\ PresentIffLastPositive /\ [Next]_vars => PresentIffLastPositive'
  <2> SUFFICES ASSUME LoopInv, PresentIffLastPositive, [Next]_vars,
                      NEW side \in Sides, NEW p \in Prices
               PROVE  (book[side][p] # Absent <=> p # 0 /\ <<side, p>> \in resting)'
    BY DEF PresentIffLastPositive
  <2>1. CASE Visit
    <3> DEFINE level == listed[next]
               walked == ApplyLevel(book[level.side], level.price, level.quantity)
    <3>1. /\ Len(listed) \in Nat /\ listed \in Events /\ next \in 1 .. Len(listed)
          /\ book \in Books
      BY <2>1, EventIsSequence DEF LoopInv, TypeOK, Visit, Walking
    <3>2. level \in Listed
      BY <3>1, EventIsSequence
    <3>3. /\ level.side \in Sides /\ level.price \in Prices
          /\ level.quantity \in 0 .. MaxQuantity /\ book[level.side] \in Levels
      BY <3>1, <3>2 DEF Listed, Books
    <3>4. book' = [book EXCEPT ![level.side] = walked]
      BY <2>1 DEF Visit
    <3>5. CASE side = level.side /\ p = level.price
      <4>1. book'[side] = walked
        BY <3>1, <3>3, <3>4, <3>5 DEF Books
      <4>2. walked[p] = IF ~IsValidPrice(p) THEN book[side][p]
                        ELSE IF level.quantity > 0 THEN AddedTo(book[side][p], level.quantity)
                        ELSE Absent
        BY <3>3, <3>5, ApplyLevelAt
      <4>3. book[side][p] \in Quantities \cup {Absent}
        BY <3>1 DEF Books, Levels
      <4>4. AddedTo(book[side][p], level.quantity) # Absent
        BY <3>3, <4>3, AddedToPresent
      <4>5. <<side, p>> \in resting' <=> level.quantity > 0
        BY <2>1, <3>5 DEF Visit
      <4> QED
        BY <4>1, <4>2, <4>4, <4>5 DEF IsValidPrice, PresentIffLastPositive
    <3>6. CASE ~(side = level.side /\ p = level.price)
      <4>1. book'[side][p] = book[side][p]
        <5>1. CASE side # level.side
          BY <3>1, <3>4, <5>1 DEF Books
        <5>2. CASE side = level.side
          <6>1. book'[side] = walked
            BY <3>1, <3>3, <3>4, <5>2 DEF Books
          <6>2. walked[p] = book[side][p]
            BY <3>3, <3>6, <5>2, ApplyLevelAt
          <6> QED
            BY <6>1, <6>2
        <5> QED
          BY <5>1, <5>2
      <4>2. <<side, p>> \in resting' <=> <<side, p>> \in resting
        BY <2>1, <3>6 DEF Visit
      <4> QED
        BY <4>1, <4>2 DEF PresentIffLastPositive
    <3> QED
      BY <3>5, <3>6
  <2>2. CASE UNCHANGED <<book, resting>>
    BY <2>2 DEF PresentIffLastPositive
  <2> QED
    BY <2>1, <2>2 DEF Next, Begin, Snapshot, Finish, vars
<1> QED
  BY <1>1, <1>2, LoopInvHolds, PTL DEF Spec

\* A snapshot that build_book hands over has at most Depth levels on a side, has
\* fewer only when the book has no more, and leaves out no level that is better
\* than one it shows: for every book the feed can lead to (binance_orderbook.h:
\* 39, orderbook.h: 69-88).
THEOREM SnapshotsShowBest == Spec => []SnapshotShowsBest
<1>1. LoopInv => SnapshotShowsBest
  <2> SUFFICES ASSUME LoopInv, snapshot # Nothing, NEW side \in Sides
               PROVE  LET shown == {p \in Prices : snapshot[side][p] # Absent}
                          hidden == {p \in Prices : book[side][p] # Absent} \ shown
                      IN  /\ Cardinality(shown) <= Depth
                          /\ hidden # {} => Cardinality(shown) = Depth
                          /\ \A p \in shown, q \in hidden : Better(side, p, q)
    BY DEF SnapshotShowsBest
  <2>1. snapshot = GetLevels(book, Depth) /\ book \in Books
    BY DEF LoopInv, SnapshotCurrent, TypeOK
  <2> QED
    BY <2>1, GetLevelsShowsBest, DepthAssumption
<1> QED
  BY <1>1, LoopInvHolds, PTL

\* AtomicBook's operators on books are this module's.
LEMMA SameOperators ==
  /\ Atomic!EmptyBook = EmptyBook
  /\ \A b, c : Atomic!ApplyUpdate(b, c) = ApplyUpdate(b, c)
  /\ \A b, d : Atomic!GetLevels(b, d) = GetLevels(b, d)
<1>1. \A level, volume : Atomic!AddedTo(level, volume) = AddedTo(level, volume)
  BY DEF Atomic!AddedTo, AddedTo, Atomic!Wrap, Wrap
<1>2. \A p : Atomic!IsValidPrice(p) = IsValidPrice(p)
  BY DEF Atomic!IsValidPrice, IsValidPrice
<1>3. \A b, side, p : Atomic!Ahead(b, side, p) = Ahead(b, side, p)
  BY DEF Atomic!Ahead, Ahead, Atomic!Better, Better
<1>4. Atomic!EmptyBook = EmptyBook
  BY DEF Atomic!EmptyBook, EmptyBook, Atomic!Sides, Sides
<1>5. \A b, c : Atomic!ApplyUpdate(b, c) = ApplyUpdate(b, c)
  BY <1>1, <1>2 DEF Atomic!ApplyUpdate, ApplyUpdate, Atomic!Sides, Sides
<1>6. \A S : Atomic!Cardinality(S) = Cardinality(S)
  BY DEF Atomic!Cardinality, Cardinality
<1>7. \A b, d : Atomic!GetLevels(b, d) = GetLevels(b, d)
  BY <1>3, <1>6 DEF Atomic!GetLevels, GetLevels, Atomic!Sides, Sides
<1> QED
  BY <1>4, <1>5, <1>7

\* The loops implement AtomicBook: to whoever reads the book between two events,
\* an event's levels, bids and asks, arrive in one step.
THEOREM LoopsAreAtomic == Spec => AtomicSpec
<1> DEFINE shownBook == IF Walking THEN before ELSE book
<1>1. Init => Atomic!Init
  BY SameOperators DEF Init, Atomic!Init, Walking
<1>2. LoopInv /\ [Next]_vars => [Atomic!Next]_(Atomic!vars)
  <2> SUFFICES ASSUME LoopInv, [Next]_vars
               PROVE  Atomic!Next \/ UNCHANGED <<shownBook, snapshot>>
    BY DEF Atomic!vars
  <2>0. /\ Len(listed) \in Nat /\ listed \in Events /\ next \in 1 .. Len(listed) + 1
        /\ book \in Books /\ before \in Books
    BY EventIsSequence DEF LoopInv, TypeOK
  <2>1. CASE Begin
    <3>1. book = before
      <4>1. listed = << >> /\ next = 1 /\ book = ApplyUpdate(before, ChangesOf(listed, 1))
        BY <2>1 DEF Begin, LoopInv, WalkedSoFar
      <4> QED
        BY <2>0, <4>1, NothingYet
    <3> QED
      BY <2>1, <3>1 DEF Begin
  <2>2. CASE Visit
    <3>1. Walking /\ shownBook = before /\ before' = before /\ snapshot' = Nothing /\ snapshot = Nothing
      BY <2>2 DEF Visit, LoopInv
    <3>2. CASE Walking'
      BY <3>1, <3>2
    <3>3. CASE ~Walking'
      <4>1. next' = Len(listed) + 1 /\ listed' = listed
        BY <2>0, <2>2, <3>3 DEF Visit, Walking
      <4>2. book' = ApplyUpdate(before, ChangesOf(listed, Len(listed) + 1))
        BY <2>2, <4>1, LoopInvNext DEF LoopInv, WalkedSoFar, Visit
      <4>3. ChangesOf(listed, Len(listed) + 1) \in EventChanges
        BY <2>0 DEF EventChanges
      <4>4. shownBook' = book'
        BY <3>3
      <4> QED
        BY <3>1, <4>2, <4>3, <4>4, SameOperators DEF Atomic!Next, Atomic!Update
    <3> QED
      BY <3>2, <3>3
  <2>3. CASE Snapshot
    <3>1. ~Walking /\ ~Walking'
      BY <2>3 DEF Snapshot, Walking
    <3>2. Atomic!Snapshot
      BY <2>3, <3>1, SameOperators DEF Snapshot, Atomic!Snapshot
    <3> QED
      BY <3>2 DEF Atomic!Next
  <2>4. CASE Finish
    <3>1. ~Walking /\ ~Walking'
      BY <2>4 DEF Finish, Walking
    <3>2. Atomic!Forget
      BY <2>4, <3>1 DEF Finish, Atomic!Forget
    <3> QED
      BY <3>2 DEF Atomic!Next
  <2>5. CASE UNCHANGED vars
    BY <2>5 DEF vars, Walking
  <2> QED
    BY <2>1, <2>2, <2>3, <2>4, <2>5 DEF Next
<1> QED
  BY <1>1, <1>2, LoopInvHolds, PTL DEF Spec, AtomicSpec, Atomic!Spec
==============================================================================
