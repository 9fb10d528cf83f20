-------------------------- MODULE DateRangeProofs --------------------------
(***************************************************************************)
(* Proofs about DateRange, for every range of dates, whatever the years,   *)
(* and also for days that their month does not have.  The first part is    *)
(* about the calendar: stepping from day to day and counting by formulas   *)
(* agree.                                                                  *)
(***************************************************************************)
EXTENDS DateRange, TLAPS

\* The calendar years before a March, in days.
Marches(year) == 365 * year + year \div 4 - year \div 100 + year \div 400

\* A year from March to March has a day more when it ends in a leap year.
LEMMA YearLength ==
  ASSUME NEW year \in Int
  PROVE  Marches(year) = Marches(year - 1) + (IF Leap(year) THEN 366 ELSE 365)
BY DEF Marches, Leap

\* Years add days and never take any away.
LEMMA YearsGrow ==
  ASSUME NEW y \in Int, NEW z \in Int, y <= z
  PROVE  Marches(y) \in Int /\ Marches(z) \in Int /\ Marches(y) <= Marches(z)
BY DEF Marches

\* Days before each month of a year, as a table.
LEMMA MonthTable ==
  ASSUME NEW year \in Int
  PROVE  /\ DaysBefore(year, 1) = Marches(year - 1) + 306
         /\ DaysBefore(year, 2) = Marches(year - 1) + 337
         /\ DaysBefore(year, 3) = Marches(year)
         /\ DaysBefore(year, 4) = Marches(year) + 31
         /\ DaysBefore(year, 5) = Marches(year) + 61
         /\ DaysBefore(year, 6) = Marches(year) + 92
         /\ DaysBefore(year, 7) = Marches(year) + 122
         /\ DaysBefore(year, 8) = Marches(year) + 153
         /\ DaysBefore(year, 9) = Marches(year) + 184
         /\ DaysBefore(year, 10) = Marches(year) + 214
         /\ DaysBefore(year, 11) = Marches(year) + 245
         /\ DaysBefore(year, 12) = Marches(year) + 275
BY DEF DaysBefore, Marches

\* The lengths of the months add up: a month ends where the next one starts.
LEMMA MonthLength ==
  ASSUME NEW year \in Int, NEW month \in 1 .. 12
  PROVE  /\ DaysBefore(year, month) \in Int
         /\ LastDay(year, month) \in 28 .. 31
         /\ month < 12 => DaysBefore(year, month + 1) = DaysBefore(year, month) + LastDay(year, month)
         /\ month = 12 => /\ LastDay(year, month) = 31
                          /\ DaysBefore(year + 1, 1) = DaysBefore(year, month) + 31
<1>1. Marches(year) \in Int /\ Marches(year - 1) \in Int
  BY YearsGrow
<1>2. month = 12 => DaysBefore(year + 1, 1) = Marches(year) + 306
  <2>1. year + 1 \in Int /\ (year + 1) - 1 = year
    OBVIOUS
  <2> QED
    BY <2>1, MonthTable
<1> QED
  BY <1>1, <1>2, MonthTable, YearLength DEF LastDay

\* A later month of the same year starts behind the end of an earlier one.
LEMMA MonthsGrow ==
  ASSUME NEW year \in Int, NEW m \in 1 .. 12, NEW n \in 1 .. 12, m < n
  PROVE  DaysBefore(year, m) + LastDay(year, m) <= DaysBefore(year, n)
<1>1. Marches(year) \in Int /\ Marches(year - 1) \in Int
  BY YearsGrow
<1>2. DaysBefore(year, m + 1) = DaysBefore(year, m) + LastDay(year, m)
  <2>1. m < 12
    OBVIOUS
  <2> QED
    BY <2>1, MonthLength
<1>3. \A k, l \in 1 .. 12 : k <= l => DaysBefore(year, k) <= DaysBefore(year, l)
  BY <1>1, MonthTable, YearLength
<1> QED
  BY <1>2, <1>3

\* Every month of a later year starts behind the end of a month of an earlier one.
LEMMA YearsApart ==
  ASSUME NEW y \in Int, NEW z \in Int, y < z, NEW m \in 1 .. 12, NEW n \in 1 .. 12
  PROVE  DaysBefore(y, m) + LastDay(y, m) <= DaysBefore(z, n)
<1> DEFINE end == DaysBefore(y, m) + LastDay(y, m)
<1>1. DaysBefore(y, 12) = Marches(y) + 275 /\ LastDay(y, 12) = 31
  BY MonthTable DEF LastDay
<1>2. /\ DaysBefore(y, m) \in Int /\ LastDay(y, m) \in Int /\ DaysBefore(z, n) \in Int
      /\ Marches(y) \in Int /\ Marches(z - 1) \in Int /\ Marches(y) <= Marches(z - 1)
  <2>1. DaysBefore(y, m) \in Int /\ LastDay(y, m) \in 28 .. 31
    BY MonthLength
  <2>2. DaysBefore(z, n) \in Int
    BY MonthLength
  <2> QED
    BY <2>1, <2>2, YearsGrow
<1>3. end <= Marches(y) + 306
  <2>1. CASE m = 12
    BY <1>1, <1>2, <2>1
  <2>2. CASE m < 12
    <3>1. end <= DaysBefore(y, 12)
      BY <2>2, MonthsGrow
    <3> QED
      BY <1>1, <1>2, <3>1
  <2> QED
    BY <2>1, <2>2
<1>4. DaysBefore(z, 1) = Marches(z - 1) + 306
  BY MonthTable
<1>5. DaysBefore(z, n) >= DaysBefore(z, 1)
  <2>1. CASE n = 1
    BY <1>2, <2>1
  <2>2. CASE n > 1
    <3>1. DaysBefore(z, 1) + LastDay(z, 1) <= DaysBefore(z, n)
      BY <2>2, MonthsGrow
    <3>2. LastDay(z, 1) = 31
      BY DEF LastDay
    <3> QED
      BY <1>2, <1>4, <3>1, <3>2
  <2> QED
    BY <2>1, <2>2
<1> HIDE DEF end
<1>6. end \in Int
  BY <1>2 DEF end
<1>7. end <= DaysBefore(z, n)
  BY <1>2, <1>3, <1>4, <1>5, <1>6
<1> QED
  BY <1>7 DEF end
------------------------------------------------------------------------------
(* Dates. *)

\* The numbers of a date are integers, and the day of a date is in its month.
LEMMA DateFacts ==
  ASSUME NEW date \in Written
  PROVE  /\ date.year \in Int /\ date.month \in 1 .. 12 /\ date.day \in 1 .. 31
         /\ date = Date(date.year, date.month, date.day)
         /\ DaysBefore(date.year, date.month) \in Int
         /\ LastDay(date.year, date.month) \in 28 .. 31
         /\ DayNumber(date) = DaysBefore(date.year, date.month) + date.day
         /\ DayNumber(date) \in Int /\ MonthNumber(date) \in Int
<1>1. /\ date.year \in Int /\ date.month \in 1 .. 12 /\ date.day \in 1 .. 31
      /\ date = Date(date.year, date.month, date.day)
  BY DEF Written, Date
<1>2. /\ DaysBefore(date.year, date.month) \in Int
      /\ LastDay(date.year, date.month) \in 28 .. 31
  BY <1>1, MonthLength
<1> QED
  BY <1>1, <1>2 DEF DayNumber, MonthNumber

\* What a date made of a year, a month and a day has.
LEMMA DateMade ==
  ASSUME NEW y \in Int, NEW m \in 1 .. 12, NEW d \in 1 .. 31
  PROVE  /\ Date(y, m, d) \in Written /\ Date(y, m, d).day = d
         /\ DayNumber(Date(y, m, d)) = DaysBefore(y, m) + d
         /\ MonthNumber(Date(y, m, d)) = 12 * y + m
         /\ IsDate(Date(y, m, d)) <=> d <= LastDay(y, m)
BY DEF Date, Written, DayNumber, MonthNumber, IsDate

\* The first day of the next month follows the last day of this one.
LEMMA MonthAfter ==
  ASSUME NEW y \in Int, NEW m \in 1 .. 12,
         NEW date, date = IF m = 12 THEN Date(y + 1, 1, 1) ELSE Date(y, m + 1, 1)
  PROVE  /\ IsDate(date) /\ date.day = 1
         /\ DayNumber(date) = DaysBefore(y, m) + LastDay(y, m) + 1
         /\ MonthNumber(date) = 12 * y + m + 1
<1>1. CASE m = 12
  <2>1. PICK k \in Int : k = y + 1
    OBVIOUS
  <2>2. PICK n \in 1 .. 12 : n = 1
    OBVIOUS
  <2>3. date = Date(k, n, n) /\ n \in 1 .. 31
    BY <1>1, <2>1, <2>2
  <2>4. LastDay(k, n) \in 28 .. 31 /\ DaysBefore(k, n) = DaysBefore(y, m) + LastDay(y, m)
    BY <1>1, <2>1, <2>2, MonthLength
  <2>5. /\ date \in Written /\ date.day = n /\ DayNumber(date) = DaysBefore(k, n) + n
        /\ MonthNumber(date) = 12 * k + n /\ (IsDate(date) <=> n <= LastDay(k, n))
    BY <2>3 DEF Date, Written, DayNumber, MonthNumber, IsDate
  <2> QED
    BY <1>1, <2>1, <2>2, <2>4, <2>5
<1>2. CASE m # 12
  <2>1. PICK n \in 1 .. 12 : n = m + 1
    BY <1>2
  <2>2. PICK d \in 1 .. 31 : d = 1
    OBVIOUS
  <2>3. date = Date(y, n, d) /\ m < 12
    BY <1>2, <2>1, <2>2
  <2>4. LastDay(y, n) \in 28 .. 31 /\ DaysBefore(y, n) = DaysBefore(y, m) + LastDay(y, m)
    BY <2>1, <2>3, MonthLength
  <2>5. /\ date \in Written /\ date.day = d /\ DayNumber(date) = DaysBefore(y, n) + d
        /\ MonthNumber(date) = 12 * y + n /\ (IsDate(date) <=> d <= LastDay(y, n))
    BY <2>3 DEF Date, Written, DayNumber, MonthNumber, IsDate
  <2> QED
    BY <2>1, <2>2, <2>4, <2>5
<1> QED
  BY <1>1, <1>2

\* A day that a month does not have is counted on into the next month: sys_days
\* gives the date with the number that the written day has.
LEMMA SysDaysCounts ==
  ASSUME NEW date \in Written
  PROVE  IsDate(SysDays(date)) /\ DayNumber(SysDays(date)) = DayNumber(date)
<1> DEFINE y == date.year
           m == date.month
<1>1. PICK last \in 28 .. 31 : last = LastDay(y, m)
  BY DateFacts
<1>2. /\ y \in Int /\ m \in 1 .. 12 /\ date.day \in 1 .. 31
      /\ DaysBefore(y, m) \in Int /\ DayNumber(date) = DaysBefore(y, m) + date.day
  BY DateFacts
<1>3. SysDays(date) = IF date.day <= last THEN date ELSE Date(y, m + 1, date.day - last)
  BY <1>1 DEF SysDays
<1> HIDE DEF y, m
<1>4. CASE date.day <= last
  BY <1>1, <1>3, <1>4 DEF IsDate, y, m
<1>5. CASE date.day > last
  <2>1. m # 12
    <3>1. m = 12 => last = 31
      BY <1>1, <1>2, MonthLength
    <3> QED
      BY <1>2, <1>5, <3>1
  <2>2. PICK n \in 1 .. 12 : n = m + 1
    BY <1>2, <2>1
  <2>3. PICK d \in 1 .. 31 : d = date.day - last /\ d <= 3
    BY <1>2, <1>5
  <2>4. SysDays(date) = Date(y, n, d)
    BY <1>2, <1>3, <1>5, <2>2, <2>3
  <2>5. LastDay(y, n) \in 28 .. 31 /\ DaysBefore(y, n) = DaysBefore(y, m) + last
    <3>1. LastDay(y, n) \in 28 .. 31
      BY <1>2, MonthLength
    <3>2. m < 12
      BY <1>2, <2>2
    <3>3. DaysBefore(y, m + 1) = DaysBefore(y, m) + LastDay(y, m)
      BY <1>2, <3>2, MonthLength
    <3> QED
      BY <1>1, <2>2, <3>1, <3>3 DEF y, m
  <2>6. IsDate(Date(y, n, d)) /\ DayNumber(Date(y, n, d)) = DaysBefore(y, n) + d
    BY <1>2, <2>3, <2>5 DEF Date, Written, DayNumber, IsDate
  <2> QED
    BY <1>2, <2>3, <2>4, <2>5, <2>6
<1> QED
  BY <1>2, <1>4, <1>5

\* += days(1) goes on by one, over the ends of months and years.
LEMMA NextDayCounts ==
  ASSUME NEW date, IsDate(date)
  PROVE  IsDate(NextDay(date)) /\ DayNumber(NextDay(date)) = DayNumber(date) + 1
<1> DEFINE y == date.year
           m == date.month
           d == date.day
<1>1. /\ date \in Written /\ y \in Int /\ m \in 1 .. 12 /\ d \in 1 .. 31
      /\ LastDay(y, m) \in 28 .. 31 /\ d <= LastDay(y, m) /\ date = Date(y, m, d)
      /\ DaysBefore(y, m) \in Int /\ DayNumber(date) = DaysBefore(y, m) + d
  BY DateFacts DEF IsDate
<1>2. NextDay(date) =
        IF d < LastDay(y, m) THEN [date EXCEPT !.day = d + 1]
        ELSE IF m = 12 THEN Date(y + 1, 1, 1) ELSE Date(y, m + 1, 1)
  BY DEF NextDay
<1>3. [date EXCEPT !.day = d + 1] = Date(y, m, d + 1)
  BY <1>1 DEF Written, Date
<1> HIDE DEF y, m, d
<1>4. CASE d < LastDay(y, m)
  <2>1. d + 1 \in 1 .. 31 /\ d + 1 <= LastDay(y, m)
    BY <1>1, <1>4
  <2>2. /\ IsDate(Date(y, m, d + 1))
        /\ DayNumber(Date(y, m, d + 1)) = DaysBefore(y, m) + (d + 1)
    BY <1>1, <2>1, DateMade
  <2> QED
    BY <1>1, <1>2, <1>3, <1>4, <2>2
<1>5. CASE ~(d < LastDay(y, m))
  <2>1. d = LastDay(y, m)
    BY <1>1, <1>5
  <2>2. NextDay(date) = IF m = 12 THEN Date(y + 1, 1, 1) ELSE Date(y, m + 1, 1)
    BY <1>2, <1>5
  <2>3. IsDate(NextDay(date)) /\ DayNumber(NextDay(date)) = DaysBefore(y, m) + LastDay(y, m) + 1
    BY <1>1, <2>2, MonthAfter
  <2> QED
    BY <1>1, <2>1, <2>3
<1> QED
  BY <1>4, <1>5

\* The step to the next month goes on by one month, to its first day.
LEMMA NextMonthCounts ==
  ASSUME NEW date, IsDate(date)
  PROVE  /\ IsDate(NextMonth(date)) /\ NextMonth(date).day = 1
         /\ MonthNumber(NextMonth(date)) = MonthNumber(date) + 1
<1>1. date.year \in Int /\ date.month \in 1 .. 12
  BY DateFacts DEF IsDate
<1>2. NextMonth(date) = IF date.month = 12 THEN Date(date.year + 1, 1, 1)
                        ELSE Date(date.year, date.month + 1, 1)
  BY DEF NextMonth
<1> QED
  BY <1>1, <1>2, MonthAfter DEF MonthNumber

\* Dates are compared the way their numbers are.
LEMMA BeforeIsLess ==
  ASSUME NEW a, NEW b, IsDate(a), IsDate(b)
  PROVE  Before(a, b) <=> DayNumber(a) < DayNumber(b)
<1>1. ASSUME NEW d, NEW e, IsDate(d), IsDate(e), Before(d, e)
      PROVE  DayNumber(d) < DayNumber(e)
  <2>1. /\ d \in Written /\ e \in Written /\ d.day <= LastDay(d.year, d.month)
        /\ d.year \in Int /\ e.year \in Int /\ d.month \in 1 .. 12 /\ e.month \in 1 .. 12
        /\ d.day \in 1 .. 31 /\ e.day \in 1 .. 31
        /\ DaysBefore(d.year, d.month) \in Int /\ DaysBefore(e.year, e.month) \in Int
        /\ LastDay(d.year, d.month) \in 28 .. 31
        /\ DayNumber(d) = DaysBefore(d.year, d.month) + d.day
        /\ DayNumber(e) = DaysBefore(e.year, e.month) + e.day
    BY <1>1, DateFacts DEF IsDate
  <2>2. CASE d.year = e.year /\ d.month = e.month /\ d.day < e.day
    BY <2>1, <2>2
  <2>3. CASE \/ d.year < e.year
             \/ d.year = e.year /\ d.month < e.month
    <3>1. DaysBefore(d.year, d.month) + LastDay(d.year, d.month) <= DaysBefore(e.year, e.month)
      BY <2>1, <2>3, YearsApart, MonthsGrow
    <3> QED
      BY <2>1, <3>1
  <2> QED
    BY <1>1, <2>2, <2>3 DEF Before
<1>2. a \in Written /\ b \in Written
  BY DEF IsDate
<1>3. Before(a, b) \/ Before(b, a) \/ a = b
  BY <1>2, DateFacts DEF Before
<1>4. DayNumber(a) \in Int /\ DayNumber(b) \in Int
  BY <1>2, DateFacts
<1> QED
  BY <1>1, <1>3, <1>4

\* A date before the end is in a month that counts; the first day of a month that
\* is not before the end is in one that does not.
LEMMA MonthsBefore ==
  ASSUME NEW a \in Written, NEW b \in Written
  PROVE  /\ LastMonth(b) \in Int
         /\ Before(a, b) => MonthNumber(a) <= LastMonth(b)
         /\ a.day = 1 /\ ~Before(a, b) => MonthNumber(a) > LastMonth(b)
<1>1. /\ a.year \in Int /\ a.month \in 1 .. 12 /\ a.day \in 1 .. 31
      /\ b.year \in Int /\ b.month \in 1 .. 12 /\ b.day \in 1 .. 31
  BY DateFacts
<1> QED
  BY <1>1 DEF LastMonth, MonthNumber, Before
------------------------------------------------------------------------------
(* The loop. *)

\* The dates of the range, and what the loop counts from and up to.
LEMMA RangeFacts ==
  ASSUME TypeOK
  PROVE  /\ range[1] \in Written /\ range[2] \in Written
         /\ DayNumber(range[1]) \in Int /\ DayNumber(range[2]) \in Int
         /\ IsDate(SysDays(range[1])) /\ IsDate(SysDays(range[2]))
         /\ SysDays(range[1]) \in Written /\ SysDays(range[2]) \in Written
         /\ Before(SysDays(range[1]), SysDays(range[2]))
              <=> DayNumber(range[1]) < DayNumber(range[2])
         /\ First = NumberOf(SysDays(range[1]))
         /\ First \in Int /\ Last \in Int
<1>1. range[1] \in Written /\ range[2] \in Written
  BY RangesAssumption DEF TypeOK
<1>2. /\ IsDate(SysDays(range[1])) /\ DayNumber(SysDays(range[1])) = DayNumber(range[1])
      /\ IsDate(SysDays(range[2])) /\ DayNumber(SysDays(range[2])) = DayNumber(range[2])
  BY <1>1, SysDaysCounts
<1>3. SysDays(range[1]) \in Written /\ SysDays(range[2]) \in Written
  BY <1>2 DEF IsDate
<1>4. /\ DayNumber(range[1]) \in Int /\ DayNumber(range[2]) \in Int
      /\ MonthNumber(SysDays(range[1])) \in Int /\ LastMonth(SysDays(range[2])) \in Int
  BY <1>1, <1>3, DateFacts, MonthsBefore
<1>5. First = NumberOf(SysDays(range[1])) /\ First \in Int /\ Last \in Int
  BY <1>2, <1>4 DEF First, Last, NumberOf
<1> QED
  BY <1>1, <1>2, <1>3, <1>4, <1>5, BeforeIsLess

\* A date is before the end when its number is one of those that count.
LEMMA InRangeCounts ==
  ASSUME TypeOK, IsDate(current)
  PROVE  /\ NumberOf(current) \in Int
         /\ InRange => NumberOf(current) <= Last
         /\ ~InRange /\ (monthly => current.day = 1) => NumberOf(current) > Last
<1> DEFINE end == SysDays(range[2])
<1>1. /\ current \in Written /\ end \in Written /\ IsDate(end) /\ range[2] \in Written
      /\ monthly \in BOOLEAN
  BY RangeFacts DEF IsDate, TypeOK
<1>2. DayNumber(end) = DayNumber(range[2])
  BY <1>1, SysDaysCounts
<1>3. /\ DayNumber(current) \in Int /\ MonthNumber(current) \in Int /\ DayNumber(range[2]) \in Int
  BY <1>1, DateFacts
<1>4. InRange <=> DayNumber(current) < DayNumber(range[2])
  BY <1>1, <1>2, BeforeIsLess DEF InRange
<1>5. /\ LastMonth(end) \in Int
      /\ InRange => MonthNumber(current) <= LastMonth(end)
      /\ current.day = 1 /\ ~InRange => MonthNumber(current) > LastMonth(end)
  BY <1>1, MonthsBefore DEF InRange
<1> HIDE DEF end
<1>6. CASE monthly
  <2>1. NumberOf(current) = MonthNumber(current) /\ Last = LastMonth(end)
    BY <1>6 DEF NumberOf, Last, end
  <2> QED
    BY <1>3, <1>5, <1>6, <2>1
<1>7. CASE ~monthly
  <2>1. NumberOf(current) = DayNumber(current) /\ Last = DayNumber(range[2]) - 1
    BY <1>7 DEF NumberOf, Last
  <2> QED
    BY <1>3, <1>4, <1>7, <2>1
<1> QED
  BY <1>6, <1>7

\* Where the loop starts.
LEMMA InitRange == Init => RangeInv
<1> SUFFICES ASSUME Init PROVE RangeInv
  OBVIOUS
<1>1. range[1] \in Written
  BY RangesAssumption DEF Init
<1> QED
  BY <1>1 DEF Init, RangeInv, TypeOK, LoopInv

\* A url more.
LEMMA AddUrl ==
  ASSUME TypeOK, NEW text \in Patterns, urls' = Append(urls, text)
  PROVE  urls' \in Seq(Patterns) /\ Len(urls') = Len(urls) + 1
BY DEF TypeOK

\* One round of the loop: a url more, and the next period follows the current one.
LEMMA AddPeriod ==
  ASSUME RangeInv, pc = "loop", InRange,
         urls' \in Seq(Patterns), Len(urls') = Len(urls) + 1,
         visited' = Append(visited, current), UNCHANGED <<monthly, range, pc>>,
         IsDate(current'), NumberOf(current') = NumberOf(current) + 1,
         monthly => current'.day = 1
  PROVE  RangeInv'
<1>1. TypeOK /\ IsDate(current) /\ NumberOf(current) = First + Len(visited)
  BY DEF RangeInv, LoopInv
<1>2. /\ First \in Int /\ Last \in Int /\ NumberOf(current) \in Int /\ NumberOf(current) <= Last
      /\ visited \in Seq(Written) /\ current \in Written
  BY <1>1, RangeFacts, InRangeCounts DEF TypeOK
<1>3. /\ Len(visited) \in Nat /\ visited' \in Seq(Written) /\ visited' # << >>
      /\ Len(visited') = Len(visited) + 1
      /\ DOMAIN visited' = 1 .. Len(visited) + 1 /\ DOMAIN visited = 1 .. Len(visited)
      /\ \A i \in 1 .. Len(visited) : visited'[i] = visited[i]
      /\ visited'[Len(visited) + 1] = current
  BY <1>2
<1>4. First' = First /\ Last' = Last /\ \A date : NumberOf(date)' = NumberOf(date')
  BY DEF First, Last, NumberOf
<1>5. Len(urls') = Len(visited')
  BY <1>3 DEF RangeInv, LoopInv
<1>6. TypeOK'
  BY <1>1, <1>3, <1>5 DEF TypeOK, IsDate
<1>7. DayNumber(range[1]) < DayNumber(range[2])
  <2>1. CASE visited = << >>
    <3>1. current = SysDays(range[1])
      BY <2>1 DEF RangeInv, LoopInv
    <3> QED
      BY <1>1, <3>1, RangeFacts DEF InRange
  <2>2. CASE visited # << >>
    BY <2>2 DEF RangeInv, LoopInv
  <2> QED
    BY <2>1, <2>2
<1>8. LoopInv'
  <2>1. NumberOf(current)' = First' + Len(visited') /\ NumberOf(current)' <= Last' + 1
    BY <1>1, <1>2, <1>3, <1>4
  <2> QED
    BY <1>3, <1>7, <1>5, <2>1 DEF LoopInv
<1>9. (\A i \in DOMAIN visited : NumberOf(visited[i]) = First + i - 1)'
  <2> SUFFICES ASSUME NEW i \in 1 .. Len(visited) + 1
               PROVE  NumberOf(visited'[i]) = First + i - 1
    BY <1>3, <1>4 DEF NumberOf
  <2>1. CASE i = Len(visited) + 1
    BY <1>1, <1>2, <1>3, <2>1
  <2>2. CASE i # Len(visited) + 1
    BY <1>3, <2>2 DEF RangeInv
  <2> QED
    BY <2>1, <2>2
<1> QED
  BY <1>6, <1>8, <1>9 DEF RangeInv

\* Every step of the loop keeps the invariant.
LEMMA StepRange == RangeInv /\ [Next]_vars => RangeInv'
<1> SUFFICES ASSUME RangeInv, [Next]_vars PROVE RangeInv'
  OBVIOUS
<1>1. CASE Parse
  <2>1. TypeOK /\ visited = << >> /\ Len(urls) = Len(visited) /\ urls' = urls
    BY <1>1 DEF RangeInv, LoopInv, Parse
  <2>2. IsDate(SysDays(range[1])) /\ First = NumberOf(SysDays(range[1])) /\ First \in Int
    BY <2>1, RangeFacts
  <2>3. /\ First' = First /\ NumberOf(current') = NumberOf(current)'
        /\ visited' = << >> /\ pc' = "loop" /\ current' = SysDays(range[1]) /\ range' = range
        /\ monthly' = monthly /\ Len(visited') = 0
    BY <1>1, <2>1 DEF Parse, First, NumberOf
  <2>4. TypeOK'
    BY <2>1, <2>2, <2>3 DEF TypeOK, IsDate
  <2>5. LoopInv'
    BY <2>1, <2>2, <2>3 DEF LoopInv
  <2> QED
    BY <2>3, <2>4, <2>5 DEF RangeInv
<1>2. CASE ParseFails
  BY <1>2 DEF RangeInv, TypeOK, LoopInv, ParseFails
<1>3. CASE AddMonth
  <2>1. /\ pc = "loop" /\ InRange /\ monthly /\ visited' = Append(visited, current)
        /\ current' = NextMonth(current) /\ UNCHANGED <<monthly, range, pc>>
    BY <1>3 DEF AddMonth
  <2>4. urls' \in Seq(Patterns) /\ Len(urls') = Len(urls) + 1
    <3>1. PICK text \in Patterns : text = Format("%Y-%m", current)
      BY DEF Format, Patterns
    <3>2. urls' = Append(urls, text) /\ TypeOK
      BY <1>3, <3>1 DEF AddMonth, RangeInv
    <3> QED
      BY <3>2, AddUrl
  <2>2. IsDate(current)
    BY <2>1 DEF RangeInv, LoopInv
  <2>3. /\ IsDate(current') /\ current'.day = 1 /\ NumberOf(current') = NumberOf(current) + 1
    BY <2>1, <2>2, NextMonthCounts DEF NumberOf
  <2> QED
    BY <2>1, <2>3, <2>4, AddPeriod
<1>4. CASE AddDay
  <2>1. /\ pc = "loop" /\ InRange /\ ~monthly /\ visited' = Append(visited, current)
        /\ current' = NextDay(current) /\ UNCHANGED <<monthly, range, pc>>
    BY <1>4 DEF AddDay
  <2>4. urls' \in Seq(Patterns) /\ Len(urls') = Len(urls) + 1
    <3>1. PICK text \in Patterns : text = Format("%Y-%m-%d", current)
      BY DEF Format, Patterns
    <3>2. urls' = Append(urls, text) /\ TypeOK
      BY <1>4, <3>1 DEF AddDay, RangeInv
    <3> QED
      BY <3>2, AddUrl
  <2>2. IsDate(current)
    BY <2>1 DEF RangeInv, LoopInv
  <2>3. IsDate(current') /\ NumberOf(current') = NumberOf(current) + 1
    BY <2>1, <2>2, NextDayCounts DEF NumberOf
  <2> QED
    BY <2>1, <2>3, <2>4, AddPeriod
<1>5. CASE LeaveLoop
  BY <1>5 DEF RangeInv, TypeOK, LoopInv, LeaveLoop, First, Last, NumberOf, InRange
<1>6. CASE UNCHANGED vars
  BY <1>6 DEF RangeInv, TypeOK, LoopInv, vars, First, Last, NumberOf, InRange
<1> QED
  BY <1>1, <1>2, <1>3, <1>4, <1>5, <1>6 DEF Next

\* The invariant says that the periods visited are those of the range.
LEMMA RangeVisits == RangeInv => VisitsRange
<1> SUFFICES ASSUME RangeInv
             PROVE  Len(visited) <= Periods /\ (pc = "returned" => Len(visited) = Periods)
  BY DEF RangeInv, LoopInv, VisitsRange
<1>1. TypeOK /\ LoopInv /\ Len(visited) \in Nat /\ (visited = << >> <=> Len(visited) = 0)
  BY DEF RangeInv, TypeOK
<1>2. /\ DayNumber(range[1]) \in Int /\ DayNumber(range[2]) \in Int /\ First \in Int /\ Last \in Int
      /\ IsDate(SysDays(range[1])) /\ SysDays(range[1]) \in Written /\ SysDays(range[2]) \in Written
      /\ First = NumberOf(SysDays(range[1])) /\ range[1] \in Written
      /\ Before(SysDays(range[1]), SysDays(range[2]))
           <=> DayNumber(range[1]) < DayNumber(range[2])
  BY <1>1, RangeFacts
<1>3. DayNumber(range[1]) < DayNumber(range[2]) => First <= Last
  <2> SUFFICES ASSUME DayNumber(range[1]) < DayNumber(range[2]) PROVE First <= Last
    OBVIOUS
  <2>1. MonthNumber(SysDays(range[1])) <= LastMonth(SysDays(range[2]))
    BY <1>2, MonthsBefore
  <2> QED
    BY <1>2, <2>1 DEF First, Last
<1>4. CASE visited = << >>
  <2>1. pc = "returned" => ~(DayNumber(range[1]) < DayNumber(range[2]))
    BY <1>1, <1>2, <1>4 DEF LoopInv, InRange
  <2> QED
    BY <1>1, <1>2, <1>3, <1>4, <2>1 DEF Periods
<1>5. CASE visited # << >>
  <2>1. /\ DayNumber(range[1]) < DayNumber(range[2]) /\ NumberOf(current) <= Last + 1
        /\ (monthly => current.day = 1) /\ IsDate(current)
        /\ NumberOf(current) = First + Len(visited) /\ (pc = "returned" => ~InRange)
    BY <1>1, <1>5 DEF LoopInv, TypeOK
  <2>2. pc = "returned" => NumberOf(current) > Last
    BY <1>1, <2>1, InRangeCounts
  <2> QED
    BY <1>1, <1>2, <2>1, <2>2 DEF Periods
<1> QED
  BY <1>4, <1>5

\* The loop of FileDownloader::createUrls goes round for every month or day that has
\* something of the range in it, in order and once each, and for no other, and pushes
\* one url in each round: at every point it has been round for the first of them, when
\* it leaves for all.  The inductive invariant ties current_date_sys to the number of
\* rounds.  Nothing is said of the texts of the urls.
THEOREM RangeVisited == Spec => []VisitsRange
<1>1. Init => RangeInv
  BY InitRange
<1>2. RangeInv /\ [Next]_vars => RangeInv'
  BY StepRange
<1>3. RangeInv => VisitsRange
  BY RangeVisits
<1> QED
  BY <1>1, <1>2, <1>3, PTL DEF Spec
=============================================================================
