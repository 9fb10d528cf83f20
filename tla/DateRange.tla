----------------------------- MODULE DateRange -----------------------------
(***************************************************************************)
(* FileDownloader::createUrls: the loop that turns a range of dates into   *)
(* the months or days to download, the end of the range excluded.          *)
(*                                                                         *)
(* The urls of one call differ in nothing but the date that is formatted   *)
(* into them: this text is what the model has of a url.  The periods they  *)
(* are pushed for are kept apart, in the history variable visited.         *)
(*                                                                         *)
(* Operators introduced by "Slip:" are wrong on purpose, as in OrderBook.  *)
(***************************************************************************)
EXTENDS Integers, Sequences

CONSTANTS
  Ranges,         \* pairs of dates that are asked for
  MaxPeriods      \* bound: how many periods a range has at most

\* Dates as they can be written, with days that their month need not have.
Written == [year : Int, month : 1 .. 12, day : 1 .. 31]

ASSUME RangesAssumption == Ranges \subseteq Written \X Written
ASSUME MaxPeriodsAssumption == MaxPeriods \in Nat

VARIABLES
  monthly,        \* download_type_ is MONTHLY; otherwise it is DAILY
  range,          \* start_date and end_date, as written
  pc,             \* where createUrls is
  current,        \* current_date_sys
  urls,           \* urls, each by the formatted_date in it
  visited         \* history: what current was in each round of the loop

vars == <<monthly, range, pc, current, urls, visited>>

------------------------------------------------------------------------------
(* The calendar, which std::chrono has. *)

Leap(year) == year % 4 = 0 /\ (year % 100 # 0 \/ year % 400 = 0)

LastDay(year, month) ==
  CASE month = 2 -> IF Leap(year) THEN 29 ELSE 28
    [] month \in {4, 6, 9, 11} -> 30
    [] OTHER -> 31

Date(year, month, day) == [year |-> year, month |-> month, day |-> day]

\* Slip: the year stays.
NextMonthSameYear(date) ==
  IF date.month = 12 THEN Date(date.year, 1, 1) ELSE Date(date.year, date.month + 1, 1)

\* The month after: December is followed by January of the next year.
NextMonth(date) ==
  IF date.month = 12 THEN Date(date.year + 1, 1, 1) ELSE Date(date.year, date.month + 1, 1)

\* current_date_sys += days(1).
NextDay(date) ==
  IF date.day < LastDay(date.year, date.month)
    THEN [date EXCEPT !.day = @ + 1]
    ELSE IF date.month = 12 THEN Date(date.year + 1, 1, 1) ELSE Date(date.year, date.month + 1, 1)

\* sys_days(ymd): a day a month does not have is one of the next month.
SysDays(date) ==
  LET last == LastDay(date.year, date.month)
  IN  IF date.day <= last THEN date ELSE Date(date.year, date.month + 1, date.day - last)

\* Slip: <= instead of <.
NotAfter(a, b) ==
  \/ a.year < b.year
  \/ a.year = b.year /\ a.month < b.month
  \/ a.year = b.year /\ a.month = b.month /\ a.day <= b.day

Before(a, b) ==
  \/ a.year < b.year
  \/ a.year = b.year /\ a.month < b.month
  \/ a.year = b.year /\ a.month = b.month /\ a.day < b.day

------------------------------------------------------------------------------
Init ==
  /\ monthly \in BOOLEAN
  /\ range \in Ranges
  /\ pc = "parse"
  /\ current = range[1]
  /\ urls = << >>
  /\ visited = << >>

\* Both dates are parsed.  That a month has the day is not asked.
Parse ==
  /\ pc = "parse"
  /\ current' = SysDays(range[1])
  /\ pc' = "loop"
  /\ UNCHANGED <<monthly, range, urls, visited>>

\* One of them is not written as numbers: there are no urls.
ParseFails ==
  /\ pc = "parse"
  /\ pc' = "failed"
  /\ UNCHANGED <<monthly, range, current, urls, visited>>

InRange == Before(current, SysDays(range[2]))

\* How createUrls writes the date of a month and of a day.
Patterns == {"%Y-%m", "%Y-%m-%d"}

\* std::format puts its arguments where the pattern has braces, and leaves the rest
\* as it is.  The two patterns are strftime's and have no braces.
Format(pattern, date) == pattern

\* A month is the one current is in; the next one starts with its first day.
AddMonth ==
  /\ pc = "loop" /\ InRange /\ Len(urls) < MaxPeriods
  /\ monthly
  /\ urls' = Append(urls, Format("%Y-%m", current))
  /\ visited' = Append(visited, current)
  /\ current' = NextMonth(current)
  /\ UNCHANGED <<monthly, range, pc>>

AddDay ==
  /\ pc = "loop" /\ InRange /\ Len(urls) < MaxPeriods
  /\ ~monthly
  /\ urls' = Append(urls, Format("%Y-%m-%d", current))
  /\ visited' = Append(visited, current)
  /\ current' = NextDay(current)
  /\ UNCHANGED <<monthly, range, pc>>

LeaveLoop ==
  /\ pc = "loop" /\ ~InRange
  /\ pc' = "returned"
  /\ UNCHANGED <<monthly, range, current, urls, visited>>

Next == Parse \/ ParseFails \/ AddMonth \/ AddDay \/ LeaveLoop

\* The loop runs in one thread that the operating system schedules.
Spec == Init /\ [][Next]_vars /\ WF_vars(Next)
------------------------------------------------------------------------------
\* The reference: days and months counted by formulas, not by stepping.
DaysBefore(year, month) ==
  LET y == IF month > 2 THEN year ELSE year - 1
      m == IF month > 2 THEN month - 3 ELSE month + 9
  IN  365 * y + y \div 4 - y \div 100 + y \div 400 + (153 * m + 2) \div 5

DayNumber(date) == DaysBefore(date.year, date.month) + date.day
MonthNumber(date) == 12 * date.year + date.month

\* The last month with a day before the end.
LastMonth(end) == IF end.day > 1 THEN MonthNumber(end) ELSE MonthNumber(end) - 1

\* The number of a period, and of the first and the last one of the range.
NumberOf(date) == IF monthly THEN MonthNumber(date) ELSE DayNumber(date)
First == IF monthly THEN MonthNumber(SysDays(range[1])) ELSE DayNumber(range[1])
Last == IF monthly THEN LastMonth(SysDays(range[2])) ELSE DayNumber(range[2]) - 1

\* How many periods have something of the range in them.
Periods == IF DayNumber(range[1]) < DayNumber(range[2]) THEN Last - First + 1 ELSE 0

\* The loop of createUrls goes round for every month, or every day, that has
\* something of the range in it, once each and in order, and pushes one url in each
\* round: none is left out at the end of a month or a year or in a leap year, and
\* there is no round for an empty range.  At every point of the loop it has been
\* round for the first of them.  Which period a url is for cannot be told from the url:
\* no date gets into the text, and all urls of a range are the same.
VisitsRange ==
  /\ \A i \in DOMAIN visited : NumberOf(visited[i]) = First + i - 1
  /\ Len(visited) <= Periods
  /\ pc = "returned" => Len(visited) = Periods
  /\ Len(urls) = Len(visited)

\* The loop comes to an end for every range.
LoopEnds == <>(pc \in {"returned", "failed"})
------------------------------------------------------------------------------
(* The inductive invariant. *)

\* A date that its month has.
IsDate(date) == date \in Written /\ date.day <= LastDay(date.year, date.month)

TypeOK ==
  /\ monthly \in BOOLEAN /\ range \in Ranges
  /\ pc \in {"parse", "loop", "returned", "failed"}
  /\ current \in Written /\ urls \in Seq(Patterns) /\ visited \in Seq(Written)

\* current is the period behind the last one visited, or the first of the range;
\* after a month it is the first day of one.
LoopInv ==
  /\ visited # << >> =>
       /\ DayNumber(range[1]) < DayNumber(range[2])
       /\ NumberOf(current) <= Last + 1
       /\ monthly => current.day = 1
  /\ pc \in {"loop", "returned"} =>
       /\ IsDate(current)
       /\ NumberOf(current) = First + Len(visited)
       /\ visited = << >> => current = SysDays(range[1])
  /\ pc \in {"parse", "failed"} => visited = << >>
  /\ pc = "returned" => ~InRange
  /\ Len(urls) = Len(visited)

RangeInv ==
  /\ TypeOK
  /\ LoopInv
  /\ \A i \in DOMAIN visited : NumberOf(visited[i]) = First + i - 1
=============================================================================
