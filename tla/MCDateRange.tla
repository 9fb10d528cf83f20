---------------------------- MODULE MCDateRange ----------------------------
(***************************************************************************)
(* DateRange for the dates where months, years and leap years meet, valid  *)
(* ones and days that their month does not have.                           *)
(***************************************************************************)
EXTENDS DateRange

Days == {1, 2, 15, 28, 29, 30, 31}

\* The turn of a year, and Februaries of 28 and 29 days.
TurnOfYear == {Date(2024, 11, d) : d \in Days} \cup {Date(2024, 12, d) : d \in Days}
                \cup {Date(2025, 1, d) : d \in Days} \cup {Date(2025, 2, d) : d \in Days}
Spring(year) == {Date(year, 2, d) : d \in Days} \cup {Date(year, 3, d) : d \in {1, 2, 31}}

MCRanges ==
  (TurnOfYear \X TurnOfYear)
    \cup UNION {Spring(year) \X Spring(year) : year \in {2000, 2023, 2024, 2100}}
=============================================================================
