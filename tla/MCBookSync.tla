----------------------------- MODULE MCBookSync -----------------------------
(***************************************************************************)
(* BookSync on small instances.  Prices and quantities only have to make a *)
(* depth event visible in the book, so one price and one bit suffice; what *)
(* an event does to the levels is LevelLoop's subject.                     *)
(***************************************************************************)
EXTENDS BookSync

MCPrices == {1}

NoChange == [side \in Sides |-> [p \in MCPrices |-> Absent]]

\* One bid is added.
BidAdded == [NoChange EXCEPT !["bid"] = [p \in MCPrices |-> 1]]

OnePayload == {BidAdded}
=============================================================================
