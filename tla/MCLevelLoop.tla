---------------------------- MODULE MCLevelLoop ----------------------------
(***************************************************************************)
(* LevelLoop on a small instance: two prices that a book can hold and the  *)
(* refused price 0, two-bit quantities so that a level wraps around after  *)
(* two additions, snapshots one level deep so that a level can be hidden,  *)
(* and events of up to two levels so that both sides, or two prices of one *)
(* side, change together.                                                  *)
(***************************************************************************)
EXTENDS LevelLoop

MCPrices == {0, 1, 2}
==============================================================================
