--------------------------- MODULE MCServerCounters ---------------------------
(* A small instance of ServerCounters for TLC: two amounts, so that a      *)
(* maximum is overtaken, and three requests, so that one begins while      *)
(* another is in the middle of its updates and a third comes after both.   *)
EXTENDS ServerCounters

SmallAmounts == {1, 2}

ThreeRequests == 3
=============================================================================
