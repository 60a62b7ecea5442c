------------------------------ MODULE MCPauses ------------------------------
(* Backoff parameters for TLC: all the combinations of defaults, ordinary   *)
(* values, limits that are the wrong way round, negative ones, and ones     *)
(* that overflow IntMax.                                                    *)
EXTENDS Pauses

MCParameters ==
    [Initial : {0, 1, 3, 8, -1}, Max : {0, 4, 8, IntMax, -2},
     Multiplier : {0, 50, 100, 150, 200, 1000}, cur : {0}]
=============================================================================
