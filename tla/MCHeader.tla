------------------------------ MODULE MCHeader ------------------------------
(* Small instances of Header for TLC. *)
EXTENDS Header, TLC

CONSTANTS key, v, w

Pair(k, x) == [key |-> k, value |-> x]

(* Three values for one name leave a slice with room to spare; the other    *)
(* lists tell apart two contexts derived from it.                           *)
MCKeyvals == {
    << Pair(key, v), Pair(key, v), Pair(key, w) >>,
    << Pair(key, w) >>,
    << Pair(XGoog, w) >>,
    << Pair(XGoog, v), Pair(key, v), Pair(XGoog, w) >> }

MCGoroutines == Permutations(Goroutines)
=============================================================================
