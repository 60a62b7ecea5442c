------------------------------ MODULE Backoff ------------------------------
(***************************************************************************)
(* Type Backoff of v2/call_option.go: the pauses between two attempts.     *)
(* Durations are integers; the Multiplier is in hundredths.  Products are  *)
(* exact but for the fraction that is cut off: float64 has 53 bits, and    *)
(* what it rounds beyond, a few hundred nanoseconds in the greatest        *)
(* durations, is left out.                                                 *)
(***************************************************************************)
EXTENDS Integers

CONSTANTS Second,   \* one second, in the unit of durations
          IntMax    \* the greatest duration, 2^63 - 1 in Go

ASSUME BackoffAssumption ==
    /\ Second \in Nat \ {0}
    /\ IntMax \in Nat
    /\ 30 * Second <= IntMax

IntMin == -IntMax - 1
Durations == IntMin .. IntMax

Backoffs == [Initial : Durations, Max : Durations, Multiplier : Int,
             cur : Durations]

(* Mutant: the Multiplier has no default. *)
NormalizedWithoutMultiplier(bo) ==
    LET initial == IF bo.Initial = 0 THEN Second ELSE bo.Initial
    IN  [Initial    |-> initial,
         cur        |-> IF bo.cur = 0 THEN initial ELSE bo.cur,
         Max        |-> IF bo.Max = 0 THEN 30 * Second ELSE bo.Max,
         Multiplier |-> bo.Multiplier]

(* What the first lines of Pause make of the parameters. *)
Normalized(bo) ==
    LET initial == IF bo.Initial = 0 THEN Second ELSE bo.Initial
    IN  [Initial    |-> initial,
         cur        |-> IF bo.cur = 0 THEN initial ELSE bo.cur,
         Max        |-> IF bo.Max = 0 THEN 30 * Second ELSE bo.Max,
         Multiplier |-> IF bo.Multiplier < 100 THEN 200 ELSE bo.Multiplier]

(* Mutant: rand.Int63n(cur - 1). *)
PausePanicsAtOne(bo) == Normalized(bo).cur - 1 <= 0

(* rand.Int63n panics unless its argument is positive. *)
PausePanics(bo) == Normalized(bo).cur <= 0

(* Mutant: 1 is added twice. *)
PauseResultsOffByOne(bo) == 1 .. Normalized(bo).cur + 1

(* The durations Pause may return. *)
PauseResults(bo) == 1 .. Normalized(bo).cur

(* time.Duration(float64(cur) * Multiplier).  Go leaves the conversion of a  *)
(* float out of range to the platform: amd64 gives IntMin, arm64 IntMax.     *)
Scaled(cur, multiplier) ==
    LET product == (cur * multiplier) \div 100
    IN  IF product <= IntMax THEN {product} ELSE {IntMin, IntMax}

(* Mutant: the period is not capped. *)
AfterPauseUncapped(bo) ==
    LET n == Normalized(bo)
    IN  {[n EXCEPT !.cur = c] : c \in Scaled(n.cur, n.Multiplier)}

(* The states a Pause may leave the Backoff in. *)
AfterPause(bo) ==
    LET n == Normalized(bo)
    IN  {[n EXCEPT !.cur = IF c > n.Max THEN n.Max ELSE c] :
            c \in Scaled(n.cur, n.Multiplier)}

(* A Backoff that can go on for ever: nothing negative, and no period that  *)
(* the next multiplication takes out of the range of a duration.  The first *)
(* period is Initial, or wherever a Backoff that was used before had got.   *)
(* With exact products: within 512 ns of 2^63 the code rounds a period up   *)
(* to 2^63, which is out of range, although it is sound here.               *)
Sound(bo) ==
    LET n == Normalized(bo)
        highest == IF n.cur > n.Max THEN n.cur ELSE n.Max
    IN  /\ n.cur > 0
        /\ n.Max > 0
        /\ (highest * n.Multiplier) \div 100 <= IntMax
=============================================================================
