---------------------------- MODULE Pauses_proofs ----------------------------
(***************************************************************************)
(* The pauses of a Backoff stay within their bounds, for every parameter,  *)
(* every platform's overflow and every number of retries.                  *)
(***************************************************************************)
EXTENDS Pauses, Retry_proofs

(* The Backoff is still what the program made, or Pause has filled in its  *)
(* defaults; in that case, if the parameters are sound, the period is      *)
(* positive and at most Max, so that the next multiplication is in range.  *)
Params(b) == << b.Initial, b.Max, b.Multiplier >>

PeriodInRange ==
    Sound(given) => bo.cur \in 1 .. Normalized(given).Max

Shape ==
    \/ bo = given /\ bo.cur = 0 /\ pause = 0
    \/ /\ Params(bo) = Params(Normalized(given))
       /\ PeriodInRange
       /\ Sound(given) => /\ pause >= 1
                          /\ \/ pause <= Normalized(given).Max
                             \/ pause <= Normalized(given).Initial

IInv ==
    /\ TypeOK
    /\ given.cur = 0
    /\ ~panicked => Shape
    /\ PanicsOnlyIfUnsound
    /\ PauseBounded

(* What a first or a later Pause works with, when the parameters are sound. *)
LEMMA SoundPeriod ==
    ASSUME IInv, ~panicked, Sound(given)
    PROVE  LET n == Normalized(bo)
               g == Normalized(given)
           IN  /\ Params(n) = Params(g)
               /\ n.cur \in 1 .. IntMax
               /\ n.cur <= g.Initial \/ n.cur <= g.Max
               /\ (n.cur * n.Multiplier) \div 100 \in 1 .. IntMax
<1> DEFINE n == Normalized(bo)
           g == Normalized(given)
           highest == IF g.Initial > g.Max THEN g.Initial ELSE g.Max
<1>1. /\ g \in Backoffs /\ g.Multiplier >= 100
      /\ n \in Backoffs
  BY NormalizedType DEF IInv, TypeOK
<1>2. g.Initial > 0 /\ g.Max > 0 /\ (highest * g.Multiplier) \div 100 <= IntMax
  <2>1. g.cur = g.Initial
    BY DEF IInv, Normalized
  <2> QED  BY <2>1 DEF Sound
<1>3. Params(n) = Params(g) /\ n.cur >= 1 /\ n.cur <= highest
      /\ (n.cur <= g.Initial \/ n.cur <= g.Max)
  <2>1. CASE bo = given /\ bo.cur = 0
    BY <1>1, <1>2, <2>1 DEF Params, Normalized, Backoffs, Durations, IntMin
  <2>2. CASE Params(bo) = Params(g) /\ PeriodInRange
    <3>1. /\ bo.Initial = g.Initial /\ bo.Max = g.Max
          /\ bo.Multiplier = g.Multiplier
          /\ bo.cur \in 1 .. g.Max
      BY <2>2 DEF Params, PeriodInRange
    <3>2. g.Max \in Int /\ g.Initial \in Int /\ g.Multiplier \in Int
      BY <1>1 DEF Backoffs, Durations, IntMin
    <3> HIDE DEF g
    <3>3. /\ n.cur = bo.cur /\ n.Initial = g.Initial /\ n.Max = g.Max
          /\ n.Multiplier = g.Multiplier
      BY <3>1, <3>2, <1>1, <1>2 DEF Normalized
    <3> QED  BY <3>1, <3>2, <3>3, <1>2 DEF Params
  <2> QED  BY <2>1, <2>2 DEF IInv, Shape
<1>4. n.cur \in Nat /\ highest \in Nat /\ n.Multiplier \in Nat /\ n.cur \in Durations
  BY <1>1, <1>2, <1>3 DEF Params, Backoffs, Durations, IntMin
<1>5. n.Multiplier = g.Multiplier
  BY <1>3 DEF Params
<1> HIDE DEF n, g, highest
<1>6. n.cur * n.Multiplier <= highest * n.Multiplier
  BY <1>3, <1>4, TimesMonotone
<1>7. n.cur * n.Multiplier \in Nat /\ highest * n.Multiplier \in Nat
  BY <1>4
<1>8. (n.cur * n.Multiplier) \div 100 <= IntMax
  BY <1>2, <1>5, <1>6, <1>7, BackoffAssumption
<1>9. /\ (n.cur * n.Multiplier) \div 100 \in Nat
      /\ n.cur <= (n.cur * n.Multiplier) \div 100
  BY <1>1, <1>3, <1>4, <1>5, ScaledGrows
<1> QED
  BY <1>1, <1>3, <1>4, <1>8, <1>9, BackoffAssumption
  DEF n, g, Backoffs, Durations, IntMin

LEMMA InitIInv == Init => IInv
<1> SUFFICES ASSUME Init PROVE IInv
  OBVIOUS
<1>0. given \in Backoffs
  BY PausesAssumption DEF Init
<1>1. TypeOK
  <2>1. 0 \in 0 .. IntMax
    BY BackoffAssumption
  <2>2. panicked \in BOOLEAN
    BY Zenon DEF Init
  <2>3. bo \in Backoffs /\ pause \in 0 .. IntMax
    BY <1>0, <2>1 DEF Init
  <2> QED  BY <1>0, <2>2, <2>3, Zenon DEF TypeOK
<1>2. bo = given /\ bo.cur = 0 /\ pause = 0 /\ ~panicked
  BY PausesAssumption DEF Init
<1>3. Normalized(given) \in Backoffs
  BY <1>1, NormalizedType DEF TypeOK
<1>4. PauseBounded
  <2>1. Normalized(given).Initial = Normalized(given).cur
    BY <1>2 DEF Normalized
  <2> QED  BY <1>2, <1>3, <2>1 DEF PauseBounded, Sound, Backoffs, Durations, IntMin
<1> QED  BY <1>1, <1>2, <1>4 DEF IInv, Shape, PanicsOnlyIfUnsound

LEMMA PauseIInv == IInv /\ Pause => IInv'
<1> SUFFICES ASSUME IInv, Pause PROVE IInv'
  OBVIOUS
<1> DEFINE n == Normalized(bo)
           g == Normalized(given)
<1>0. /\ TypeOK
      /\ ~panicked /\ panicked' = FALSE /\ given' = given
      /\ ~PausePanics(bo)
      /\ pause' \in 1 .. n.cur
      /\ bo' \in AfterPause(bo)
  BY DEF IInv, Pause, PauseResults
<1>1. n \in Backoffs /\ g \in Backoffs /\ n.cur \in Int /\ n.cur <= IntMax
  BY <1>0, NormalizedType DEF TypeOK, Backoffs, Durations, IntMin
<1>2. TypeOK'
  <2>1. bo' \in Backoffs
    BY <1>0, AfterPauseType DEF TypeOK
  <2>2. pause' \in 0 .. IntMax
    BY <1>0, <1>1, BackoffAssumption
  <2> QED  BY <1>0, <2>1, <2>2 DEF TypeOK
<1>3. PICK c \in Scaled(n.cur, n.Multiplier) :
        bo' = [n EXCEPT !.cur = IF c > n.Max THEN n.Max ELSE c]
  BY <1>0 DEF AfterPause
<1>4. /\ bo'.cur = (IF c > n.Max THEN n.Max ELSE c)
      /\ Params(bo') = Params(n)
  BY <1>1, <1>3 DEF Backoffs, Params
<1>5. Params(n) = Params(g)
  <2>1. CASE bo = given /\ bo.cur = 0
    BY <2>1
  <2>2. CASE Params(bo) = Params(g)
    <3> HIDE DEF g
    <3>1. bo.Initial = g.Initial /\ bo.Max = g.Max /\ bo.Multiplier = g.Multiplier
      BY <2>2 DEF Params
    <3>2. g.Initial # 0 /\ g.Max # 0 /\ g.Multiplier >= 100 /\ g.Multiplier \in Int
      BY <1>0, NormalizedType DEF g, TypeOK, Backoffs
    <3> QED  BY <3>1, <3>2 DEF Normalized, Params
  <2> QED  BY <1>0, <2>1, <2>2 DEF IInv, Shape
<1>6. ASSUME Sound(given)
      PROVE  /\ bo'.cur \in 1 .. g.Max
             /\ pause' >= 1 /\ (pause' <= g.Max \/ pause' <= g.Initial)
  <2>1. /\ n.cur \in 1 .. IntMax
        /\ n.cur <= g.Initial \/ n.cur <= g.Max
        /\ (n.cur * n.Multiplier) \div 100 \in 1 .. IntMax
    BY <1>0, <1>6, SoundPeriod
  <2>2. n.Max = g.Max /\ g.Max > 0 /\ g.Max \in Int /\ g.Initial \in Int
    BY <1>1, <1>5, <1>6 DEF Params, Sound, Backoffs, Durations, IntMin
  <2> HIDE DEF n, g
  <2>3. c = (n.cur * n.Multiplier) \div 100
    BY <2>1, <1>3 DEF Scaled
  <2>4. c \in Int /\ c >= 1
    BY <2>1, <2>3
  <2>5. bo'.cur \in 1 .. g.Max
    BY <1>4, <2>2, <2>4
  <2> QED  BY <1>0, <2>1, <2>2, <2>5
<1>7. Shape'
  BY <1>0, <1>4, <1>5, <1>6 DEF Shape, PeriodInRange
<1>8. PauseBounded'
  BY <1>0, <1>6 DEF PauseBounded
<1> QED  BY <1>0, <1>2, <1>7, <1>8 DEF IInv, PanicsOnlyIfUnsound

LEMMA PanicIInv == IInv /\ PausePanicking => IInv'
<1> SUFFICES ASSUME IInv, PausePanicking PROVE IInv'
  OBVIOUS
<1>1. ~panicked /\ PausePanics(bo) /\ TypeOK
  BY DEF IInv, PausePanicking
<1>2. ~Sound(given)
  <2> SUFFICES ASSUME Sound(given) PROVE FALSE
    OBVIOUS
  <2>1. Normalized(bo).cur \in 1 .. IntMax
    BY <1>1, SoundPeriod
  <2> QED  BY <1>1, <2>1 DEF PausePanics
<1>3. TypeOK'
  BY <1>1, NormalizedType DEF TypeOK, PausePanicking
<1> QED  BY <1>2, <1>3 DEF IInv, PausePanicking, PanicsOnlyIfUnsound, PauseBounded

LEMMA NextIInv == IInv /\ [Next]_vars => IInv'
<1> SUFFICES ASSUME IInv, [Next]_vars PROVE IInv'
  OBVIOUS
<1>1. CASE Pause
  BY <1>1, PauseIInv
<1>2. CASE PausePanicking
  BY <1>2, PanicIInv
<1>3. CASE UNCHANGED vars
  BY <1>3 DEF vars, IInv, TypeOK, Shape, PeriodInRange, PanicsOnlyIfUnsound,
              PauseBounded
<1> QED  BY <1>1, <1>2, <1>3 DEF Next

LEMMA PausesInvariant == Spec => []IInv
<1> QED  BY InitIInv, NextIInv, PTL DEF Spec

(* Whatever the parameters, the arithmetic of Pause stays within the width  *)
(* of a duration (call_option.go, Pause).                                   *)
THEOREM PausesAreTyped == Spec => []TypeOK
<1>1. IInv => TypeOK
  BY DEF IInv
<1> QED  BY <1>1, PausesInvariant, PTL

(* Over any number of retries, Pause panics for unsound parameters only     *)
(* (call_option.go, Pause).                                                 *)
THEOREM NoPanicIfSound == Spec => []PanicsOnlyIfUnsound
<1>1. IInv => PanicsOnlyIfUnsound
  BY DEF IInv
<1> QED  BY <1>1, PausesInvariant, PTL

(* Over any number of retries, every pause of sound parameters is positive  *)
(* and at most the larger of Initial and Max (call_option.go, Pause).       *)
THEOREM PausesAreBounded == Spec => []PauseBounded
<1>1. IInv => PauseBounded
  BY DEF IInv
<1> QED  BY <1>1, PausesInvariant, PTL

(* The limit of the pauses never shrinks while a call retries, unless it    *)
(* started above Max (call_option.go, Pause).                               *)
THEOREM PeriodOnlyGrows == Spec => PeriodGrows
<1> DEFINE n == Normalized(bo)
           g == Normalized(given)
           Grows == Sound(given) /\ g.Initial <= g.Max => n.cur <= bo'.cur
<1>1. IInv /\ [Next]_vars => [Grows]_vars
  <2> SUFFICES ASSUME IInv, Next, Sound(given), g.Initial <= g.Max
               PROVE  n.cur <= bo'.cur
    OBVIOUS
  <2>1. CASE Pause
    <3>1. /\ Params(n) = Params(g)
          /\ n.cur \in 1 .. IntMax
          /\ n.cur <= g.Initial \/ n.cur <= g.Max
          /\ (n.cur * n.Multiplier) \div 100 \in 1 .. IntMax
      BY <2>1, SoundPeriod DEF Pause
    <3>2. /\ n \in Backoffs /\ g \in Backoffs /\ n.Multiplier >= 100
      BY NormalizedType DEF IInv, TypeOK
    <3>3. /\ n.cur \in Durations /\ n.cur > 0 /\ n.Multiplier \in Int
          /\ n.Max = g.Max /\ g.Max \in Int /\ g.Initial \in Int
      BY <3>1, <3>2 DEF Params, Backoffs, Durations, IntMin
    <3>4. PICK c \in Scaled(n.cur, n.Multiplier) :
            bo' = [n EXCEPT !.cur = IF c > n.Max THEN n.Max ELSE c]
      BY <2>1 DEF Pause, AfterPause
    <3>5. bo'.cur = IF c > n.Max THEN n.Max ELSE c
      BY <3>2, <3>4 DEF Backoffs
    <3> HIDE DEF n, g
    <3>6. c = (n.cur * n.Multiplier) \div 100
      BY <3>1, <3>4 DEF Scaled
    <3>7. n.cur <= c
      BY <3>2, <3>3, <3>6, ScaledGrows
    <3>8. n.cur <= n.Max
      BY <3>1, <3>3
    <3> QED  BY <3>1, <3>5, <3>6, <3>7, <3>8
  <2>2. CASE PausePanicking
    <3>1. bo'.cur = n.cur /\ n.cur \in Int
      BY <2>2, NormalizedType
      DEF PausePanicking, IInv, TypeOK, Backoffs, Durations, IntMin
    <3> QED  BY <3>1
  <2> QED  BY <2>1, <2>2 DEF Next
<1>2. [Grows]_vars
        = [Sound(given) /\ Normalized(given).Initial <= Normalized(given).Max
             => Normalized(bo).cur <= bo'.cur]_vars
  OBVIOUS
<1> QED  BY <1>1, <1>2, InitIInv, NextIInv, PTL DEF Spec, PeriodGrows
=============================================================================
