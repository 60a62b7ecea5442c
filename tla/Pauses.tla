------------------------------- MODULE Pauses -------------------------------
(***************************************************************************)
(* One Backoff used again and again: method Pause of v2/call_option.go,    *)
(* called by a Retryer on every retry, for any parameters a program may    *)
(* give it.                                                                *)
(***************************************************************************)
EXTENDS Backoff

CONSTANT Parameters     \* the Backoffs a program may start from

ASSUME PausesAssumption ==
    Parameters \subseteq {bo \in Backoffs : bo.cur = 0}

VARIABLES given,        \* the parameters this Backoff started from
          bo,           \* the Backoff
          pause,        \* the duration Pause returned last, 0 before that
          panicked      \* Pause has panicked

vars == << given, bo, pause, panicked >>

TypeOK ==
    /\ given \in Backoffs
    /\ bo \in Backoffs
    /\ pause \in 0 .. IntMax
    /\ panicked \in BOOLEAN

Init ==
    /\ given \in Parameters
    /\ bo = given
    /\ pause = 0
    /\ panicked = FALSE

Pause ==
    /\ ~panicked
    /\ ~PausePanics(bo)
    /\ pause' \in PauseResults(bo)
    /\ bo' \in AfterPause(bo)
    /\ UNCHANGED << given, panicked >>

PausePanicking ==
    /\ ~panicked
    /\ PausePanics(bo)
    /\ panicked' = TRUE
    /\ bo' = Normalized(bo)
    /\ UNCHANGED << given, pause >>

Next == Pause \/ PausePanicking

Spec == Init /\ [][Next]_vars

----------------------------------------------------------------------------
(* However often it is called, Pause panics only when its parameters are    *)
(* negative or so large that the period overflows; the defaults for zero    *)
(* fields never do (v2/call_option.go, Pause).                              *)
PanicsOnlyIfUnsound == panicked => ~Sound(given)

(* A pause is never longer than the larger of the first limit and Max, in   *)
(* particular no pause but those of the first limit exceeds Max; and a      *)
(* Backoff that is asked for a pause gives a positive one.                  *)
PauseBounded ==
    Sound(given) =>
        LET n == Normalized(given)
        IN  /\ pause <= n.Max \/ pause <= n.Initial
            /\ bo # given => pause >= 1 /\ bo.cur \in 1 .. n.Max

(* Waiting never gets shorter: the period does not decrease from one pause  *)
(* to the next, unless the first one was above Max.                         *)
PeriodGrows ==
    [][Sound(given) /\ Normalized(given).Initial <= Normalized(given).Max
            => Normalized(bo).cur <= bo'.cur]_vars
=============================================================================
