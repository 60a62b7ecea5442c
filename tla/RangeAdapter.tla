---------------------------- MODULE RangeAdapter ----------------------------
(***************************************************************************)
(* RangeAdapter (v2/iterator/iterator.go): the iterator of a client library *)
(* as a function to range over.  The function may be ranged over again,    *)
(* after a break or from the body of a range that is still going on: all   *)
(* these ranges share one err.                                             *)
(***************************************************************************)
EXTENDS Source, Sequences

CONSTANTS MaxRanges,   \* bound: ranges that are started
          MaxNesting   \* bound: ranges that go on at a time

ASSUME RangeAssumption == MaxRanges \in Nat /\ MaxNesting \in Nat

VARIABLES iterErr,    \* err
          frames,     \* the ranges that go on, the innermost last: "loop" or "body"
          started,    \* how many were started
          seen,       \* history: what was yielded: numbers of items, 0 for an error
          again       \* history: next was called after it had ended or failed

rangeVars == << iterErr, frames, started, seen, again >>

RangeTypeOK ==
    /\ iterErr \in {"none", "EOF", "failed"}
    /\ frames \in Seq({"loop", "body"}) /\ Len(frames) <= MaxNesting
    /\ \A i \in 1 .. Len(frames) - 1 : frames[i] = "body"
    /\ started \in 0 .. MaxRanges
    /\ seen \in Seq(0 .. length)
    /\ again \in BOOLEAN

RangeInit ==
    /\ iterErr = "none" /\ frames = << >> /\ started = 0
    /\ seen = << >> /\ again = FALSE

In(where) == frames # << >> /\ frames[Len(frames)] = where
Outer == SubSeq(frames, 1, Len(frames) - 1)

(* Mutant: err is declared in the function that RangeAdapter returns. *)
FreshErr == "none"

KeptErr == iterErr

BeginRange ==
    /\ frames = << >> \/ In("body")
    /\ Len(frames) < MaxNesting /\ started < MaxRanges
    /\ frames' = Append(frames, "loop")
    /\ started' = started + 1
    /\ iterErr' = KeptErr
    /\ UNCHANGED << sourceVars, seen, again >>

(* Mutant: only Done ends a range, at the call of next. *)
NeverOver == FALSE

Over == iterErr # "none"

RangeOver ==
    /\ In("loop") /\ Over
    /\ frames' = Outer
    /\ UNCHANGED << sourceVars, iterErr, started, seen, again >>

(* A second error in a row is told from the first, a third is not. *)
Saw(item) ==
    IF Len(seen) > 1 /\ seen[Len(seen)] = 0 /\ seen[Len(seen) - 1] = 0 THEN seen
    ELSE Append(seen, item)

(* next returns an item or an error, otherit.Done at the end. *)
CallNext ==
    /\ In("loop") /\ ~Over
    /\ ReadUpTo(1)
    /\ (told' = "none") = (pos' = pos + 1)
    /\ iterErr' = told'
    /\ again' = (again \/ told # "none")
    /\ IF told' = "EOF" THEN frames' = Outer /\ UNCHANGED seen
       ELSE /\ frames' = Append(Outer, "body")
            /\ seen' = Saw(IF told' = "none" THEN pos' ELSE 0)
    /\ UNCHANGED started

(* yield returns true at the end of the body and false on a break. *)
Yielded ==
    /\ In("body")
    /\ frames' \in {Append(Outer, "loop"), Outer}
    /\ UNCHANGED << sourceVars, iterErr, started, seen, again >>

RangeSteps == RangeOver \/ CallNext \/ Yielded

----------------------------------------------------------------------------
(* All the ranges over one function together see every item once, in order, *)
(* and an error once, after them, and next is not called again when it has  *)
(* ended or failed, however the ranges are nested, broken off and resumed   *)
(* (v2/iterator/iterator.go, RangeAdapter).                                 *)
ItemsOnceInOrder ==
    /\ seen = [i \in 1 .. pos |-> i] \o (IF hit THEN << 0 >> ELSE << >>)
    /\ ~again

(* A range comes to its end, also if its body never breaks off. *)
RangesEnd == frames # << >> ~> frames = << >>
=============================================================================
