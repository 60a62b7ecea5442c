-------------------------------- MODULE Once --------------------------------
(***************************************************************************)
(* sync.Once and sync.OnceValue of the Go library, as far as feature.go and *)
(* telemetry.go use them: the first goroutine that gets here runs the      *)
(* function, the others wait until it is over, and whatever its outcome is *)
(* (a panic included, with OnceValue) it is that of every later call.      *)
(***************************************************************************)
CONSTANT Goroutines

VARIABLES once,     \* "new", "running", "done" or "panicked"
          at        \* where each goroutine is, see Places

Places == {"out", "waiting", "running", "in"}

TypeOK ==
    /\ once \in {"new", "running", "done", "panicked"}
    /\ at \in [Goroutines -> Places]

Init ==
    /\ once = "new"
    /\ at = [g \in Goroutines |-> "out"]

Move(g, from, to) ==
    /\ at[g] = from
    /\ at' = [at EXCEPT ![g] = to]

Call(g) == Move(g, "out", "waiting") /\ UNCHANGED once
Run(g) == once = "new" /\ Move(g, "waiting", "running") /\ once' = "running"
Finish(g) == Move(g, "running", "in") /\ once' = "done"
Panic(g) == Move(g, "running", "in") /\ once' = "panicked"

(* Mutant: those that wait are only woken when the function has returned. *)
PassDone(g) == once = "done" /\ Move(g, "waiting", "in") /\ UNCHANGED once

Pass(g) ==
    /\ once \in {"done", "panicked"}
    /\ Move(g, "waiting", "in")
    /\ UNCHANGED once
Leave(g) == Move(g, "in", "out") /\ UNCHANGED once

(* Nobody is between the call and the return of the function. *)
Quiet == \A g \in Goroutines : at[g] = "out"
=============================================================================
