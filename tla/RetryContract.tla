--------------------------- MODULE RetryContract ---------------------------
(***************************************************************************)
(* What the caller of gax.Invoke is promised, without the retry logic, the *)
(* telemetry and the clock: attempts one at a time with a pause between    *)
(* each two, one reply at the end that says why the call ended, and an end *)
(* once the context is done.  Abstract: Invoke implements it.              *)
(***************************************************************************)
VARIABLES phase,    \* "idle", "attempt", "judged", "pause", "over"
          last,     \* how the attempt ended: "none" (yet), "ok", "failed"
          reply,    \* "none", "ok", "failed", "context" or "panic"
          ctxDone   \* the context of the call is done

vars == << phase, last, reply, ctxDone >>

Init ==
    /\ phase = "idle"
    /\ last = "none"
    /\ reply = "none"
    /\ ctxDone \in BOOLEAN

Begin ==
    /\ phase = "idle"
    /\ phase' = "attempt"
    /\ last' = "none"
    /\ UNCHANGED << reply, ctxDone >>

AttemptEnds(result) ==
    /\ phase = "attempt"
    /\ phase' = "judged"
    /\ last' = result
    /\ UNCHANGED << reply, ctxDone >>

(* The reply is the result of the last attempt ... *)
Reply ==
    /\ phase = "judged"
    /\ phase' = "over"
    /\ reply' = last
    /\ UNCHANGED << last, ctxDone >>

(* ... unless that was a failure that is worth another attempt. *)
Pause ==
    /\ phase = "judged"
    /\ last = "failed"
    /\ phase' = "pause"
    /\ UNCHANGED << last, reply, ctxDone >>

Resume ==
    /\ phase = "pause"
    /\ phase' = "attempt"
    /\ last' = "none"
    /\ UNCHANGED << reply, ctxDone >>

Interrupt ==
    /\ phase = "pause"
    /\ ctxDone
    /\ phase' = "over"
    /\ reply' = "context"
    /\ UNCHANGED << last, ctxDone >>

(* The code the call runs, the API call or the Retryer, panics. *)
Panic ==
    /\ phase \in {"attempt", "judged"}
    /\ phase' = "over"
    /\ last' = "none"
    /\ reply' = "panic"
    /\ UNCHANGED ctxDone

ContextEnds ==
    /\ ~ctxDone
    /\ ctxDone' = TRUE
    /\ UNCHANGED << phase, last, reply >>

Next ==
    \/ Begin
    \/ \E result \in {"ok", "failed"} : AttemptEnds(result)
    \/ Reply
    \/ Pause
    \/ Resume
    \/ Interrupt
    \/ Panic
    \/ ContextEnds

Ends == ctxDone ~> (phase = "over")

Safe == Init /\ [][Next]_vars
Spec == Safe /\ Ends
=============================================================================
