-------------------------------- MODULE Retry --------------------------------
(***************************************************************************)
(* The Retryers of v2/call_option.go, OnErrorFunc, OnCodes and OnHTTPCodes,*)
(* and the functions that make them (CallSettings.Retry).                  *)
(***************************************************************************)
EXTENDS ApiError, Backoff, FiniteSets

(* "none": CallSettings.Retry is nil; "nil": it is a function that returns  *)
(* nil; otherwise it returns a new Retryer of that kind on every call.      *)
RetryerKinds == {"none", "nil", "codes", "http", "func"}

Retryers == [kind : RetryerKinds, codes : SUBSET Int, backoff : Backoffs]

NilBackoff == [Initial |-> 0, Max |-> 0, Multiplier |-> 0, cur |-> 0]
NilRetryer == [kind |-> "nil", codes |-> {}, backoff |-> NilBackoff]

(* The three constructors copy the Backoff, which has not been used yet. *)
OnErrorFunc(bo) == [kind |-> "func", codes |-> {}, backoff |-> bo]
OnCodes(cc, bo) == [kind |-> "codes", codes |-> cc, backoff |-> bo]
OnHTTPCodes(bo, cc) == [kind |-> "http", codes |-> cc, backoff |-> bo]

(* A call of CallSettings.Retry. *)
NewRetryer(template) ==
    IF template.kind = "nil" THEN NilRetryer ELSE template

(* The verdicts of Retryer.Retry(e); the predicate of OnErrorFunc belongs  *)
(* to the caller and may say anything.                                     *)
Verdicts(r, e) ==
    CASE r.kind = "codes" -> {StatusOK(e) /\ StatusOf(e).code \in r.codes}
      [] r.kind = "http"  -> {IsHTTPErr(e) /\ HTTPErrOf(e).http \in r.codes}
      [] r.kind = "func"  -> BOOLEAN
      [] OTHER            -> {FALSE}

(* The Retryer after a verdict that used its Backoff. *)
AfterRetry(r) == {[r EXCEPT !.backoff = bo] : bo \in AfterPause(r.backoff)}
=============================================================================
