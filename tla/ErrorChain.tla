----------------------------- MODULE ErrorChain -----------------------------
(***************************************************************************)
(* The life of one error on its way up through layers of a program: an     *)
(* Invoke, or a caller of apierror.FromError, makes an APIError of it, and *)
(* code between the layers annotates it (fmt.Errorf with %w).  Each layer  *)
(* classifies the error it gets anew (v2/apierror/apierror.go).            *)
(***************************************************************************)
EXTENDS Retry

CONSTANTS Origins,      \* the errors at the bottom
          Judges,       \* the Retryers that layers consult
          MaxLayers     \* bound on the layers

ASSUME ErrorChainAssumption ==
    /\ Origins \subseteq ErrorValues \ {NilError}
    /\ Judges \subseteq Retryers
    /\ MaxLayers \in Nat

VARIABLES origin,   \* the error at the bottom
          chain     \* the error as the top layer sees it

vars == << origin, chain >>

TypeOK ==
    /\ origin \in ErrorValues
    /\ chain \in ErrorValues

Init ==
    /\ origin \in Origins
    /\ chain = origin

HasRoom == Len(chain) < Len(origin) + MaxLayers

(* A layer that calls FromError and keeps the APIError if it gets one. *)
Classify ==
    /\ HasRoom
    /\ Parsable(chain)
    /\ chain' = FromError(chain)
    /\ UNCHANGED origin

Annotate ==
    /\ HasRoom
    /\ chain' = << Plain("plain", chain[1].cert) >> \o chain
    /\ UNCHANGED origin

Next == Classify \/ Annotate

Spec == Init /\ [][Next]_vars

----------------------------------------------------------------------------
(* However many layers wrap an error, unwrapping leads back to it.          *)
OriginReachable ==
    /\ Len(origin) <= Len(chain)
    /\ SubSeq(chain, Len(chain) - Len(origin) + 1, Len(chain)) = origin

(* A layer never changes the gRPC status of an error that has one, and      *)
(* never hides the googleapi.Error in it (v2/apierror/apierror.go,          *)
(* GRPCStatus and Unwrap).                                                  *)
StatusKept ==
    [][/\ StatusOK(chain) => /\ StatusOK(chain')
                             /\ StatusOf(chain').code = StatusOf(chain).code
                             /\ StatusOf(chain').info = StatusOf(chain).info
       /\ IsHTTPErr(chain) => /\ IsHTTPErr(chain')
                              /\ HTTPErrOf(chain') = HTTPErrOf(chain)]_vars

(* So a Retryer of an outer layer that would have retried the error below   *)
(* still retries it above, whatever wraps it in between.                    *)
RetryKept ==
    \A r \in Judges : Verdicts(r, origin) = {TRUE} => Verdicts(r, chain) = {TRUE}

(* The documentation of APIError.HTTPCode: it "returns the underlying HTTP  *)
(* response status code", and -1 "if the underlying error is a              *)
(* [google.golang.org/grpc/status.Status]".                                 *)
HTTPCodeIsUnderlying ==
    chain[1].kind = "api" =>
        HTTPCode(chain) =
            (IF StatusOK(origin) THEN NoHTTP ELSE HTTPErrOf(origin).http)
=============================================================================
