------------------------------ MODULE MCInvoke ------------------------------
(* Small instances of Invoke for TLC. *)
EXTENDS Invoke

(* Errors: a transient status, a status with a reason, HTTP errors with and *)
(* without one, a certificate error, an error that cannot be parsed, the    *)
(* error of a context, and what a nested Invoke returns for an HTTP error.  *)
Transient == << StatusError(Unavailable, NoReason) >>
Denied == << StatusError(PermissionDenied, "DISABLED") >>
HTTPTransient == << GoogleapiError(503, NoReason) >>
HTTPDenied == << GoogleapiError(403, "DISABLED") >>
BadCertificate ==
    << [StatusError(Unavailable, NoReason) EXCEPT !.cert = TRUE] >>
Opaque == << Plain("plain", FALSE) >>
ContextDone == << Plain("deadline", FALSE) >>
WrappedStatus == << Plain("plain", FALSE), StatusError(Unavailable, NoReason) >>
Nested == FromError(HTTPTransient)

MCErrors == {Transient, Denied, HTTPTransient, HTTPDenied, BadCertificate,
             Opaque, ContextDone, WrappedStatus, Nested}

(* Limits 1, 2, 3, 3, ... *)
MCBackoff == [Initial |-> 1, Max |-> 3, Multiplier |-> 200, cur |-> 0]

(* The limits against the powers of the Multiplier, for whole Multipliers,  *)
(* where nothing is lost to rounding.                                       *)
ASSUME LimitsArePowers ==
    \A initial \in 1 .. 3, max \in 3 .. 9, whole \in 1 .. 3 :
        LET bo == [Initial |-> initial, Max |-> max,
                   Multiplier |-> 100 * whole, cur |-> 0]
        IN  \A k \in 0 .. MaxCount + 1 :
                LET grown == initial * whole ^ k
                IN  Limits(bo)[k] = IF grown < max THEN grown ELSE max

MCRetryers ==
    {OnCodes({Unavailable, DeadlineExceeded}, MCBackoff),
     OnHTTPCodes(MCBackoff, {503}), OnErrorFunc(MCBackoff)}
NoRetryers ==
    {NilRetryer, [NilRetryer EXCEPT !.kind = "none"]}

With(retryers, timeouts, metrics) ==
    [Retry : retryers, timeout : timeouts, clientMetrics : metrics]

MCFeatures == {[METRICS |-> TRUE, TRACING |-> TRUE],
               [METRICS |-> FALSE, TRACING |-> FALSE]}

(* A Backoff whose period overflows when IntMax is 30, and a negative one. *)
PanickingBackoffs ==
    {[Initial |-> 1, Max |-> 2, Multiplier |-> 5000, cur |-> 0],
     [Initial |-> -1, Max |-> 2, Multiplier |-> 200, cur |-> 0]}
MCPanickingSettings ==
    With({OnCodes({Unavailable}, bo) : bo \in PanickingBackoffs}, {0, 2},
         {TRUE, FALSE})

MCSettings ==
    With(MCRetryers, {0, 2}, {TRUE})
    \cup With(NoRetryers, {0, 1, -1}, {TRUE, FALSE})
    \cup MCPanickingSettings

MCDeadlines == {NoDeadline, 0, 2}
=============================================================================
