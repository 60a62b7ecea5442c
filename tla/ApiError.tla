------------------------------ MODULE ApiError ------------------------------
(***************************************************************************)
(* Error values and package apierror: how an error returned by an API call *)
(* is classified and wrapped (v2/apierror/apierror.go).                    *)
(*                                                                         *)
(* A Go error is modelled by its Unwrap chain, a sequence of links with    *)
(* the outermost one first; the nil error is the empty sequence.  (A tree  *)
(* of joined errors is searched depth first by errors.As, so it is the     *)
(* sequence of its nodes in that order.)  Of the text of an error only one *)
(* fact is kept: whether it holds the x509 phrase that Invoke looks for.   *)
(* Of the details of an error only the ErrorInfo reason is kept.           *)
(***************************************************************************)
EXTENDS Integers, Sequences

CONSTANT Reasons    \* the reasons services give in an ErrorInfo

NoStatus == -1      \* the link has no GRPCStatus method
NoHTTP == -1        \* what HTTPCode returns when there is no googleapi.Error
NoReason == ""      \* no ErrorInfo among the details

ASSUME ApiErrorAssumption == NoReason \in Reasons

(* The gRPC codes that the functions below name, by their numbers. *)
OK == 0
Canceled == 1
Unknown == 2
InvalidArgument == 3
DeadlineExceeded == 4
NotFound == 5
PermissionDenied == 7
ResourceExhausted == 8
FailedPrecondition == 9
Aborted == 10
OutOfRange == 11
Unimplemented == 12
Internal == 13
Unavailable == 14
Unauthenticated == 16

LinkKinds == {"status", "http", "api", "deadline", "canceled", "plain"}

Links == [kind : LinkKinds,      \* the Go type of the link
          code : Int,            \* the code of its GRPCStatus, or NoStatus
          info : Reasons,        \* the reason in the details of that status
          http : Int,            \* the HTTP code it carries, or NoHTTP
          reason : Reasons,      \* the reason it reports (body or ErrDetails)
          cert : BOOLEAN]        \* its text holds the x509 phrase

ErrorValues == Seq(Links)
NilError == << >>

(* One link of each Go type. *)
Plain(kind, cert) ==
    [kind |-> kind, code |-> NoStatus, info |-> NoReason, http |-> NoHTTP,
     reason |-> NoReason, cert |-> cert]
StatusError(code, info) ==
    [Plain("status", FALSE) EXCEPT !.code = code, !.info = info]
GoogleapiError(http, reason) ==
    [Plain("http", FALSE) EXCEPT !.http = http, !.reason = reason]

----------------------------------------------------------------------------
(* The table of HTTP codes, and the ranges that it leaves out. *)
canonicalMap ==
    [h \in {200, 400, 403, 404, 409, 416, 429, 504, 501, 503, 401} |->
        CASE h = 200 -> OK
          [] h = 400 -> InvalidArgument
          [] h = 403 -> PermissionDenied
          [] h = 404 -> NotFound
          [] h = 409 -> Aborted
          [] h = 416 -> OutOfRange
          [] h = 429 -> ResourceExhausted
          [] h = 504 -> DeadlineExceeded
          [] h = 501 -> Unimplemented
          [] h = 503 -> Unavailable
          [] h = 401 -> Unauthenticated]

toCode(h) ==
    CASE h \in DOMAIN canonicalMap -> canonicalMap[h]
      [] h \in (200 .. 299) \ DOMAIN canonicalMap -> OK
      [] h \in (400 .. 499) \ DOMAIN canonicalMap -> FailedPrecondition
      [] h \in (500 .. 599) \ DOMAIN canonicalMap -> Internal
      [] OTHER -> Unknown

(* The links of e that carry a status, and those that are a                *)
(* *googleapi.Error; errors.As stops at the first one of those it wants.    *)
WithStatus(e) == {i \in DOMAIN e : e[i].code # NoStatus}
WithGoogleapi(e) == {i \in DOMAIN e : e[i].kind = "http"}
FirstIn(S) == CHOOSE i \in S : \A j \in S : i <= j

(* status.FromError: its ok result, and the status it finds. *)
StatusOK(e) == WithStatus(e) # {}
StatusOf(e) == e[FirstIn(WithStatus(e))]

(* errors.As(err, &herr) with herr a *googleapi.Error. *)
IsHTTPErr(e) == WithGoogleapi(e) # {}
HTTPErrOf(e) == e[FirstIn(WithGoogleapi(e))]

(* status.FromContextError: the code of an error that carries no status. *)
ContextCode(e) ==
    CASE \E i \in DOMAIN e : e[i].kind = "deadline" -> DeadlineExceeded
      [] /\ \A i \in DOMAIN e : e[i].kind # "deadline"
         /\ \E i \in DOMAIN e : e[i].kind = "canceled" -> Canceled
      [] OTHER -> Unknown

----------------------------------------------------------------------------
Parsable(e) == StatusOK(e) \/ IsHTTPErr(e)

(* Mutant: a googleapi.Error in the chain wins over a status. *)
setDetailsFromErrorHTTPFirst(e) ==
    IF ~IsHTTPErr(e)
    THEN [kind |-> "api", code |-> StatusOf(e).code, info |-> StatusOf(e).info,
          http |-> NoHTTP, reason |-> StatusOf(e).info, cert |-> e[1].cert]
    ELSE [kind |-> "api", code |-> toCode(HTTPErrOf(e).http), info |-> NoReason,
          http |-> HTTPErrOf(e).http, reason |-> HTTPErrOf(e).reason,
          cert |-> HTTPErrOf(e).cert]

(* setDetailsFromError: the APIError built over e.  A status anywhere in    *)
(* the chain wins over a googleapi.Error anywhere in it; the HTTP code is   *)
(* kept only in the second case.                                            *)
setDetailsFromError(e) ==
    IF StatusOK(e)
    THEN [kind |-> "api", code |-> StatusOf(e).code, info |-> StatusOf(e).info,
          http |-> NoHTTP, reason |-> StatusOf(e).info, cert |-> e[1].cert]
    ELSE [kind |-> "api", code |-> toCode(HTTPErrOf(e).http), info |-> NoReason,
          http |-> HTTPErrOf(e).http, reason |-> HTTPErrOf(e).reason,
          cert |-> HTTPErrOf(e).cert]

(* The APIError made of e, NilError when e is nil or cannot be parsed. *)
ParseError(e, wrap) ==
    IF ~Parsable(e) THEN NilError
    ELSE << setDetailsFromError(e) >> \o (IF wrap THEN e ELSE NilError)

(* Mutant: the original error is not kept. *)
FromErrorUnwrapped(e) == ParseError(e, FALSE)

FromError(e) == ParseError(e, TRUE)

Unwrap(e) == Tail(e)
Reason(e) == e[1].reason
HTTPCode(e) == e[1].http
=============================================================================
