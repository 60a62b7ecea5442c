---------------------------- MODULE MCErrorChain ----------------------------
(* Small instances of ErrorChain and ErrorDetails for TLC. *)
EXTENDS ErrorDetails

MCBackoff == [Initial |-> 1, Max |-> 3, Multiplier |-> 200, cur |-> 0]

Codes == {Unknown, PermissionDenied, Unavailable, Internal}
HTTPs == {302, 403, 404, 418, 500, 503}

StatusErrors == {<< StatusError(c, r) >> : c \in Codes, r \in {NoReason, "DISABLED"}}
HTTPErrors == {<< GoogleapiError(h, r) >> : h \in HTTPs, r \in {NoReason, "DISABLED"}}

(* An error of one kind that wraps an error of the other, as               *)
(* googleapi.Error.Wrap makes it, and errors that cannot be parsed.         *)
MCOrigins ==
    StatusErrors \cup HTTPErrors
    \cup {h \o s : h \in HTTPErrors, s \in StatusErrors}
    \cup {<< Plain(k, FALSE) >> : k \in {"plain", "deadline", "canceled"}}

MCJudges ==
    {OnCodes({Unavailable, Internal}, MCBackoff),
     OnHTTPCodes(MCBackoff, {503, 500}), OnErrorFunc(MCBackoff)}

(* One detail, two of a kind, messages of the program between others, and   *)
(* Any values that cannot be decoded.                                      *)
Of(type, value) == [type |-> type, value |-> value]
MCPayloads == {
    << >>,
    << Of("ErrorInfo", "DISABLED") >>,
    << Of("ErrorInfo", "DISABLED"), Of("Help", "a"), Of("ErrorInfo", "") >>,
    << Of("CustomError", "a"), Of("RetryInfo", "a"), Of("AnotherError", "a"),
       Of("CustomError", "b"), Of("empty", ""), Of("ErrorInfo", "DISABLED") >>,
    << Of("BadRequest", "a"), Of("unresolved", ""), Of("QuotaFailure", "a") >> }
=============================================================================
