------------------------------ MODULE Telemetry ------------------------------
(***************************************************************************)
(* What the duration metric of a call says about its outcome               *)
(* (v2/telemetry.go).  Attributes that are copied from the configuration   *)
(* (service, address, port, method, URL template) are left out, and so are *)
(* the message, domain and metadata, which only the logs use.              *)
(***************************************************************************)
EXTENDS ApiError

(* The values of ctx.Err(). *)
ContextErrors == {"none", "deadline", "canceled"}

codeToStr ==
    << "OK", "CANCELED", "UNKNOWN", "INVALID_ARGUMENT", "DEADLINE_EXCEEDED",
       "NOT_FOUND", "ALREADY_EXISTS", "PERMISSION_DENIED",
       "RESOURCE_EXHAUSTED", "FAILED_PRECONDITION", "ABORTED",
       "OUT_OF_RANGE", "UNIMPLEMENTED", "INTERNAL", "UNAVAILABLE",
       "DATA_LOSS", "UNAUTHENTICATED" >>

StatusStrings == {codeToStr[i] : i \in 1 .. 17}

grpcCodeToStatusString(c) ==
    IF c \in 0 .. 16 THEN codeToStr[c + 1] ELSE "UNKNOWN"

(* The %T verb: the Go type of the outermost link. *)
GoType == [kind \in LinkKinds |->
    CASE kind = "status"   -> "*status.Error"
      [] kind = "http"     -> "*googleapi.Error"
      [] kind = "api"      -> "*apierror.APIError"
      [] kind = "deadline" -> "context.deadlineExceededError"
      [] kind = "canceled" -> "*errors.errorString"
      [] kind = "plain"    -> "*errors.errorString"]

(* A value of error.type: where it comes from and its text; the decimal text *)
(* of an HTTP code is kept as the number.                                   *)
Sources == {"none", "client", "go", "status", "reason", "http"}
Texts == {"", "CLIENT_TIMEOUT", "CLIENT_CANCELLED"} \cup Reasons
         \cup StatusStrings \cup {GoType[kind] : kind \in LinkKinds}
ErrorTypes == [source : Sources, text : Texts, number : Int]

TypeText(source, text) == [source |-> source, text |-> text, number |-> NoHTTP]
TypeNumber(http) == [source |-> "http", text |-> "", number |-> http]

NoErrorType == TypeText("none", "")
ClientTimeout == TypeText("client", "CLIENT_TIMEOUT")
ClientCancelled == TypeText("client", "CLIENT_CANCELLED")

(* The error type before ParseError is consulted: the state of the context *)
(* first, then the status.                                                 *)
ClassifiedType(ctxErr, e) ==
    LET code == IF StatusOK(e) THEN StatusOf(e).code ELSE ContextCode(e)
    IN  CASE ctxErr = "deadline" -> ClientTimeout
          [] ctxErr = "canceled" -> ClientCancelled
          [] ctxErr = "none" /\ (~StatusOK(e) \/ code \in {Unknown, Internal})
                -> TypeText("go", GoType[e[1].kind])
          [] OTHER -> TypeText("status", grpcCodeToStatusString(code))

ErrorType(ctxErr, e) ==
    LET parsed == ParseError(e, FALSE)
    IN  IF parsed = NilError THEN ClassifiedType(ctxErr, e)
        ELSE IF Reason(parsed) # NoReason THEN TypeText("reason", Reason(parsed))
        ELSE IF HTTPCode(parsed) > 0 THEN TypeNumber(HTTPCode(parsed))
        ELSE ClassifiedType(ctxErr, e)

StatusCode(e) ==
    IF e = NilError THEN "OK"
    ELSE grpcCodeToStatusString(
            IF StatusOK(e) THEN StatusOf(e).code ELSE ContextCode(e))

ExtractTelemetryErrorInfo(ctxErr, e) ==
    [type |-> IF e = NilError THEN NoErrorType ELSE ErrorType(ctxErr, e),
     code |-> StatusCode(e)]

DataPoints == [type : ErrorTypes, code : StatusStrings, http : Int]

(* The attributes recordMetric puts on its data point: the error info and *)
(* http.response.status_code, which the transport left in the telemetry   *)
(* data of the context (0 when it left none).                             *)
DataPoint(ctxErr, e, http) ==
    [type |-> ExtractTelemetryErrorInfo(ctxErr, e).type,
     code |-> ExtractTelemetryErrorInfo(ctxErr, e).code,
     http |-> http]
=============================================================================
