------------------------------- MODULE Invoke -------------------------------
(***************************************************************************)
(* One call of gax.Invoke (v2/invoke.go) and the world it runs in: the API *)
(* call it was given, the transport that fills in telemetry data, the      *)
(* clock, and a caller that may cancel the context at any moment.          *)
(*                                                                         *)
(* Time is counted in ticks: left and wake count down, elapsed counts up   *)
(* to MaxTime and stays there.  The counters of attempts stay at their     *)
(* last value too, so that a call may retry for ever in finitely many      *)
(* states.                                                                 *)
(***************************************************************************)
EXTENDS Retry, Telemetry

CONSTANTS CallErrors,        \* the errors the API call may return
          SettingsChoices,   \* the CallSettings a caller may resolve
          FeatureChoices,    \* the feature flags of the process
          CallerDeadlines,   \* ticks the caller's context has, or NoDeadline
          MaxTime,           \* where elapsed stops counting
          MaxCount           \* where retryCount stops counting

NoDeadline == -1
NoResend == -1      \* the context carries no resend_count

Settings == [Retry : Retryers, timeout : Int, clientMetrics : BOOLEAN]
Features == [METRICS : BOOLEAN, TRACING : BOOLEAN]

ASSUME InvokeAssumption ==
    /\ CallErrors \subseteq ErrorValues \ {NilError}
    /\ SettingsChoices \subseteq Settings
    /\ FeatureChoices \subseteq Features
    /\ CallerDeadlines \subseteq Nat \cup {NoDeadline}
    /\ MaxTime \in Nat
    /\ MaxCount \in Nat

VARIABLES
    settings,       \* the resolved CallSettings
    features,       \* what IsFeatureEnabled answers
    callerDeadline, \* the deadline of the caller's context
    ctxErr,         \* Err() of the context in use
    left,           \* ticks to the deadline of that context
    elapsed,        \* ticks since Invoke was entered
    cancelled,      \* the caller has cancelled its context
    pc,             \* where the goroutine is
    defers,         \* deferred functions, the last one runs first
    err,            \* the named result of invoke
    retryer,        \* the local variable of that name
    retryCount,     \* the local variable of that name
    wake,           \* ticks to the expiry of the timer of Sleep
    exit,           \* how the loop was left, see Exits
    td,             \* the HTTP status in TransportTelemetryData, 0 if none
    resend,         \* the resend_count the current attempt was given
    attempts,       \* history: attempts started
    lastErr,        \* history: what the latest attempt returned
    recorded        \* history: the data points given to the histogram

input == << settings, features, callerDeadline >>
context == << ctxErr, left >>
clock == << elapsed, cancelled >>
loop == << err, retryer, retryCount >>
observed == << attempts, lastErr, resend, td >>
vars == << input, context, clock, pc, defers, loop, wake, exit,
           observed, recorded >>

Locations == {"entry", "loop", "calling", "returned", "sleeping",
              "unwinding", "done"}
Deferred == {"cc", "recordMetric"}

(* A return, a return of Sleep's error, or a panic; "none" before that. *)
Exits == {"none", "returned", "interrupted", "panicked"}

TypeOK ==
    /\ settings \in Settings
    /\ features \in Features
    /\ callerDeadline \in Nat \cup {NoDeadline}
    /\ ctxErr \in ContextErrors
    /\ left \in Nat \cup {NoDeadline}
    /\ elapsed \in 0 .. MaxTime
    /\ cancelled \in BOOLEAN
    /\ pc \in Locations
    /\ defers \in Seq(Deferred)
    /\ err \in ErrorValues
    /\ retryer \in Retryers
    /\ retryCount \in 0 .. MaxCount
    /\ wake \in Nat
    /\ exit \in Exits
    /\ td \in Int
    /\ resend \in 0 .. MaxCount \cup {NoResend}
    /\ attempts \in 0 .. MaxCount + 1
    /\ lastErr \in ErrorValues
    /\ recorded \in Seq(DataPoints)

CountUp(n, bound) == IF n < bound THEN n + 1 ELSE n
CountDown(n) == IF n > 0 THEN n - 1 ELSE n

----------------------------------------------------------------------------
(* The caller: any settings, flags and context; the context may be done    *)
(* before the call.                                                        *)
Init ==
    /\ settings \in SettingsChoices
    /\ features \in FeatureChoices
    /\ callerDeadline \in CallerDeadlines
    /\ cancelled \in BOOLEAN
    /\ ctxErr = IF cancelled THEN "canceled"
                ELSE IF callerDeadline = 0 THEN "deadline" ELSE "none"
    /\ left = callerDeadline
    /\ elapsed = 0
    /\ pc = "entry"
    /\ defers = << >>
    /\ err = NilError
    /\ retryer = NilRetryer
    /\ retryCount = 0
    /\ wake = 0
    /\ exit = "none"
    /\ td = 0
    /\ resend = NoResend
    /\ attempts = 0
    /\ lastErr = NilError
    /\ recorded = << >>

(* Mutant: the deadline of the caller is not asked for. *)
DerivedAlways == settings.timeout # 0

(* context.WithTimeout is used only when the caller set no deadline; a      *)
(* timeout that is not positive has expired when the context is made.      *)
Derived == callerDeadline = NoDeadline /\ settings.timeout # 0

(* Mutant: the context is cancelled before the metric is recorded. *)
DeferStackSwapped ==
    (IF features.METRICS THEN << "recordMetric" >> ELSE << >>)
        \o (IF Derived THEN << "cc" >> ELSE << >>)

(* Mutant: the metric is deferred whatever the feature flag says. *)
DeferStackUnguarded ==
    (IF Derived THEN << "cc" >> ELSE << >>) \o << "recordMetric" >>

DeferStack ==
    (IF Derived THEN << "cc" >> ELSE << >>)
        \o (IF features.METRICS THEN << "recordMetric" >> ELSE << >>)

Enter ==
    /\ pc = "entry"
    /\ pc' = "loop"
    /\ left' = IF ~Derived THEN left
               ELSE IF settings.timeout > 0 THEN settings.timeout ELSE 0
    /\ ctxErr' = IF Derived /\ settings.timeout < 0 /\ ctxErr = "none"
                 THEN "deadline" ELSE ctxErr
    /\ defers' = DeferStack
    /\ UNCHANGED << input, clock, loop, wake, exit, observed, recorded >>

(* Mutant: the count of the attempt instead of the retry. *)
withRetryCountAhead(count) == IF features.TRACING THEN count + 1 ELSE NoResend

withRetryCount(count) == IF features.TRACING THEN count ELSE NoResend

StartAttempt ==
    /\ pc = "loop"
    /\ pc' = "calling"
    /\ resend' = withRetryCount(retryCount)
    /\ attempts' = CountUp(attempts, MaxCount + 1)
    /\ UNCHANGED << input, context, clock, defers, loop, wake, exit,
                    lastErr, td, recorded >>

(* What the transport may leave in the telemetry data when the attempt ends *)
(* with e: it has written the HTTP status if it saw a response.             *)
TransportWrites(e) ==
    IF ~features.METRICS THEN {td}
    ELSE {td} \cup (IF e = NilError THEN {200}
                    ELSE IF IsHTTPErr(e) THEN {HTTPErrOf(e).http} ELSE {})

(* Out of the loop, to the deferred functions. *)
LeaveBy(how) ==
    /\ pc' = "unwinding"
    /\ exit' = how

CallReturns(e) ==
    /\ pc = "calling"
    /\ pc' = "returned"
    /\ err' = e
    /\ lastErr' = e
    /\ td' \in TransportWrites(e)
    /\ UNCHANGED << input, context, clock, defers, retryer, retryCount, wake,
                    exit, attempts, resend, recorded >>

(* A panic of the API call unwinds through invoke, which runs its deferred *)
(* functions; err still is what it was before the attempt.                 *)
CallPanics ==
    /\ pc = "calling"
    /\ LeaveBy("panicked")
    /\ UNCHANGED << input, context, clock, defers, loop, wake, observed,
                    recorded >>

----------------------------------------------------------------------------
(* The body of the loop after the call, one action per way out. *)

(* Mutant: no exception for certificate errors. *)
CertErrorUnchecked == FALSE

CertError == err[1].cert
Surfaced == IF Parsable(err) THEN FromError(err) ELSE err

(* Mutant: every error is given to a new retryer. *)
RetryerMadeAgain == NewRetryer(settings.Retry)

(* The retryer is made once, at the first error that gets this far. *)
CurrentRetryer ==
    IF retryer = NilRetryer THEN NewRetryer(settings.Retry) ELSE retryer

ReturnSuccess ==
    /\ pc = "returned"
    /\ err = NilError
    /\ LeaveBy("returned")
    /\ UNCHANGED << input, context, clock, defers, loop, wake,
                    observed, recorded >>

ReturnCertError ==
    /\ pc = "returned"
    /\ err # NilError
    /\ CertError
    /\ LeaveBy("returned")
    /\ UNCHANGED << input, context, clock, defers, loop, wake,
                    observed, recorded >>

(* Mutant: no early return. *)
ExaminedAlways == pc = "returned"

(* The error goes on to the retry logic. *)
Examined == pc = "returned" /\ err # NilError /\ ~CertError

ReturnUnretried ==
    /\ Examined
    /\ settings.Retry.kind \in {"none", "nil"}
    /\ LeaveBy("returned")
    /\ err' = Surfaced
    /\ UNCHANGED << input, context, clock, defers, retryer, retryCount, wake,
                    observed, recorded >>

GiveUp ==
    /\ Examined
    /\ settings.Retry.kind \notin {"none", "nil"}
    /\ FALSE \in Verdicts(CurrentRetryer, Surfaced)
    /\ LeaveBy("returned")
    /\ err' = Surfaced
    /\ retryer' = CurrentRetryer
    /\ UNCHANGED << input, context, clock, defers, retryCount, wake,
                    observed, recorded >>

WillRetry ==
    /\ Examined
    /\ settings.Retry.kind \notin {"none", "nil"}
    /\ TRUE \in Verdicts(CurrentRetryer, Surfaced)

BeginSleep ==
    /\ WillRetry
    /\ ~PausePanics(CurrentRetryer.backoff)
    /\ pc' = "sleeping"
    /\ err' = Surfaced
    /\ retryer' \in AfterRetry(CurrentRetryer)
    /\ wake' \in PauseResults(CurrentRetryer.backoff)
    /\ UNCHANGED << input, context, clock, defers, retryCount, exit,
                    observed, recorded >>

(* rand.Int63n is given a period that is not positive. *)
RetryPanics ==
    /\ WillRetry
    /\ PausePanics(CurrentRetryer.backoff)
    /\ LeaveBy("panicked")
    /\ err' = Surfaced
    /\ retryer' = CurrentRetryer
    /\ UNCHANGED << input, context, clock, defers, retryCount, wake, observed,
                    recorded >>

(* The two cases of the select in Sleep; when both are ready, Go may take   *)
(* either one.                                                              *)
SleepDone ==
    /\ pc = "sleeping"
    /\ wake = 0
    /\ pc' = "loop"
    /\ err' = NilError
    /\ retryCount' = CountUp(retryCount, MaxCount)
    /\ UNCHANGED << input, context, clock, defers, retryer, wake, exit,
                    observed, recorded >>

(* Mutant: Sleep reports every interruption as a cancellation. *)
ContextErrorCanceled == << Plain("canceled", FALSE) >>

(* What ctx.Err() returns when it is not nil. *)
ContextError == << Plain(ctxErr, FALSE) >>

(* Mutant: the pause is a time.Sleep. *)
SleepUninterruptible == FALSE /\ UNCHANGED vars

SleepInterrupted ==
    /\ pc = "sleeping"
    /\ ctxErr # "none"
    /\ LeaveBy("interrupted")
    /\ err' = ContextError
    /\ wake' = 0
    /\ UNCHANGED << input, context, clock, defers, retryer, retryCount,
                    observed, recorded >>

----------------------------------------------------------------------------
(* Return or panic: the deferred functions run, the last one first. *)

NextDeferred == defers[Len(defers)]
PopDeferred == SubSeq(defers, 1, Len(defers) - 1)

(* Mutant: the arguments of recordMetric are evaluated by the defer. *)
RecordedEagerly ==
    IF settings.clientMetrics
    THEN Append(recorded, DataPoint(ctxErr, NilError, td)) ELSE recorded

(* What recordMetric makes of the histogram. *)
Recorded ==
    IF settings.clientMetrics
    THEN Append(recorded, DataPoint(ctxErr, err, td)) ELSE recorded

RunRecordMetric ==
    /\ pc = "unwinding"
    /\ defers # << >>
    /\ NextDeferred = "recordMetric"
    /\ defers' = PopDeferred
    /\ recorded' = Recorded
    /\ UNCHANGED << input, context, clock, pc, loop, wake, exit,
                    observed >>

RunCancel ==
    /\ pc = "unwinding"
    /\ defers # << >>
    /\ NextDeferred = "cc"
    /\ defers' = PopDeferred
    /\ ctxErr' = IF ctxErr = "none" THEN "canceled" ELSE ctxErr
    /\ UNCHANGED << input, left, clock, pc, loop, wake, exit, observed,
                    recorded >>

(* Mutant: the clean-up is not deferred, a panic passes it by. *)
UnwoundByPanic == defers = << >> \/ exit = "panicked"

Unwound == defers = << >>

Finish ==
    /\ pc = "unwinding"
    /\ Unwound
    /\ pc' = "done"
    /\ UNCHANGED << input, context, clock, defers, loop, wake, exit,
                    observed, recorded >>

----------------------------------------------------------------------------
(* The environment of the goroutine. *)

Tick ==
    /\ pc \notin {"entry", "done"}
    /\ left > 0 \/ wake > 0 \/ elapsed < MaxTime
    /\ left' = CountDown(left)
    /\ wake' = CountDown(wake)
    /\ elapsed' = CountUp(elapsed, MaxTime)
    /\ UNCHANGED << input, ctxErr, cancelled, pc, defers, loop, exit,
                    observed, recorded >>

DeadlineFires ==
    /\ pc # "done"
    /\ left = 0
    /\ ctxErr = "none"
    /\ ctxErr' = "deadline"
    /\ UNCHANGED << input, left, clock, pc, defers, loop, wake, exit,
                    observed, recorded >>

CallerCancels ==
    /\ pc # "done"
    /\ ~cancelled
    /\ cancelled' = TRUE
    /\ ctxErr' = IF ctxErr = "none" THEN "canceled" ELSE ctxErr
    /\ UNCHANGED << input, left, elapsed, pc, defers, loop, wake, exit,
                    observed, recorded >>

Terminated == pc = "done" /\ UNCHANGED vars

----------------------------------------------------------------------------
AttemptEnds == CallPanics \/ \E e \in CallErrors \cup {NilError} : CallReturns(e)

Examine ==
    \/ ReturnSuccess
    \/ ReturnCertError
    \/ ReturnUnretried
    \/ GiveUp
    \/ BeginSleep
    \/ RetryPanics

Unwind == RunRecordMetric \/ RunCancel \/ Finish

Goroutine ==
    \/ Enter
    \/ StartAttempt
    \/ AttemptEnds
    \/ Examine
    \/ SleepDone
    \/ SleepInterrupted
    \/ Unwind

Environment == Tick \/ DeadlineFires \/ CallerCancels

Next == Goroutine \/ Environment \/ Terminated

Spec == Init /\ [][Next]_vars

(* The goroutine is scheduled, the API call returns, time passes, and the   *)
(* context's timer fires.  Strong fairness for the interrupted sleep is the *)
(* uniform choice Go makes among the ready cases of a select.               *)
Fairness ==
    /\ WF_vars(Goroutine)
    /\ WF_vars(Tick)
    /\ WF_vars(DeadlineFires)
    /\ SF_vars(SleepInterrupted)

FairSpec == Spec /\ Fairness

----------------------------------------------------------------------------
(* Safety properties. *)

Returned == pc = "done" /\ exit # "panicked"

(* The deadline the documentation of WithTimeout promises: the caller's if  *)
(* it set one, else the timeout, else none (a negative timeout is over at   *)
(* once).                                                                   *)
Budget ==
    IF callerDeadline # NoDeadline THEN callerDeadline
    ELSE IF settings.timeout = 0 THEN NoDeadline
    ELSE IF settings.timeout < 0 THEN 0 ELSE settings.timeout

(* One deadline covers all the attempts and the pauses between them, and it *)
(* is counted from the moment Invoke was entered: no attempt, retry or      *)
(* pause moves it (v2/call_option.go, WithTimeout; v2/invoke.go, invoke).   *)
DeadlineBudget ==
    pc # "entry" =>
        IF Budget = NoDeadline THEN left = NoDeadline
        ELSE elapsed < MaxTime =>
                left = (IF elapsed < Budget THEN Budget - elapsed ELSE 0)

(* What a Retryer of the settings accepts, said of the error e the API call  *)
(* returned, before invoke wraps it: "codes" a status with one of its       *)
(* codes, also the status an HTTP error is mapped to, "http" a              *)
(* googleapi.Error with one of its codes, and nothing a certificate error.  *)
Retryable(r, e) ==
    /\ e # NilError
    /\ ~e[1].cert
    /\ \/ /\ r.kind = "codes"
          /\ \/ StatusOK(e) /\ StatusOf(e).code \in r.codes
             \/ ~StatusOK(e) /\ IsHTTPErr(e) /\ toCode(HTTPErrOf(e).http) \in r.codes
       \/ r.kind = "http" /\ IsHTTPErr(e) /\ HTTPErrOf(e).http \in r.codes
       \/ r.kind = "func"

(* What the comments on the Retryers promise: OnCodes "retries if and only  *)
(* if the previous attempt returns a GRPC error", which an HTTP error is    *)
(* not, whatever code it is mapped to; the others as above.                 *)
IsGRPCError(e) == \E i \in DOMAIN e : e[i].kind = "status"
Promised(r, e) == Retryable(r, e) /\ (r.kind = "codes" => IsGRPCError(e))

(* Every pause, and so every attempt but the first, follows an attempt that *)
(* failed with an error the Retryer accepts as the API call returned it: a  *)
(* certificate error is never retried, and wrapping the error makes no      *)
(* retry that would not have been one (v2/invoke.go, the loop of invoke,    *)
(* with the Retry methods of v2/call_option.go).                            *)
RetryOnlyWhenRetryable ==
    (pc = "sleeping" \/ (pc = "loop" /\ attempts > 0))
        => Retryable(settings.Retry, lastErr)

(* Conversely an error the Retryer accepts, and so every error the comments *)
(* promise to retry, never reaches the caller: whatever the wrapping did to *)
(* it, the call is retried until the context ends the wait.                 *)
RetryableIsRetried ==
    Returned /\ settings.Retry.kind # "func" /\ Retryable(settings.Retry, lastErr)
        => err \in {<< Plain("deadline", FALSE) >>, << Plain("canceled", FALSE) >>}

(* The "only if" of the comments on OnCodes and OnHTTPCodes: a retry        *)
(* follows an error they name (v2/call_option.go).  It does not hold: under *)
(* OnCodes an HTTP error is retried for the code it is mapped to.           *)
RetryOnlyWhenPromised ==
    (pc = "sleeping" \/ (pc = "loop" /\ attempts > 0))
        => Promised(settings.Retry, lastErr)

(* The caller gets what the last attempt returned, as it is or under one    *)
(* APIError that unwraps to it; or, when a wait was cut short, the reason   *)
(* why the context ended, which is what really happened to it: a cancelled  *)
(* result only if the caller cancelled, a deadline only if it has passed.   *)
ResultExplained ==
    Returned =>
        \/ err = lastErr
        \/ err # NilError /\ err[1].kind = "api" /\ Unwrap(err) = lastErr
        \/ err = << Plain("canceled", FALSE) >> /\ cancelled
        \/ err = << Plain("deadline", FALSE) >> /\ left = 0

(* The limits of the pauses of one call, as the documentation of Backoff    *)
(* states them: the period grows by the factor Multiplier with every retry, *)
(* from where the given Backoff starts, and is capped at Max.  What is less *)
(* than a unit of time is lost at each step, not at the end.                *)
Limits(bo) ==
    LET n == Normalized(bo)
        limit[k \in 0 .. MaxCount + 1] ==
            IF k = 0 THEN n.cur
            ELSE LET grown == (limit[k - 1] * n.Multiplier) \div 100
                 IN  IF grown < n.Max THEN grown ELSE n.Max
    IN  limit

(* Where retryCount has stopped counting it still gives the limit, if the   *)
(* limits have stopped growing by then.                                     *)
CountTellsLimit ==
    retryCount < MaxCount
    \/ LET limit == Limits(settings.Retry.backoff)
       IN  limit[MaxCount + 1] = limit[MaxCount]

(* The pauses of one call follow one envelope: the Backoff of its Retryer   *)
(* is neither restarted by a retry nor advanced twice (v2/call_option.go,   *)
(* Pause; v2/invoke.go, the lazily made retryer).                           *)
EnvelopeExact ==
    LET limit == Limits(settings.Retry.backoff)
    IN  pc = "sleeping" /\ Sound(settings.Retry.backoff) /\ CountTellsLimit =>
            /\ wake <= limit[retryCount]
            /\ retryer.backoff.cur = limit[retryCount + 1]

(* With the metrics feature on and an instrument configured, a call is      *)
(* recorded once, however often it retried and also when it panics, and is  *)
(* never recorded before it is over; otherwise it is not recorded           *)
(* (v2/invoke.go, the deferred recordMetric).                               *)
MetricOnce ==
    /\ pc \notin {"unwinding", "done"} => recorded = << >>
    /\ pc = "done" =>
        Len(recorded) =
            IF features.METRICS /\ settings.clientMetrics THEN 1 ELSE 0

(* The data point agrees with what the caller gets: the status of the       *)
(* returned error, and an error type exactly when there is an error.        *)
MetricMatchesResult ==
    Returned /\ recorded # << >> =>
        /\ recorded[1].code = StatusCode(err)
        /\ (recorded[1].type = NoErrorType) <=> (err = NilError)

(* A failure is put down to the client only if the client is its cause:     *)
(* CLIENT_CANCELLED if the caller cancelled its context, CLIENT_TIMEOUT if  *)
(* the deadline has passed.  In particular the cancellation of the derived  *)
(* context when invoke returns is not taken for the caller's                *)
(* (v2/telemetry.go, ExtractTelemetryErrorInfo; v2/invoke.go, the order of  *)
(* the two defer statements).                                               *)
HonestAttribution ==
    \A i \in 1 .. Len(recorded) :
        /\ recorded[i].type = ClientCancelled => cancelled
        /\ recorded[i].type = ClientTimeout => left = 0

(* Each attempt is told how many retries went before it, when tracing is on *)
(* and only then (v2/invoke.go, withRetryCount).                            *)
ResendCount ==
    pc = "calling" =>
        resend = IF features.TRACING THEN attempts - 1 ELSE NoResend

(* The derived context is released on every way out of invoke, a panic      *)
(* included (v2/invoke.go, defer cc()).                                     *)
NoContextLeak == pc = "done" /\ Derived => ctxErr # "none"

----------------------------------------------------------------------------
(* What the documentation says and the code does not do. *)

(* TelemetryErrorInfo.ErrorType: "If an apierror.APIError is found, it uses *)
(* its fine-grained Reason()" (v2/telemetry.go).                            *)
ReasonIsReported ==
    \A i \in 1 .. Len(recorded) :
        Returned /\ err # NilError /\ err[1].kind = "api" /\ Reason(err) # NoReason
            => recorded[i].type = TypeText("reason", Reason(err))

----------------------------------------------------------------------------
(* Liveness, under FairSpec: a call whose context is done, or has a          *)
(* deadline, returns, whatever the Retryer says and however the API call     *)
(* fails (v2/invoke.go, Sleep).                                              *)
CallEnds == (ctxErr # "none" \/ left >= 0) ~> (pc = "done")
----------------------------------------------------------------------------
(* Invoke implements RetryContract, see there: the steps of the loop are    *)
(* the phases of the contract, the deferred functions run after the reply.  *)

Phase ==
    CASE pc \in {"entry", "loop"} /\ attempts = 0 -> "idle"
      [] pc = "loop" /\ attempts > 0 -> "pause"
      [] pc = "calling" -> "attempt"
      [] pc = "returned" -> "judged"
      [] pc = "sleeping" -> "pause"
      [] OTHER -> "over"

LastResult ==
    IF attempts = 0 \/ pc = "calling" \/ exit = "panicked" THEN "none"
    ELSE IF lastErr = NilError THEN "ok" ELSE "failed"

Reply ==
    CASE exit = "none" -> "none"
      [] exit = "panicked" -> "panic"
      [] exit = "interrupted" -> "context"
      [] exit = "returned" /\ err = NilError -> "ok"
      [] OTHER -> "failed"

Contract == INSTANCE RetryContract WITH
    phase <- Phase, last <- LastResult, reply <- Reply, ctxDone <- ctxErr # "none"

(* The steps of Invoke are steps of the contract, and it ends when the      *)
(* contract says it does.                                                   *)
ImplementsContract == Contract!Spec
=============================================================================
