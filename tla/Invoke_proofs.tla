---------------------------- MODULE Invoke_proofs ----------------------------
(***************************************************************************)
(* Theorems about one call of Invoke, for all errors, settings, feature    *)
(* flags and deadlines, and for every interleaving of the goroutine, the   *)
(* clock, the context and the caller.                                      *)
(***************************************************************************)
EXTENDS Invoke, Retry_proofs

----------------------------------------------------------------------------
(* Types of what the actions compute. *)

LEMMA NilErrorType == NilError \in ErrorValues
BY DEF NilError, ErrorValues

LEMMA OneLinkType ==
    ASSUME NEW link \in Links
    PROVE  << link >> \in ErrorValues
BY DEF ErrorValues

LEMMA SurfacedType ==
    ASSUME err \in ErrorValues
    PROVE  Surfaced \in ErrorValues
BY FromErrorLinks DEF Surfaced

LEMMA NilRetryerType == NilRetryer \in Retryers
<1>1. 0 \in Durations
  BY BackoffAssumption DEF Durations, IntMin
<1> QED  BY <1>1 DEF NilRetryer, NilBackoff, Retryers, RetryerKinds, Backoffs

LEMMA RetryerType ==
    ASSUME settings \in Settings, retryer \in Retryers
    PROVE  /\ CurrentRetryer \in Retryers
           /\ CurrentRetryer.backoff \in Backoffs
BY NilRetryerType DEF CurrentRetryer, NewRetryer, Settings, Retryers

LEMMA AfterRetryType ==
    ASSUME NEW r \in Retryers, ~PausePanics(r.backoff), NEW after \in AfterRetry(r)
    PROVE  after \in Retryers
<1>1. PICK b \in AfterPause(r.backoff) : after = [r EXCEPT !.backoff = b]
  BY DEF AfterRetry
<1>2. r.backoff \in Backoffs
  BY DEF Retryers
<1>3. b \in Backoffs
  BY <1>1, <1>2, AfterPauseType
<1> QED  BY <1>1, <1>3 DEF Retryers

LEMMA StatusStringType ==
    ASSUME NEW c
    PROVE  grpcCodeToStatusString(c) \in StatusStrings
<1>1. CASE c \in 0 .. 16
  <2>1. c + 1 \in 1 .. 17
    BY <1>1
  <2> QED  BY <1>1, <2>1 DEF grpcCodeToStatusString, StatusStrings
<1>2. CASE c \notin 0 .. 16
  <2>1. codeToStr[3] = "UNKNOWN"
    BY DEF codeToStr
  <2> QED  BY <1>2, <2>1 DEF grpcCodeToStatusString, StatusStrings
<1> QED  BY <1>1, <1>2

LEMMA ParsedLink ==
    ASSUME NEW e \in ErrorValues
    PROVE  /\ ParseError(e, FALSE) = NilError <=> ~Parsable(e)
           /\ Parsable(e) => ParseError(e, FALSE)[1] \in Links
<1>1. CASE Parsable(e)
  <2>1. setDetailsFromError(e) \in Links
    BY <1>1, APIErrorLink
  <2>2. << setDetailsFromError(e) >> \in Seq(Links)
    BY <2>1
  <2>3. ParseError(e, FALSE) = << setDetailsFromError(e) >>
    BY <1>1, <2>2, ConcatEmptySeq DEF ParseError, NilError
  <2>4. ASSUME NEW link \in Links
        PROVE  << link >> # NilError /\ << link >>[1] = link
    BY DEF NilError
  <2> QED  BY <1>1, <2>1, <2>3, <2>4, Zenon
<1>2. CASE ~Parsable(e)
  BY <1>2 DEF ParseError
<1> QED  BY <1>1, <1>2

LEMMA TypeTextType ==
    ASSUME NEW source \in Sources, NEW text \in Texts
    PROVE  TypeText(source, text) \in ErrorTypes
BY DEF TypeText, ErrorTypes, NoHTTP

LEMMA ClientTypes ==
    /\ ClientTimeout \in ErrorTypes
    /\ ClientCancelled \in ErrorTypes
    /\ NoErrorType \in ErrorTypes
<1>1. /\ "" \in Texts /\ "CLIENT_TIMEOUT" \in Texts
      /\ "CLIENT_CANCELLED" \in Texts
      /\ "none" \in Sources /\ "client" \in Sources
  BY DEF Texts, Sources
<1> QED  BY <1>1, TypeTextType DEF ClientTimeout, ClientCancelled, NoErrorType

LEMMA ErrorTypeType ==
    ASSUME NEW c \in ContextErrors, NEW e \in ErrorValues, e # NilError
    PROVE  ErrorType(c, e) \in ErrorTypes
<1>1. e[1] \in Links
  BY EmptySeq, LenProperties, ElementOfSeq DEF ErrorValues, NilError
<1>2. ClassifiedType(c, e) \in ErrorTypes
  <2>1. GoType[e[1].kind] \in Texts
    BY <1>1 DEF Texts, Links
  <2>2. \A k : grpcCodeToStatusString(k) \in Texts
    BY StatusStringType DEF Texts
  <2>3. "go" \in Sources /\ "status" \in Sources
    BY DEF Sources
  <2>4. TypeText("go", GoType[e[1].kind]) \in ErrorTypes
    BY <2>1, <2>3, TypeTextType
  <2>5. \A k : TypeText("status", grpcCodeToStatusString(k)) \in ErrorTypes
    BY <2>2, <2>3, TypeTextType
  <2> QED
    BY <2>4, <2>5, ClientTypes DEF ClassifiedType, ContextErrors
<1>3. Parsable(e) => /\ Reason(ParseError(e, FALSE)) \in Texts
                     /\ HTTPCode(ParseError(e, FALSE)) \in Int
  BY ParsedLink DEF Reason, HTTPCode, Links, Texts
<1>4. Parsable(e) =>
        /\ TypeText("reason", Reason(ParseError(e, FALSE))) \in ErrorTypes
        /\ TypeNumber(HTTPCode(ParseError(e, FALSE))) \in ErrorTypes
  <2>1. "reason" \in Sources /\ "http" \in Sources /\ "" \in Texts
    BY DEF Sources, Texts
  <2>2. \A h \in Int : TypeNumber(h) \in ErrorTypes
    BY <2>1 DEF TypeNumber, ErrorTypes
  <2> QED  BY <1>3, <2>1, <2>2, TypeTextType
<1> QED
  BY <1>2, <1>4, ParsedLink DEF ErrorType

LEMMA DataPointType ==
    ASSUME NEW c \in ContextErrors, NEW e \in ErrorValues, NEW h \in Int
    PROVE  DataPoint(c, e, h) \in DataPoints
<1>1. StatusCode(e) \in StatusStrings
  <2>1. codeToStr[1] = "OK"
    BY DEF codeToStr
  <2> QED  BY <2>1, StatusStringType DEF StatusCode, StatusStrings
<1> QED
  BY <1>1, ClientTypes, ErrorTypeType
  DEF DataPoint, DataPoints, ExtractTelemetryErrorInfo

----------------------------------------------------------------------------
(* Type correctness. *)

LEMMA DefersType ==
    ASSUME defers \in Seq(Deferred)
    PROVE  /\ DeferStack \in Seq(Deferred)
           /\ defers # << >> => PopDeferred \in Seq(Deferred)
<1>1. << "cc" >> \in Seq(Deferred) /\ << "recordMetric" >> \in Seq(Deferred)
      /\ << >> \in Seq(Deferred)
  BY DEF Deferred
<1>2. DeferStack \in Seq(Deferred)
  BY <1>1, ConcatProperties DEF DeferStack
<1>3. Len(defers) \in Nat /\ \A i \in 1 .. Len(defers) - 1 : defers[i] \in Deferred
  OBVIOUS
<1> QED  BY <1>2, <1>3, SubSeqProperties DEF PopDeferred

LEMMA InitType == Init => TypeOK
<1> SUFFICES ASSUME Init PROVE TypeOK
  OBVIOUS
<1>1. settings \in Settings /\ features \in Features
  BY InvokeAssumption DEF Init
<1>2. callerDeadline \in Nat \cup {NoDeadline}
  BY InvokeAssumption DEF Init
<1>3. ctxErr \in ContextErrors
  BY DEF Init, ContextErrors
<1>4. retryer \in Retryers
  BY NilRetryerType DEF Init
<1>5. err \in ErrorValues /\ lastErr \in ErrorValues
  BY DEF Init, ErrorValues, NilError
<1>6. /\ elapsed \in 0 .. MaxTime /\ retryCount \in 0 .. MaxCount
      /\ attempts \in 0 .. MaxCount + 1
  BY InvokeAssumption DEF Init
<1>7. defers \in Seq(Deferred) /\ recorded \in Seq(DataPoints)
  BY DEF Init
<1> QED
  BY <1>1, <1>2, <1>3, <1>4, <1>5, <1>6, <1>7
  DEF Init, TypeOK, Locations, Exits, NoResend

LEMMA NextType == TypeOK /\ [Next]_vars => TypeOK'
<1> SUFFICES ASSUME TypeOK, [Next]_vars PROVE TypeOK'
  OBVIOUS
<1> USE DEF TypeOK, input, context, clock, loop, observed, LeaveBy
<1>1. CASE Enter
  BY <1>1, DefersType DEF Enter, Locations, ContextErrors, Settings, NoDeadline
<1>2. CASE StartAttempt
  BY <1>2, InvokeAssumption
  DEF StartAttempt, Locations, withRetryCount, CountUp, NoResend
<1>3. CASE AttemptEnds
  <2>1. CASE CallPanics
    BY <2>1 DEF CallPanics, Locations, Exits
  <2>2. ASSUME NEW e \in CallErrors \cup {NilError}, CallReturns(e) PROVE TypeOK'
    <3>1. e \in ErrorValues
      BY InvokeAssumption, NilErrorType
    <3>2. TransportWrites(e) \subseteq Int
      BY <3>1, FoundLinks DEF TransportWrites, Links
    <3> QED  BY <2>2, <3>1, <3>2 DEF CallReturns, Locations
  <2> QED  BY <1>3, <2>1, <2>2 DEF AttemptEnds
<1>4. CASE Examine
  <2>1. /\ Surfaced \in ErrorValues
        /\ CurrentRetryer \in Retryers /\ CurrentRetryer.backoff \in Backoffs
    BY SurfacedType, RetryerType
  <2>2. CASE ReturnSuccess
    BY <2>2 DEF ReturnSuccess, Locations, Exits
  <2>3. CASE ReturnCertError
    BY <2>3 DEF ReturnCertError, Locations, Exits
  <2>4. CASE ReturnUnretried
    BY <2>1, <2>4 DEF ReturnUnretried, Locations, Exits
  <2>5. CASE GiveUp
    BY <2>1, <2>5 DEF GiveUp, Locations, Exits
  <2>6. CASE BeginSleep
    <3>1. Normalized(CurrentRetryer.backoff).cur \in Int
      BY <2>1, NormalizedType DEF Backoffs, Durations, IntMin
    <3>2. wake' \in Nat
      BY <2>6, <3>1 DEF BeginSleep, PauseResults
    <3>3. retryer' \in Retryers
      BY <2>1, <2>6, AfterRetryType DEF BeginSleep
    <3> QED  BY <2>1, <2>6, <3>2, <3>3 DEF BeginSleep, Locations
  <2>7. CASE RetryPanics
    BY <2>1, <2>7 DEF RetryPanics, Locations, Exits
  <2> QED  BY <1>4, <2>2, <2>3, <2>4, <2>5, <2>6, <2>7 DEF Examine
<1>5. CASE SleepDone
  BY <1>5, InvokeAssumption
  DEF SleepDone, Locations, CountUp, ErrorValues, NilError
<1>6. CASE SleepInterrupted
  <2>1. Plain(ctxErr, FALSE) \in Links
    BY <1>6, ApiErrorAssumption
    DEF SleepInterrupted, Plain, Links, LinkKinds, ContextErrors, NoStatus, NoHTTP
  <2>2. ContextError \in ErrorValues
    BY <2>1, OneLinkType, Zenon DEF ContextError
  <2> QED  BY <1>6, <2>2 DEF SleepInterrupted, Locations, Exits
<1>7. CASE Unwind
  <2>1. CASE RunRecordMetric
    <3>1. DataPoint(ctxErr, err, td) \in DataPoints
      BY DataPointType
    <3>2. recorded' \in Seq(DataPoints)
      BY <2>1, <3>1, AppendProperties DEF RunRecordMetric, Recorded
    <3> QED  BY <2>1, <3>2, DefersType DEF RunRecordMetric
  <2>2. CASE RunCancel
    BY <2>2, DefersType DEF RunCancel, ContextErrors
  <2>3. CASE Finish
    BY <2>3 DEF Finish, Locations
  <2> QED  BY <1>7, <2>1, <2>2, <2>3 DEF Unwind
<1>8. CASE Environment
  <2>1. CASE Tick
    BY <2>1, InvokeAssumption DEF Tick, CountUp, CountDown, NoDeadline
  <2>2. CASE DeadlineFires
    BY <2>2 DEF DeadlineFires, ContextErrors
  <2>3. CASE CallerCancels
    BY <2>3 DEF CallerCancels, ContextErrors
  <2> QED  BY <1>8, <2>1, <2>2, <2>3 DEF Environment
<1>9. CASE UNCHANGED vars
  BY <1>9 DEF vars
<1> QED
  BY <1>1, <1>2, <1>3, <1>4, <1>5, <1>6, <1>7, <1>8, <1>9
  DEF Next, Goroutine, Terminated

(* Whatever happens, the variables keep their types; in particular what is  *)
(* recorded is well formed and no counter leaves its range.                 *)
THEOREM TypeCorrect == Spec => []TypeOK
BY InitType, NextType, PTL DEF Spec

----------------------------------------------------------------------------
(* The safety properties.  None of them is inductive: what is recorded      *)
(* depends on what is still deferred, what is retried on the Retryer that   *)
(* was kept, and what the context says on whether its cancel function has   *)
(* run.  The parts of the inductive invariant say so, each about one of     *)
(* these.                                                                   *)

Running == {"loop", "calling", "returned", "sleeping"}

(* What is deferred once the metric has been recorded. *)
CancelStack == IF Derived THEN << "cc" >> ELSE << >>

Expected == IF features.METRICS /\ settings.clientMetrics THEN 1 ELSE 0

(* The deferred functions run in order, each once: first the metric is      *)
(* recorded, then the context is released.                                 *)
DefersInv ==
    /\ pc = "entry" => defers = << >> /\ recorded = << >>
    /\ pc \in Running => defers = DeferStack /\ recorded = << >>
    /\ pc = "unwinding" =>
        \/ defers = DeferStack /\ recorded = << >>
        \/ defers = CancelStack /\ Len(recorded) = Expected
        \/ /\ defers = << >>
           /\ Len(recorded) = Expected
           /\ Derived => ctxErr # "none"
    /\ pc = "done" =>
        /\ defers = << >>
        /\ Len(recorded) = Expected
        /\ Derived => ctxErr # "none"

(* The context tells the truth about the caller and the deadline, until its *)
(* own cancel function has run.                                            *)
ContextInv ==
    /\ pc = "entry" => left = callerDeadline
    /\ ctxErr = "deadline" => left = 0
    /\ ctxErr = "canceled" =>
        cancelled \/ (Derived /\ pc \in {"unwinding", "done"} /\ defers = << >>)

ClockInv ==
    /\ pc = "entry" => elapsed = 0
    /\ DeadlineBudget

CountsInv ==
    /\ pc = "entry" => attempts = 0 /\ retryCount = 0
    /\ pc = "loop" =>
        \/ attempts = retryCount
        \/ attempts = MaxCount + 1 /\ retryCount = MaxCount
    /\ pc \in {"calling", "returned", "sleeping"} => attempts = retryCount + 1
    /\ pc = "calling" => resend = withRetryCount(retryCount)

(* The Retryer of the call is the one its settings make. *)
RetryerInv ==
    retryer = NilRetryer \/ /\ retryer.kind = settings.Retry.kind
                            /\ retryer.codes = settings.Retry.codes

(* What the caller will get, decided when the loop is left. *)
Explained ==
    \/ err = lastErr
    \/ err # NilError /\ err[1].kind = "api" /\ Unwrap(err) = lastErr

Final == settings.Retry.kind = "func" \/ ~Retryable(settings.Retry, lastErr)

Interrupted ==
    \/ err = << Plain("canceled", FALSE) >> /\ cancelled
    \/ err = << Plain("deadline", FALSE) >> /\ left = 0

ResultInv ==
    /\ pc = "returned" => err = lastErr
    /\ pc \in {"unwinding", "done"} <=> exit # "none"
    /\ exit = "returned" => Explained /\ Final
    /\ exit = "interrupted" => Interrupted

----------------------------------------------------------------------------
(* The actions one by one, as the preservation lemmas need them. *)

LEMMA Steps ==
    ASSUME [Next]_vars
    PROVE  \/ Enter \/ StartAttempt \/ CallPanics
           \/ \E e \in CallErrors \cup {NilError} : CallReturns(e)
           \/ ReturnSuccess \/ ReturnCertError \/ ReturnUnretried \/ GiveUp
           \/ BeginSleep \/ RetryPanics \/ SleepDone \/ SleepInterrupted
           \/ RunRecordMetric \/ RunCancel \/ Finish
           \/ Tick \/ DeadlineFires \/ CallerCancels
           \/ UNCHANGED vars
BY DEF Next, Goroutine, Environment, AttemptEnds, Examine, Unwind, Terminated

LEMMA EnvironmentStep ==
    ASSUME TypeOK, Tick \/ DeadlineFires \/ CallerCancels
    PROVE  /\ UNCHANGED << settings, err, lastErr, exit, pc, recorded >>
           /\ cancelled' = cancelled \/ cancelled' = TRUE
           /\ left = 0 => left' = 0
<1> USE DEF input, context, clock, loop, observed
<1>1. CASE Tick
  <2>1. cancelled' = cancelled
    BY <1>1, Zenon DEF Tick
  <2>2. left = 0 => left' = 0
    BY <1>1 DEF Tick, CountDown
  <2>3. UNCHANGED << settings, err, lastErr, exit, pc, recorded >>
    BY <1>1 DEF Tick
  <2> QED  BY <2>1, <2>2, <2>3, Zenon
<1>2. CASE DeadlineFires
  <2>1. cancelled' = cancelled
    BY <1>2, Zenon DEF DeadlineFires
  <2>2. UNCHANGED << settings, err, lastErr, exit, pc, recorded, left >>
    BY <1>2 DEF DeadlineFires
  <2> QED  BY <2>1, <2>2
<1>3. CASE CallerCancels
  <2>1. cancelled' = TRUE
    BY <1>3, Zenon DEF CallerCancels
  <2>2. UNCHANGED << settings, err, lastErr, exit, pc, recorded, left >>
    BY <1>3 DEF CallerCancels
  <2> QED  BY <2>1, <2>2
<1> QED  BY <1>1, <1>2, <1>3

----------------------------------------------------------------------------
(* One deadline. *)

LEMMA ClockStep ==
    ASSUME TypeOK, ClockInv, ContextInv, [Next]_vars
    PROVE  ClockInv'
<1> USE DEF TypeOK, ClockInv, DeadlineBudget, Budget, NoDeadline,
            input, context, clock, loop, observed, LeaveBy
<1>1. CASE Enter
  <2>1. left = callerDeadline /\ elapsed = 0
    BY <1>1 DEF Enter, ContextInv
  <2> QED  BY <1>1, <2>1 DEF Enter, Derived, Settings
<1>2. CASE Tick
  <2>1. pc # "entry" /\ elapsed' = CountUp(elapsed, MaxTime)
    BY <1>2 DEF Tick
  <2>2. ASSUME elapsed' < MaxTime
        PROVE  elapsed < MaxTime /\ elapsed' = elapsed + 1
    BY <2>1, <2>2, InvokeAssumption DEF CountUp
  <2>3. Budget \in Nat \cup {NoDeadline} /\ Budget' = Budget
    BY <1>2 DEF Tick, Settings
  <2> HIDE DEF Budget
  <2>4. left' = CountDown(left)
    BY <1>2 DEF Tick
  <2>5. ASSUME Budget = NoDeadline PROVE left' = NoDeadline
    BY <2>1, <2>4, <2>5 DEF CountDown
  <2>6. ASSUME Budget \in Nat, elapsed' < MaxTime
        PROVE  left' = (IF elapsed' < Budget THEN Budget - elapsed' ELSE 0)
    <3>1. elapsed \in Nat /\ elapsed' = elapsed + 1
      BY <2>2, <2>6
    <3>2. left = (IF elapsed < Budget THEN Budget - elapsed ELSE 0)
      BY <2>1, <2>2, <2>6
    <3> QED  BY <2>4, <2>6, <3>1, <3>2 DEF CountDown
  <2>7. pc' = pc
    BY <1>2 DEF Tick
  <2> QED  BY <2>1, <2>3, <2>5, <2>6, <2>7
<1>3. ASSUME UNCHANGED << left, elapsed, callerDeadline, settings >>,
             (pc # "entry" /\ pc' # "entry") \/ pc' = pc
      PROVE  ClockInv'
  BY <1>3
<1>4. CASE \E e \in CallErrors \cup {NilError} : CallReturns(e)
  BY <1>3, <1>4 DEF CallReturns
<1> QED
  BY <1>1, <1>2, <1>3, <1>4, Steps
  DEF StartAttempt, CallPanics, ReturnSuccess, ReturnCertError,
      ReturnUnretried, GiveUp, BeginSleep, WillRetry, RetryPanics, Examined,
      SleepDone, SleepInterrupted, RunRecordMetric, RunCancel, Finish,
      DeadlineFires, CallerCancels, vars

----------------------------------------------------------------------------
(* Attempts, retries and the resend count. *)

LEMMA CountsStep ==
    ASSUME TypeOK, CountsInv, [Next]_vars
    PROVE  CountsInv'
<1> USE DEF TypeOK, CountsInv, input, context, clock, loop, observed, LeaveBy
<1>1. CASE Enter
  BY <1>1 DEF Enter
<1>2. CASE StartAttempt
  BY <1>2, InvokeAssumption DEF StartAttempt, CountUp, withRetryCount
<1>3. CASE SleepDone
  BY <1>3, InvokeAssumption DEF SleepDone, CountUp
<1>4. CASE \E e \in CallErrors \cup {NilError} : CallReturns(e)
  BY <1>4 DEF CallReturns
<1>5. ASSUME UNCHANGED << attempts, retryCount, resend, features >>,
             \/ pc' = pc
             \/ pc \in {"calling", "returned"} /\ pc' \in {"returned", "sleeping"}
             \/ pc' \in {"unwinding", "done"}
      PROVE  CountsInv'
  BY <1>5 DEF withRetryCount
<1> QED
  BY <1>1, <1>2, <1>3, <1>4, <1>5, Steps
  DEF CallPanics, ReturnSuccess, ReturnCertError,
      ReturnUnretried, GiveUp, BeginSleep, WillRetry, RetryPanics, Examined,
      SleepInterrupted, RunRecordMetric, RunCancel, Finish,
      Tick, DeadlineFires, CallerCancels, vars

----------------------------------------------------------------------------
(* Deferred functions and what they record. *)

LEMMA FrontOfAppend ==
    ASSUME NEW S, NEW seq \in Seq(S), NEW elt \in S
    PROVE  SubSeq(Append(seq, elt), 1, Len(seq)) = seq
<1>1. << elt >> \in Seq(S) /\ Append(seq, elt) = seq \o << elt >>
  BY AppendIsConcat
<1>2. Len(seq) \in Nat
  BY LenProperties
<1>3. SubSeq(seq \o << elt >>, 1, Len(seq)) = SubSeq(seq, 1, Len(seq))
  BY <1>1, <1>2, SubSeqOfConcat1
<1> QED  BY <1>1, <1>3, SubSeqFull

LEMMA OnlyCancel ==
    /\ Derived => /\ CancelStack # << >>
                  /\ CancelStack[Len(CancelStack)] = "cc"
                  /\ SubSeq(CancelStack, 1, Len(CancelStack) - 1) = << >>
    /\ ~Derived => CancelStack = << >>
<1>1. /\ << "cc" >> # << >>
      /\ Len(<< "cc" >>) = 1
      /\ << "cc" >>[1] = "cc"
  OBVIOUS
<1>2. SubSeq(<< "cc" >>, 1, 1 - 1) = << >>
  BY SubSeqEmpty
<1> QED  BY <1>1, <1>2 DEF CancelStack

LEMMA StackShapes ==
    /\ features.METRICS =>
        /\ DeferStack # << >>
        /\ DeferStack # CancelStack
        /\ DeferStack[Len(DeferStack)] = "recordMetric"
        /\ SubSeq(DeferStack, 1, Len(DeferStack) - 1) = CancelStack
    /\ ~features.METRICS => DeferStack = CancelStack
    /\ Derived => /\ CancelStack # << >>
                  /\ CancelStack[Len(CancelStack)] = "cc"
                  /\ SubSeq(CancelStack, 1, Len(CancelStack) - 1) = << >>
    /\ ~Derived => CancelStack = << >>
<1>1. CancelStack \in Seq(Deferred) /\ "recordMetric" \in Deferred
  <2>1. << "cc" >> \in Seq(Deferred) /\ << >> \in Seq(Deferred)
    BY DEF Deferred
  <2> QED  BY <2>1 DEF CancelStack, Deferred
<1>2. CASE features.METRICS
  <2>1. DeferStack = CancelStack \o << "recordMetric" >>
    BY <1>2 DEF DeferStack, CancelStack
  <2>2. DeferStack = Append(CancelStack, "recordMetric")
    BY <1>1, <2>1, AppendIsConcat
  <2>3. /\ Len(CancelStack) \in Nat
        /\ DeferStack # << >>
        /\ Len(DeferStack) = Len(CancelStack) + 1
        /\ DeferStack[Len(CancelStack) + 1] = "recordMetric"
    BY <1>1, <2>2, AppendProperties, LenProperties
  <2>4. SubSeq(DeferStack, 1, Len(CancelStack)) = CancelStack
    BY <1>1, <2>2, FrontOfAppend
  <2> QED  BY <1>2, <2>3, <2>4, OnlyCancel
<1>3. CASE ~features.METRICS
  BY <1>1, <1>3, ConcatEmptySeq, OnlyCancel DEF DeferStack, CancelStack
<1> QED  BY <1>2, <1>3

LEMMA DefersStep ==
    ASSUME TypeOK, DefersInv, [Next]_vars
    PROVE  DefersInv'
<1> USE DEF TypeOK, input, context, clock, loop, observed, LeaveBy
<1>1. ASSUME UNCHANGED input
      PROVE  /\ DeferStack' = DeferStack /\ CancelStack' = CancelStack
             /\ Expected' = Expected /\ (Derived <=> Derived')
  BY <1>1 DEF DeferStack, CancelStack, Expected, Derived
<1>2. CASE Enter
  BY <1>1, <1>2 DEF Enter, DefersInv, Running
<1>3. CASE RunRecordMetric
  <2>1. features.METRICS /\ defers = DeferStack /\ recorded = << >>
    BY <1>3, StackShapes DEF RunRecordMetric, NextDeferred, DefersInv
  <2>2. defers' = CancelStack
    BY <1>3, <2>1, StackShapes DEF RunRecordMetric, PopDeferred
  <2>3. Len(recorded') = Expected
    BY <1>3, <2>1 DEF RunRecordMetric, Recorded, Expected
  <2>4. UNCHANGED << input, pc >> /\ pc = "unwinding"
    BY <1>3 DEF RunRecordMetric
  <2> QED  BY <1>1, <2>2, <2>3, <2>4 DEF DefersInv, Running
<1>4. CASE RunCancel
  <2>1. defers = CancelStack /\ Len(recorded) = Expected /\ Derived
    BY <1>4, StackShapes DEF RunCancel, NextDeferred, DefersInv, Expected
  <2>2. defers' = << >> /\ ctxErr' # "none"
    BY <1>4, <2>1, StackShapes DEF RunCancel, PopDeferred
  <2>3. UNCHANGED << input, pc, recorded >> /\ pc = "unwinding"
    BY <1>4 DEF RunCancel
  <2> QED  BY <1>1, <2>1, <2>2, <2>3 DEF DefersInv, Running
<1>5. CASE Finish
  <2>1. Len(recorded) = Expected /\ (Derived => ctxErr # "none")
    BY <1>5, StackShapes DEF Finish, Unwound, DefersInv, Expected
  <2>2. UNCHANGED << input, recorded, ctxErr, defers >> /\ pc' = "done"
        /\ defers = << >>
    BY <1>5 DEF Finish, Unwound
  <2> QED  BY <1>1, <2>1, <2>2 DEF DefersInv, Running
<1>6. ASSUME UNCHANGED << input, defers, recorded >>,
             ctxErr # "none" => ctxErr' # "none",
             \/ pc' = pc
             \/ pc \in Running /\ pc' \in Running \cup {"unwinding"}
      PROVE  DefersInv'
  BY <1>1, <1>6 DEF DefersInv, Running
<1>7. CASE \E e \in CallErrors \cup {NilError} : CallReturns(e)
  BY <1>6, <1>7 DEF CallReturns, Running
<1> QED
  BY <1>2, <1>3, <1>4, <1>5, <1>6, <1>7, Steps
  DEF StartAttempt, CallPanics, ReturnSuccess, ReturnCertError,
      ReturnUnretried, GiveUp, BeginSleep, WillRetry, RetryPanics, Examined,
      SleepDone, SleepInterrupted, Tick, DeadlineFires, CallerCancels, vars,
      Running

(* The context that recordMetric asks is honest. *)
LEMMA ContextStep ==
    ASSUME TypeOK, DefersInv, ContextInv, [Next]_vars
    PROVE  ContextInv'
<1> USE DEF TypeOK, input, context, clock, loop, observed, LeaveBy
<1>1. CASE Enter
  <2>1. ctxErr = "deadline" => left' = 0
    BY <1>1 DEF Enter, ContextInv, Derived, NoDeadline
  <2>2. ctxErr = "none" /\ ctxErr' = "deadline" => left' = 0
    BY <1>1 DEF Enter, Settings
  <2>3. ctxErr = "canceled" => cancelled
    BY <1>1 DEF Enter, ContextInv
  <2> QED  BY <1>1, <2>1, <2>2, <2>3 DEF Enter, ContextInv
<1>2. CASE RunCancel
  <2>1. Derived /\ defers' = << >>
    BY <1>2, StackShapes
    DEF RunCancel, NextDeferred, PopDeferred, DefersInv
  <2> QED  BY <1>2, <2>1 DEF RunCancel, ContextInv, Derived
<1>3. CASE RunRecordMetric
  BY <1>3 DEF RunRecordMetric, ContextInv, Derived
<1>4. CASE Tick
  BY <1>4 DEF Tick, CountDown, ContextInv, Derived
<1>5. CASE DeadlineFires
  BY <1>5 DEF DeadlineFires, ContextInv, Derived
<1>6. CASE CallerCancels
  BY <1>6 DEF CallerCancels, ContextInv, Derived
<1>7. ASSUME UNCHANGED << input, left, ctxErr, cancelled, defers >>,
             pc' = pc \/ (pc # "entry" /\ pc' # "entry"),
             pc \in {"unwinding", "done"} => pc' \in {"unwinding", "done"}
      PROVE  ContextInv'
  BY <1>7 DEF ContextInv, Derived
<1>8. CASE \E e \in CallErrors \cup {NilError} : CallReturns(e)
  BY <1>7, <1>8 DEF CallReturns
<1> QED
  BY <1>1, <1>2, <1>3, <1>4, <1>5, <1>6, <1>7, <1>8, Steps
  DEF StartAttempt, CallPanics, ReturnSuccess, ReturnCertError,
      ReturnUnretried, GiveUp, BeginSleep, WillRetry, RetryPanics, Examined,
      SleepDone, SleepInterrupted, Finish, vars

----------------------------------------------------------------------------
(* What the Retryer decides. *)

(* The wrapped error has the status and the googleapi.Error of the error    *)
(* that the API call returned.                                              *)
LEMMA SurfacedKeeps ==
    ASSUME err \in ErrorValues
    PROVE  /\ StatusOK(Surfaced) <=> Parsable(err)
           /\ StatusOK(err) => StatusOf(Surfaced).code = StatusOf(err).code
           /\ ~StatusOK(err) /\ IsHTTPErr(err) =>
                StatusOf(Surfaced).code = toCode(HTTPErrOf(err).http)
           /\ IsHTTPErr(Surfaced) <=> IsHTTPErr(err)
           /\ IsHTTPErr(err) => HTTPErrOf(Surfaced) = HTTPErrOf(err)
<1>1. CASE Parsable(err)
  <2>1. Surfaced = FromError(err)
    BY <1>1 DEF Surfaced
  <2>2. /\ StatusOK(Surfaced)
        /\ StatusOf(Surfaced) = setDetailsFromError(err)
        /\ IsHTTPErr(Surfaced) <=> IsHTTPErr(err)
        /\ IsHTTPErr(err) => HTTPErrOf(Surfaced) = HTTPErrOf(err)
    BY <1>1, <2>1, FromErrorStatus, FromErrorGoogleapi
  <2>3. /\ StatusOK(err) => setDetailsFromError(err).code = StatusOf(err).code
        /\ ~StatusOK(err) =>
             setDetailsFromError(err).code = toCode(HTTPErrOf(err).http)
    BY DEF setDetailsFromError
  <2> QED  BY <1>1, <2>2, <2>3
<1>2. CASE ~Parsable(err)
  BY <1>2 DEF Surfaced, Parsable
<1> QED  BY <1>1, <1>2

LEMMA VerdictRetryable ==
    ASSUME TypeOK, RetryerInv, err # NilError, ~CertError,
           settings.Retry.kind \notin {"none", "nil"}
    PROVE  /\ settings.Retry.kind = "func" => Retryable(settings.Retry, err)
           /\ settings.Retry.kind # "func" =>
                Verdicts(CurrentRetryer, Surfaced) = {Retryable(settings.Retry, err)}
<1>1. /\ CurrentRetryer.kind = settings.Retry.kind
      /\ CurrentRetryer.codes = settings.Retry.codes
  BY DEF CurrentRetryer, NewRetryer, RetryerInv
<1>2. settings.Retry.kind \in {"codes", "http", "func"}
  BY DEF TypeOK, Settings, Retryers, RetryerKinds
<1>3. err \in ErrorValues
  BY DEF TypeOK
<1> DEFINE coded == StatusOK(Surfaced)
                      /\ StatusOf(Surfaced).code \in CurrentRetryer.codes
           listed == IsHTTPErr(Surfaced)
                       /\ HTTPErrOf(Surfaced).http \in CurrentRetryer.codes
<1>4. settings.Retry.kind = "codes" => (coded <=> Retryable(settings.Retry, err))
  BY <1>1, <1>3, SurfacedKeeps DEF Retryable, CertError, Parsable
<1>5. settings.Retry.kind = "http" => (listed <=> Retryable(settings.Retry, err))
  BY <1>1, <1>3, SurfacedKeeps DEF Retryable, CertError
<1>6. /\ settings.Retry.kind = "codes" =>
            Verdicts(CurrentRetryer, Surfaced) = {coded}
      /\ settings.Retry.kind = "http" =>
            Verdicts(CurrentRetryer, Surfaced) = {listed}
  BY <1>1 DEF Verdicts
<1>7. settings.Retry.kind = "func" => Retryable(settings.Retry, err)
  BY DEF Retryable, CertError
<1> HIDE DEF coded, listed
<1>8. settings.Retry.kind = "codes" => coded = Retryable(settings.Retry, err)
  BY <1>4, Zenon DEF coded, Retryable
<1>9. settings.Retry.kind = "http" => listed = Retryable(settings.Retry, err)
  BY <1>5, Zenon DEF listed, Retryable
<1> QED  BY <1>2, <1>6, <1>7, <1>8, <1>9, Zenon

LEMMA RetryerStep ==
    ASSUME TypeOK, RetryerInv, [Next]_vars
    PROVE  RetryerInv'
<1> USE DEF RetryerInv, input, context, clock, loop, observed, LeaveBy
<1>1. CurrentRetryer = NilRetryer \/
        /\ CurrentRetryer.kind = settings.Retry.kind
        /\ CurrentRetryer.codes = settings.Retry.codes
  BY DEF CurrentRetryer, NewRetryer
<1>2. CASE UNCHANGED << settings, retryer >>
  BY <1>2
<1>3. CASE UNCHANGED settings /\ retryer' = CurrentRetryer
  BY <1>1, <1>3
<1>4. CASE BeginSleep
  <2>1. UNCHANGED settings /\ CurrentRetryer # NilRetryer
    BY <1>4
    DEF BeginSleep, WillRetry, CurrentRetryer, NewRetryer, NilRetryer
  <2>2. PICK bo : retryer' = [CurrentRetryer EXCEPT !.backoff = bo]
    BY <1>4 DEF BeginSleep, AfterRetry
  <2>3. CurrentRetryer \in Retryers
    BY RetryerType DEF TypeOK
  <2>4. /\ retryer'.kind = CurrentRetryer.kind
        /\ retryer'.codes = CurrentRetryer.codes
    BY <2>2, <2>3 DEF Retryers
  <2> QED  BY <1>1, <2>1, <2>4
<1>5. CASE \E e \in CallErrors \cup {NilError} : CallReturns(e)
  BY <1>2, <1>5 DEF CallReturns
<1> QED
  BY <1>2, <1>3, <1>4, <1>5, Steps
  DEF Enter, StartAttempt, CallPanics, ReturnSuccess, ReturnCertError,
      ReturnUnretried, GiveUp, WillRetry, RetryPanics, Examined,
      SleepDone, SleepInterrupted, RunRecordMetric, RunCancel, Finish,
      Tick, DeadlineFires, CallerCancels, vars

LEMMA RetryOnlyStep ==
    ASSUME TypeOK, RetryerInv, ResultInv, CountsInv,
           RetryOnlyWhenRetryable, [Next]_vars
    PROVE  RetryOnlyWhenRetryable'
<1> USE DEF RetryOnlyWhenRetryable, input, context, clock, loop, observed, LeaveBy
<1>1. ASSUME settings' = settings, lastErr' = lastErr
      PROVE  Retryable(settings.Retry, lastErr)' = Retryable(settings.Retry, lastErr)
  BY <1>1 DEF Retryable
<1>2. CASE BeginSleep
  <2>1. /\ err = lastErr /\ err # NilError /\ ~CertError
        /\ settings.Retry.kind \notin {"none", "nil"}
        /\ TRUE \in Verdicts(CurrentRetryer, Surfaced)
    BY <1>2 DEF BeginSleep, WillRetry, Examined, ResultInv
  <2>2. Retryable(settings.Retry, err)
    <3>1. CASE settings.Retry.kind = "func"
      BY <2>1, <3>1, VerdictRetryable
    <3>2. CASE settings.Retry.kind # "func"
      <4>1. Verdicts(CurrentRetryer, Surfaced) = {Retryable(settings.Retry, err)}
        BY <2>1, <3>2, VerdictRetryable
      <4> QED  BY <2>1, <4>1, Zenon
    <3> QED  BY <3>1, <3>2
  <2>3. settings' = settings /\ lastErr' = lastErr
    BY <1>2 DEF BeginSleep
  <2> QED  BY <1>1, <2>1, <2>2, <2>3
<1>3. CASE SleepDone
  BY <1>1, <1>3 DEF SleepDone
<1>4. CASE Enter
  BY <1>4 DEF Enter, CountsInv
<1>5. CASE \E e \in CallErrors \cup {NilError} : CallReturns(e)
  BY <1>5 DEF CallReturns
<1>6. ASSUME UNCHANGED << settings, lastErr, attempts, pc >>
      PROVE  RetryOnlyWhenRetryable'
  BY <1>1, <1>6
<1>7. ASSUME pc' \in {"calling", "unwinding", "done"}
      PROVE  RetryOnlyWhenRetryable'
  BY <1>7
<1> QED
  BY <1>2, <1>3, <1>4, <1>5, <1>6, <1>7, Steps
  DEF StartAttempt, CallPanics, ReturnSuccess, ReturnCertError,
      ReturnUnretried, GiveUp, RetryPanics,
      SleepInterrupted, RunRecordMetric, RunCancel, Finish,
      Tick, DeadlineFires, CallerCancels, vars

----------------------------------------------------------------------------
(* The result. *)

LEMMA SurfacedUnwraps ==
    ASSUME err \in ErrorValues, err # NilError
    PROVE  \/ Surfaced = err
           \/ /\ Surfaced # NilError
              /\ Surfaced[1].kind = "api"
              /\ Unwrap(Surfaced) = err
<1>1. CASE Parsable(err)
  <2>1. /\ Surfaced = << setDetailsFromError(err) >> \o err
        /\ Surfaced \in Seq(Links)
        /\ Len(Surfaced) = Len(err) + 1
        /\ Surfaced[1] = setDetailsFromError(err)
        /\ \A i \in DOMAIN err : Surfaced[i + 1] = err[i]
    BY <1>1, FromErrorLinks DEF Surfaced, ErrorValues
  <2>2. Surfaced[1].kind = "api"
    BY <1>1, <2>1, APIErrorLink
  <2>3. err \in Seq(Links) /\ Len(err) \in Nat /\ DOMAIN err = 1 .. Len(err)
    BY LenProperties DEF ErrorValues
  <2>4. Surfaced # << >>
    BY <2>1, <2>3
  <2>5. /\ Tail(Surfaced) \in Seq(Links)
        /\ Len(Tail(Surfaced)) = Len(Surfaced) - 1
        /\ \A i \in 1 .. Len(Tail(Surfaced)) : Tail(Surfaced)[i] = Surfaced[i + 1]
    BY <2>1, <2>4, HeadTailProperties
  <2>6. Tail(Surfaced) = err
    BY <2>1, <2>3, <2>5, SeqEqual
  <2> QED  BY <2>2, <2>4, <2>6 DEF Unwrap, NilError
<1>2. CASE ~Parsable(err)
  BY <1>2 DEF Surfaced
<1> QED  BY <1>1, <1>2

(* What the loop returns is not what its Retryer accepts. *)
LEMMA NotRetryable ==
    ASSUME TypeOK, RetryerInv, pc = "returned",
           ReturnSuccess \/ ReturnCertError \/ ReturnUnretried \/ GiveUp
    PROVE  settings.Retry.kind = "func" \/ ~Retryable(settings.Retry, err)
<1>1. CASE ReturnSuccess \/ ReturnCertError
  BY <1>1 DEF ReturnSuccess, ReturnCertError, Retryable, CertError
<1>2. CASE ReturnUnretried
  BY <1>2 DEF ReturnUnretried, Retryable
<1>3. CASE GiveUp
  <2>1. /\ err # NilError /\ ~CertError
        /\ settings.Retry.kind \notin {"none", "nil"}
        /\ FALSE \in Verdicts(CurrentRetryer, Surfaced)
    BY <1>3 DEF GiveUp, Examined
  <2>2. ASSUME settings.Retry.kind # "func"
        PROVE  Verdicts(CurrentRetryer, Surfaced) = {Retryable(settings.Retry, err)}
    BY <2>1, <2>2, VerdictRetryable
  <2> QED  BY <2>1, <2>2, Zenon
<1> QED  BY <1>1, <1>2, <1>3

LEMMA ResultStep ==
    ASSUME TypeOK, RetryerInv, ContextInv, ResultInv, [Next]_vars
    PROVE  ResultInv'
<1> USE DEF ResultInv, input, context, clock, loop, observed, LeaveBy
<1>1. CASE \E e \in CallErrors \cup {NilError} : CallReturns(e)
  BY <1>1 DEF CallReturns
<1>2. CASE ReturnSuccess \/ ReturnCertError \/ ReturnUnretried \/ GiveUp
  <2>1. /\ pc = "returned" /\ pc' = "unwinding" /\ exit' = "returned"
        /\ UNCHANGED << settings, lastErr >>
    BY <1>2 DEF ReturnSuccess, ReturnCertError, ReturnUnretried, GiveUp, Examined
  <2>2. Final'
    <3>1. settings.Retry.kind = "func" \/ ~Retryable(settings.Retry, lastErr)
      BY <1>2, <2>1, NotRetryable
    <3> QED  BY <2>1, <3>1 DEF Final, Retryable
  <2>3. Explained'
    <3>1. CASE ReturnSuccess \/ ReturnCertError
      BY <2>1, <3>1 DEF ReturnSuccess, ReturnCertError, Explained
    <3>2. CASE ReturnUnretried \/ GiveUp
      <4>1. err' = Surfaced /\ err # NilError /\ err = lastErr
        BY <2>1, <3>2 DEF ReturnUnretried, GiveUp, Examined
      <4>2. \/ Surfaced = err
            \/ /\ Surfaced # NilError
               /\ Surfaced[1].kind = "api"
               /\ Unwrap(Surfaced) = err
        BY <4>1, SurfacedUnwraps DEF TypeOK
      <4> HIDE DEF Surfaced
      <4> QED  BY <2>1, <4>1, <4>2 DEF Explained, Unwrap
    <3> QED  BY <1>2, <3>1, <3>2
  <2> QED  BY <2>1, <2>2, <2>3
<1>3. CASE SleepInterrupted
  <2>1. /\ pc = "sleeping" /\ pc' = "unwinding" /\ exit' = "interrupted"
        /\ ctxErr \in {"deadline", "canceled"}
        /\ err' = << Plain(ctxErr, FALSE) >>
        /\ UNCHANGED << cancelled, left >>
    BY <1>3 DEF SleepInterrupted, ContextError, TypeOK, ContextErrors
  <2>2. CASE ctxErr = "canceled"
    <3>1. cancelled
      BY <2>1, <2>2 DEF ContextInv
    <3>2. err' = << Plain("canceled", FALSE) >>
      BY <2>1, <2>2, Zenon
    <3>3. Interrupted'
      BY <2>1, <3>1, <3>2, Zenon DEF Interrupted
    <3> QED  BY <2>1, <3>3
  <2>3. CASE ctxErr = "deadline"
    <3>1. left = 0
      BY <2>1, <2>3 DEF ContextInv
    <3>2. err' = << Plain("deadline", FALSE) >>
      BY <2>1, <2>3, Zenon
    <3>3. Interrupted'
      BY <2>1, <3>1, <3>2, Zenon DEF Interrupted
    <3> QED  BY <2>1, <3>3
  <2> QED  BY <2>1, <2>2, <2>3
<1>4. CASE CallPanics \/ RetryPanics
  BY <1>4 DEF CallPanics, RetryPanics, WillRetry, Examined
<1>5. CASE Enter \/ StartAttempt \/ BeginSleep \/ SleepDone
  BY <1>5 DEF Enter, StartAttempt, BeginSleep, WillRetry, Examined, SleepDone
<1>6. ASSUME UNCHANGED << settings, err, lastErr, exit >>,
             cancelled' = cancelled \/ cancelled' = TRUE,
             left = 0 => left' = 0,
             pc' = pc \/ (pc = "unwinding" /\ pc' = "done")
      PROVE  ResultInv'
  <2>1. Explained' = Explained /\ Final' = Final /\ (Interrupted => Interrupted')
    <3>1. Explained' = Explained
      BY <1>6 DEF Explained, Unwrap
    <3>2. Final' = Final
      BY <1>6 DEF Final, Retryable
    <3>3. Interrupted => Interrupted'
      BY <1>6, Zenon DEF Interrupted
    <3> QED  BY <3>1, <3>2, <3>3
  <2> QED  BY <1>6, <2>1
<1>7. CASE RunRecordMetric \/ RunCancel \/ Finish
  BY <1>6, <1>7 DEF RunRecordMetric, RunCancel, Finish
<1>8. CASE Tick \/ DeadlineFires \/ CallerCancels
  <2>1. /\ UNCHANGED << settings, err, lastErr, exit >>
        /\ cancelled' = cancelled \/ cancelled' = TRUE
        /\ left = 0 => left' = 0
        /\ pc' = pc
    BY <1>8, EnvironmentStep
  <2> HIDE DEF ResultInv
  <2> QED  BY <1>6, <2>1, Zenon
<1>9. CASE UNCHANGED vars
  BY <1>6, <1>9 DEF vars
<1> QED
  BY <1>1, <1>2, <1>3, <1>4, <1>5, <1>7, <1>8, <1>9, Steps

----------------------------------------------------------------------------
(* The data point. *)

LEMMA PointFacts ==
    ASSUME NEW c \in ContextErrors, NEW e \in ErrorValues, NEW h \in Int
    PROVE  /\ DataPoint(c, e, h).type = ClientCancelled => c = "canceled"
           /\ DataPoint(c, e, h).type = ClientTimeout => c = "deadline"
           /\ DataPoint(c, e, h).type = NoErrorType <=> e = NilError
           /\ DataPoint(c, e, h).code = StatusCode(e)
<1>1. /\ ClientCancelled.source = "client" /\ ClientTimeout.source = "client"
      /\ NoErrorType.source = "none" /\ ClientCancelled # ClientTimeout
  BY DEF ClientCancelled, ClientTimeout, NoErrorType, TypeText
<1>2. \A source, text : TypeText(source, text).source = source
  BY DEF TypeText
<1>3. \A n : TypeNumber(n).source = "http"
  BY DEF TypeNumber
<1>4. \/ ClassifiedType(c, e) = ClientTimeout /\ c = "deadline"
      \/ ClassifiedType(c, e) = ClientCancelled /\ c = "canceled"
      \/ ClassifiedType(c, e).source \in {"go", "status"}
  BY <1>2 DEF ClassifiedType, ContextErrors
<1>5. \/ ErrorType(c, e) = ClassifiedType(c, e)
      \/ ErrorType(c, e).source \in {"reason", "http"}
  BY <1>2, <1>3 DEF ErrorType
<1>6. DataPoint(c, e, h).type = (IF e = NilError THEN NoErrorType ELSE ErrorType(c, e))
  BY DEF DataPoint, ExtractTelemetryErrorInfo
<1>7. DataPoint(c, e, h).code = StatusCode(e)
  BY DEF DataPoint, ExtractTelemetryErrorInfo
<1> HIDE DEF ClientCancelled, ClientTimeout, NoErrorType
<1> QED  BY <1>1, <1>4, <1>5, <1>6, <1>7

(* HonestAttribution and MetricMatchesResult of a call that is over or      *)
(* nearly so; the second one already holds when the metric is recorded.     *)
Matches ==
    exit # "panicked" /\ recorded # << >> =>
        /\ recorded[1].code = StatusCode(err)
        /\ (recorded[1].type = NoErrorType) <=> (err = NilError)

PointInv == Matches /\ HonestAttribution

LEMMA PointStep ==
    ASSUME TypeOK, DefersInv, ContextInv, PointInv, [Next]_vars
    PROVE  PointInv'
<1> USE DEF input, context, clock, loop, observed, LeaveBy
<1>1. CASE RunRecordMetric
  <2>1. /\ recorded = << >> /\ defers # << >>
        /\ pc = "unwinding" /\ pc' = pc
        /\ UNCHANGED << err, exit, left >>
    BY <1>1, StackShapes DEF RunRecordMetric, NextDeferred, DefersInv
  <2>2. cancelled' = cancelled
    BY <1>1, Zenon DEF RunRecordMetric
  <2>3. recorded' = << >> \/ recorded' = << DataPoint(ctxErr, err, td) >>
    BY <1>1, <2>1 DEF RunRecordMetric, Recorded
  <2>4. CASE recorded' = << >>
    BY <2>4 DEF PointInv, Matches, HonestAttribution
  <2>5. CASE recorded' = << DataPoint(ctxErr, err, td) >>
    <3> DEFINE point == DataPoint(ctxErr, err, td)
    <3>1. ctxErr \in ContextErrors /\ err \in ErrorValues /\ td \in Int
      BY DEF TypeOK
    <3>2. /\ point.type = ClientCancelled => ctxErr = "canceled"
          /\ point.type = ClientTimeout => ctxErr = "deadline"
          /\ (point.type = NoErrorType) <=> (err = NilError)
          /\ point.code = StatusCode(err)
      BY <3>1, PointFacts
    <3>3. /\ ctxErr = "canceled" => cancelled
          /\ ctxErr = "deadline" => left = 0
      BY <2>1 DEF ContextInv
    <3> HIDE DEF point
    <3>4. Len(recorded') = 1 /\ recorded'[1] = point
      BY <2>5 DEF point
    <3>5. HonestAttribution'
      BY <2>1, <2>2, <3>2, <3>3, <3>4
      DEF HonestAttribution, ClientCancelled, ClientTimeout
    <3>6. Matches'
      BY <2>1, <3>2, <3>4 DEF Matches, StatusCode, NoErrorType
    <3> QED  BY <3>5, <3>6 DEF PointInv
  <2> QED  BY <2>3, <2>4, <2>5
<1>2. ASSUME recorded = << >>, recorded' = << >>
      PROVE  PointInv'
  BY <1>2 DEF PointInv, Matches, HonestAttribution
<1>3. ASSUME UNCHANGED << recorded, err, exit >>,
             cancelled' = cancelled \/ cancelled' = TRUE,
             left = 0 => left' = 0
      PROVE  PointInv'
  BY <1>3 DEF PointInv, Matches, HonestAttribution
<1>4. CASE pc \in Running \cup {"entry"}
  <2>1. recorded = << >> /\ pc # "unwinding"
    BY <1>4 DEF DefersInv, Running
  <2>2. recorded' = recorded \/ RunRecordMetric
    <3>1. CASE \E e \in CallErrors \cup {NilError} : CallReturns(e)
      BY <3>1 DEF CallReturns
    <3> QED
      BY <3>1, Steps
      DEF Enter, StartAttempt, CallPanics, ReturnSuccess, ReturnCertError,
          ReturnUnretried, GiveUp, BeginSleep, WillRetry, RetryPanics,
          Examined, SleepDone, SleepInterrupted, RunCancel, Finish, Tick,
          DeadlineFires, CallerCancels, vars
  <2> QED  BY <1>1, <1>2, <2>1, <2>2
<1>5. CASE pc \in {"unwinding", "done"}
  <2>1. CASE RunCancel \/ Finish
    BY <1>3, <2>1 DEF RunCancel, Finish
  <2>2. CASE Tick \/ DeadlineFires \/ CallerCancels
    <3>1. /\ UNCHANGED << recorded, err, exit >>
          /\ cancelled' = cancelled \/ cancelled' = TRUE
          /\ left = 0 => left' = 0
      BY <2>2, EnvironmentStep
    <3> QED  BY <1>3, <3>1, Zenon
  <2>3. CASE UNCHANGED vars
    BY <1>3, <2>3 DEF vars
  <2>4. \/ RunRecordMetric \/ RunCancel \/ Finish
        \/ Tick \/ DeadlineFires \/ CallerCancels \/ UNCHANGED vars
    BY <1>5, Steps
    DEF Enter, StartAttempt, CallPanics, CallReturns, ReturnSuccess,
        ReturnCertError, ReturnUnretried, GiveUp, BeginSleep, WillRetry,
        RetryPanics, Examined, SleepDone, SleepInterrupted
  <2> QED  BY <1>1, <2>1, <2>2, <2>3, <2>4
<1> QED  BY <1>4, <1>5 DEF TypeOK, Locations, Running

----------------------------------------------------------------------------
(* The invariant and the theorems. *)

SafetyInv ==
    /\ TypeOK
    /\ DefersInv
    /\ ContextInv
    /\ ClockInv
    /\ CountsInv
    /\ RetryerInv
    /\ ResultInv
    /\ RetryOnlyWhenRetryable
    /\ PointInv

LEMMA InitSafe == Init => SafetyInv
<1> SUFFICES ASSUME Init PROVE SafetyInv
  OBVIOUS
<1>1. TypeOK
  BY InitType
<1>2. DefersInv /\ CountsInv /\ ClockInv /\ RetryerInv
  BY DEF Init, DefersInv, CountsInv, ClockInv, DeadlineBudget, RetryerInv, Running
<1>3. ContextInv
  BY DEF Init, ContextInv
<1>4. ResultInv /\ RetryOnlyWhenRetryable
  BY DEF Init, ResultInv, RetryOnlyWhenRetryable
<1>5. PointInv
  BY DEF Init, PointInv, Matches, HonestAttribution
<1> QED  BY <1>1, <1>2, <1>3, <1>4, <1>5 DEF SafetyInv

LEMMA NextSafe == SafetyInv /\ [Next]_vars => SafetyInv'
BY NextType, DefersStep, ContextStep, ClockStep, CountsStep, RetryerStep,
   ResultStep, RetryOnlyStep, PointStep
DEF SafetyInv

(* Every reachable state satisfies the invariant.                           *)
LEMMA SafetyHolds == Spec => []SafetyInv
BY InitSafe, NextSafe, PTL DEF Spec

(* What the parts of the invariant say of the properties the runs check. *)
LEMMA PromisesImplied ==
    ASSUME SafetyInv
    PROVE  /\ DeadlineBudget
           /\ RetryOnlyWhenRetryable
           /\ RetryableIsRetried
           /\ ResultExplained
<1>1. DeadlineBudget /\ RetryOnlyWhenRetryable
  BY DEF SafetyInv, ClockInv
<1>2. ResultInv /\ exit \in {"none", "returned", "interrupted", "panicked"}
  BY DEF SafetyInv, TypeOK, Exits
<1>3. RetryableIsRetried
  BY <1>2 DEF ResultInv, Final, Interrupted, RetryableIsRetried, Returned, Plain
<1>4. ResultExplained
  BY <1>2 DEF ResultInv, Explained, Interrupted, ResultExplained, Returned
<1> QED  BY <1>1, <1>3, <1>4

LEMMA BookkeepingImplied ==
    ASSUME SafetyInv
    PROVE  /\ MetricOnce
           /\ NoContextLeak
           /\ MetricMatchesResult
           /\ HonestAttribution
           /\ ResendCount
<1>1. MetricOnce
  <2>1. pc \in Running \cup {"entry", "unwinding", "done"}
    BY DEF SafetyInv, TypeOK, Locations, Running
  <2> QED  BY <2>1 DEF SafetyInv, DefersInv, MetricOnce, Expected
<1>2. NoContextLeak
  BY DEF SafetyInv, DefersInv, NoContextLeak
<1>3. MetricMatchesResult /\ HonestAttribution
  BY DEF SafetyInv, PointInv, Matches, MetricMatchesResult, Returned
<1>4. ResendCount
  <2>1. retryCount \in Nat
    BY DEF SafetyInv, TypeOK
  <2> QED  BY <2>1 DEF SafetyInv, CountsInv, ResendCount, withRetryCount
<1> QED  BY <1>1, <1>2, <1>3, <1>4

(* The strengthening of all the safety properties of a call of Invoke, for  *)
(* every configuration, flag, context and error the constants admit         *)
(* (v2/invoke.go, invoke).                                                  *)
THEOREM SafetyIsInductive == Spec => []SafetyInv
BY SafetyHolds

(* One deadline, fixed when Invoke is entered, covers all attempts and      *)
(* pauses: no retry extends it (v2/invoke.go, context.WithTimeout before    *)
(* the loop).                                                               *)
THEOREM OneDeadline == Spec => []DeadlineBudget
<1>1. SafetyInv => DeadlineBudget
  BY PromisesImplied
<1> QED  BY <1>1, SafetyHolds, PTL

(* No attempt is repeated unless its error, as the API call returned it, is *)
(* one the Retryer accepts, and never for a certificate error: the wrapping *)
(* in between adds no retry.  Under OnCodes this has the HTTP errors whose  *)
(* code maps to one of its codes, which its comment does not speak of       *)
(* (v2/call_option.go, the Retry methods).                                  *)
THEOREM RetriesAreRetryable == Spec => []RetryOnlyWhenRetryable
<1>1. SafetyInv => RetryOnlyWhenRetryable
  BY PromisesImplied
<1> QED  BY <1>1, SafetyHolds, PTL

(* An error the Retryer accepts, every one its comment promises to retry    *)
(* among them, never reaches the caller of invoke: the call is retried      *)
(* until its context is over.                                               *)
THEOREM RetryableErrorsAreRetried == Spec => []RetryableIsRetried
<1>1. SafetyInv => RetryableIsRetried
  BY PromisesImplied
<1> QED  BY <1>1, SafetyHolds, PTL

(* The result is the last attempt's error, bare or under one APIError, or   *)
(* the true reason why the context ended (v2/invoke.go, the returns of      *)
(* invoke).                                                                 *)
THEOREM ResultIsExplained == Spec => []ResultExplained
<1>1. SafetyInv => ResultExplained
  BY PromisesImplied
<1> QED  BY <1>1, SafetyHolds, PTL

(* A call is recorded once when metrics are on, panics included, and never  *)
(* otherwise or early (v2/invoke.go, defer of recordMetric).                *)
THEOREM RecordedOnce == Spec => []MetricOnce
<1>1. SafetyInv => MetricOnce
  BY BookkeepingImplied
<1> QED  BY <1>1, SafetyHolds, PTL

(* The data point has the status of the error that the caller gets, and an  *)
(* error type only if there is one (v2/telemetry.go, recordMetric).         *)
THEOREM MetricAgrees == Spec => []MetricMatchesResult
<1>1. SafetyInv => MetricMatchesResult
  BY BookkeepingImplied
<1> QED  BY <1>1, SafetyHolds, PTL

(* Only a caller's cancellation is recorded as CLIENT_CANCELLED and only a  *)
(* passed deadline as CLIENT_TIMEOUT: the deferred functions run in the     *)
(* order that keeps invoke's own cancel function out of the metric          *)
(* (v2/invoke.go, the two defers; v2/telemetry.go,                          *)
(* ExtractTelemetryErrorInfo).                                              *)
THEOREM AttributionIsHonest == Spec => []HonestAttribution
<1>1. SafetyInv => HonestAttribution
  BY BookkeepingImplied
<1> QED  BY <1>1, SafetyHolds, PTL

(* Every attempt carries the number of retries before it when tracing is    *)
(* on, nothing otherwise (v2/invoke.go, withRetryCount).                    *)
THEOREM RetriesAreCounted == Spec => []ResendCount
<1>1. SafetyInv => ResendCount
  BY BookkeepingImplied
<1> QED  BY <1>1, SafetyHolds, PTL

(* A context invoke derived is cancelled when invoke is over, also after a  *)
(* panic (v2/invoke.go, defer cc()).                                        *)
THEOREM ContextIsReleased == Spec => []NoContextLeak
<1>1. SafetyInv => NoContextLeak
  BY BookkeepingImplied
<1> QED  BY <1>1, SafetyHolds, PTL

----------------------------------------------------------------------------
(* The envelope of the pauses.  The limits are defined by recursion on the   *)
(* number of the pause; facts about them come from the least number that    *)
(* would contradict them.                                                   *)
Iterated(f, last, base, step) ==
    \A k \in 0 .. last : f[k] = IF k = 0 THEN base ELSE step[f[k - 1]]

LEMMA IterationExists ==
    ASSUME NEW N \in Nat, NEW base \in Nat, NEW step \in [Nat -> Nat]
    PROVE  \E f \in [0 .. N -> Nat] : Iterated(f, N, base, step)
<1> DEFINE Iterates(f, m) == Iterated(f, m, base, step)
           bad == {m \in 0 .. N : \A f \in [0 .. m -> Nat] : ~Iterates(f, m)}
<1>1. SUFFICES ASSUME bad # {} PROVE FALSE
  <2>1. N \in 0 .. N
    OBVIOUS
  <2> QED  BY <2>1
<1>2. PICK m \in bad : \A j \in bad : m <= j
  <2>1. bad \in SUBSET Nat
    OBVIOUS
  <2> HIDE DEF bad
  <2> QED  BY <1>1, <2>1, FirstInLeast
<1>3. CASE m = 0
  <2> DEFINE f == [k \in 0 .. 0 |-> base]
  <2>1. f \in [0 .. 0 -> Nat] /\ Iterates(f, 0)
    BY DEF Iterated
  <2> HIDE DEF f, Iterates
  <2> QED  BY <1>3, <2>1
<1>4. CASE m # 0
  <2>1. m \in 1 .. N /\ m \in Nat /\ m - 1 \in 0 .. N /\ m - 1 \notin bad
    <3>1. m \in 0 .. N
      OBVIOUS
    <3> HIDE DEF bad
    <3> QED  BY <1>2, <1>4, <3>1
  <2>2. PICK f \in [0 .. m - 1 -> Nat] : Iterates(f, m - 1)
    BY <2>1
  <2> DEFINE last == step[f[m - 1]]
             g == [k \in 0 .. m |-> IF k < m THEN f[k] ELSE last]
  <2>3. last \in Nat
    <3>1. m - 1 \in 0 .. m - 1
      BY <2>1
    <3> QED  BY <3>1
  <2> HIDE DEF bad, last
  <2>4. g \in [0 .. m -> Nat]
    <3>1. \A k \in 0 .. m : k < m => k \in 0 .. m - 1
      BY <2>1
    <3> QED  BY <2>3, <3>1
  <2>5. ASSUME NEW k \in 0 .. m
        PROVE  g[k] = IF k = 0 THEN base ELSE step[g[k - 1]]
    <3>1. CASE k < m
      <4>1. k \in 0 .. m - 1 /\ g[k] = f[k] /\ (k # 0 => g[k - 1] = f[k - 1])
        BY <2>1, <3>1
      <4> HIDE DEF g
      <4> QED  BY <2>2, <4>1 DEF Iterated
    <3>2. CASE ~(k < m)
      <4>1. k = m
        BY <2>1, <3>2
      <4>2. g[m] = last
        BY <2>1
      <4>3. g[m - 1] = f[m - 1]
        BY <2>1
      <4> HIDE DEF g
      <4> QED  BY <1>4, <4>1, <4>2, <4>3 DEF last
    <3> QED  BY <3>1, <3>2
  <2> HIDE DEF g
  <2>6. Iterates(g, m)
    BY <2>5 DEF Iterated
  <2> HIDE DEF Iterates
  <2> QED  BY <2>4, <2>6 DEF bad
<1> QED  BY <1>3, <1>4

(* One step of the limits. *)
Capped(n, cur) ==
    LET grown == (cur * n.Multiplier) \div 100
    IN  IF grown < n.Max THEN grown ELSE n.Max

(* What the parameters of a Sound Backoff are like. *)
LEMMA SoundParameters ==
    ASSUME NEW bo \in Backoffs, Sound(bo)
    PROVE  LET n == Normalized(bo)
               highest == IF n.cur > n.Max THEN n.cur ELSE n.Max
           IN  /\ n \in Backoffs
               /\ n.Initial # 0
               /\ n.cur \in Nat \ {0} /\ n.cur \in Durations
               /\ n.Max \in Nat \ {0} /\ n.Max \in Durations
               /\ n.Multiplier \in Nat /\ n.Multiplier >= 100
               /\ (highest * n.Multiplier) \div 100 <= IntMax
<1> DEFINE n == Normalized(bo)
<1>1. n \in Backoffs /\ n.Multiplier >= 100 /\ n.Initial # 0
  BY NormalizedType
<1>2. n.cur > 0 /\ n.Max > 0
  BY DEF Sound
<1>3. /\ n.cur \in Nat \ {0} /\ n.cur \in Durations
      /\ n.Max \in Nat \ {0} /\ n.Max \in Durations
      /\ n.Multiplier \in Nat
  <2> HIDE DEF n
  <2> QED  BY <1>1, <1>2 DEF Backoffs, Durations, IntMin
<1> QED  BY <1>1, <1>3 DEF Sound

(* The limits satisfy the recursion that defines them.                      *)
LEMMA LimitsRecursion ==
    ASSUME NEW bo \in Backoffs, Sound(bo)
    PROVE  \A k \in 0 .. MaxCount + 1 :
               Limits(bo)[k] = IF k = 0 THEN Normalized(bo).cur
                               ELSE Capped(Normalized(bo), Limits(bo)[k - 1])
<1> DEFINE n == Normalized(bo)
           N == MaxCount + 1
           step == [cur \in Nat |-> Capped(n, cur)]
<1>1. N \in Nat /\ n.cur \in Nat /\ n.Max \in Nat /\ n.Multiplier \in Nat
  BY InvokeAssumption, SoundParameters
<1>2. \A cur \in Nat : Capped(n, cur) \in Nat
  <2> HIDE DEF n
  <2> TAKE cur \in Nat
  <2>1. cur * n.Multiplier \in Nat
    BY <1>1
  <2>2. (cur * n.Multiplier) \div 100 \in Nat
    BY <2>1
  <2> QED  BY <1>1, <2>2 DEF Capped
<1>3. step \in [Nat -> Nat]
  BY <1>2
<1>4. \A cur \in Nat : step[cur] = Capped(n, cur)
  OBVIOUS
<1> DEFINE base == n.cur
<1> HIDE DEF N, step, base
<1>5. PICK f \in [0 .. N -> Nat] : Iterated(f, N, base, step)
  <2>1. base \in Nat
    BY <1>1 DEF base
  <2> QED  BY <1>1, <1>3, <2>1, IterationExists
<1> DEFINE Defined(limit) ==
               limit = [k \in 0 .. N |-> IF k = 0 THEN n.cur ELSE Capped(n, limit[k - 1])]
<1>6. Defined(f)
  <2>1. ASSUME NEW k \in 0 .. N
        PROVE  f[k] = IF k = 0 THEN n.cur ELSE Capped(n, f[k - 1])
    <3>1. k # 0 => k - 1 \in 0 .. N
      BY <1>1
    <3>2. k # 0 => f[k - 1] \in Nat
      BY <3>1
    <3> QED  BY <1>4, <1>5, <3>2 DEF base, Iterated
  <2> HIDE DEF n
  <2> QED  BY <2>1
<1>7. Limits(bo) = CHOOSE limit : Defined(limit)
  BY DEF Limits, Capped, N
<1>8. Defined(Limits(bo))
  <2> HIDE DEF Defined
  <2> QED  BY <1>6, <1>7
<1> QED
  <2> HIDE DEF n
  <2> QED  BY <1>8 DEF N, n

(* A period a Sound Backoff can have, and what one Pause makes of it.       *)
Highest(n) == IF n.cur > n.Max THEN n.cur ELSE n.Max

LEMMA CappedRange ==
    ASSUME NEW bo \in Backoffs, Sound(bo), NEW k \in 1 .. Highest(Normalized(bo))
    PROVE  LET n == Normalized(bo)
           IN  /\ (k * n.Multiplier) \div 100 \in 1 .. IntMax
               /\ Capped(n, k) \in 1 .. n.Max
               /\ n.Max <= Highest(n)
<1> DEFINE n == Normalized(bo)
<1>1. /\ n.cur \in Nat \ {0} /\ n.Max \in Nat \ {0}
      /\ n.cur \in Durations /\ n.Max \in Durations
      /\ n.Multiplier \in Nat /\ n.Multiplier >= 100
      /\ (Highest(n) * n.Multiplier) \div 100 <= IntMax
  BY SoundParameters DEF Highest
<1> HIDE DEF n
<1>2. Highest(n) \in Nat /\ Highest(n) \in Durations /\ n.Max <= Highest(n)
  BY <1>1 DEF Highest
<1>3. k \in Nat /\ k > 0 /\ k <= Highest(n) /\ k \in Durations
  BY <1>2, BackoffAssumption DEF n, Durations, IntMin
<1>4. k * n.Multiplier <= Highest(n) * n.Multiplier
  BY <1>1, <1>2, <1>3, TimesMonotone
<1>5. k * n.Multiplier \in Nat /\ Highest(n) * n.Multiplier \in Nat
  BY <1>1, <1>2, <1>3
<1>6. (k * n.Multiplier) \div 100 <= IntMax
  BY <1>1, <1>4, <1>5, BackoffAssumption
<1>7. (k * n.Multiplier) \div 100 \in Nat /\ k <= (k * n.Multiplier) \div 100
  BY <1>1, <1>3, ScaledGrows
<1>8. (k * n.Multiplier) \div 100 \in 1 .. IntMax
  BY <1>3, <1>6, <1>7, BackoffAssumption
<1>9. Capped(n, k) \in 1 .. n.Max
  BY <1>1, <1>3, <1>7 DEF Capped
<1> QED  BY <1>2, <1>8, <1>9 DEF n

(* All limits are periods a Sound Backoff can have. *)
LEMMA LimitsRange ==
    ASSUME NEW bo \in Backoffs, Sound(bo)
    PROVE  \A k \in 0 .. MaxCount + 1 : Limits(bo)[k] \in 1 .. Highest(Normalized(bo))
<1> DEFINE n == Normalized(bo)
           N == MaxCount + 1
           range == 1 .. Highest(n)
           bad == {k \in 0 .. N : Limits(bo)[k] \notin range}
<1>1. N \in Nat /\ n.cur \in range /\ Highest(n) \in Nat
  <2>1. n.cur \in Nat \ {0} /\ n.Max \in Nat \ {0}
    BY SoundParameters
  <2> HIDE DEF n
  <2> QED  BY <2>1, InvokeAssumption DEF Highest
<1>2. \A k \in 0 .. N :
          Limits(bo)[k] = IF k = 0 THEN n.cur ELSE Capped(n, Limits(bo)[k - 1])
  BY LimitsRecursion
<1>3. \A cur \in range : Capped(n, cur) \in range
  <2> TAKE cur \in range
  <2>1. Capped(n, cur) \in 1 .. n.Max /\ n.Max <= Highest(n)
    BY CappedRange
  <2>2. n.Max \in Nat
    BY SoundParameters
  <2> HIDE DEF n
  <2> QED  BY <1>1, <2>1, <2>2
<1> HIDE DEF n, range
<1>4. SUFFICES ASSUME bad # {} PROVE FALSE
  BY DEF N, n, range
<1>5. PICK k \in bad : \A j \in bad : k <= j
  <2>1. bad \in SUBSET Nat
    OBVIOUS
  <2> HIDE DEF bad
  <2> QED  BY <1>4, <2>1, FirstInLeast
<1>6. k \in 0 .. N /\ Limits(bo)[k] \notin range
  OBVIOUS
<1>7. CASE k = 0
  BY <1>1, <1>2, <1>6, <1>7
<1>8. CASE k # 0
  <2>1. k - 1 \in 0 .. N /\ k - 1 < k /\ k \in Nat
    BY <1>1, <1>6, <1>8
  <2>2. k - 1 \notin bad
    <3> HIDE DEF bad
    <3> QED  BY <1>5, <2>1
  <2>3. Limits(bo)[k - 1] \in range
    BY <2>1, <2>2
  <2> QED  BY <1>2, <1>3, <1>6, <1>8, <2>3
<1> QED  BY <1>7, <1>8

(* The Backoff of the call's Retryer, with the period k.                    *)
PeriodAt(k) == [Normalized(settings.Retry.backoff) EXCEPT !.cur = k]

(* The Retryer is made at the first failure, and what its Backoff has       *)
(* reached is decided by the number of retries alone: during a pause it is  *)
(* already the limit of the next one.                                       *)
EnvelopeInv ==
    LET limit == Limits(settings.Retry.backoff)
    IN  Sound(settings.Retry.backoff) /\ CountTellsLimit =>
            /\ pc \in {"entry", "loop", "calling", "returned"} =>
                  IF retryer = NilRetryer THEN retryCount = 0
                  ELSE retryer.backoff = PeriodAt(limit[retryCount])
            /\ pc = "sleeping" =>
                  /\ retryer # NilRetryer
                  /\ retryer.backoff = PeriodAt(limit[retryCount + 1])
                  /\ wake <= limit[retryCount]

(* A Backoff with the period k pauses within k and goes on with the next    *)
(* limit, whether it is new or has paused before.                           *)
LEMMA PauseAtPeriod ==
    ASSUME NEW bo \in Backoffs, Sound(bo), NEW k \in 1 .. Highest(Normalized(bo)),
           NEW b, Normalized(b) = [Normalized(bo) EXCEPT !.cur = k]
    PROVE  /\ PauseResults(b) = 1 .. k
           /\ AfterPause(b) =
                  {[Normalized(bo) EXCEPT !.cur = Capped(Normalized(bo), k)]}
<1> DEFINE n == Normalized(bo)
           at == [n EXCEPT !.cur = k]
           product == (k * n.Multiplier) \div 100
<1>1. /\ n \in Backoffs /\ n.Max \in Nat
      /\ product \in 1 .. IntMax
  BY SoundParameters, CappedRange
<1>2. product \in Int /\ product <= IntMax
  <2> HIDE DEF product
  <2> QED  BY <1>1
<1> HIDE DEF n
<1>3. at.cur = k /\ at.Max = n.Max /\ at.Multiplier = n.Multiplier
      /\ \A x : [at EXCEPT !.cur = x] = [n EXCEPT !.cur = x]
  BY <1>1 DEF Backoffs
<1>4. Normalized(b) = at
  BY DEF n
<1>5. Scaled(at.cur, at.Multiplier) = {product}
  BY <1>2, <1>3 DEF Scaled
<1>6. Capped(n, k) = IF product > n.Max THEN n.Max ELSE product
  <2>1. Capped(n, k) = IF product < n.Max THEN product ELSE n.Max
    BY DEF Capped
  <2> HIDE DEF product
  <2> QED  BY <1>1, <1>2, <2>1
<1> HIDE DEF at, product
<1>7. PauseResults(b) = 1 .. k
  BY <1>3, <1>4 DEF PauseResults
<1>8. AfterPause(b) = {[n EXCEPT !.cur = Capped(n, k)]}
  <2>1. AfterPause(b) = {[at EXCEPT !.cur = IF c > at.Max THEN at.Max ELSE c] :
                            c \in {product}}
    BY <1>4, <1>5 DEF AfterPause
  <2>2. AfterPause(b) = {[at EXCEPT !.cur = Capped(n, k)]}
    BY <1>3, <1>6, <2>1
  <2> QED  BY <1>3, <2>2
<1> QED  BY <1>7, <1>8 DEF n

(* The Backoff the next failure pauses with. *)
LEMMA CurrentPeriod ==
    ASSUME TypeOK, EnvelopeInv, pc = "returned", settings.Retry.kind # "nil",
           Sound(settings.Retry.backoff), CountTellsLimit
    PROVE  LET limit == Limits(settings.Retry.backoff)
           IN  /\ Normalized(CurrentRetryer.backoff) = PeriodAt(limit[retryCount])
               /\ PauseResults(CurrentRetryer.backoff) = 1 .. limit[retryCount]
               /\ AfterPause(CurrentRetryer.backoff) = {PeriodAt(limit[retryCount + 1])}
<1> DEFINE bo == settings.Retry.backoff
           n == Normalized(bo)
           limit == Limits(bo)
           k == limit[retryCount]
<1>1. bo \in Backoffs /\ Sound(bo)
  BY DEF TypeOK, Settings, Retryers
<1>2. n \in Backoffs /\ n.Initial # 0 /\ n.Max # 0 /\ n.Multiplier >= 100
      /\ n.Max \in Nat /\ n.cur \in Nat
  BY <1>1, SoundParameters
<1>3. retryCount \in 0 .. MaxCount + 1 /\ retryCount + 1 \in 0 .. MaxCount + 1
      /\ retryCount \in Nat /\ retryCount + 1 # 0
  BY InvokeAssumption DEF TypeOK
<1>4. k \in 1 .. Highest(n) /\ limit[retryCount + 1] = Capped(n, k)
      /\ (retryCount = 0 => k = n.cur)
  <2>1. k \in 1 .. Highest(n)
    BY <1>1, <1>3, LimitsRange
  <2>2. limit[retryCount + 1] = Capped(n, limit[retryCount + 1 - 1])
    BY <1>1, <1>3, LimitsRecursion
  <2>3. retryCount + 1 - 1 = retryCount
    BY <1>3
  <2>4. retryCount = 0 => k = n.cur
    BY <1>1, <1>3, LimitsRecursion
  <2> QED  BY <2>1, <2>2, <2>3, <2>4
<1>5. k \in Nat /\ k # 0
  <2>1. Highest(n) \in Nat
    BY <1>2 DEF Highest
  <2> HIDE DEF k, n
  <2> QED  BY <1>4, <2>1
<1>6. IF retryer = NilRetryer THEN retryCount = 0
      ELSE retryer.backoff = PeriodAt(limit[retryCount])
  BY DEF EnvelopeInv
<1>7. Normalized(CurrentRetryer.backoff) = [n EXCEPT !.cur = k]
  <2> HIDE DEF k, n, limit
  <2>1. CASE retryer = NilRetryer
    <3>1. CurrentRetryer.backoff = bo
      BY <2>1 DEF CurrentRetryer, NewRetryer
    <3>2. n = [n EXCEPT !.cur = k]
      BY <1>2, <1>4, <1>6, <2>1 DEF Backoffs
    <3> QED  BY <3>1, <3>2 DEF n
  <2>2. CASE retryer # NilRetryer
    <3>1. CurrentRetryer.backoff = [n EXCEPT !.cur = k]
      BY <1>6, <2>2 DEF CurrentRetryer, PeriodAt, n, k, limit
    <3>2. [n EXCEPT !.cur = k] = [Initial |-> n.Initial, cur |-> k, Max |-> n.Max,
                                 Multiplier |-> n.Multiplier]
      BY <1>2 DEF Backoffs
    <3>3. n.Multiplier \in Int /\ n.Multiplier >= 100
      BY <1>2 DEF Backoffs
    <3>4. Normalized([n EXCEPT !.cur = k]) = [n EXCEPT !.cur = k]
      BY <1>2, <1>5, <3>2, <3>3 DEF Normalized
    <3> QED  BY <3>1, <3>4
  <2> QED  BY <2>1, <2>2
<1>8. /\ PauseResults(CurrentRetryer.backoff) = 1 .. k
      /\ AfterPause(CurrentRetryer.backoff) = {[n EXCEPT !.cur = Capped(n, k)]}
  <2> HIDE DEF k
  <2> QED  BY <1>1, <1>4, <1>7, PauseAtPeriod
<1> QED  BY <1>4, <1>7, <1>8 DEF PeriodAt

(* What the envelope depends on. *)
LEMMA EnvelopeSame ==
    ASSUME EnvelopeInv, UNCHANGED << settings, retryer, retryCount >>,
           \/ pc' = pc \/ pc' \notin {"entry", "loop", "calling", "returned", "sleeping"}
           \/ /\ pc \in {"entry", "loop", "calling"}
              /\ pc' \in {"loop", "calling", "returned"},
           pc = "sleeping" => wake' <= wake,
           wake \in Nat, wake' \in Nat,
           pc = "sleeping" /\ Sound(settings.Retry.backoff)
              => Limits(settings.Retry.backoff)[retryCount] \in Nat
    PROVE  EnvelopeInv'
BY DEF EnvelopeInv, CountTellsLimit, PeriodAt

LEMMA EnvelopeStep ==
    ASSUME SafetyInv, EnvelopeInv, [Next]_vars
    PROVE  EnvelopeInv'
<1> DEFINE bo == settings.Retry.backoff
           limit == Limits(bo)
<1>1. TypeOK /\ wake \in Nat /\ retryCount \in 0 .. MaxCount /\ bo \in Backoffs
      /\ wake' \in Nat
  BY NextType DEF SafetyInv, TypeOK, Settings, Retryers
<1>2. Sound(bo) => \A k \in 0 .. MaxCount + 1 : limit[k] \in Nat
  BY <1>1, LimitsRange
<1>3. Sound(bo) => limit[retryCount] \in Nat
  BY <1>1, <1>2, InvokeAssumption
<1> USE DEF input, context, clock, loop, observed, LeaveBy
<1>4. CASE BeginSleep
  <2> SUFFICES ASSUME Sound(bo)', CountTellsLimit'
               PROVE  /\ retryer' # NilRetryer
                      /\ retryer'.backoff = PeriodAt(limit[retryCount + 1])
                      /\ wake' <= limit[retryCount]
    BY <1>4 DEF BeginSleep, EnvelopeInv, PeriodAt
  <2>1. /\ pc = "returned" /\ settings.Retry.kind \notin {"none", "nil"}
        /\ UNCHANGED << settings, retryCount >>
        /\ retryer' \in AfterRetry(CurrentRetryer)
        /\ wake' \in PauseResults(CurrentRetryer.backoff)
    BY <1>4 DEF BeginSleep, WillRetry, Examined
  <2>2. Sound(bo) /\ CountTellsLimit
    BY <2>1 DEF CountTellsLimit
  <2>3. /\ PauseResults(CurrentRetryer.backoff) = 1 .. limit[retryCount]
        /\ AfterPause(CurrentRetryer.backoff) = {PeriodAt(limit[retryCount + 1])}
    BY <1>1, <2>1, <2>2, CurrentPeriod
  <2>4. retryer' = [CurrentRetryer EXCEPT !.backoff = PeriodAt(limit[retryCount + 1])]
    BY <2>1, <2>3 DEF AfterRetry
  <2>5. CurrentRetryer \in Retryers /\ CurrentRetryer.kind # "nil"
    <3>1. retryer = NilRetryer \/ retryer.kind = settings.Retry.kind
      BY DEF SafetyInv, RetryerInv
    <3> QED  BY <1>1, <2>1, <3>1, RetryerType DEF TypeOK, CurrentRetryer, NewRetryer
  <2>6. /\ retryer'.backoff = PeriodAt(limit[retryCount + 1])
        /\ retryer'.kind = CurrentRetryer.kind
    BY <2>4, <2>5 DEF Retryers
  <2>7. retryer' # NilRetryer
    BY <2>5, <2>6 DEF NilRetryer
  <2>8. wake' <= limit[retryCount]
    <3> HIDE DEF limit, bo
    <3> QED  BY <1>3, <2>1, <2>2, <2>3
  <2> QED  BY <2>6, <2>7, <2>8
<1>5. CASE SleepDone
  <2> SUFFICES ASSUME Sound(bo)', CountTellsLimit'
               PROVE  /\ retryer # NilRetryer
                      /\ retryer.backoff = PeriodAt(limit[retryCount'])
    BY <1>5 DEF SleepDone, EnvelopeInv, PeriodAt
  <2>1. /\ pc = "sleeping" /\ UNCHANGED settings
        /\ retryCount' = IF retryCount < MaxCount THEN retryCount + 1 ELSE retryCount
    BY <1>5 DEF SleepDone, CountUp
  <2>2. CountTellsLimit
    BY <1>1, <2>1, InvokeAssumption DEF CountTellsLimit
  <2>3. retryer # NilRetryer /\ retryer.backoff = PeriodAt(limit[retryCount + 1])
    BY <2>1, <2>2 DEF EnvelopeInv
  <2>4. limit[retryCount'] = limit[retryCount + 1]
    <3>1. CASE retryCount < MaxCount
      BY <2>1, <3>1
    <3>2. CASE ~(retryCount < MaxCount)
      <4>1. retryCount' = MaxCount /\ retryCount = MaxCount
        BY <1>1, <2>1, <3>2, InvokeAssumption
      <4>2. limit[MaxCount + 1] = limit[MaxCount]
        BY <2>2, <3>2 DEF CountTellsLimit
      <4> QED  BY <4>1, <4>2
    <3> QED  BY <3>1, <3>2
  <2> QED  BY <2>3, <2>4
<1>6. CASE ~BeginSleep /\ ~SleepDone
  <2>1. CASE GiveUp \/ RetryPanics \/ SleepInterrupted
    <3>1. pc' = "unwinding"
      BY <2>1 DEF GiveUp, RetryPanics, SleepInterrupted
    <3> QED  BY <3>1 DEF EnvelopeInv
  <2>2. CASE ~(GiveUp \/ RetryPanics \/ SleepInterrupted)
    <3>1. \/ Enter \/ StartAttempt \/ CallPanics
          \/ \E e \in CallErrors \cup {NilError} : CallReturns(e)
          \/ ReturnSuccess \/ ReturnCertError \/ ReturnUnretried
          \/ RunRecordMetric \/ RunCancel \/ Finish
          \/ Tick \/ DeadlineFires \/ CallerCancels
          \/ UNCHANGED vars
      BY <1>6, <2>2, Steps
    <3>2. UNCHANGED << settings, retryer, retryCount >>
      BY <3>1
      DEF Enter, StartAttempt, CallPanics, CallReturns, ReturnSuccess,
          ReturnCertError, ReturnUnretried, RunRecordMetric, RunCancel, Finish,
          Tick, DeadlineFires, CallerCancels, vars
    <3>3. \/ pc' = pc \/ pc' \notin {"entry", "loop", "calling", "returned", "sleeping"}
          \/ /\ pc \in {"entry", "loop", "calling"}
             /\ pc' \in {"loop", "calling", "returned"}
      BY <3>1
      DEF Enter, StartAttempt, CallPanics, CallReturns, ReturnSuccess,
          ReturnCertError, ReturnUnretried, RunRecordMetric, RunCancel, Finish,
          Tick, DeadlineFires, CallerCancels, vars
    <3>4. pc = "sleeping" => wake' <= wake
      BY <1>1, <3>1
      DEF Enter, StartAttempt, CallPanics, CallReturns, ReturnSuccess,
          ReturnCertError, ReturnUnretried, RunRecordMetric, RunCancel, Finish,
          Tick, DeadlineFires, CallerCancels, vars, CountDown
    <3> QED  BY <1>1, <1>3, <3>2, <3>3, <3>4, EnvelopeSame
  <2> QED  BY <2>1, <2>2
<1> QED  BY <1>4, <1>5, <1>6

(* The pauses of a call follow one envelope, decided by its settings and    *)
(* the number of retries: for every Backoff that does not overflow, new or  *)
(* used before, the Retryer of a call is made once and advanced once for    *)
(* every pause (v2/invoke.go, invoke; v2/call_option.go, Pause).            *)
THEOREM EnvelopeIsExact == Spec => []EnvelopeExact
<1>1. Init => EnvelopeInv
  BY DEF Init, EnvelopeInv
<1>2. SafetyInv /\ EnvelopeInv /\ [Next]_vars => EnvelopeInv'
  BY EnvelopeStep
<1>3. SafetyInv /\ EnvelopeInv => EnvelopeExact
  <2> SUFFICES ASSUME SafetyInv, EnvelopeInv, pc = "sleeping",
                      Sound(settings.Retry.backoff), CountTellsLimit
               PROVE  LET limit == Limits(settings.Retry.backoff)
                      IN  /\ wake <= limit[retryCount]
                          /\ retryer.backoff.cur = limit[retryCount + 1]
    BY DEF EnvelopeExact
  <2>1. Normalized(settings.Retry.backoff) \in Backoffs
    BY NormalizedType DEF SafetyInv, TypeOK, Settings, Retryers
  <2> QED  BY <2>1 DEF EnvelopeInv, PeriodAt, Backoffs
<1> QED  BY <1>1, <1>2, <1>3, SafetyHolds, PTL DEF Spec

----------------------------------------------------------------------------
(* Time and retries: a retry has always cost at least one unit of time, and *)
(* a pause that has begun will have, by when its timer expires.  What the   *)
(* clock says is known until it stops.                                      *)
TempoInv ==
    /\ attempts <= retryCount + 1
    /\ elapsed < MaxTime =>
        /\ retryCount <= elapsed
        /\ pc = "sleeping" => retryCount + 1 <= elapsed + wake

LEMMA TempoStep ==
    ASSUME TypeOK, CountsInv, TempoInv, [Next]_vars
    PROVE  TempoInv'
<1>1. /\ elapsed \in 0 .. MaxTime /\ MaxTime \in Nat /\ MaxCount \in Nat
      /\ retryCount \in 0 .. MaxCount /\ attempts \in 0 .. MaxCount + 1 /\ wake \in Nat
  BY InvokeAssumption DEF TypeOK
<1> USE DEF TempoInv, input, context, clock, loop, observed, LeaveBy
<1>2. CASE BeginSleep
  <2>1. CurrentRetryer.backoff \in Backoffs
    BY RetryerType DEF TypeOK
  <2>2. wake' \in Nat /\ wake' >= 1
    <3>1. Normalized(CurrentRetryer.backoff).cur \in Int
      BY <2>1, NormalizedType DEF Backoffs, Durations, IntMin
    <3> QED  BY <1>2, <3>1 DEF BeginSleep, PauseResults
  <2>3. elapsed' = elapsed /\ retryCount' = retryCount /\ attempts' = attempts
    BY <1>2 DEF BeginSleep
  <2>4. elapsed < MaxTime => retryCount <= elapsed /\ retryCount + 1 <= elapsed + wake'
    <3>1. \A n, e, w \in Nat : n <= e /\ w >= 1 => n + 1 <= e + w
      OBVIOUS
    <3>2. retryCount \in Nat /\ elapsed \in Nat
      BY <1>1
    <3>3. elapsed < MaxTime => retryCount <= elapsed
      OBVIOUS
    <3> QED  BY <2>2, <3>1, <3>2, <3>3
  <2> QED  BY <2>3, <2>4
<1>3. CASE SleepDone
  BY <1>1, <1>3 DEF SleepDone, CountUp
<1>4. CASE Tick
  BY <1>1, <1>4 DEF Tick, CountUp, CountDown
<1>5. CASE StartAttempt
  <2>1. /\ attempts' <= retryCount + 1 /\ pc' # "sleeping"
        /\ UNCHANGED << elapsed, retryCount >>
    BY <1>1, <1>5 DEF StartAttempt, CountsInv, CountUp
  <2> QED  BY <1>1, <2>1
<1>6. ASSUME UNCHANGED << elapsed, retryCount, attempts >>,
             pc' = "sleeping" => UNCHANGED << pc, wake >>
      PROVE  TempoInv'
  BY <1>6
<1> QED
  BY <1>2, <1>3, <1>4, <1>5, <1>6, Steps
  DEF Enter, CallReturns, CallPanics, ReturnSuccess, ReturnCertError,
      ReturnUnretried, GiveUp, RetryPanics, SleepInterrupted, RunRecordMetric,
      RunCancel, Finish, DeadlineFires, CallerCancels, vars

(* A call never retries in a hot loop: whatever its Backoff and however      *)
(* fast its attempts fail, it has started at most one attempt for every     *)
(* unit of time since it began, and the first (v2/invoke.go, invoke;        *)
(* v2/call_option.go, Pause, which adds 1 so that no pause is empty).       *)
RetriesTakeTime == elapsed < MaxTime => attempts <= elapsed + 1

THEOREM NoHotLoop == Spec => []RetriesTakeTime
<1>1. Init => TempoInv
  BY DEF Init, TempoInv
<1>2. SafetyInv /\ TempoInv /\ [Next]_vars => TempoInv'
  BY TempoStep DEF SafetyInv
<1>3. SafetyInv /\ TempoInv => RetriesTakeTime
  <2> SUFFICES ASSUME SafetyInv, TempoInv PROVE RetriesTakeTime
    OBVIOUS
  <2>1. retryCount \in Nat /\ attempts \in Nat /\ elapsed \in Nat /\ MaxTime \in Nat
    BY InvokeAssumption DEF SafetyInv, TypeOK
  <2> QED  BY <2>1 DEF TempoInv, RetriesTakeTime
<1> QED  BY <1>1, <1>2, <1>3, SafetyHolds, PTL DEF Spec

----------------------------------------------------------------------------
(* Invoke implements RetryContract. *)

(* What the refinement mapping needs to know of a state. *)
LEMMA MappedState ==
    ASSUME SafetyInv
    PROVE  /\ pc \in Locations /\ exit \in Exits /\ attempts \in Nat
           /\ pc = "entry" => attempts = 0
           /\ pc \notin {"entry", "loop"} /\ pc \notin {"unwinding", "done"} => attempts > 0
           /\ pc \in {"unwinding", "done"} <=> exit # "none"
           /\ pc = "returned" => err = lastErr
<1>1. pc \in Locations /\ exit \in Exits /\ attempts \in Nat /\ retryCount \in Nat
  BY DEF SafetyInv, TypeOK
<1>2. /\ pc = "entry" => attempts = 0
      /\ pc \in {"calling", "returned", "sleeping"} => attempts = retryCount + 1
  BY DEF SafetyInv, CountsInv
<1>3. /\ pc \in {"unwinding", "done"} <=> exit # "none"
      /\ pc = "returned" => err = lastErr
  BY DEF SafetyInv, ResultInv
<1> QED  BY <1>1, <1>2, <1>3 DEF Locations

(* A step that leaves the loop alone changes at most whether the context is *)
(* done, and a context that is done stays so.                               *)
LEMMA ContextOnly ==
    ASSUME UNCHANGED << pc, attempts, exit, lastErr, err >>, ctxErr # "none" => ctxErr' # "none"
    PROVE  [Contract!Next]_(Contract!vars)
<1>1. Phase' = Phase /\ LastResult' = LastResult /\ Reply' = Reply
  BY DEF Phase, LastResult, Reply
<1>2. CASE ctxErr = "none" /\ ctxErr' # "none"
  BY <1>1, <1>2 DEF Contract!Next, Contract!ContextEnds
<1>3. CASE (ctxErr # "none") = (ctxErr' # "none")
  BY <1>1, <1>3 DEF Contract!vars
<1> QED  BY <1>2, <1>3

(* The steps of the loop, by the state they start from. *)
LEMMA ContractLoop ==
    ASSUME SafetyInv, SafetyInv', UNCHANGED ctxErr,
           \/ StartAttempt \/ \E e \in CallErrors \cup {NilError} : CallReturns(e)
           \/ BeginSleep \/ SleepDone
    PROVE  [Contract!Next]_(Contract!vars)
<1> USE DEF input, context, clock, loop, observed
<1>1. CASE StartAttempt
  <2>1. /\ pc = "loop" /\ pc' = "calling" /\ exit = "none" /\ attempts \in Nat
        /\ UNCHANGED << exit, lastErr, err >>
    BY <1>1, MappedState DEF StartAttempt
  <2>2. Phase' = "attempt" /\ LastResult' = "none" /\ Reply' = Reply
    BY <2>1 DEF Phase, LastResult, Reply
  <2>3. CASE attempts = 0
    <3>1. Phase = "idle"
      BY <2>1, <2>3 DEF Phase
    <3> QED  BY <2>2, <3>1 DEF Contract!Next, Contract!Begin
  <2>4. CASE attempts # 0
    <3>1. Phase = "pause"
      BY <2>1, <2>4 DEF Phase
    <3> QED  BY <2>2, <3>1 DEF Contract!Next, Contract!Resume
  <2> QED  BY <2>3, <2>4
<1>2. CASE \E e \in CallErrors \cup {NilError} : CallReturns(e)
  <2>1. /\ pc = "calling" /\ pc' = "returned" /\ exit = "none" /\ attempts > 0 /\ attempts \in Nat
        /\ UNCHANGED << exit, attempts >>
    BY <1>2, MappedState DEF CallReturns
  <2>2. Phase = "attempt" /\ Phase' = "judged" /\ Reply' = Reply
    BY <2>1 DEF Phase, Reply
  <2>3. LastResult' \in {"ok", "failed"}
    BY <2>1 DEF LastResult
  <2> QED  BY <2>2, <2>3 DEF Contract!Next, Contract!AttemptEnds
<1>3. CASE BeginSleep
  <2>1. /\ pc = "returned" /\ pc' = "sleeping" /\ exit = "none" /\ attempts > 0 /\ attempts \in Nat
        /\ UNCHANGED << exit, attempts, lastErr >> /\ lastErr # NilError
    BY <1>3, MappedState DEF BeginSleep, WillRetry, Examined
  <2>2. Phase = "judged" /\ Phase' = "pause" /\ Reply' = Reply
    BY <2>1 DEF Phase, Reply
  <2>3. LastResult = "failed" /\ LastResult' = LastResult
    BY <2>1 DEF LastResult
  <2> QED  BY <2>2, <2>3 DEF Contract!Next, Contract!Pause
<1>4. CASE SleepDone
  <2>1. /\ pc = "sleeping" /\ pc' = "loop" /\ exit = "none" /\ attempts > 0 /\ attempts \in Nat
        /\ UNCHANGED << exit, attempts, lastErr >>
    BY <1>4, MappedState DEF SleepDone
  <2>2. Phase' = Phase /\ Reply' = Reply /\ LastResult' = LastResult
    BY <2>1 DEF Phase, Reply, LastResult
  <2> QED  BY <2>2 DEF Contract!vars
<1> QED  BY <1>1, <1>2, <1>3, <1>4

(* The ways out of the loop. *)
LEMMA ContractExit ==
    ASSUME SafetyInv, SafetyInv', UNCHANGED ctxErr,
           \/ CallPanics \/ RetryPanics \/ SleepInterrupted
           \/ ReturnSuccess \/ ReturnCertError \/ ReturnUnretried \/ GiveUp
    PROVE  [Contract!Next]_(Contract!vars)
<1> USE DEF input, context, clock, loop, observed, LeaveBy
<1>1. CASE CallPanics \/ RetryPanics
  <2>1. pc \in {"calling", "returned"} /\ pc' = "unwinding" /\ exit' = "panicked"
    BY <1>1 DEF CallPanics, RetryPanics, WillRetry, Examined
  <2>2. Phase \in {"attempt", "judged"} /\ Phase' = "over"
    BY <2>1 DEF Phase
  <2>3. LastResult' = "none" /\ Reply' = "panic"
    BY <2>1 DEF LastResult, Reply
  <2> QED  BY <2>2, <2>3 DEF Contract!Next, Contract!Panic
<1>2. CASE SleepInterrupted
  <2>1. /\ pc = "sleeping" /\ pc' = "unwinding" /\ exit = "none" /\ exit' = "interrupted"
        /\ ctxErr # "none" /\ UNCHANGED << attempts, lastErr >>
    BY <1>2, MappedState DEF SleepInterrupted
  <2>2. Phase = "pause" /\ Phase' = "over" /\ Reply' = "context" /\ LastResult' = LastResult
    BY <2>1 DEF Phase, Reply, LastResult
  <2> QED  BY <2>1, <2>2 DEF Contract!Next, Contract!Interrupt
<1>3. CASE ReturnSuccess \/ ReturnCertError \/ ReturnUnretried \/ GiveUp
  <2>1. /\ pc = "returned" /\ pc' = "unwinding" /\ exit = "none" /\ exit' = "returned"
        /\ attempts > 0 /\ attempts \in Nat /\ err = lastErr
        /\ UNCHANGED << attempts, lastErr >>
    BY <1>3, MappedState
    DEF ReturnSuccess, ReturnCertError, ReturnUnretried, GiveUp, Examined
  <2>2. err' = NilError <=> err = NilError
    <3>1. CASE ReturnSuccess \/ ReturnCertError
      BY <3>1 DEF ReturnSuccess, ReturnCertError
    <3>2. CASE ReturnUnretried \/ GiveUp
      <4>1. err # NilError /\ err' = Surfaced /\ err \in ErrorValues
        BY <3>2 DEF ReturnUnretried, GiveUp, Examined, SafetyInv, TypeOK
      <4> QED  BY <4>1, SurfacedUnwraps
    <3> QED  BY <1>3, <3>1, <3>2
  <2>3. Phase = "judged" /\ Phase' = "over"
    BY <2>1 DEF Phase
  <2>4. LastResult' = LastResult /\ Reply' = LastResult
    BY <2>1, <2>2 DEF LastResult, Reply
  <2> QED  BY <2>3, <2>4 DEF Contract!Next, Contract!Reply
<1> QED  BY <1>1, <1>2, <1>3

(* The other steps: on entry, around the deferred functions and outside.    *)
LEMMA ContractAround ==
    ASSUME SafetyInv, SafetyInv',
           \/ Enter \/ RunRecordMetric \/ RunCancel \/ Finish
           \/ Tick \/ DeadlineFires \/ CallerCancels \/ UNCHANGED vars
    PROVE  [Contract!Next]_(Contract!vars)
<1> USE DEF input, context, clock, loop, observed
<1>1. ctxErr # "none" => ctxErr' # "none"
  BY DEF Enter, RunRecordMetric, RunCancel, Finish, Tick, DeadlineFires, CallerCancels, vars
<1>2. CASE Enter
  <2>1. /\ pc = "entry" /\ pc' = "loop" /\ attempts = 0 /\ exit = "none"
        /\ UNCHANGED << attempts, exit, lastErr, err >>
    BY <1>2, MappedState DEF Enter
  <2>2. Phase' = Phase /\ LastResult' = LastResult /\ Reply' = Reply
    BY <2>1 DEF Phase, LastResult, Reply
  <2>3. CASE ctxErr = "none" /\ ctxErr' # "none"
    BY <2>2, <2>3 DEF Contract!Next, Contract!ContextEnds
  <2>4. CASE (ctxErr # "none") = (ctxErr' # "none")
    BY <2>2, <2>4 DEF Contract!vars
  <2> QED  BY <1>1, <2>3, <2>4
<1>3. CASE Finish
  <2>1. /\ pc = "unwinding" /\ pc' = "done"
        /\ UNCHANGED << attempts, exit, lastErr, err, ctxErr >>
    BY <1>3 DEF Finish
  <2>2. Phase' = Phase /\ LastResult' = LastResult /\ Reply' = Reply
    BY <2>1 DEF Phase, LastResult, Reply
  <2> QED  BY <2>1, <2>2 DEF Contract!vars
<1>4. CASE RunRecordMetric \/ RunCancel \/ Tick \/ DeadlineFires \/ CallerCancels \/ UNCHANGED vars
  <2>1. UNCHANGED << pc, attempts, exit, lastErr, err >>
    BY <1>4 DEF RunRecordMetric, RunCancel, Tick, DeadlineFires, CallerCancels, vars
  <2> QED  BY <1>1, <2>1, ContextOnly
<1> QED  BY <1>2, <1>3, <1>4

LEMMA ContractStep == SafetyInv /\ SafetyInv' /\ [Next]_vars => [Contract!Next]_(Contract!vars)
<1> SUFFICES ASSUME SafetyInv, SafetyInv', [Next]_vars
             PROVE  [Contract!Next]_(Contract!vars)
  OBVIOUS
<1>1. CASE \/ StartAttempt \/ \E e \in CallErrors \cup {NilError} : CallReturns(e)
           \/ BeginSleep \/ SleepDone
  <2>1. UNCHANGED ctxErr
    BY <1>1 DEF StartAttempt, CallReturns, BeginSleep, SleepDone, context
  <2> QED  BY <1>1, <2>1, ContractLoop
<1>2. CASE \/ CallPanics \/ RetryPanics \/ SleepInterrupted
           \/ ReturnSuccess \/ ReturnCertError \/ ReturnUnretried \/ GiveUp
  <2>1. UNCHANGED ctxErr
    BY <1>2
    DEF CallPanics, RetryPanics, SleepInterrupted, ReturnSuccess, ReturnCertError,
        ReturnUnretried, GiveUp, context
  <2> QED  BY <1>2, <2>1, ContractExit
<1>3. CASE \/ Enter \/ RunRecordMetric \/ RunCancel \/ Finish
           \/ Tick \/ DeadlineFires \/ CallerCancels \/ UNCHANGED vars
  BY <1>3, ContractAround
<1> QED  BY <1>1, <1>2, <1>3, Steps

(* Whatever the errors, settings, deadlines and interleavings, the caller   *)
(* sees attempts one at a time, a pause only after a failure, and one reply *)
(* that is the result of the last attempt, the end of the context or a      *)
(* panic (v2/invoke.go, invoke).                                            *)
THEOREM KeepsTheContract == Spec => Contract!Safe
<1>1. Init => Contract!Init
  BY DEF Init, Contract!Init, Phase, LastResult, Reply
<1> QED  BY <1>1, ContractStep, SafetyHolds, PTL DEF Spec, Contract!Safe
=============================================================================
