------------------------------- MODULE Client -------------------------------
(***************************************************************************)
(* The calls a program makes through one client at the same time: runs of  *)
(* gax.Invoke (v2/invoke.go) that share the feature flags of the process   *)
(* and the instruments of the client, while the telemetry data, the        *)
(* context and the Retryer of each are its own.  The retry loop itself is  *)
(* module Invoke; here an attempt fails or succeeds, and a failed one is   *)
(* repeated or not, so that what remains is what calls do to each other.   *)
(*                                                                         *)
(* Objects that are reached through pointers (TransportTelemetryData and   *)
(* the Backoff of a Retryer) are named by the call that made them.  The    *)
(* server and the HTTP status are written by the transport of an attempt,  *)
(* and stand for that attempt; a transport that is still running when its  *)
(* attempt is over may write the status late.                              *)
(***************************************************************************)
EXTENDS ClientMetrics, FeatureFlags, Backoff

CONSTANTS CallOptions,  \* the lists of options of a call
          Keyvals,      \* what the caller puts into the telemetry context
          Parameters,   \* the Backoff of the Retryers
          MaxAttempts   \* bound: attempts of a call

Calls == Users
Attempts == 1 .. MaxAttempts
Nobody == "nobody"
TelemetryKeys == {"rpc_method", "resend_count"}

(* What Go's types say of the options and the keys.  A Backoff that panics  *)
(* is the subject of module Pauses; the calls are given one that cannot.    *)
ASSUME ClientAssumption ==
    /\ Askers = Users /\ Nobody \notin Users
    /\ CallOptions \subseteq Seq([field : CallFields, value : STRING])
    /\ Keyvals \subseteq Seq([field : TelemetryKeys, value : STRING])
    /\ Parameters \in Backoffs /\ Parameters.cur = 0 /\ Sound(Parameters)
    /\ MaxAttempts \in Nat \ {0}

VARIABLES
    pc,         \* where each call is
    opts,       \* the options it was given
    settings,   \* its CallSettings
    flags,      \* the answers it got from IsFeatureEnabled
    ctx,        \* its context: telemetry values and telemetry data
    td,         \* the TransportTelemetryData of each call
    retryer,    \* the Retryer of each call, Nobody before it is made
    backoff,    \* the Backoff of each Retryer
    attempt,    \* the number of the latest attempt
    reached,    \* history: attempts that told the server they reached
    responded,  \* history: attempts that told the status of a response
    late,       \* history: those that saw it when they were over
    limits,     \* history: the limits of the pauses of each call
    point       \* the data point, as far as it is complete

callVars == << pc, opts, settings, flags, ctx, td, retryer, backoff, attempt,
               reached, responded, late, limits, point >>
clientVars == << metricsVars, flagVars, callVars >>

NoMark == [call |-> Nobody, attempt |-> 0]
Mark(c) == [call |-> c, attempt |-> attempt[c]]
NoPoint == [state |-> "none"]

Locations == {"new", "METRICS", "TRACING", "calling", "unwinding",
              "instruments", "server", "status", "done", "panicked"}
Over(c) == pc[c] \in {"done", "panicked"}

Init ==
    /\ MetricsInit
    /\ FlagsInit
    /\ pc = [c \in Calls |-> "new"]
    /\ opts \in [Calls -> CallOptions]
    /\ settings = [c \in Calls |-> ResolveAll(CallFields, << >>)]
    /\ flags = [c \in Calls |-> [METRICS |-> FALSE, TRACING |-> FALSE]]
    /\ ctx = [c \in Calls |-> [rpc_method |-> Unset, resend_count |-> Unset, td |-> Nobody]]
    /\ td = [c \in Calls |-> [server |-> NoMark, status |-> NoMark]]
    /\ retryer = [c \in Calls |-> Nobody]
    /\ backoff = [c \in Calls |-> Parameters]
    /\ attempt = [c \in Calls |-> 0]
    /\ reached = [c \in Calls |-> {}]
    /\ responded = [c \in Calls |-> {}]
    /\ late = [c \in Calls |-> {}]
    /\ limits = [c \in Calls |-> << >>]
    /\ point = [c \in Calls |-> NoPoint]

Goto(c, from, to) ==
    /\ pc[c] = from
    /\ pc' = [pc EXCEPT ![c] = to]

----------------------------------------------------------------------------
(* Contexts: callctx.WithTelemetryContext and TelemetryFromContext, and the *)
(* pointer to the telemetry data.                                          *)

WithTelemetryContext(context, keyvals) ==
    [context EXCEPT
        !.rpc_method = Latest(keyvals, "rpc_method", context.rpc_method),
        !.resend_count = Latest(keyvals, "resend_count", context.resend_count)]
TelemetryFromContext(context, key) == context[key]

(* Mutant: the telemetry data is made once and belongs to the client. *)
HoistedTransportTelemetry(c) ==
    [ctx EXCEPT ![c].td = CHOOSE first \in Calls : TRUE]

InjectTransportTelemetry(c) == [ctx EXCEPT ![c].td = c]
ExtractTransportTelemetry(c) == ctx[c].td

----------------------------------------------------------------------------
(* Before the loop: options, features, telemetry data. *)

Start(c, keyvals) ==
    /\ Goto(c, "new", "METRICS")
    /\ settings' = [settings EXCEPT ![c] = ResolveAll(CallFields, opts[c])]
    /\ ctx' = [ctx EXCEPT ![c] = WithTelemetryContext(@, keyvals)]
    /\ AskFeature(c)
    /\ UNCHANGED << metricsVars, opts, flags, td, retryer, backoff, attempt,
                    reached, responded, late, limits, point >>

LearnMETRICS(c) ==
    /\ Goto(c, "METRICS", "TRACING")
    /\ GetAnswer(c)
    /\ flags' = [flags EXCEPT ![c].METRICS = StoredFeature("METRICS")]
    /\ ctx' = IF StoredFeature("METRICS") THEN InjectTransportTelemetry(c) ELSE ctx
    /\ UNCHANGED << metricsVars, opts, settings, td, retryer, backoff, attempt,
                    reached, responded, late, limits, point >>

(* The second question finds the sync.Once done; the loop begins. *)
LearnTRACING(c) ==
    /\ Goto(c, "TRACING", "calling")
    /\ featureEnabledOnce = "done"
    /\ flags' = [flags EXCEPT ![c].TRACING = StoredFeature("TRACING")]
    /\ attempt' = [attempt EXCEPT ![c] = 1]
    /\ UNCHANGED << metricsVars, flagVars, opts, settings, ctx, td, retryer, backoff,
                    reached, responded, late, limits, point >>

----------------------------------------------------------------------------
(* The attempts, and the transport below them. *)

(* How far the transport of an attempt gets before the attempt is over:     *)
(* SetServerAddress and SetServerPort are called when it reaches a server,  *)
(* SetHTTPStatusCode when it sees a response, which may be too late.        *)
Outcomes == {"unreached", "silent", "answered"}

(* With telemetry data in the context the transport tells it. *)
Transport(c, outcome) ==
    LET own == ExtractTransportTelemetry(c)
        this == {attempt[c]}
    IN  \/ /\ outcome = "unreached" \/ own = Nobody
           /\ UNCHANGED << td, reached, responded >>
        \/ /\ outcome = "silent" /\ own # Nobody
           /\ td' = [td EXCEPT ![own].server = Mark(c)]
           /\ reached' = [reached EXCEPT ![c] = @ \cup this]
           /\ UNCHANGED responded
        \/ /\ outcome = "answered" /\ own # Nobody
           /\ td' = [td EXCEPT ![own] = [server |-> Mark(c), status |-> Mark(c)]]
           /\ reached' = [reached EXCEPT ![c] = @ \cup this]
           /\ responded' = [responded EXCEPT ![c] = @ \cup this]

Succeed(c) ==
    /\ Goto(c, "calling", "unwinding")
    /\ Transport(c, "answered")
    /\ UNCHANGED << metricsVars, flagVars, opts, settings, flags, ctx, retryer,
                    backoff, attempt, late, limits, point >>

FailForGood(c) ==
    /\ Goto(c, "calling", "unwinding")
    /\ \E outcome \in Outcomes : Transport(c, outcome)
    /\ UNCHANGED << metricsVars, flagVars, opts, settings, flags, ctx, retryer,
                    backoff, attempt, late, limits, point >>

(* SetHTTPStatusCode by a transport that has outlived its attempt. *)
LateResponse(c, a) ==
    LET own == ExtractTransportTelemetry(c)
    IN  /\ a \in reached[c] \ responded[c]
        /\ ~Over(c)
        /\ responded' = [responded EXCEPT ![c] = @ \cup {a}]
        /\ late' = [late EXCEPT ![c] = @ \cup {a}]
        /\ td' = [td EXCEPT ![own].status = [call |-> c, attempt |-> a]]
        /\ UNCHANGED << metricsVars, flagVars, pc, opts, settings, flags, ctx, retryer,
                        backoff, attempt, reached, limits, point >>

(* Mutant: all calls are given the Retryer the first one made. *)
SharedRetryer(c) ==
    IF retryer[c] # Nobody THEN retryer[c] ELSE CHOOSE first \in Calls : TRUE

(* settings.Retry() makes a Retryer for this call, at its first failure. *)
CurrentRetryer(c) == IF retryer[c] # Nobody THEN retryer[c] ELSE c

FailAndPause(c) ==
    LET r == CurrentRetryer(c)
    IN  /\ pc[c] = "calling"
        /\ settings[c].Retry # Unset
        /\ attempt[c] < MaxAttempts
        /\ \E outcome \in Outcomes : Transport(c, outcome)
        /\ retryer' = [retryer EXCEPT ![c] = r]
        /\ limits' = [limits EXCEPT ![c] = Append(@, Normalized(backoff[r]).cur)]
        /\ \E bo \in AfterPause(backoff[r]) : backoff' = [backoff EXCEPT ![r] = bo]
        /\ attempt' = [attempt EXCEPT ![c] = @ + 1]
        /\ UNCHANGED << metricsVars, flagVars, pc, opts, settings, flags, ctx, late,
                        point >>

----------------------------------------------------------------------------
(* recordMetric, deferred *)

(* Without metrics it is not deferred; without instruments it returns. *)
SkipMetric(c) ==
    /\ ~flags[c].METRICS \/ settings[c].clientMetrics = Unset
    /\ Goto(c, "unwinding", "done")
    /\ UNCHANGED << metricsVars, flagVars, opts, settings, flags, ctx, td, retryer,
                    backoff, attempt, reached, responded, late, limits, point >>

GetInstruments(c) ==
    /\ flags[c].METRICS /\ settings[c].clientMetrics # Unset
    /\ Goto(c, "unwinding", "instruments")
    /\ CallGet(c)
    /\ UNCHANGED << flagVars, opts, settings, flags, ctx, td, retryer, backoff,
                    attempt, reached, responded, late, limits, point >>

(* durationHistogram and attributes *)
CheckInstruments(c) ==
    /\ pc[c] = "instruments"
    /\ LeaveGet(c)
    /\ \/ /\ get = "panicked"
          /\ pc' = [pc EXCEPT ![c] = "panicked"]
          /\ UNCHANGED point
       \/ /\ get = "done" /\ data.duration = "nil"
          /\ pc' = [pc EXCEPT ![c] = "done"]
          /\ UNCHANGED point
       \/ /\ get = "done" /\ data.duration # "nil"
          /\ pc' = [pc EXCEPT ![c] = "server"]
          /\ point' = [point EXCEPT ![c] =
                [state  |-> "open",
                 attr   |-> data.attr,
                 method |-> TelemetryFromContext(ctx[c], "rpc_method"),
                 server |-> NoMark, status |-> NoMark]]
    /\ UNCHANGED << flagVars, opts, settings, flags, ctx, td, retryer, backoff,
                    attempt, reached, responded, late, limits >>

(* The fields are read one by one, without a lock; then the point is       *)
(* recorded.                                                               *)
ReadTransport(c, field, next) ==
    /\ Goto(c, field, next)
    /\ LET read == [point[c] EXCEPT ![field] = td[ExtractTransportTelemetry(c)][field]]
       IN  point' = [point EXCEPT
               ![c] = IF next = "done" THEN [read EXCEPT !.state = "recorded"] ELSE read]
    /\ UNCHANGED << metricsVars, flagVars, opts, settings, flags, ctx, td, retryer,
                    backoff, attempt, reached, responded, late, limits >>

----------------------------------------------------------------------------
(* What the goroutine of the call does by itself. *)
Advance(c) ==
    \/ LearnMETRICS(c) \/ LearnTRACING(c)
    \/ InFeatureOnce(c) /\ UNCHANGED << metricsVars, callVars >>
    \/ Succeed(c) \/ FailForGood(c) \/ FailAndPause(c)
    \/ SkipMetric(c) \/ GetInstruments(c) \/ CheckInstruments(c)
    \/ InGet(c) /\ UNCHANGED << flagVars, callVars >>
    \/ ReadTransport(c, "server", "status")
    \/ ReadTransport(c, "status", "done")

Call(c) == \E keyvals \in Keyvals : Start(c, keyvals)

(* The rest of the program, while it can make a difference to a call.       *)
(* Tests reset the flags when no call is running.                          *)
Environment ==
    \/ /\ ChangeAttributes /\ UNCHANGED << flagVars, callVars >>
       /\ \E c \in Calls : ~Over(c)
    \/ /\ Setenv /\ UNCHANGED << metricsVars, callVars >>
       /\ \E c \in Calls : pc[c] \in {"new", "METRICS", "TRACING"}
    \/ /\ TestOnlyResetIsFeatureEnabled
       /\ \A c \in Calls : pc[c] = "new" \/ Over(c)
       /\ UNCHANGED << metricsVars, callVars >>

Next ==
    \/ \E c \in Calls : Call(c) \/ Advance(c)
    \/ \E c \in Calls, a \in Attempts : LateResponse(c, a)
    \/ Environment

Spec == Init /\ [][Next]_clientVars

(* The goroutine of a call that was made is scheduled, and its attempts end. *)
FairSpec == Spec /\ \A c \in Calls : WF_clientVars(Advance(c))

----------------------------------------------------------------------------
TypeOK ==
    /\ FlagsTypeOK
    /\ GetOnce!TypeOK
    /\ data \in Instruments \cup {NoInstruments}
    /\ (get = "done") = (data # NoInstruments)
    /\ pc \in [Calls -> Locations]
    /\ \A c \in Calls :
        /\ settings[c] \in [CallFields -> STRING]
        /\ ctx[c].td \in {c, Nobody} /\ retryer[c] \in {c, Nobody}
        /\ backoff[c] \in Backoffs
        /\ attempt[c] \in 0 .. MaxAttempts
        /\ responded[c] \subseteq reached[c] /\ reached[c] \subseteq 1 .. attempt[c]
        /\ late[c] \subseteq responded[c]

Learned(c, feature) ==
    IF feature = "METRICS" THEN pc[c] \notin {"new", "METRICS"}
    ELSE pc[c] \notin {"new", "METRICS", "TRACING"}

(* All the calls that run at a time, and both questions of each, get their  *)
(* answers from one environment, however it changes meanwhile               *)
(* (v2/feature.go, IsFeatureEnabled).                                       *)
FlagsOfOneEnvironment ==
    \E env \in Environments : \A c \in {d \in Calls : ~Over(d)} :
        \A feature \in {"METRICS", "TRACING"} :
            Learned(c, feature) => flags[c][feature] = (feature \in Enabled(env))

Recorded == {c \in Calls : point[c].state = "recorded"}

(* However many calls need the instruments at once, they are made once: all *)
(* the data points of a client carry the attributes they were made with,   *)
(* whatever the caller does to its map (v2/telemetry.go, NewClientMetrics). *)
OneInstrument == \A c \in Recorded : point[c].attr = data.attr

(* A data point tells about its own call: the server of the last attempt    *)
(* that reached one, and the status of the last response, however many      *)
(* attempts failed without one after it.  A transport that outlived its     *)
(* attempt may make that the status of an earlier attempt of the same call, *)
(* never of another call (v2/telemetry.go, TransportTelemetryData).         *)
PointIsOwn ==
    \A c \in Recorded :
        LET p == point[c]
        IN  /\ p.server = IF reached[c] = {} THEN NoMark
                          ELSE [call |-> c, attempt |-> Max(reached[c])]
            /\ p.status \in {NoMark} \cup {[call |-> c, attempt |-> a] : a \in responded[c]}
            /\ late[c] = {} /\ responded[c] # {} =>
                    p.status.attempt = Max(responded[c])

(* The pauses of a call follow the envelope of a Backoff nobody else uses,  *)
(* however many calls of the client fail at the same time                   *)
(* (v2/call_option.go: "each Retryer has its own copy").                    *)
OwnEnvelope ==
    \A c \in Calls : \A i \in DOMAIN limits[c] :
        IF i = 1 THEN limits[c][i] = Normalized(Parameters).cur
        ELSE \E bo \in AfterPause([Parameters EXCEPT !.cur = limits[c][i - 1]]) :
                limits[c][i] = bo.cur

(* Every call that was begun ends, also when it has to wait for another one *)
(* that makes the instruments, and when that one panics.                    *)
EveryCallEnds == \A c \in Calls : pc[c] = "METRICS" ~> Over(c)
=============================================================================
