--------------------------- MODULE ClientMetrics ---------------------------
(***************************************************************************)
(* The instruments of one client (v2/telemetry.go, ClientMetrics), shared  *)
(* by all its calls.  NewClientMetrics resolves its options and keeps the  *)
(* result; the first call that records a metric makes the instruments, in  *)
(* a sync.OnceValue.  The map of attributes belongs to the caller of       *)
(* NewClientMetrics, who may have changed it by then.                      *)
(***************************************************************************)
EXTENDS Options, Integers

CONSTANTS Users,            \* goroutines that need the instruments
          TelemetryOptions, \* the lists of options of NewClientMetrics
          MaxChanges        \* bound: how often the caller changes its map

ASSUME MetricsAssumption ==
    /\ TelemetryOptions \subseteq Seq([field : TelemetryFields, value : STRING])
    /\ MaxChanges \in Nat

VARIABLES config,       \* the telemetryOptions that the closure has captured
          attributes,   \* the contents of config.attributes
          get,          \* the sync.OnceValue
          getting,      \* where the users are in it
          data          \* the clientMetricsData it returns

metricsVars == << config, attributes, get, getting, data >>

GetOnce == INSTANCE Once WITH Goroutines <- Users, once <- get, at <- getting

Instruments ==
    [duration : {"histogram", "nil"}, provider : STRING, boundaries : STRING,
     attr : 0 .. MaxChanges]
NoInstruments == [duration |-> "none"]

(* NewClientMetrics *)
MetricsInit ==
    /\ \E opts \in TelemetryOptions : config = ResolveAll(TelemetryFields, opts)
    /\ attributes = 0
    /\ GetOnce!Init
    /\ data = NoInstruments

(* Float64Histogram refuses unsorted boundaries; what it returns besides    *)
(* the error, which is only logged, is up to the provider.                 *)
Refused == bucketBoundaries(config) = "unsorted"

MakeInstruments(u) ==
    /\ meterProvider(config) # "panics"
    /\ GetOnce!Finish(u)
    /\ \E duration \in {"histogram"} \cup (IF Refused THEN {"nil"} ELSE {}) :
            data' = [duration   |-> duration,
                     provider   |-> meterProvider(config),
                     boundaries |-> bucketBoundaries(config),
                     attr       |-> attributes]
    /\ UNCHANGED << config, attributes >>

(* A provider that panics: so does every call of get from then on. *)
MakingPanics(u) ==
    /\ meterProvider(config) = "panics"
    /\ GetOnce!Panic(u)
    /\ UNCHANGED << config, attributes, data >>

CallGet(u) == GetOnce!Call(u) /\ UNCHANGED << config, attributes, data >>
LeaveGet(u) == GetOnce!Leave(u) /\ UNCHANGED << config, attributes, data >>

(* Mutant: the instruments are made if there are none, without a lock. *)
InGetUnlocked(u) ==
    \/ MakeInstruments(u)
    \/ MakingPanics(u)
    \/ /\ \/ GetOnce!Run(u) \/ GetOnce!Pass(u)
          \/ get = "running" /\ GetOnce!Move(u, "waiting", "running") /\ UNCHANGED get
       /\ UNCHANGED << config, attributes, data >>

InGet(u) ==
    \/ MakeInstruments(u)
    \/ MakingPanics(u)
    \/ /\ GetOnce!Run(u) \/ GetOnce!Pass(u)
       /\ UNCHANGED << config, attributes, data >>

(* The caller changes its map while no goroutine reads it. *)
ChangeAttributes ==
    /\ get # "running"
    /\ attributes < MaxChanges
    /\ attributes' = attributes + 1
    /\ UNCHANGED << config, get, getting, data >>
=============================================================================
