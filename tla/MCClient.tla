------------------------------ MODULE MCClient ------------------------------
(* Small instances of Client for TLC. *)
EXTENDS Client

MCParameters == [Initial |-> 1, Max |-> 3, Multiplier |-> 200, cur |-> 0]

On(prefix, key) == [prefix |-> prefix, key |-> key, true |-> TRUE]

(* One feature or the other, under either prefix, with variables that turn  *)
(* nothing on and one of another program: answers from both are those of   *)
(* no environment.                                                         *)
MCEnvironments == {
    {On("GOOGLE_SDK_GO_EXPERIMENTAL_", "METRICS"),
     [prefix |-> "GOOGLE_SDK_GO_", key |-> "TRACING", true |-> FALSE]},
    {On("GOOGLE_SDK_GO_", "TRACING"), On("other", "METRICS"),
     [prefix |-> "GOOGLE_SDK_GO_EXPERIMENTAL_", key |-> "TRACING", true |-> FALSE]} }

(* A provider of the user that panics; and the global one, with boundaries  *)
(* it refuses, so that it may return a histogram or none.                  *)
MCTelemetryOptions == {
    << WithMeterProvider("panics"), WithTelemetryLogger("logger") >>,
    << WithTelemetryAttributes("map"), WithExplicitBucketBoundaries("sorted"),
       WithExplicitBucketBoundaries("unsorted") >> }

(* Retries and metrics, of two functions the last; neither. *)
MCCallOptions == {
    << WithRetry("other"), WithTimeout("1s"), WithClientMetrics("cm"), WithRetry("fn") >>,
    << WithClientMetrics("cm"), WithPath("p"), WithClientMetrics(Unset) >> }

MCKeyvals == {
    << [field |-> "rpc_method", value |-> "m"], [field |-> "rpc_method", value |-> "n"] >> }
=============================================================================
