------------------------------ MODULE Options ------------------------------
(***************************************************************************)
(* The options of a call (v2/call_option.go) and those of the metrics of a *)
(* client (v2/telemetry.go).  An option sets one field, whatever was there *)
(* before; the functions that make options only keep their argument.       *)
(***************************************************************************)
EXTENDS Sequences, FiniteSetsExt

Unset == "unset"    \* nil, "" or 0

CallFields == {"Retry", "GRPC", "Path", "timeout", "clientMetrics"}
TelemetryFields == {"provider", "attributes", "explicitBucketBoundaries", "logger"}

(* The CallOptions and the TelemetryOptions, by the fields they set. *)
WithRetry(fn) == [field |-> "Retry", value |-> fn]
WithGRPCOptions(opt) == [field |-> "GRPC", value |-> opt]
WithPath(p) == [field |-> "Path", value |-> p]
WithTimeout(t) == [field |-> "timeout", value |-> t]
WithClientMetrics(cm) == [field |-> "clientMetrics", value |-> cm]

WithMeterProvider(p) == [field |-> "provider", value |-> p]
WithTelemetryAttributes(attr) == [field |-> "attributes", value |-> attr]
WithExplicitBucketBoundaries(b) == [field |-> "explicitBucketBoundaries", value |-> b]
WithTelemetryLogger(l) == [field |-> "logger", value |-> l]

(* Resolve of an option, and what a loop over options leaves in a field:    *)
(* the value of the last one that sets it.                                 *)
Sets(opt, field) == opt.field = field
Latest(opts, field, before) ==
    LET setters == {i \in DOMAIN opts : Sets(opts[i], field)}
    IN  IF setters = {} THEN before ELSE opts[Max(setters)].value

(* The loops of Invoke and NewClientMetrics over their options. *)
ResolveAll(fields, opts) == [f \in fields |-> Latest(opts, f, Unset)]

(* What the instruments are made with when a field was left unset. *)
meterProvider(config) ==
    IF config.provider # Unset THEN config.provider ELSE "otel.GetMeterProvider()"
bucketBoundaries(config) ==
    IF config.explicitBucketBoundaries # Unset THEN config.explicitBucketBoundaries
    ELSE "defaultHistogramBoundaries"

(* The literals above are strings, like the values the options are given. *)
ASSUME OptionsAssumption ==
    {Unset, "otel.GetMeterProvider()", "defaultHistogramBoundaries"} \subseteq STRING
=============================================================================
