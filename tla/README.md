# Specifications of gax-go

TLA+ specifications, model-checking configurations and machine-checked proofs for
`gax-go`, the Google API extensions for Go: the library that generated Google
Cloud clients call to make a request, retry it, classify its error and report on
it. The code is under `src/v2` (version 1, under `src/`, forwards to it).

Everything is checked with TLC (`*.cfg`) and TLAPS (`*_proofs.tla`). The list of
runs, the correspondence of definitions and source lines, the mutants each
property was tried on, the hazards and the findings are in `PROJECT.json`.

## 1. The system

| Component | State | Operations | What is hard about it |
|---|---|---|---|
| Retry loop, `invoke.go` | context (its deadline and error), named result `err`, `retryer`, `retryCount`, the stack of deferred functions | `Invoke`, `invoke`, `Sleep` | a loop with no bound but its context; two ready cases of a `select`; defers that read variables later; panics |
| Retryers and settings, `call_option.go` | per call: the codes and a `Backoff` | `OnCodes`, `OnHTTPCodes`, `OnErrorFunc`, `Retry`, the `With...` options | they judge an error that has been wrapped already |
| Backoff, `call_option.go` | `cur`, the period | `Pause` | defaults, jitter, overflow, negative parameters |
| Errors, `apierror/apierror.go` | immutable values with an `Unwrap` chain, and typed details | `FromError`, `ParseError`, `Reason`, `HTTPCode`, `GRPCStatus`, `Unwrap`, `Details`, `Error`, `Message`, `ExtractProtoMessage` | layers that classify an error that is classified already; details in any order and number |
| Telemetry of a call, `telemetry.go` | `TransportTelemetryData`, shared by pointer through the context | `ExtractTelemetryErrorInfo`, `recordMetric` | asks the context after the fact; data left over from an earlier attempt |
| Client metrics, `telemetry.go` | options, instruments made once | `NewClientMetrics`, `durationHistogram`, `attributes`, the `With...` options | concurrent first use; a provider that panics or refuses; a map the caller may change |
| Feature flags, `feature.go` | a map filled once from the environment | `IsFeatureEnabled`, `TestOnlyReset...` | concurrent first use, reset |
| Call context, `callctx/callctx.go` | headers and telemetry values in contexts | `SetHeaders`, `HeadersFromContext`, `WithTelemetryContext` | contexts that branch must not share what they change |
| Request headers, `header.go` | none | `XGoogHeader`, `InsertMetadataIntoOutgoingContext`, `BuildHeaders` | merging of three sources of headers |
| JSON stream, `proto_json_stream.go` | `first`, `closed`, a decoder that keeps some errors | `Recv`, `Close` | order of calls, truncated and malformed input |
| Content sniffer, `content_type.go` | buffered start, its error, the type | `Read`, `ContentType` | sniffing before, between and after reads |
| Range adapter, `iterator/iterator.go` | `err`, kept between ranges | the iterator | ranging again after a break or an error |
| Logging, `internallog` | none | formatting | nothing a model would show |

How they interact. A generated client resolves `CallOption`s and calls
`gax.Invoke` with a function that does the request. `invoke` derives a context
with a deadline, gives it the telemetry data the transport fills in, and calls
the function until it succeeds or the `Retryer` of the call gives up. Between two
attempts it sleeps for as long as the `Backoff` of the `Retryer` says, or until
the context ends. Every error but one (a certificate error) is wrapped in an
`APIError` *before* the `Retryer` sees it. On the way out, by a return or a
panic, the deferred functions record the duration metric (which classifies the
result) and release the derived context, in that order.

What makes each component correct:

- *Retry loop*: one deadline covers the whole call; an attempt is repeated if and
  only if its error, before it was wrapped, is one the `Retryer` accepts and the
  context allows it; the result is the last attempt's or the context's, truthfully; metric and
  context are dealt with once on every way out; a call whose context ends, ends.
- *Backoff*: no pause is longer than its limit, limits follow one envelope per
  call, and only unsound parameters panic.
- *Errors*: wrapping an error, any number of times, loses nothing that a `Retryer`
  or a caller looks for.
- *Telemetry*: what is recorded is true of the result, a failure is put down to
  the client only if it is the client's, and a data point is about its own call.
- *Contexts and headers*: a context is a value, whoever derives others from it at
  the same time; merging headers drops nothing.
- *JSON stream*: messages arrive once and in order, and `io.EOF` means the end.
- *Client metrics, feature flags*: made once, seen complete by everybody.
- *Content sniffer*: the bytes read are the bytes of the reader, whatever was
  sniffed; *range adapter*: each item once, errors reported.

## 2. Modules

| Module | Models | Extends |
|---|---|---|
| `ApiError` | errors as chains, newest first: classification (`setDetailsFromError`), `FromError`, `Unwrap`, `Reason`, `HTTPCode`, `toCode`; the gRPC and googleapi queries as external definitions | |
| `Backoff` | `Pause` as operators: normalisation, the set of possible results, growth, cap, panic, overflow | |
| `Pauses` | one `Backoff` used again and again | `Backoff` |
| `Retry` | the three Retryers, their verdict on an error and what `Retry` does to them | `ApiError`, `Backoff` |
| `ErrorChain` | an error on its way up through layers that classify or annotate it | `Retry` |
| `Telemetry` | `ExtractTelemetryErrorInfo`, `recordMetric` as operators | `ApiError` |
| `ErrorDetails` | what `ErrorChain` leaves out: `parseDetails`, `parseHTTPDetails`, `ErrDetails` and its methods, the set of pieces of `Error()` and `Message()` | `ErrorChain` |
| `Invoke` | a call of `gax.Invoke` with its context, clock and caller | `Retry`, `Telemetry` |
| `RetryContract` | the abstract promise of `gax.Invoke`; `Invoke` implements it | |
| `Once` | `sync.Once` and `sync.OnceValue`, with a function that may panic | |
| `FeatureFlags` | `IsFeatureEnabled`, its reset and the environment | `Once` (instance) |
| `Options` | `CallOption`s and `TelemetryOption`s, and how they are resolved | |
| `ClientMetrics` | the instruments of a client, made at first use | `Options`, `Once` (instance) |
| `Client` | several calls of one client at a time: flags, instruments, transport data, Retryers | `ClientMetrics`, `FeatureFlags`, `Backoff` |
| `CallCtx` | `SetHeaders` in several goroutines, on slices and arrays | |
| `Header` | the merging of headers into outgoing metadata | `CallCtx` |
| `ContextTree` | the abstract promise: a context is a value; `Header` implements it | |
| `ProtoJSONStream` | `Recv` and `Close` over a tokenised `json.Decoder` | |
| `Source` | a reader or iterator with a fault, as environment and as the abstract promise of the sniffer | |
| `ContentSniffer` | `contentSniffer` and `DetermineContentType`; implements `Source` | `Source` |
| `RangeAdapter` | `RangeAdapter`, with nested and resumed ranges | `Source` |

`MC*` modules and `.cfg` files are the instances for TLC; `*_proofs` modules hold
the theorems. Definitions whose comment begins with "Mutant" are plausible bugs of
the definition below them and are used by nothing but the mutants of
`PROJECT.json`, which show that the properties can fail.

### Correspondence with the code

**Invoke.** `pc` is the place of the goroutine in `invoke`: `Enter` is
`invoke.go:79-101` (settings, context, telemetry data, the two `defer`
statements), `StartAttempt` the head of the loop with `withRetryCount`,
`CallReturns` and `CallPanics` the API call, `ReturnSuccess`, `ReturnCertError`,
`ReturnUnretried`, `GiveUp`, `BeginSleep` and `RetryPanics` the ways through the
body of the loop, `SleepDone` and `SleepInterrupted` the two cases of the `select`
of `Sleep`, and `RunRecordMetric`, `RunCancel`, `Finish` the deferred functions in
the order of the stack `defers`. `err`, `retryer` and `retryCount` are the
variables of the code. `Tick`, `DeadlineFires` and `CallerCancels` are the clock,
the timer of the context and the caller. The timer of the context is a step of its
own, after the tick that exhausts `left`, because the runtime gives it no priority.
`attempts`, `lastErr`, `recorded` and `resend` are history for the properties. An
API call may return at any time and any error of `CallErrors`, also when its
context is over, and writes any HTTP status of its transport to `td`.

**Errors.** An error value is a sequence of links, the outermost first; `nil` is the
empty sequence. A link is an API error (`*APIError`, with what it found in the
chain below), a gRPC status, a `googleapi.Error`, or another error. `errors.As` and
`status.FromError` search the sequence as the libraries do. A link keeps of the
details the reason of an `ErrorInfo`, and of the text the bit that says whether it
is that of a certificate error (the one place where the code looks at text).

`ErrorDetails` adds the rest, beside the chain: `facts` has for each link the
details its status or body carries, the `ErrDetails` it presents (a field per kind
and `Unknown`), and the pieces of which `Error()` and `Message()` are made: the
message of the service, notes of annotations, and a paragraph per kind of detail.
`OfStatus` and `OfGoogleapi` are the two branches of `setDetailsFromError`, `Error`
and `Message`. The decoding of `Any` values and of a body is that of the protobuf
libraries: a gRPC status shows an error in the place of a value it cannot decode; of
an HTTP body everything is ignored if one type is unknown, and an `Any` without a
type is skipped. Details differ in their type and one value; `DetailsReachable` also
shows that the reason in the links is the one in the details.

**Client.** Each call is a goroutine, `pc` its place: the two questions about
features (`LearnMETRICS`, `LearnTRACING`), the attempts, and then `recordMetric` in
steps, the instruments first (`GetInstruments`, `CheckInstruments`) and then the
fields of the transport data one by one (`ReadTransport`), as nothing locks them. The
loop is coarser than in `Invoke`: whether an attempt fails for good or is repeated is
a choice, and there is no clock. Pointers are names: `ctx[c].td` says whose
`TransportTelemetryData` the context of `c` holds, `retryer[c]` whose Retryer it uses,
and the properties say that both are its own. What transports write stands for the
attempt that wrote it; `LateResponse` is a transport that writes the status when its
attempt is over. `IsFeatureEnabled` and the `get` of `ClientMetrics` are two instances of `Once`,
so that a call may wait in either for another one. `config.attributes` is the map of
the caller, read when the instruments are made: `attributes` is its version.
`TestOnlyResetIsFeatureEnabled` happens between calls, as tests use it and as its
comment demands.

**Backoff.** `rand.Int63n(n)` is any number below `n`. Multipliers are in
hundredths. A product that does not fit in a duration is what the conversion from
`float64` gives on amd64 or on arm64, a choice of two. Products are exact up to the
fraction that is cut off: what `float64` rounds in durations of more than 53 bits is not
modelled, so a period within 512 ns of the greatest duration, which the code rounds up
and out of range, is sound in the model (`Sound`, `NoPanicIfSound`). `Sound` says that a `Backoff`,
new or used before, never gets there. `Invoke` has the limits of all the pauses of a
call as a function of the retry count (`Limits`), rounded down at each step as `Pause`
does; `EnvelopeExact` compares the `Backoff` in the Retryer with it.

**CallCtx and Header.** `Begin`, `CloneHeader`, `AppendValue`, `Return` are
`SetHeaders` step by step, one slice or value at a time, with `range` over a map in
any order. A slice is the number of an array and a length; `append` writes in place
when the array has room, as in Go. `InsertMetadataIntoOutgoingContext` is one step:
everything it reads is immutable, which is what `OwnArrays` establishes.
`BuildHeaders` returns the same map and keeps nothing.

**ProtoJSONStream.** The bytes are a sequence of tokens. `Decode` and `Token` model
what Recv uses of `encoding/json`: the state of the decoder between tokens, and the
distinction between errors it keeps and errors it forgets. `RecvClosed`,
`RecvFails` and `RecvDecodes` are the three kinds of outcome of `Recv`.

**Source, ContentSniffer, RangeAdapter.** A source holds `length` items and may fail
behind `fault` of them, for ever or once (`transient`). A read brings any number of
items up to what was asked for, none included, and its error comes with the last
items or alone. `SniffRead` is one read of `io.ReadAll(io.LimitReader(...))`;
`ReadBuffered`, `ReadError` and `ReadUnderlying` are the three ways `Read` returns.
`SnifferIsReader` instantiates `Source` with what the caller has seen (bytes
delivered, last error, whether a read has failed). In `RangeAdapter` `frames` is the
stack of ranges that go on over one function, each at the head of its loop or in its
body, and `iterErr` the `err` they share. `seen` and `again` are history: what was
yielded, and whether `next` was called after it had ended or failed.

## 3. Runs

| Run | Distinct states | Shows |
|---|---|---|
| `invoke` | 277 054 | all the properties of a call: deadline, retries, result, envelope of the pauses, metric, attribution, resend count; with panics of the API call and of a `Backoff`, the context is released; a call whose context ends returns; `Invoke` implements `RetryContract` |
| `pauses` | 5 237 | limits, growth and panics of a `Backoff`, from all small parameters |
| `error_chain` | 20 165 | nothing a Retryer looks for, no detail and no message is lost by wrapping |
| `client` | 291 776 | calls at the same time share flags and instruments and nothing else; each ends, also behind a provider that panics |
| `adapters` | 4 199 | the sniffer can stand for the reader below it; ranges see each item once, and end |
| `header` | 68 593 | contexts behave as values under concurrent `SetHeaders`; appends reach only memory of their own |
| `json_stream` | 70 280 | messages in order, `io.EOF` hides no error, for all streams of up to five tokens |
| `invoke_reason`, `invoke_codes`, `error_chain_http`, `header_existing`, `json_stream_done` | | expected violations, see section 5 |

Bounds, and why they are enough:

- `MaxTime` and `MaxCount` stop counters; they do not stop the call. A call may retry
  for ever in finitely many states. Timeouts and deadlines are 0, 1 and 2 ticks and
  limits of pauses 1, 2, 3, so that deadlines fall before, in and after an attempt and
  a pause, and the period reaches its cap. Nothing in the loop depends on a count.
  Where `retryCount` has stopped it still tells the limit, as the limits have stopped
  growing by then (`CountTellsLimit`). The `ASSUME` `LimitsArePowers` of `MCInvoke`
  has TLC compare `Limits` with the powers of whole Multipliers.
- `IntMax` is 30 or 40 where overflow is to happen (`invoke`, `pauses`), 100 or 1000
  where it is not. 30 is the default `Max` with `Second = 1`.
- Nine kinds of error: each branch of the classification, of the Retryers and of
  the telemetry is taken by one of them.
- `MaxLayers = 4` for an error of up to two links: an `APIError` depends on the
  layers below it only through the first status and the first googleapi.Error. The
  payloads have a kind twice, messages of the program between others, both kinds of
  `Any` that cannot be decoded, and none.
- `client`: two calls (what one does to another needs no third: all that is shared is
  set once), `MaxAttempts = 2` so that an attempt comes after one that got further,
  `MaxChanges = 1` for the map. A call then pauses once at most, so that the run checks
  whose `Backoff` it uses, and the growth of `OwnEnvelope` over several pauses is what
  the theorem `EnvelopesAreOwn` shows. The environment changes any number of times between
  two values with different answers to both questions, as long as a call still asks. Changes after the last call are left out.
- `adapters`: a buffer of 2 bytes and content of 0 to 4, so that it is shorter, equal,
  and longer, with slices of 0, 1 and 3 bytes; two ranges at a time, four in all. A
  third error in a row is not told from the second (`Saw`).
- `MaxContexts = 4` and two goroutines: a root, a parent with room in a slice, and
  two children that append to it. Sharing needs no more (the mutant `ClonedShared`
  is found).
- `MaxTokens = 5`: opening, two elements with their comma, and one token after;
  every state of the decoder meets every token in each of its error states.

`CHECK_DEADLOCK FALSE` is set where the modelled thing really stops: after the
panic of a `Backoff`, at `MaxLayers`, and when nobody starts another range. The other
runs check for deadlock.

Fairness (`invoke`): weak for the goroutine, which the Go scheduler runs, with
an API call that returns or panics in the end; weak for the clock and for the timer
of the context. Strong for `SleepInterrupted`: whenever the timer of a pause and the
end of the context are both ready, Go chooses uniformly among them, so a choice
offered for ever is taken. Without it a zero-length pause could win every time. No
fairness is assumed of the caller: it need not cancel.

`client` assumes weak fairness for each call once it is made: its goroutine is
scheduled, its attempts end, and the function of a `sync.Once` returns or panics.
Nobody has to make a call, and no late transport has to write. `adapters` assumes
weak fairness for the range that is going on, its body included.

## 4. Theorems

The proofs hold for every value of the constants within their named assumptions
(`ApiErrorAssumption`, `BackoffAssumption`, `InvokeAssumption`, ..., one in nearly
every module that declares constants): any errors, settings, deadlines, payloads,
calls, goroutines, tokens, sizes and bounds. The assumptions give the constants their
types, and beyond that say: a duration can hold the default `Max`; a context, an
attempt and a buffer may be made at all; the Retryers of `Client` are sound and new;
in `ErrorDetails` a status is what carries a code and the program's own errors are
not made of API errors. TLC evaluates each of them in a run.

Where a run uses a specification with fairness or with details, it implies the one of
the theorem: `FairSpec` is `Spec` with fairness, and `DetailsAdd` shows that a
behaviour of `ErrorDetails` is one of `ErrorChain`.

Nearly no property is inductive alone. Each module has an inductive invariant, and a
lemma for each action or group of actions that shows that it is kept.

- `Retry_proofs` has no theorem of its own, only what the operators of `ApiError`,
  `Backoff` and `Retry` return: searches in a chain, the range of a pause and of
  the period behind it, the verdict of a Retryer on an error and on what wraps it.
- `Invoke_proofs`: `TypeCorrect`; `SafetyIsInductive`, and from it nine properties
  (`OneDeadline` to `ContextIsReleased` in `PROJECT.json`). `SafetyInv` adds
  - `DefersInv`: what is left on the stack of deferred functions says whether the
    metric is recorded and the context released. `HonestAttribution` needs that the
    metric is recorded while `cc` is still on the stack;
  - `ContextInv`: until `cc` has run, `ctxErr` is due to the caller or the deadline;
  - `CountsInv`: `attempts` and `retryCount` in step at every place of the loop,
    saturation included;
  - `RetryerInv`: the `Retryer` of the call is the one its settings make, so its
    verdict on the wrapped error is the one it would give of the error itself (lemma
    `VerdictRetryable`);
  - `ResultInv`: when the loop is left, `err` is already explained and final;
  - `PointInv`: the data point agrees with `err` from the moment it is recorded.

  `EnvelopeIsExact` needs one thing more, `EnvelopeInv`: before the first failure
  there is no `retryer` and no retry, and after it the `Backoff` is the given one, its
  defaults filled in, with the limit of the retry count as its period, and the next one
  while the call sleeps. It is a theorem of every `Backoff` that is `Sound`, also of one
  that a program has used and passes on, and of any bound on the counts, on the
  condition `CountTellsLimit`. `NoHotLoop` says that a call has started at most one
  attempt more than units of time have passed (`RetriesTakeTime`). Its invariant
  `TempoInv` counts the timer of a pause as time the call is going to spend; it holds of
  every `Backoff`, because `Pause` adds 1 to what `rand` returns.

  `KeepsTheContract` is the refinement: under the mapping `Phase`, `LastResult`,
  `Reply` every step is a step of `RetryContract` or leaves its state alone. It is
  the safety half of `ImplementsContract`.
- `Pauses_proofs`: `PausesAreTyped`, `NoPanicIfSound`, `PausesAreBounded`, and the
  action property `PeriodOnlyGrows`. The invariant says that the `Backoff` is still
  what the program made, a new one, or has its defaults filled in and, if the
  parameters are sound, a period between 1 and `Max`, which the next multiplication
  starts from.
- `ErrorChain_proofs`: for any number of layers, `OriginIsReachable`, `StatusIsKept`,
  `RetryIsKept`, and with details `DetailsAreReachable`, `TextIsKept`. `ChainInv`
  says that the lower part of the chain is the origin and that the searches for a
  status and a `googleapi.Error` find in the chain what they find in the origin;
  `DetailInv` adds that links and facts agree (`Agrees`), and which of the API
  errors present the details of the status and which those of the body.
- `Client_proofs`: for any number of calls at a time, `CallsAreTyped`, `OneReading`,
  `MadeOnce`, `PointsAreOwn`, `EnvelopesAreOwn`. The invariant has `OnlyOneRuns` for
  both uses of `Once` (one goroutine at most is inside the function, and a result
  means that it ran); `FlagsInv` and `InstrumentsInv`, what a call knows is what is
  stored; `TelemetryInv`, what a call reads from its transport data, field by field,
  its own transports have written; `EnvelopeInv`, the `Backoff` of a call has gone
  through the periods of its own pauses.

  Two theorems are the safety half of `EveryCallEnds`. `WaitingIsForSomebody`: a call
  that has begun has a next step (`CanGoOn`, the guards of `Advance` written out; TLC
  has confirmed for the instance of the run that they enable it) or waits in a `Once`
  for a call that has one, also behind a function that has panicked. Its invariant
  `PassingInv` says that a call is in a `Once` exactly at the place of its way where it
  asks, and that a `Once` whose function runs is run by a call. `CallsGoForward`: each
  step of a call lowers its `Rank`, a number, at first `MaxAttempts + 12`, and no other
  step raises it. What is left to weak fairness is that a call that can go on does: then
  the ranks go down until every call that has begun is over.
- `Adapters_proofs`: `NoByteIsLost`, `TypeIsOfTheStart`, `RangesShareTheItems`, and
  `SnifferImplementsMedia`, that each step of the sniffer is a step of a `Source` or
  a stutter. `SnifferInv` says where the buffer and the error that is kept stand
  relative to the position in the reader (`NothingLost`); `RangeInv` that `err` is
  what the iterator returned last, and that it was not called after an error. `RangesGoForward` is the safety half of `RangesEnd`:
  each step of a range lowers `RangeRank`, made of the stack of the ranges, the items
  that are left and the error that is to come, and a range that begins adds two. So
  the ranges over one function take together at most `2 * length + 2` steps and two
  for each of them.
- `ProtoJSONStream_proofs`: for streams of any length, `NoMessageIsLost` and
  `EOFIsHonest`. `StreamInv`: the decoder of a first `Recv` is new, that of a later
  one is past the opening bracket, and it keeps `io.EOF` only at the end of the input.
- `Header_proofs`: for any number of goroutines, `AppendsAreOwn` (`OwnArrays`), and
  `HeadersImplementTree`, the whole refinement of `ContextTree`. `Progress` says what
  the call of a goroutine holds in the middle of `SetHeaders`: under each name the
  values of its parent, if that name has been cloned, and the first of its pairs.
  Together with `OwnArrays` (nobody else has the array it appends to) it makes the
  context that `Return` adds the promised one. `InsertFacts` and the lemmas before it
  do the same for the loops of `insertMetadata`.

The type invariants that runs check are proved as well. The inductive invariants hold
in the runs of `PROJECT.json` too, checked as invariants of their instances (with the
set of payloads in the place of all sequences of details in `DetailInv`).

Induction. The induction theorems of the library take an operator, which the provers
do not instantiate. Where a recursive function has to be reasoned about (`Given`,
`Merging`, `Limits`), the proofs use its defining equation, obtained from the existence
of the function (`LoopExists`, `IterationExists`), and induction by the least
counterexample (`TurnInduction`).

Only model-checked:

- liveness (`CallEnds`, `EveryCallEnds`, `RangesEnd`), and of `ImplementsContract`
  the conjunct `Ends`, as TLAPS does not reason about fairness. Of `EveryCallEnds` and
  `RangesEnd` the safety half is proved, see above; `CallEnds` has none of that form,
  because a call may retry any number of times before its context is chosen in a
  `select`. That guards enable their steps (`ENABLED`) is left to TLC as well;
- `HTTPCodeIsUnderlying` and the other expected violations, which do not hold.

## 5. Where the code and its documentation differ

Each has a run that TLC refutes; the quotations are in `PROJECT.json`.

- `ReasonIsReported`: the reason and the HTTP code of a `googleapi.Error` never reach
  `error.type`, because `invoke` has wrapped the error when the metric classifies it.
- `HTTPCodeIsUnderlying`: an `APIError` made of an `APIError` has lost the HTTP code.
- `ExistingValuesKept`: an `x-goog-api-client` value in the metadata is overwritten.
- `DoneStaysDone`: after the `io.EOF` of an empty array, `Recv` fails.
- `RetryOnlyWhenPromised`: `OnCodes` retries HTTP errors too, whose code maps to one
  of its codes, although it promises to retry "if and only if the previous attempt
  returns a GRPC error". `Promised` is what the comments say, `Retryable` what the code
  accepts; the properties that hold (`RetryOnlyWhenRetryable`, `RetryableIsRetried`)
  are about `Retryable`. Both take a certificate error out, as `invoke` does.

Seen, without a run:

- The first pause is drawn from `1 .. Initial` and not capped at `Max`, although `Max`
  is "the maximum value of the retry period" (`call_option.go:173`); `PauseBounded` has
  the larger of the two as its bound.
- The context is asked when the metric is recorded, so that an error of the server is
  put down as `CLIENT_TIMEOUT` if the deadline passes before that. The comment calls this
  the "only reliable way" (`telemetry.go:384`). `HonestAttribution` allows it: it says
  that the deadline has passed, not that nothing else had failed before.
- A data point may have the HTTP status of an attempt before the last, as the transport
  data of a call is never reset. `PointIsOwn` allows that, and says that it is the last
  attempt of the same call that saw a response.
- `Message()` "returns the original, unformatted error message" (`apierror.go:251`),
  but for a gRPC error that was annotated, or classified before and then annotated, it is
  the whole text: `status.FromError` puts it in the place of the message.
  `ErrorDetails` has this (`OfStatus`); what holds is that the original is in it.
- "Ignore malformed Any values" (`apierror.go:396`): a value of an unknown type makes
  `protojson` refuse the whole body, so that its other details are lost.
- `IsFeatureEnabled` demands the prefix `GOOGLE_SDK_GO_EXPERIMENTAL_`
  (`feature.go:45`) and accepts `GOOGLE_SDK_GO_` as well, as its tests do; "the result
  for each name is cached on the first call", whichever name that call is about.
- The attributes of a client are read from the caller's map at the first recorded call,
  not in `NewClientMetrics`.
- The comment of `cloneHeaders` says that it reuses the value slices, and it copies
  them (reusing them is the mutant `ClonedShared`, a race).
- A JSON stream that breaks off between two messages ends in a plain `io.EOF`.

## 6. Not modelled, and how to go on

Not modelled for good: logging (`internallog`), generated messages, test helpers, the
version 1 facade (aliases), formatting of the version header (`XGoogHeader`), reading
the Go version; none keeps state, and what could be wrong in them is the layout of a
text. Of a context, the logger (one `context.WithValue`); of telemetry, the status
message, domain and metadata of `TelemetryErrorInfo`, which go into no data point.
What a caller does that casts the result of `HeadersFromContext` and writes to it is
not modelled either: nothing in the repository does.

All invariants and action properties the passing runs check are proved; nothing of the plan is
open. When the code changes: adapt the action of the changed function, run its
configuration, then the inductive invariant as an invariant of the same configuration,
and last the proof module, whose lemmas have a case for each action. A new
`CallOption` goes into `Options`, a new field of `TransportTelemetryData` into `Client`
(`ReadTransport`, one more place), and a new Retryer into `Retry`, `Retryable` and
`Promised`.
Logging is what would be modelled next if it ever kept state or decided anything.
