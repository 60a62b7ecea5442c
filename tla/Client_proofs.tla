---------------------------- MODULE Client_proofs ----------------------------
(***************************************************************************)
(* Calls that run at the same time through one client do not disturb each  *)
(* other: proved for every number of calls, every list of options and      *)
(* attributes, every environment and every sound Backoff.  The invariant   *)
(* has one part for each thing that the calls share.                       *)
(***************************************************************************)
EXTENDS Client, Retry_proofs

Marks == [call : Calls \cup {Nobody}, attempt : 0 .. MaxAttempts]
Points == {NoPoint} \cup
    [state : {"open", "recorded"}, attr : 0 .. MaxChanges, method : STRING,
     server : Marks, status : Marks]

(* The types of the variables as functions, which TypeOK takes apart. *)
Shapes ==
    /\ opts \in [Calls -> CallOptions]
    /\ settings \in [Calls -> [CallFields -> STRING]]
    /\ flags \in [Calls -> [METRICS : BOOLEAN, TRACING : BOOLEAN]]
    /\ ctx \in [Calls -> [rpc_method : STRING, resend_count : STRING,
                          td : Calls \cup {Nobody}]]
    /\ td \in [Calls -> [server : Marks, status : Marks]]
    /\ retryer \in [Calls -> Calls \cup {Nobody}]
    /\ backoff \in [Calls -> Backoffs]
    /\ attempt \in [Calls -> 0 .. MaxAttempts]
    /\ reached \in [Calls -> SUBSET Attempts]
    /\ responded \in [Calls -> SUBSET Attempts]
    /\ late \in [Calls -> SUBSET Attempts]
    /\ limits \in [Calls -> Seq(Durations)]
    /\ point \in [Calls -> Points]
    /\ attributes \in 0 .. MaxChanges
    /\ config \in [TelemetryFields -> STRING]

(* One goroutine at a time runs the function of a sync.Once, and only while *)
(* the Once says so; nobody has passed before it is over.                  *)
OnlyOneRuns(once, at) ==
    /\ \A g \in Users : at[g] = "running" => once = "running"
    /\ \A g \in Users : at[g] = "in" => once \in {"done", "panicked"}
    /\ \A g, h \in Users : at[g] = "running" /\ at[h] = "running" => g = h

(* What a call that is not over has learned is what the flags still say,    *)
(* and they say what one environment said.                                 *)
FlagsInv ==
    /\ OnlyOneRuns(featureEnabledOnce, asking)
    /\ featureEnabledOnce # "panicked"
    /\ featureEnabledOnce = "done" =>
        \E env \in Environments : featureEnabledStore = Enabled(env)
    /\ \A c \in Calls : ~Over(c) =>
        /\ Learned(c, "METRICS") =>
            /\ featureEnabledOnce = "done"
            /\ flags[c].METRICS = StoredFeature("METRICS")
        /\ Learned(c, "TRACING") => flags[c].TRACING = StoredFeature("TRACING")

(* A data point is only made when the instruments are there to stay. *)
InstrumentsInv ==
    /\ OnlyOneRuns(get, getting)
    /\ get = "done" => data.attr \in 0 .. MaxChanges
    /\ \A c \in Calls : point[c] # NoPoint => get = "done" /\ point[c].attr = data.attr

(* Attempts are made after the questions, and counted from 1. *)
Begun ==
    \A c \in Calls :
        /\ pc[c] = "calling" => attempt[c] # 0
        /\ pc[c] \in {"new", "METRICS", "TRACING"} => reached[c] = {}

(* What the telemetry data of a call is to say of its own attempts. *)
OwnServer(c, server) ==
    server = IF reached[c] = {} THEN NoMark ELSE [call |-> c, attempt |-> Max(reached[c])]
OwnStatus(c, status) ==
    /\ status \in {NoMark} \cup {[call |-> c, attempt |-> a] : a \in responded[c]}
    /\ late[c] = {} /\ responded[c] # {} => status.attempt = Max(responded[c])

(* Only its own transport writes the telemetry data of a call, which it     *)
(* reads once nothing can be added to it but a late status; with the       *)
(* metrics off there is none.                                              *)
Told(c) ==
    /\ OwnServer(c, td[c].server) /\ OwnStatus(c, td[c].status)
    /\ ctx[c].td = Nobody => reached[c] = {}
    /\ flags[c].METRICS => ctx[c].td = c
    /\ pc[c] \in {"instruments", "server", "status"} => flags[c].METRICS
    /\ pc[c] \in {"new", "METRICS"} => ctx[c].td = Nobody
    /\ pc[c] \in {"server", "status"} => point[c] # NoPoint /\ point[c].state = "open"
    /\ point[c] # NoPoint => pc[c] \in {"server", "status", "done"}
    /\ pc[c] = "status" => OwnServer(c, point[c].server)
    /\ point[c].state = "recorded" => /\ pc[c] = "done"
                                      /\ OwnServer(c, point[c].server)
                                      /\ OwnStatus(c, point[c].status)
TelemetryInv == \A c \in Calls : Told(c)

(* The Backoff of a call has gone through its pauses and no others. *)
Given == Normalized(Parameters)
Follows(list) ==
    \A i \in DOMAIN list :
        IF i = 1 THEN list[i] = Given.cur
        ELSE \E bo \in AfterPause([Parameters EXCEPT !.cur = list[i - 1]]) : list[i] = bo.cur
Resumes(list, bo) ==
    IF list = << >> THEN bo = Parameters
    ELSE /\ bo \in AfterPause([Parameters EXCEPT !.cur = list[Len(list)]])
         /\ \E x \in 1 .. Given.Max : bo = [Given EXCEPT !.cur = x]
EnvelopeInv == \A c \in Calls : Follows(limits[c]) /\ Resumes(limits[c], backoff[c])

IInv ==
    /\ TypeOK /\ Shapes
    /\ FlagsInv /\ InstrumentsInv /\ Begun /\ TelemetryInv /\ EnvelopeInv

----------------------------------------------------------------------------
(* The greatest number of a set, ... *)
LEMMA MaxExists ==
    ASSUME NEW n \in Nat, NEW S \in SUBSET (0 .. n), S # {}
    PROVE  Max(S) \in S /\ \A i \in S : i <= Max(S)
<1> DEFINE R == OpToRel(<, Nat)
           T == {n - i : i \in S}
<1>1. IsWellFoundedOn(R, Nat)
  BY NatLessThanWellFounded
<1> HIDE DEF R
<1>2. T \subseteq Nat /\ T # {}
  <2>1. \A i \in S : n - i \in Nat
    OBVIOUS
  <2> QED  BY <2>1
<1> HIDE DEF T
<1>3. PICK x \in T : \A y \in T : ~(<< y, x >> \in R)
  BY <1>1, <1>2, WFMin
<1>4. \A y \in T : ~(y < x)
  <2> SUFFICES ASSUME NEW y \in T PROVE ~(y < x)
    OBVIOUS
  <2>1. x \in Nat /\ y \in Nat /\ << y, x >> \notin R
    BY <1>2, <1>3
  <2> QED  BY <2>1 DEF R, OpToRel
<1>5. PICK m \in S : x = n - m
  BY DEF T
<1>6. \A i \in S : i <= m
  <2> SUFFICES ASSUME NEW i \in S PROVE i <= m
    OBVIOUS
  <2>1. n - i \in T
    BY DEF T
  <2>2. ~(n - i < n - m)
    BY <1>4, <1>5, <2>1
  <2> QED  BY <2>2
<1>7. \E k \in S : \A i \in S : k >= i
  BY <1>6
<1>8. Max(S) \in S /\ \A i \in S : Max(S) >= i
  BY <1>7 DEF Max
<1> QED  BY <1>8

(* ... which is the one that was added last, when they come in order. *)
LEMMA MaxOfLatest ==
    ASSUME NEW n \in Nat, NEW S \in SUBSET (1 .. n)
    PROVE  Max(S \cup {n}) = n
<1>1. \A i \in S \cup {n} : n >= i
  OBVIOUS
<1>2. \A m \in S \cup {n} : (\A i \in S \cup {n} : m >= i) => m = n
  BY <1>1
<1>3. \E m \in S \cup {n} : \A i \in S \cup {n} : m >= i
  BY <1>1
<1> QED  BY <1>2, <1>3 DEF Max

(* A loop over options leaves a value of an option or the one before. *)
LEMMA LatestType ==
    ASSUME NEW Fields, NEW Values,
           NEW list \in Seq([field : Fields, value : Values]),
           NEW field, NEW before \in Values
    PROVE  Latest(list, field, before) \in Values
<1> DEFINE setters == {i \in DOMAIN list : Sets(list[i], field)}
<1>1. CASE setters = {}
  BY <1>1 DEF Latest
<1>2. CASE setters # {}
  <2>1. setters \in SUBSET (0 .. Len(list)) /\ Len(list) \in Nat
    OBVIOUS
  <2>2. Max(setters) \in setters
    <3> HIDE DEF setters
    <3> QED  BY <1>2, <2>1, MaxExists
  <2>3. list[Max(setters)] \in [field : Fields, value : Values]
    <3>1. Max(setters) \in 1 .. Len(list)
      BY <2>2
    <3> HIDE DEF setters
    <3> QED  BY <3>1, ElementOfSeq
  <2> QED  BY <1>2, <2>3 DEF Latest
<1> QED  BY <1>1, <1>2

LEMMA ResolveAllType ==
    ASSUME NEW Fields, NEW list \in Seq([field : Fields, value : STRING])
    PROVE  ResolveAll(Fields, list) \in [Fields -> STRING]
<1>1. Unset \in STRING
  BY OptionsAssumption
<1>2. \A f \in Fields : Latest(list, f, Unset) \in STRING
  BY <1>1, LatestType
<1> QED  BY <1>2 DEF ResolveAll

LEMMA WithTelemetryType ==
    ASSUME NEW Owners,
           NEW context \in [rpc_method : STRING, resend_count : STRING, td : Owners],
           NEW keyvals \in Keyvals
    PROVE  /\ WithTelemetryContext(context, keyvals)
                \in [rpc_method : STRING, resend_count : STRING, td : Owners]
           /\ WithTelemetryContext(context, keyvals).td = context.td
<1>1. keyvals \in Seq([field : TelemetryKeys, value : STRING])
  BY ClientAssumption
<1>2. /\ Latest(keyvals, "rpc_method", context.rpc_method) \in STRING
      /\ Latest(keyvals, "resend_count", context.resend_count) \in STRING
  BY <1>1, LatestType
<1> QED  BY <1>2 DEF WithTelemetryContext

----------------------------------------------------------------------------
(* The steps, each with the call that takes it. *)
Learning(c) == LearnMETRICS(c) \/ LearnTRACING(c)
FlagStep(c) == InFeatureOnce(c) /\ UNCHANGED << metricsVars, callVars >>
GetStep(c) == InGet(c) /\ UNCHANGED << flagVars, callVars >>
Attempting(c) ==
    \/ Succeed(c) \/ FailForGood(c) \/ FailAndPause(c)
    \/ \E a \in Attempts : LateResponse(c, a)
Recording(c) ==
    \/ SkipMetric(c) \/ GetInstruments(c) \/ CheckInstruments(c)
    \/ ReadTransport(c, "server", "status") \/ ReadTransport(c, "status", "done")

LEMMA Steps ==
    ASSUME [Next]_clientVars
    PROVE  \/ \E c \in Calls : \/ Call(c) \/ Learning(c) \/ FlagStep(c) \/ GetStep(c)
                               \/ Attempting(c) \/ Recording(c)
           \/ Environment
           \/ UNCHANGED clientVars
BY DEF Next, Advance, Learning, FlagStep, GetStep, Attempting, Recording

----------------------------------------------------------------------------
(* The two Onces. *)
LEMMA FlagOnceKeeps ==
    ASSUME FlagOnce!TypeOK, OnlyOneRuns(featureEnabledOnce, asking),
           NEW g \in Users,
           \/ FlagOnce!Call(g) \/ FlagOnce!Run(g) \/ FlagOnce!Finish(g)
           \/ FlagOnce!Pass(g) \/ FlagOnce!Leave(g)
    PROVE  FlagOnce!TypeOK' /\ OnlyOneRuns(featureEnabledOnce, asking)'
<1> USE DEF FlagOnce!TypeOK, FlagOnce!Places, FlagOnce!Move, OnlyOneRuns
<1>1. Askers = Users /\ asking \in [Users -> {"out", "waiting", "running", "in"}]
  BY ClientAssumption
<1>2. CASE FlagOnce!Call(g)
  BY <1>1, <1>2 DEF FlagOnce!Call
<1>3. CASE FlagOnce!Run(g)
  BY <1>1, <1>3 DEF FlagOnce!Run
<1>4. CASE FlagOnce!Finish(g)
  BY <1>1, <1>4 DEF FlagOnce!Finish
<1>5. CASE FlagOnce!Pass(g)
  BY <1>1, <1>5 DEF FlagOnce!Pass
<1>6. CASE FlagOnce!Leave(g)
  BY <1>1, <1>6 DEF FlagOnce!Leave
<1> QED  BY <1>2, <1>3, <1>4, <1>5, <1>6

LEMMA GetOnceKeeps ==
    ASSUME GetOnce!TypeOK, OnlyOneRuns(get, getting),
           NEW g \in Users,
           \/ GetOnce!Call(g) \/ GetOnce!Run(g) \/ GetOnce!Finish(g)
           \/ GetOnce!Panic(g) \/ GetOnce!Pass(g) \/ GetOnce!Leave(g)
    PROVE  GetOnce!TypeOK' /\ OnlyOneRuns(get, getting)'
<1> USE DEF GetOnce!TypeOK, GetOnce!Places, GetOnce!Move, OnlyOneRuns
<1>1. getting \in [Users -> {"out", "waiting", "running", "in"}]
  OBVIOUS
<1>2. CASE GetOnce!Call(g)
  BY <1>1, <1>2 DEF GetOnce!Call
<1>3. CASE GetOnce!Run(g)
  BY <1>1, <1>3 DEF GetOnce!Run
<1>4. CASE GetOnce!Finish(g)
  BY <1>1, <1>4 DEF GetOnce!Finish
<1>5. CASE GetOnce!Panic(g)
  BY <1>1, <1>5 DEF GetOnce!Panic
<1>6. CASE GetOnce!Pass(g)
  BY <1>1, <1>6 DEF GetOnce!Pass
<1>7. CASE GetOnce!Leave(g)
  BY <1>1, <1>7 DEF GetOnce!Leave
<1> QED  BY <1>2, <1>3, <1>4, <1>5, <1>6, <1>7

----------------------------------------------------------------------------
(* The flags. *)
LEMMA EnabledType ==
    ASSUME NEW env \in Environments
    PROVE  Enabled(env) \in {{v.key : v \in S} : S \in UNION {SUBSET e : e \in Environments}}
<1> DEFINE on == {u \in env : u.prefix # "other" /\ u.true}
<1>1. on \in UNION {SUBSET e : e \in Environments}
  OBVIOUS
<1>2. Enabled(env) = {v.key : v \in on}
  BY DEF Enabled
<1> HIDE DEF on
<1> QED  BY <1>1, <1>2

(* What a step does to the flags, and when. *)
LEMMA FlagSteps ==
    ASSUME [Next]_clientVars
    PROVE  \/ UNCHANGED flagVars
           \/ \E c \in Calls : /\ AskFeature(c) \/ GetAnswer(c)
                               /\ UNCHANGED << environ, featureEnabledStore >>
           \/ \E c \in Calls : InFeatureOnce(c) /\ UNCHANGED << pc, flags >>
           \/ Setenv /\ UNCHANGED << pc, flags >>
           \/ /\ TestOnlyResetIsFeatureEnabled /\ UNCHANGED << pc, flags >>
              /\ \A c \in Calls : pc[c] = "new" \/ Over(c)
<1>1. CASE \E c \in Calls : Call(c)
  BY <1>1 DEF Call, Start, AskFeature
<1>2. CASE \E c \in Calls : Learning(c)
  BY <1>2 DEF Learning, LearnMETRICS, LearnTRACING, GetAnswer
<1>3. CASE \E c \in Calls : FlagStep(c)
  BY <1>3 DEF FlagStep, callVars
<1>4. CASE \E c \in Calls : GetStep(c)
  BY <1>4 DEF GetStep
<1>5. CASE \E c \in Calls : Attempting(c)
  BY <1>5 DEF Attempting, Succeed, FailForGood, FailAndPause, LateResponse
<1>6. CASE \E c \in Calls : Recording(c)
  BY <1>6 DEF Recording, SkipMetric, GetInstruments, CheckInstruments, ReadTransport
<1>7. CASE Environment
  BY <1>7 DEF Environment, callVars
<1>8. CASE UNCHANGED clientVars
  BY <1>8 DEF clientVars
<1> QED  BY <1>1, <1>2, <1>3, <1>4, <1>5, <1>6, <1>7, <1>8, Steps

LEMMA FlagsTypeKeeps ==
    ASSUME FlagsTypeOK, OnlyOneRuns(featureEnabledOnce, asking), [Next]_clientVars
    PROVE  FlagsTypeOK' /\ OnlyOneRuns(featureEnabledOnce, asking)'
<1>1. CASE UNCHANGED flagVars
  BY <1>1 DEF flagVars, FlagsTypeOK, FlagOnce!TypeOK, OnlyOneRuns
<1>2. CASE \E c \in Calls : /\ AskFeature(c) \/ GetAnswer(c)
                            /\ UNCHANGED << environ, featureEnabledStore >>
  BY <1>2, FlagOnceKeeps DEF FlagsTypeOK, AskFeature, GetAnswer, Calls
<1>3. CASE \E c \in Calls : InFeatureOnce(c)
  <2> SUFFICES ASSUME NEW c \in Calls, InFeatureOnce(c)
               PROVE  FlagsTypeOK' /\ OnlyOneRuns(featureEnabledOnce, asking)'
    BY <1>3
  <2>1. FlagOnce!Finish(c) \/ FlagOnce!Run(c) \/ FlagOnce!Pass(c)
    BY DEF InFeatureOnce, ReadEnvironment
  <2>2. FlagOnce!TypeOK' /\ OnlyOneRuns(featureEnabledOnce, asking)'
    BY <2>1, FlagOnceKeeps DEF FlagsTypeOK, Calls
  <2>3. /\ environ' = environ
        /\ featureEnabledStore' \in {featureEnabledStore, Enabled(environ)}
    BY DEF InFeatureOnce, ReadEnvironment
  <2>4. Enabled(environ) \in {{v.key : v \in S} : S \in UNION {SUBSET e : e \in Environments}}
    BY EnabledType DEF FlagsTypeOK
  <2> QED  BY <2>2, <2>3, <2>4 DEF FlagsTypeOK
<1>4. CASE Setenv
  BY <1>4 DEF Setenv, FlagsTypeOK, FlagOnce!TypeOK, OnlyOneRuns
<1>5. CASE TestOnlyResetIsFeatureEnabled
  <2>1. /\ asking' = asking /\ environ' = environ /\ featureEnabledOnce' = "new"
        /\ featureEnabledStore' = {}
        /\ \A g \in Users : asking[g] = "out"
    BY <1>5, ClientAssumption DEF TestOnlyResetIsFeatureEnabled, FlagOnce!Quiet
  <2>2. {} \in {{v.key : v \in S} : S \in UNION {SUBSET e : e \in Environments}}
    <3>1. {} \in UNION {SUBSET e : e \in Environments}
      BY DEF FlagsTypeOK
    <3>2. {} = {v.key : v \in {}}
      OBVIOUS
    <3> QED  BY <3>1, <3>2
  <2> QED  BY <2>1, <2>2 DEF FlagsTypeOK, FlagOnce!TypeOK, OnlyOneRuns
<1> QED  BY <1>1, <1>2, <1>3, <1>4, <1>5, FlagSteps

(* Nothing is learned or begun again, but by the two questions of a call. *)
LEMMA LearnedSteps ==
    ASSUME pc \in [Calls -> Locations], [Next]_clientVars,
           ~ \E c \in Calls : Learning(c)
    PROVE  /\ flags' = flags
           /\ \A d \in Calls : ~Over(d)' =>
                /\ ~Over(d)
                /\ Learned(d, "METRICS")' => Learned(d, "METRICS")
                /\ Learned(d, "TRACING")' => Learned(d, "TRACING")
<1> USE DEF Over, Learned, Goto
<1>1. CASE \E c \in Calls : Call(c)
  BY <1>1 DEF Call, Start
<1>2. CASE \E c \in Calls : FlagStep(c) \/ GetStep(c)
  BY <1>2 DEF FlagStep, GetStep, callVars
<1>3. CASE \E c \in Calls : Attempting(c)
  BY <1>3 DEF Attempting, Succeed, FailForGood, FailAndPause, LateResponse
<1>4. CASE \E c \in Calls : Recording(c)
  BY <1>4 DEF Recording, SkipMetric, GetInstruments, CheckInstruments, ReadTransport
<1>5. CASE Environment \/ UNCHANGED clientVars
  BY <1>5 DEF Environment, callVars, clientVars
<1> QED  BY <1>1, <1>2, <1>3, <1>4, <1>5, Steps

LEMMA FlagsInvKeeps ==
    ASSUME FlagsTypeOK, pc \in [Calls -> Locations],
           flags \in [Calls -> [METRICS : BOOLEAN, TRACING : BOOLEAN]],
           FlagsInv, [Next]_clientVars
    PROVE  FlagsInv'
<1>1. OnlyOneRuns(featureEnabledOnce, asking)'
  BY FlagsTypeKeeps DEF FlagsInv
<1>2. CASE \E c \in Calls : Learning(c)
  <2>1. PICK c \in Calls : Learning(c)
    BY <1>2
  <2>2. UNCHANGED << featureEnabledOnce, featureEnabledStore >>
    BY <2>1 DEF Learning, LearnMETRICS, LearnTRACING, GetAnswer, FlagOnce!Leave, flagVars
  <2>3. featureEnabledOnce = "done"
    BY <2>1, ClientAssumption
    DEF Learning, LearnMETRICS, LearnTRACING, GetAnswer, FlagOnce!Leave, FlagOnce!Move,
        FlagsInv, OnlyOneRuns, Calls
  <2>4. ASSUME NEW d \in Calls, ~Over(d)'
        PROVE  /\ Learned(d, "METRICS")' => flags'[d].METRICS = StoredFeature("METRICS")
               /\ Learned(d, "TRACING")' => flags'[d].TRACING = StoredFeature("TRACING")
    <3>1. CASE LearnMETRICS(c)
      <4>1. CASE d = c
        BY <3>1, <4>1 DEF LearnMETRICS, Goto, Learned
      <4>2. CASE d # c
        BY <2>4, <3>1, <4>2 DEF LearnMETRICS, Goto, Learned, Over, FlagsInv
      <4> QED  BY <4>1, <4>2
    <3>2. CASE LearnTRACING(c)
      <4>1. CASE d = c
        BY <3>2, <4>1 DEF LearnTRACING, Goto, Learned, Over, FlagsInv
      <4>2. CASE d # c
        BY <2>4, <3>2, <4>2 DEF LearnTRACING, Goto, Learned, Over, FlagsInv
      <4> QED  BY <4>1, <4>2
    <3> QED  BY <2>1, <3>1, <3>2 DEF Learning
  <2> QED  BY <1>1, <2>2, <2>3, <2>4 DEF FlagsInv, StoredFeature
<1>3. CASE ~ \E c \in Calls : Learning(c)
  <2>1. /\ flags' = flags
        /\ \A d \in Calls : ~Over(d)' =>
            /\ ~Over(d)
            /\ Learned(d, "METRICS")' => Learned(d, "METRICS")
            /\ Learned(d, "TRACING")' => Learned(d, "TRACING")
    BY <1>3, LearnedSteps
  <2>2. CASE UNCHANGED << featureEnabledOnce, featureEnabledStore >>
    BY <1>1, <2>1, <2>2 DEF FlagsInv, StoredFeature
  <2>3. CASE \E c \in Calls : InFeatureOnce(c)
    <3>1. PICK c \in Calls : InFeatureOnce(c)
      BY <2>3
    <3>2. CASE ReadEnvironment(c)
      <4>1. /\ asking[c] = "running" /\ featureEnabledOnce' = "done"
            /\ featureEnabledStore' = Enabled(environ) /\ environ \in Environments
        BY <3>2 DEF ReadEnvironment, FlagOnce!Finish, FlagOnce!Move, FlagsTypeOK
      <4>2. featureEnabledOnce # "done"
        BY <4>1 DEF FlagsInv, OnlyOneRuns, Calls
      <4>3. \A d \in Calls : ~Over(d)' =>
              ~Learned(d, "METRICS")' /\ ~Learned(d, "TRACING")'
        BY <2>1, <4>2 DEF FlagsInv, Learned
      <4> QED  BY <1>1, <4>1, <4>3 DEF FlagsInv
    <3>3. CASE FlagOnce!Run(c) /\ UNCHANGED featureEnabledStore
      <4>1. featureEnabledOnce = "new" /\ featureEnabledOnce' = "running"
        BY <3>3 DEF FlagOnce!Run
      <4>2. \A d \in Calls : ~Over(d)' =>
              ~Learned(d, "METRICS")' /\ ~Learned(d, "TRACING")'
        BY <2>1, <4>1 DEF FlagsInv, Learned
      <4> QED  BY <1>1, <4>1, <4>2 DEF FlagsInv
    <3>4. CASE FlagOnce!Pass(c) /\ UNCHANGED featureEnabledStore
      BY <2>2, <3>4 DEF FlagOnce!Pass
    <3> QED  BY <3>1, <3>2, <3>3, <3>4 DEF InFeatureOnce
  <2>4. CASE /\ TestOnlyResetIsFeatureEnabled /\ UNCHANGED pc
             /\ \A c \in Calls : pc[c] = "new" \/ Over(c)
    BY <1>1, <2>4 DEF TestOnlyResetIsFeatureEnabled, FlagsInv, Over, Learned
  <2> QED
    BY <2>2, <2>3, <2>4, FlagSteps
    DEF flagVars, AskFeature, GetAnswer, FlagOnce!Call, FlagOnce!Leave, Setenv
<1> QED  BY <1>2, <1>3

----------------------------------------------------------------------------
(* The instruments. *)
MetricsTyped ==
    /\ GetOnce!TypeOK
    /\ data \in Instruments \cup {NoInstruments}
    /\ (get = "done") = (data # NoInstruments)
    /\ attributes \in 0 .. MaxChanges
    /\ config \in [TelemetryFields -> STRING]

(* What a step does to the instruments and to the data points. *)
LEMMA MetricsSteps ==
    ASSUME [Next]_clientVars
    PROVE  \/ UNCHANGED << metricsVars, point >>
           \/ /\ \E c \in Calls : CallGet(c) \/ InGet(c)
              /\ UNCHANGED point
           \/ ChangeAttributes /\ UNCHANGED point
           \/ \E c \in Calls : CheckInstruments(c)
           \/ /\ \E c \in Calls : \/ ReadTransport(c, "server", "status")
                                 \/ ReadTransport(c, "status", "done")
              /\ UNCHANGED metricsVars
<1>1. CASE \E c \in Calls : Call(c) \/ Learning(c) \/ FlagStep(c)
  BY <1>1 DEF Call, Start, Learning, LearnMETRICS, LearnTRACING, FlagStep, callVars
<1>2. CASE \E c \in Calls : GetStep(c)
  BY <1>2 DEF GetStep, callVars
<1>3. CASE \E c \in Calls : Attempting(c)
  BY <1>3 DEF Attempting, Succeed, FailForGood, FailAndPause, LateResponse
<1>4. CASE \E c \in Calls : Recording(c)
  <2>1. \A field, next : \A c \in Calls : ReadTransport(c, field, next) => UNCHANGED metricsVars
    BY DEF ReadTransport
  <2> QED  BY <1>4, <2>1 DEF Recording, SkipMetric, GetInstruments
<1>5. CASE Environment
  BY <1>5 DEF Environment, callVars
<1>6. CASE UNCHANGED clientVars
  BY <1>6 DEF clientVars, callVars
<1> QED  BY <1>1, <1>2, <1>3, <1>4, <1>5, <1>6, Steps

LEMMA ProviderType ==
    ASSUME config \in [TelemetryFields -> STRING]
    PROVE  meterProvider(config) \in STRING /\ bucketBoundaries(config) \in STRING
BY OptionsAssumption DEF meterProvider, bucketBoundaries, TelemetryFields

LEMMA MetricsTypeKeeps ==
    ASSUME MetricsTyped, OnlyOneRuns(get, getting), [Next]_clientVars
    PROVE  MetricsTyped' /\ OnlyOneRuns(get, getting)'
<1>1. CASE UNCHANGED metricsVars
  BY <1>1 DEF metricsVars, MetricsTyped, GetOnce!TypeOK, OnlyOneRuns
<1>2. CASE \E c \in Calls : CallGet(c) \/ LeaveGet(c)
  <2>1. GetOnce!TypeOK' /\ OnlyOneRuns(get, getting)'
    BY <1>2, GetOnceKeeps DEF MetricsTyped, CallGet, LeaveGet, Calls
  <2>2. UNCHANGED << get, config, attributes, data >>
    BY <1>2 DEF CallGet, LeaveGet, GetOnce!Call, GetOnce!Leave
  <2> QED  BY <2>1, <2>2 DEF MetricsTyped
<1>3. CASE \E c \in Calls : InGet(c)
  <2>1. PICK c \in Calls : InGet(c)
    BY <1>3
  <2>2. GetOnce!TypeOK' /\ OnlyOneRuns(get, getting)'
    <3>1. GetOnce!Run(c) \/ GetOnce!Finish(c) \/ GetOnce!Panic(c) \/ GetOnce!Pass(c)
      BY <2>1 DEF InGet, MakeInstruments, MakingPanics
    <3> QED  BY <3>1, GetOnceKeeps DEF MetricsTyped, Calls
  <2>3. CASE MakeInstruments(c)
    <3>1. data' \in Instruments
      BY <2>3, ProviderType DEF MakeInstruments, MetricsTyped, Instruments
    <3>2. data' # NoInstruments
      BY <3>1 DEF Instruments, NoInstruments
    <3>3. get' = "done" /\ UNCHANGED << config, attributes >>
      BY <2>3 DEF MakeInstruments, GetOnce!Finish
    <3> QED  BY <2>2, <3>1, <3>2, <3>3 DEF MetricsTyped
  <2>4. CASE MakingPanics(c)
    <3>1. get = "running" /\ get' = "panicked" /\ UNCHANGED << config, attributes, data >>
      BY <2>4 DEF MakingPanics, GetOnce!Panic, GetOnce!Move, OnlyOneRuns, Calls
    <3> QED  BY <2>2, <3>1 DEF MetricsTyped
  <2>5. CASE /\ GetOnce!Run(c) \/ GetOnce!Pass(c)
             /\ UNCHANGED << config, attributes, data >>
    <3>1. (get' = "done") = (get = "done")
      BY <2>5 DEF GetOnce!Run, GetOnce!Pass
    <3> QED  BY <2>2, <2>5, <3>1 DEF MetricsTyped
  <2> QED  BY <2>1, <2>3, <2>4, <2>5 DEF InGet
<1>4. CASE ChangeAttributes
  <2>1. attributes' \in 0 .. MaxChanges
    BY <1>4, MetricsAssumption DEF ChangeAttributes, MetricsTyped
  <2> QED
    BY <1>4, <2>1 DEF ChangeAttributes, MetricsTyped, GetOnce!TypeOK, OnlyOneRuns
<1>5. CASE \E c \in Calls : CheckInstruments(c)
  BY <1>2, <1>5 DEF CheckInstruments
<1> QED  BY <1>1, <1>2, <1>3, <1>4, <1>5, MetricsSteps

(* Reading a field of the telemetry data leaves the rest of the point. *)
LEMMA ReadTransportStep ==
    ASSUME point \in [Calls -> Points],
           NEW c \in Calls, point[c] # NoPoint,
           NEW field \in {"server", "status"}, NEW next,
           td[ctx[c].td][field] \in Marks,
           ReadTransport(c, field, next)
    PROVE  /\ point' \in [Calls -> Points]
           /\ \A d \in Calls \ {c} : point'[d] = point[d]
           /\ point'[c] # NoPoint
           /\ point'[c].attr = point[c].attr
           /\ point'[c].server =
                  IF field = "server" THEN td[ctx[c].td].server ELSE point[c].server
           /\ point'[c].status =
                  IF field = "status" THEN td[ctx[c].td].status ELSE point[c].status
           /\ point'[c].state = IF next = "done" THEN "recorded" ELSE point[c].state
<1> DEFINE R == [state : {"open", "recorded"}, attr : 0 .. MaxChanges, method : STRING,
                 server : Marks, status : Marks]
           read == [point[c] EXCEPT ![field] = td[ctx[c].td][field]]
           new == IF next = "done" THEN [read EXCEPT !.state = "recorded"] ELSE read
<1>1. point[c] \in R
  BY DEF Points
<1>2. /\ read \in R /\ read.attr = point[c].attr /\ read.state = point[c].state
      /\ read.server = IF field = "server" THEN td[ctx[c].td].server ELSE point[c].server
      /\ read.status = IF field = "status" THEN td[ctx[c].td].status ELSE point[c].status
  <2>1. CASE field = "server"
    BY <1>1, <2>1
  <2>2. CASE field = "status"
    BY <1>1, <2>2
  <2> QED  BY <2>1, <2>2
<1>3. point' = [point EXCEPT ![c] = new]
  BY DEF ReadTransport, ExtractTransportTelemetry
<1> HIDE DEF read
<1>4. /\ new \in R /\ new.attr = read.attr
      /\ new.server = read.server /\ new.status = read.status
      /\ new.state = IF next = "done" THEN "recorded" ELSE read.state
  BY <1>2
<1>5. new # NoPoint
  BY <1>4 DEF NoPoint
<1> HIDE DEF new
<1> QED  BY <1>2, <1>3, <1>4, <1>5 DEF Points

(* What recordMetric needs to know of its call. *)
Readable ==
    \A c \in Calls : pc[c] \in {"server", "status"} =>
        point[c] # NoPoint /\ ctx[c].td \in Calls

LEMMA InstrumentsInvKeeps ==
    ASSUME MetricsTyped, point \in [Calls -> Points],
           td \in [Calls -> [server : Marks, status : Marks]],
           Readable, InstrumentsInv, [Next]_clientVars
    PROVE  InstrumentsInv'
<1>1. MetricsTyped' /\ OnlyOneRuns(get, getting)'
  BY MetricsTypeKeeps DEF InstrumentsInv
<1>2. get' = "done" => data'.attr \in 0 .. MaxChanges
  BY <1>1 DEF MetricsTyped, Instruments
<1>3. SUFFICES ASSUME NEW d \in Calls, point'[d] # NoPoint
               PROVE  get' = "done" /\ point'[d].attr = data'.attr
  BY <1>1, <1>2 DEF InstrumentsInv
<1>4. CASE UNCHANGED << metricsVars, point >> \/ (ChangeAttributes /\ UNCHANGED point)
  BY <1>3, <1>4 DEF metricsVars, ChangeAttributes, InstrumentsInv
<1>5. CASE UNCHANGED point /\ \E c \in Calls : CallGet(c) \/ InGet(c)
  <2>1. get = "done"
    BY <1>3, <1>5 DEF InstrumentsInv
  <2>2. UNCHANGED << get, data >>
    BY <1>5, <2>1
    DEF CallGet, InGet, MakeInstruments, MakingPanics, InstrumentsInv, OnlyOneRuns, Calls,
        GetOnce!Call, GetOnce!Run, GetOnce!Finish, GetOnce!Panic, GetOnce!Pass, GetOnce!Move
  <2> QED  BY <1>3, <1>5, <2>2 DEF InstrumentsInv
<1>6. CASE \E c \in Calls : CheckInstruments(c)
  <2>1. PICK c \in Calls : CheckInstruments(c)
    BY <1>6
  <2>2. UNCHANGED << get, data >>
    BY <2>1 DEF CheckInstruments, LeaveGet, GetOnce!Leave
  <2>3. CASE UNCHANGED point
    BY <1>3, <2>2, <2>3 DEF InstrumentsInv
  <2>4. CASE get = "done" /\ d = c /\ point'[c].attr = data.attr
    BY <2>2, <2>4
  <2>5. CASE d # c /\ point'[d] = point[d]
    BY <1>3, <2>2, <2>5 DEF InstrumentsInv
  <2> QED  BY <2>1, <2>3, <2>4, <2>5 DEF CheckInstruments
<1>7. CASE /\ \E c \in Calls : \/ ReadTransport(c, "server", "status")
                              \/ ReadTransport(c, "status", "done")
           /\ UNCHANGED metricsVars
  <2>1. PICK c \in Calls, field \in {"server", "status"}, next \in {"status", "done"} :
            ReadTransport(c, field, next)
    BY <1>7
  <2>2. pc[c] = field
    BY <2>1 DEF ReadTransport, Goto
  <2>3. point[c] # NoPoint /\ ctx[c].td \in Calls
    BY <2>2 DEF Readable
  <2>4. td[ctx[c].td][field] \in Marks
    BY <2>3
  <2>5. point[d] # NoPoint /\ point'[d].attr = point[d].attr
    BY <1>3, <2>1, <2>3, <2>4, ReadTransportStep
  <2> QED  BY <1>7, <2>5 DEF metricsVars, InstrumentsInv
<1> QED  BY <1>4, <1>5, <1>6, <1>7, MetricsSteps

----------------------------------------------------------------------------
(* The calls. *)
Typed ==
    /\ pc \in [Calls -> Locations]
    /\ \A c \in Calls :
        /\ ctx[c].td \in {c, Nobody} /\ retryer[c] \in {c, Nobody}
        /\ responded[c] \subseteq reached[c] /\ reached[c] \subseteq 1 .. attempt[c]
        /\ late[c] \subseteq responded[c]

LEMMA TypeParts ==
    ASSUME MetricsTyped, FlagsTypeOK, Typed, Shapes
    PROVE  TypeOK
BY DEF MetricsTyped, Typed, Shapes, TypeOK

LEMMA TypeHas ==
    ASSUME TypeOK, Shapes
    PROVE  MetricsTyped /\ FlagsTypeOK /\ Typed
BY DEF MetricsTyped, Typed, Shapes, TypeOK

LEMMA TransportTyped ==
    ASSUME Typed, Shapes, NEW c \in Calls, attempt[c] # 0,
           NEW outcome, Transport(c, outcome)
    PROVE  /\ td' \in [Calls -> [server : Marks, status : Marks]]
           /\ reached' \in [Calls -> SUBSET Attempts]
           /\ responded' \in [Calls -> SUBSET Attempts]
           /\ \A d \in Calls :
                /\ responded'[d] \subseteq reached'[d]
                /\ reached'[d] \subseteq 1 .. attempt[d]
                /\ late[d] \subseteq responded'[d]
<1>1. attempt[c] \in Attempts /\ attempt[c] \in 1 .. attempt[c]
  BY ClientAssumption DEF Shapes, Attempts
<1>2. Mark(c) \in Marks
  BY <1>1 DEF Mark, Marks, Attempts
<1>3. CASE UNCHANGED << td, reached, responded >>
  BY <1>3 DEF Typed, Shapes
<1>4. CASE /\ ctx[c].td # Nobody
           /\ td' = [td EXCEPT ![ctx[c].td].server = Mark(c)]
           /\ reached' = [reached EXCEPT ![c] = @ \cup {attempt[c]}]
           /\ UNCHANGED responded
  <2>1. ctx[c].td = c
    BY <1>4 DEF Typed
  <2>2. td' \in [Calls -> [server : Marks, status : Marks]]
    BY <1>2, <1>4, <2>1 DEF Shapes
  <2> QED  BY <1>1, <1>4, <2>2 DEF Typed, Shapes
<1>5. CASE /\ ctx[c].td # Nobody
           /\ td' = [td EXCEPT ![ctx[c].td] = [server |-> Mark(c), status |-> Mark(c)]]
           /\ reached' = [reached EXCEPT ![c] = @ \cup {attempt[c]}]
           /\ responded' = [responded EXCEPT ![c] = @ \cup {attempt[c]}]
  <2>1. ctx[c].td = c
    BY <1>5 DEF Typed
  <2>2. td' \in [Calls -> [server : Marks, status : Marks]]
    BY <1>2, <1>5, <2>1 DEF Shapes
  <2> QED  BY <1>1, <1>5, <2>2 DEF Typed, Shapes
<1> QED  BY <1>3, <1>4, <1>5 DEF Transport, ExtractTransportTelemetry

(* A Backoff that cannot panic is left in the range of durations. *)
LEMMA PausedTyped ==
    ASSUME Typed, Shapes, NEW c \in Calls, ~PausePanics(backoff[c]), FailAndPause(c)
    PROVE  /\ backoff' \in [Calls -> Backoffs] /\ limits' \in [Calls -> Seq(Durations)]
           /\ attempt' \in [Calls -> 0 .. MaxAttempts]
           /\ attempt' = [attempt EXCEPT ![c] = attempt[c] + 1]
           /\ retryer' = [retryer EXCEPT ![c] = c]
           /\ limits' = [limits EXCEPT ![c] = Append(limits[c], Normalized(backoff[c]).cur)]
           /\ \E bo \in AfterPause(backoff[c]) : backoff' = [backoff EXCEPT ![c] = bo]
<1>1. CurrentRetryer(c) = c
  BY DEF CurrentRetryer, Typed
<1>2. backoff[c] \in Backoffs /\ limits[c] \in Seq(Durations) /\ attempt[c] \in 0 .. MaxAttempts
  BY DEF Shapes
<1>3. Normalized(backoff[c]).cur \in Durations
  BY <1>2, NormalizedType DEF Backoffs
<1>4. PICK bo \in AfterPause(backoff[c]) : backoff' = [backoff EXCEPT ![c] = bo]
  BY <1>1 DEF FailAndPause
<1>5. bo \in Backoffs
  BY <1>2, AfterPauseType
<1>6. Append(limits[c], Normalized(backoff[c]).cur) \in Seq(Durations)
  BY <1>2, <1>3
<1>7. limits' = [limits EXCEPT ![c] = Append(limits[c], Normalized(backoff[c]).cur)]
  BY <1>1 DEF FailAndPause
<1>8. attempt[c] + 1 \in 0 .. MaxAttempts /\ attempt' = [attempt EXCEPT ![c] = attempt[c] + 1]
  BY <1>2, ClientAssumption DEF FailAndPause
<1>9. retryer' = [retryer EXCEPT ![c] = c]
  BY <1>1 DEF FailAndPause
<1> QED  BY <1>4, <1>5, <1>6, <1>7, <1>8, <1>9 DEF Shapes

NonePanics == \A c \in Calls : ~PausePanics(backoff[c])

LEMMA CallTypesKeep ==
    ASSUME MetricsTyped, MetricsTyped', Typed, Shapes, Readable, NonePanics, Begun,
           InstrumentsInv, [Next]_clientVars
    PROVE  Typed' /\ Shapes'
<1>1. attributes' \in 0 .. MaxChanges /\ config' \in [TelemetryFields -> STRING]
  BY DEF MetricsTyped
<1> USE <1>1
<1>2. CASE \E c \in Calls : Call(c)
  <2>1. PICK c \in Calls, keyvals \in Keyvals : Start(c, keyvals)
    BY <1>2 DEF Call
  <2>2. settings' \in [Calls -> [CallFields -> STRING]]
    <3>1. opts[c] \in Seq([field : CallFields, value : STRING])
      BY ClientAssumption DEF Shapes
    <3>2. ResolveAll(CallFields, opts[c]) \in [CallFields -> STRING]
      BY <3>1, ResolveAllType
    <3> QED  BY <2>1, <3>2 DEF Start, Shapes
  <2>3. /\ ctx' \in [Calls -> [rpc_method : STRING, resend_count : STRING,
                              td : Calls \cup {Nobody}]]
        /\ \A d \in Calls : ctx'[d].td = ctx[d].td
    <3> DEFINE new == WithTelemetryContext(ctx[c], keyvals)
    <3>1. new \in [rpc_method : STRING, resend_count : STRING, td : Calls \cup {Nobody}]
          /\ new.td = ctx[c].td
      <4> DEFINE Owners == Calls \cup {Nobody}
                 context == ctx[c]
      <4>1. context \in [rpc_method : STRING, resend_count : STRING, td : Owners]
        BY DEF Shapes
      <4> HIDE DEF Owners, context
      <4>2. /\ WithTelemetryContext(context, keyvals)
                  \in [rpc_method : STRING, resend_count : STRING, td : Owners]
            /\ WithTelemetryContext(context, keyvals).td = context.td
        BY <4>1, WithTelemetryType
      <4> QED  BY <4>2 DEF Owners, context
    <3>2. ctx' = [ctx EXCEPT ![c] = new]
      BY <2>1 DEF Start
    <3> HIDE DEF new
    <3> QED  BY <3>1, <3>2 DEF Shapes
  <2>4. pc' \in [Calls -> Locations]
    BY <2>1 DEF Start, Goto, Typed, Locations
  <2> QED
    BY <2>1, <2>2, <2>3, <2>4 DEF Start, Shapes, Typed
<1>3. CASE \E c \in Calls : Learning(c)
  <2>1. PICK c \in Calls : Learning(c)
    BY <1>3
  <2>2. pc' \in [Calls -> Locations]
    BY <2>1 DEF Learning, LearnMETRICS, LearnTRACING, Goto, Typed, Locations
  <2>3. StoredFeature("METRICS") \in BOOLEAN /\ StoredFeature("TRACING") \in BOOLEAN
    BY DEF StoredFeature
  <2>4. flags' \in [Calls -> [METRICS : BOOLEAN, TRACING : BOOLEAN]]
    <3>1. flags \in [Calls -> [METRICS : BOOLEAN, TRACING : BOOLEAN]]
      BY DEF Shapes
    <3>2. ASSUME NEW on \in BOOLEAN
          PROVE  /\ [flags EXCEPT ![c].METRICS = on] \in [Calls -> [METRICS : BOOLEAN, TRACING : BOOLEAN]]
                 /\ [flags EXCEPT ![c].TRACING = on] \in [Calls -> [METRICS : BOOLEAN, TRACING : BOOLEAN]]
      BY <3>1
    <3>3. CASE LearnMETRICS(c)
      BY <2>3, <3>2, <3>3 DEF LearnMETRICS
    <3>4. CASE LearnTRACING(c)
      BY <2>3, <3>2, <3>4 DEF LearnTRACING
    <3> QED  BY <2>1, <3>3, <3>4 DEF Learning
  <2>5. /\ ctx' \in [Calls -> [rpc_method : STRING, resend_count : STRING,
                              td : Calls \cup {Nobody}]]
        /\ \A d \in Calls : ctx'[d].td \in {d, Nobody}
    <3>1. ctx' = ctx \/ ctx' = [ctx EXCEPT ![c].td = c]
      BY <2>1 DEF Learning, LearnMETRICS, LearnTRACING, InjectTransportTelemetry
    <3>2. ctx \in [Calls -> [rpc_method : STRING, resend_count : STRING,
                           td : Calls \cup {Nobody}]]
      BY DEF Shapes
    <3>3. [ctx EXCEPT ![c].td = c] \in [Calls -> [rpc_method : STRING, resend_count : STRING,
                                              td : Calls \cup {Nobody}]]
      BY <3>2
    <3>4. \A d \in Calls : [ctx EXCEPT ![c].td = c][d].td \in {d, ctx[d].td}
      BY <3>2
    <3> QED  BY <3>1, <3>2, <3>3, <3>4 DEF Typed
  <2>6. /\ attempt' \in [Calls -> 0 .. MaxAttempts]
        /\ \A d \in Calls : reached[d] \subseteq 1 .. attempt'[d]
    <3>1. CASE LearnMETRICS(c)
      BY <3>1 DEF LearnMETRICS, Shapes, Typed
    <3>2. CASE LearnTRACING(c)
      <4>1. attempt' = [attempt EXCEPT ![c] = 1] /\ 1 \in 0 .. MaxAttempts
        BY <3>2, ClientAssumption DEF LearnTRACING
      <4>2. reached[c] = {}
        BY <3>2 DEF LearnTRACING, Goto, Begun
      <4> QED  BY <4>1, <4>2 DEF Shapes, Typed
    <3> QED  BY <2>1, <3>1, <3>2 DEF Learning
  <2> QED
    BY <2>1, <2>2, <2>4, <2>5, <2>6 DEF Learning, LearnMETRICS, LearnTRACING, Shapes, Typed
<1>4. CASE \E c \in Calls : FlagStep(c) \/ GetStep(c)
  BY <1>4 DEF FlagStep, GetStep, callVars, Shapes, Typed
<1>5. CASE \E c \in Calls : Attempting(c)
  <2>1. PICK c \in Calls : Attempting(c)
    BY <1>5
  <2>2. CASE Succeed(c) \/ FailForGood(c)
    <3>1. attempt[c] # 0 /\ \E outcome : Transport(c, outcome)
      BY <2>2 DEF Succeed, FailForGood, Goto, Begun
    <3>2. /\ td' \in [Calls -> [server : Marks, status : Marks]]
          /\ reached' \in [Calls -> SUBSET Attempts]
          /\ responded' \in [Calls -> SUBSET Attempts]
          /\ \A d \in Calls :
               /\ responded'[d] \subseteq reached'[d]
               /\ reached'[d] \subseteq 1 .. attempt[d]
               /\ late[d] \subseteq responded'[d]
      BY <3>1, TransportTyped
    <3>3. pc' \in [Calls -> Locations]
      BY <2>2 DEF Succeed, FailForGood, Goto, Typed, Locations
    <3> QED  BY <2>2, <3>2, <3>3 DEF Succeed, FailForGood, Shapes, Typed
  <2>3. CASE FailAndPause(c)
    <3>1. attempt[c] # 0 /\ \E outcome : Transport(c, outcome)
      BY <2>3 DEF FailAndPause, Begun
    <3>2. /\ td' \in [Calls -> [server : Marks, status : Marks]]
          /\ reached' \in [Calls -> SUBSET Attempts]
          /\ responded' \in [Calls -> SUBSET Attempts]
          /\ \A d \in Calls :
               /\ responded'[d] \subseteq reached'[d]
               /\ reached'[d] \subseteq 1 .. attempt[d]
               /\ late[d] \subseteq responded'[d]
      BY <3>1, TransportTyped
    <3>3. /\ backoff' \in [Calls -> Backoffs] /\ limits' \in [Calls -> Seq(Durations)]
          /\ attempt' \in [Calls -> 0 .. MaxAttempts]
          /\ attempt' = [attempt EXCEPT ![c] = attempt[c] + 1]
          /\ retryer' = [retryer EXCEPT ![c] = c]
      BY <2>3, PausedTyped DEF NonePanics
    <3>4. /\ retryer' \in [Calls -> Calls \cup {Nobody}]
          /\ \A d \in Calls : retryer'[d] \in {d, Nobody}
      BY <3>3 DEF Shapes, Typed
    <3>5. \A d \in Calls : reached'[d] \subseteq 1 .. attempt'[d]
      <4>1. attempt \in [Calls -> 0 .. MaxAttempts]
        BY DEF Shapes
      <4>2. \A d \in Calls : attempt'[d] >= attempt[d] /\ attempt[d] \in Nat /\ attempt'[d] \in Nat
        BY <3>3, <4>1, ClientAssumption
      <4> QED  BY <3>2, <4>2
    <3> QED
      BY <2>3, <3>2, <3>3, <3>4, <3>5 DEF FailAndPause, Shapes, Typed
  <2>4. CASE \E a \in Attempts : LateResponse(c, a)
    <3>1. PICK a \in Attempts : LateResponse(c, a)
      BY <2>4
    <3>2. /\ responded' \in [Calls -> SUBSET Attempts] /\ late' \in [Calls -> SUBSET Attempts]
          /\ \A d \in Calls : responded'[d] \subseteq reached[d] /\ late'[d] \subseteq responded'[d]
      BY <3>1 DEF LateResponse, Shapes, Typed
    <3>3. td' \in [Calls -> [server : Marks, status : Marks]]
      <4>1. [call |-> c, attempt |-> a] \in Marks
        BY ClientAssumption DEF Marks, Attempts
      <4>2. td' = [td EXCEPT ![ctx[c].td].status = [call |-> c, attempt |-> a]]
        BY <3>1 DEF LateResponse, ExtractTransportTelemetry
      <4> QED  BY <4>1, <4>2 DEF Shapes
    <3> QED  BY <3>1, <3>2, <3>3 DEF LateResponse, Shapes, Typed
  <2> QED  BY <2>1, <2>2, <2>3, <2>4 DEF Attempting
<1>6. CASE \E c \in Calls : SkipMetric(c) \/ GetInstruments(c)
  BY <1>6 DEF SkipMetric, GetInstruments, Goto, Locations, Shapes, Typed
<1>7. CASE \E c \in Calls : CheckInstruments(c)
  <2>1. PICK c \in Calls : CheckInstruments(c)
    BY <1>7
  <2>2. pc' \in [Calls -> Locations]
    BY <2>1 DEF CheckInstruments, Locations, Typed
  <2>3. point' \in [Calls -> Points]
    <3>1. NoMark \in Marks /\ ctx[c].rpc_method \in STRING
      BY ClientAssumption DEF NoMark, Marks, Shapes
    <3>2. get = "done" => data.attr \in 0 .. MaxChanges
      BY DEF InstrumentsInv
    <3>3. point \in [Calls -> Points]
      BY DEF Shapes
    <3>4. get = "done" =>
            [state |-> "open", attr |-> data.attr, method |-> ctx[c].rpc_method,
             server |-> NoMark, status |-> NoMark] \in Points
      BY <3>1, <3>2 DEF Points
    <3> QED
      BY <2>1, <3>3, <3>4 DEF CheckInstruments, TelemetryFromContext
  <2> QED  BY <2>1, <2>2, <2>3 DEF CheckInstruments, Shapes, Typed
<1>8. CASE \E c \in Calls : \/ ReadTransport(c, "server", "status")
                           \/ ReadTransport(c, "status", "done")
  <2>1. PICK c \in Calls, field \in {"server", "status"}, next \in {"status", "done"} :
            ReadTransport(c, field, next)
    BY <1>8
  <2>2. pc[c] = field /\ pc' \in [Calls -> Locations]
    BY <2>1 DEF ReadTransport, Goto, Typed, Locations
  <2>3. point[c] # NoPoint /\ ctx[c].td \in Calls
    BY <2>2 DEF Readable
  <2>4. td[ctx[c].td][field] \in Marks
    BY <2>3 DEF Shapes
  <2>5. point' \in [Calls -> Points]
    BY <2>1, <2>3, <2>4, ReadTransportStep DEF Shapes
  <2>6. UNCHANGED << opts, settings, flags, ctx, td, retryer, backoff, attempt, reached,
                     responded, late, limits >>
    BY <2>1 DEF ReadTransport
  <2> QED  BY <2>2, <2>5, <2>6 DEF Shapes, Typed
<1>9. CASE Environment \/ UNCHANGED clientVars
  BY <1>9 DEF Environment, clientVars, callVars, Shapes, Typed
<1> QED  BY <1>2, <1>3, <1>4, <1>5, <1>6, <1>7, <1>8, <1>9, Steps DEF Recording

LEMMA BegunKeeps ==
    ASSUME Shapes, Begun, [Next]_clientVars
    PROVE  Begun'
<1>1. CASE \E c \in Calls : Call(c)
  BY <1>1 DEF Call, Start, Goto, Begun
<1>2. CASE \E c \in Calls : Learning(c)
  <2>1. PICK c \in Calls : LearnMETRICS(c) \/ LearnTRACING(c)
    BY <1>2 DEF Learning
  <2>2. CASE LearnMETRICS(c)
    BY <2>2 DEF LearnMETRICS, Goto, Begun
  <2>3. CASE LearnTRACING(c)
    BY <2>3 DEF LearnTRACING, Goto, Begun, Shapes
  <2> QED  BY <2>1, <2>2, <2>3
<1>3. CASE \E c \in Calls : FlagStep(c) \/ GetStep(c)
  BY <1>3 DEF FlagStep, GetStep, callVars, Begun
<1>4. CASE \E c \in Calls : Attempting(c)
  <2>1. PICK c \in Calls : Attempting(c)
    BY <1>4
  <2>2. CASE Succeed(c) \/ FailForGood(c)
    <3>1. /\ attempt' = attempt /\ pc[c] = "calling" /\ pc' = [pc EXCEPT ![c] = "unwinding"]
          /\ \A d \in Calls \ {c} : reached'[d] = reached[d]
      BY <2>2 DEF Succeed, FailForGood, Transport, Goto, Shapes
    <3> QED  BY <3>1 DEF Begun
  <2>3. CASE FailAndPause(c)
    <3>1. /\ attempt' = [attempt EXCEPT ![c] = attempt[c] + 1] /\ pc[c] = "calling" /\ pc' = pc
          /\ \A d \in Calls \ {c} : reached'[d] = reached[d]
      BY <2>3 DEF FailAndPause, Transport, Shapes
    <3>2. attempt \in [Calls -> 0 .. MaxAttempts] /\ MaxAttempts \in Nat
      BY ClientAssumption DEF Shapes
    <3> QED  BY <3>1, <3>2 DEF Begun
  <2>4. CASE \E a \in Attempts : LateResponse(c, a)
    BY <2>4 DEF LateResponse, Begun
  <2> QED  BY <2>1, <2>2, <2>3, <2>4 DEF Attempting
<1>5. CASE \E c \in Calls : Recording(c)
  <2>1. PICK c \in Calls : Recording(c)
    BY <1>5
  <2>2. UNCHANGED << attempt, reached >>
    BY <2>1 DEF Recording, SkipMetric, GetInstruments, CheckInstruments, ReadTransport
  <2>3. \E to \in {"instruments", "server", "status", "done", "panicked"} :
            pc' = [pc EXCEPT ![c] = to]
    BY <2>1 DEF Recording, SkipMetric, GetInstruments, CheckInstruments, ReadTransport, Goto
  <2> QED  BY <2>2, <2>3 DEF Begun
<1>6. CASE Environment \/ UNCHANGED clientVars
  BY <1>6 DEF Environment, clientVars, callVars, Begun
<1> QED  BY <1>1, <1>2, <1>3, <1>4, <1>5, <1>6, Steps

(* A call is told nothing by the steps of the others. *)
Untouched(d) ==
    /\ td'[d] = td[d] /\ ctx'[d].td = ctx[d].td /\ flags'[d] = flags[d]
    /\ reached'[d] = reached[d] /\ responded'[d] = responded[d] /\ late'[d] = late[d]
    /\ pc'[d] = pc[d] /\ point'[d] = point[d]

LEMMA UntouchedTold ==
    ASSUME NEW d \in Calls, Told(d), Untouched(d)
    PROVE  Told(d)'
BY DEF Untouched, Told, OwnServer, OwnStatus

(* The transport of the latest attempt tells the data of its own call. *)
LEMMA TransportTells ==
    ASSUME Typed, Shapes, NEW c \in Calls, attempt[c] # 0, Told(c),
           NEW outcome, Transport(c, outcome), UNCHANGED << ctx, late >>
    PROVE  /\ \A d \in Calls \ {c} : /\ td'[d] = td[d] /\ reached'[d] = reached[d]
                                     /\ responded'[d] = responded[d]
           /\ OwnServer(c, td[c].server)' /\ OwnStatus(c, td[c].status)'
           /\ ctx'[c].td = Nobody => reached'[c] = {}
<1> DEFINE n == attempt[c]
<1>1. n \in Nat /\ reached[c] \in SUBSET (1 .. n) /\ responded[c] \in SUBSET (1 .. n)
  BY ClientAssumption DEF Shapes, Typed
<1>2. Max(reached[c] \cup {n}) = n /\ Max(responded[c] \cup {n}) = n
  BY <1>1, MaxOfLatest
<1>3. CASE UNCHANGED << td, reached, responded >>
  BY <1>3 DEF Told, OwnServer, OwnStatus
<1>4. CASE /\ ctx[c].td # Nobody
           /\ td' = [td EXCEPT ![ctx[c].td].server = Mark(c)]
           /\ reached' = [reached EXCEPT ![c] = @ \cup {attempt[c]}]
           /\ UNCHANGED responded
  <2>1. ctx[c].td = c
    BY <1>4 DEF Typed
  <2>2. /\ reached'[c] = reached[c] \cup {n} /\ responded' = responded
        /\ \A d \in Calls \ {c} : td'[d] = td[d] /\ reached'[d] = reached[d]
    BY <1>4, <2>1 DEF Shapes
  <2>3. td'[c].server = [call |-> c, attempt |-> n] /\ td'[c].status = td[c].status
    BY <1>4, <2>1 DEF Shapes, Mark
  <2>4. OwnServer(c, td[c].server)'
    BY <1>2, <2>2, <2>3 DEF OwnServer
  <2>5. OwnStatus(c, td[c].status)'
    BY <2>2, <2>3 DEF OwnStatus, Told
  <2> QED  BY <1>4, <2>2, <2>4, <2>5
<1>5. CASE /\ ctx[c].td # Nobody
           /\ td' = [td EXCEPT ![ctx[c].td] = [server |-> Mark(c), status |-> Mark(c)]]
           /\ reached' = [reached EXCEPT ![c] = @ \cup {attempt[c]}]
           /\ responded' = [responded EXCEPT ![c] = @ \cup {attempt[c]}]
  <2>1. ctx[c].td = c
    BY <1>5 DEF Typed
  <2>2. /\ reached'[c] = reached[c] \cup {n} /\ responded'[c] = responded[c] \cup {n}
        /\ \A d \in Calls \ {c} : /\ td'[d] = td[d] /\ reached'[d] = reached[d]
                                  /\ responded'[d] = responded[d]
    BY <1>5, <2>1 DEF Shapes
  <2>3. /\ td'[c].server = [call |-> c, attempt |-> n]
        /\ td'[c].status = [call |-> c, attempt |-> n]
    BY <1>5, <2>1 DEF Shapes, Mark
  <2>4. OwnServer(c, td[c].server)'
    BY <1>2, <2>2, <2>3 DEF OwnServer
  <2>5. OwnStatus(c, td[c].status)'
    BY <1>2, <2>2, <2>3 DEF OwnStatus
  <2> QED  BY <1>5, <2>2, <2>4, <2>5
<1> QED  BY <1>3, <1>4, <1>5 DEF Transport, ExtractTransportTelemetry

LEMMA TelemetryInvKeeps ==
    ASSUME Typed, Shapes, Begun, TelemetryInv, [Next]_clientVars
    PROVE  TelemetryInv'
<1>1. \A c \in Calls : Told(c)
  BY DEF TelemetryInv
<1>2. SUFFICES ASSUME NEW d \in Calls PROVE Told(d)'
  BY DEF TelemetryInv
<1>3. Told(d)
  BY <1>1
<1>4. CASE Untouched(d)
  BY <1>3, <1>4, UntouchedTold
<1>5. CASE \E c \in Calls : Call(c)
  <2>1. PICK c \in Calls, keyvals \in Keyvals : Start(c, keyvals)
    BY <1>5 DEF Call
  <2>2. \A e \in Calls : ctx'[e].td = ctx[e].td
    <3>1. \A e \in Calls : ctx[e] \in [rpc_method : STRING, resend_count : STRING,
                                      td : Calls \cup {Nobody}]
      BY DEF Shapes
    <3> DEFINE new == WithTelemetryContext(ctx[c], keyvals)
    <3>2. new.td = ctx[c].td
      BY <3>1 DEF WithTelemetryContext
    <3>3. ctx' = [ctx EXCEPT ![c] = new]
      BY <2>1 DEF Start
    <3> HIDE DEF new
    <3> QED  BY <3>2, <3>3 DEF Shapes
  <2>3. CASE d # c
    BY <1>4, <2>1, <2>2, <2>3 DEF Start, Goto, Untouched
  <2>4. CASE d = c
    <3>1. pc[d] = "new" /\ pc' = [pc EXCEPT ![d] = "METRICS"]
      BY <2>1, <2>4 DEF Start, Goto
    <3>2. UNCHANGED << td, flags, reached, responded, late, point >>
      BY <2>1 DEF Start
    <3>3. pc'[d] = "METRICS"
      BY <3>1 DEF Typed
    <3> QED  BY <1>3, <2>2, <3>1, <3>2, <3>3 DEF Told, OwnServer, OwnStatus
  <2> QED  BY <2>3, <2>4
<1>6. CASE \E c \in Calls : LearnMETRICS(c)
  <2>1. PICK c \in Calls : LearnMETRICS(c)
    BY <1>6
  <2>2. CASE d # c
    BY <1>4, <2>1, <2>2 DEF LearnMETRICS, InjectTransportTelemetry, Goto, Untouched
  <2>3. CASE d = c
    <3>1. /\ pc[d] = "METRICS" /\ pc'[d] = "TRACING"
          /\ UNCHANGED << td, reached, responded, late, point >>
      BY <2>1, <2>3 DEF LearnMETRICS, Goto, Typed
    <3>2. flags'[d].METRICS = StoredFeature("METRICS")
      BY <2>1, <2>3 DEF LearnMETRICS, Shapes
    <3>3. ctx'[d].td = IF StoredFeature("METRICS") THEN d ELSE ctx[d].td
      BY <2>1, <2>3 DEF LearnMETRICS, InjectTransportTelemetry, Shapes
    <3>4. reached[d] = {} /\ d # Nobody
      BY <3>1, ClientAssumption DEF Begun, Calls
    <3> QED
      BY <1>3, <3>1, <3>2, <3>3, <3>4 DEF Told, OwnServer, OwnStatus
  <2> QED  BY <2>2, <2>3
<1>7. CASE \E c \in Calls : LearnTRACING(c)
  <2>1. PICK c \in Calls : LearnTRACING(c)
    BY <1>7
  <2>2. CASE d # c
    BY <1>4, <2>1, <2>2 DEF LearnTRACING, Goto, Untouched
  <2>3. CASE d = c
    <3>1. /\ pc[d] = "TRACING" /\ pc'[d] = "calling"
          /\ UNCHANGED << td, ctx, reached, responded, late, point >>
      BY <2>1, <2>3 DEF LearnTRACING, Goto, Typed
    <3>2. flags'[d].METRICS = flags[d].METRICS
      BY <2>1, <2>3 DEF LearnTRACING, Shapes
    <3> QED
      BY <1>3, <3>1, <3>2 DEF Told, OwnServer, OwnStatus
  <2> QED  BY <2>2, <2>3
<1>8. CASE \E c \in Calls : FlagStep(c) \/ GetStep(c)
  BY <1>4, <1>8 DEF FlagStep, GetStep, callVars, Untouched
<1>9. CASE \E c \in Calls : Succeed(c) \/ FailForGood(c) \/ FailAndPause(c)
  <2>1. PICK c \in Calls : Succeed(c) \/ FailForGood(c) \/ FailAndPause(c)
    BY <1>9
  <2>2. /\ pc[c] = "calling" /\ UNCHANGED << ctx, flags, late, point >>
        /\ pc' = pc \/ pc' = [pc EXCEPT ![c] = "unwinding"]
        /\ \E outcome : Transport(c, outcome)
    BY <2>1 DEF Succeed, FailForGood, FailAndPause, Goto
  <2>3. /\ \A e \in Calls \ {c} : /\ td'[e] = td[e] /\ reached'[e] = reached[e]
                                  /\ responded'[e] = responded[e]
        /\ OwnServer(c, td[c].server)' /\ OwnStatus(c, td[c].status)'
        /\ ctx'[c].td = Nobody => reached'[c] = {}
    BY <1>1, <2>2, TransportTells DEF Begun
  <2>4. CASE d # c
    <3>1. pc'[d] = pc[d]
      BY <2>2, <2>4 DEF Typed
    <3> QED  BY <1>4, <2>2, <2>3, <2>4, <3>1 DEF Untouched
  <2>5. CASE d = c
    <3>1. pc[d] = "calling" /\ pc'[d] \in {"calling", "unwinding"}
      BY <2>2, <2>5 DEF Typed
    <3> QED
      BY <1>3, <2>2, <2>3, <2>5, <3>1 DEF Told
  <2> QED  BY <2>4, <2>5
<1>10. CASE \E c \in Calls, a \in Attempts : LateResponse(c, a)
  <2>1. PICK c \in Calls, a \in Attempts : LateResponse(c, a)
    BY <1>10
  <2>2. a \in reached[c] /\ ~Over(c) /\ ctx[c].td = c
    BY <1>1, <2>1 DEF LateResponse, Told, Typed
  <2>3. /\ td' = [td EXCEPT ![c].status = [call |-> c, attempt |-> a]]
        /\ responded' = [responded EXCEPT ![c] = responded[c] \cup {a}]
        /\ late' = [late EXCEPT ![c] = late[c] \cup {a}]
        /\ UNCHANGED << pc, ctx, flags, reached, point >>
    BY <2>1, <2>2 DEF LateResponse, ExtractTransportTelemetry
  <2>4. CASE d # c
    BY <1>4, <2>3, <2>4 DEF Untouched
  <2>5. CASE d = c
    <3>1. /\ td'[d].server = td[d].server
          /\ td'[d].status = [call |-> d, attempt |-> a]
          /\ responded'[d] = responded[d] \cup {a} /\ late'[d] # {}
      BY <2>3, <2>5 DEF Shapes
    <3>2. OwnServer(d, td[d].server)'
      BY <1>3, <2>3, <3>1 DEF Told, OwnServer
    <3>3. OwnStatus(d, td[d].status)'
      BY <3>1 DEF OwnStatus
    <3>4. pc[d] # "done"
      BY <2>2, <2>5 DEF Over
    <3> QED
      BY <1>3, <2>3, <3>1, <3>2, <3>3, <3>4 DEF Told, OwnServer
  <2> QED  BY <2>4, <2>5
<1>11. CASE \E c \in Calls : SkipMetric(c) \/ GetInstruments(c)
  <2>1. PICK c \in Calls : SkipMetric(c) \/ GetInstruments(c)
    BY <1>11
  <2>2. UNCHANGED << td, ctx, flags, reached, responded, late, point >>
    BY <2>1 DEF SkipMetric, GetInstruments
  <2>3. CASE d # c
    <3>1. pc'[d] = pc[d]
      BY <2>1, <2>3 DEF SkipMetric, GetInstruments, Goto, Typed
    <3> QED  BY <1>4, <2>2, <3>1 DEF Untouched
  <2>4. CASE d = c
    <3>1. /\ pc[d] = "unwinding" /\ pc'[d] \in {"done", "instruments"}
          /\ pc'[d] = "instruments" => flags[d].METRICS
      BY <2>1, <2>4 DEF SkipMetric, GetInstruments, Goto, Typed
    <3> QED
      BY <1>3, <2>2, <3>1 DEF Told, OwnServer, OwnStatus
  <2> QED  BY <2>3, <2>4
<1>12. CASE \E c \in Calls : CheckInstruments(c)
  <2>1. PICK c \in Calls : CheckInstruments(c)
    BY <1>12
  <2>2. UNCHANGED << td, ctx, flags, reached, responded, late >>
    BY <2>1 DEF CheckInstruments
  <2>3. CASE d # c
    <3>1. pc'[d] = pc[d] /\ point'[d] = point[d]
      BY <2>1, <2>3 DEF CheckInstruments, Typed, Shapes
    <3> QED  BY <1>4, <2>2, <3>1 DEF Untouched
  <2>4. CASE d = c
    <3>1. pc[d] = "instruments"
      BY <2>1, <2>4 DEF CheckInstruments
    <3>2. CASE UNCHANGED point /\ pc'[d] \in {"panicked", "done"}
      BY <1>3, <2>2, <3>1, <3>2 DEF Told, OwnServer, OwnStatus, NoPoint
    <3>3. CASE pc'[d] = "server" /\ point'[d].state = "open"
      <4>1. point'[d] # NoPoint /\ point'[d].state # "recorded"
        BY <3>3 DEF NoPoint
      <4> QED
        BY <1>3, <2>2, <3>1, <3>3, <4>1 DEF Told, OwnServer, OwnStatus
    <3> QED
      BY <2>1, <2>4, <3>2, <3>3 DEF CheckInstruments, Typed, Shapes
  <2> QED  BY <2>3, <2>4
<1>13. CASE \E c \in Calls : \/ ReadTransport(c, "server", "status")
                            \/ ReadTransport(c, "status", "done")
  <2>1. PICK c \in Calls, field \in {"server", "status"}, next \in {"status", "done"} :
            /\ ReadTransport(c, field, next)
            /\ next = IF field = "server" THEN "status" ELSE "done"
    BY <1>13
  <2>2. /\ UNCHANGED << td, ctx, flags, reached, responded, late >>
        /\ pc[c] = field /\ pc'[c] = next
        /\ \A e \in Calls \ {c} : pc'[e] = pc[e]
    BY <2>1 DEF ReadTransport, Goto, Typed
  <2>3. Told(c)
    BY <1>1
  <2>4. point[c] # NoPoint /\ point[c].state = "open" /\ ctx[c].td = c
    BY <2>2, <2>3 DEF Told
  <2>5. td[ctx[c].td][field] \in Marks
    BY <2>4 DEF Shapes
  <2>6. /\ \A e \in Calls \ {c} : point'[e] = point[e]
        /\ point'[c] # NoPoint
        /\ point'[c].server =
              IF field = "server" THEN td[c].server ELSE point[c].server
        /\ point'[c].status =
              IF field = "status" THEN td[c].status ELSE point[c].status
        /\ point'[c].state = IF next = "done" THEN "recorded" ELSE "open"
    BY <2>1, <2>4, <2>5, ReadTransportStep DEF Shapes
  <2>7. CASE d # c
    BY <1>4, <2>2, <2>6, <2>7 DEF Untouched
  <2>8. CASE d = c
    <3>1. OwnServer(c, point'[c].server)
      BY <2>1, <2>2, <2>3, <2>6 DEF Told
    <3>2. field = "status" => OwnStatus(c, point'[c].status)
      BY <2>3, <2>6 DEF Told
    <3> QED
      BY <2>1, <2>2, <2>3, <2>6, <2>8, <3>1, <3>2 DEF Told, OwnServer, OwnStatus
  <2> QED  BY <2>7, <2>8
<1>14. CASE Environment \/ UNCHANGED clientVars
  BY <1>4, <1>14 DEF Environment, clientVars, callVars, Untouched
<1> QED
  BY <1>5, <1>6, <1>7, <1>8, <1>9, <1>10, <1>11, <1>12, <1>13, <1>14, Steps
  DEF Learning, Attempting, Recording

----------------------------------------------------------------------------
(* The pauses. *)
At(k) == [Given EXCEPT !.cur = k]

LEMMA GivenType ==
    /\ Given \in Backoffs /\ Given.Initial \in Nat \ {0} /\ Given.Max \in Nat \ {0}
    /\ Given.Multiplier >= 100 /\ Given.Multiplier \in Nat
    /\ Given.cur = Given.Initial /\ Given.Max \in Durations
<1>1. Given \in Backoffs /\ Given.Multiplier >= 100
  BY ClientAssumption, NormalizedType DEF Given
<1>2. Given.cur = Given.Initial
  BY ClientAssumption DEF Given, Normalized
<1>3. Given.Initial > 0 /\ Given.Max > 0
  BY ClientAssumption, <1>2 DEF Given, Sound
<1> QED  BY <1>1, <1>2, <1>3 DEF Backoffs, Durations, IntMin

(* A period that is not zero is what the next Pause begins with. *)
LEMMA NormalizedAt ==
    ASSUME NEW k \in Durations, k # 0
    PROVE  /\ Normalized([Parameters EXCEPT !.cur = k]) = At(k)
           /\ Normalized(At(k)) = At(k)
           /\ At(k).cur = k
<1>1. Parameters \in Backoffs
  BY ClientAssumption
<1>2. Normalized([Parameters EXCEPT !.cur = k]) = At(k)
  BY <1>1 DEF Normalized, At, Given, Backoffs
<1>3. Given \in Backoffs /\ Given.Initial # 0 /\ Given.Max # 0
      /\ Given.Multiplier >= 100 /\ Given.Multiplier \in Int
  BY GivenType
<1>4. At(k) = [Initial |-> Given.Initial, cur |-> k, Max |-> Given.Max,
              Multiplier |-> Given.Multiplier]
  BY <1>3 DEF At, Backoffs
<1>5. Normalized(At(k)) = At(k)
  BY <1>3, <1>4 DEF Normalized
<1> QED  BY <1>2, <1>4, <1>5

(* A period within the bounds grows to one within Max. *)
LEMMA PauseAt ==
    ASSUME NEW k \in Durations, k >= 1, k <= Given.Initial \/ k <= Given.Max,
           NEW bo \in AfterPause([Parameters EXCEPT !.cur = k])
    PROVE  \E x \in 1 .. Given.Max : bo = At(x)
<1> DEFINE m == Given.Multiplier
           highest == IF Given.Initial > Given.Max THEN Given.Initial ELSE Given.Max
<1>1. /\ k \in Nat /\ m \in Nat /\ m >= 100 /\ highest \in Nat
      /\ Given.Max \in Nat \ {0} /\ Given.Initial \in Nat \ {0} /\ IntMax \in Nat
  BY GivenType, BackoffAssumption DEF Durations, IntMin
<1>2. k <= highest
  BY <1>1
<1>3. (highest * m) \div 100 <= IntMax
  BY ClientAssumption, GivenType DEF Sound, Given
<1>4. At(k).cur = k /\ At(k).Max = Given.Max /\ At(k).Multiplier = m
      /\ Normalized([Parameters EXCEPT !.cur = k]) = At(k)
  <2>1. Given \in Backoffs /\ k # 0
    BY <1>1, GivenType
  <2> QED  BY <2>1, NormalizedAt DEF At, Backoffs
<1>5. PICK c \in Scaled(k, m) :
        bo = [At(k) EXCEPT !.cur = IF c > Given.Max THEN Given.Max ELSE c]
  BY <1>4 DEF AfterPause
<1> HIDE DEF m, highest
<1>6. k * m <= highest * m /\ k * m \in Nat /\ highest * m \in Nat
  BY <1>1, <1>2, TimesMonotone
<1>7. (k * m) \div 100 <= IntMax
  BY <1>1, <1>3, <1>6
<1>8. (k * m) \div 100 \in Nat /\ k <= (k * m) \div 100
  BY <1>1, ScaledGrows
<1>9. c \in Nat /\ c >= 1
  BY <1>1, <1>5, <1>7, <1>8 DEF Scaled
<1>10. (IF c > Given.Max THEN Given.Max ELSE c) \in 1 .. Given.Max
  BY <1>1, <1>9
<1>11. \A x : [At(k) EXCEPT !.cur = x] = At(x)
  BY DEF At
<1> QED  BY <1>5, <1>10, <1>11

(* The limit of the next pause of a call, and what its Backoff does then. *)
LEMMA NextLimit ==
    ASSUME Shapes, EnvelopeInv, NEW c \in Calls
    PROVE  LET k == Normalized(backoff[c]).cur
           IN  /\ k \in Durations /\ k >= 1
               /\ k <= Given.Initial \/ k <= Given.Max
               /\ AfterPause(backoff[c]) = AfterPause([Parameters EXCEPT !.cur = k])
               /\ IF limits[c] = << >> THEN k = Given.cur
                  ELSE \E bo \in AfterPause([Parameters EXCEPT
                                              !.cur = limits[c][Len(limits[c])]]) : k = bo.cur
<1> DEFINE k == Normalized(backoff[c]).cur
<1>1. /\ Given \in Backoffs /\ Given.Initial \in Nat \ {0} /\ Given.Max \in Nat \ {0}
      /\ Given.cur = Given.Initial /\ Given.Max \in Durations /\ Given.cur \in Durations
  BY GivenType DEF Backoffs
<1>2. CASE limits[c] = << >>
  <2>1. backoff[c] = Parameters
    BY <1>2 DEF EnvelopeInv, Resumes
  <2>2. k = Given.cur
    BY <2>1 DEF Given
  <2>3. At(Given.cur) = Given
    BY <1>1 DEF At, Backoffs
  <2>4. Normalized([Parameters EXCEPT !.cur = k]) = Normalized(backoff[c])
    <3> HIDE DEF k
    <3>1. Normalized([Parameters EXCEPT !.cur = k]) = At(k)
      BY <1>1, <2>2, NormalizedAt
    <3> QED  BY <2>1, <2>2, <2>3, <3>1 DEF Given
  <2>5. AfterPause(backoff[c]) = AfterPause([Parameters EXCEPT !.cur = k])
    BY <2>4 DEF AfterPause
  <2> HIDE DEF k
  <2>6. k \in Durations /\ k >= 1 /\ k <= Given.Initial
    BY <1>1, <2>2
  <2> QED  BY <1>2, <2>2, <2>5, <2>6 DEF k
<1>3. CASE limits[c] # << >>
  <2> DEFINE last == limits[c][Len(limits[c])]
  <2>1. backoff[c] \in AfterPause([Parameters EXCEPT !.cur = last])
    BY <1>3 DEF EnvelopeInv, Resumes
  <2>3. PICK x \in 1 .. Given.Max : backoff[c] = At(x)
    BY <1>3 DEF EnvelopeInv, Resumes, At
  <2>4. At(x).cur = x
    BY <1>1 DEF At, Backoffs
  <2>5. x \in Durations /\ x # 0
    BY <1>1, BackoffAssumption DEF Durations, IntMin
  <2>6. /\ Normalized([Parameters EXCEPT !.cur = x]) = At(x)
        /\ Normalized(At(x)) = At(x)
    BY <2>5, NormalizedAt
  <2>7. k = x
    BY <2>3, <2>4, <2>6
  <2>8. AfterPause(backoff[c]) = AfterPause([Parameters EXCEPT !.cur = x])
    BY <2>3, <2>6 DEF AfterPause
  <2> QED  BY <1>1, <1>3, <2>1, <2>3, <2>4, <2>5, <2>7, <2>8
<1> QED  BY <1>2, <1>3

LEMMA NoneCanPanic ==
    ASSUME Shapes, EnvelopeInv
    PROVE  NonePanics
<1> SUFFICES ASSUME NEW c \in Calls PROVE ~PausePanics(backoff[c])
  BY DEF NonePanics
<1>1. Normalized(backoff[c]).cur \in Durations /\ Normalized(backoff[c]).cur >= 1
  <2> DEFINE k == Normalized(backoff[c]).cur
  <2>1. k \in Durations /\ k >= 1
    BY NextLimit
  <2> QED  BY <2>1
<1> QED  BY <1>1 DEF PausePanics, Durations, IntMin

(* The limits of the pauses, with one more. *)
LEMMA AppendFollows ==
    ASSUME NEW list \in Seq(Durations), NEW k \in Durations, Follows(list),
           IF list = << >> THEN k = Given.cur
           ELSE \E bo \in AfterPause([Parameters EXCEPT !.cur = list[Len(list)]]) : k = bo.cur
    PROVE  Follows(Append(list, k))
<1> DEFINE longer == Append(list, k)
<1>1. /\ DOMAIN longer = 1 .. Len(list) + 1 /\ DOMAIN list = 1 .. Len(list)
      /\ longer[Len(list) + 1] = k /\ \A i \in 1 .. Len(list) : longer[i] = list[i]
      /\ Len(list) \in Nat
  OBVIOUS
<1>2. list = << >> <=> Len(list) = 0
  OBVIOUS
<1> HIDE DEF longer
<1>3. ASSUME NEW i \in DOMAIN longer
      PROVE  IF i = 1 THEN longer[i] = Given.cur
             ELSE \E bo \in AfterPause([Parameters EXCEPT !.cur = longer[i - 1]]) :
                    longer[i] = bo.cur
  <2>1. CASE i \in 1 .. Len(list)
    <3>1. i # 1 => i - 1 \in 1 .. Len(list)
      BY <1>1, <2>1
    <3>2. longer[i] = list[i] /\ (i # 1 => longer[i - 1] = list[i - 1])
      BY <1>1, <2>1, <3>1
    <3>3. IF i = 1 THEN list[i] = Given.cur
          ELSE \E bo \in AfterPause([Parameters EXCEPT !.cur = list[i - 1]]) : list[i] = bo.cur
      BY <1>1, <2>1 DEF Follows
    <3> QED  BY <3>2, <3>3
  <2>2. CASE i = Len(list) + 1 /\ Len(list) = 0
    BY <1>1, <1>2, <2>2
  <2>3. CASE i = Len(list) + 1 /\ Len(list) # 0
    <3>1. i # 1 /\ i - 1 = Len(list) /\ longer[i] = k /\ longer[i - 1] = list[Len(list)]
      BY <1>1, <2>3
    <3>2. list # << >>
      BY <1>2, <2>3
    <3> QED  BY <3>1, <3>2
  <2> QED  BY <1>1, <2>1, <2>2, <2>3
<1> QED  BY <1>3 DEF Follows, longer

LEMMA PausingSteps ==
    ASSUME [Next]_clientVars
    PROVE  UNCHANGED << backoff, limits >> \/ \E c \in Calls : FailAndPause(c)
<1>1. CASE \E c \in Calls : Call(c) \/ Learning(c) \/ FlagStep(c) \/ GetStep(c)
  BY <1>1 DEF Call, Start, Learning, LearnMETRICS, LearnTRACING, FlagStep, GetStep, callVars
<1>2. CASE \E c \in Calls : Attempting(c)
  BY <1>2 DEF Attempting, Succeed, FailForGood, LateResponse
<1>3. CASE \E c \in Calls : Recording(c)
  BY <1>3 DEF Recording, SkipMetric, GetInstruments, CheckInstruments, ReadTransport
<1>4. CASE Environment \/ UNCHANGED clientVars
  BY <1>4 DEF Environment, clientVars, callVars
<1> QED  BY <1>1, <1>2, <1>3, <1>4, Steps

LEMMA EnvelopeInvKeeps ==
    ASSUME Typed, Shapes, EnvelopeInv, [Next]_clientVars
    PROVE  EnvelopeInv'
<1>1. CASE UNCHANGED << backoff, limits >>
  BY <1>1 DEF EnvelopeInv
<1>2. CASE \E c \in Calls : FailAndPause(c)
  <2>1. PICK c \in Calls : FailAndPause(c)
    BY <1>2
  <2> DEFINE k == Normalized(backoff[c]).cur
  <2>2. /\ limits' = [limits EXCEPT ![c] = Append(limits[c], k)]
        /\ \E bo \in AfterPause(backoff[c]) : backoff' = [backoff EXCEPT ![c] = bo]
    BY <2>1, NoneCanPanic, PausedTyped DEF NonePanics
  <2>3. /\ k \in Durations /\ k >= 1
        /\ k <= Given.Initial \/ k <= Given.Max
        /\ AfterPause(backoff[c]) = AfterPause([Parameters EXCEPT !.cur = k])
        /\ IF limits[c] = << >> THEN k = Given.cur
           ELSE \E bo \in AfterPause([Parameters EXCEPT !.cur = limits[c][Len(limits[c])]]) :
                    k = bo.cur
    BY NextLimit
  <2>4. PICK bo \in AfterPause([Parameters EXCEPT !.cur = k]) :
            backoff' = [backoff EXCEPT ![c] = bo]
    BY <2>2, <2>3
  <2> HIDE DEF k
  <2>5. \E x \in 1 .. Given.Max : bo = At(x)
    BY <2>3, <2>4, PauseAt
  <2>6. /\ limits'[c] = Append(limits[c], k) /\ backoff'[c] = bo
        /\ \A d \in Calls \ {c} : limits'[d] = limits[d] /\ backoff'[d] = backoff[d]
        /\ limits[c] \in Seq(Durations)
    BY <2>2, <2>4 DEF Shapes
  <2>7. /\ limits'[c] # << >> /\ limits'[c][Len(limits'[c])] = k
    BY <2>3, <2>6
  <2>8. Follows(limits'[c])
    <3>1. Follows(limits[c])
      BY DEF EnvelopeInv
    <3> QED  BY <2>3, <2>6, <3>1, AppendFollows
  <2>9. Resumes(limits'[c], backoff'[c])
    BY <2>4, <2>5, <2>6, <2>7 DEF Resumes, At
  <2>10. ASSUME NEW d \in Calls PROVE Follows(limits'[d]) /\ Resumes(limits'[d], backoff'[d])
    <3>1. CASE d = c
      BY <2>8, <2>9, <3>1
    <3>2. CASE d # c
      BY <2>6, <3>2 DEF EnvelopeInv
    <3> QED  BY <3>1, <3>2
  <2> QED  BY <2>10 DEF EnvelopeInv
<1> QED  BY <1>1, <1>2, PausingSteps

----------------------------------------------------------------------------
(* Progress: the safety half of EveryCallEnds.  A call goes through a Once  *)
(* at one place of its way, and a Once whose function runs is run by a     *)
(* call.                                                                   *)
Passing(once, at, place) ==
    /\ \A c \in Calls : at[c] # "out" <=> pc[c] = place
    /\ once = "running" => \E c \in Calls : at[c] = "running"
PassingInv ==
    Passing(featureEnabledOnce, asking, "METRICS") /\ Passing(get, getting, "instruments")

(* The goroutine of the call has a next step, ... *)
CanGoOn(c) ==
    \/ pc[c] = "METRICS" /\ (asking[c] # "waiting" \/ featureEnabledOnce # "running")
    \/ pc[c] = "TRACING" /\ featureEnabledOnce = "done"
    \/ pc[c] \in {"calling", "unwinding", "server", "status"}
    \/ pc[c] = "instruments" /\ (getting[c] # "waiting" \/ get # "running")

(* ... or waits for the one that runs the function of the same Once.        *)
WaitsFor(c, d) ==
    \/ pc[c] = "METRICS" /\ asking[c] = "waiting" /\ asking[d] = "running"
    \/ pc[c] = "instruments" /\ getting[c] = "waiting" /\ getting[d] = "running"

NobodyWaitsInVain ==
    \A c \in Calls : pc[c] # "new" /\ ~Over(c) =>
        CanGoOn(c) \/ \E d \in Calls : WaitsFor(c, d) /\ CanGoOn(d)

(* How many steps a call has before it at most. *)
Ahead(where) ==
    CASE where = "waiting" -> 2
      [] where = "running" -> 1
      [] OTHER -> 0
RankAt(where, asks, gets, tried) ==
    CASE where = "new" -> MaxAttempts + 12
      [] where = "METRICS" -> MaxAttempts + 9 + Ahead(asks)
      [] where = "TRACING" -> MaxAttempts + 8
      [] where = "calling" -> MaxAttempts + 7 - tried
      [] where = "unwinding" -> 6
      [] where = "instruments" -> 3 + Ahead(gets)
      [] where = "server" -> 2
      [] where = "status" -> 1
      [] OTHER -> 0
Rank(c) == RankAt(pc[c], asking[c], getting[c], attempt[c])

Forward ==
    \A c \in Calls : /\ Rank(c) \in Nat /\ Rank(c)' <= Rank(c)
                     /\ Call(c) \/ Advance(c) => Rank(c)' < Rank(c)

(* What a step does to where the calls are in the Once of the flags, ... *)
LEMMA FlagPlaces ==
    ASSUME pc \in [Calls -> Locations], [Next]_clientVars
    PROVE  \/ /\ UNCHANGED << featureEnabledOnce, asking >>
              /\ \A d \in Calls : pc'[d] = "METRICS" <=> pc[d] = "METRICS"
           \/ \E c \in Calls : FlagOnce!Call(c) /\ Goto(c, "new", "METRICS")
           \/ \E c \in Calls : FlagOnce!Leave(c) /\ Goto(c, "METRICS", "TRACING")
           \/ \E c \in Calls : /\ FlagOnce!Run(c) \/ FlagOnce!Finish(c) \/ FlagOnce!Pass(c)
                               /\ UNCHANGED pc
           \/ featureEnabledOnce' = "new" /\ UNCHANGED << asking, pc >>
<1>1. CASE \E c \in Calls : Call(c)
  BY <1>1 DEF Call, Start, AskFeature
<1>2. CASE \E c \in Calls : Learning(c)
  <2>1. CASE \E c \in Calls : LearnMETRICS(c)
    BY <2>1 DEF LearnMETRICS, GetAnswer
  <2>2. CASE \E c \in Calls : LearnTRACING(c)
    BY <2>2 DEF LearnTRACING, flagVars, Goto
  <2> QED  BY <1>2, <2>1, <2>2 DEF Learning
<1>3. CASE \E c \in Calls : FlagStep(c)
  BY <1>3 DEF FlagStep, InFeatureOnce, ReadEnvironment, callVars
<1>4. CASE \E c \in Calls : GetStep(c)
  BY <1>4 DEF GetStep, flagVars, callVars
<1>5. CASE \E c \in Calls : Attempting(c)
  BY <1>5 DEF Attempting, Succeed, FailForGood, FailAndPause, LateResponse, flagVars, Goto
<1>6. CASE \E c \in Calls : Recording(c)
  <2>1. CASE \E c \in Calls : SkipMetric(c) \/ GetInstruments(c)
    BY <2>1 DEF SkipMetric, GetInstruments, flagVars, Goto
  <2>2. CASE \E c \in Calls : CheckInstruments(c)
    BY <2>2 DEF CheckInstruments, flagVars, Goto
  <2>3. CASE \E c \in Calls : \/ ReadTransport(c, "server", "status")
                             \/ ReadTransport(c, "status", "done")
    BY <2>3 DEF ReadTransport, flagVars, Goto
  <2> QED  BY <1>6, <2>1, <2>2, <2>3 DEF Recording
<1>7. CASE Environment \/ UNCHANGED clientVars
  BY <1>7
  DEF Environment, Setenv, TestOnlyResetIsFeatureEnabled, clientVars, flagVars, callVars
<1> QED  BY <1>1, <1>2, <1>3, <1>4, <1>5, <1>6, <1>7, Steps

(* ... and in that of the instruments. *)
LEMMA GetPlaces ==
    ASSUME pc \in [Calls -> Locations], [Next]_clientVars
    PROVE  \/ /\ UNCHANGED << get, getting >>
              /\ \A d \in Calls : pc'[d] = "instruments" <=> pc[d] = "instruments"
           \/ \E c \in Calls : GetOnce!Call(c) /\ Goto(c, "unwinding", "instruments")
           \/ \E c \in Calls, to \in {"panicked", "done", "server"} :
                  GetOnce!Leave(c) /\ Goto(c, "instruments", to)
           \/ \E c \in Calls : /\ \/ GetOnce!Run(c) \/ GetOnce!Finish(c)
                                  \/ GetOnce!Panic(c) \/ GetOnce!Pass(c)
                               /\ UNCHANGED pc
<1>1. CASE \E c \in Calls : Call(c) \/ Learning(c)
  BY <1>1 DEF Call, Start, Learning, LearnMETRICS, LearnTRACING, metricsVars, Goto
<1>2. CASE \E c \in Calls : FlagStep(c)
  BY <1>2 DEF FlagStep, metricsVars, callVars
<1>3. CASE \E c \in Calls : GetStep(c)
  BY <1>3 DEF GetStep, InGet, MakeInstruments, MakingPanics, callVars
<1>4. CASE \E c \in Calls : Attempting(c)
  BY <1>4
  DEF Attempting, Succeed, FailForGood, FailAndPause, LateResponse, metricsVars, Goto
<1>5. CASE \E c \in Calls : Recording(c)
  <2>1. PICK c \in Calls : Recording(c)
    BY <1>5
  <2>2. CASE SkipMetric(c)
    BY <2>2 DEF SkipMetric, metricsVars, Goto
  <2>3. CASE GetInstruments(c)
    BY <2>3 DEF GetInstruments, CallGet
  <2>4. CASE CheckInstruments(c)
    BY <2>4 DEF CheckInstruments, LeaveGet, Goto
  <2>5. CASE ReadTransport(c, "server", "status") \/ ReadTransport(c, "status", "done")
    BY <2>5 DEF ReadTransport, metricsVars, Goto
  <2> QED  BY <2>1, <2>2, <2>3, <2>4, <2>5 DEF Recording
<1>6. CASE Environment \/ UNCHANGED clientVars
  BY <1>6 DEF Environment, ChangeAttributes, clientVars, metricsVars, callVars
<1> QED  BY <1>1, <1>2, <1>3, <1>4, <1>5, <1>6, Steps

LEMMA PassingKeeps ==
    ASSUME MetricsTyped, FlagsTypeOK, pc \in [Calls -> Locations],
           PassingInv, [Next]_clientVars
    PROVE  PassingInv'
<1> USE DEF Passing, Goto
<1>1. Passing(featureEnabledOnce, asking, "METRICS")'
  <2>1. /\ asking \in [Calls -> {"out", "waiting", "running", "in"}]
        /\ Passing(featureEnabledOnce, asking, "METRICS")
    BY ClientAssumption DEF FlagsTypeOK, FlagOnce!TypeOK, FlagOnce!Places, Calls, PassingInv
  <2> USE DEF FlagOnce!Move
  <2>2. CASE \E c \in Calls : FlagOnce!Call(c) /\ Goto(c, "new", "METRICS")
    BY <2>1, <2>2 DEF FlagOnce!Call
  <2>3. CASE \E c \in Calls : FlagOnce!Leave(c) /\ Goto(c, "METRICS", "TRACING")
    BY <2>1, <2>3 DEF FlagOnce!Leave
  <2>4. CASE \E c \in Calls : /\ FlagOnce!Run(c) \/ FlagOnce!Finish(c) \/ FlagOnce!Pass(c)
                             /\ UNCHANGED pc
    BY <2>1, <2>4 DEF FlagOnce!Run, FlagOnce!Finish, FlagOnce!Pass
  <2>5. CASE featureEnabledOnce' = "new" /\ UNCHANGED << asking, pc >>
    BY <2>1, <2>5
  <2>6. CASE /\ UNCHANGED << featureEnabledOnce, asking >>
             /\ \A d \in Calls : pc'[d] = "METRICS" <=> pc[d] = "METRICS"
    BY <2>1, <2>6
  <2> QED  BY <2>2, <2>3, <2>4, <2>5, <2>6, FlagPlaces
<1>2. Passing(get, getting, "instruments")'
  <2>1. /\ getting \in [Calls -> {"out", "waiting", "running", "in"}]
        /\ Passing(get, getting, "instruments")
    BY DEF MetricsTyped, GetOnce!TypeOK, GetOnce!Places, Calls, PassingInv
  <2> USE DEF GetOnce!Move
  <2>2. CASE \E c \in Calls : GetOnce!Call(c) /\ Goto(c, "unwinding", "instruments")
    BY <2>1, <2>2 DEF GetOnce!Call
  <2>3. CASE \E c \in Calls, to \in {"panicked", "done", "server"} :
                GetOnce!Leave(c) /\ Goto(c, "instruments", to)
    BY <2>1, <2>3 DEF GetOnce!Leave
  <2>4. CASE \E c \in Calls : /\ \/ GetOnce!Run(c) \/ GetOnce!Finish(c)
                                \/ GetOnce!Panic(c) \/ GetOnce!Pass(c)
                             /\ UNCHANGED pc
    BY <2>1, <2>4 DEF GetOnce!Run, GetOnce!Finish, GetOnce!Panic, GetOnce!Pass
  <2>5. CASE /\ UNCHANGED << get, getting >>
             /\ \A d \in Calls : pc'[d] = "instruments" <=> pc[d] = "instruments"
    BY <2>1, <2>5
  <2> QED  BY <2>2, <2>3, <2>4, <2>5, GetPlaces
<1> QED  BY <1>1, <1>2 DEF PassingInv

LEMMA NobodyIsStuck ==
    ASSUME MetricsTyped, FlagsTypeOK, pc \in [Calls -> Locations], FlagsInv, PassingInv
    PROVE  NobodyWaitsInVain
<1> SUFFICES ASSUME NEW c \in Calls, pc[c] # "new", ~Over(c), ~CanGoOn(c)
             PROVE  \E d \in Calls : WaitsFor(c, d) /\ CanGoOn(d)
  BY DEF NobodyWaitsInVain
<1>1. pc[c] = "TRACING" => featureEnabledOnce = "done"
  BY DEF FlagsInv, Learned, Over
<1>2. CASE pc[c] = "METRICS"
  <2>1. asking[c] = "waiting" /\ featureEnabledOnce = "running"
    BY <1>2 DEF CanGoOn
  <2>2. PICK d \in Calls : asking[d] = "running" /\ pc[d] = "METRICS"
    BY <2>1 DEF PassingInv, Passing
  <2> QED  BY <1>2, <2>1, <2>2 DEF WaitsFor, CanGoOn
<1>3. CASE pc[c] = "instruments"
  <2>1. getting[c] = "waiting" /\ get = "running"
    BY <1>3 DEF CanGoOn
  <2>2. PICK d \in Calls : getting[d] = "running" /\ pc[d] = "instruments"
    BY <2>1 DEF PassingInv, Passing
  <2> QED  BY <1>3, <2>1, <2>2 DEF WaitsFor, CanGoOn
<1> QED  BY <1>1, <1>2, <1>3 DEF CanGoOn, Over, Locations

----------------------------------------------------------------------------
LEMMA InitIInv == Init => IInv
<1> SUFFICES ASSUME Init PROVE IInv
  OBVIOUS
<1>1. Unset \in STRING /\ "unset" \in STRING
  BY OptionsAssumption DEF Unset
<1>2. 0 \in 0 .. MaxChanges /\ 0 \in 0 .. MaxAttempts
  BY MetricsAssumption, ClientAssumption
<1>3. MetricsTyped /\ OnlyOneRuns(get, getting)
  <2>1. config \in [TelemetryFields -> STRING]
    <3>1. PICK list \in TelemetryOptions : config = ResolveAll(TelemetryFields, list)
      BY DEF Init, MetricsInit
    <3>2. list \in Seq([field : TelemetryFields, value : STRING])
      BY MetricsAssumption
    <3> QED  BY <3>1, <3>2, ResolveAllType
  <2>2. GetOnce!TypeOK /\ get = "new" /\ \A g \in Users : getting[g] = "out"
    BY DEF Init, MetricsInit, GetOnce!Init, GetOnce!TypeOK, GetOnce!Places
  <2>3. data = NoInstruments /\ attributes = 0
    BY DEF Init, MetricsInit
  <2> QED  BY <1>2, <2>1, <2>2, <2>3 DEF MetricsTyped, OnlyOneRuns
<1>4. FlagsTypeOK /\ OnlyOneRuns(featureEnabledOnce, asking) /\ featureEnabledOnce = "new"
  <2>1. FlagOnce!TypeOK /\ featureEnabledOnce = "new" /\ \A g \in Users : asking[g] = "out"
    BY ClientAssumption
    DEF Init, FlagsInit, FlagOnce!Init, FlagOnce!TypeOK, FlagOnce!Places
  <2>2. environ \in Environments /\ featureEnabledStore = {}
    BY DEF Init, FlagsInit
  <2>3. {} \in {{v.key : v \in S} : S \in UNION {SUBSET e : e \in Environments}}
    <3>1. {} \in UNION {SUBSET e : e \in Environments}
      BY <2>2
    <3>2. {} = {v.key : v \in {}}
      OBVIOUS
    <3> QED  BY <3>1, <3>2
  <2> QED  BY <2>1, <2>2, <2>3 DEF FlagsTypeOK, OnlyOneRuns
<1>5. Shapes
  <2>1. settings \in [Calls -> [CallFields -> STRING]]
    <3>1. << >> \in Seq([field : CallFields, value : STRING])
      OBVIOUS
    <3>2. ResolveAll(CallFields, << >>) \in [CallFields -> STRING]
      BY <3>1, ResolveAllType
    <3> QED  BY <3>2 DEF Init
  <2>2. NoMark \in Marks
    BY <1>2 DEF NoMark, Marks
  <2>3. td \in [Calls -> [server : Marks, status : Marks]]
    BY <2>2 DEF Init
  <2>4. ctx \in [Calls -> [rpc_method : STRING, resend_count : STRING,
                          td : Calls \cup {Nobody}]]
    BY <1>1 DEF Init
  <2>5. /\ backoff \in [Calls -> Backoffs] /\ attempt \in [Calls -> 0 .. MaxAttempts]
        /\ limits \in [Calls -> Seq(Durations)] /\ point \in [Calls -> Points]
    BY <1>2, ClientAssumption DEF Init, Points
  <2>6. /\ reached \in [Calls -> SUBSET Attempts] /\ responded \in [Calls -> SUBSET Attempts]
        /\ late \in [Calls -> SUBSET Attempts] /\ retryer \in [Calls -> Calls \cup {Nobody}]
        /\ opts \in [Calls -> CallOptions]
    BY DEF Init
  <2>7. flags \in [Calls -> [METRICS : BOOLEAN, TRACING : BOOLEAN]]
    BY DEF Init
  <2> QED
    BY <1>3, <2>1, <2>3, <2>4, <2>5, <2>6, <2>7 DEF MetricsTyped, Shapes
<1>6. Typed
  BY DEF Init, Typed, Locations
<1>7. FlagsInv
  BY <1>4 DEF Init, FlagsInv, Learned
<1>8. InstrumentsInv
  <2>1. get # "done"
    BY DEF Init, MetricsInit, GetOnce!Init
  <2>2. \A c \in Calls : point[c] = NoPoint
    BY DEF Init
  <2> QED  BY <1>3, <2>1, <2>2 DEF InstrumentsInv
<1>9. Begun
  BY DEF Init, Begun
<1>10. TelemetryInv
  <2>1. SUFFICES ASSUME NEW c \in Calls PROVE Told(c)
    BY DEF TelemetryInv
  <2>2. /\ td[c].server = NoMark /\ td[c].status = NoMark /\ ctx[c].td = Nobody
        /\ reached[c] = {} /\ responded[c] = {} /\ late[c] = {}
        /\ pc[c] = "new" /\ flags[c].METRICS = FALSE
        /\ point[c] = NoPoint /\ point[c].state = "none"
    BY DEF Init, NoPoint
  <2> QED  BY <2>2 DEF Told, OwnServer, OwnStatus
<1>11. EnvelopeInv
  BY DEF Init, EnvelopeInv, Follows, Resumes
<1> QED
  BY <1>3, <1>4, <1>5, <1>6, <1>7, <1>8, <1>9, <1>10, <1>11, TypeParts DEF IInv

LEMMA NextIInv == IInv /\ [Next]_clientVars => IInv'
<1> SUFFICES ASSUME IInv, [Next]_clientVars PROVE IInv'
  OBVIOUS
<1>1. /\ MetricsTyped /\ FlagsTypeOK /\ Typed /\ Shapes
      /\ FlagsInv /\ InstrumentsInv /\ Begun /\ TelemetryInv /\ EnvelopeInv
  BY TypeHas DEF IInv
<1>2. /\ pc \in [Calls -> Locations]
      /\ flags \in [Calls -> [METRICS : BOOLEAN, TRACING : BOOLEAN]]
      /\ point \in [Calls -> Points]
      /\ td \in [Calls -> [server : Marks, status : Marks]]
  BY <1>1 DEF Typed, Shapes
<1>3. Readable
  BY <1>1 DEF TelemetryInv, Told, Readable
<1>4. MetricsTyped'
  BY <1>1, MetricsTypeKeeps DEF InstrumentsInv
<1>5. FlagsTypeOK'
  BY <1>1, FlagsTypeKeeps DEF FlagsInv
<1>6. Typed' /\ Shapes'
  BY <1>1, <1>3, <1>4, NoneCanPanic, CallTypesKeep
<1>7. FlagsInv'
  BY <1>1, <1>2, FlagsInvKeeps
<1>8. InstrumentsInv'
  BY <1>1, <1>2, <1>3, InstrumentsInvKeeps
<1>9. Begun' /\ TelemetryInv' /\ EnvelopeInv'
  BY <1>1, BegunKeeps, TelemetryInvKeeps, EnvelopeInvKeeps
<1>10. TypeOK'
  BY <1>4, <1>5, <1>6 DEF MetricsTyped, Typed, Shapes, TypeOK
<1> QED  BY <1>6, <1>7, <1>8, <1>9, <1>10 DEF IInv

----------------------------------------------------------------------------
(* Every variable of the calls keeps its type, and a call never reaches the *)
(* telemetry data or the Retryer of another one (v2/invoke.go, invoke).     *)
THEOREM CallsAreTyped == Spec => []TypeOK
<1>1. IInv => TypeOK
  BY DEF IInv
<1> QED  BY <1>1, InitIInv, NextIInv, PTL DEF Spec

(* However the environment changes, the calls that run at a time have all   *)
(* been answered from one reading of it (v2/feature.go, IsFeatureEnabled).  *)
THEOREM OneReading == Spec => []FlagsOfOneEnvironment
<1>1. IInv => FlagsOfOneEnvironment
  <2> SUFFICES ASSUME IInv PROVE FlagsOfOneEnvironment
    OBVIOUS
  <2>1. FlagsInv /\ environ \in Environments
    BY DEF IInv, TypeOK, FlagsTypeOK
  <2>2. CASE featureEnabledOnce = "done"
    BY <2>1, <2>2 DEF FlagsInv, FlagsOfOneEnvironment, StoredFeature
  <2>3. CASE featureEnabledOnce # "done"
    BY <2>1, <2>3 DEF FlagsInv, FlagsOfOneEnvironment, Learned
  <2> QED  BY <2>2, <2>3
<1> QED  BY <1>1, InitIInv, NextIInv, PTL DEF Spec

(* The instruments of a client are made once, for all its data points      *)
(* (v2/telemetry.go, NewClientMetrics).                                    *)
THEOREM MadeOnce == Spec => []OneInstrument
<1>1. IInv => OneInstrument
  BY DEF IInv, InstrumentsInv, OneInstrument, Recorded, NoPoint
<1> QED  BY <1>1, InitIInv, NextIInv, PTL DEF Spec

(* A data point tells the server and the status of its own call, however   *)
(* many calls and late transports run (v2/telemetry.go,                    *)
(* TransportTelemetryData).                                                *)
THEOREM PointsAreOwn == Spec => []PointIsOwn
<1>1. IInv => PointIsOwn
  BY DEF IInv, TelemetryInv, Told, OwnServer, OwnStatus, PointIsOwn, Recorded
<1> QED  BY <1>1, InitIInv, NextIInv, PTL DEF Spec

(* The pauses of a call follow its own Backoff, whatever other calls do     *)
(* (v2/call_option.go, OnCodes and Pause).                                 *)
THEOREM EnvelopesAreOwn == Spec => []OwnEnvelope
<1>1. IInv => OwnEnvelope
  BY DEF IInv, EnvelopeInv, Follows, Given, OwnEnvelope
<1> QED  BY <1>1, InitIInv, NextIInv, PTL DEF Spec
----------------------------------------------------------------------------
(* The ranks of the places, in their order. *)
LEMMA RankValues ==
    ASSUME NEW where \in Locations, NEW asks, NEW gets, NEW tried \in 0 .. MaxAttempts
    PROVE  /\ RankAt(where, asks, gets, tried) \in Nat
           /\ Ahead(asks) \in 0 .. 2 /\ Ahead(gets) \in 0 .. 2
<1>1. MaxAttempts \in Nat
  BY ClientAssumption
<1>2. Ahead(asks) \in 0 .. 2 /\ Ahead(gets) \in 0 .. 2
  BY DEF Ahead
<1>3. MaxAttempts + 7 - tried \in Nat /\ 3 + Ahead(gets) \in Nat
      /\ MaxAttempts + 9 + Ahead(asks) \in Nat
  BY <1>1, <1>2
<1> QED  BY <1>1, <1>2, <1>3 DEF RankAt

(* A goroutine in a Once gets ahead in it. *)
LEMMA OnceAhead ==
    ASSUME NEW c \in Calls
    PROVE  /\ \/ FlagOnce!Run(c) \/ FlagOnce!Finish(c) \/ FlagOnce!Pass(c)
              => asking[c] # "out" /\ (asking \in [Calls -> FlagOnce!Places]
                    => /\ Ahead(asking'[c]) < Ahead(asking[c])
                       /\ \A d \in Calls \ {c} : asking'[d] = asking[d])
           /\ \/ GetOnce!Run(c) \/ GetOnce!Finish(c) \/ GetOnce!Panic(c) \/ GetOnce!Pass(c)
              => getting[c] # "out" /\ (getting \in [Calls -> GetOnce!Places]
                    => /\ Ahead(getting'[c]) < Ahead(getting[c])
                       /\ \A d \in Calls \ {c} : getting'[d] = getting[d])
BY DEF FlagOnce!Run, FlagOnce!Finish, FlagOnce!Pass, FlagOnce!Move,
       GetOnce!Run, GetOnce!Finish, GetOnce!Panic, GetOnce!Pass, GetOnce!Move, Ahead

(* A step of a call takes it forward and leaves the others where they are.  *)
LEMMA StepForward ==
    ASSUME MetricsTyped, FlagsTypeOK, Shapes, pc \in [Calls -> Locations], Begun,
           PassingInv, NEW c \in Calls, Call(c) \/ Advance(c)
    PROVE  /\ Rank(c)' < Rank(c)
           /\ \A d \in Calls \ {c} : Rank(d)' = Rank(d)
<1>1. /\ asking \in [Calls -> FlagOnce!Places] /\ getting \in [Calls -> GetOnce!Places]
      /\ attempt \in [Calls -> 0 .. MaxAttempts] /\ MaxAttempts \in Nat
      /\ asking[c] # "out" <=> pc[c] = "METRICS"
      /\ getting[c] # "out" <=> pc[c] = "instruments"
  BY ClientAssumption
  DEF FlagsTypeOK, FlagOnce!TypeOK, MetricsTyped, GetOnce!TypeOK, Shapes, Calls,
      PassingInv, Passing
<1>2. /\ \A asks : Ahead(asks) \in 0 .. 2
      /\ attempt[c] \in 0 .. MaxAttempts
  BY <1>1, RankValues DEF Ahead
<1> USE DEF Rank, RankAt, Goto
<1>3. CASE Call(c)
  BY <1>1, <1>2, <1>3 DEF Call, Start, AskFeature, FlagOnce!Call, FlagOnce!Move, metricsVars
<1>4. CASE LearnMETRICS(c)
  BY <1>1, <1>2, <1>4
  DEF LearnMETRICS, GetAnswer, FlagOnce!Leave, FlagOnce!Move, metricsVars
<1>5. CASE LearnTRACING(c)
  BY <1>1, <1>2, <1>5, ClientAssumption DEF LearnTRACING, metricsVars, flagVars
<1>6. CASE FlagStep(c)
  <2>1. /\ FlagOnce!Run(c) \/ FlagOnce!Finish(c) \/ FlagOnce!Pass(c)
        /\ UNCHANGED << pc, getting, attempt >>
    BY <1>6 DEF FlagStep, InFeatureOnce, ReadEnvironment, metricsVars, callVars
  <2>2. /\ pc[c] = "METRICS" /\ Ahead(asking'[c]) < Ahead(asking[c])
        /\ \A d \in Calls \ {c} : asking'[d] = asking[d]
    BY <1>1, <2>1, OnceAhead
  <2> QED  BY <1>1, <1>2, <2>1, <2>2
<1>7. CASE GetStep(c)
  <2>1. /\ GetOnce!Run(c) \/ GetOnce!Finish(c) \/ GetOnce!Panic(c) \/ GetOnce!Pass(c)
        /\ UNCHANGED << pc, asking, attempt >>
    BY <1>7 DEF GetStep, InGet, MakeInstruments, MakingPanics, flagVars, callVars
  <2>2. /\ pc[c] = "instruments" /\ Ahead(getting'[c]) < Ahead(getting[c])
        /\ \A d \in Calls \ {c} : getting'[d] = getting[d]
    BY <1>1, <2>1, OnceAhead
  <2> QED  BY <1>1, <1>2, <2>1, <2>2
<1>8. CASE Succeed(c) \/ FailForGood(c)
  BY <1>1, <1>2, <1>8 DEF Succeed, FailForGood, metricsVars, flagVars
<1>9. CASE FailAndPause(c)
  BY <1>1, <1>2, <1>9 DEF FailAndPause, metricsVars, flagVars
<1>10. CASE SkipMetric(c)
  BY <1>1, <1>2, <1>10 DEF SkipMetric, metricsVars, flagVars
<1>11. CASE GetInstruments(c)
  BY <1>1, <1>2, <1>11
  DEF GetInstruments, CallGet, GetOnce!Call, GetOnce!Move, metricsVars, flagVars
<1>12. CASE CheckInstruments(c)
  BY <1>1, <1>2, <1>12
  DEF CheckInstruments, LeaveGet, GetOnce!Leave, GetOnce!Move, metricsVars, flagVars
<1>13. CASE ReadTransport(c, "server", "status")
  BY <1>1, <1>2, <1>13 DEF ReadTransport, metricsVars, flagVars
<1>14. CASE ReadTransport(c, "status", "done")
  <2>1. /\ pc[c] = "status" /\ pc' = [pc EXCEPT ![c] = "done"]
        /\ UNCHANGED << asking, getting, attempt >>
    BY <1>14 DEF ReadTransport, metricsVars, flagVars
  <2>2. Rank(c) = 1 /\ Rank(c)' = 0
    BY <2>1
  <2>3. \A d \in Calls \ {c} : Rank(d)' = Rank(d)
    BY <2>1
  <2> QED  BY <2>2, <2>3
<1> QED
  BY <1>3, <1>4, <1>5, <1>6, <1>7, <1>8, <1>9, <1>10, <1>11, <1>12, <1>13, <1>14
  DEF Advance, FlagStep, GetStep

(* A late response and the rest of the program move no call. *)
LEMMA OtherStepsStay ==
    ASSUME [Next]_clientVars, ~ \E c \in Calls : Call(c) \/ Advance(c)
    PROVE  \A d \in Calls : Rank(d)' = Rank(d)
<1>1. CASE \E c \in Calls, a \in Attempts : LateResponse(c, a)
  BY <1>1 DEF LateResponse, metricsVars, flagVars, Rank
<1>2. CASE Environment \/ UNCHANGED clientVars
  BY <1>2
  DEF Environment, ChangeAttributes, Setenv, TestOnlyResetIsFeatureEnabled,
      clientVars, metricsVars, flagVars, callVars, Rank
<1> QED  BY <1>1, <1>2 DEF Next

LEMMA StepsForward ==
    ASSUME IInv, PassingInv, [Next]_clientVars
    PROVE  Forward
<1>1. MetricsTyped /\ FlagsTypeOK /\ Typed /\ Shapes /\ Begun /\ pc \in [Calls -> Locations]
  BY TypeHas DEF IInv, Typed
<1>2. \A c \in Calls : Rank(c) \in Nat
  <2> TAKE c \in Calls
  <2>1. pc[c] \in Locations /\ attempt[c] \in 0 .. MaxAttempts
    BY <1>1 DEF Shapes
  <2> QED  BY <2>1, RankValues DEF Rank
<1>3. \A c \in Calls :
         /\ Rank(c)' <= Rank(c)
         /\ Call(c) \/ Advance(c) => Rank(c)' < Rank(c)
  <2> TAKE c \in Calls
  <2>1. CASE Call(c) \/ Advance(c)
    <3>1. Rank(c)' < Rank(c)
      BY <1>1, <2>1, StepForward
    <3>2. Rank(c)' \in Nat
      <4>1. pc'[c] \in Locations /\ attempt'[c] \in 0 .. MaxAttempts
        <5>1. IInv'
          BY NextIInv
        <5> QED  BY <5>1 DEF IInv, TypeOK, Shapes
      <4> QED  BY <4>1, RankValues DEF Rank
    <3> QED  BY <1>2, <3>1, <3>2
  <2>2. CASE ~(Call(c) \/ Advance(c)) /\ \E d \in Calls : Call(d) \/ Advance(d)
    <3>1. PICK d \in Calls : Call(d) \/ Advance(d)
      BY <2>2
    <3>2. Rank(c)' = Rank(c)
      BY <1>1, <2>2, <3>1, StepForward
    <3> QED  BY <1>2, <2>2, <3>2
  <2>3. CASE ~ \E d \in Calls : Call(d) \/ Advance(d)
    <3>1. Rank(c)' = Rank(c)
      BY <2>3, OtherStepsStay
    <3> QED  BY <1>2, <2>3, <3>1
  <2> QED  BY <2>1, <2>2, <2>3
<1> QED  BY <1>2, <1>3 DEF Forward

(* A call that was begun can always go on or waits for one that can: when   *)
(* two calls need the flags or the instruments at once, the one that waits  *)
(* is never left waiting by one that is gone, a panic included              *)
(* (v2/feature.go, featureEnabledOnce; v2/telemetry.go, sync.OnceValue).    *)
THEOREM WaitingIsForSomebody == Spec => []NobodyWaitsInVain
<1>1. Init => PassingInv
  BY ClientAssumption
  DEF Init, MetricsInit, FlagsInit, GetOnce!Init, FlagOnce!Init, PassingInv, Passing, Calls
<1>2. IInv /\ PassingInv /\ [Next]_clientVars => PassingInv'
  BY TypeHas, PassingKeeps DEF IInv, Typed
<1>3. IInv /\ PassingInv => NobodyWaitsInVain
  BY TypeHas, NobodyIsStuck DEF IInv, Typed
<1> QED  BY <1>1, <1>2, <1>3, InitIInv, NextIInv, PTL DEF Spec

(* Every step of a call brings it nearer to its end, and no step of another *)
(* call, of a late transport or of the program takes it back: a call ends   *)
(* within MaxAttempts + 12 steps of its own (v2/invoke.go, invoke).         *)
THEOREM CallsGoForward == Spec => [][Forward]_clientVars
<1>1. Init => PassingInv
  BY ClientAssumption
  DEF Init, MetricsInit, FlagsInit, GetOnce!Init, FlagOnce!Init, PassingInv, Passing, Calls
<1>2. IInv /\ PassingInv /\ [Next]_clientVars => PassingInv'
  BY TypeHas, PassingKeeps DEF IInv, Typed
<1>3. IInv /\ PassingInv /\ [Next]_clientVars => [Forward]_clientVars
  BY StepsForward
<1> QED  BY <1>1, <1>2, <1>3, InitIInv, NextIInv, PTL DEF Spec
=============================================================================
