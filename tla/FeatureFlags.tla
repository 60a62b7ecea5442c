---------------------------- MODULE FeatureFlags ----------------------------
(***************************************************************************)
(* Experimental features (v2/feature.go): the environment is read at the   *)
(* first question, whatever feature it is about, and never again, however  *)
(* it changes, unless a test resets the flags.  TestOnlyReset is not safe  *)
(* while another goroutine asks, and is modelled as tests use it.          *)
(***************************************************************************)
CONSTANTS Askers,        \* goroutines that ask for features
          Environments   \* what os.Environ() may return

(* A variable of the environment: its prefix, the rest of its name, and     *)
(* whether strings.ToLower makes its value "true".                         *)
FlagPrefixes == {"GOOGLE_SDK_GO_EXPERIMENTAL_", "GOOGLE_SDK_GO_", "other"}
EnvVars == [prefix : FlagPrefixes, key : STRING, true : BOOLEAN]

ASSUME FeatureFlagsAssumption ==
    \A env \in Environments : \A v \in env :
        v.prefix \in FlagPrefixes /\ v.true \in BOOLEAN

VARIABLES environ,              \* the environment of the process
          featureEnabledOnce,   \* a sync.Once
          asking,               \* where the askers are in it
          featureEnabledStore   \* the features that are on; nil is the same as none

flagVars == << environ, featureEnabledOnce, asking, featureEnabledStore >>

FlagOnce == INSTANCE Once WITH
    Goroutines <- Askers, once <- featureEnabledOnce, at <- asking

FlagsTypeOK ==
    /\ environ \in Environments
    /\ FlagOnce!TypeOK
    /\ featureEnabledStore \in {{v.key : v \in S} : S \in UNION {SUBSET e : e \in Environments}}

FlagsInit ==
    /\ environ \in Environments
    /\ FlagOnce!Init
    /\ featureEnabledStore = {}

(* The loop over the environment. *)
Enabled(env) == {v.key : v \in {u \in env : u.prefix # "other" /\ u.true}}

(* IsFeatureEnabled: the function given to Do, ... *)
ReadEnvironment(g) ==
    /\ FlagOnce!Finish(g)
    /\ featureEnabledStore' = Enabled(environ)
    /\ UNCHANGED environ

(* Mutant: what the environment says now. *)
UncachedFeature(name) == name \in Enabled(environ)

(* ... and the lookup after it. *)
StoredFeature(name) == name \in featureEnabledStore

AskFeature(g) == FlagOnce!Call(g) /\ UNCHANGED << environ, featureEnabledStore >>
GetAnswer(g) == FlagOnce!Leave(g) /\ UNCHANGED << environ, featureEnabledStore >>

InFeatureOnce(g) ==
    \/ ReadEnvironment(g)
    \/ /\ FlagOnce!Run(g) \/ FlagOnce!Pass(g)
       /\ UNCHANGED << environ, featureEnabledStore >>

TestOnlyResetIsFeatureEnabled ==
    /\ FlagOnce!Quiet
    /\ featureEnabledOnce' = "new"
    /\ featureEnabledStore' = {}
    /\ UNCHANGED << environ, asking >>

(* os.Setenv, by the program or by a test. *)
Setenv ==
    /\ environ' \in Environments \ {environ}
    /\ UNCHANGED << featureEnabledOnce, asking, featureEnabledStore >>
=============================================================================
