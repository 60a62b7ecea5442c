----------------------------- MODULE MCAdapters -----------------------------
(* Small instances of ContentSniffer and of RangeAdapter for TLC: a source  *)
(* is used through one of them.                                            *)
EXTENDS ContentSniffer, RangeAdapter

CONSTANTS MaxLength

VARIABLE adapter

vars == << sourceVars, snifferVars, readerVars, rangeVars, adapter >>

Init ==
    /\ adapter \in {"sniffer", "range"}
    /\ length \in 0 .. MaxLength
    /\ fault \in 0 .. length + 1
    /\ transient \in (IF fault > length THEN {FALSE} ELSE BOOLEAN)
    /\ typer \in (IF adapter = "sniffer" THEN BOOLEAN ELSE {FALSE})
    /\ SourceInit
    /\ SnifferInit
    /\ RangeInit

ThroughSniffer ==
    /\ adapter = "sniffer"
    /\ Use \/ SnifferSteps
    /\ UNCHANGED << rangeVars, adapter >>

ThroughRange ==
    /\ adapter = "range"
    /\ RangeSteps
    /\ UNCHANGED << snifferVars, readerVars, adapter >>

StartRange ==
    /\ adapter = "range"
    /\ BeginRange
    /\ UNCHANGED << snifferVars, readerVars, adapter >>

Next == ThroughSniffer \/ ThroughRange \/ StartRange

(* A range that is going on is executed; nobody has to begin one. *)
Spec == Init /\ [][Next]_vars /\ WF_vars(ThroughRange)

TypeOK ==
    /\ SourceTypeOK
    /\ SnifferTypeOK
    /\ RangeTypeOK

(* NothingLost and ItemsOnceInOrder, of the adapter in use. *)
BufferedInOrder == adapter = "sniffer" => NothingLost
RangeInOrder == adapter = "range" => ItemsOnceInOrder
=============================================================================
