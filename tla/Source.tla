------------------------------- MODULE Source -------------------------------
(***************************************************************************)
(* What the adapters of the library read from, an io.Reader or an iterator *)
(* of a client library, as far as they rely on it: it holds items in order, *)
(* may fail at one place, for ever or for once, and ends.  The same        *)
(* specification, of what the user of an adapter sees, says that the       *)
(* adapter can stand for its source.                                       *)
(***************************************************************************)
EXTENDS Integers

VARIABLES length,      \* the items it holds
          fault,       \* the items before the place where it fails, or more than length
          transient,   \* it goes on after a failure
          pos,         \* items handed out
          told,        \* the error of the last read: "none", "EOF" or "failed"
          hit          \* it has failed

contentVars == << length, fault, transient >>
sourceVars == << contentVars, pos, told, hit >>

SourceTypeOK ==
    /\ length \in Nat /\ fault \in Nat /\ transient \in BOOLEAN
    /\ pos \in 0 .. length
    /\ told \in {"none", "EOF", "failed"}
    /\ hit \in BOOLEAN

SourceInit == pos = 0 /\ told = "none" /\ hit = FALSE

Passed == transient /\ hit

(* A read of up to k items, with an error at the end or at the fault: it    *)
(* may come with the last items or alone.  A read may also bring nothing.  *)
ReadUpTo(k) ==
    /\ \E n \in 0 .. k :
        /\ pos + n <= length
        /\ pos <= fault /\ fault < pos + n => pos = fault /\ Passed
        /\ pos' = pos + n
    /\ told' \in {"none"}
                 \cup (IF pos' = fault THEN {"failed"} ELSE {})
                 \cup (IF pos' = length /\ (pos' # fault \/ Passed) THEN {"EOF"} ELSE {})
    /\ hit' = (hit \/ told' = "failed")
    /\ UNCHANGED contentVars

SourceSpec == SourceInit /\ [][\E k \in 0 .. length : ReadUpTo(k)]_sourceVars
=============================================================================
