------------------------------- MODULE Header -------------------------------
(***************************************************************************)
(* The headers of a request (v2/header.go): those kept in the context by    *)
(* callctx, those in its gRPC metadata and those of the client are merged,  *)
(* into new metadata or into an http.Header.                                *)
(*                                                                         *)
(* A value that is sent is a sequence of words, joined by spaces.           *)
(* InsertMetadataIntoOutgoingContext is one step although it reads maps     *)
(* and slices other goroutines can reach: none of them ever changes         *)
(* (OwnArrays), and metadata.FromOutgoingContext returns a copy.            *)
(* BuildHeaders converts the same map into an http.Header and keeps no      *)
(* state.  An odd number of arguments panics before anything is done.       *)
(* Names are in lower case, as gRPC makes them.                             *)
(***************************************************************************)
EXTENDS CallCtx

VARIABLE inserted   \* history: the calls of InsertMetadataIntoOutgoingContext

headerVars == << vars, inserted >>

LOCAL INSTANCE Functions

(* The body of the loop over keyvals: state is what was merged so far. *)
AppendPair(state, pair) ==
    [out    |-> [state.out EXCEPT ![pair.key] = Append(@, << pair.value >>)],
     merged |-> IF pair.key = XGoog THEN Append(state.merged, pair.value)
                ELSE state.merged]

(* The headers of the context: those of XGoog are set aside. *)
WithContextHeaders(metadata, headers) ==
    [out    |-> [k \in Keys |->
                    IF k = XGoog THEN metadata[k]
                    ELSE metadata[k] \o [j \in 1 .. Len(headers[k]) |-> << headers[k][j] >>]],
     merged |-> headers[XGoog]]

Merging(metadata, headers, keyvals) ==
    LET state[n \in 0 .. Len(keyvals)] ==
            IF n = 0 THEN WithContextHeaders(metadata, headers)
            ELSE AppendPair(state[n - 1], keyvals[n])
    IN  state

insertMetadata(metadata, headers, keyvals) ==
    LET final == Merging(metadata, headers, keyvals)[Len(keyvals)]
    IN  IF final.merged = << >> THEN final.out
        ELSE [final.out EXCEPT ![XGoog] = << final.merged >>]

HeadersOf(i) == [k \in Keys |-> Elements(HeadersFromContext(i)[k])]

InsertMetadataIntoOutgoingContext(i, keyvals) ==
    /\ HasRoom
    /\ contexts' = Append(contexts, [contexts[i] EXCEPT
                        !.metadata = insertMetadata(@, HeadersOf(i), keyvals)])
    /\ inserted' = Append(inserted, [from |-> i, to |-> Len(contexts) + 1])
    /\ UNCHANGED << arrays, call >>

HeaderInit == Init /\ inserted = << >>

HeaderNext ==
    \/ \E g \in Goroutines : SetHeadersStep(g) /\ UNCHANGED inserted
    \/ \E i \in 1 .. Len(contexts), keyvals \in Keyvals :
            InsertMetadataIntoOutgoingContext(i, keyvals)
    \/ Full /\ UNCHANGED inserted

HeaderSpec == HeaderInit /\ [][HeaderNext]_headerVars

----------------------------------------------------------------------------
(* Contexts are values: SetHeaders and InsertMetadataIntoOutgoingContext,   *)
(* in any number of goroutines, only ever add a context with the right      *)
(* headers and metadata, and no context changes once it was made.           *)
Tree == INSTANCE ContextTree WITH
    tree <- [i \in 1 .. Len(contexts) |->
                [headers  |-> HeadersOf(i), metadata |-> contexts[i].metadata]]

ContextsAreValues == Tree!Spec

WordsOf(values) == UNION {Range(values[i]) : i \in 1 .. Len(values)}

(* InsertMetadataIntoOutgoingContext: "Existing values for keys will not be *)
(* overwritten, instead provided values will be appended to the list of     *)
(* existing values" (v2/header.go).                                         *)
ExistingValuesKept ==
    \A n \in 1 .. Len(inserted), k \in Keys :
        WordsOf(contexts[inserted[n].from].metadata[k])
            \subseteq WordsOf(contexts[inserted[n].to].metadata[k])
=============================================================================
