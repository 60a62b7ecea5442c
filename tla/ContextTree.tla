---------------------------- MODULE ContextTree ----------------------------
(***************************************************************************)
(* What a client may rely on when it keeps request headers in contexts: a  *)
(* context is a value.  Deriving one from another adds to a tree and       *)
(* changes nothing that was there before, whichever goroutine does it.     *)
(* CallCtx and Header implement this with maps and slices.                 *)
(***************************************************************************)
EXTENDS Integers, Sequences

CONSTANTS
    Keys,           \* names of headers
    XGoog,          \* the name that is sent as one single header
    Keyvals         \* the lists of pairs of a name and a value in use

VARIABLE tree       \* the contexts, in the order in which they were made

(* The values that the first n pairs of a list give to a name, in their order. *)
Given(k, keyvals) ==
    LET values[n \in 0 .. Len(keyvals)] ==
            IF n = 0 THEN << >>
            ELSE IF keyvals[n].key = k THEN Append(values[n - 1], keyvals[n].value)
            ELSE values[n - 1]
    IN  values

ValuesFor(k, keyvals) == Given(k, keyvals)[Len(keyvals)]

(* A value that is sent is a list of words; one that is set is one word.   *)
Sent(values) == [i \in 1 .. Len(values) |-> << values[i] >>]

Init == tree = << [headers  |-> [k \in Keys |-> << >>],
                   metadata |-> [k \in Keys |-> << >>]] >>

WithHeaders(ctx, keyvals) ==
    [ctx EXCEPT !.headers = [k \in Keys |-> @[k] \o ValuesFor(k, keyvals)]]

(* Every name is sent with what the metadata of the context, the headers    *)
(* of the context and the client give it, in this order; but of XGoog what  *)
(* the last two give is sent as one value, in the place of the first.       *)
WithMetadata(ctx, keyvals) ==
    LET given(k) == ctx.headers[k] \o ValuesFor(k, keyvals)
    IN  [ctx EXCEPT !.metadata =
            [k \in Keys |->
                IF k # XGoog THEN @[k] \o Sent(given(k))
                ELSE IF given(k) = << >> THEN @[k] ELSE << given(k) >>]]

SetHeaders(i, keyvals) == tree' = Append(tree, WithHeaders(tree[i], keyvals))
InsertMetadata(i, keyvals) == tree' = Append(tree, WithMetadata(tree[i], keyvals))

Next ==
    \E i \in 1 .. Len(tree), keyvals \in Keyvals :
        SetHeaders(i, keyvals) \/ InsertMetadata(i, keyvals)

Spec == Init /\ [][Next]_tree
=============================================================================
