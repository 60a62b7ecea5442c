------------------------------ MODULE CallCtx ------------------------------
(***************************************************************************)
(* Headers kept in contexts (v2/callctx/callctx.go): SetHeaders derives a   *)
(* context with the headers of its parent and some more, and may run in    *)
(* several goroutines on one parent.                                        *)
(*                                                                         *)
(* A context holds a map from names to slices.  Slices point into arrays,   *)
(* and append writes to the array of its argument when that has room, so    *)
(* two contexts with a slice of one array could change each other's         *)
(* headers: this is why cloneHeaders copies, and why the model keeps the    *)
(* arrays.  A nil map and an empty one are not told apart, nor a name with  *)
(* no values and a missing one.  An odd number of arguments panics before   *)
(* anything is done and is left out.  What a context derived by             *)
(* SetHeaders inherits under other keys is its metadata (see Header).       *)
(***************************************************************************)
EXTENDS Integers, Sequences, FiniteSets

CONSTANTS
    Goroutines,
    Keys,           \* names of headers
    XGoog,          \* the name that Header treats apart
    Values,         \* values of headers
    Blank,          \* an unused element of an array
    Keyvals,        \* the argument lists: sequences of pairs of key and value
    MaxContexts     \* bound: the number of contexts ever made

Pairs == [key : Keys, value : Values]

ASSUME CallCtxAssumption ==
    /\ XGoog \in Keys
    /\ Blank \notin Values
    /\ Keyvals \subseteq Seq(Pairs)
    /\ MaxContexts \in Nat \ {0}

VARIABLES
    arrays,         \* the memory: arrays of values, each of a fixed length
    contexts,       \* the contexts made so far
    call            \* the SetHeaders each goroutine is in

vars == << arrays, contexts, call >>

Slices == [array : Nat \ {0}, len : Nat]
NilSlice == [array |-> 1, len |-> 0]    \* arrays[1] has no elements
NoHeaders == [k \in Keys |-> NilSlice]
NoMetadata == [k \in Keys |-> << >>]

Cap(slice) == Len(arrays[slice.array])
Elements(slice) == [j \in 1 .. slice.len |-> arrays[slice.array][j]]

Contexts == [headers : [Keys -> Slices], metadata : [Keys -> Seq(Seq(Values))]]

Idle == [running |-> FALSE, parent |-> 1, rest |-> << >>, todo |-> {},
         h |-> NoHeaders]
Calls == [running : BOOLEAN, parent : Nat, rest : Seq(Pairs),
          todo : SUBSET Keys, h : [Keys -> Slices]]

Init ==
    /\ arrays = << << >> >>
    /\ contexts = << [headers |-> NoHeaders, metadata |-> NoMetadata] >>
    /\ call = [g \in Goroutines |-> Idle]

Running == {g \in Goroutines : call[g].running}
HasRoom == Len(contexts) + Cardinality(Running) < MaxContexts

----------------------------------------------------------------------------
(* cloneHeaders, one name at a time in any order. *)

HeadersFromContext(i) == contexts[i].headers

(* Mutant: the value slices are reused, as the comment of cloneHeaders has it. *)
ClonedShared(slice) == [arrays |-> arrays, slice |-> slice]

(* Mutant: the elements are appended to the slice that make returned. *)
ClonedAppended(slice) ==
    [arrays |-> Append(arrays, [j \in 1 .. slice.len |-> Blank] \o Elements(slice)),
     slice  |-> [array |-> Len(arrays) + 1, len |-> 2 * slice.len]]

(* make and copy: an array of its own, with no room to spare. *)
Cloned(slice) ==
    [arrays |-> Append(arrays, Elements(slice)),
     slice  |-> [slice EXCEPT !.array = Len(arrays) + 1]]

Begin(g, i, keyvals) ==
    /\ ~call[g].running
    /\ HasRoom
    /\ call' = [call EXCEPT ![g] =
            [running |-> TRUE, parent |-> i, rest |-> keyvals,
             todo |-> {k \in Keys : HeadersFromContext(i)[k] # NilSlice},
             h |-> NoHeaders]]
    /\ UNCHANGED << arrays, contexts >>

CloneHeader(g, k) ==
    /\ k \in call[g].todo
    /\ LET clone == Cloned(HeadersFromContext(call[g].parent)[k])
       IN  /\ arrays' = clone.arrays
           /\ call' = [call EXCEPT ![g].todo = @ \ {k},
                                   ![g].h[k] = clone.slice]
    /\ UNCHANGED contexts

----------------------------------------------------------------------------
(* The loop over keyvals. *)

(* How append makes room (the Go runtime doubles small slices). *)
Grown(cap) == IF cap = 0 THEN 1 ELSE 2 * cap

Reallocated(slice, v) ==
    [j \in 1 .. Grown(Cap(slice)) |->
        IF j <= slice.len THEN arrays[slice.array][j]
        ELSE IF j = slice.len + 1 THEN v ELSE Blank]

AppendTo(slice, v) ==
    IF slice.len < Cap(slice)
    THEN [arrays |-> [arrays EXCEPT ![slice.array][slice.len + 1] = v],
          slice  |-> [slice EXCEPT !.len = @ + 1]]
    ELSE [arrays |-> Append(arrays, Reallocated(slice, v)),
          slice  |-> [array |-> Len(arrays) + 1, len |-> slice.len + 1]]

AppendValue(g) ==
    /\ call[g].running /\ call[g].todo = {} /\ call[g].rest # << >>
    /\ LET pair == Head(call[g].rest)
           longer == AppendTo(call[g].h[pair.key], pair.value)
       IN  /\ arrays' = longer.arrays
           /\ call' = [call EXCEPT ![g].rest = Tail(@),
                                   ![g].h[pair.key] = longer.slice]
    /\ UNCHANGED contexts

(* return context.WithValue(ctx, headerKey, h) *)
Return(g) ==
    /\ call[g].running /\ call[g].todo = {} /\ call[g].rest = << >>
    /\ contexts' = Append(contexts,
            [contexts[call[g].parent] EXCEPT !.headers = call[g].h])
    /\ call' = [call EXCEPT ![g] = Idle]
    /\ UNCHANGED arrays

SetHeadersStep(g) ==
    \/ \E i \in 1 .. Len(contexts), keyvals \in Keyvals : Begin(g, i, keyvals)
    \/ \E k \in Keys : CloneHeader(g, k)
    \/ AppendValue(g)
    \/ Return(g)

(* At the bound nothing is left to do. *)
Full == Len(contexts) = MaxContexts /\ UNCHANGED vars

----------------------------------------------------------------------------
(* A slice of values that have been written, in an array that exists. *)
WellFormed(slice) ==
    /\ slice \in Slices
    /\ slice.array <= Len(arrays)
    /\ slice.len <= Cap(slice)
    /\ \A j \in 1 .. slice.len : arrays[slice.array][j] \in Values

TypeOK ==
    /\ arrays \in Seq(Seq(Values \cup {Blank}))
    /\ contexts \in Seq(Contexts)
    /\ Len(contexts) \in 1 .. MaxContexts
    /\ call \in [Goroutines -> Calls]
    /\ \A g \in Goroutines : call[g].parent \in 1 .. Len(contexts)
    /\ \A i \in 1 .. Len(contexts), k \in Keys : WellFormed(contexts[i].headers[k])
    /\ \A g \in Goroutines, k \in Keys : WellFormed(call[g].h[k])

(* The slices a call is about to append to are its own: no context and no   *)
(* other call has a slice of the same array, so an append changes nothing   *)
(* that anyone else can see, and needs no lock (v2/callctx/callctx.go,      *)
(* cloneHeaders).                                                           *)
OwnArrays ==
    \A g \in Goroutines, k \in Keys :
        LET array == call[g].h[k].array
        IN  array # NilSlice.array =>
                /\ \A i \in 1 .. Len(contexts), l \in Keys :
                        contexts[i].headers[l].array # array
                /\ \A f \in Goroutines, l \in Keys :
                        call[f].h[l].array = array => f = g /\ l = k
=============================================================================
