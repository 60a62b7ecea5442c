---------------------------- MODULE Header_proofs ----------------------------
(***************************************************************************)
(* Contexts and their headers, proved for any number of goroutines, names, *)
(* values and contexts, and any lists of pairs.                            *)
(***************************************************************************)
EXTENDS Header, SequenceTheorems, FiniteSetTheorems, WellFoundedInduction, TLAPS

----------------------------------------------------------------------------
(* The memory.  Slices and what they hold, said of any memory, so that the  *)
(* memories before and after a step can be compared.                        *)
Memory == Seq(Seq(Values \cup {Blank}))

Held(mem, slice) == [j \in 1 .. slice.len |-> mem[slice.array][j]]

Sliced(mem, slice) ==
    /\ slice \in Slices
    /\ slice.array <= Len(mem)
    /\ slice.len <= Len(mem[slice.array])
    /\ \A j \in 1 .. slice.len : mem[slice.array][j] \in Values

(* Every slice in mem that a write to the array a cannot reach is there in  *)
(* mem2, with the same elements.                                            *)
Keeps(mem, mem2, a) ==
    \A slice \in Slices :
        Sliced(mem, slice) /\ slice.array # a =>
            Sliced(mem2, slice) /\ Held(mem2, slice) = Held(mem, slice)

LEMMA MemoryTypes ==
    ASSUME NEW mem \in Memory
    PROVE  /\ Len(mem) \in Nat
           /\ \A a \in 1 .. Len(mem) : /\ mem[a] \in Seq(Values \cup {Blank})
                                       /\ Len(mem[a]) \in Nat
BY DEF Memory

(* A new array. *)
LEMMA NewArray ==
    ASSUME NEW mem \in Memory, NEW array \in Seq(Values \cup {Blank})
    PROVE  LET mem2 == Append(mem, array)
           IN  /\ mem2 \in Memory /\ Len(mem2) = Len(mem) + 1
               /\ mem2[Len(mem) + 1] = array
               /\ \A a \in 1 .. Len(mem) : mem2[a] = mem[a]
               /\ Keeps(mem, mem2, Len(mem) + 1)
<1> DEFINE mem2 == Append(mem, array)
<1>1. /\ mem2 \in Memory /\ Len(mem2) = Len(mem) + 1 /\ Len(mem) \in Nat
      /\ mem2[Len(mem) + 1] = array
      /\ \A a \in 1 .. Len(mem) : mem2[a] = mem[a]
  BY AppendProperties, MemoryTypes DEF Memory
<1> HIDE DEF mem2
<1>2. ASSUME NEW slice \in Slices, Sliced(mem, slice)
      PROVE  Sliced(mem2, slice) /\ Held(mem2, slice) = Held(mem, slice)
  <2>1. slice.array \in 1 .. Len(mem)
    BY <1>1, <1>2 DEF Sliced, Slices
  <2>2. mem2[slice.array] = mem[slice.array]
    BY <1>1, <2>1
  <2> QED  BY <1>1, <1>2, <2>1, <2>2 DEF Sliced, Held
<1> QED  BY <1>1, <1>2 DEF Keeps, mem2

(* A write in place. *)
Written(mem, a, j, v) == [mem EXCEPT ![a][j] = v]

LEMMA WriteInPlace ==
    ASSUME NEW mem \in Memory, NEW a \in 1 .. Len(mem), NEW j \in 1 .. Len(mem[a]),
           NEW v \in Values, NEW mem2, mem2 = Written(mem, a, j, v)
    PROVE  /\ mem2 \in Memory /\ Len(mem2) = Len(mem)
           /\ Len(mem2[a]) = Len(mem[a]) /\ mem2[a][j] = v
           /\ \A i \in 1 .. Len(mem[a]) : i # j => mem2[a][i] = mem[a][i]
           /\ \A b \in 1 .. Len(mem) : b # a => mem2[b] = mem[b]
           /\ Keeps(mem, mem2, a)
<1> DEFINE array == [mem[a] EXCEPT ![j] = v]
<1>1. mem[a] \in Seq(Values \cup {Blank})
  BY MemoryTypes
<1>2. /\ array \in Seq(Values \cup {Blank}) /\ Len(array) = Len(mem[a]) /\ array[j] = v
      /\ \A i \in 1 .. Len(mem[a]) : i # j => array[i] = mem[a][i]
  BY <1>1, ExceptSeq
<1>3. mem2 = [mem EXCEPT ![a] = array]
  BY DEF Written
<1> HIDE DEF array
<1>4. /\ mem2 \in Memory /\ Len(mem2) = Len(mem) /\ mem2[a] = array
      /\ \A b \in 1 .. Len(mem) : b # a => mem2[b] = mem[b]
  BY <1>2, <1>3, ExceptSeq DEF Memory
<1>5. ASSUME NEW slice \in Slices, Sliced(mem, slice), slice.array # a
      PROVE  Sliced(mem2, slice) /\ Held(mem2, slice) = Held(mem, slice)
  <2>1. slice.array \in 1 .. Len(mem)
    BY <1>5, MemoryTypes DEF Sliced, Slices
  <2>2. mem2[slice.array] = mem[slice.array]
    BY <1>4, <1>5, <2>1
  <2> QED  BY <1>4, <1>5, <2>1, <2>2 DEF Sliced, Held
<1> QED  BY <1>2, <1>4, <1>5 DEF Keeps

(* The elements of a slice are a sequence of values. *)
LEMMA HeldType ==
    ASSUME NEW mem \in Memory, NEW slice \in Slices, Sliced(mem, slice)
    PROVE  Held(mem, slice) \in Seq(Values) /\ Len(Held(mem, slice)) = slice.len
<1>1. slice.len \in Nat
  BY DEF Slices
<1> QED  BY <1>1 DEF Held, Sliced

(* What SetHeaders works with is a slice in the memory of the model. *)
LEMMA InTermsOfArrays ==
    /\ \A slice : WellFormed(slice) <=> Sliced(arrays, slice)
    /\ \A slice : Elements(slice) = Held(arrays, slice)
BY DEF WellFormed, Sliced, Elements, Held, Cap

(* cloneHeaders copies a slice to an array of its own. *)
LEMMA ClonedFacts ==
    ASSUME arrays \in Memory, NEW slice \in Slices, Sliced(arrays, slice)
    PROVE  LET c == Cloned(slice)
           IN  /\ c.arrays \in Memory /\ Len(c.arrays) = Len(arrays) + 1
               /\ \A a \in 1 .. Len(arrays) : c.arrays[a] = arrays[a]
               /\ Keeps(arrays, c.arrays, Len(arrays) + 1)
               /\ Sliced(c.arrays, c.slice) /\ c.slice.array = Len(arrays) + 1
               /\ Held(c.arrays, c.slice) = Held(arrays, slice)
<1> DEFINE held == Held(arrays, slice)
           mem2 == Append(arrays, held)
           s2 == [slice EXCEPT !.array = Len(arrays) + 1]
<1>1. held \in Seq(Values) /\ Len(held) = slice.len /\ slice.len \in Nat /\ Len(arrays) \in Nat
  BY HeldType, MemoryTypes DEF Slices
<1>2. held \in Seq(Values \cup {Blank})
  BY <1>1
<1>3. Cloned(slice) = [arrays |-> mem2, slice |-> s2]
  BY InTermsOfArrays DEF Cloned
<1>4. /\ mem2 \in Memory /\ Len(mem2) = Len(arrays) + 1
      /\ mem2[Len(arrays) + 1] = held
      /\ \A a \in 1 .. Len(arrays) : mem2[a] = arrays[a]
      /\ Keeps(arrays, mem2, Len(arrays) + 1)
  BY <1>2, NewArray
<1>5. s2 \in Slices /\ s2.array = Len(arrays) + 1 /\ s2.len = slice.len
  BY <1>1 DEF Slices
<1> HIDE DEF held, mem2, s2
<1>6. Sliced(mem2, s2)
  BY <1>1, <1>4, <1>5 DEF Sliced
<1>7. Held(mem2, s2) = held
  BY <1>1, <1>4, <1>5 DEF Held
<1> QED  BY <1>3, <1>4, <1>5, <1>6, <1>7 DEF held

(* append adds a value to a slice: in place when its array has room, else in *)
(* a copy.                                                                   *)
LEMMA AppendToFacts ==
    ASSUME arrays \in Memory, NEW slice \in Slices, Sliced(arrays, slice),
           NEW v \in Values
    PROVE  LET c == AppendTo(slice, v)
           IN  /\ c.arrays \in Memory
               /\ c.slice \in Slices /\ Sliced(c.arrays, c.slice)
               /\ Held(c.arrays, c.slice) = Append(Held(arrays, slice), v)
               /\ Keeps(arrays, c.arrays, c.slice.array)
               /\ Len(arrays) <= Len(c.arrays)
               /\ \/ /\ c.slice.array = slice.array
                     /\ slice.len < Len(arrays[slice.array])
                  \/ c.slice.array = Len(arrays) + 1
               /\ \A a \in 1 .. Len(arrays) : a # c.slice.array => c.arrays[a] = arrays[a]
<1> DEFINE c == AppendTo(slice, v)
           held == Held(arrays, slice)
<1>1. /\ held \in Seq(Values) /\ Len(held) = slice.len /\ slice.len \in Nat
      /\ Len(arrays) \in Nat /\ slice.array \in 1 .. Len(arrays)
  BY HeldType, MemoryTypes DEF Slices, Sliced
<1>2. /\ arrays[slice.array] \in Seq(Values \cup {Blank})
      /\ Len(arrays[slice.array]) \in Nat
  BY <1>1, MemoryTypes
<1>3. CASE slice.len < Cap(slice)
  <2> DEFINE mem2 == [arrays EXCEPT ![slice.array][slice.len + 1] = v]
             s2 == [slice EXCEPT !.len = @ + 1]
  <2>1. c.arrays = mem2 /\ c.slice = s2
    BY <1>3 DEF AppendTo
  <2>2. slice.len + 1 \in 1 .. Len(arrays[slice.array])
    BY <1>1, <1>2, <1>3 DEF Cap
  <2>3. /\ mem2 \in Memory /\ Len(mem2) = Len(arrays)
        /\ Len(mem2[slice.array]) = Len(arrays[slice.array])
        /\ mem2[slice.array][slice.len + 1] = v
        /\ \A i \in 1 .. Len(arrays[slice.array]) : i # slice.len + 1 =>
               mem2[slice.array][i] = arrays[slice.array][i]
        /\ \A b \in 1 .. Len(arrays) : b # slice.array => mem2[b] = arrays[b]
        /\ Keeps(arrays, mem2, slice.array)
    <3> DEFINE a == slice.array
               j == slice.len + 1
    <3>1. /\ arrays \in Memory /\ a \in 1 .. Len(arrays) /\ j \in 1 .. Len(arrays[a])
          /\ v \in Values /\ mem2 = Written(arrays, a, j, v)
      BY <1>1, <2>2 DEF Written
    <3> HIDE DEF a, j, mem2
    <3>2. /\ mem2 \in Memory /\ Len(mem2) = Len(arrays)
          /\ Len(mem2[a]) = Len(arrays[a]) /\ mem2[a][j] = v
          /\ \A i \in 1 .. Len(arrays[a]) : i # j => mem2[a][i] = arrays[a][i]
          /\ \A b \in 1 .. Len(arrays) : b # a => mem2[b] = arrays[b]
          /\ Keeps(arrays, mem2, a)
      BY <3>1, WriteInPlace
    <3> QED  BY <3>2 DEF a, j
  <2>4. s2 \in Slices /\ s2.array = slice.array /\ s2.len = slice.len + 1
    BY <1>1 DEF Slices
  <2> HIDE DEF c, mem2, s2
  <2>5. Sliced(mem2, s2)
    <3>1. \A i \in 1 .. slice.len : arrays[slice.array][i] \in Values
      BY DEF Sliced
    <3>2. \A i \in 1 .. slice.len : mem2[slice.array][i] \in Values
      <4> TAKE i \in 1 .. slice.len
      <4>1. i \in 1 .. Len(arrays[slice.array]) /\ i # slice.len + 1
        BY <1>1, <1>2, <2>2
      <4>2. mem2[slice.array][i] = arrays[slice.array][i]
        BY <2>3, <4>1
      <4> QED  BY <3>1, <4>2
    <3>3. \A i \in 1 .. slice.len + 1 : mem2[slice.array][i] \in Values
      <4>1. \A i \in 1 .. slice.len + 1 : i \in 1 .. slice.len \/ i = slice.len + 1
        BY <1>1
      <4>2. mem2[slice.array][slice.len + 1] \in Values
        BY <2>3
      <4> QED  BY <3>2, <4>1, <4>2
    <3>4. s2.array <= Len(mem2) /\ s2.len <= Len(mem2[s2.array])
      BY <1>1, <1>2, <2>2, <2>3, <2>4
    <3> QED  BY <2>4, <3>3, <3>4 DEF Sliced
  <2>6. Held(mem2, s2) = Append(held, v)
    <3>1. /\ Append(held, v) \in Seq(Values) /\ Len(Append(held, v)) = slice.len + 1
          /\ Append(held, v)[slice.len + 1] = v
          /\ \A i \in 1 .. slice.len : Append(held, v)[i] = held[i]
      BY <1>1, AppendProperties
    <3>2. \A i \in 1 .. slice.len : held[i] = mem2[slice.array][i]
      <4> TAKE i \in 1 .. slice.len
      <4>1. held[i] = arrays[slice.array][i]
        BY DEF Held
      <4>2. i \in 1 .. Len(arrays[slice.array]) /\ i # slice.len + 1
        BY <1>1, <1>2, <2>2
      <4> QED  BY <2>3, <4>1, <4>2
    <3>3. /\ Held(mem2, s2) \in Seq(Values) /\ Len(Held(mem2, s2)) = slice.len + 1
          /\ \A i \in 1 .. slice.len + 1 : Held(mem2, s2)[i] = mem2[slice.array][i]
      BY <2>3, <2>4, <2>5, HeldType DEF Held
    <3>4. \A i \in 1 .. slice.len + 1 : Held(mem2, s2)[i] = Append(held, v)[i]
      BY <1>1, <2>3, <3>1, <3>2, <3>3
    <3> HIDE DEF held
    <3> QED  BY <1>1, <3>1, <3>3, <3>4, SeqEqual
  <2> QED  BY <1>1, <1>3, <2>1, <2>3, <2>4, <2>5, <2>6 DEF c, held, Cap
<1>4. CASE ~(slice.len < Cap(slice))
  <2> DEFINE array == Reallocated(slice, v)
             mem2 == Append(arrays, array)
             s2 == [array |-> Len(arrays) + 1, len |-> slice.len + 1]
  <2>1. c.arrays = mem2 /\ c.slice = s2
    BY <1>4 DEF AppendTo
  <2>2. slice.len = Cap(slice) /\ Cap(slice) \in Nat
    BY <1>1, <1>2, <1>4 DEF Cap, Sliced
  <2>3. Grown(Cap(slice)) \in Nat /\ slice.len + 1 <= Grown(Cap(slice))
    BY <1>1, <2>2 DEF Grown
  <2>4. /\ array \in Seq(Values \cup {Blank}) /\ Len(array) = Grown(Cap(slice))
        /\ array[slice.len + 1] = v
        /\ \A i \in 1 .. slice.len : array[i] = held[i] /\ array[i] \in Values
    <3> DEFINE n == Grown(Cap(slice))
               Item(j) == IF j <= slice.len THEN arrays[slice.array][j]
                          ELSE IF j = slice.len + 1 THEN v ELSE Blank
    <3>1. array = [j \in 1 .. n |-> Item(j)]
      BY DEF Reallocated
    <3>2. n \in Nat /\ slice.len \in Nat /\ slice.len + 1 \in 1 .. n
      BY <1>1, <2>3
    <3>3. \A j \in 1 .. slice.len : Item(j) = held[j] /\ Item(j) \in Values
      BY <3>2 DEF Sliced, Held
    <3>4. Item(slice.len + 1) = v
      BY <3>2
    <3>5. \A j \in 1 .. n : Item(j) \in Values \cup {Blank}
      <4> TAKE j \in 1 .. n
      <4>1. CASE j \in 1 .. slice.len
        BY <3>3, <4>1
      <4>2. CASE ~(j <= slice.len)
        BY <4>2
      <4> QED  BY <3>2, <4>1, <4>2
    <3> HIDE DEF Item, n, array, held
    <3>6. array \in Seq(Values \cup {Blank}) /\ Len(array) = n
      BY <3>1, <3>2, <3>5
    <3>7. \A j \in 1 .. n : array[j] = Item(j)
      BY <3>1
    <3>8. \A j \in 1 .. slice.len : j \in 1 .. n
      BY <3>2
    <3> QED  BY <3>2, <3>3, <3>4, <3>6, <3>7, <3>8 DEF n
  <2> HIDE DEF c, array
  <2>5. /\ mem2 \in Memory /\ Len(mem2) = Len(arrays) + 1
        /\ mem2[Len(arrays) + 1] = array
        /\ \A b \in 1 .. Len(arrays) : mem2[b] = arrays[b]
        /\ Keeps(arrays, mem2, Len(arrays) + 1)
    BY <2>4, NewArray
  <2>6. s2 \in Slices /\ s2.array = Len(arrays) + 1 /\ s2.len = slice.len + 1
    BY <1>1 DEF Slices
  <2> HIDE DEF mem2, s2
  <2>7. Sliced(mem2, s2)
    <3>1. \A i \in 1 .. slice.len + 1 : array[i] \in Values
      BY <1>1, <2>4
    <3> QED  BY <1>1, <2>3, <2>4, <2>5, <2>6, <3>1 DEF Sliced
  <2>8. Held(mem2, s2) = Append(held, v)
    <3>1. /\ Append(held, v) \in Seq(Values) /\ Len(Append(held, v)) = slice.len + 1
          /\ Append(held, v)[slice.len + 1] = v
          /\ \A i \in 1 .. slice.len : Append(held, v)[i] = held[i]
      BY <1>1, AppendProperties
    <3>2. /\ Held(mem2, s2) \in Seq(Values) /\ Len(Held(mem2, s2)) = slice.len + 1
          /\ \A i \in 1 .. slice.len + 1 : Held(mem2, s2)[i] = array[i]
      BY <2>5, <2>6, <2>7, HeldType DEF Held
    <3>3. \A i \in 1 .. slice.len + 1 : Held(mem2, s2)[i] = Append(held, v)[i]
      BY <1>1, <2>4, <3>1, <3>2
    <3> HIDE DEF held
    <3> QED  BY <1>1, <3>1, <3>2, <3>3, SeqEqual
  <2> QED  BY <1>1, <2>1, <2>5, <2>6, <2>7, <2>8 DEF c, held
<1> QED  BY <1>3, <1>4

----------------------------------------------------------------------------
(* Loops.  What the first n turns of a loop over a list do is defined by     *)
(* recursion on n, and proved by induction: of a set of turns with the first *)
(* one and, with every turn, the next.                                       *)
LEMMA TurnInduction ==
    ASSUME NEW N \in Nat, NEW S \in SUBSET (0 .. N), 0 \in S,
           \A n \in 1 .. N : n - 1 \in S => n \in S
    PROVE  \A n \in 0 .. N : n \in S
<1>1. SUFFICES ASSUME NEW n \in 0 .. N, n \notin S
               PROVE  FALSE
  OBVIOUS
<1> DEFINE rest == (0 .. N) \ S
<1>2. rest \subseteq Nat /\ rest # {}
  BY <1>1
<1>3. PICK i \in rest : \A j \in rest : << j, i >> \notin OpToRel(<, Nat)
  <2> HIDE DEF rest
  <2> QED  BY <1>2, WFMin, NatLessThanWellFounded
<1>4. i \in 1 .. N /\ i - 1 \in Nat /\ i - 1 < i /\ i \in Nat
  OBVIOUS
<1>5. CASE i - 1 \in rest
  <2>1. << i - 1, i >> \in OpToRel(<, Nat)
    BY <1>4, Zenon DEF OpToRel
  <2> QED  BY <1>3, <1>5, <2>1, Zenon
<1>6. CASE i - 1 \notin rest
  BY <1>4, <1>6
<1> QED  BY <1>5, <1>6

(* The function a recursion over turns defines exists and has its type. *)
Turns(N, S) == [(1 .. N) \X S -> S]

IsLoop(f, N, base, step) ==
    f[0] = base /\ \A n \in 1 .. N : f[n] = step[<< n, f[n - 1] >>]

LEMMA LoopExists ==
    ASSUME NEW N \in Nat, NEW S, NEW base \in S, NEW step \in Turns(N, S)
    PROVE  \E f \in [0 .. N -> S] : IsLoop(f, N, base, step)
<1> DEFINE Loop(f, m) == \A n \in 0 .. m :
               f[n] = IF n = 0 THEN base ELSE step[<< n, f[n - 1] >>]
           done == {m \in 0 .. N : \E f \in [0 .. m -> S] : Loop(f, m)}
<1>1. 0 \in done
  <2> DEFINE f == [n \in 0 .. 0 |-> base]
  <2>1. f \in [0 .. 0 -> S] /\ Loop(f, 0)
    OBVIOUS
  <2>2. \E h \in [0 .. 0 -> S] : Loop(h, 0)
    <3> HIDE DEF f, Loop
    <3> QED  BY <2>1
  <2> QED  BY <2>2
<1>2. ASSUME NEW m \in 1 .. N, m - 1 \in done
      PROVE  m \in done
  <2>1. PICK f \in [0 .. m - 1 -> S] : Loop(f, m - 1)
    BY <1>2
  <2> DEFINE last == step[<< m, f[m - 1] >>]
             g == [n \in 0 .. m |-> IF n < m THEN f[n] ELSE last]
  <2>2. f[m - 1] \in S
    OBVIOUS
  <2>3. last \in S
    BY <2>2 DEF Turns
  <2>4. g \in [0 .. m -> S]
    BY <2>3
  <2>5. ASSUME NEW n \in 0 .. m
        PROVE  g[n] = IF n = 0 THEN base ELSE step[<< n, g[n - 1] >>]
    <3>1. CASE n < m
      <4>1. n \in 0 .. m - 1 /\ g[n] = f[n]
        BY <3>1
      <4>2. n # 0 => g[n - 1] = f[n - 1]
        BY <3>1
      <4> QED  BY <2>1, <4>1, <4>2
    <3>2. CASE n = m
      <4>1. g[n] = last /\ g[n - 1] = f[m - 1] /\ n # 0
        BY <3>2
      <4> QED  BY <3>2, <4>1
    <3>3. n < m \/ n = m
      OBVIOUS
    <3> HIDE DEF g
    <3> QED  BY <3>1, <3>2, <3>3
  <2>6. Loop(g, m)
    BY <2>5
  <2>7. \E h \in [0 .. m -> S] : Loop(h, m)
    <3> HIDE DEF g, Loop
    <3> QED  BY <2>4, <2>6
  <2> QED  BY <2>7
<1>3. N \in done
  <2> HIDE DEF done
  <2>1. done \in SUBSET (0 .. N)
    BY DEF done
  <2> QED  BY <1>1, <1>2, <2>1, TurnInduction
<1>4. PICK f \in [0 .. N -> S] : Loop(f, N)
  BY <1>3
<1>5. f[0] = base
  <2>1. 0 \in 0 .. N
    OBVIOUS
  <2> QED  BY <1>4, <2>1
<1>6. \A n \in 1 .. N : f[n] = step[<< n, f[n - 1] >>]
  <2> TAKE n \in 1 .. N
  <2>1. n \in 0 .. N /\ n # 0
    OBVIOUS
  <2> QED  BY <1>4, <2>1
<1> QED  BY <1>5, <1>6 DEF IsLoop

(* What the pairs of a list give to a name. *)
LEMMA GivenFacts ==
    ASSUME NEW k \in Keys, NEW keyvals \in Seq(Pairs)
    PROVE  /\ Tree!Given(k, keyvals) \in [0 .. Len(keyvals) -> Seq(Values)]
           /\ Tree!Given(k, keyvals)[0] = << >>
           /\ \A n \in 1 .. Len(keyvals) :
                  Tree!Given(k, keyvals)[n] =
                      IF keyvals[n].key = k
                      THEN Append(Tree!Given(k, keyvals)[n - 1], keyvals[n].value)
                      ELSE Tree!Given(k, keyvals)[n - 1]
<1> DEFINE N == Len(keyvals)
           Turn(n, before) == IF keyvals[n].key = k THEN Append(before, keyvals[n].value)
                              ELSE before
           step == [t \in (1 .. N) \X Seq(Values) |-> Turn(t[1], t[2])]
<1>1. N \in Nat /\ \A n \in 1 .. N : keyvals[n] \in Pairs
  OBVIOUS
<1>2. \A n \in 1 .. N, before \in Seq(Values) : Turn(n, before) \in Seq(Values)
  BY <1>1 DEF Pairs
<1> HIDE DEF Turn
<1>3. step \in Turns(N, Seq(Values))
  BY <1>2 DEF Turns
<1>4. << >> \in Seq(Values)
  OBVIOUS
<1>5. \A n \in 1 .. N, before \in Seq(Values) : step[<< n, before >>] = Turn(n, before)
  OBVIOUS
<1> HIDE DEF N, step
<1>6. PICK f \in [0 .. N -> Seq(Values)] : IsLoop(f, N, << >>, step)
  <2> DEFINE S == Seq(Values)
             base == << >>
  <2>1. N \in Nat /\ base \in S /\ step \in Turns(N, S)
    BY <1>1, <1>3, <1>4
  <2> HIDE DEF S, base
  <2>2. \E f \in [0 .. N -> S] : IsLoop(f, N, base, step)
    BY <2>1, LoopExists
  <2> QED  BY <2>2 DEF S, base
<1>7. \A n \in 1 .. N : f[n] = Turn(n, f[n - 1])
  <2> TAKE n \in 1 .. N
  <2>1. n \in 0 .. N /\ n # 0 /\ n - 1 \in 0 .. N
    BY <1>1
  <2>2. f[n - 1] \in Seq(Values)
    BY <2>1
  <2>3. f[n] = step[<< n, f[n - 1] >>]
    BY <1>6 DEF IsLoop
  <2> QED  BY <1>5, <2>2, <2>3
<1>8. f[0] = << >>
  BY <1>6, Zenon DEF IsLoop
<1> DEFINE Defined(given) ==
        given = [n \in 0 .. N |-> IF n = 0 THEN << >> ELSE Turn(n, given[n - 1])]
<1>9. Defined(f)
  <2>1. \A n \in 0 .. N : f[n] = IF n = 0 THEN << >> ELSE Turn(n, f[n - 1])
    BY <1>1, <1>7, <1>8
  <2> QED  BY <2>1
<1>10. Tree!Given(k, keyvals) = CHOOSE given : Defined(given)
  BY DEF Tree!Given, N, Turn
<1>11. Defined(Tree!Given(k, keyvals))
  <2> HIDE DEF Defined
  <2> QED  BY <1>9, <1>10
<1>12. Tree!Given(k, keyvals) = f
  <2> DEFINE g == Tree!Given(k, keyvals)
             same == {n \in 0 .. N : g[n] = f[n]}
  <2>1. DOMAIN g = 0 .. N /\ g = [n \in 0 .. N |-> g[n]] /\ g[0] = << >>
    BY <1>1, <1>11
  <2>2. \A n \in 1 .. N : g[n] = Turn(n, g[n - 1])
    <3> TAKE n \in 1 .. N
    <3>1. n \in 0 .. N /\ n # 0
      BY <1>1
    <3> QED  BY <1>11, <3>1
  <2> HIDE DEF g
  <2>3. 0 \in same
    BY <1>1, <1>8, <2>1
  <2>4. ASSUME NEW n \in 1 .. N, n - 1 \in same
        PROVE  n \in same
    BY <1>1, <1>7, <2>2, <2>4
  <2>5. same \in SUBSET (0 .. N)
    OBVIOUS
  <2>6. \A n \in 0 .. N : n \in same
    <3> HIDE DEF same
    <3> QED  BY <1>1, <2>3, <2>4, <2>5, TurnInduction
  <2> QED  BY <2>1, <2>6 DEF g
<1> QED  BY <1>7, <1>8, <1>12 DEF N, Turn

(* What the loop over keyvals has merged after any number of pairs. *)
States == [out : [Keys -> Seq(Seq(Values))], merged : Seq(Values)]

LEMMA AppendPairType ==
    ASSUME NEW state \in States, NEW pair \in Pairs
    PROVE  AppendPair(state, pair) \in States
<1>1. /\ state.out \in [Keys -> Seq(Seq(Values))] /\ state.merged \in Seq(Values)
      /\ pair.key \in Keys /\ pair.value \in Values
  BY DEF States, Pairs
<1>2. << pair.value >> \in Seq(Values)
  BY <1>1
<1>3. Append(state.out[pair.key], << pair.value >>) \in Seq(Seq(Values))
  BY <1>1, <1>2
<1>4. Append(state.merged, pair.value) \in Seq(Values)
  BY <1>1
<1>5. AppendPair(state, pair).out \in [Keys -> Seq(Seq(Values))]
  BY <1>1, <1>3 DEF AppendPair
<1>6. AppendPair(state, pair).merged \in Seq(Values)
  BY <1>1, <1>4 DEF AppendPair
<1>7. AppendPair(state, pair) = [out |-> AppendPair(state, pair).out,
                                 merged |-> AppendPair(state, pair).merged]
  BY DEF AppendPair
<1> HIDE DEF AppendPair
<1> QED  BY <1>5, <1>6, <1>7 DEF States

LEMMA ContextHeadersType ==
    ASSUME NEW metadata \in [Keys -> Seq(Seq(Values))], NEW headers \in [Keys -> Seq(Values)]
    PROVE  WithContextHeaders(metadata, headers) \in States
<1>1. XGoog \in Keys
  BY CallCtxAssumption
<1>2. ASSUME NEW k \in Keys
      PROVE  [j \in 1 .. Len(headers[k]) |-> << headers[k][j] >>] \in Seq(Seq(Values))
  <2>1. headers[k] \in Seq(Values) /\ Len(headers[k]) \in Nat
    OBVIOUS
  <2>2. \A j \in 1 .. Len(headers[k]) : << headers[k][j] >> \in Seq(Values)
    BY <2>1
  <2> QED  BY <2>1, <2>2
<1>3. ASSUME NEW k \in Keys
      PROVE  metadata[k] \o [j \in 1 .. Len(headers[k]) |-> << headers[k][j] >>]
                 \in Seq(Seq(Values))
  <2> DEFINE sent == [j \in 1 .. Len(headers[k]) |-> << headers[k][j] >>]
  <2>1. metadata[k] \in Seq(Seq(Values)) /\ sent \in Seq(Seq(Values))
    BY <1>2
  <2> HIDE DEF sent
  <2>2. metadata[k] \o sent \in Seq(Seq(Values))
    BY <2>1
  <2> QED  BY <2>2 DEF sent
<1>4. [k \in Keys |->
          IF k = XGoog THEN metadata[k]
          ELSE metadata[k] \o [j \in 1 .. Len(headers[k]) |-> << headers[k][j] >>]]
      \in [Keys -> Seq(Seq(Values))]
  BY <1>3
<1> QED  BY <1>1, <1>4 DEF WithContextHeaders, States

LEMMA MergingFacts ==
    ASSUME NEW metadata \in [Keys -> Seq(Seq(Values))], NEW headers \in [Keys -> Seq(Values)],
           NEW keyvals \in Seq(Pairs)
    PROVE  /\ Merging(metadata, headers, keyvals) \in [0 .. Len(keyvals) -> States]
           /\ Merging(metadata, headers, keyvals)[0] = WithContextHeaders(metadata, headers)
           /\ \A n \in 1 .. Len(keyvals) :
                  Merging(metadata, headers, keyvals)[n] =
                      AppendPair(Merging(metadata, headers, keyvals)[n - 1], keyvals[n])
<1> DEFINE N == Len(keyvals)
           base == WithContextHeaders(metadata, headers)
           Turn(n, before) == AppendPair(before, keyvals[n])
           step == [t \in (1 .. N) \X States |-> Turn(t[1], t[2])]
<1>1. N \in Nat /\ \A n \in 1 .. N : keyvals[n] \in Pairs
  OBVIOUS
<1>2. \A n \in 1 .. N, before \in States : Turn(n, before) \in States
  BY <1>1, AppendPairType
<1> HIDE DEF Turn
<1>3. step \in Turns(N, States)
  BY <1>2 DEF Turns
<1>4. base \in States
  BY ContextHeadersType
<1>5. \A n \in 1 .. N, before \in States : step[<< n, before >>] = Turn(n, before)
  OBVIOUS
<1> HIDE DEF N, step, base
<1>6. PICK f \in [0 .. N -> States] : IsLoop(f, N, base, step)
  BY <1>1, <1>3, <1>4, LoopExists
<1>7. \A n \in 1 .. N : f[n] = Turn(n, f[n - 1])
  <2> TAKE n \in 1 .. N
  <2>1. n \in 0 .. N /\ n # 0 /\ n - 1 \in 0 .. N
    BY <1>1
  <2>2. f[n - 1] \in States
    BY <2>1
  <2>3. f[n] = step[<< n, f[n - 1] >>]
    BY <1>6 DEF IsLoop
  <2> QED  BY <1>5, <2>2, <2>3
<1>8. f[0] = base
  BY <1>6, Zenon DEF IsLoop
<1> DEFINE Defined(state) ==
        state = [n \in 0 .. N |-> IF n = 0 THEN base ELSE Turn(n, state[n - 1])]
<1>9. Defined(f)
  <2>1. \A n \in 0 .. N : f[n] = IF n = 0 THEN base ELSE Turn(n, f[n - 1])
    BY <1>1, <1>7, <1>8
  <2> QED  BY <2>1
<1> DEFINE g == Merging(metadata, headers, keyvals)
<1>10. g = CHOOSE state : Defined(state)
  BY DEF Merging, N, Turn, base
<1> HIDE DEF g
<1>11. Defined(g)
  <2> HIDE DEF Defined
  <2> QED  BY <1>9, <1>10
<1>12. g = f
  <2> DEFINE same == {n \in 0 .. N : g[n] = f[n]}
  <2>1. DOMAIN g = 0 .. N /\ g = [n \in 0 .. N |-> g[n]] /\ g[0] = base
    BY <1>1, <1>11
  <2>2. \A n \in 1 .. N : g[n] = Turn(n, g[n - 1])
    <3> TAKE n \in 1 .. N
    <3>1. n \in 0 .. N /\ n # 0
      BY <1>1
    <3> QED  BY <1>11, <3>1
  <2>3. 0 \in same
    BY <1>1, <1>8, <2>1
  <2>4. ASSUME NEW n \in 1 .. N, n - 1 \in same
        PROVE  n \in same
    BY <1>1, <1>7, <2>2, <2>4
  <2>5. same \in SUBSET (0 .. N)
    OBVIOUS
  <2>6. \A n \in 0 .. N : n \in same
    <3> HIDE DEF same
    <3> QED  BY <1>1, <2>3, <2>4, <2>5, TurnInduction
  <2> QED  BY <2>1, <2>6
<1> QED  BY <1>7, <1>8, <1>12 DEF N, Turn, base, g

(* Appending to the second of two sequences, and joining three.  Longer and  *)
(* Joined hide Append and \o, which the provers do not match in a cited fact. *)
Longer(s, e) == Append(s, e)

LEMMA AppendConcat ==
    ASSUME NEW S, NEW s \in Seq(S), NEW t \in Seq(S), NEW e \in S
    PROVE  Longer(s \o t, e) = s \o Longer(t, e)
<1>1. << e >> \in Seq(S) /\ s \o t \in Seq(S)
  OBVIOUS
<1>2. Longer(s \o t, e) = (s \o t) \o << e >>
  BY <1>1, AppendIsConcat DEF Longer
<1>3. Longer(t, e) = t \o << e >>
  BY AppendIsConcat DEF Longer
<1> DEFINE last == << e >>
<1> HIDE DEF last
<1>4. (s \o t) \o last = s \o (t \o last)
  BY <1>1, ConcatAssociative DEF last
<1> QED  BY <1>2, <1>3, <1>4 DEF last

Joined(s, t) == s \o t

LEMMA JoinAssociative ==
    ASSUME NEW S, NEW s \in Seq(S), NEW t \in Seq(S), NEW u \in Seq(S)
    PROVE  Joined(Joined(s, t), u) = Joined(s, Joined(t, u))
BY ConcatAssociative DEF Joined

(* A list of values is sent value by value. *)
LEMMA SentFacts ==
    ASSUME NEW s \in Seq(Values)
    PROVE  /\ Tree!Sent(s) \in Seq(Seq(Values))
           /\ Len(Tree!Sent(s)) = Len(s)
           /\ \A i \in 1 .. Len(s) : Tree!Sent(s)[i] = << s[i] >>
<1>1. Len(s) \in Nat /\ \A i \in 1 .. Len(s) : << s[i] >> \in Seq(Values)
  OBVIOUS
<1> QED  BY <1>1 DEF Tree!Sent

LEMMA SentEmpty == Tree!Sent(<< >>) = << >>
<1>1. << >> \in Seq(Values) /\ << >> \in Seq(Seq(Values)) /\ Len(<< >>) = 0
  OBVIOUS
<1>2. Tree!Sent(<< >>) \in Seq(Seq(Values)) /\ Len(Tree!Sent(<< >>)) = 0
  BY <1>1, SentFacts
<1> QED  BY <1>2, EmptySeq

LEMMA SentAppend ==
    ASSUME NEW s \in Seq(Values), NEW x \in Values
    PROVE  Tree!Sent(Append(s, x)) = Append(Tree!Sent(s), << x >>)
<1> DEFINE left == Tree!Sent(Append(s, x))
           right == Append(Tree!Sent(s), << x >>)
<1>1. << x >> \in Seq(Values) /\ Len(s) \in Nat
  OBVIOUS
<1>2. /\ Append(s, x) \in Seq(Values) /\ Len(Append(s, x)) = Len(s) + 1
      /\ Append(s, x)[Len(s) + 1] = x
      /\ \A i \in 1 .. Len(s) : Append(s, x)[i] = s[i]
  BY AppendProperties
<1>3. /\ left \in Seq(Seq(Values)) /\ Len(left) = Len(s) + 1
      /\ \A i \in 1 .. Len(s) + 1 : left[i] = << Append(s, x)[i] >>
  BY <1>2, SentFacts
<1>4. /\ Tree!Sent(s) \in Seq(Seq(Values)) /\ Len(Tree!Sent(s)) = Len(s)
      /\ \A i \in 1 .. Len(s) : Tree!Sent(s)[i] = << s[i] >>
  BY SentFacts
<1>5. /\ right \in Seq(Seq(Values)) /\ Len(right) = Len(s) + 1
      /\ right[Len(s) + 1] = << x >>
      /\ \A i \in 1 .. Len(s) : right[i] = Tree!Sent(s)[i]
  BY <1>1, <1>4, AppendProperties
<1> HIDE DEF left, right
<1>6. ASSUME NEW i \in 1 .. Len(s) + 1
      PROVE  left[i] = right[i]
  <2>1. CASE i = Len(s) + 1
    BY <1>2, <1>3, <1>5, <2>1
  <2>2. CASE i \in 1 .. Len(s)
    BY <1>2, <1>3, <1>4, <1>5, <2>2
  <2> QED  BY <1>1, <2>1, <2>2
<1>7. left = right
  BY <1>3, <1>5, <1>6, SeqEqual
<1> QED  BY <1>7 DEF left, right

LEMMA SentConcat ==
    ASSUME NEW s \in Seq(Values), NEW t \in Seq(Values)
    PROVE  Tree!Sent(s \o t) = Tree!Sent(s) \o Tree!Sent(t)
<1> DEFINE left == Tree!Sent(s \o t)
           right == Tree!Sent(s) \o Tree!Sent(t)
<1>1. Len(s) \in Nat /\ Len(t) \in Nat
  OBVIOUS
<1>2. /\ s \o t \in Seq(Values) /\ Len(s \o t) = Len(s) + Len(t)
      /\ \A i \in 1 .. Len(s) + Len(t) :
             (s \o t)[i] = IF i <= Len(s) THEN s[i] ELSE t[i - Len(s)]
  BY ConcatProperties
<1>3. /\ left \in Seq(Seq(Values)) /\ Len(left) = Len(s) + Len(t)
      /\ \A i \in 1 .. Len(s) + Len(t) : left[i] = << (s \o t)[i] >>
  BY <1>2, SentFacts
<1>4. /\ Tree!Sent(s) \in Seq(Seq(Values)) /\ Len(Tree!Sent(s)) = Len(s)
      /\ \A i \in 1 .. Len(s) : Tree!Sent(s)[i] = << s[i] >>
  BY SentFacts
<1>5. /\ Tree!Sent(t) \in Seq(Seq(Values)) /\ Len(Tree!Sent(t)) = Len(t)
      /\ \A i \in 1 .. Len(t) : Tree!Sent(t)[i] = << t[i] >>
  BY SentFacts
<1>6. /\ right \in Seq(Seq(Values)) /\ Len(right) = Len(s) + Len(t)
      /\ \A i \in 1 .. Len(s) + Len(t) :
             right[i] = IF i <= Len(s) THEN Tree!Sent(s)[i] ELSE Tree!Sent(t)[i - Len(s)]
  <2> DEFINE S == Seq(Values)
             a == Tree!Sent(s)
             b == Tree!Sent(t)
  <2>1. a \in Seq(S) /\ b \in Seq(S) /\ Len(a) = Len(s) /\ Len(b) = Len(t)
    BY <1>4, <1>5
  <2> HIDE DEF S, a, b
  <2>2. /\ a \o b \in Seq(S) /\ Len(a \o b) = Len(a) + Len(b)
        /\ \A i \in 1 .. Len(a) + Len(b) :
               (a \o b)[i] = IF i <= Len(a) THEN a[i] ELSE b[i - Len(a)]
    BY <2>1, ConcatProperties
  <2> QED  BY <2>1, <2>2 DEF S, a, b
<1> HIDE DEF left, right
<1>7. ASSUME NEW i \in 1 .. Len(s) + Len(t)
      PROVE  left[i] = right[i]
  <2>1. CASE i <= Len(s)
    <3>1. i \in 1 .. Len(s)
      BY <1>1, <2>1
    <3> QED  BY <1>2, <1>3, <1>4, <1>6, <2>1, <3>1
  <2>2. CASE ~(i <= Len(s))
    <3>1. i - Len(s) \in 1 .. Len(t)
      BY <1>1, <2>2
    <3> QED  BY <1>2, <1>3, <1>5, <1>6, <2>2, <3>1
  <2> QED  BY <2>1, <2>2
<1>8. left = right
  BY <1>3, <1>6, <1>7, SeqEqual
<1> QED  BY <1>8 DEF left, right

(* After any number of pairs a name is sent with its metadata, the headers   *)
(* of the context and what the pairs gave it; what the last two have for     *)
(* XGoog is set aside.                                                       *)
LEMMA MergedFacts ==
    ASSUME NEW metadata \in [Keys -> Seq(Seq(Values))], NEW headers \in [Keys -> Seq(Values)],
           NEW keyvals \in Seq(Pairs), NEW n \in 0 .. Len(keyvals)
    PROVE  LET state == Merging(metadata, headers, keyvals)[n]
           IN  /\ state \in States
               /\ \A k \in Keys :
                      state.out[k] =
                          (IF k = XGoog THEN metadata[k]
                           ELSE metadata[k] \o Tree!Sent(headers[k]))
                              \o Tree!Sent(Tree!Given(k, keyvals)[n])
               /\ state.merged = headers[XGoog] \o Tree!Given(XGoog, keyvals)[n]
<1> DEFINE N == Len(keyvals)
           state(m) == Merging(metadata, headers, keyvals)[m]
           given(k, m) == Tree!Given(k, keyvals)[m]
           start(k) == IF k = XGoog THEN metadata[k]
                       ELSE metadata[k] \o Tree!Sent(headers[k])
           Right(m) == /\ \A k \in Keys : state(m).out[k] = start(k) \o Tree!Sent(given(k, m))
                       /\ state(m).merged = headers[XGoog] \o given(XGoog, m)
           right == {m \in 0 .. N : Right(m)}
<1>1. /\ N \in Nat /\ XGoog \in Keys
      /\ \A m \in 1 .. N : keyvals[m] \in Pairs /\ keyvals[m].key \in Keys
                           /\ keyvals[m].value \in Values
  <2>1. N \in Nat /\ \A m \in 1 .. N : keyvals[m] \in Pairs
    OBVIOUS
  <2> QED  BY <2>1, CallCtxAssumption DEF Pairs
<1>2. /\ \A m \in 0 .. N : /\ state(m) \in States
                           /\ state(m).out \in [Keys -> Seq(Seq(Values))]
                           /\ state(m).merged \in Seq(Values)
      /\ state(0) = WithContextHeaders(metadata, headers)
      /\ \A m \in 1 .. N : state(m) = AppendPair(state(m - 1), keyvals[m])
  <2>1. /\ Merging(metadata, headers, keyvals) \in [0 .. N -> States]
        /\ state(0) = WithContextHeaders(metadata, headers)
        /\ \A m \in 1 .. N : state(m) = AppendPair(state(m - 1), keyvals[m])
    BY MergingFacts
  <2>2. \A m \in 0 .. N : state(m) \in States
    BY <2>1
  <2> HIDE DEF state
  <2> QED  BY <2>1, <2>2 DEF States
<1>3. \A k \in Keys :
          /\ \A m \in 0 .. N : given(k, m) \in Seq(Values)
          /\ given(k, 0) = << >>
          /\ \A m \in 1 .. N :
                 given(k, m) = IF keyvals[m].key = k
                               THEN Append(given(k, m - 1), keyvals[m].value)
                               ELSE given(k, m - 1)
  <2> TAKE k \in Keys
  <2> DEFINE f == Tree!Given(k, keyvals)
  <2>1. /\ f \in [0 .. N -> Seq(Values)] /\ f[0] = << >>
        /\ \A m \in 1 .. N : f[m] = IF keyvals[m].key = k
                                   THEN Append(f[m - 1], keyvals[m].value) ELSE f[m - 1]
    BY GivenFacts
  <2> HIDE DEF f
  <2>2. /\ \A m \in 0 .. N : f[m] \in Seq(Values)
        /\ f[0] = << >>
        /\ \A m \in 1 .. N : f[m] = IF keyvals[m].key = k
                                   THEN Append(f[m - 1], keyvals[m].value) ELSE f[m - 1]
    BY <2>1
  <2> QED  BY <2>2 DEF f
<1>4. \A k \in Keys : start(k) \in Seq(Seq(Values))
  <2> TAKE k \in Keys
  <2>1. metadata[k] \in Seq(Seq(Values)) /\ headers[k] \in Seq(Values)
    OBVIOUS
  <2>2. Tree!Sent(headers[k]) \in Seq(Seq(Values))
    BY <2>1, SentFacts
  <2> DEFINE sent == Tree!Sent(headers[k])
  <2> HIDE DEF sent
  <2>3. metadata[k] \o sent \in Seq(Seq(Values))
    BY <2>1, <2>2 DEF sent
  <2> QED  BY <2>1, <2>3 DEF sent
<1> HIDE DEF state, given
<1>5. Right(0)
  <2>1. state(0).merged = headers[XGoog] /\ headers[XGoog] \in Seq(Values)
    BY <1>1, <1>2 DEF WithContextHeaders
  <2>2. headers[XGoog] \o given(XGoog, 0) = headers[XGoog]
    BY <1>1, <1>3, <2>1, ConcatEmptySeq
  <2>3. ASSUME NEW k \in Keys
        PROVE  state(0).out[k] = start(k) \o Tree!Sent(given(k, 0))
    <3>1. state(0).out[k] = start(k)
      <4>1. state(0).out = [l \in Keys |->
                IF l = XGoog THEN metadata[l]
                ELSE metadata[l] \o [j \in 1 .. Len(headers[l]) |-> << headers[l][j] >>]]
        <5> DEFINE out == [l \in Keys |->
                IF l = XGoog THEN metadata[l]
                ELSE metadata[l] \o [j \in 1 .. Len(headers[l]) |-> << headers[l][j] >>]]
        <5>1. state(0) = [out |-> out, merged |-> headers[XGoog]]
          BY <1>2, Zenon DEF WithContextHeaders
        <5> HIDE DEF out
        <5>2. state(0).out = out
          BY <5>1
        <5> QED  BY <5>2 DEF out
      <4> QED  BY <4>1, Zenon DEF Tree!Sent
    <3>2. start(k) \o << >> = start(k)
      BY <1>4, ConcatEmptySeq
    <3>3. Tree!Sent(given(k, 0)) = << >>
      BY <1>3, SentEmpty
    <3> QED  BY <3>1, <3>2, <3>3
  <2> QED  BY <2>1, <2>2, <2>3
<1>6. ASSUME NEW m \in 1 .. N, Right(m - 1)
      PROVE  Right(m)
  <2> DEFINE pair == keyvals[m]
             old == state(m - 1)
  <2>1. /\ pair \in Pairs /\ pair.key \in Keys /\ pair.value \in Values
        /\ m - 1 \in 0 .. N /\ << pair.value >> \in Seq(Values)
    BY <1>1
  <2>2. /\ old.out \in [Keys -> Seq(Seq(Values))] /\ old.merged \in Seq(Values)
        /\ state(m) = AppendPair(old, pair)
    BY <1>2, <2>1
  <2>3. /\ \A k \in Keys : old.out[k] = start(k) \o Tree!Sent(given(k, m - 1))
        /\ old.merged = headers[XGoog] \o given(XGoog, m - 1)
    BY <1>6
  <2> HIDE DEF pair, old, start
  <2>4. ASSUME NEW k \in Keys
        PROVE  state(m).out[k] = start(k) \o Tree!Sent(given(k, m))
    <3>1. given(k, m - 1) \in Seq(Values)
      BY <1>3, <2>1
    <3>2. CASE pair.key = k
      <4>1. state(m).out[k] = Append(old.out[k], << pair.value >>)
        BY <2>2, <3>2 DEF AppendPair
      <4>2. given(k, m) = Append(given(k, m - 1), pair.value)
        BY <1>3, <3>2 DEF pair
      <4>3. Tree!Sent(given(k, m)) = Append(Tree!Sent(given(k, m - 1)), << pair.value >>)
        BY <2>1, <3>1, <4>2, SentAppend
      <4>4. Tree!Sent(given(k, m - 1)) \in Seq(Seq(Values))
        BY <3>1, SentFacts
      <4> DEFINE S == Seq(Values)
                 t == Tree!Sent(given(k, m - 1))
                 e == << pair.value >>
      <4>5. start(k) \in Seq(S) /\ t \in Seq(S) /\ e \in S
        BY <1>4, <2>1, <4>4
      <4> HIDE DEF S, t, e
      <4>6. Append(start(k) \o t, e) = start(k) \o Append(t, e)
        <5>1. Longer(start(k) \o t, e) = start(k) \o Longer(t, e)
          BY <4>5, AppendConcat
        <5> QED  BY <5>1 DEF Longer
      <4> QED  BY <2>3, <4>1, <4>3, <4>6 DEF t, e
    <3>3. CASE pair.key # k
      <4>1. state(m).out[k] = old.out[k]
        BY <2>1, <2>2, <3>3 DEF AppendPair
      <4>2. given(k, m) = given(k, m - 1)
        BY <1>3, <3>3 DEF pair
      <4> QED  BY <2>3, <4>1, <4>2
    <3> QED  BY <3>2, <3>3
  <2>5. state(m).merged = headers[XGoog] \o given(XGoog, m)
    <3>1. given(XGoog, m - 1) \in Seq(Values) /\ headers[XGoog] \in Seq(Values)
      BY <1>1, <1>3, <2>1
    <3>2. CASE pair.key = XGoog
      <4>1. state(m).merged = Append(old.merged, pair.value)
        BY <2>2, <3>2 DEF AppendPair
      <4>2. given(XGoog, m) = Append(given(XGoog, m - 1), pair.value)
        BY <1>1, <1>3, <3>2 DEF pair
      <4>3. Append(headers[XGoog] \o given(XGoog, m - 1), pair.value)
                = headers[XGoog] \o Append(given(XGoog, m - 1), pair.value)
        <5> DEFINE s == headers[XGoog]
                   t == given(XGoog, m - 1)
                   e == pair.value
        <5>1. s \in Seq(Values) /\ t \in Seq(Values) /\ e \in Values
          BY <2>1, <3>1
        <5> HIDE DEF s, t, e
        <5>2. Longer(s \o t, e) = s \o Longer(t, e)
          BY <5>1, AppendConcat
        <5> QED  BY <5>2 DEF Longer, s, t, e
      <4> QED  BY <2>3, <4>1, <4>2, <4>3
    <3>3. CASE pair.key # XGoog
      <4>1. state(m).merged = old.merged
        BY <2>2, <3>3 DEF AppendPair
      <4>2. given(XGoog, m) = given(XGoog, m - 1)
        BY <1>1, <1>3, <3>3 DEF pair
      <4> QED  BY <2>3, <4>1, <4>2
    <3> QED  BY <3>2, <3>3
  <2> QED  BY <2>4, <2>5
<1>7. \A m \in 0 .. N : m \in right
  <2>1. 0 \in right
    <3> HIDE DEF Right
    <3> QED  BY <1>1, <1>5
  <2>2. ASSUME NEW m \in 1 .. N, m - 1 \in right
        PROVE  m \in right
    <3> HIDE DEF Right
    <3> QED  BY <1>6, <2>2
  <2>3. right \in SUBSET (0 .. N)
    OBVIOUS
  <2> HIDE DEF right
  <2> QED  BY <1>1, <2>1, <2>2, <2>3, TurnInduction
<1> QED  BY <1>2, <1>7 DEF state, given

(* What insertMetadata computes is what the tree of contexts promises. *)
LEMMA InsertFacts ==
    ASSUME NEW metadata \in [Keys -> Seq(Seq(Values))], NEW headers \in [Keys -> Seq(Values)],
           NEW keyvals \in Seq(Pairs)
    PROVE  LET given(k) == headers[k] \o Tree!ValuesFor(k, keyvals)
           IN  /\ insertMetadata(metadata, headers, keyvals) =
                      [k \in Keys |->
                          IF k # XGoog THEN metadata[k] \o Tree!Sent(given(k))
                          ELSE IF given(k) = << >> THEN metadata[k] ELSE << given(k) >>]
               /\ insertMetadata(metadata, headers, keyvals) \in [Keys -> Seq(Seq(Values))]
<1> DEFINE N == Len(keyvals)
           final == Merging(metadata, headers, keyvals)[N]
           last(k) == Tree!ValuesFor(k, keyvals)
           given(k) == headers[k] \o last(k)
           result == IF final.merged = << >> THEN final.out
                     ELSE [final.out EXCEPT ![XGoog] = << final.merged >>]
           promise(k) == IF k # XGoog THEN metadata[k] \o Tree!Sent(given(k))
                         ELSE IF given(k) = << >> THEN metadata[k] ELSE << given(k) >>
<1>1. N \in Nat /\ N \in 0 .. N /\ XGoog \in Keys
  BY CallCtxAssumption
<1>2. \A k \in Keys : last(k) \in Seq(Values)
  <2> TAKE k \in Keys
  <2>1. Tree!Given(k, keyvals) \in [0 .. N -> Seq(Values)]
    BY GivenFacts
  <2> QED  BY <1>1, <2>1 DEF Tree!ValuesFor
<1>3. /\ final \in States
      /\ \A k \in Keys : final.out[k] = (IF k = XGoog THEN metadata[k]
                                         ELSE metadata[k] \o Tree!Sent(headers[k]))
                                            \o Tree!Sent(last(k))
      /\ final.merged = given(XGoog)
  <2>1. LET state == Merging(metadata, headers, keyvals)[N]
        IN  /\ state \in States
            /\ \A k \in Keys :
                   state.out[k] = (IF k = XGoog THEN metadata[k]
                                   ELSE metadata[k] \o Tree!Sent(headers[k]))
                                      \o Tree!Sent(Tree!Given(k, keyvals)[N])
            /\ state.merged = headers[XGoog] \o Tree!Given(XGoog, keyvals)[N]
    BY <1>1, MergedFacts
  <2> QED  BY <2>1 DEF Tree!ValuesFor
<1>4. insertMetadata(metadata, headers, keyvals) = result
  BY DEF insertMetadata
<1> HIDE DEF final, last, N
<1>5. final.out \in [Keys -> Seq(Seq(Values))] /\ final.merged \in Seq(Values)
  BY <1>3 DEF States
<1>6. /\ result \in [Keys -> Seq(Seq(Values))]
      /\ \A k \in Keys : result[k] = IF k = XGoog /\ final.merged # << >>
                                     THEN << final.merged >> ELSE final.out[k]
  BY <1>1, <1>5
<1> HIDE DEF result
<1>7. ASSUME NEW k \in Keys
      PROVE  result[k] = promise(k)
  <2> DEFINE S == Seq(Values)
             m == metadata[k]
             h == headers[k]
             sentH == Tree!Sent(h)
             sentL == Tree!Sent(last(k))
  <2>1. h \in Seq(Values) /\ m \in Seq(S) /\ last(k) \in Seq(Values)
    BY <1>2
  <2>2. sentH \in Seq(S) /\ sentL \in Seq(S)
    BY <2>1, SentFacts
  <2>3. CASE k # XGoog
    <3>1. result[k] = (m \o sentH) \o sentL
      BY <1>3, <1>6, <2>3
    <3>2. Tree!Sent(given(k)) = sentH \o sentL
      BY <2>1, SentConcat
    <3>3. (m \o sentH) \o sentL = m \o (sentH \o sentL)
      <4> HIDE DEF S, m, sentH, sentL
      <4>1. m \in Seq(S) /\ sentH \in Seq(S) /\ sentL \in Seq(S)
        BY <2>1, <2>2
      <4>2. Joined(Joined(m, sentH), sentL) = Joined(m, Joined(sentH, sentL))
        BY <4>1, JoinAssociative
      <4> QED  BY <4>2 DEF Joined
    <3> QED  BY <2>3, <3>1, <3>2, <3>3
  <2>4. CASE k = XGoog /\ given(k) = << >>
    <3>1. last(k) = << >>
      <4> DEFINE l == last(k)
      <4>1. h \in Seq(Values) /\ l \in Seq(Values) /\ h \o l = << >>
        BY <2>1, <2>4
      <4> HIDE DEF h, l
      <4> QED  BY <4>1, ConcatEqualIffEmpty DEF l
    <3>2. result[k] = m \o sentL
      BY <1>3, <1>6, <2>4
    <3>3. m \o << >> = m
      <4> HIDE DEF S, m
      <4> QED  BY <2>1, ConcatEmptySeq
    <3>4. sentL = << >>
      BY <3>1, SentEmpty
    <3> QED  BY <2>4, <3>2, <3>3, <3>4
  <2>5. CASE k = XGoog /\ given(k) # << >>
    BY <1>3, <1>6, <2>5
  <2> QED  BY <2>3, <2>4, <2>5
<1> HIDE DEF promise
<1>8. result = [k \in Keys |-> promise(k)]
  BY <1>6, <1>7
<1> QED  BY <1>4, <1>6, <1>8 DEF promise, last

----------------------------------------------------------------------------
(* The inductive invariant.  Nothing is ever written to arrays[1], the array *)
(* of the nil slice: it has no room.  A context a call will make is paid for *)
(* when the call begins.  And what a call has done so far is known: it has   *)
(* cloned the headers not in todo, then appended the first n of its pairs.   *)
MemoryInv ==
    arrays \in Memory /\ Len(arrays) >= 1 /\ arrays[1] = << >>

ContextsInv ==
    /\ contexts \in Seq(Contexts) /\ Len(contexts) >= 1
    /\ \A i \in 1 .. Len(contexts), k \in Keys : Sliced(arrays, contexts[i].headers[k])

CallsInv ==
    /\ call \in [Goroutines -> Calls]
    /\ \A g \in Goroutines :
        /\ call[g].parent \in 1 .. Len(contexts)
        /\ ~call[g].running => call[g].todo = {}
        /\ \A k \in Keys : Sliced(arrays, call[g].h[k])

Budget ==
    IsFiniteSet(Running) /\ Len(contexts) + Cardinality(Running) <= MaxContexts

(* What the call of g has taken over from its parent under k. *)
Taken(g, k) ==
    IF k \in call[g].todo THEN << >>
    ELSE Held(arrays, contexts[call[g].parent].headers[k])

Progress(g) ==
    \E keyvals \in Keyvals : \E n \in 0 .. Len(keyvals) :
        /\ call[g].rest = SubSeq(keyvals, n + 1, Len(keyvals))
        /\ call[g].todo # {} => n = 0
        /\ \A k \in Keys :
            Held(arrays, call[g].h[k]) = Taken(g, k) \o Tree!Given(k, keyvals)[n]

IInv ==
    /\ MemoryInv
    /\ ContextsInv
    /\ CallsInv
    /\ Budget
    /\ OwnArrays
    /\ \A g \in Goroutines : call[g].running => Progress(g)

(* What every step does for the contexts there are. *)
HeadersKept ==
    \A i \in 1 .. Len(contexts), k \in Keys :
        /\ Sliced(arrays', contexts[i].headers[k])
        /\ Held(arrays', contexts[i].headers[k]) = Held(arrays, contexts[i].headers[k])

LEMMA Types ==
    ASSUME IInv
    PROVE  /\ arrays \in Memory /\ Len(arrays) \in Nat /\ Len(arrays) >= 1
           /\ arrays[1] = << >>
           /\ contexts \in Seq(Contexts) /\ Len(contexts) \in Nat /\ Len(contexts) >= 1
           /\ \A i \in 1 .. Len(contexts) :
                /\ contexts[i] \in Contexts
                /\ contexts[i].headers \in [Keys -> Slices]
                /\ contexts[i].metadata \in [Keys -> Seq(Seq(Values))]
                /\ \A k \in Keys : /\ contexts[i].headers[k] \in Slices
                                   /\ contexts[i].headers[k].array \in 1 .. Len(arrays)
                                   /\ Sliced(arrays, contexts[i].headers[k])
           /\ \A g \in Goroutines :
                /\ call[g] \in Calls
                /\ call[g].running \in BOOLEAN
                /\ call[g].parent \in 1 .. Len(contexts)
                /\ call[g].rest \in Seq(Pairs) /\ call[g].todo \subseteq Keys
                /\ call[g].todo # {} => call[g].running
                /\ call[g].h \in [Keys -> Slices]
                /\ \A k \in Keys : /\ call[g].h[k] \in Slices
                                   /\ call[g].h[k].array \in 1 .. Len(arrays)
                                   /\ Sliced(arrays, call[g].h[k])
<1>1. arrays \in Memory /\ Len(arrays) \in Nat /\ Len(arrays) >= 1 /\ arrays[1] = << >>
  BY MemoryTypes DEF IInv, MemoryInv
<1>2. \A slice \in Slices : Sliced(arrays, slice) => slice.array \in 1 .. Len(arrays)
  BY <1>1 DEF Slices, Sliced
<1>3. contexts \in Seq(Contexts) /\ Len(contexts) \in Nat /\ Len(contexts) >= 1
  BY DEF IInv, ContextsInv
<1>4. ASSUME NEW i \in 1 .. Len(contexts)
      PROVE  /\ contexts[i] \in Contexts
             /\ contexts[i].headers \in [Keys -> Slices]
             /\ contexts[i].metadata \in [Keys -> Seq(Seq(Values))]
  <2>1. contexts[i] \in Contexts
    BY <1>3
  <2> QED  BY <2>1 DEF Contexts
<1>5. \A i \in 1 .. Len(contexts), k \in Keys : Sliced(arrays, contexts[i].headers[k])
  BY DEF IInv, ContextsInv
<1>6. \A i \in 1 .. Len(contexts), k \in Keys : contexts[i].headers[k] \in Slices
  BY <1>4
<1>7. ASSUME NEW g \in Goroutines
      PROVE  /\ call[g] \in Calls
             /\ call[g].running \in BOOLEAN
             /\ call[g].rest \in Seq(Pairs) /\ call[g].todo \subseteq Keys
             /\ call[g].h \in [Keys -> Slices]
  <2>1. call[g] \in Calls
    BY DEF IInv, CallsInv
  <2> QED  BY <2>1 DEF Calls
<1>8. \A g \in Goroutines :
        /\ call[g].parent \in 1 .. Len(contexts)
        /\ call[g].todo # {} => call[g].running
        /\ \A k \in Keys : Sliced(arrays, call[g].h[k])
  <2> TAKE g \in Goroutines
  <2>1. /\ call[g].parent \in 1 .. Len(contexts)
        /\ ~call[g].running => call[g].todo = {}
        /\ \A k \in Keys : Sliced(arrays, call[g].h[k])
    BY DEF IInv, CallsInv
  <2> QED  BY <2>1
<1>9. \A g \in Goroutines, k \in Keys : call[g].h[k] \in Slices
  BY <1>7
<1> QED  BY <1>1, <1>2, <1>3, <1>4, <1>5, <1>6, <1>7, <1>8, <1>9

LEMMA CommonTypes ==
    ASSUME IInv
    PROVE  /\ arrays \in Memory /\ Len(arrays) \in Nat /\ Len(arrays) >= 1
           /\ arrays[1] = << >> /\ Len(contexts) \in Nat /\ Len(contexts) >= 1
BY Types

LEMMA CallTypes ==
    ASSUME IInv, NEW g \in Goroutines
    PROVE  /\ call[g] \in Calls /\ call[g].parent \in 1 .. Len(contexts)
           /\ call[g].rest \in Seq(Pairs) /\ call[g].h \in [Keys -> Slices]
           /\ \A k \in Keys : /\ call[g].h[k] \in Slices
                              /\ call[g].h[k].array \in 1 .. Len(arrays)
                              /\ Sliced(arrays, call[g].h[k])
BY Types

LEMMA ContextTypes ==
    ASSUME IInv, NEW i \in 1 .. Len(contexts)
    PROVE  \A k \in Keys : contexts[i].headers[k].array \in 1 .. Len(arrays)
BY Types

(* The nil slice holds nothing, in any memory. *)
LEMMA NilFacts ==
    /\ NilSlice \in Slices
    /\ NoHeaders \in [Keys -> Slices]
    /\ Idle \in Calls
    /\ \A mem : Held(mem, NilSlice) = << >>
    /\ \A mem \in Memory : Len(mem) >= 1 /\ mem[1] = << >> => Sliced(mem, NilSlice)
<1>1. NilSlice \in Slices /\ NilSlice.len = 0 /\ NilSlice.array = 1
  BY DEF NilSlice, Slices
<1>2. NoHeaders \in [Keys -> Slices]
  BY <1>1 DEF NoHeaders
<1>3. Idle \in Calls
  <2>1. << >> \in Seq(Pairs)
    OBVIOUS
  <2> QED  BY <1>2, <2>1 DEF Idle, Calls
<1>4. \A mem : Held(mem, NilSlice) = << >>
  BY <1>1 DEF Held
<1>5. ASSUME NEW mem \in Memory, Len(mem) >= 1, mem[1] = << >>
      PROVE  Sliced(mem, NilSlice)
  BY <1>1, <1>5 DEF Sliced
<1> QED  BY <1>1, <1>2, <1>3, <1>4, <1>5

(* A call begins. *)
LEMMA BeginStep ==
    ASSUME IInv, NEW g \in Goroutines, NEW i \in 1 .. Len(contexts),
           NEW keyvals \in Keyvals, Begin(g, i, keyvals)
    PROVE  IInv' /\ HeadersKept
<1> DEFINE new == [running |-> TRUE, parent |-> i, rest |-> keyvals,
                   todo |-> {k \in Keys : HeadersFromContext(i)[k] # NilSlice},
                   h |-> NoHeaders]
<1>1. /\ ~call[g].running /\ HasRoom
      /\ call' = [call EXCEPT ![g] = new] /\ arrays' = arrays /\ contexts' = contexts
  BY DEF Begin
<1>2. keyvals \in Seq(Pairs)
  BY CallCtxAssumption
<1>3. call \in [Goroutines -> Calls]
  BY DEF IInv, CallsInv
<1>4. new \in Calls
  <2>1. i \in Nat
    BY Types
  <2> QED  BY <1>2, <2>1, NilFacts DEF Calls
<1>5. /\ new.running = TRUE /\ new.parent = i /\ new.rest = keyvals /\ new.h = NoHeaders
      /\ new.todo = {k \in Keys : contexts[i].headers[k] # NilSlice}
  BY DEF HeadersFromContext
<1> HIDE DEF new
<1>6. /\ call' \in [Goroutines -> Calls] /\ call'[g] = new
      /\ \A f \in Goroutines : f # g => call'[f] = call[f]
  BY <1>1, <1>3, <1>4
<1>7. \A k \in Keys : new.h[k] = NilSlice
  BY <1>5 DEF NoHeaders
<1>8. HeadersKept
  BY <1>1, Types DEF HeadersKept
<1>9. MemoryInv'
  BY <1>1 DEF IInv, MemoryInv
<1>10. ContextsInv'
  BY <1>1 DEF IInv, ContextsInv
<1>11. CallsInv'
  <2>1. ASSUME NEW f \in Goroutines
        PROVE  /\ call'[f].parent \in 1 .. Len(contexts')
               /\ ~call'[f].running => call'[f].todo = {}
               /\ \A k \in Keys : Sliced(arrays', call'[f].h[k])
    <3>1. CASE f = g
      <4>1. \A k \in Keys : Sliced(arrays, new.h[k])
        BY <1>7, NilFacts, Types
      <4> QED  BY <1>1, <1>5, <1>6, <3>1, <4>1
    <3>2. CASE f # g
      BY <1>1, <1>6, <3>2 DEF IInv, CallsInv
    <3> QED  BY <3>1, <3>2
  <2> QED  BY <1>6, <2>1 DEF CallsInv
<1>12. Budget'
  <2>1. Running' = Running \cup {g} /\ g \notin Running
    BY <1>1, <1>5, <1>6 DEF Running
  <2>2. IsFiniteSet(Running) /\ Cardinality(Running) \in Nat
    BY FS_CardinalityType DEF IInv, Budget
  <2>3. /\ IsFiniteSet(Running \cup {g})
        /\ Cardinality(Running \cup {g}) = Cardinality(Running) + 1
    BY <2>1, <2>2, FS_AddElement
  <2>4. Len(contexts) + Cardinality(Running) + 1 <= MaxContexts
    BY <1>1, <2>2, CallCtxAssumption, Types DEF HasRoom
  <2>5. Len(contexts) \in Nat
    BY Types
  <2>6. Len(contexts) + (Cardinality(Running) + 1) <= MaxContexts
    BY <2>2, <2>4, <2>5
  <2>7. IsFiniteSet(Running') /\ Cardinality(Running') = Cardinality(Running) + 1
    BY <2>1, <2>3
  <2>8. contexts' = contexts
    BY <1>1
  <2> HIDE DEF Running
  <2> QED  BY <2>6, <2>7, <2>8 DEF Budget
<1>13. OwnArrays'
  <2>1. OwnArrays
    BY DEF IInv
  <2>2. \A k \in Keys : call'[g].h[k].array = NilSlice.array
    BY <1>6, <1>7
  <2> QED  BY <1>1, <1>6, <2>1, <2>2 DEF OwnArrays
<1>14. ASSUME NEW f \in Goroutines, call'[f].running
       PROVE  Progress(f)'
  <2>1. CASE f = g
    <3> DEFINE N == Len(keyvals)
    <3>1. SubSeq(keyvals, 0 + 1, N) = keyvals /\ N \in Nat /\ 0 \in 0 .. N
      BY <1>2, SubSeqFull
    <3>2. ASSUME NEW k \in Keys
          PROVE  Held(arrays', call'[g].h[k]) = Taken(g, k)' \o Tree!Given(k, keyvals)[0]
      <4>1. Held(arrays', call'[g].h[k]) = << >>
        BY <1>6, <1>7, NilFacts
      <4>2. Taken(g, k)' = << >>
        <5>1. CASE k \in new.todo
          BY <1>6, <5>1 DEF Taken
        <5>2. CASE k \notin new.todo
          <6>1. contexts'[call'[g].parent].headers[k] = NilSlice
            BY <1>1, <1>5, <1>6, <5>2
          <6> QED  BY <1>6, <5>2, <6>1, NilFacts DEF Taken
        <5> QED  BY <5>1, <5>2
      <4>3. Tree!Given(k, keyvals)[0] = << >>
        BY <1>2, GivenFacts
      <4>4. << >> \o << >> = << >>
        OBVIOUS
      <4> QED  BY <4>1, <4>2, <4>3, <4>4
    <3>3. call'[g].rest = SubSeq(keyvals, 0 + 1, N)
      BY <1>5, <1>6, <3>1
    <3> QED  BY <2>1, <3>1, <3>2, <3>3 DEF Progress
  <2>2. CASE f # g
    <3>1. call'[f] = call[f] /\ Progress(f)
      BY <1>6, <1>14, <2>2 DEF IInv
    <3>2. \A k \in Keys : Taken(f, k)' = Taken(f, k)
      BY <1>1, <3>1 DEF Taken
    <3> QED  BY <1>1, <3>1, <3>2 DEF Progress
  <2> QED  BY <2>1, <2>2
<1> QED  BY <1>8, <1>9, <1>10, <1>11, <1>12, <1>13, <1>14 DEF IInv

(* A call replaces one of its slices, by one of an array a that no one else  *)
(* has a slice of.                                                           *)
OwnSlice(g, k, a, slice, new) ==
    /\ arrays' \in Memory /\ Len(arrays) <= Len(arrays') /\ arrays'[1] = << >>
    /\ Keeps(arrays, arrays', a) /\ Sliced(arrays', slice) /\ slice.array = a
    /\ \A i \in 1 .. Len(contexts), l \in Keys : contexts[i].headers[l].array # a
    /\ \A f \in Goroutines, l \in Keys : call[f].h[l].array = a => f = g /\ l = k
    /\ contexts' = contexts /\ call' = [call EXCEPT ![g] = new]
    /\ new.running = call[g].running /\ new.parent = call[g].parent
    /\ ~new.running => new.todo = {}
    /\ new.h = [call[g].h EXCEPT ![k] = slice]

LEMMA OwnSliceStep ==
    ASSUME IInv, NEW g \in Goroutines, NEW k \in Keys, NEW a, NEW slice \in Slices,
           NEW new \in Calls, OwnSlice(g, k, a, slice, new)
    PROVE  /\ HeadersKept /\ MemoryInv' /\ ContextsInv' /\ CallsInv' /\ Budget' /\ OwnArrays'
           /\ \A f \in Goroutines : f # g /\ call'[f].running => Progress(f)'
           /\ \A l \in Keys : l # k => Held(arrays', new.h[l]) = Held(arrays, call[g].h[l])
<1> USE DEF OwnSlice
<1>1. /\ call \in [Goroutines -> Calls]
      /\ call' \in [Goroutines -> Calls] /\ call'[g] = new
      /\ \A f \in Goroutines : f # g => call'[f] = call[f]
  BY DEF IInv, CallsInv
<1>2. /\ new.h[k] = slice
      /\ \A l \in Keys : l # k => new.h[l] = call[g].h[l]
  BY Types
<1>3. HeadersKept
  <2> SUFFICES ASSUME NEW i \in 1 .. Len(contexts), NEW l \in Keys
               PROVE  /\ Sliced(arrays', contexts[i].headers[l])
                      /\ Held(arrays', contexts[i].headers[l])
                            = Held(arrays, contexts[i].headers[l])
    BY DEF HeadersKept
  <2>1. /\ contexts[i].headers[l] \in Slices /\ Sliced(arrays, contexts[i].headers[l])
        /\ contexts[i].headers[l].array # a
    BY Types
  <2> QED  BY <2>1 DEF Keeps
<1>4. MemoryInv'
  BY Types, MemoryTypes DEF MemoryInv
<1>5. ContextsInv'
  BY <1>3 DEF ContextsInv, IInv, HeadersKept
<1>6. ASSUME NEW f \in Goroutines, NEW l \in Keys, f # g \/ l # k
      PROVE  /\ call'[f].h[l] = call[f].h[l]
             /\ Sliced(arrays', call'[f].h[l])
             /\ Held(arrays', call'[f].h[l]) = Held(arrays, call[f].h[l])
  <2>1. call'[f].h[l] = call[f].h[l]
    BY <1>1, <1>2, <1>6
  <2>2. call[f].h[l] \in Slices /\ Sliced(arrays, call[f].h[l]) /\ call[f].h[l].array # a
    BY <1>6, Types
  <2> QED  BY <2>1, <2>2 DEF Keeps
<1>7. CallsInv'
  <2>1. ASSUME NEW f \in Goroutines
        PROVE  /\ call'[f].parent \in 1 .. Len(contexts')
               /\ ~call'[f].running => call'[f].todo = {}
               /\ \A l \in Keys : Sliced(arrays', call'[f].h[l])
    <3>1. \A l \in Keys : Sliced(arrays', call'[f].h[l])
      <4> TAKE l \in Keys
      <4>1. CASE f = g /\ l = k
        BY <1>1, <1>2, <4>1
      <4> QED  BY <1>6, <4>1
    <3>2. CASE f = g
      BY <1>1, <3>1, <3>2, Types
    <3>3. CASE f # g
      BY <1>1, <3>1, <3>3 DEF IInv, CallsInv
    <3> QED  BY <3>2, <3>3
  <2> QED  BY <1>1, <2>1 DEF CallsInv
<1>8. Budget'
  <2>1. Running' = Running
    BY <1>1 DEF Running
  <2>2. contexts' = contexts
    OBVIOUS
  <2> HIDE DEF Running
  <2> QED  BY <2>1, <2>2 DEF IInv, Budget
<1>9. OwnArrays'
  <2>1. SUFFICES ASSUME NEW f \in Goroutines, NEW l \in Keys,
                        call'[f].h[l].array # NilSlice.array
                 PROVE  /\ \A i \in 1 .. Len(contexts), m \in Keys :
                              contexts[i].headers[m].array # call'[f].h[l].array
                        /\ \A e \in Goroutines, m \in Keys :
                              call'[e].h[m].array = call'[f].h[l].array => e = f /\ m = l
    BY DEF OwnArrays
  <2>2. CASE f = g /\ l = k
    <3>1. call'[f].h[l].array = a
      BY <1>1, <1>2, <2>2
    <3>2. ASSUME NEW e \in Goroutines, NEW m \in Keys, e # g \/ m # k
          PROVE  call'[e].h[m].array # a
      BY <1>6, <3>2
    <3> QED  BY <2>2, <3>1, <3>2
  <2>3. CASE f # g \/ l # k
    <3>1. call'[f].h[l] = call[f].h[l] /\ call[f].h[l].array # a
      BY <1>6, <2>3
    <3>2. ASSUME NEW e \in Goroutines, NEW m \in Keys,
                 call'[e].h[m].array = call'[f].h[l].array
          PROVE  e = f /\ m = l
      <4>1. CASE e = g /\ m = k
        BY <1>1, <1>2, <3>1, <3>2, <4>1
      <4>2. CASE e # g \/ m # k
        <5>1. call'[e].h[m] = call[e].h[m]
          BY <1>6, <4>2
        <5> QED  BY <2>1, <3>1, <3>2, <5>1 DEF IInv, OwnArrays
      <4> QED  BY <4>1, <4>2
    <3>3. \A i \in 1 .. Len(contexts), m \in Keys :
              contexts[i].headers[m].array # call'[f].h[l].array
      BY <2>1, <3>1 DEF IInv, OwnArrays
    <3> QED  BY <3>2, <3>3
  <2> QED  BY <2>2, <2>3
<1>10. ASSUME NEW f \in Goroutines, f # g, call'[f].running
       PROVE  Progress(f)'
  <2>1. call'[f] = call[f] /\ Progress(f) /\ call[f].parent \in 1 .. Len(contexts)
    BY <1>1, <1>10, Types DEF IInv
  <2>2. \A l \in Keys : Taken(f, l)' = Taken(f, l)
    BY <1>3, <2>1 DEF Taken, HeadersKept
  <2>3. \A l \in Keys : Held(arrays', call'[f].h[l]) = Held(arrays, call[f].h[l])
    BY <1>6, <1>10
  <2>4. PICK keyvals \in Keyvals : \E n \in 0 .. Len(keyvals) :
            /\ call[f].rest = SubSeq(keyvals, n + 1, Len(keyvals))
            /\ call[f].todo # {} => n = 0
            /\ \A l \in Keys :
                Held(arrays, call[f].h[l]) = Taken(f, l) \o Tree!Given(l, keyvals)[n]
    BY <2>1 DEF Progress
  <2>5. PICK n \in 0 .. Len(keyvals) :
            /\ call[f].rest = SubSeq(keyvals, n + 1, Len(keyvals))
            /\ call[f].todo # {} => n = 0
            /\ \A l \in Keys :
                Held(arrays, call[f].h[l]) = Taken(f, l) \o Tree!Given(l, keyvals)[n]
    BY <2>4
  <2>6. /\ call'[f].rest = SubSeq(keyvals, n + 1, Len(keyvals))
        /\ call'[f].todo # {} => n = 0
        /\ \A l \in Keys :
            Held(arrays', call'[f].h[l]) = Taken(f, l)' \o Tree!Given(l, keyvals)[n]
    BY <2>1, <2>2, <2>3, <2>5
  <2> QED  BY <2>6 DEF Progress
<1>11. \A l \in Keys : l # k => Held(arrays', new.h[l]) = Held(arrays, call[g].h[l])
  BY <1>1, <1>6
<1> QED  BY <1>3, <1>4, <1>5, <1>7, <1>8, <1>9, <1>10, <1>11

(* The slice of a header is cloned. *)
LEMMA CloneStep ==
    ASSUME IInv, NEW g \in Goroutines, NEW k \in Keys, CloneHeader(g, k)
    PROVE  IInv' /\ HeadersKept
<1> DEFINE old == contexts[call[g].parent].headers[k]
           c == Cloned(old)
           a == Len(arrays) + 1
           slice == c.slice
           new == [call[g] EXCEPT !.todo = @ \ {k}, !.h[k] = slice]
<1>1. /\ k \in call[g].todo /\ arrays' = c.arrays /\ contexts' = contexts
      /\ call' = [call EXCEPT ![g].todo = @ \ {k}, ![g].h[k] = slice]
  BY DEF CloneHeader, HeadersFromContext
<1>2. /\ call[g] \in Calls /\ call[g].running /\ call[g].parent \in 1 .. Len(contexts)
      /\ call[g].h \in [Keys -> Slices]
      /\ call[g].todo \subseteq Keys /\ Len(arrays) \in Nat /\ Len(arrays) >= 1
      /\ arrays[1] = << >> /\ old \in Slices /\ Sliced(arrays, old) /\ arrays \in Memory
  BY <1>1, Types
<1>3. call' = [call EXCEPT ![g] = new]
  BY <1>1
<1>4. /\ c.arrays \in Memory /\ Len(c.arrays) = Len(arrays) + 1
      /\ \A b \in 1 .. Len(arrays) : c.arrays[b] = arrays[b]
      /\ Keeps(arrays, c.arrays, Len(arrays) + 1)
      /\ Sliced(c.arrays, slice) /\ slice.array = Len(arrays) + 1
      /\ Held(c.arrays, slice) = Held(arrays, old)
  <2> HIDE DEF old
  <2> QED  BY <1>2, ClonedFacts
<1>5. slice \in Slices
  BY <1>4 DEF Sliced
<1> HIDE DEF c, slice
<1>6. new \in Calls /\ new.h = [call[g].h EXCEPT ![k] = slice] /\ new.h \in [Keys -> Slices]
      /\ new.todo = call[g].todo \ {k} /\ new.running = call[g].running
      /\ new.parent = call[g].parent /\ new.rest = call[g].rest
  BY <1>2, <1>5 DEF Calls
<1> HIDE DEF new, a
<1>7. /\ \A i \in 1 .. Len(contexts), l \in Keys : contexts[i].headers[l].array # a
      /\ \A f \in Goroutines, l \in Keys : call[f].h[l].array = a => f = g /\ l = k
  BY <1>2, Types DEF a
<1>8. /\ arrays' \in Memory /\ Len(arrays) <= Len(arrays') /\ arrays'[1] = << >>
      /\ Keeps(arrays, arrays', a) /\ Sliced(arrays', slice) /\ slice.array = a
      /\ ~new.running => new.todo = {}
  BY <1>1, <1>2, <1>4, <1>6 DEF a
<1>9. /\ HeadersKept /\ MemoryInv' /\ ContextsInv' /\ CallsInv' /\ Budget' /\ OwnArrays'
      /\ \A f \in Goroutines : f # g /\ call'[f].running => Progress(f)'
      /\ \A l \in Keys : l # k => Held(arrays', new.h[l]) = Held(arrays, call[g].h[l])
  <2>1. OwnSlice(g, k, a, slice, new)
    BY <1>1, <1>3, <1>6, <1>7, <1>8 DEF OwnSlice
  <2>2. new \in Calls
    BY <1>6
  <2>3. HeadersKept /\ MemoryInv' /\ ContextsInv' /\ CallsInv' /\ Budget' /\ OwnArrays'
    BY <1>5, <2>1, <2>2, OwnSliceStep
  <2>4. \A f \in Goroutines : f # g /\ call'[f].running => Progress(f)'
    BY <1>5, <2>1, <2>2, OwnSliceStep
  <2>5. \A l \in Keys : l # k => Held(arrays', new.h[l]) = Held(arrays, call[g].h[l])
    BY <1>5, <2>1, <2>2, OwnSliceStep
  <2> QED  BY <2>3, <2>4, <2>5
<1>10. call'[g] = new
  BY <1>3 DEF IInv, CallsInv
<1>11. Progress(g)'
  <2>1. PICK keyvals \in Keyvals : \E n \in 0 .. Len(keyvals) :
            /\ call[g].rest = SubSeq(keyvals, n + 1, Len(keyvals))
            /\ call[g].todo # {} => n = 0
            /\ \A l \in Keys :
                Held(arrays, call[g].h[l]) = Taken(g, l) \o Tree!Given(l, keyvals)[n]
    BY <1>2 DEF IInv, Progress
  <2>2. /\ 0 \in 0 .. Len(keyvals)
        /\ call[g].rest = SubSeq(keyvals, 0 + 1, Len(keyvals))
        /\ \A l \in Keys :
            Held(arrays, call[g].h[l]) = Taken(g, l) \o Tree!Given(l, keyvals)[0]
    BY <1>1, <2>1
  <2>3. ASSUME NEW l \in Keys
        PROVE  Held(arrays', call'[g].h[l]) = Taken(g, l)' \o Tree!Given(l, keyvals)[0]
    <3>1. /\ Held(arrays', contexts[call[g].parent].headers[l])
                = Held(arrays, contexts[call[g].parent].headers[l])
      BY <1>2, <1>9 DEF HeadersKept
    <3>2. CASE l # k
      <4>1. Taken(g, l)' = Taken(g, l)
        BY <1>1, <1>6, <1>10, <3>1, <3>2 DEF Taken
      <4>2. Held(arrays', call'[g].h[l]) = Held(arrays, call[g].h[l])
        BY <1>9, <1>10, <3>2
      <4> QED  BY <2>2, <4>1, <4>2
    <3>3. CASE l = k
      <4> DEFINE held == Held(arrays, old)
      <4>1. Taken(g, k)' = held
        BY <1>1, <1>6, <1>10, <3>1, <3>3 DEF Taken
      <4>2. Held(arrays', call'[g].h[k]) = held
        BY <1>1, <1>2, <1>4, <1>6, <1>10
      <4>3. keyvals \in Seq(Pairs)
        BY CallCtxAssumption
      <4>4. Tree!Given(k, keyvals)[0] = << >>
        BY <4>3, GivenFacts
      <4>5. held \in Seq(Values)
        BY <1>2, HeldType
      <4> HIDE DEF held
      <4>6. held \o << >> = held
        BY <4>5, ConcatEmptySeq
      <4> QED  BY <3>3, <4>1, <4>2, <4>4, <4>6
    <3> QED  BY <3>2, <3>3
  <2>4. call'[g].rest = SubSeq(keyvals, 0 + 1, Len(keyvals))
    BY <1>6, <1>10, <2>2
  <2> QED  BY <2>2, <2>3, <2>4 DEF Progress
<1> QED  BY <1>9, <1>11 DEF IInv

(* A value is appended to one of the slices of a call: in place only if that *)
(* slice is in an array of its own, which the nil slice is not.              *)
LEMMA AppendStep ==
    ASSUME IInv, NEW g \in Goroutines, AppendValue(g)
    PROVE  IInv' /\ HeadersKept
<1> DEFINE pair == Head(call[g].rest)
           k == pair.key
           v == pair.value
           old == call[g].h[k]
           c == AppendTo(old, v)
           slice == c.slice
           a == slice.array
           new == [call[g] EXCEPT !.rest = Tail(@), !.h[k] = slice]
<1>1. /\ call[g].running /\ call[g].todo = {} /\ call[g].rest # << >>
      /\ arrays' = c.arrays /\ contexts' = contexts
      /\ call' = [call EXCEPT ![g].rest = Tail(@), ![g].h[k] = slice]
  BY DEF AppendValue
<1>2. /\ call[g] \in Calls /\ call[g].parent \in 1 .. Len(contexts)
      /\ call[g].h \in [Keys -> Slices] /\ call[g].rest \in Seq(Pairs)
      /\ Len(arrays) \in Nat /\ Len(arrays) >= 1
      /\ arrays[1] = << >> /\ arrays \in Memory
  <2>1. /\ call[g] \in Calls /\ call[g].parent \in 1 .. Len(contexts)
        /\ call[g].h \in [Keys -> Slices] /\ call[g].rest \in Seq(Pairs)
    BY CallTypes, Zenon
  <2>2. Len(arrays) \in Nat /\ Len(arrays) >= 1 /\ arrays[1] = << >> /\ arrays \in Memory
    BY CommonTypes, Zenon
  <2> QED  BY <2>1, <2>2
<1>3. call' = [call EXCEPT ![g] = new]
  <2> HIDE DEF k, slice
  <2> QED  BY <1>1
<1>4. pair \in Pairs /\ k \in Keys /\ v \in Values /\ Tail(call[g].rest) \in Seq(Pairs)
  <2>1. pair \in Pairs /\ Tail(call[g].rest) \in Seq(Pairs)
    BY <1>1, <1>2
  <2> QED  BY <2>1 DEF Pairs
<1>5. old \in Slices /\ Sliced(arrays, old) /\ old.array \in 1 .. Len(arrays)
  BY <1>4, CallTypes
<1> HIDE DEF pair
<1>6. /\ c.arrays \in Memory /\ slice \in Slices /\ Sliced(c.arrays, slice)
      /\ Held(c.arrays, slice) = Append(Held(arrays, old), v)
      /\ Keeps(arrays, c.arrays, a)
      /\ Len(arrays) <= Len(c.arrays)
      /\ \/ a = old.array /\ old.len < Len(arrays[old.array])
         \/ a = Len(arrays) + 1
      /\ \A b \in 1 .. Len(arrays) : b # a => c.arrays[b] = arrays[b]
  <2> HIDE DEF old, v
  <2> QED  BY <1>2, <1>4, <1>5, AppendToFacts
<1> HIDE DEF c, slice
<1>7. new \in Calls /\ new.h = [call[g].h EXCEPT ![k] = slice] /\ new.h \in [Keys -> Slices]
      /\ new.todo = call[g].todo /\ new.running = call[g].running
      /\ new.parent = call[g].parent /\ new.rest = Tail(call[g].rest)
  <2> DEFINE before == call[g]
             tail == Tail(before.rest)
             h == [before.h EXCEPT ![k] = slice]
  <2>1. before \in Calls /\ tail \in Seq(Pairs)
    BY <1>2, <1>4
  <2>2. h \in [Keys -> Slices]
    BY <1>2, <1>6
  <2>3. new = [before EXCEPT !.rest = tail, !.h = h]
    <3> HIDE DEF k
    <3> QED  BY <1>2 DEF Calls
  <2> HIDE DEF new, before, tail, h
  <2>4. /\ new \in Calls /\ new.h = h /\ new.rest = tail
        /\ new.todo = before.todo /\ new.running = before.running /\ new.parent = before.parent
    BY <2>1, <2>2, <2>3 DEF Calls
  <2> QED  BY <2>2, <2>4 DEF before, tail, h
<1> HIDE DEF new
<1>8. a # 1
  <2>1. CASE a = old.array /\ old.len < Len(arrays[old.array])
    <3> HIDE DEF old
    <3>1. old.len \in Nat /\ Len(<< >>) = 0
      BY <1>5 DEF Slices
    <3> QED  BY <1>2, <2>1, <3>1
  <2>2. CASE a = Len(arrays) + 1
    BY <1>2, <2>2
  <2> QED  BY <1>6, <2>1, <2>2
<1>9. /\ \A i \in 1 .. Len(contexts), l \in Keys : contexts[i].headers[l].array # a
      /\ \A f \in Goroutines, l \in Keys : call[f].h[l].array = a => f = g /\ l = k
  <2>1. CASE a = old.array
    <3>1. OwnArrays /\ call[g].h[k].array = a /\ a # NilSlice.array
      BY <1>8, <2>1 DEF IInv, NilSlice
    <3> HIDE DEF k, a
    <3> QED  BY <1>4, <3>1 DEF OwnArrays
  <2>2. CASE a = Len(arrays) + 1
    <3>1. \A i \in 1 .. Len(contexts), l \in Keys :
              contexts[i].headers[l].array \in 1 .. Len(arrays)
      BY ContextTypes, Zenon
    <3>2. \A f \in Goroutines, l \in Keys : call[f].h[l].array \in 1 .. Len(arrays)
      BY CallTypes, Zenon
    <3> HIDE DEF a
    <3> QED  BY <1>2, <2>2, <3>1, <3>2
  <2> QED  BY <1>6, <2>1, <2>2
<1>10. OwnSlice(g, k, a, slice, new)
  <2>1. 1 \in 1 .. Len(arrays) /\ arrays'[1] = << >>
    BY <1>1, <1>2, <1>6, <1>8
  <2>2. arrays' \in Memory /\ Keeps(arrays, arrays', a) /\ Sliced(arrays', slice)
    BY <1>1, <1>6
  <2> QED  BY <1>1, <1>3, <1>6, <1>7, <1>9, <2>1, <2>2 DEF OwnSlice
<1>11. /\ HeadersKept /\ MemoryInv' /\ ContextsInv' /\ CallsInv' /\ Budget' /\ OwnArrays'
       /\ \A f \in Goroutines : f # g /\ call'[f].running => Progress(f)'
       /\ \A l \in Keys : l # k => Held(arrays', new.h[l]) = Held(arrays, call[g].h[l])
  <2> HIDE DEF k, a
  <2>1. new \in Calls /\ k \in Keys /\ slice \in Slices
    BY <1>4, <1>6, <1>7 DEF k
  <2>2. HeadersKept /\ MemoryInv' /\ ContextsInv' /\ CallsInv' /\ Budget' /\ OwnArrays'
    BY <1>10, <2>1, OwnSliceStep
  <2>3. \A f \in Goroutines : f # g /\ call'[f].running => Progress(f)'
    BY <1>10, <2>1, OwnSliceStep
  <2>4. \A l \in Keys : l # k => Held(arrays', new.h[l]) = Held(arrays, call[g].h[l])
    BY <1>10, <2>1, OwnSliceStep
  <2> QED  BY <2>2, <2>3, <2>4
<1>12. call'[g] = new
  BY <1>3 DEF IInv, CallsInv
<1>13. Progress(g)'
  <2>1. PICK keyvals \in Keyvals : \E n \in 0 .. Len(keyvals) :
            /\ call[g].rest = SubSeq(keyvals, n + 1, Len(keyvals))
            /\ call[g].todo # {} => n = 0
            /\ \A l \in Keys :
                Held(arrays, call[g].h[l]) = Taken(g, l) \o Tree!Given(l, keyvals)[n]
    BY <1>1 DEF IInv, Progress
  <2>2. PICK n \in 0 .. Len(keyvals) :
            /\ call[g].rest = SubSeq(keyvals, n + 1, Len(keyvals))
            /\ \A l \in Keys :
                Held(arrays, call[g].h[l]) = Taken(g, l) \o Tree!Given(l, keyvals)[n]
    BY <2>1
  <2> DEFINE N == Len(keyvals)
             given(l, m) == Tree!Given(l, keyvals)[m]
  <2>3. keyvals \in Seq(Pairs) /\ N \in Nat
    BY CallCtxAssumption
  <2>4. n + 1 \in 1 .. N
    <3>1. CASE n = N
      BY <1>1, <2>2, <2>3, <3>1, SubSeqEmpty
    <3> QED  BY <2>3, <3>1
  <2>5. pair = keyvals[n + 1] /\ Tail(call[g].rest) = SubSeq(keyvals, n + 2, N)
    <3> DEFINE m == n + 1
    <3>1. m \in 1 .. N /\ N \in m .. N /\ m + 1 = n + 2
      BY <2>3, <2>4
    <3>2. call[g].rest = SubSeq(keyvals, m, N)
      BY <2>2
    <3> HIDE DEF m, N
    <3>3. Head(SubSeq(keyvals, m, N)) = keyvals[m] /\ Tail(SubSeq(keyvals, m, N)) = SubSeq(keyvals, m + 1, N)
      BY <2>3, <3>1, HeadTailOfSubSeq DEF N
    <3>4. pair = keyvals[m] /\ Tail(call[g].rest) = SubSeq(keyvals, m + 1, N)
      BY <3>2, <3>3 DEF pair
    <3> QED  BY <3>1, <3>4 DEF m
  <2>6. ASSUME NEW l \in Keys
        PROVE  /\ given(l, n) \in Seq(Values)
               /\ given(l, n + 1) = IF pair.key = l THEN Append(given(l, n), pair.value)
                                    ELSE given(l, n)
    <3>1. /\ Tree!Given(l, keyvals) \in [0 .. N -> Seq(Values)]
          /\ \A m \in 1 .. N :
                Tree!Given(l, keyvals)[m] =
                      IF keyvals[m].key = l
                      THEN Append(Tree!Given(l, keyvals)[m - 1], keyvals[m].value)
                      ELSE Tree!Given(l, keyvals)[m - 1]
      BY <2>3, GivenFacts
    <3>2. (n + 1) - 1 = n
      BY <2>3
    <3> QED  BY <2>4, <2>5, <3>1, <3>2
  <2> HIDE DEF given
  <2>7. ASSUME NEW l \in Keys
        PROVE  Held(arrays', call'[g].h[l]) = Taken(g, l)' \o given(l, n + 1)
    <3>1. Held(arrays', contexts[call[g].parent].headers[l])
                = Held(arrays, contexts[call[g].parent].headers[l])
      BY <1>2, <1>11 DEF HeadersKept
    <3>2. Taken(g, l)' = Taken(g, l)
      BY <1>1, <1>7, <1>12, <3>1 DEF Taken
    <3>3. Held(arrays, call[g].h[l]) = Taken(g, l) \o given(l, n)
      BY <2>2 DEF given
    <3>4. CASE l # k
      <4>1. Held(arrays', call'[g].h[l]) = Held(arrays, call[g].h[l])
        BY <1>11, <1>12, <3>4
      <4>2. given(l, n + 1) = given(l, n)
        BY <2>6, <3>4
      <4> QED  BY <3>2, <3>3, <4>1, <4>2
    <3>5. CASE l = k
      <4>1. Held(arrays', call'[g].h[l]) = Append(Held(arrays, old), v)
        <5> HIDE DEF k, v, old
        <5>1. call'[g].h[l] = slice
          BY <1>2, <1>4, <1>7, <1>12, <3>5 DEF k
        <5> QED  BY <1>1, <1>6, <5>1
      <4>2. given(l, n + 1) = Append(given(l, n), v)
        BY <2>6, <3>5
      <4>3. Taken(g, l) \in Seq(Values)
        <5>1. Taken(g, l) = Held(arrays, contexts[call[g].parent].headers[l])
          BY <1>1 DEF Taken
        <5> QED  BY <1>2, <5>1, HeldType, Types
      <4> DEFINE s == Taken(g, l)
                 t == given(l, n)
      <4>4. s \in Seq(Values) /\ t \in Seq(Values) /\ v \in Values
        BY <1>4, <2>6, <4>3
      <4> HIDE DEF s, t, v
      <4>5. Longer(s \o t, v) = s \o Longer(t, v)
        BY <4>4, AppendConcat
      <4>6. Held(arrays, old) = s \o t
        BY <3>3, <3>5 DEF s, t
      <4>7. Taken(g, l)' = s
        BY <3>2 DEF s
      <4> QED  BY <4>1, <4>2, <4>5, <4>6, <4>7 DEF Longer, t
    <3> QED  BY <3>4, <3>5
  <2>8. call'[g].rest = SubSeq(keyvals, (n + 1) + 1, N) /\ call'[g].todo = {}
    <3>1. n + 2 = (n + 1) + 1
      BY <2>3
    <3> QED  BY <1>1, <1>7, <1>12, <2>5, <3>1
  <2>9. n + 1 \in 0 .. N
    BY <2>3, <2>4
  <2> QED  BY <2>7, <2>8, <2>9 DEF Progress, given
<1> QED  BY <1>11, <1>13 DEF IInv

(* A context is made of slices there are: nothing happens to the others. *)
LEMMA NewContext ==
    ASSUME IInv, NEW ctx \in Contexts, \A k \in Keys : Sliced(arrays, ctx.headers[k]),
           contexts' = Append(contexts, ctx), arrays' = arrays
    PROVE  /\ HeadersKept /\ MemoryInv' /\ ContextsInv'
           /\ Len(contexts') = Len(contexts) + 1 /\ contexts'[Len(contexts) + 1] = ctx
           /\ \A i \in 1 .. Len(contexts) : contexts'[i] = contexts[i]
<1>1. contexts \in Seq(Contexts) /\ Len(contexts) \in Nat /\ Len(contexts) >= 1
  BY Types
<1>2. /\ contexts' \in Seq(Contexts) /\ Len(contexts') = Len(contexts) + 1
      /\ contexts'[Len(contexts) + 1] = ctx
      /\ \A i \in 1 .. Len(contexts) : contexts'[i] = contexts[i]
  BY <1>1, AppendProperties
<1>3. HeadersKept
  BY Types DEF HeadersKept
<1>4. MemoryInv'
  BY DEF IInv, MemoryInv
<1>5. ASSUME NEW i \in 1 .. Len(contexts'), NEW k \in Keys
      PROVE  Sliced(arrays', contexts'[i].headers[k])
  <2>1. CASE i = Len(contexts) + 1
    BY <1>2, <2>1
  <2>2. CASE i \in 1 .. Len(contexts)
    BY <1>2, <2>2, Types
  <2> QED  BY <1>1, <1>2, <2>1, <2>2
<1> QED  BY <1>1, <1>2, <1>3, <1>4, <1>5 DEF ContextsInv

(* The progress of a call that is not concerned. *)
LEMMA ProgressKept ==
    ASSUME IInv, HeadersKept, NEW g \in Goroutines, call[g].running, arrays' = arrays,
           call'[g] = call[g],
           \A i \in 1 .. Len(contexts) : contexts'[i] = contexts[i]
    PROVE  Progress(g)'
<1>1. Progress(g) /\ call[g].parent \in 1 .. Len(contexts)
  BY Types DEF IInv
<1>2. \A l \in Keys : Taken(g, l)' = Taken(g, l)
  BY <1>1 DEF Taken
<1>3. \A l \in Keys : Held(arrays', call'[g].h[l]) = Held(arrays, call[g].h[l])
  OBVIOUS
<1>4. PICK keyvals \in Keyvals : \E n \in 0 .. Len(keyvals) :
          /\ call[g].rest = SubSeq(keyvals, n + 1, Len(keyvals))
          /\ call[g].todo # {} => n = 0
          /\ \A l \in Keys :
              Held(arrays, call[g].h[l]) = Taken(g, l) \o Tree!Given(l, keyvals)[n]
  BY <1>1 DEF Progress
<1>5. PICK n \in 0 .. Len(keyvals) :
          /\ call[g].rest = SubSeq(keyvals, n + 1, Len(keyvals))
          /\ call[g].todo # {} => n = 0
          /\ \A l \in Keys :
              Held(arrays, call[g].h[l]) = Taken(g, l) \o Tree!Given(l, keyvals)[n]
  BY <1>4
<1>6. /\ call'[g].rest = SubSeq(keyvals, n + 1, Len(keyvals))
      /\ call'[g].todo # {} => n = 0
      /\ \A l \in Keys :
          Held(arrays', call'[g].h[l]) = Taken(g, l)' \o Tree!Given(l, keyvals)[n]
  BY <1>2, <1>3, <1>5
<1> QED  BY <1>6 DEF Progress

(* A call returns: its slices become those of a context, and its no more. *)
LEMMA ReturnStep ==
    ASSUME IInv, NEW g \in Goroutines, Return(g)
    PROVE  IInv' /\ HeadersKept
<1> DEFINE ctx == [contexts[call[g].parent] EXCEPT !.headers = call[g].h]
<1>1. /\ call[g].running /\ contexts' = Append(contexts, ctx)
      /\ call' = [call EXCEPT ![g] = Idle] /\ arrays' = arrays
  BY DEF Return
<1>2. /\ ctx \in Contexts /\ ctx.headers = call[g].h
      /\ Len(contexts) \in Nat
  <2>1. /\ contexts[call[g].parent] \in Contexts /\ call[g].h \in [Keys -> Slices]
        /\ Len(contexts) \in Nat
    BY Types
  <2> QED  BY <2>1 DEF Contexts
<1>3. \A k \in Keys : Sliced(arrays, ctx.headers[k])
  BY <1>2, Types
<1> HIDE DEF ctx
<1>4. /\ HeadersKept /\ MemoryInv' /\ ContextsInv'
      /\ Len(contexts') = Len(contexts) + 1 /\ contexts'[Len(contexts) + 1] = ctx
      /\ \A i \in 1 .. Len(contexts) : contexts'[i] = contexts[i]
  BY <1>1, <1>2, <1>3, NewContext
<1>5. /\ call' \in [Goroutines -> Calls] /\ call'[g] = Idle
      /\ \A f \in Goroutines : f # g => call'[f] = call[f]
  BY <1>1, NilFacts DEF IInv, CallsInv
<1>6. /\ Idle.running = FALSE /\ Idle.todo = {} /\ Idle.parent = 1
      /\ \A k \in Keys : Idle.h[k] = NilSlice
  BY DEF Idle, NoHeaders
<1>7. CallsInv'
  <2>1. ASSUME NEW f \in Goroutines
        PROVE  /\ call'[f].parent \in 1 .. Len(contexts')
               /\ ~call'[f].running => call'[f].todo = {}
               /\ \A k \in Keys : Sliced(arrays', call'[f].h[k])
    <3>1. CASE f = g
      <4>1. \A k \in Keys : Sliced(arrays, Idle.h[k])
        BY <1>6, NilFacts, Types
      <4> QED  BY <1>1, <1>2, <1>4, <1>5, <1>6, <3>1, <4>1
    <3>2. CASE f # g
      <4>1. /\ call[f].parent \in 1 .. Len(contexts)
            /\ ~call[f].running => call[f].todo = {}
            /\ \A k \in Keys : Sliced(arrays, call[f].h[k])
        BY DEF IInv, CallsInv
      <4> QED  BY <1>1, <1>2, <1>4, <1>5, <3>2, <4>1
    <3> QED  BY <3>1, <3>2
  <2> QED  BY <1>5, <2>1 DEF CallsInv
<1>8. Budget'
  <2>1. Running' = Running \ {g} /\ g \in Running
    BY <1>1, <1>5, <1>6 DEF Running
  <2>2. IsFiniteSet(Running) /\ Cardinality(Running) \in Nat
    BY FS_CardinalityType DEF IInv, Budget
  <2>3. /\ IsFiniteSet(Running \ {g})
        /\ Cardinality(Running \ {g}) = Cardinality(Running) - 1
    BY <2>1, <2>2, FS_RemoveElement
  <2>4. Len(contexts) + Cardinality(Running) <= MaxContexts
    BY DEF IInv, Budget
  <2>5. IsFiniteSet(Running') /\ Cardinality(Running') = Cardinality(Running) - 1
    BY <2>1, <2>3
  <2> HIDE DEF Running
  <2>6. Len(contexts') + Cardinality(Running') <= MaxContexts
    BY <1>2, <1>4, <2>2, <2>4, <2>5, CallCtxAssumption
  <2> QED  BY <2>5, <2>6 DEF Budget
<1>9. OwnArrays'
  <2>1. SUFFICES ASSUME NEW f \in Goroutines, NEW l \in Keys,
                        call'[f].h[l].array # NilSlice.array
                 PROVE  /\ \A i \in 1 .. Len(contexts'), m \in Keys :
                              contexts'[i].headers[m].array # call'[f].h[l].array
                        /\ \A e \in Goroutines, m \in Keys :
                              call'[e].h[m].array = call'[f].h[l].array => e = f /\ m = l
    BY DEF OwnArrays
  <2>2. f # g /\ call'[f] = call[f]
    BY <1>5, <1>6, <2>1
  <2>3. /\ \A i \in 1 .. Len(contexts), m \in Keys :
              contexts[i].headers[m].array # call[f].h[l].array
        /\ \A e \in Goroutines, m \in Keys :
              call[e].h[m].array = call[f].h[l].array => e = f /\ m = l
    BY <2>1, <2>2 DEF IInv, OwnArrays
  <2>4. ASSUME NEW i \in 1 .. Len(contexts'), NEW m \in Keys
        PROVE  contexts'[i].headers[m].array # call'[f].h[l].array
    <3>1. CASE i = Len(contexts) + 1
      BY <1>2, <1>4, <2>2, <2>3, <3>1
    <3>2. CASE i \in 1 .. Len(contexts)
      BY <1>4, <2>2, <2>3, <3>2
    <3> QED  BY <1>2, <1>4, <3>1, <3>2
  <2>5. ASSUME NEW e \in Goroutines, NEW m \in Keys,
               call'[e].h[m].array = call'[f].h[l].array
        PROVE  e = f /\ m = l
    <3>1. e # g /\ call'[e] = call[e]
      BY <1>5, <1>6, <2>1, <2>5
    <3> QED  BY <2>2, <2>3, <2>5, <3>1
  <2> QED  BY <2>4, <2>5
<1>10. ASSUME NEW f \in Goroutines, call'[f].running
       PROVE  Progress(f)'
  <2>1. f # g /\ call'[f] = call[f] /\ call[f].running
    BY <1>5, <1>6, <1>10
  <2> QED  BY <1>1, <1>4, <2>1, ProgressKept
<1> QED  BY <1>4, <1>7, <1>8, <1>9, <1>10 DEF IInv

(* Metadata is inserted: a context with the slices of another one. *)
LEMMA InsertStep ==
    ASSUME IInv, NEW i \in 1 .. Len(contexts), NEW keyvals \in Keyvals,
           InsertMetadataIntoOutgoingContext(i, keyvals)
    PROVE  IInv' /\ HeadersKept
<1> DEFINE metadata == insertMetadata(contexts[i].metadata, HeadersOf(i), keyvals)
           ctx == [contexts[i] EXCEPT !.metadata = metadata]
<1>1. /\ HasRoom /\ contexts' = Append(contexts, ctx) /\ arrays' = arrays /\ call' = call
  BY DEF InsertMetadataIntoOutgoingContext
<1>2. HeadersOf(i) \in [Keys -> Seq(Values)]
  <2>1. \A k \in Keys : Elements(HeadersFromContext(i)[k]) \in Seq(Values)
    <3> TAKE k \in Keys
    <3>1. contexts[i].headers[k] \in Slices /\ Sliced(arrays, contexts[i].headers[k])
          /\ arrays \in Memory
      BY Types
    <3> DEFINE slice == contexts[i].headers[k]
    <3> HIDE DEF slice
    <3>2. Held(arrays, slice) \in Seq(Values)
      BY <3>1, HeldType DEF slice
    <3> QED  BY <3>2, InTermsOfArrays DEF slice, HeadersFromContext
  <2> QED  BY <2>1 DEF HeadersOf
<1>3. /\ contexts[i] \in Contexts /\ contexts[i].metadata \in [Keys -> Seq(Seq(Values))]
      /\ keyvals \in Seq(Pairs) /\ Len(contexts) \in Nat
  BY CallCtxAssumption, Types
<1>4. metadata \in [Keys -> Seq(Seq(Values))]
  <2> DEFINE md == contexts[i].metadata
             hs == HeadersOf(i)
  <2>1. md \in [Keys -> Seq(Seq(Values))] /\ hs \in [Keys -> Seq(Values)]
    BY <1>2, <1>3
  <2> HIDE DEF md, hs
  <2>2. insertMetadata(md, hs, keyvals) \in [Keys -> Seq(Seq(Values))]
    BY <1>3, <2>1, InsertFacts
  <2> QED  BY <2>2 DEF md, hs
<1> HIDE DEF metadata
<1>5. ctx \in Contexts /\ ctx.headers = contexts[i].headers
  BY <1>3, <1>4 DEF Contexts
<1>6. \A k \in Keys : Sliced(arrays, ctx.headers[k])
  BY <1>5, Types
<1> HIDE DEF ctx
<1>7. /\ HeadersKept /\ MemoryInv' /\ ContextsInv'
      /\ Len(contexts') = Len(contexts) + 1 /\ contexts'[Len(contexts) + 1] = ctx
      /\ \A j \in 1 .. Len(contexts) : contexts'[j] = contexts[j]
  BY <1>1, <1>5, <1>6, NewContext
<1>8. CallsInv'
  <2>1. call' \in [Goroutines -> Calls]
    BY <1>1 DEF IInv, CallsInv
  <2>2. ASSUME NEW f \in Goroutines
        PROVE  /\ call'[f].parent \in 1 .. Len(contexts')
               /\ ~call'[f].running => call'[f].todo = {}
               /\ \A k \in Keys : Sliced(arrays', call'[f].h[k])
    <3>1. /\ call[f].parent \in 1 .. Len(contexts)
          /\ ~call[f].running => call[f].todo = {}
          /\ \A k \in Keys : Sliced(arrays, call[f].h[k])
      BY DEF IInv, CallsInv
    <3> QED  BY <1>1, <1>3, <1>7, <3>1
  <2> QED  BY <2>1, <2>2 DEF CallsInv
<1>9. Budget'
  <2>1. IsFiniteSet(Running) /\ Cardinality(Running) \in Nat
    BY FS_CardinalityType DEF IInv, Budget
  <2>2. Running' = Running
    BY <1>1 DEF Running
  <2>3. Len(contexts) + Cardinality(Running) < MaxContexts
    BY <1>1 DEF HasRoom
  <2> HIDE DEF Running
  <2>4. Len(contexts') + Cardinality(Running') <= MaxContexts
    BY <1>3, <1>7, <2>1, <2>2, <2>3, CallCtxAssumption
  <2> QED  BY <2>1, <2>2, <2>4 DEF Budget
<1>10. OwnArrays'
  <2>1. SUFFICES ASSUME NEW f \in Goroutines, NEW l \in Keys,
                        call[f].h[l].array # NilSlice.array
                 PROVE  /\ \A j \in 1 .. Len(contexts'), m \in Keys :
                              contexts'[j].headers[m].array # call[f].h[l].array
                        /\ \A e \in Goroutines, m \in Keys :
                              call[e].h[m].array = call[f].h[l].array => e = f /\ m = l
    BY <1>1 DEF OwnArrays
  <2>2. /\ \A j \in 1 .. Len(contexts), m \in Keys :
              contexts[j].headers[m].array # call[f].h[l].array
        /\ \A e \in Goroutines, m \in Keys :
              call[e].h[m].array = call[f].h[l].array => e = f /\ m = l
    BY <2>1 DEF IInv, OwnArrays
  <2>3. ASSUME NEW j \in 1 .. Len(contexts'), NEW m \in Keys
        PROVE  contexts'[j].headers[m].array # call[f].h[l].array
    <3>1. CASE j = Len(contexts) + 1
      BY <1>5, <1>7, <2>2, <3>1
    <3>2. CASE j \in 1 .. Len(contexts)
      BY <1>7, <2>2, <3>2
    <3> QED  BY <1>3, <1>7, <3>1, <3>2
  <2> QED  BY <2>2, <2>3
<1>11. ASSUME NEW f \in Goroutines, call'[f].running
       PROVE  Progress(f)'
  BY <1>1, <1>7, <1>11, ProgressKept
<1> QED  BY <1>7, <1>8, <1>9, <1>10, <1>11 DEF IInv

----------------------------------------------------------------------------
(* The invariant. *)
LEMMA InitInv == HeaderInit => IInv
<1> SUFFICES ASSUME HeaderInit PROVE IInv
  OBVIOUS
<1> DEFINE first == [headers |-> NoHeaders, metadata |-> NoMetadata]
<1>1. arrays = << << >> >> /\ contexts = << first >> /\ call = [g \in Goroutines |-> Idle]
  BY DEF HeaderInit, Init
<1>2. first \in Contexts
  <2>1. NoMetadata \in [Keys -> Seq(Seq(Values))]
    BY DEF NoMetadata
  <2> QED  BY <2>1, NilFacts DEF Contexts
<1>3. \A k \in Keys : first.headers[k] = NilSlice /\ Idle.h[k] = NilSlice
  BY DEF NoHeaders, Idle
<1> HIDE DEF first
<1>4. MemoryInv
  BY <1>1 DEF MemoryInv, Memory
<1>5. Sliced(arrays, NilSlice)
  BY <1>4, NilFacts DEF MemoryInv
<1>6. Len(contexts) = 1 /\ contexts[1] = first /\ contexts \in Seq(Contexts)
  BY <1>1, <1>2
<1>7. ContextsInv
  <2>1. \A i \in 1 .. Len(contexts) : i = 1
    BY <1>6
  <2> QED  BY <1>3, <1>5, <1>6, <2>1 DEF ContextsInv
<1>8. CallsInv
  <2>1. \A g \in Goroutines : call[g] = Idle
    BY <1>1
  <2>2. Idle.parent = 1 /\ Idle.todo = {}
    BY DEF Idle
  <2> QED  BY <1>1, <1>3, <1>5, <1>6, <2>1, <2>2, NilFacts DEF CallsInv
<1>9. Running = {} /\ \A g \in Goroutines : ~call[g].running
  BY <1>1 DEF Running, Idle
<1>10. Budget
  BY <1>6, <1>9, FS_EmptySet, CallCtxAssumption DEF Budget
<1>11. OwnArrays
  <2>1. \A g \in Goroutines, k \in Keys : call[g].h[k] = NilSlice
    BY <1>1, <1>3
  <2> QED  BY <2>1 DEF OwnArrays
<1> QED  BY <1>4, <1>7, <1>8, <1>9, <1>10, <1>11 DEF IInv

LEMMA NextInv == IInv /\ [HeaderNext]_headerVars => IInv'
<1> SUFFICES ASSUME IInv, [HeaderNext]_headerVars PROVE IInv'
  OBVIOUS
<1>1. ASSUME NEW g \in Goroutines, NEW i \in 1 .. Len(contexts), NEW keyvals \in Keyvals,
             Begin(g, i, keyvals)
      PROVE  IInv'
  BY <1>1, BeginStep
<1>2. ASSUME NEW g \in Goroutines, NEW k \in Keys, CloneHeader(g, k)
      PROVE  IInv'
  BY <1>2, CloneStep
<1>3. ASSUME NEW g \in Goroutines, AppendValue(g)
      PROVE  IInv'
  BY <1>3, AppendStep
<1>4. ASSUME NEW g \in Goroutines, Return(g)
      PROVE  IInv'
  BY <1>4, ReturnStep
<1>5. ASSUME NEW i \in 1 .. Len(contexts), NEW keyvals \in Keyvals,
             InsertMetadataIntoOutgoingContext(i, keyvals)
      PROVE  IInv'
  BY <1>5, InsertStep
<1>6. CASE Full \/ UNCHANGED headerVars
  <2>1. arrays' = arrays /\ contexts' = contexts /\ call' = call
    BY <1>6 DEF Full, headerVars, vars
  <2>2. Running' = Running
    BY <2>1 DEF Running
  <2>3. Budget'
    <3> HIDE DEF Running
    <3> QED  BY <2>1, <2>2 DEF IInv, Budget
  <2>4. MemoryInv' /\ ContextsInv' /\ CallsInv' /\ OwnArrays'
    BY <2>1 DEF IInv, MemoryInv, ContextsInv, CallsInv, OwnArrays
  <2>5. HeadersKept
    BY <2>1, Types DEF HeadersKept
  <2>6. ASSUME NEW g \in Goroutines, call'[g].running
        PROVE  Progress(g)'
    BY <2>1, <2>5, <2>6, ProgressKept
  <2> QED  BY <2>3, <2>4, <2>6 DEF IInv
<1> QED  BY <1>1, <1>2, <1>3, <1>4, <1>5, <1>6 DEF HeaderNext, SetHeadersStep

LEMMA Inductive == HeaderSpec => []IInv
BY InitInv, NextInv, PTL DEF HeaderSpec

LEMMA InvTypes == IInv => TypeOK
<1> SUFFICES ASSUME IInv PROVE TypeOK
  OBVIOUS
<1>1. Len(contexts) <= MaxContexts
  <2>1. Cardinality(Running) \in Nat
    BY FS_CardinalityType DEF IInv, Budget
  <2>2. Len(contexts) + Cardinality(Running) <= MaxContexts
    BY DEF IInv, Budget
  <2>3. Len(contexts) \in Nat
    BY Types
  <2> QED  BY <2>1, <2>2, <2>3, CallCtxAssumption
<1>2. Len(contexts) \in 1 .. MaxContexts
  BY <1>1, Types, CallCtxAssumption
<1> QED  BY <1>2, Types, InTermsOfArrays DEF TypeOK, Memory, IInv, CallsInv

(* SetHeaders and InsertMetadataIntoOutgoingContext, in any number of        *)
(* goroutines: every slice a context or a call holds is in an array that     *)
(* exists, within its capacity, and all its elements were written            *)
(* (v2/callctx/callctx.go, v2/header.go).                                    *)
THEOREM HeadersAreTyped == HeaderSpec => []TypeOK
BY Inductive, InvTypes, PTL

(* What cloneHeaders copies for: no context and no other call has a slice of *)
(* an array a call may append to, in whatever order the goroutines take      *)
(* their steps (v2/callctx/callctx.go).                                      *)
THEOREM AppendsAreOwn == HeaderSpec => []OwnArrays
<1>1. IInv => OwnArrays
  BY DEF IInv
<1> QED  BY <1>1, Inductive, PTL

----------------------------------------------------------------------------
(* Contexts are values: the refinement of the tree of contexts. *)
Node(i) == [headers |-> HeadersOf(i), metadata |-> contexts[i].metadata]
Nodes == [headers : [Keys -> Seq(Values)], metadata : [Keys -> Seq(Seq(Values))]]
TreeNow == [i \in 1 .. Len(contexts) |-> Node(i)]

LEMMA HeadersOfFacts ==
    ASSUME IInv, NEW i \in 1 .. Len(contexts)
    PROVE  /\ HeadersOf(i) = [k \in Keys |-> Held(arrays, contexts[i].headers[k])]
           /\ HeadersOf(i) \in [Keys -> Seq(Values)]
<1>1. \A k \in Keys : Held(arrays, contexts[i].headers[k]) \in Seq(Values)
  <2> TAKE k \in Keys
  <2> DEFINE slice == contexts[i].headers[k]
  <2>1. slice \in Slices /\ Sliced(arrays, slice) /\ arrays \in Memory
    BY Types
  <2> HIDE DEF slice
  <2>2. Held(arrays, slice) \in Seq(Values)
    BY <2>1, HeldType
  <2> QED  BY <2>2 DEF slice
<1>2. HeadersOf(i) = [k \in Keys |-> Held(arrays, contexts[i].headers[k])]
  BY InTermsOfArrays DEF HeadersOf, HeadersFromContext
<1> QED  BY <1>1, <1>2

LEMMA NodeFacts ==
    ASSUME IInv
    PROVE  /\ \A i \in 1 .. Len(contexts) : Node(i) \in Nodes
           /\ TreeNow \in Seq(Nodes) /\ Len(TreeNow) = Len(contexts)
           /\ \A i \in 1 .. Len(contexts) : TreeNow[i] = Node(i)
<1>1. \A i \in 1 .. Len(contexts) : Node(i) \in Nodes
  <2> TAKE i \in 1 .. Len(contexts)
  <2>1. contexts[i].metadata \in [Keys -> Seq(Seq(Values))]
    BY Types
  <2>2. HeadersOf(i) \in [Keys -> Seq(Values)]
    BY HeadersOfFacts
  <2> QED  BY <2>1, <2>2 DEF Node, Nodes
<1>2. Len(contexts) \in Nat
  BY Types
<1> QED  BY <1>1, <1>2 DEF TreeNow

(* No context changes. *)
LEMMA NodeKept ==
    ASSUME IInv, HeadersKept, NEW i \in 1 .. Len(contexts), contexts'[i] = contexts[i]
    PROVE  Node(i)' = Node(i)
<1>1. \A k \in Keys : Held(arrays', contexts'[i].headers[k]) = Held(arrays, contexts[i].headers[k])
  BY DEF HeadersKept
<1>2. HeadersOf(i)' = HeadersOf(i)
  BY <1>1 DEF HeadersOf, HeadersFromContext, Elements, Held
<1> QED  BY <1>2 DEF Node

LEMMA TreeKept ==
    ASSUME IInv, HeadersKept, contexts' = contexts
    PROVE  TreeNow' = TreeNow
<1>1. \A i \in 1 .. Len(contexts) : Node(i)' = Node(i)
  BY NodeKept
<1> QED  BY <1>1 DEF TreeNow

LEMMA TreeGrows ==
    ASSUME IInv, HeadersKept, Len(contexts') = Len(contexts) + 1,
           \A i \in 1 .. Len(contexts) : contexts'[i] = contexts[i],
           NEW node \in Nodes, NEW n, n = Len(contexts) + 1, Node(n)' = node
    PROVE  TreeNow' = Append(TreeNow, node)
<1> DEFINE N == Len(contexts)
           grown == Append(TreeNow, node)
<1>1. TreeNow \in Seq(Nodes) /\ Len(TreeNow) = N /\ N \in Nat
      /\ \A i \in 1 .. N : TreeNow[i] = Node(i)
  BY NodeFacts, Types
<1>2. /\ grown \in Seq(Nodes) /\ Len(grown) = N + 1 /\ grown[N + 1] = node
      /\ \A i \in 1 .. N : grown[i] = Node(i)
  BY <1>1, AppendProperties
<1>3. \A i \in 1 .. N : Node(i)' = Node(i)
  BY NodeKept
<1>4. ASSUME NEW i \in 1 .. N + 1
      PROVE  Node(i)' = IF i = N + 1 THEN node ELSE Node(i)
  <2>1. CASE i = N + 1
    <3>1. i = n
      BY <2>1
    <3> QED  BY <2>1, <3>1
  <2>2. CASE i \in 1 .. N
    BY <1>1, <1>3, <2>2
  <2> QED  BY <1>1, <2>1, <2>2
<1>5. /\ TreeNow' \in Seq(Nodes) /\ Len(TreeNow') = N + 1
      /\ \A i \in 1 .. N + 1 : TreeNow'[i] = IF i = N + 1 THEN node ELSE Node(i)
  <2>1. TreeNow' = [i \in 1 .. N + 1 |-> IF i = N + 1 THEN node ELSE Node(i)]
    BY <1>4 DEF TreeNow
  <2>2. \A i \in 1 .. N + 1 : (IF i = N + 1 THEN node ELSE Node(i)) \in Nodes
    BY <1>1, NodeFacts
  <2> QED  BY <1>1, <2>1, <2>2
<1> HIDE DEF grown
<1>6. ASSUME NEW i \in 1 .. N + 1
      PROVE  TreeNow'[i] = grown[i]
  BY <1>1, <1>2, <1>5
<1>7. TreeNow' = grown
  BY <1>2, <1>5, <1>6, SeqEqual
<1> QED  BY <1>7 DEF grown

(* The tree's own names for what is derived from a node. *)
LEMMA TreeActions ==
    /\ \A i \in 1 .. Len(contexts), keyvals \in Keyvals :
            Len(TreeNow) = Len(contexts)
                /\ TreeNow' = Append(TreeNow, Tree!WithHeaders(TreeNow[i], keyvals))
            => Tree!Next
    /\ \A i \in 1 .. Len(contexts), keyvals \in Keyvals :
            Len(TreeNow) = Len(contexts)
                /\ TreeNow' = Append(TreeNow, Tree!WithMetadata(TreeNow[i], keyvals))
            => Tree!Next
BY DEF Tree!Next, Tree!SetHeaders, Tree!InsertMetadata, TreeNow, Node

LEMMA InitTree == HeaderInit => Tree!Init
<1> SUFFICES ASSUME HeaderInit PROVE Tree!Init
  OBVIOUS
<1>1. IInv
  BY InitInv
<1>2. /\ Len(contexts) = 1
      /\ contexts[1] = [headers |-> NoHeaders, metadata |-> NoMetadata]
  BY DEF HeaderInit, Init
<1>3. HeadersOf(1) = [k \in Keys |-> << >>]
  <2>1. HeadersOf(1) = [k \in Keys |-> Held(arrays, contexts[1].headers[k])]
    BY <1>1, <1>2, HeadersOfFacts
  <2>2. \A k \in Keys : contexts[1].headers[k] = NilSlice
    BY <1>2 DEF NoHeaders
  <2> QED  BY <2>1, <2>2, NilFacts
<1> DEFINE root == [headers |-> [k \in Keys |-> << >>], metadata |-> [k \in Keys |-> << >>]]
<1>4. Node(1) = root
  BY <1>2, <1>3 DEF Node, NoMetadata
<1> HIDE DEF root
<1>5. TreeNow = << root >>
  <2>1. TreeNow \in Seq(Nodes) /\ Len(TreeNow) = 1 /\ TreeNow[1] = root /\ root \in Nodes
    BY <1>1, <1>2, <1>4, NodeFacts
  <2>2. << root >> \in Seq(Nodes) /\ Len(<< root >>) = 1 /\ << root >>[1] = root
    BY <2>1
  <2>3. \A i \in 1 .. Len(TreeNow) : TreeNow[i] = << root >>[i]
    BY <2>1, <2>2
  <2> QED  BY <2>1, <2>2, <2>3, SeqEqual
<1> QED  BY <1>5 DEF Tree!Init, TreeNow, Node, root

(* A call that returns has set the headers of one list on its parent. *)
LEMMA ReturnSets ==
    ASSUME IInv, NEW g \in Goroutines, Return(g)
    PROVE  Tree!Next
<1> DEFINE p == call[g].parent
           ctx == [contexts[p] EXCEPT !.headers = call[g].h]
           N == Len(contexts)
<1>1. /\ call[g].running /\ call[g].todo = {} /\ call[g].rest = << >>
      /\ contexts' = Append(contexts, ctx) /\ arrays' = arrays
  BY DEF Return
<1>2. HeadersKept
  BY ReturnStep
<1>3. /\ contexts \in Seq(Contexts) /\ N \in Nat /\ p \in 1 .. N
      /\ contexts[p] \in Contexts /\ call[g].h \in [Keys -> Slices]
      /\ arrays \in Memory
  BY Types
<1>4. /\ ctx \in Contexts /\ ctx.headers = call[g].h
      /\ ctx.metadata = contexts[p].metadata
  BY <1>3 DEF Contexts
<1> HIDE DEF ctx
<1>5. /\ Len(contexts') = N + 1 /\ contexts'[N + 1] = ctx
      /\ \A i \in 1 .. N : contexts'[i] = contexts[i]
  BY <1>1, <1>3, <1>4, AppendProperties
<1>6. PICK keyvals \in Keyvals : \E n \in 0 .. Len(keyvals) :
          /\ call[g].rest = SubSeq(keyvals, n + 1, Len(keyvals))
          /\ \A k \in Keys :
              Held(arrays, call[g].h[k]) = Taken(g, k) \o Tree!Given(k, keyvals)[n]
  BY <1>1 DEF IInv, Progress
<1>7. keyvals \in Seq(Pairs) /\ Len(keyvals) \in Nat
  BY CallCtxAssumption
<1>8. \A k \in Keys :
          Held(arrays, call[g].h[k]) =
              Held(arrays, contexts[p].headers[k]) \o Tree!ValuesFor(k, keyvals)
  <2>1. PICK n \in 0 .. Len(keyvals) :
          /\ call[g].rest = SubSeq(keyvals, n + 1, Len(keyvals))
          /\ \A k \in Keys :
              Held(arrays, call[g].h[k]) = Taken(g, k) \o Tree!Given(k, keyvals)[n]
    BY <1>6
  <2>2. n = Len(keyvals)
    <3>1. CASE n + 1 <= Len(keyvals)
      <4>1. \A i \in n + 1 .. Len(keyvals) : keyvals[i] \in Pairs
        BY <1>7
      <4>2. Len(SubSeq(keyvals, n + 1, Len(keyvals))) = Len(keyvals) - (n + 1) + 1
        BY <1>7, <3>1, <4>1, SubSeqProperties
      <4>3. call[g].rest = << >> /\ Len(<< >>) = 0
        BY <1>1
      <4>4. Len(SubSeq(keyvals, n + 1, Len(keyvals))) = 0
        BY <2>1, <4>3
      <4>5. Len(keyvals) - (n + 1) + 1 = 0
        BY <4>2, <4>4, Zenon
      <4> QED  BY <1>7, <3>1, <4>5
    <3> QED  BY <1>7, <3>1
  <2>3. \A k \in Keys : Taken(g, k) = Held(arrays, contexts[p].headers[k])
    BY <1>1 DEF Taken
  <2> QED  BY <2>1, <2>2, <2>3 DEF Tree!ValuesFor
<1> DEFINE node == Tree!WithHeaders(TreeNow[p], keyvals)
           hs == [k \in Keys |-> Held(arrays, call[g].h[k])]
<1>9. TreeNow[p] = Node(p) /\ Node(p) \in Nodes /\ Len(TreeNow) = N
  BY <1>3, NodeFacts
<1>10. hs = [k \in Keys |-> Node(p).headers[k] \o Tree!ValuesFor(k, keyvals)]
  <2>1. \A k \in Keys : Node(p).headers[k] = Held(arrays, contexts[p].headers[k])
    BY <1>3, HeadersOfFacts DEF Node
  <2> QED  BY <1>8, <2>1
<1>11. hs \in [Keys -> Seq(Values)]
  <2>1. \A k \in Keys : Held(arrays, call[g].h[k]) \in Seq(Values)
    <3> TAKE k \in Keys
    <3> DEFINE slice == call[g].h[k]
    <3>1. slice \in Slices /\ Sliced(arrays, slice)
      BY Types
    <3> HIDE DEF slice
    <3>2. Held(arrays, slice) \in Seq(Values)
      BY <1>3, <3>1, HeldType
    <3> QED  BY <3>2 DEF slice
  <2> QED  BY <2>1
<1>12. node = [headers |-> hs, metadata |-> contexts[p].metadata]
  <2> HIDE DEF hs
  <2>1. node = [Node(p) EXCEPT !.headers = hs]
    BY <1>9, <1>10 DEF Tree!WithHeaders
  <2>2. Node(p) = [headers |-> HeadersOf(p), metadata |-> contexts[p].metadata]
    BY DEF Node
  <2> HIDE DEF node, p
  <2> QED  BY <2>1, <2>2
<1>13. node \in Nodes
  <2>1. contexts[p].metadata \in [Keys -> Seq(Seq(Values))]
    BY <1>3, Types
  <2> HIDE DEF node, hs
  <2> QED  BY <1>11, <1>12, <2>1 DEF Nodes
<1>14. TreeNow' = Append(TreeNow, node)
  <2>1. PICK m : m = N + 1
    OBVIOUS
  <2>2. Node(m)' = [headers |-> [k \in Keys |-> Held(arrays', contexts'[m].headers[k])],
                    metadata |-> contexts'[m].metadata]
    BY DEF Node, HeadersOf, HeadersFromContext, Elements, Held
  <2>3. Node(m)' = node
    <3> HIDE DEF node
    <3> QED  BY <1>1, <1>4, <1>5, <1>12, <2>1, <2>2
  <2> HIDE DEF node
  <2> QED  BY <1>2, <1>5, <1>13, <2>1, <2>3, TreeGrows
<1> HIDE DEF p
<1> QED  BY <1>3, <1>9, <1>14, TreeActions

(* InsertMetadataIntoOutgoingContext inserts the metadata of one list. *)
LEMMA InsertInserts ==
    ASSUME IInv, NEW i \in 1 .. Len(contexts), NEW keyvals \in Keyvals,
           InsertMetadataIntoOutgoingContext(i, keyvals)
    PROVE  Tree!Next
<1> DEFINE md == contexts[i].metadata
           hs == HeadersOf(i)
           given(k) == hs[k] \o Tree!ValuesFor(k, keyvals)
           metadata == insertMetadata(md, hs, keyvals)
           promised == [k \in Keys |->
                            IF k # XGoog THEN md[k] \o Tree!Sent(given(k))
                            ELSE IF given(k) = << >> THEN md[k] ELSE << given(k) >>]
           ctx == [contexts[i] EXCEPT !.metadata = metadata]
           N == Len(contexts)
           node == Tree!WithMetadata(TreeNow[i], keyvals)
<1>1. contexts' = Append(contexts, ctx) /\ arrays' = arrays
  BY DEF InsertMetadataIntoOutgoingContext
<1>2. HeadersKept
  BY InsertStep
<1>3. /\ contexts \in Seq(Contexts) /\ N \in Nat /\ contexts[i] \in Contexts
      /\ md \in [Keys -> Seq(Seq(Values))] /\ hs \in [Keys -> Seq(Values)]
      /\ keyvals \in Seq(Pairs)
  BY Types, HeadersOfFacts, CallCtxAssumption
<1>4. metadata = promised /\ metadata \in [Keys -> Seq(Seq(Values))]
  <2> HIDE DEF md, hs
  <2> QED  BY <1>3, InsertFacts
<1>5. TreeNow[i] = Node(i) /\ Len(TreeNow) = N
  BY NodeFacts
<1>6. Node(i) = [headers |-> hs, metadata |-> md]
  BY DEF Node
<1>7. node = [headers |-> hs, metadata |-> promised]
  <2> HIDE DEF md, hs
  <2>1. TreeNow[i] = [headers |-> hs, metadata |-> md]
    BY <1>5, <1>6
  <2>2. TreeNow[i].headers = hs /\ TreeNow[i].metadata = md
    BY <2>1
  <2>3. node = [TreeNow[i] EXCEPT !.metadata = promised]
    BY <2>2, Zenon DEF Tree!WithMetadata
  <2> HIDE DEF node, promised
  <2> QED  BY <2>1, <2>3
<1> HIDE DEF metadata, promised, node
<1>8. ctx \in Contexts /\ ctx.headers = contexts[i].headers /\ ctx.metadata = metadata
  BY <1>3, <1>4 DEF Contexts
<1> HIDE DEF ctx
<1>9. /\ Len(contexts') = N + 1 /\ contexts'[N + 1] = ctx
      /\ \A j \in 1 .. N : contexts'[j] = contexts[j]
  BY <1>1, <1>3, <1>8, AppendProperties
<1>10. node \in Nodes
  BY <1>3, <1>4, <1>7 DEF Nodes
<1>11. TreeNow' = Append(TreeNow, node)
  <2>1. PICK m : m = N + 1
    OBVIOUS
  <2>2. Node(m)' = [headers |-> [k \in Keys |-> Held(arrays', contexts'[m].headers[k])],
                    metadata |-> contexts'[m].metadata]
    BY DEF Node, HeadersOf, HeadersFromContext, Elements, Held
  <2>3. hs = [k \in Keys |-> Held(arrays, contexts[i].headers[k])]
    BY HeadersOfFacts
  <2>4. Node(m)' = node
    <3>1. contexts'[m].headers = contexts[i].headers /\ contexts'[m].metadata = metadata
      BY <1>8, <1>9, <2>1
    <3> HIDE DEF hs
    <3> QED  BY <1>1, <1>4, <1>7, <2>2, <2>3, <3>1
  <2> QED  BY <1>2, <1>9, <1>10, <2>1, <2>4, TreeGrows
<1> QED  BY <1>5, <1>11, TreeActions DEF node

LEMMA StepTree == IInv /\ [HeaderNext]_headerVars => [Tree!Next]_TreeNow
<1> SUFFICES ASSUME IInv, [HeaderNext]_headerVars
             PROVE  Tree!Next \/ TreeNow' = TreeNow
  OBVIOUS
<1>1. ASSUME NEW g \in Goroutines, NEW i \in 1 .. Len(contexts), NEW keyvals \in Keyvals,
             Begin(g, i, keyvals)
      PROVE  TreeNow' = TreeNow
  BY <1>1, BeginStep, TreeKept DEF Begin
<1>2. ASSUME NEW g \in Goroutines, NEW k \in Keys, CloneHeader(g, k)
      PROVE  TreeNow' = TreeNow
  BY <1>2, CloneStep, TreeKept DEF CloneHeader
<1>3. ASSUME NEW g \in Goroutines, AppendValue(g)
      PROVE  TreeNow' = TreeNow
  BY <1>3, AppendStep, TreeKept DEF AppendValue
<1>4. ASSUME NEW g \in Goroutines, Return(g)
      PROVE  Tree!Next
  BY <1>4, ReturnSets
<1>5. ASSUME NEW i \in 1 .. Len(contexts), NEW keyvals \in Keyvals,
             InsertMetadataIntoOutgoingContext(i, keyvals)
      PROVE  Tree!Next
  BY <1>5, InsertInserts
<1>6. CASE Full \/ UNCHANGED headerVars
  <2>1. arrays' = arrays /\ contexts' = contexts
    BY <1>6 DEF Full, headerVars, vars
  <2>2. HeadersKept
    BY <2>1, Types DEF HeadersKept
  <2> QED  BY <2>1, <2>2, TreeKept
<1> QED  BY <1>1, <1>2, <1>3, <1>4, <1>5, <1>6 DEF HeaderNext, SetHeadersStep

(* Contexts are values: whatever the goroutines do, SetHeaders and            *)
(* InsertMetadataIntoOutgoingContext only ever add a context, with the        *)
(* headers and the metadata promised for it, and no context changes once it   *)
(* was made, although slices are shared and appended to in place              *)
(* (v2/callctx/callctx.go, v2/header.go).                                     *)
THEOREM HeadersImplementTree == HeaderSpec => ContextsAreValues
<1>1. [Tree!Next]_TreeNow => [Tree!Next]_[i \in 1 .. Len(contexts) |->
                [headers |-> HeadersOf(i), metadata |-> contexts[i].metadata]]
  BY DEF TreeNow, Node
<1> QED  BY <1>1, InitTree, StepTree, Inductive, PTL DEF HeaderSpec, ContextsAreValues, Tree!Spec
=============================================================================
