--------------------------- MODULE Adapters_proofs ---------------------------
(***************************************************************************)
(* The adapters of readers and iterators keep order, for every content,    *)
(* every place of a failure, every size of a buffer and every number of    *)
(* ranges; and the reader with a sniffer implements the reader without.    *)
(***************************************************************************)
EXTENDS MCAdapters, SequenceTheorems, TLAPS

(* No sniffer is ever made for a media with a type of its own. *)
NoSniffer ==
    /\ start = << >> /\ err = "none" /\ ctype = NoType /\ ~sniffed
    /\ call = Idle /\ answer \in {NotAsked, Static}

(* Until the start is complete nothing is handed out, and no read so far    *)
(* came with an error.                                                     *)
StillSniffing ==
    /\ delivered = << >> /\ result = "none" /\ failed = FALSE
    /\ told = "none" /\ hit = FALSE
    /\ pos < sniffBuffSize /\ pos <= fault
    /\ err = "none" /\ ctype = NoType /\ answer = NotAsked

(* What is left in the buffer was read before the failure, an error that is *)
(* kept stands where the media fails, and without one the caller has seen  *)
(* every failure.                                                          *)
SnifferInv ==
    /\ NothingLost
    /\ typer => NoSniffer
    /\ ~typer /\ ~sniffed => StillSniffing
    /\ start # << >> => pos <= fault
    /\ err = "failed" => pos = fault
    /\ err = "none" => hit = failed

(* err is what next returned last; a failure ends it for good. *)
RangeInv ==
    /\ ItemsOnceInOrder
    /\ iterErr = told
    /\ hit = (told = "failed")

IInv ==
    /\ TypeOK
    /\ TypeFromStart
    /\ adapter = "sniffer" => SnifferInv
    /\ adapter = "range" => RangeInv

----------------------------------------------------------------------------
(* The bytes of two reads in a row, ... *)
LEMMA BytesType ==
    ASSUME NEW a \in Nat, NEW b \in Nat, a <= b, NEW n \in Nat, b <= n
    PROVE  /\ Bytes(a, b) \in Seq(1 .. n)
           /\ Len(Bytes(a, b)) = b - a
           /\ \A i \in 1 .. b - a : Bytes(a, b)[i] = a + i
<1>1. \A i \in 1 .. b - a : a + i \in 1 .. n
  OBVIOUS
<1>2. b - a \in Nat
  OBVIOUS
<1>3. Bytes(a, b) \in Seq(1 .. n)
  BY <1>1, <1>2, IsASeq DEF Bytes
<1> QED  BY <1>2, <1>3, LenProperties DEF Bytes

(* ... together are those of one read. *)
LEMMA BytesAdjacent ==
    ASSUME NEW a \in Nat, NEW b \in Nat, NEW c \in Nat, a <= b, b <= c
    PROVE  Bytes(a, b) \o Bytes(b, c) = Bytes(a, c)
<1> DEFINE s == Bytes(a, b)
           t == Bytes(b, c)
           u == Bytes(a, c)
<1>1. a <= c
  OBVIOUS
<1>2. /\ s \in Seq(1 .. c) /\ Len(s) = b - a
      /\ \A i \in 1 .. b - a : s[i] = a + i
  BY BytesType
<1>3. /\ t \in Seq(1 .. c) /\ Len(t) = c - b
      /\ \A i \in 1 .. c - b : t[i] = b + i
  BY BytesType
<1>4. /\ u \in Seq(1 .. c) /\ Len(u) = c - a
      /\ \A i \in 1 .. c - a : u[i] = a + i
  BY <1>1, BytesType
<1> HIDE DEF s, t, u
<1>5. /\ s \o t \in Seq(1 .. c)
      /\ Len(s \o t) = Len(s) + Len(t)
      /\ \A i \in 1 .. Len(s) + Len(t) :
           (s \o t)[i] = IF i <= Len(s) THEN s[i] ELSE t[i - Len(s)]
  BY <1>2, <1>3, ConcatProperties
<1>6. Len(s \o t) = Len(u)
  BY <1>2, <1>3, <1>4, <1>5
<1>7. ASSUME NEW i \in 1 .. Len(s \o t) PROVE (s \o t)[i] = u[i]
  <2>1. i \in 1 .. c - a
    BY <1>2, <1>3, <1>5
  <2>2. CASE i <= b - a
    BY <1>2, <1>4, <1>5, <2>1, <2>2
  <2>3. CASE ~(i <= b - a)
    <3>1. i - (b - a) \in 1 .. c - b
      BY <2>1, <2>3
    <3>2. t[i - (b - a)] = b + (i - (b - a))
      BY <1>3, <3>1
    <3>3. (s \o t)[i] = t[i - (b - a)]
      BY <1>2, <1>3, <1>5, <2>1, <2>3
    <3> QED  BY <1>4, <2>1, <3>2, <3>3
  <2> QED  BY <2>2, <2>3
<1>8. s \o t = u
  BY <1>4, <1>5, <1>6, <1>7, SeqEqual
<1> QED  BY <1>8 DEF s, t, u

(* The smaller of two sizes, as the copy of Read and the limit take it. *)
LEMMA MinOfTwo ==
    ASSUME NEW a \in Int, NEW b \in Int
    PROVE  Min({a, b}) = IF a <= b THEN a ELSE b
<1>1. \E x \in {a, b} : \A y \in {a, b} : x <= y
  OBVIOUS
<1> QED  BY <1>1 DEF Min

(* What a read of the media leaves, whoever asks for it. *)
LEMMA ReadUpToType ==
    ASSUME SourceTypeOK, NEW k \in Int, ReadUpTo(k)
    PROVE  /\ SourceTypeOK'
           /\ \E n \in 0 .. k : pos' = pos + n
           /\ length' = length /\ fault' = fault /\ transient' = transient
           /\ hit' = (hit \/ told' = "failed")
           /\ told' = "failed" => pos' = fault
           /\ told' = "EOF" => pos' = length
           /\ pos <= fault /\ ~hit => pos' <= fault
<1>1. PICK n \in 0 .. k :
        /\ pos + n <= length
        /\ pos <= fault /\ fault < pos + n => pos = fault /\ Passed
        /\ pos' = pos + n
  BY DEF ReadUpTo
<1>2. pos \in Nat /\ length \in Nat /\ fault \in Nat /\ n \in Nat
  BY DEF SourceTypeOK
<1>3. /\ length' = length /\ fault' = fault /\ transient' = transient
      /\ told' \in {"none", "EOF", "failed"}
      /\ told' = "failed" => pos' = fault
      /\ told' = "EOF" => pos' = length
      /\ hit' = (hit \/ told' = "failed")
  BY DEF ReadUpTo, contentVars
<1>4. hit' \in BOOLEAN
  BY <1>3
<1>5. SourceTypeOK'
  BY <1>1, <1>2, <1>3, <1>4 DEF SourceTypeOK
<1> QED  BY <1>1, <1>2, <1>3, <1>5 DEF Passed

----------------------------------------------------------------------------
(* The numbers of the items, which a range yields before an error. *)
Items(p) == [i \in 1 .. p |-> i]

LEMMA ItemsType ==
    ASSUME NEW p \in Nat
    PROVE  /\ Items(p) \in Seq(0 .. p) /\ Len(Items(p)) = p
           /\ \A i \in 1 .. p : Items(p)[i] = i
<1>1. \A i \in 1 .. p : i \in 0 .. p
  OBVIOUS
<1>2. Items(p) \in Seq(0 .. p)
  BY <1>1, IsASeq DEF Items
<1> QED  BY <1>2, LenProperties DEF Items

LEMMA ItemsGrow ==
    ASSUME NEW p \in Nat
    PROVE  Append(Items(p), p + 1) = Items(p + 1)
<1>1. /\ Items(p) \in Seq(0 .. p + 1) /\ Len(Items(p)) = p
      /\ \A i \in 1 .. p : Items(p)[i] = i
  BY ItemsType, SeqMonotonic
<1>2. /\ Items(p + 1) \in Seq(0 .. p + 1) /\ Len(Items(p + 1)) = p + 1
      /\ \A i \in 1 .. p + 1 : Items(p + 1)[i] = i
  BY ItemsType
<1> DEFINE s == Append(Items(p), p + 1)
<1>3. /\ s \in Seq(0 .. p + 1) /\ Len(s) = p + 1
      /\ \A i \in 1 .. p : s[i] = i
      /\ s[p + 1] = p + 1
  BY <1>1, AppendProperties
<1>4. \A i \in 1 .. Len(s) : s[i] = Items(p + 1)[i]
  BY <1>2, <1>3
<1> QED  BY <1>2, <1>3, <1>4, SeqEqual

(* Where frames end without their last one, the rest are all bodies. *)
LEMMA OuterType ==
    ASSUME RangeTypeOK, frames # << >>
    PROVE  /\ Outer \in Seq({"loop", "body"})
           /\ Len(Outer) = Len(frames) - 1
           /\ \A i \in 1 .. Len(Outer) : Outer[i] = "body"
<1>1. frames \in Seq({"loop", "body"}) /\ Len(frames) \in Nat \ {0}
  BY EmptySeq DEF RangeTypeOK
<1>2. \A i \in 1 .. Len(frames) - 1 : frames[i] \in {"loop", "body"}
  BY DEF RangeTypeOK
<1>3. /\ Outer \in Seq({"loop", "body"}) /\ Len(Outer) = Len(frames) - 1
      /\ \A i \in 1 .. Len(frames) - 1 : Outer[i] = frames[i]
  <2> DEFINE n == Len(frames) - 1
  <2>1. n \in Nat /\ 1 \in Int /\ n - 1 + 1 = n /\ (IF 1 <= n THEN n - 1 + 1 ELSE 0) = n
    BY <1>1
  <2>2. \A i \in 1 .. n : i \in Int /\ 1 + i - 1 = i
    BY <2>1
  <2> HIDE DEF n
  <2>3. /\ SubSeq(frames, 1, n) \in Seq({"loop", "body"})
        /\ Len(SubSeq(frames, 1, n)) = n
        /\ \A i \in 1 .. n : SubSeq(frames, 1, n)[i] = frames[i]
    BY <1>2, <2>1, <2>2, SubSeqProperties DEF n
  <2> QED  BY <2>3 DEF Outer, n
<1> QED  BY <1>3 DEF RangeTypeOK

(* Every way to go on with the range inside keeps the stack of the ranges. *)
LEMMA FramesType ==
    ASSUME RangeTypeOK, frames # << >>, NEW where \in {"loop", "body"},
           frames' \in {Outer, Append(Outer, where)}
    PROVE  /\ frames' \in Seq({"loop", "body"}) /\ Len(frames') <= MaxNesting
           /\ \A i \in 1 .. Len(frames') - 1 : frames'[i] = "body"
<1>1. /\ Outer \in Seq({"loop", "body"}) /\ Len(Outer) = Len(frames) - 1
      /\ \A i \in 1 .. Len(Outer) : Outer[i] = "body"
  BY OuterType
<1>2. Len(frames) \in Nat /\ Len(frames) <= MaxNesting /\ MaxNesting \in Nat
  BY LenProperties, RangeAssumption DEF RangeTypeOK
<1>3. CASE frames' = Outer
  BY <1>1, <1>2, <1>3
<1>4. CASE frames' = Append(Outer, where)
  BY <1>1, <1>2, <1>4, AppendProperties
<1> QED  BY <1>3, <1>4

LEMMA CallNextKeeps ==
    ASSUME SourceTypeOK, RangeTypeOK, RangeInv, CallNext
    PROVE  /\ SourceTypeOK' /\ RangeTypeOK' /\ RangeInv'
           /\ UNCHANGED contentVars
<1>1. /\ iterErr = "none" /\ told = "none" /\ ~hit /\ frames # << >>
      /\ seen = Items(pos) \o << >> /\ ~again
  BY DEF CallNext, In, Over, RangeInv, ItemsOnceInOrder, Items
<1>2. pos \in Nat /\ pos <= length /\ length \in Nat
  BY DEF SourceTypeOK
<1>3. seen = Items(pos)
  BY <1>1, <1>2, ItemsType, ConcatEmptySeq
<1>4. /\ SourceTypeOK' /\ \E n \in 0 .. 1 : pos' = pos + n
      /\ length' = length /\ fault' = fault
      /\ hit' = (hit \/ told' = "failed")
  BY ReadUpToType DEF CallNext
<1>5. (told' = "none") = (pos' = pos + 1) /\ iterErr' = told'
      /\ told' \in {"none", "EOF", "failed"} /\ pos' \in 0 .. length /\ pos' \in Nat
  BY <1>4 DEF CallNext, SourceTypeOK
<1>6. /\ hit' = (told' = "failed")
      /\ told' # "none" => pos' = pos
  <2>1. hit' = (told' = "failed")
    BY <1>1, <1>4
  <2>2. told' # "none" => pos' # pos + 1
    BY <1>5
  <2>3. pos' = pos \/ pos' = pos + 1
    BY <1>2, <1>4
  <2> QED  BY <2>1, <2>2, <2>3
<1>7. ASSUME NEW item PROVE Saw(item) = Append(Items(pos), item)
  <2>1. ~(Len(seen) > 1 /\ seen[Len(seen)] = 0)
    BY <1>2, <1>3, ItemsType
  <2> QED  BY <1>3, <2>1 DEF Saw
<1>8. /\ seen' = Items(pos') \o (IF hit' THEN << 0 >> ELSE << >>)
      /\ seen' \in Seq(0 .. length)
  <2>1. Items(pos) \in Seq(0 .. length)
    BY <1>2, ItemsType, SeqMonotonic
  <2>2. CASE told' = "none"
    <3>1. seen' = Items(pos') /\ ~hit'
      BY <1>2, <1>5, <1>6, <1>7, <2>2, ItemsGrow DEF CallNext
    <3>2. Items(pos') \in Seq(0 .. length)
      BY <1>2, <1>5, ItemsType, SeqMonotonic
    <3> QED  BY <3>1, <3>2, ConcatEmptySeq
  <2>3. CASE told' = "EOF"
    <3>1. seen' = seen /\ pos' = pos /\ ~hit'
      BY <1>2, <1>4, <1>5, <1>6, <2>3 DEF CallNext
    <3> QED  BY <1>3, <2>1, <3>1, ConcatEmptySeq
  <2>4. CASE told' = "failed"
    <3>1. seen' = Append(Items(pos), 0) /\ pos' = pos /\ hit'
      BY <1>2, <1>4, <1>5, <1>6, <1>7, <2>4 DEF CallNext
    <3>2. 0 \in 0 .. length
      BY <1>2
    <3> QED  BY <2>1, <3>1, <3>2, AppendIsConcat, AppendProperties
  <2> QED  BY <1>5, <2>2, <2>3, <2>4
<1>9. RangeInv' /\ again' = FALSE
  <2>1. again' = FALSE
    BY <1>1, Zenon DEF CallNext
  <2> QED  BY <1>5, <1>6, <1>8, <2>1 DEF RangeInv, ItemsOnceInOrder, Items
<1>10. frames' \in {Outer, Append(Outer, "body")} /\ started' = started
  BY DEF CallNext
<1>11. RangeTypeOK'
  BY <1>1, <1>4, <1>5, <1>8, <1>9, <1>10, FramesType DEF RangeTypeOK
<1> QED  BY <1>4, <1>9, <1>11 DEF CallNext, ReadUpTo

(* The steps of a range that read nothing. *)
LEMMA OtherRangeStepsKeep ==
    ASSUME RangeTypeOK, RangeInv, BeginRange \/ RangeOver \/ Yielded
    PROVE  RangeTypeOK' /\ RangeInv' /\ UNCHANGED sourceVars
<1>1. UNCHANGED << sourceVars, seen, iterErr, again >>
  BY DEF BeginRange, RangeOver, Yielded, KeptErr
<1>2. RangeInv'
  BY <1>1 DEF RangeInv, ItemsOnceInOrder, sourceVars
<1>3. started' \in 0 .. MaxRanges
  BY RangeAssumption DEF RangeTypeOK, BeginRange, RangeOver, Yielded
<1>4. /\ frames' \in Seq({"loop", "body"}) /\ Len(frames') <= MaxNesting
      /\ \A i \in 1 .. Len(frames') - 1 : frames'[i] = "body"
  <2>1. CASE BeginRange
    <3>1. /\ frames' = Append(frames, "loop") /\ Len(frames) < MaxNesting
          /\ frames = << >> \/ frames[Len(frames)] = "body"
      BY <2>1 DEF BeginRange, In
    <3>2. frames \in Seq({"loop", "body"}) /\ Len(frames) \in Nat
      BY LenProperties DEF RangeTypeOK
    <3>3. \A i \in 1 .. Len(frames) : frames[i] = "body"
      BY <3>1, <3>2 DEF RangeTypeOK
    <3> QED  BY <3>1, <3>2, <3>3, AppendProperties, RangeAssumption
  <2>2. CASE RangeOver
    BY <2>2, FramesType DEF RangeOver, In
  <2>3. CASE Yielded
    BY <2>3, FramesType DEF Yielded, In
  <2> QED  BY <2>1, <2>2, <2>3
<1> QED
  BY <1>1, <1>2, <1>3, <1>4 DEF RangeTypeOK, sourceVars, contentVars

(* A range touches nothing of a sniffer. *)
LEMMA RangeKeepsIInv ==
    ASSUME IInv, StartRange \/ ThroughRange
    PROVE  IInv'
<1>1. /\ adapter = "range" /\ adapter' = adapter
      /\ UNCHANGED << snifferVars, readerVars >>
  BY DEF StartRange, ThroughRange
<1>2. SourceTypeOK /\ RangeTypeOK /\ RangeInv
  BY <1>1 DEF IInv, TypeOK
<1>3. /\ SourceTypeOK' /\ RangeTypeOK' /\ RangeInv'
      /\ length' = length /\ fault' = fault
  <2>1. CASE CallNext
    BY <1>2, <2>1, CallNextKeeps DEF contentVars
  <2>2. CASE BeginRange \/ RangeOver \/ Yielded
    BY <1>2, <2>2, OtherRangeStepsKeep DEF sourceVars, contentVars, SourceTypeOK
  <2> QED  BY <2>1, <2>2 DEF StartRange, ThroughRange, RangeSteps
<1>4. SnifferTypeOK' /\ TypeFromStart'
  BY <1>1, <1>3 DEF IInv, TypeOK, SnifferTypeOK, TypeFromStart, snifferVars, readerVars
<1> QED  BY <1>1, <1>3, <1>4 DEF IInv, TypeOK

----------------------------------------------------------------------------
(* One more read: the bytes after those that were read. *)
LEMMA NextBytes ==
    ASSUME NEW a \in Nat, NEW n \in Nat, NEW m \in Nat, a + n <= m
    PROVE  /\ Bytes(a, a + n) \in Seq(1 .. m)
           /\ Len(Bytes(a, a + n)) = n
           /\ Bytes(0, a) \o Bytes(a, a + n) = Bytes(0, a + n)
           /\ Bytes(0, a) \in Seq(1 .. m)
           /\ Len(Bytes(0, a)) = a
<1>1. /\ a + n \in Nat /\ a <= a + n /\ (a + n) - a = n
      /\ 0 \in Nat /\ 0 <= a /\ a - 0 = a /\ a <= m
  OBVIOUS
<1>2. /\ Bytes(a, a + n) \in Seq(1 .. m)
      /\ Len(Bytes(a, a + n)) = (a + n) - a
  BY <1>1, BytesType
<1>3. /\ Bytes(0, a) \in Seq(1 .. m)
      /\ Len(Bytes(0, a)) = a - 0
  BY <1>1, BytesType
<1>4. Bytes(0, a) \o Bytes(a, a + n) = Bytes(0, a + n)
  BY <1>1, BytesAdjacent
<1> QED  BY <1>1, <1>2, <1>3, <1>4

(* The bytes handed out and buffered are as many as were read. *)
LEMMA Lengths ==
    ASSUME SourceTypeOK, SnifferTypeOK, NothingLost
    PROVE  /\ Len(delivered) \in Nat /\ Len(start) \in Nat
           /\ Len(delivered) + Len(start) = pos
           /\ pos \in Nat /\ length \in Nat /\ fault \in Nat /\ pos <= length
           /\ start = << >> => delivered = Bytes(0, pos)
<1>1. /\ delivered \in Seq(1 .. length) /\ start \in Seq(1 .. length)
      /\ pos \in Nat /\ length \in Nat /\ fault \in Nat /\ pos <= length
  BY DEF SourceTypeOK, SnifferTypeOK
<1>2. Len(delivered \o start) = Len(delivered) + Len(start)
  BY <1>1, ConcatProperties
<1>3. Len(Bytes(0, pos)) = pos
  BY <1>1, NextBytes
<1>4. delivered \o << >> = delivered
  BY <1>1, ConcatEmptySeq
<1> QED  BY <1>1, <1>2, <1>3, <1>4, LenProperties DEF NothingLost

(* A read of the caller is one of the media, when its items and its error   *)
(* are.                                                                    *)
LEMMA MediaRead ==
    ASSUME SourceTypeOK,
           NEW d \in Nat, NEW n \in Nat, d + n <= length,
           Len(delivered) = d, Len(delivered') = d + n,
           d <= fault /\ fault < d + n => d = fault /\ transient /\ failed,
           result' \in {"none", "EOF", "failed"},
           result' = "failed" => d + n = fault,
           result' = "EOF" => /\ d + n = length
                              /\ d + n # fault \/ (transient /\ failed),
           failed' = (failed \/ result' = "failed"),
           UNCHANGED contentVars
    PROVE  \E k \in 0 .. length : Media!ReadUpTo(k)
<1>1. n \in 0 .. length /\ n \in 0 .. n
  BY DEF SourceTypeOK
<1>2. /\ Len(delivered) + n <= length
      /\ Len(delivered) <= fault /\ fault < Len(delivered) + n
           => Len(delivered) = fault /\ Media!Passed
      /\ Len(delivered') = Len(delivered) + n
  BY DEF Media!Passed
<1>3. result' \in {"none"}
                   \cup (IF Len(delivered') = fault THEN {"failed"} ELSE {})
                   \cup (IF /\ Len(delivered') = length
                            /\ Len(delivered') # fault \/ Media!Passed
                         THEN {"EOF"} ELSE {})
  BY DEF Media!Passed
<1>4. UNCHANGED Media!contentVars
  BY DEF contentVars, Media!contentVars
<1>5. Media!ReadUpTo(n)
  BY <1>1, <1>2, <1>3, <1>4 DEF Media!ReadUpTo
<1> QED  BY <1>1, <1>5

(* A step of the media, as its reader sees it, or one that it does not see. *)
MediaStep ==
    \/ \E k \in 0 .. length : Media!ReadUpTo(k)
    \/ UNCHANGED Media!sourceVars

SnifferSafe == SourceTypeOK /\ SnifferTypeOK /\ TypeFromStart /\ SnifferInv

(* A read of the start: nothing is handed out before it is complete. *)
LEMMA SniffReadKeeps ==
    ASSUME SnifferSafe, SniffRead
    PROVE  SnifferSafe' /\ MediaStep
<1>1. ~typer /\ ~sniffed /\ StillSniffing
  BY DEF SnifferSafe, SnifferInv, NoSniffer, SniffRead
<1>2. /\ pos \in Nat /\ length \in Nat /\ fault \in Nat /\ Len(start) = pos
      /\ start = Bytes(0, pos)
  <2>1. Len(delivered) = 0
    BY <1>1, EmptySeq DEF StillSniffing
  <2>2. << >> \o start = start
    BY ConcatEmptySeq DEF SnifferSafe, SnifferTypeOK
  <2> QED
    BY <1>1, <2>1, <2>2, Lengths DEF SnifferSafe, SnifferInv, StillSniffing, NothingLost
<1>3. ReadUpTo(Remaining) /\ Remaining \in Int /\ SourceTypeOK
  BY <1>2, SnifferAssumption DEF SniffRead, Remaining, SnifferSafe
<1>4. PICK n \in 0 .. Remaining : pos' = pos + n
  BY <1>3, ReadUpToType
<1>5. /\ SourceTypeOK' /\ length' = length /\ fault' = fault
      /\ hit' = (hit \/ told' = "failed")
      /\ told' = "failed" => pos' = fault
      /\ told' = "EOF" => pos' = length
      /\ pos <= fault /\ ~hit => pos' <= fault
  BY <1>3, ReadUpToType
<1>6. n \in Nat /\ pos + n <= length /\ pos + n <= sniffBuffSize
  BY <1>2, <1>4, <1>5, SnifferAssumption DEF Remaining, SourceTypeOK
<1>7. /\ start' = Bytes(0, pos') /\ start' \in Seq(1 .. length)
      /\ Len(start') = pos'
  <2>1. start' = Bytes(0, pos + n)
    <3>1. start' = Bytes(0, pos) \o Bytes(pos, pos + n)
      BY <1>2, <1>4 DEF SniffRead
    <3> QED  BY <1>2, <1>6, <3>1, NextBytes
  <2>2. pos + n \in Nat /\ (pos + n) + 0 <= length
    BY <1>2, <1>6
  <2>3. Bytes(0, pos + n) \in Seq(1 .. length) /\ Len(Bytes(0, pos + n)) = pos + n
    BY <1>2, <2>2, NextBytes
  <2> QED  BY <1>4, <2>1, <2>3
<1>8. /\ UNCHANGED << typer, call, answer, delivered, result, failed >>
      /\ hit' = (told' = "failed")
      /\ told' \in {"none", "EOF", "failed"}
  BY <1>1, <1>5 DEF SniffRead, readerVars, SourceTypeOK, StillSniffing
<1>9. << >> \o start' = start' /\ pos' \in Nat /\ pos' <= sniffBuffSize /\ pos' <= fault
  BY <1>1, <1>2, <1>4, <1>5, <1>6, <1>7, ConcatEmptySeq DEF StillSniffing
<1>10. NothingLost'
  BY <1>1, <1>7, <1>8, <1>9 DEF NothingLost, StillSniffing
<1>11. CASE ~StartComplete
  <2>1. /\ UNCHANGED << sniffed, err, ctype >>
        /\ told' = "none" /\ pos' # sniffBuffSize
    BY <1>7, <1>8, <1>11 DEF SniffRead, StartComplete
  <2>2. pos' < sniffBuffSize
    BY <1>9, <2>1, SnifferAssumption
  <2>3. SnifferTypeOK' /\ TypeFromStart'
    BY <1>1, <1>5, <1>7, <1>8, <1>9, <2>1
    DEF SnifferSafe, SnifferTypeOK, TypeFromStart, StillSniffing
  <2>4. SnifferInv'
    <3>1. StillSniffing'
      <4>1. hit' = FALSE
        BY <1>8, <2>1
      <4> QED  BY <1>1, <1>5, <1>8, <1>9, <2>1, <2>2, <4>1 DEF StillSniffing
    <3> QED  BY <1>1, <1>8, <1>10, <3>1 DEF SnifferInv, StillSniffing
  <2> QED  BY <1>5, <1>8, <2>3, <2>4
           DEF SnifferSafe, MediaStep, SniffRead, ReadUpTo, contentVars,
               Media!sourceVars, Media!contentVars
<1>12. CASE StartComplete
  <2>1. /\ sniffed' = TRUE
        /\ err' = IF told' = "failed" THEN "failed" ELSE "none"
        /\ ctype' = IF told' = "failed" THEN NoType ELSE pos'
        /\ pos' = sniffBuffSize \/ told' # "none"
    BY <1>7, <1>12 DEF SniffRead, StartComplete
  <2>2. ctype' = NoType => fault <= sniffBuffSize
    BY <1>5, <1>9, <2>1 DEF NoType
  <2>3. ctype' # NoType => ctype' = Min({sniffBuffSize, length})
    <3>1. ASSUME ctype' # NoType
          PROVE  ctype' = IF sniffBuffSize <= length THEN sniffBuffSize ELSE length
      BY <1>2, <1>4, <1>5, <1>6, <1>8, <2>1, <3>1, SnifferAssumption
    <3> QED  BY <1>2, <3>1, MinOfTwo, SnifferAssumption
  <2>4. ctype' \in NoType .. sniffBuffSize
    BY <1>9, <2>1, SnifferAssumption DEF NoType
  <2>5. SnifferTypeOK' /\ TypeFromStart'
    BY <1>1, <1>5, <1>7, <1>8, <1>9, <2>1, <2>2, <2>3, <2>4
    DEF SnifferSafe, SnifferTypeOK, TypeFromStart, StillSniffing
  <2>6. SnifferInv'
    BY <1>1, <1>5, <1>8, <1>9, <1>10, <2>1 DEF SnifferInv, StillSniffing
  <2> QED  BY <1>5, <1>8, <2>5, <2>6
           DEF SnifferSafe, MediaStep, SniffRead, ReadUpTo, contentVars,
               Media!sourceVars, Media!contentVars
<1> QED  BY <1>11, <1>12

(* A read from the buffer splits it in two. *)
LEMMA ReadBufferedKeeps ==
    ASSUME SnifferSafe, ReadBuffered
    PROVE  SnifferSafe' /\ MediaStep
<1> DEFINE n == Min({call.size, Len(start)})
           front == SubSeq(start, 1, n)
           rest == SubSeq(start, n + 1, Len(start))
<1>1. /\ Return(front, "none") /\ start' = rest
      /\ call.op = "Read" /\ sniffed /\ start # << >> /\ UNCHANGED sourceVars
  BY DEF ReadBuffered, RestOfBuffer
<1>2. /\ Len(delivered) \in Nat /\ Len(start) \in Nat
      /\ Len(delivered) + Len(start) = pos
      /\ pos \in Nat /\ length \in Nat /\ fault \in Nat /\ pos <= length
      /\ delivered \in Seq(1 .. length) /\ start \in Seq(1 .. length)
      /\ Len(start) <= sniffBuffSize
  BY Lengths DEF SnifferSafe, SnifferInv, SnifferTypeOK
<1>3. ~typer /\ pos <= fault
  BY <1>1 DEF SnifferSafe, SnifferInv, NoSniffer
<1>4. n \in 0 .. Len(start)
  <2>1. call \in [op : {"Read", "ContentType"}, size : BufferSizes]
    BY <1>1 DEF SnifferSafe, SnifferTypeOK, Idle
  <2>2. call.size \in Int /\ call.size >= 0 /\ Len(start) \in Int
    <3>1. call.size \in BufferSizes
      BY <2>1
    <3>2. call.size \in Nat
      BY <3>1, SnifferAssumption
    <3> QED  BY <1>2, <3>2
  <2>3. n = IF call.size <= Len(start) THEN call.size ELSE Len(start)
    BY <2>2, MinOfTwo
  <2> HIDE DEF n
  <2> QED  BY <1>2, <2>2, <2>3
<1>5. /\ delivered' = delivered \o front /\ result' = "none" /\ failed' = failed
      /\ UNCHANGED << typer, err, ctype, sniffed, answer >> /\ call' = Idle
  BY <1>1 DEF Return, SnifferSafe, SnifferTypeOK
<1> HIDE DEF n
<1>6. /\ front \in Seq(1 .. length) /\ Len(front) = n
      /\ rest \in Seq(1 .. length) /\ Len(rest) = Len(start) - n
  <2>1. \A i \in 1 .. n : start[i] \in 1 .. length
    BY <1>2, <1>4, ElementOfSeq
  <2>2. \A i \in n + 1 .. Len(start) : start[i] \in 1 .. length
    BY <1>2, <1>4, ElementOfSeq
  <2>3. /\ n \in Int /\ 1 \in Int /\ n + 1 \in Int /\ Len(start) \in Int
        /\ (IF 1 <= n THEN n - 1 + 1 ELSE 0) = n
        /\ (IF n + 1 <= Len(start) THEN Len(start) - (n + 1) + 1 ELSE 0)
             = Len(start) - n
    BY <1>2, <1>4
  <2>4. front \in Seq(1 .. length) /\ Len(front) = n
    BY <2>1, <2>3, SubSeqProperties
  <2>5. rest \in Seq(1 .. length) /\ Len(rest) = Len(start) - n
    BY <2>2, <2>3, SubSeqProperties
  <2> QED  BY <2>4, <2>5
<1>7. front \o rest = start
  <2>1. 1 \in 1 .. Len(start) + 1 /\ n \in 1 - 1 .. Len(start)
        /\ Len(start) \in n .. Len(start)
    BY <1>2, <1>4
  <2> QED  BY <1>2, <2>1, ConcatAdjacentSubSeq, SubSeqFull
<1> HIDE DEF front, rest
<1>8. /\ delivered' \in Seq(1 .. length) /\ Len(delivered') = Len(delivered) + n
      /\ delivered' \o start' = delivered \o start
  <2>1. delivered' \in Seq(1 .. length) /\ Len(delivered') = Len(delivered) + n
    BY <1>2, <1>5, <1>6, ConcatProperties
  <2>2. (delivered \o front) \o rest = delivered \o (front \o rest)
    <3>1. /\ delivered \in Seq(1 .. length)
          /\ front \in Seq(1 .. length) /\ rest \in Seq(1 .. length)
      BY <1>2, <1>6
    <3> DEFINE S == 1 .. length
    <3> HIDE DEF S
    <3>2. delivered \in Seq(S) /\ front \in Seq(S) /\ rest \in Seq(S)
      BY <3>1 DEF S
    <3> QED  BY <3>2, ConcatAssociative
  <2> QED  BY <1>1, <1>5, <1>7, <2>1, <2>2 DEF rest
<1>9. UNCHANGED << length, fault, transient, pos, told, hit, contentVars >>
  BY <1>1 DEF sourceVars, contentVars
<1>10. Len(start') <= sniffBuffSize
  BY <1>1, <1>2, <1>4, <1>6, SnifferAssumption
<1>11. SourceTypeOK' /\ SnifferTypeOK' /\ TypeFromStart'
  BY <1>1, <1>5, <1>6, <1>8, <1>9, <1>10
  DEF SnifferSafe, SourceTypeOK, SnifferTypeOK, TypeFromStart
<1>12. SnifferInv'
  BY <1>1, <1>3, <1>5, <1>8, <1>9 DEF SnifferSafe, SnifferInv, NothingLost
<1>13. MediaStep
  <2>1. n \in Nat /\ Len(delivered) + n <= length /\ Len(delivered) + n <= fault
    BY <1>2, <1>3, <1>4
  <2>2. SourceTypeOK
    BY DEF SnifferSafe
  <2>3. ~(fault < Len(delivered) + n) /\ result' = "none" /\ failed' = (failed \/ FALSE)
    BY <1>2, <1>5, <2>1 DEF SnifferSafe, SnifferTypeOK
  <2>4. \E k \in 0 .. length : Media!ReadUpTo(k)
    BY <1>2, <1>8, <1>9, <2>1, <2>2, <2>3, MediaRead
  <2> QED  BY <2>4 DEF MediaStep
<1> QED  BY <1>11, <1>12, <1>13 DEF SnifferSafe

(* A read that goes to the media itself, when nothing is buffered. *)
LEMMA PassThroughKeeps ==
    ASSUME SnifferSafe,
           ReadUnderlying \/ \E size \in BufferSizes : ReadTyper(size)
    PROVE  SnifferSafe' /\ MediaStep
<1>1. PICK size \in Nat :
        /\ ReadUpTo(size) /\ Return(Bytes(pos, pos'), told') /\ start' = start
        /\ start = << >> /\ err = "none" /\ hit = failed /\ (sniffed \/ typer)
  <2>1. CASE ReadUnderlying
    <3>1. call \in [op : {"Read", "ContentType"}, size : BufferSizes]
      BY <2>1 DEF ReadUnderlying, SnifferSafe, SnifferTypeOK, Idle
    <3>2. call.size \in BufferSizes
      BY <3>1
    <3>3. call.size \in Nat
      BY <3>2, SnifferAssumption
    <3> QED  BY <2>1, <3>3 DEF ReadUnderlying, Delegates, SnifferSafe, SnifferInv
  <2>2. CASE \E size \in BufferSizes : ReadTyper(size)
    <3>1. PICK size \in BufferSizes : ReadTyper(size)
      BY <2>2
    <3>2. size \in Nat
      BY SnifferAssumption
    <3> QED  BY <3>1, <3>2 DEF ReadTyper, SnifferSafe, SnifferInv, NoSniffer
  <2> QED  BY <2>1, <2>2
<1>2. /\ pos \in Nat /\ length \in Nat /\ fault \in Nat /\ pos <= length
      /\ delivered = Bytes(0, pos)
  BY <1>1, Lengths DEF SnifferSafe, SnifferInv
<1>3. PICK n \in 0 .. size :
        /\ pos + n <= length
        /\ pos <= fault /\ fault < pos + n => pos = fault /\ Passed
        /\ pos' = pos + n
  BY <1>1 DEF ReadUpTo
<1>4. /\ SourceTypeOK' /\ UNCHANGED contentVars
      /\ hit' = (hit \/ told' = "failed")
      /\ told' \in {"none", "EOF", "failed"}
      /\ told' = "failed" => pos' = fault
      /\ told' = "EOF" => pos' = length /\ (pos' # fault \/ Passed)
  <2>1. SourceTypeOK'
    BY <1>1, ReadUpToType DEF SnifferSafe
  <2> QED  BY <1>1, <2>1 DEF ReadUpTo
<1>5. length' = length /\ fault' = fault /\ transient' = transient
  BY <1>4 DEF contentVars
<1>6. /\ delivered' = Bytes(0, pos') /\ delivered' \in Seq(1 .. length)
      /\ Len(delivered) = pos /\ Len(delivered') = pos + n
      /\ delivered' \o << >> = delivered'
  <2>1. n \in Nat /\ pos + n \in Nat /\ (pos + n) + 0 <= length
    BY <1>2, <1>3
  <2>2. delivered' = Bytes(0, pos) \o Bytes(pos, pos + n)
    BY <1>1, <1>2, <1>3 DEF Return
  <2>3. /\ Bytes(0, pos) \o Bytes(pos, pos + n) = Bytes(0, pos + n)
        /\ Len(Bytes(0, pos)) = pos
    BY <1>2, <1>3, <2>1, NextBytes
  <2>4. Bytes(0, pos + n) \in Seq(1 .. length) /\ Len(Bytes(0, pos + n)) = pos + n
    BY <1>2, <2>1, NextBytes
  <2> QED  BY <1>2, <1>3, <2>2, <2>3, <2>4, ConcatEmptySeq
<1>7. /\ result' = told' /\ failed' = (failed \/ result' = "failed")
      /\ UNCHANGED << start, typer, err, ctype, sniffed, answer >> /\ call' = Idle
  BY <1>1 DEF Return
<1>8. SnifferTypeOK' /\ TypeFromStart'
  <2>1. failed' \in BOOLEAN
    BY <1>7
  <2> QED  BY <1>4, <1>5, <1>6, <1>7, <2>1
           DEF SnifferSafe, SnifferTypeOK, TypeFromStart
<1>9. SnifferInv'
  <2>1. hit' = failed'
    BY <1>1, <1>4, <1>7
  <2>2. NothingLost'
    BY <1>1, <1>6 DEF NothingLost
  <2> QED  BY <1>1, <1>7, <2>1, <2>2 DEF SnifferSafe, SnifferInv, NoSniffer
<1>10. MediaStep
  <2>1. n \in Nat /\ SourceTypeOK
    BY <1>3 DEF SnifferSafe
  <2>2. pos <= fault /\ fault < pos + n => pos = fault /\ transient /\ failed
    BY <1>1, <1>3 DEF Passed
  <2>3. /\ result' = "failed" => pos + n = fault
        /\ result' = "EOF" => /\ pos + n = length
                              /\ pos + n # fault \/ (transient /\ failed)
        /\ result' \in {"none", "EOF", "failed"}
    BY <1>1, <1>3, <1>4, <1>7 DEF Passed
  <2>4. \E k \in 0 .. length : Media!ReadUpTo(k)
    BY <1>2, <1>3, <1>4, <1>6, <1>7, <2>1, <2>2, <2>3, MediaRead
  <2> QED  BY <2>4 DEF MediaStep
<1> QED  BY <1>4, <1>8, <1>9, <1>10 DEF SnifferSafe

(* The error that was kept is told where the media failed. *)
LEMMA ReadErrorKeeps ==
    ASSUME SnifferSafe, ReadError
    PROVE  SnifferSafe' /\ MediaStep
<1>1. /\ start = << >> /\ err = "failed" /\ pos = fault /\ sniffed /\ ~typer
      /\ Return(<< >>, err) /\ UNCHANGED << sourceVars, start >>
  BY DEF ReadError, SnifferSafe, SnifferInv, SnifferTypeOK, NoSniffer
<1>2. /\ Len(delivered) = pos /\ pos \in Nat /\ length \in Nat /\ pos <= length
      /\ delivered \o << >> = delivered
  <2>1. delivered \o << >> = delivered
    BY ConcatEmptySeq DEF SnifferSafe, SnifferTypeOK
  <2>2. Len(start) = 0
    BY <1>1, EmptySeq
  <2> QED  BY <2>1, <2>2, Lengths DEF SnifferSafe, SnifferInv
<1>3. /\ delivered' = delivered /\ result' = "failed" /\ failed' = TRUE
      /\ UNCHANGED << typer, err, ctype, sniffed, answer >> /\ call' = Idle
  BY <1>1, <1>2 DEF Return
<1>4. UNCHANGED << length, fault, transient, pos, told, hit, contentVars, start >>
  BY <1>1 DEF sourceVars, contentVars
<1>5. SourceTypeOK' /\ SnifferTypeOK' /\ TypeFromStart'
  BY <1>3, <1>4 DEF SnifferSafe, SourceTypeOK, SnifferTypeOK, TypeFromStart
<1>6. SnifferInv'
  BY <1>1, <1>3, <1>4 DEF SnifferSafe, SnifferInv, NothingLost
<1>7. MediaStep
  <2>1. /\ 0 \in Nat /\ ~(fault < pos + 0) /\ SourceTypeOK
        /\ failed' = (failed \/ result' = "failed")
    <3>1. failed' = (failed \/ result' = "failed")
      BY <1>3
    <3> QED  BY <1>1, <1>2, <3>1 DEF SnifferSafe
  <2>2. Len(delivered') = pos + 0 /\ pos + 0 <= length /\ pos + 0 = fault
    BY <1>1, <1>2, <1>3
  <2>3. \E k \in 0 .. length : Media!ReadUpTo(k)
    BY <1>2, <1>3, <1>4, <2>1, <2>2, MediaRead
  <2> QED  BY <2>3 DEF MediaStep
<1> QED  BY <1>5, <1>6, <1>7 DEF SnifferSafe

(* Calls that begin, and answers. *)
LEMMA OtherSnifferStepsKeep ==
    ASSUME SnifferSafe,
           \/ AnswerType \/ AskTyper
           \/ \E op \in {"Read", "ContentType"}, size \in BufferSizes : Begin(op, size)
    PROVE  SnifferSafe' /\ MediaStep
<1>1. UNCHANGED << sourceVars, readerVars, typer, start, err, ctype, sniffed >>
  BY DEF AnswerType, AskTyper, Begin
<1>2. UNCHANGED << length, fault, transient, pos, told, hit, contentVars,
                   delivered, result, failed >>
  BY <1>1 DEF sourceVars, contentVars, readerVars
<1>3. MediaStep
  BY <1>2 DEF MediaStep, Media!sourceVars, Media!contentVars
<1>4. /\ call' \in {Idle} \cup [op : {"Read", "ContentType"}, size : BufferSizes]
      /\ typer => call' = Idle
      /\ answer' = answer \/ (answer' = ctype /\ sniffed /\ ~typer)
           \/ (answer' = Static /\ typer)
      /\ ~sniffed /\ ~typer => answer' = answer
  BY DEF AnswerType, AskTyper, Begin, SnifferSafe, SnifferTypeOK, SnifferInv,
         NoSniffer, Idle
<1>5. answer' \in NotAsked .. sniffBuffSize
  <2>1. Static \in NotAsked .. sniffBuffSize
    BY SnifferAssumption DEF Static, NotAsked
  <2>2. ctype \in NotAsked .. sniffBuffSize
    BY SnifferAssumption DEF SnifferSafe, SnifferTypeOK, NoType, NotAsked
  <2> QED  BY <1>4, <2>1, <2>2 DEF SnifferSafe, SnifferTypeOK
<1>6. SourceTypeOK' /\ SnifferTypeOK'
  BY <1>1, <1>2, <1>4, <1>5 DEF SnifferSafe, SourceTypeOK, SnifferTypeOK
<1>7. TypeFromStart' /\ SnifferInv'
  <2>1. TypeFromStart'
    BY <1>1, <1>2, <1>4 DEF SnifferSafe, TypeFromStart
  <2>2. NothingLost'
    BY <1>1, <1>2 DEF SnifferSafe, SnifferInv, NothingLost
  <2>3. typer' => NoSniffer'
    BY <1>1, <1>4 DEF SnifferSafe, SnifferInv, NoSniffer
  <2>4. ~typer' /\ ~sniffed' => StillSniffing'
    BY <1>1, <1>2, <1>4 DEF SnifferSafe, SnifferInv, StillSniffing
  <2> QED  BY <1>1, <1>2, <2>1, <2>2, <2>3, <2>4 DEF SnifferSafe, SnifferInv
<1> QED  BY <1>3, <1>6, <1>7 DEF SnifferSafe

----------------------------------------------------------------------------
(* A sniffer touches nothing of a range. *)
LEMMA SnifferKeepsIInv ==
    ASSUME IInv, ThroughSniffer
    PROVE  IInv' /\ MediaStep
<1>1. /\ adapter = "sniffer" /\ adapter' = adapter /\ UNCHANGED rangeVars
      /\ SnifferSafe /\ RangeTypeOK
  BY DEF ThroughSniffer, IInv, TypeOK, SnifferSafe
<1>2. SnifferSafe' /\ MediaStep
  <2>1. \/ ReadUnderlying \/ \E size \in BufferSizes : ReadTyper(size)
        \/ SniffRead \/ ReadBuffered \/ ReadError
        \/ AnswerType \/ AskTyper
        \/ \E op \in {"Read", "ContentType"}, size \in BufferSizes : Begin(op, size)
    BY DEF ThroughSniffer, Use, SnifferSteps
  <2> QED
    BY <1>1, <2>1, SniffReadKeeps, ReadBufferedKeeps, PassThroughKeeps,
       ReadErrorKeeps, OtherSnifferStepsKeep
<1>3. length' = length
  <2>1. CASE \E size \in BufferSizes : ReadTyper(size)
    BY <2>1 DEF ReadTyper, ReadUpTo, contentVars
  <2>2. CASE SniffRead \/ ReadUnderlying
    BY <2>2 DEF SniffRead, ReadUnderlying, ReadUpTo, contentVars
  <2>3. CASE \/ ReadBuffered \/ ReadError \/ AnswerType \/ AskTyper
             \/ \E op \in {"Read", "ContentType"}, size \in BufferSizes : Begin(op, size)
    BY <2>3 DEF ReadBuffered, ReadError, AnswerType, AskTyper, Begin,
                sourceVars, contentVars
  <2> QED  BY <2>1, <2>2, <2>3 DEF ThroughSniffer, Use, SnifferSteps
<1>4. RangeTypeOK'
  BY <1>1, <1>3 DEF RangeTypeOK, rangeVars
<1> QED  BY <1>1, <1>2, <1>4 DEF IInv, TypeOK, SnifferSafe

LEMMA RangeHidesMedia ==
    ASSUME IInv, StartRange \/ ThroughRange
    PROVE  MediaStep
<1>1. UNCHANGED readerVars /\ UNCHANGED contentVars
  <2>1. CASE CallNext
    BY <2>1 DEF CallNext, ReadUpTo, StartRange, ThroughRange
  <2>2. CASE BeginRange \/ RangeOver \/ Yielded
    BY <2>2 DEF BeginRange, RangeOver, Yielded, sourceVars, StartRange, ThroughRange
  <2> QED  BY <2>1, <2>2 DEF StartRange, ThroughRange, RangeSteps
<1> QED
  BY <1>1 DEF MediaStep, readerVars, contentVars, Media!sourceVars, Media!contentVars

LEMMA InitIInv == Init => IInv /\ Media!SourceInit
<1> SUFFICES ASSUME Init PROVE IInv /\ Media!SourceInit
  OBVIOUS
<1>1. /\ length \in Nat /\ fault \in Nat /\ pos = 0 /\ told = "none" /\ hit = FALSE
      /\ transient \in BOOLEAN /\ typer \in BOOLEAN
  <2>1. length \in Nat /\ pos = 0 /\ told = "none" /\ hit = FALSE
    BY DEF Init, SourceInit
  <2>2. fault \in Nat
    BY <2>1 DEF Init
  <2>3. transient \in BOOLEAN
    BY Zenon DEF Init
  <2>4. typer \in BOOLEAN
    BY Zenon DEF Init
  <2> QED  BY <2>1, <2>2, <2>3, <2>4
<1>2. SourceTypeOK
  <2>1. 0 \in 0 .. length
    BY <1>1
  <2> QED  BY <1>1, <2>1, Zenon DEF SourceTypeOK
<1>3. /\ start = << >> /\ err = "none" /\ ctype = NoType /\ sniffed = FALSE
      /\ call = Idle /\ answer = NotAsked
      /\ delivered = << >> /\ result = "none" /\ failed = FALSE
  BY DEF Init, SnifferInit
<1>4. SnifferTypeOK
  <2>1. start \in Seq(1 .. length) /\ delivered \in Seq(1 .. length)
    BY <1>3, EmptySeq
  <2>2. Len(start) <= sniffBuffSize
    BY <1>3, EmptySeq, SnifferAssumption
  <2>3. ctype \in NoType .. sniffBuffSize /\ answer \in NotAsked .. sniffBuffSize
    BY <1>3, SnifferAssumption DEF NoType, NotAsked
  <2> QED  BY <1>1, <1>3, <2>1, <2>2, <2>3 DEF SnifferTypeOK
<1>5. RangeTypeOK
  <2>1. again \in BOOLEAN
    BY Zenon DEF Init, RangeInit
  <2> QED  BY <2>1, RangeAssumption, EmptySeq DEF Init, RangeInit, RangeTypeOK
<1>6. TypeFromStart
  BY <1>3 DEF TypeFromStart
<1>7. << >> \o << >> = << >> /\ Bytes(0, 0) = << >> /\ [i \in 1 .. 0 |-> i] = << >>
  <2>1. Bytes(0, 0) \in Seq(1 .. 0) /\ Len(Bytes(0, 0)) = 0
    BY NextBytes
  <2>2. Items(0) \in Seq(0 .. 0) /\ Len(Items(0)) = 0
    BY ItemsType
  <2>3. << >> \in Seq(1 .. 0)
    BY EmptySeq
  <2> QED  BY <2>1, <2>2, <2>3, EmptySeq, ConcatEmptySeq DEF Items
<1>8. SnifferInv
  <2>1. pos < sniffBuffSize /\ pos <= fault
    BY <1>1, SnifferAssumption
  <2>2. NothingLost
    BY <1>1, <1>3, <1>7 DEF NothingLost
  <2>3. NoSniffer \/ ~typer
    BY <1>1, <1>3, <2>1 DEF NoSniffer
  <2>4. StillSniffing
    BY <1>1, <1>3, <2>1 DEF StillSniffing
  <2> QED  BY <1>1, <1>3, <2>2, <2>3, <2>4 DEF SnifferInv
<1>9. RangeInv
  BY <1>1, <1>7 DEF RangeInv, ItemsOnceInOrder, Init, RangeInit
<1>10. Media!SourceInit
  BY <1>3, EmptySeq DEF Media!SourceInit
<1> QED
  BY <1>2, <1>4, <1>5, <1>6, <1>8, <1>9, <1>10 DEF IInv, TypeOK

LEMMA NextIInv == IInv /\ [Next]_vars => IInv' /\ MediaStep
<1> SUFFICES ASSUME IInv, [Next]_vars PROVE IInv' /\ MediaStep
  OBVIOUS
<1>1. CASE ThroughSniffer
  BY <1>1, SnifferKeepsIInv
<1>2. CASE StartRange \/ ThroughRange
  BY <1>2, RangeKeepsIInv, RangeHidesMedia
<1>3. CASE UNCHANGED vars
  <2>1. UNCHANGED << sourceVars, snifferVars, readerVars, rangeVars, adapter >>
    BY <1>3 DEF vars
  <2>2. MediaStep
    BY <2>1 DEF MediaStep, sourceVars, contentVars, readerVars,
                Media!sourceVars, Media!contentVars
  <2>3. TypeOK' /\ TypeFromStart'
    BY <2>1 DEF IInv, TypeOK, SourceTypeOK, SnifferTypeOK, RangeTypeOK,
                TypeFromStart, sourceVars, contentVars, snifferVars, readerVars,
                rangeVars
  <2>4. (adapter = "sniffer" => SnifferInv)'
    BY <2>1 DEF IInv, SnifferInv, NothingLost, NoSniffer, StillSniffing,
                sourceVars, contentVars, snifferVars, readerVars
  <2>5. (adapter = "range" => RangeInv)'
    BY <2>1 DEF IInv, RangeInv, ItemsOnceInOrder, sourceVars, rangeVars
  <2> QED  BY <2>2, <2>3, <2>4, <2>5 DEF IInv
<1> QED  BY <1>1, <1>2, <1>3 DEF Next

(* Types of all variables of the adapters and of what they read from. *)
THEOREM AdaptersTyped == Spec => []TypeOK
<1>1. IInv => TypeOK
  BY DEF IInv
<1> QED  BY <1>1, InitIInv, NextIInv, PTL DEF Spec

(* Between the media, the buffer and the caller no byte is lost, repeated   *)
(* or out of order (v2/content_type.go, Read).                             *)
THEOREM NoByteIsLost == Spec => []BufferedInOrder
<1>1. IInv => BufferedInOrder
  BY DEF IInv, BufferedInOrder, SnifferInv
<1> QED  BY <1>1, InitIInv, NextIInv, PTL DEF Spec

(* The type is that of the whole start, or missing because the media fails  *)
(* within it, and every question is answered so (v2/content_type.go,       *)
(* ContentType).                                                           *)
THEOREM TypeIsOfTheStart == Spec => []TypeFromStart
<1>1. IInv => TypeFromStart
  BY DEF IInv
<1> QED  BY <1>1, InitIInv, NextIInv, PTL DEF Spec

(* All ranges together yield every item once and in order, and an error     *)
(* once, at any nesting, and no iterator is called again that has ended or *)
(* failed (v2/iterator/iterator.go, RangeAdapter).                         *)
THEOREM RangesShareTheItems == Spec => []RangeInOrder
<1>1. IInv => RangeInOrder
  BY DEF IInv, RangeInOrder, RangeInv
<1> QED  BY <1>1, InitIInv, NextIInv, PTL DEF Spec

(* The reader with a sniffer implements the media: each step of its caller  *)
(* is a read of the media or none (v2/content_type.go, Read).              *)
THEOREM SnifferImplementsMedia == Spec => SnifferIsReader
<1>1. MediaStep => [\E k \in 0 .. length : Media!ReadUpTo(k)]_(Media!sourceVars)
  BY DEF MediaStep
<1> QED
  BY <1>1, InitIInv, NextIInv, PTL DEF Spec, SnifferIsReader, Media!SourceSpec
----------------------------------------------------------------------------
(* Progress of the ranges: the safety half of RangesEnd.  What ranges have  *)
(* before them at most: their own frames, two steps for every item that is *)
(* left, and two for the error.                                            *)
Weight(stack) ==
    2 * Len(stack) + (IF stack # << >> /\ stack[Len(stack)] = "body" THEN 1 ELSE 0)
RangeRank ==
    Weight(frames) + 2 * (length - pos) + (IF iterErr = "none" THEN 2 ELSE 0)

RangeForward ==
    /\ RangeRank \in Nat
    /\ ThroughRange => RangeRank' < RangeRank
    /\ StartRange => RangeRank' <= RangeRank + 2

(* The weights of the stacks a step makes. *)
LEMMA Weights ==
    ASSUME RangeTypeOK
    PROVE  /\ Weight(frames) \in Nat
           /\ Weight(Append(frames, "loop")) = 2 * Len(frames) + 2
           /\ frames # << >> =>
                /\ Weight(Outer) <= 2 * Len(frames) - 1
                /\ Weight(Outer) \in Nat
                /\ Weight(Append(Outer, "loop")) = 2 * Len(frames)
                /\ Weight(Append(Outer, "body")) = 2 * Len(frames) + 1
<1>1. /\ frames \in Seq({"loop", "body"}) /\ Len(frames) \in Nat
      /\ Len(<< >>) = 0
  BY LenProperties, EmptySeq DEF RangeTypeOK
<1>2. ASSUME NEW stack \in Seq({"loop", "body"}), NEW where \in {"loop", "body"}
      PROVE  Weight(Append(stack, where)) =
                2 * Len(stack) + 2 + (IF where = "body" THEN 1 ELSE 0)
  <2>1. /\ Append(stack, where) \in Seq({"loop", "body"})
        /\ Len(Append(stack, where)) = Len(stack) + 1 /\ Len(stack) \in Nat
        /\ Append(stack, where)[Len(stack) + 1] = where
    BY AppendProperties, LenProperties
  <2>2. Append(stack, where) # << >>
    BY <1>1, <2>1
  <2> QED  BY <2>1, <2>2 DEF Weight
<1>3. ASSUME NEW stack \in Seq({"loop", "body"})
      PROVE  Weight(stack) \in Nat
  <2>1. Len(stack) \in Nat
    BY LenProperties
  <2> QED  BY <2>1 DEF Weight
<1>4. CASE frames # << >>
  <2>1. /\ Outer \in Seq({"loop", "body"})
        /\ Len(Outer) = Len(frames) - 1
    BY <1>4, OuterType
  <2>2. Weight(Outer) <= 2 * Len(frames) - 1
    BY <1>1, <2>1 DEF Weight
  <2>3. /\ Weight(Append(Outer, "loop")) = 2 * Len(Outer) + 2 + 0
        /\ Weight(Append(Outer, "body")) = 2 * Len(Outer) + 2 + 1
    BY <1>2, <2>1
  <2>4. 2 * Len(Outer) + 2 = 2 * Len(frames)
    BY <1>1, <2>1
  <2> QED  BY <1>1, <1>2, <1>3, <2>1, <2>2, <2>3, <2>4
<1> QED  BY <1>1, <1>2, <1>3, <1>4

LEMMA RangeStepsForward ==
    ASSUME SourceTypeOK, RangeTypeOK, RangeInv
    PROVE  /\ RangeRank \in Nat
           /\ RangeSteps => RangeRank' < RangeRank
           /\ BeginRange => RangeRank' <= RangeRank + 2
<1>1. /\ Len(frames) \in Nat /\ pos \in Nat /\ length \in Nat /\ pos <= length
      /\ Weight(frames) \in Nat
  BY LenProperties, Weights DEF RangeTypeOK, SourceTypeOK
<1>2. /\ In("loop") => frames # << >> /\ Weight(frames) = 2 * Len(frames)
      /\ In("body") => frames # << >> /\ Weight(frames) = 2 * Len(frames) + 1
      /\ frames = << >> => Weight(frames) = 2 * Len(frames)
  BY <1>1 DEF In, Weight
<1>3. RangeRank \in Nat
  BY <1>1 DEF RangeRank
<1>4. ASSUME RangeOver
      PROVE  RangeRank' < RangeRank
  <2>1. In("loop") /\ frames' = Outer /\ UNCHANGED << pos, length, iterErr >>
    BY <1>4 DEF RangeOver, sourceVars, contentVars
  <2>2. Weight(frames') <= Weight(frames) - 1 /\ Weight(frames') \in Nat
    BY <1>1, <1>2, <2>1, Weights
  <2> QED  BY <1>1, <1>3, <2>1, <2>2 DEF RangeRank
<1>5. ASSUME Yielded
      PROVE  RangeRank' < RangeRank
  <2>1. /\ In("body") /\ frames' \in {Append(Outer, "loop"), Outer}
        /\ UNCHANGED << pos, length, iterErr >>
    BY <1>5 DEF Yielded, sourceVars, contentVars
  <2>2. Weight(frames') <= Weight(frames) - 1 /\ Weight(frames') \in Nat
    <3>1. Weight(frames) = 2 * Len(frames) + 1
      BY <1>2, <2>1
    <3>2. CASE frames' = Outer
      BY <1>1, <1>2, <2>1, <3>1, <3>2, Weights
    <3>3. CASE frames' = Append(Outer, "loop")
      <4>1. Weight(frames') = 2 * Len(frames)
        BY <1>2, <2>1, <3>3, Weights
      <4> QED  BY <1>1, <3>1, <4>1
    <3> QED  BY <2>1, <3>2, <3>3
  <2> QED  BY <1>1, <1>3, <2>1, <2>2 DEF RangeRank
<1>6. ASSUME CallNext
      PROVE  RangeRank' < RangeRank
  <2>1. /\ In("loop") /\ iterErr = "none" /\ iterErr' = told' /\ length' = length
        /\ pos' = pos \/ pos' = pos + 1
        /\ told' = "none" => pos' = pos + 1
        /\ told' # "none" => pos' = pos
        /\ frames' \in {Outer, Append(Outer, "body")}
    <3>1. \E n \in 0 .. 1 : pos' = pos + n
      BY <1>6, ReadUpToType DEF CallNext
    <3>2. told' = "none" <=> pos' = pos + 1
      BY <1>6 DEF CallNext
    <3>3. pos' = pos \/ pos' = pos + 1
      BY <1>1, <3>1
    <3> QED  BY <1>6, <3>2, <3>3 DEF CallNext, Over, ReadUpTo, contentVars
  <2>2. Weight(frames') \in Nat /\ Weight(frames') <= Weight(frames) + 1
    <3>1. CASE frames' = Outer
      BY <1>1, <1>2, <2>1, <3>1, Weights
    <3>2. CASE frames' = Append(Outer, "body")
      <4>1. /\ Weight(frames) = 2 * Len(frames)
            /\ Weight(frames') = 2 * Len(frames) + 1
        BY <1>2, <2>1, <3>2, Weights
      <4> QED  BY <1>1, <4>1
    <3> QED  BY <2>1, <3>1, <3>2
  <2>3. CASE told' = "none"
    <3>1. /\ RangeRank = Weight(frames) + 2 * (length - pos) + 2
          /\ RangeRank' = Weight(frames') + 2 * (length - (pos + 1)) + 2
      BY <2>1, <2>3 DEF RangeRank
    <3> QED  BY <1>1, <2>2, <3>1
  <2>4. CASE told' # "none"
    <3>1. /\ RangeRank = Weight(frames) + 2 * (length - pos) + 2
          /\ RangeRank' = Weight(frames') + 2 * (length - pos) + 0
      BY <2>1, <2>4 DEF RangeRank
    <3> QED  BY <1>1, <2>2, <3>1
  <2> QED  BY <2>3, <2>4
<1>7. ASSUME BeginRange
      PROVE  RangeRank' <= RangeRank + 2
  <2>1. /\ frames = << >> \/ In("body")
        /\ frames' = Append(frames, "loop")
        /\ UNCHANGED << pos, length, iterErr >>
    BY <1>7 DEF BeginRange, KeptErr, sourceVars, contentVars
  <2>2. Weight(frames') <= Weight(frames) + 2 /\ Weight(frames') \in Nat
    BY <1>1, <1>2, <2>1, Weights
  <2> QED  BY <1>1, <1>3, <2>1, <2>2 DEF RangeRank
<1> QED  BY <1>3, <1>4, <1>5, <1>6, <1>7 DEF RangeSteps

(* Every step of a range brings all of them nearer to their end, and one    *)
(* that begins adds at most two steps: the ranges over one function take   *)
(* together at most 2 * length + 2 steps, and two for each of them, however *)
(* nested and broken off (v2/iterator/iterator.go, RangeAdapter).          *)
THEOREM RangesGoForward == Spec => [][RangeForward]_vars
<1>1. IInv /\ [Next]_vars => [RangeForward]_vars
  <2> SUFFICES ASSUME IInv PROVE RangeForward
    OBVIOUS
  <2>1. SourceTypeOK /\ RangeTypeOK
    BY DEF IInv, TypeOK
  <2>2. CASE adapter = "range"
    BY <2>1, <2>2, RangeStepsForward DEF IInv, RangeForward, ThroughRange, StartRange
  <2>3. CASE adapter # "range"
    <3>1. pos \in Nat /\ length \in Nat /\ pos <= length /\ Weight(frames) \in Nat
      BY <2>1, Weights DEF SourceTypeOK
    <3> QED  BY <2>3, <3>1 DEF RangeForward, RangeRank, ThroughRange, StartRange
  <2> QED  BY <2>2, <2>3
<1> QED  BY <1>1, InitIInv, NextIInv, PTL DEF Spec
=============================================================================
