----------------------- MODULE ProtoJSONStream_proofs -----------------------
(***************************************************************************)
(* The stream of messages, proved for every content of the reader, of any  *)
(* length, and every sequence of Recv and Close.                           *)
(***************************************************************************)
EXTENDS ProtoJSONStream, SequenceTheorems, TLAPS

AtStart == [pos |-> 1, state |-> "top", err |-> "none"]

(* What the properties rest on: the first Recv finds a new decoder, a later *)
(* one is past the opening bracket unless there is nothing to read, and the *)
(* decoder keeps io.EOF only when it has read all there is.                 *)
StreamInv ==
    /\ first => decoder = AtStart
    /\ ~first /\ MayRecv => decoder.pos > 1 \/ Len(input) = 0
    /\ decoder.err = "EOF" => decoder.pos > Len(input) /\ end = "EOF"

IInv == TypeOK /\ MessagesInOrder /\ EOFIsNoError /\ StreamInv

Place(d) == d \in Decoders /\ d.pos <= Len(input) + 1

(* From d to e the decoder has moved past tokens, but past no message.      *)
Skips(d, e) ==
    /\ Place(e) /\ d.pos <= e.pos
    /\ \A p \in d.pos .. e.pos - 1 : input[p] # "message"

(* From d to e it has read one value, with at most a comma before it.       *)
Reads(d, e) ==
    /\ Place(e) /\ d.pos < e.pos
    /\ \A p \in d.pos .. e.pos - 2 : input[p] # "message"
    /\ input[e.pos - 1] \in Values

----------------------------------------------------------------------------
(* encoding/json *)

LEMMA InputFacts ==
    ASSUME input \in Seq(Tokens)
    PROVE  /\ Len(input) \in Nat
           /\ \A p \in 1 .. Len(input) : input[p] \in Tokens /\ input[p] # "end"
<1>1. "end" \notin Tokens
  BY DEF Tokens, Values
<1>2. \A p \in 1 .. Len(input) : input[p] \in Tokens
  OBVIOUS
<1> QED  BY <1>1, <1>2

LEMMA PeekFacts ==
    ASSUME input \in Seq(Tokens), NEW d, Place(d)
    PROVE  /\ d.pos \in Nat \ {0} /\ Peek(d) \in Tokens \cup {"end"}
           /\ Peek(d) = "end" <=> d.pos = Len(input) + 1
           /\ Peek(d) # "end" => d.pos <= Len(input) /\ Peek(d) = input[d.pos]
<1>1. d.pos \in Nat \ {0} /\ d.pos <= Len(input) + 1
  BY DEF Place, Decoders
<1> QED  BY <1>1, InputFacts DEF Peek

LEMMA MovedFacts ==
    ASSUME input \in Seq(Tokens), NEW d, Place(d), Peek(d) # "end",
           NEW s \in {"top", "start", "comma", "value"}
    PROVE  LET e == Moved(d, s)
           IN  Place(e) /\ e.pos = d.pos + 1 /\ e.state = s /\ e.err = d.err
<1>1. d \in Decoders /\ d.pos \in Nat /\ d.pos <= Len(input) /\ Len(input) \in Nat
  BY PeekFacts, InputFacts DEF Place
<1>2. /\ Moved(d, s).pos = d.pos + 1 /\ Moved(d, s).state = s /\ Moved(d, s).err = d.err
      /\ Moved(d, s) = [pos |-> d.pos + 1, state |-> s, err |-> d.err]
  <2> DEFINE m == [d EXCEPT !.pos = d.pos + 1]
  <2>1. m = [pos |-> d.pos + 1, state |-> d.state, err |-> d.err]
    BY <1>1 DEF Decoders
  <2>2. Moved(d, s) = [m EXCEPT !.state = s]
    BY DEF Moved
  <2> HIDE DEF m
  <2>3. Moved(d, s) = [pos |-> d.pos + 1, state |-> s, err |-> d.err]
    BY <2>1, <2>2
  <2> QED  BY <2>3
<1>3. d.err \in Errors /\ d.pos + 1 \in Nat \ {0} /\ d.pos + 1 <= Len(input) + 1
  BY <1>1 DEF Decoders
<1> QED  BY <1>2, <1>3 DEF Place, Decoders

(* A step over one token that is no message, or over none. *)
LEMMA SkipOne ==
    ASSUME NEW d, NEW at, NEW e, Place(d), Skips(d, at), Place(e),
           e.pos = at.pos \/ (e.pos = at.pos + 1 /\ input[at.pos] # "message")
    PROVE  Skips(d, e)
<1>1. d.pos \in Nat /\ at.pos \in Nat /\ d.pos <= at.pos
  BY DEF Place, Skips, Decoders
<1>2. \A p \in d.pos .. at.pos - 1 : input[p] # "message"
  BY DEF Skips
<1>3. \A p \in d.pos .. e.pos - 1 : input[p] # "message"
  BY <1>1, <1>2
<1> QED  BY <1>1, <1>3 DEF Skips

LEMMA SkipNone == ASSUME NEW d, Place(d) PROVE Skips(d, d)
<1>1. d.pos \in Nat
  BY DEF Place, Decoders
<1> QED  BY <1>1 DEF Skips

(* Reading one value. *)
LEMMA ReadFacts ==
    ASSUME input \in Seq(Tokens), end \in Ends, NEW d, Place(d), d.err = "none"
    PROVE  LET a == readValue(d)
           IN  /\ a.err \in Errors \ {"unmarshal"}
               /\ a.err = "none" =>
                    /\ Place(a.d) /\ a.d.pos = d.pos + 1 /\ a.d.err = "none"
                    /\ Peek(d) \in Values /\ a.token = Peek(d)
               /\ a.err # "none" =>
                    /\ Place(a.d) /\ a.d.pos = d.pos /\ a.d.err = a.err
                    /\ a.err = "EOF" => d.pos > Len(input) /\ end = "EOF"
<1> DEFINE a == readValue(d)
<1>0. d \in Decoders /\ d.pos \in Nat
  BY PeekFacts DEF Place
<1>1. CASE Peek(d) \in Values
  <2>1. /\ a.d = Moved(d, IF d.state = "top" THEN "top" ELSE "comma")
        /\ a.token = Peek(d) /\ a.err = "none"
    <3>1. a = Answer(Moved(d, IF d.state = "top" THEN "top" ELSE "comma"), Peek(d), "none")
      BY <1>1 DEF readValue, Values
    <3> QED  BY <3>1 DEF Answer
  <2>2. Peek(d) # "end"
    BY <1>1 DEF Values
  <2>3. Place(a.d) /\ a.d.pos = d.pos + 1 /\ a.d.err = "none"
    BY <2>1, <2>2, MovedFacts
  <2> QED  BY <1>1, <2>1, <2>3 DEF Errors
<1>2. CASE Peek(d) \notin Values
  <2>1. PICK err \in Errors \ {"none", "unmarshal"} :
            /\ a = Kept(d, err)
            /\ err = "EOF" => Peek(d) = "end" /\ end = "EOF"
    <3> DEFINE err == IF Peek(d) = "end" THEN end
                      ELSE IF Peek(d) # "cut" THEN "syntax"
                      ELSE IF end = "EOF" THEN "unexpectedEOF" ELSE end
    <3>1. a = Kept(d, err)
      BY <1>2 DEF readValue
    <3>2. err \in Errors \ {"none", "unmarshal"} /\ (err = "EOF" => Peek(d) = "end" /\ end = "EOF")
      BY DEF Errors, Ends
    <3> QED  BY <3>1, <3>2
  <2>2. a.err = err /\ a.d = [d EXCEPT !.err = err]
    BY <2>1 DEF Kept, Error, Answer
  <2>3. Place(a.d) /\ a.d.pos = d.pos /\ a.d.err = err
    BY <1>0, <2>2 DEF Place, Decoders
  <2>4. err = "EOF" => d.pos > Len(input)
    BY <2>1, PeekFacts, InputFacts
  <2> QED  BY <2>1, <2>2, <2>3, <2>4
<1> QED  BY <1>1, <1>2

(* A decoder that Decode could not go on from: Token will not give it a     *)
(* value.                                                                   *)
Stuck(d) == d.err # "none" \/ (d.state = "comma" /\ Peek(d) # ",")

LEMMA DecodeFacts ==
    ASSUME input \in Seq(Tokens), end \in Ends, NEW d, Place(d),
           d.err = "EOF" => d.pos > Len(input) /\ end = "EOF"
    PROVE  LET a == Decode(d)
           IN  /\ a.err \in Errors
               /\ a.err = "none" =>
                    /\ Reads(d, a.d) /\ a.d.err = "none" /\ a.token = input[a.d.pos - 1]
               /\ a.err # "none" =>
                    /\ Skips(d, a.d) /\ Stuck(a.d)
                    /\ a.err = "EOF" \/ a.d.err = "EOF" =>
                            a.d.pos > Len(input) /\ end = "EOF"
<1> DEFINE a == Decode(d)
<1>0. /\ d.pos \in Nat \ {0} /\ Len(input) \in Nat /\ d.err \in Errors
      /\ Skips(d, d)
  BY PeekFacts, InputFacts, SkipNone DEF Place, Decoders
<1>1. CASE d.err # "none"
  <2>1. a.d = d /\ a.err = d.err
    BY <1>1 DEF Decode, Error, Answer
  <2> QED  BY <1>0, <1>1, <2>1 DEF Stuck
<1>2. CASE d.err = "none" /\ d.state # "comma"
  <2>1. a = readValue(d)
    BY <1>2 DEF Decode
  <2>2. a.err = "none" => Reads(d, a.d) /\ a.token = input[a.d.pos - 1] /\ a.d.err = "none"
    <3>1. a.err = "none" =>
              /\ Place(a.d) /\ a.d.pos = d.pos + 1 /\ a.d.err = "none"
              /\ Peek(d) \in Values /\ a.token = Peek(d)
      BY <1>2, <2>1, ReadFacts
    <3> HIDE DEF a
    <3>2. Peek(d) \in Values => Peek(d) = input[d.pos]
      BY PeekFacts DEF Values
    <3> QED  BY <1>0, <3>1, <3>2 DEF Reads
  <2>3. a.err # "none" =>
            /\ Skips(d, a.d) /\ Stuck(a.d)
            /\ a.err = "EOF" \/ a.d.err = "EOF" => a.d.pos > Len(input) /\ end = "EOF"
    BY <1>0, <1>2, <2>1, ReadFacts DEF Skips, Stuck
  <2> QED  BY <1>2, <2>1, <2>2, <2>3, ReadFacts
<1>3. CASE d.err = "none" /\ d.state = "comma" /\ Peek(d) = ","
  <2> DEFINE e == Moved(d, "value")
  <2>1. a = readValue(e)
    BY <1>3 DEF Decode
  <2>2. Place(e) /\ e.pos = d.pos + 1 /\ e.err = "none" /\ input[d.pos] = ","
    BY <1>3, MovedFacts, PeekFacts
  <2> HIDE DEF e, a
  <2>3. ASSUME a.err = "none"
        PROVE  Reads(d, a.d) /\ a.token = input[a.d.pos - 1] /\ a.d.err = "none"
    <3>0. /\ Place(a.d) /\ a.d.pos = e.pos + 1 /\ a.d.err = "none"
          /\ Peek(e) \in Values /\ a.token = Peek(e)
      BY <2>1, <2>2, <2>3, ReadFacts
    <3>1. a.d.pos = d.pos + 2
      <4>1. (d.pos + 1) + 1 = d.pos + 2
        BY <1>0
      <4> QED  BY <2>2, <3>0, <4>1, Zenon
    <3>2. Peek(e) = input[d.pos + 1]
      BY <2>2, <3>0, PeekFacts DEF Values
    <3>3. /\ d.pos < a.d.pos /\ a.d.pos - 1 = d.pos + 1
          /\ \A p \in d.pos .. a.d.pos - 2 : p = d.pos
      BY <1>0, <3>1
    <3>4. \A p \in d.pos .. a.d.pos - 2 : input[p] # "message"
      BY <2>2, <3>3
    <3> QED  BY <3>0, <3>2, <3>3, <3>4 DEF Reads
  <2>4. ASSUME a.err # "none"
        PROVE  /\ Skips(d, a.d) /\ Stuck(a.d)
               /\ a.err = "EOF" \/ a.d.err = "EOF" => a.d.pos > Len(input) /\ end = "EOF"
    <3>1. /\ Place(a.d) /\ a.d.pos = d.pos + 1 /\ a.d.err = a.err
          /\ a.err = "EOF" => a.d.pos > Len(input) /\ end = "EOF"
      BY <2>1, <2>2, <2>4, ReadFacts
    <3>2. Skips(d, a.d)
      BY <1>0, <2>2, <3>1, SkipOne
    <3> QED  BY <2>4, <3>1, <3>2 DEF Stuck
  <2>5. a.err \in Errors
    BY <2>1, <2>2, ReadFacts
  <2> QED  BY <2>3, <2>4, <2>5 DEF a
<1>4. CASE d.err = "none" /\ d.state = "comma" /\ Peek(d) # ","
  <2>1. a.d = d /\ a.err = IF Peek(d) = "end" THEN end ELSE "syntax"
    BY <1>4 DEF Decode, Error, Answer
  <2>2. a.err \in Errors \ {"none"} /\ (a.err = "EOF" => Peek(d) = "end" /\ end = "EOF")
    BY <2>1 DEF Ends, Errors
  <2>3. Peek(d) = "end" => d.pos > Len(input)
    BY <1>0, PeekFacts
  <2>4. Stuck(d) /\ d.err # "EOF"
    BY <1>4 DEF Stuck
  <2> QED  BY <1>0, <2>1, <2>2, <2>3, <2>4
<1> QED  BY <1>1, <1>2, <1>3, <1>4

(* The look for a closing bracket after Decode failed. *)
LEMMA TokenFacts ==
    ASSUME input \in Seq(Tokens), end \in Ends, NEW d, Place(d), Stuck(d)
    PROVE  LET t == Token(d)
           IN  /\ Skips(d, t.d) /\ t.d.err = d.err
               /\ t.token = "]" => t.d.pos > 1 /\ input[t.d.pos - 1] = "]"
<1> DEFINE t == Token(d)
           at == IF Peek(d) = "," /\ d.state = "comma" THEN Moved(d, "value") ELSE d
<1>0. d.pos \in Nat \ {0} /\ Len(input) \in Nat /\ d.err \in Errors
  BY PeekFacts, InputFacts DEF Place, Decoders
<1>1. Skips(d, at) /\ at.err = d.err
  <2>1. CASE Peek(d) = "," /\ d.state = "comma"
    <3>1. Place(at) /\ at.pos = d.pos + 1 /\ at.err = d.err /\ input[d.pos] = ","
      BY <2>1, MovedFacts, PeekFacts
    <3> QED  BY <3>1, SkipNone, SkipOne
  <2>2. CASE ~(Peek(d) = "," /\ d.state = "comma")
    BY <2>2, SkipNone
  <2> QED  BY <2>1, <2>2
<1>2. Place(at) /\ at.pos \in Nat \ {0} /\ (at.state = "comma" \/ at.err # "none")
  BY <1>1, PeekFacts DEF Skips, Stuck, Moved
<1>3. t = LET c == Peek(at)
          IN  CASE c = "end" -> Error(at, end)
                [] c = "[" /\ at.state # "comma" -> Answer(Moved(at, "start"), c, "none")
                [] c = "]" /\ at.state \in {"start", "comma"} -> Answer(Moved(at, "top"), c, "none")
                [] c \in Values \cup {"cut", "garbage"} /\ at.state # "comma" -> Decode(at)
                [] OTHER -> Error(at, "syntax")
  BY DEF Token
<1> HIDE DEF at, t
<1>4. CASE t = Answer(Moved(at, "start"), "[", "none") /\ Peek(at) = "["
  <2>1. t.d = Moved(at, "start") /\ t.token = "["
    BY <1>4 DEF Answer
  <2>2. Place(t.d) /\ t.d.pos = at.pos + 1 /\ t.d.err = at.err /\ input[at.pos] = "["
    BY <1>2, <1>4, <2>1, MovedFacts, PeekFacts
  <2>3. Skips(d, t.d)
    BY <1>1, <2>2, SkipOne
  <2>4. t.d.pos - 1 = at.pos /\ t.d.pos > 1
    BY <1>2, <2>2
  <2> QED  BY <1>1, <2>1, <2>2, <2>3, <2>4 DEF t
<1>5. CASE t = Answer(Moved(at, "top"), "]", "none") /\ Peek(at) = "]"
  <2>1. t.d = Moved(at, "top") /\ t.token = "]"
    BY <1>5 DEF Answer
  <2>2. Place(t.d) /\ t.d.pos = at.pos + 1 /\ t.d.err = at.err /\ input[at.pos] = "]"
    BY <1>2, <1>5, <2>1, MovedFacts, PeekFacts
  <2>3. Skips(d, t.d)
    BY <1>1, <2>2, SkipOne
  <2>4. t.d.pos - 1 = at.pos /\ t.d.pos > 1
    BY <1>2, <2>2
  <2> QED  BY <1>1, <2>1, <2>2, <2>3, <2>4 DEF t
<1>6. CASE \E err \in Errors : t = Error(at, err)
  <2>1. t.d = at /\ t.token = "none"
    BY <1>6 DEF Error, Answer, NoToken
  <2>2. "none" # "]"
    OBVIOUS
  <2> QED  BY <1>1, <2>1, <2>2 DEF t
<1>7. CASE t = Decode(at) /\ at.state # "comma"
  <2>1. t = Error(at, at.err)
    BY <1>2, <1>7 DEF Decode
  <2> QED  BY <1>0, <1>1, <1>6, <2>1
<1> QED  BY <1>3, <1>4, <1>5, <1>6, <1>7 DEF Errors, Ends

(* The first Recv finds the opening bracket or does not. *)
LEMMA OpeningFacts ==
    ASSUME input \in Seq(Tokens), end \in Ends
    PROVE  LET t == Token(AtStart)
           IN  /\ Place(AtStart) /\ Place(t.d) /\ t.d.pos \in {1, 2}
               /\ t.err \in Errors \ {"unmarshal"}
               /\ t.err = "none" /\ t.token = "[" => t.d = [AtStart EXCEPT !.pos = 2, !.state = "start"]
               /\ t.err = "EOF" \/ t.d.err = "EOF" => Len(input) = 0 /\ end = "EOF"
<1> DEFINE t == Token(AtStart)
           c == Peek(AtStart)
<1>1. Place(AtStart) /\ AtStart.pos = 1 /\ AtStart.state = "top" /\ AtStart.err = "none"
  BY InputFacts DEF Place, Decoders, AtStart, Errors
<1>2. t = CASE c = "end" -> Error(AtStart, end)
            [] c = "[" -> Answer(Moved(AtStart, "start"), c, "none")
            [] c \in Values \cup {"cut", "garbage"} -> Decode(AtStart)
            [] OTHER -> Error(AtStart, "syntax")
  BY <1>1 DEF Token
<1>3. CASE c = "end"
  <2>1. t = Error(AtStart, end)
    BY <1>2, <1>3 DEF Values
  <2>2. t.d = AtStart /\ t.err = end /\ t.token = "none"
    BY <2>1 DEF Error, Answer, NoToken
  <2>3. Len(input) = 0
    BY <1>1, <1>3, PeekFacts, InputFacts
  <2> QED  BY <1>1, <2>2, <2>3 DEF Ends, Errors
<1>4. CASE c = "["
  <2>1. t = Answer(Moved(AtStart, "start"), c, "none")
    BY <1>2, <1>4 DEF Values
  <2>2. t.d = Moved(AtStart, "start") /\ t.err = "none"
    BY <2>1 DEF Answer
  <2>3. Place(t.d) /\ t.d.pos = 2 /\ t.d.err = "none"
    BY <1>1, <1>4, <2>2, MovedFacts
  <2>4. t.d = [AtStart EXCEPT !.pos = 2, !.state = "start"]
    BY <2>2 DEF Moved, AtStart
  <2> QED  BY <1>1, <2>2, <2>3, <2>4 DEF Errors
<1>5. CASE c \in Values \cup {"cut", "garbage"}
  <2> DEFINE a == readValue(AtStart)
  <2>1. t = a
    BY <1>1, <1>2, <1>5 DEF Decode, Values
  <2>2. /\ a.err \in Errors \ {"unmarshal"}
        /\ a.err = "none" => /\ Place(a.d) /\ a.d.pos = 2 /\ a.d.err = "none"
                             /\ a.token \in Values
        /\ a.err # "none" => /\ Place(a.d) /\ a.d.pos = 1 /\ a.d.err = a.err
                             /\ a.err = "EOF" => 1 > Len(input) /\ end = "EOF"
    BY <1>1, ReadFacts
  <2>3. "[" \notin Values
    BY DEF Values
  <2> HIDE DEF a, t
  <2> QED  BY <1>1, <2>1, <2>2, <2>3, InputFacts DEF t
<1>6. CASE c \notin {"end", "["} \cup Values \cup {"cut", "garbage"}
  <2>1. t = Error(AtStart, "syntax")
    BY <1>2, <1>6
  <2>2. t.d = AtStart /\ t.err = "syntax" /\ t.token = "none"
    BY <2>1 DEF Error, Answer, NoToken
  <2> QED  BY <1>1, <2>2 DEF Errors
<1> QED  BY <1>3, <1>4, <1>5, <1>6

----------------------------------------------------------------------------
(* What Recv starts from, past the opening bracket. *)
LEMMA OpenedFacts ==
    ASSUME IInv, MayRecv
    PROVE  /\ Opened.err \in Errors \ {"unmarshal"}
           /\ Place(Opened.d) /\ decoder.pos <= Opened.d.pos
           /\ \A p \in decoder.pos .. Opened.d.pos - 1 : p = 1 \/ input[p] # "message"
           /\ Opened.d.err = "EOF" \/ Opened.err = "EOF" =>
                Opened.d.pos > Len(input) /\ end = "EOF"
           /\ Opened.err = "none" => Opened.d.pos > 1 \/ Len(input) = 0
<1>1. /\ input \in Seq(Tokens) /\ end \in Ends /\ Place(decoder)
      /\ first \in BOOLEAN /\ Len(input) \in Nat
      /\ decoder.pos \in Nat \ {0}
  BY InputFacts DEF IInv, TypeOK, Place, Decoders
<1>2. CASE ~first
  <2>1. Opened.d = decoder /\ Opened.err = "none"
    BY <1>2 DEF Opened, Error, Answer
  <2> QED  BY <1>1, <1>2, <2>1 DEF IInv, StreamInv, Errors
<1>3. CASE first
  <2> DEFINE t == Token(AtStart)
  <2>1. decoder = AtStart /\ decoder.pos = 1
    BY <1>3 DEF IInv, StreamInv, AtStart
  <2>2. /\ Place(t.d) /\ t.d.pos \in {1, 2} /\ t.err \in Errors \ {"unmarshal"}
        /\ t.err = "none" /\ t.token = "[" => t.d.pos = 2
        /\ t.err = "EOF" \/ t.d.err = "EOF" => Len(input) = 0 /\ end = "EOF"
    <3>1. /\ Place(t.d) /\ t.d.pos \in {1, 2} /\ t.err \in Errors \ {"unmarshal"}
          /\ t.err = "none" /\ t.token = "[" => t.d = [AtStart EXCEPT !.pos = 2, !.state = "start"]
          /\ t.err = "EOF" \/ t.d.err = "EOF" => Len(input) = 0 /\ end = "EOF"
      BY <1>1, OpeningFacts
    <3>2. [AtStart EXCEPT !.pos = 2, !.state = "start"].pos = 2
      BY DEF AtStart
    <3> HIDE DEF t
    <3> QED  BY <3>1, <3>2
  <2>3. Opened = IF t.err # "none" THEN t
                 ELSE IF t.token # "[" THEN Error(t.d, "badOpening") ELSE t
    BY <1>3, <2>1 DEF Opened
  <2> HIDE DEF t
  <2>4. /\ Opened.d = t.d
        /\ Opened.err = IF t.err # "none" THEN t.err
                        ELSE IF t.token # "[" THEN "badOpening" ELSE "none"
    BY <2>3 DEF Error, Answer
  <2>5. \A p \in decoder.pos .. Opened.d.pos - 1 : p = 1
    BY <2>1, <2>2, <2>4
  <2>6. "badOpening" \in Errors \ {"unmarshal"} /\ "badOpening" # "EOF" /\ "badOpening" # "none"
    BY DEF Errors
  <2>7. t.d.pos > 0
    BY <2>2
  <2> QED  BY <1>1, <2>1, <2>2, <2>4, <2>5, <2>6, <2>7
<1> QED  BY <1>1, <1>2, <1>3

(* No message was passed over, and none was returned. *)
LEMMA NoneDelivered ==
    ASSUME MessagesInOrder, UNCHANGED << input, delivered >>,
           decoder.pos \in Nat, decoder'.pos \in Nat, decoder.pos <= decoder'.pos,
           \A p \in decoder.pos .. decoder'.pos - 1 : p = 1 \/ input[p] # "message"
    PROVE  MessagesInOrder'
<1>1. {p \in 2 .. decoder'.pos - 1 : input[p] = "message"}
        = {p \in 2 .. decoder.pos - 1 : input[p] = "message"}
  OBVIOUS
<1> QED  BY <1>1 DEF MessagesInOrder

(* One message was passed over, the last token, and it was returned. *)
LEMMA OneDelivered ==
    ASSUME MessagesInOrder, input' = input, NEW q \in Nat, decoder'.pos = q + 1,
           delivered \in Seq(Nat), delivered' = Append(delivered, q),
           decoder.pos \in Nat, decoder.pos <= q, q > 1, input[q] = "message",
           \A p \in decoder.pos .. q - 1 : p = 1 \/ input[p] # "message"
    PROVE  MessagesInOrder'
<1> DEFINE n == Len(delivered)
           Before == {p \in 2 .. decoder.pos - 1 : input[p] = "message"}
<1>1. /\ n \in Nat /\ Len(delivered') = n + 1
      /\ delivered'[n + 1] = q /\ \A i \in 1 .. n : delivered'[i] = delivered[i]
  OBVIOUS
<1>2. /\ {delivered[i] : i \in 1 .. n} = Before
      /\ \A i, j \in 1 .. n : i < j => delivered[i] < delivered[j]
  BY DEF MessagesInOrder
<1>3. \A i \in 1 .. n : delivered[i] < q
  <2>1. \A i \in 1 .. n : delivered[i] \in Before
    BY <1>2
  <2> QED  BY <2>1
<1>4. {p \in 2 .. decoder'.pos - 1 : input[p] = "message"} = Before \cup {q}
  OBVIOUS
<1>5. {delivered'[i] : i \in 1 .. n + 1} = {delivered[i] : i \in 1 .. n} \cup {q}
  BY <1>1
<1>6. \A i, j \in 1 .. n + 1 : i < j => delivered'[i] < delivered'[j]
  <2> SUFFICES ASSUME NEW i \in 1 .. n + 1, NEW j \in 1 .. n + 1, i < j
               PROVE  delivered'[i] < delivered'[j]
    OBVIOUS
  <2>1. i \in 1 .. n
    BY <1>1
  <2> QED  BY <1>1, <1>2, <1>3, <2>1
<1> QED  BY <1>1, <1>2, <1>4, <1>5, <1>6 DEF MessagesInOrder

----------------------------------------------------------------------------
LEMMA InitIInv == Init => IInv
<1> SUFFICES ASSUME Init PROVE IInv
  OBVIOUS
<1>1. /\ input \in Seq(Tokens) /\ Len(input) \in Nat /\ decoder = AtStart
      /\ delivered = << >> /\ first = TRUE /\ result = "none"
  BY StreamAssumption, InputFacts DEF Init, AtStart
<1>2. TypeOK
  <2>1. AtStart \in Decoders /\ AtStart.pos = 1 /\ "none" \in Errors
    BY DEF AtStart, Decoders, Errors
  <2>2. first \in BOOLEAN /\ closed \in BOOLEAN /\ done \in BOOLEAN
    BY DEF Init
  <2>3. delivered \in Seq(1 .. Len(input)) /\ end \in Ends
    BY <1>1 DEF Init
  <2> QED  BY <1>1, <2>1, <2>2, <2>3 DEF TypeOK
<1>3. MessagesInOrder
  BY <1>1 DEF MessagesInOrder, AtStart
<1>4. EOFIsNoError /\ StreamInv
  BY <1>1 DEF EOFIsNoError, StreamInv, AtStart
<1> QED  BY <1>2, <1>3, <1>4 DEF IInv

LEMMA FailsIInv == IInv /\ RecvFails => IInv'
<1> SUFFICES ASSUME IInv, RecvFails PROVE IInv'
  OBVIOUS
<1>1. /\ MayRecv /\ first' = FALSE /\ UNCHANGED << input, end, closed, delivered >>
      /\ input \in Seq(Tokens) /\ end \in Ends /\ Len(input) \in Nat
      /\ decoder.pos \in Nat \ {0}
  BY InputFacts DEF RecvFails, FirstAfterRecv, IInv, TypeOK, Decoders
<1>2. /\ Place(decoder') /\ decoder.pos <= decoder'.pos /\ result' \in Errors
      /\ \A p \in decoder.pos .. decoder'.pos - 1 : p = 1 \/ input[p] # "message"
      /\ decoder'.err = "EOF" => decoder'.pos > Len(input) /\ end = "EOF"
      /\ result' = "EOF" => \/ decoder'.pos > 1 /\ input[decoder'.pos - 1] = "]"
                            \/ decoder'.pos > Len(input) /\ end = "EOF"
      /\ result' \in {"none", "unmarshal", "EOF"} => decoder'.pos > 1 \/ Len(input) = 0
      /\ done' \in BOOLEAN
  <2> DEFINE o == Opened
  <2>0. /\ o.err \in Errors \ {"unmarshal"} /\ Place(o.d) /\ decoder.pos <= o.d.pos
        /\ \A p \in decoder.pos .. o.d.pos - 1 : p = 1 \/ input[p] # "message"
        /\ o.d.err = "EOF" \/ o.err = "EOF" => o.d.pos > Len(input) /\ end = "EOF"
        /\ o.err = "none" => o.d.pos > 1 \/ Len(input) = 0
        /\ o.d.pos \in Nat
    BY <1>1, OpenedFacts DEF Place, Decoders
  <2>1. CASE o.err # "none" /\ decoder' = o.d /\ Recvs(o.err)
    <3>1. result' = o.err /\ done' \in BOOLEAN
      BY <2>1 DEF Recvs, IInv, TypeOK
    <3> HIDE DEF o
    <3>2. o.d.pos > Len(input) => o.d.pos > 1 \/ Len(input) = 0
      BY <1>1, <2>0
    <3> QED  BY <2>0, <2>1, <3>1, <3>2
  <2>2. CASE LET answer == Decode(o.d)
             IN  /\ o.err = "none" /\ answer.err # "none"
                 /\ decoder' = AfterFailure(answer).d
                 /\ Recvs(AfterFailure(answer).err)
    <3> DEFINE a == Decode(o.d)
               t == Token(a.d)
    <3>1. /\ a.err \in Errors \ {"none"} /\ Skips(o.d, a.d) /\ Stuck(a.d)
          /\ a.err = "EOF" \/ a.d.err = "EOF" => a.d.pos > Len(input) /\ end = "EOF"
      <4> HIDE DEF o
      <4> QED  BY <1>1, <2>0, <2>2, DecodeFacts
    <3>2. /\ Skips(a.d, t.d) /\ t.d.err = a.d.err
          /\ t.token = "]" => t.d.pos > 1 /\ input[t.d.pos - 1] = "]"
      <4>1. Place(a.d)
        BY <3>1 DEF Skips
      <4> QED  BY <1>1, <3>1, <4>1, TokenFacts
    <3>3. /\ decoder' = t.d
          /\ result' = IF t.token = "]" THEN "EOF" ELSE a.err
          /\ done' \in BOOLEAN
      <4>1. AfterFailure(a) = IF t.token = "]" THEN Error(t.d, "EOF") ELSE Error(t.d, a.err)
        BY DEF AfterFailure
      <4>2. decoder' = AfterFailure(a).d /\ Recvs(AfterFailure(a).err)
        BY <2>2
      <4> HIDE DEF a, t
      <4> QED  BY <4>1, <4>2 DEF Error, Answer, Recvs, IInv, TypeOK
    <3> HIDE DEF o, a, t
    <3>4. /\ Place(t.d) /\ t.d.pos \in Nat /\ a.d.pos \in Nat /\ o.d.pos \in Nat
          /\ o.d.pos <= a.d.pos /\ a.d.pos <= t.d.pos
      BY <2>0, <3>1, <3>2 DEF Skips, Place, Decoders
    <3>5. \A p \in decoder.pos .. t.d.pos - 1 : p = 1 \/ input[p] # "message"
      <4>1. /\ \A p \in o.d.pos .. a.d.pos - 1 : input[p] # "message"
            /\ \A p \in a.d.pos .. t.d.pos - 1 : input[p] # "message"
        BY <3>1, <3>2 DEF Skips
      <4>2. \A p \in decoder.pos .. t.d.pos - 1 :
                \/ p \in decoder.pos .. o.d.pos - 1
                \/ p \in o.d.pos .. a.d.pos - 1
                \/ p \in a.d.pos .. t.d.pos - 1
        BY <1>1, <3>4
      <4> QED  BY <2>0, <4>1, <4>2
    <3>6. decoder.pos <= t.d.pos /\ (t.d.pos > 1 \/ Len(input) = 0)
      BY <1>1, <2>0, <2>2, <3>4 DEF o
    <3>7. a.d.pos > Len(input) => t.d.pos > Len(input)
      BY <1>1, <3>4
    <3>8. t.d.err = "EOF" => t.d.pos > Len(input) /\ end = "EOF"
      BY <3>1, <3>2, <3>7
    <3>9. result' \in Errors
      BY <3>1, <3>3 DEF Errors, Ends
    <3>10. result' = "EOF" => \/ t.d.pos > 1 /\ input[t.d.pos - 1] = "]"
                              \/ t.d.pos > Len(input) /\ end = "EOF"
      BY <3>1, <3>2, <3>3, <3>7
    <3> QED  BY <3>3, <3>4, <3>5, <3>6, <3>8, <3>9, <3>10
  <2> QED  BY <2>1, <2>2 DEF RecvFails
<1>3. decoder'.pos \in Nat \ {0} /\ decoder' \in Decoders /\ decoder'.pos <= Len(input) + 1
  BY <1>2 DEF Place, Decoders
<1>4. TypeOK'
  <2>1. TypeOK
    BY DEF IInv
  <2> QED  BY <1>1, <1>2, <1>3, <2>1 DEF TypeOK
<1>5. MessagesInOrder'
  BY <1>1, <1>2, <1>3, NoneDelivered DEF IInv
<1>6. EOFIsNoError' /\ StreamInv'
  BY <1>1, <1>2 DEF EOFIsNoError, StreamInv, MayRecv
<1> QED  BY <1>4, <1>5, <1>6 DEF IInv

LEMMA DecodesIInv == IInv /\ RecvDecodes => IInv'
<1> SUFFICES ASSUME IInv, RecvDecodes PROVE IInv'
  OBVIOUS
<1> DEFINE o == Opened
           a == Decode(o.d)
           q == a.d.pos - 1
<1>1. /\ MayRecv /\ first' = FALSE /\ UNCHANGED << input, end, closed >>
      /\ o.err = "none" /\ a.err = "none" /\ decoder' = a.d
      /\ IF a.token = "message" THEN Recvs("none") /\ delivered' = Append(delivered, q)
         ELSE Recvs("unmarshal") /\ UNCHANGED delivered
  BY DEF RecvDecodes, FirstAfterRecv
<1>2. /\ input \in Seq(Tokens) /\ end \in Ends /\ Len(input) \in Nat
      /\ decoder.pos \in Nat \ {0} /\ delivered \in Seq(1 .. Len(input)) /\ done \in BOOLEAN
  BY InputFacts DEF IInv, TypeOK, Decoders
<1>3. /\ Place(o.d) /\ decoder.pos <= o.d.pos
      /\ \A p \in decoder.pos .. o.d.pos - 1 : p = 1 \/ input[p] # "message"
      /\ o.d.err = "EOF" => o.d.pos > Len(input) /\ end = "EOF"
      /\ o.d.pos > 1 \/ Len(input) = 0
  BY <1>1, OpenedFacts
<1>4. Reads(o.d, a.d) /\ a.d.err = "none" /\ a.token = input[q]
  <2> HIDE DEF o
  <2> QED  BY <1>1, <1>2, <1>3, DecodeFacts
<1> HIDE DEF o, a
<1>5. /\ Place(decoder') /\ decoder'.pos = q + 1 /\ q \in Nat /\ q >= decoder.pos
      /\ q <= Len(input) /\ q > 1 /\ q \in 1 .. Len(input)
      /\ \A p \in decoder.pos .. q - 1 : p = 1 \/ input[p] # "message"
  <2>1. a.d.pos \in Nat /\ o.d.pos \in Nat /\ o.d.pos < a.d.pos /\ a.d.pos <= Len(input) + 1
    BY <1>3, <1>4 DEF Reads, Place, Decoders
  <2>2. o.d.pos > 1
    BY <1>2, <1>3, <2>1
  <2>3. \A p \in decoder.pos .. q - 1 :
            p \in decoder.pos .. o.d.pos - 1 \/ p \in o.d.pos .. a.d.pos - 2
    BY <1>2, <1>3, <2>1
  <2>4. \A p \in o.d.pos .. a.d.pos - 2 : input[p] # "message"
    BY <1>4 DEF Reads
  <2>5. \A p \in decoder.pos .. q - 1 : p = 1 \/ input[p] # "message"
    BY <1>3, <2>3, <2>4
  <2>6. Place(decoder') /\ decoder'.pos = a.d.pos
    BY <1>1, <1>4 DEF Reads, Place
  <2>7. /\ a.d.pos = q + 1 /\ q \in Nat /\ q >= decoder.pos
        /\ q <= Len(input) /\ q > 1 /\ q \in 1 .. Len(input)
    BY <1>2, <1>3, <2>1, <2>2
  <2> QED  BY <2>5, <2>6, <2>7
<1> HIDE DEF q
<1>6. MessagesInOrder'
  <2>1. CASE a.token = "message"
    <3>1. delivered \in Seq(Nat)
      BY <1>2
    <3> QED  BY <1>1, <1>2, <1>4, <1>5, <2>1, <3>1, OneDelivered DEF IInv
  <2>2. CASE a.token # "message"
    <3>1. \A p \in decoder.pos .. decoder'.pos - 1 : p \in decoder.pos .. q - 1 \/ p = q
      BY <1>2, <1>5
    <3>2. decoder'.pos \in Nat /\ decoder.pos <= decoder'.pos
      BY <1>2, <1>5
    <3> QED  BY <1>1, <1>2, <1>4, <1>5, <2>2, <3>1, <3>2, NoneDelivered DEF IInv
  <2> QED  BY <2>1, <2>2
<1>7. result' \in {"none", "unmarshal"} /\ done' \in BOOLEAN /\ delivered' \in Seq(1 .. Len(input))
  <2>1. CASE a.token = "message" /\ Recvs("none") /\ delivered' = Append(delivered, q)
    <3>1. result' = "none" /\ done' \in BOOLEAN
      BY <2>1 DEF Recvs
    <3>2. delivered' \in Seq(1 .. Len(input))
      BY <1>2, <1>5, <2>1
    <3> QED  BY <3>1, <3>2
  <2>2. CASE Recvs("unmarshal") /\ delivered' = delivered
    <3>1. result' = "unmarshal" /\ done' \in BOOLEAN
      BY <2>2 DEF Recvs
    <3> QED  BY <1>2, <2>2, <3>1
  <2> QED  BY <1>1, <2>1, <2>2
<1>8. TypeOK'
  <2>1. /\ decoder' \in Decoders /\ decoder'.pos <= Len(input) + 1
        /\ closed \in BOOLEAN /\ result' \in Errors
    BY <1>5, <1>7 DEF Place, IInv, TypeOK, Errors
  <2> QED  BY <1>1, <1>2, <1>7, <2>1 DEF TypeOK
<1>9. EOFIsNoError' /\ StreamInv'
  BY <1>1, <1>2, <1>4, <1>5, <1>7 DEF EOFIsNoError, StreamInv
<1> QED  BY <1>6, <1>8, <1>9 DEF IInv

LEMMA ClosedIInv == IInv /\ (RecvClosed \/ Close \/ UNCHANGED vars) => IInv'
<1> SUFFICES ASSUME IInv, RecvClosed \/ Close \/ UNCHANGED vars PROVE IInv'
  OBVIOUS
<1>1. /\ UNCHANGED << input, end, first, decoder, delivered >>
      /\ \/ UNCHANGED << closed, result, done >>
         \/ closed' = TRUE /\ result' \in Errors /\ done' \in BOOLEAN
  <2>1. CASE RecvClosed
    <3>1. closed' = TRUE
      BY <2>1 DEF RecvClosed, IInv, TypeOK
    <3>2. done' \in BOOLEAN /\ result' \in Errors
      BY <2>1 DEF RecvClosed, Recvs, IInv, TypeOK, Errors, Ends
    <3>3. UNCHANGED << input, end, first, decoder, delivered >>
      BY <2>1 DEF RecvClosed
    <3> QED  BY <3>1, <3>2, <3>3
  <2>2. CASE Close
    BY <2>2 DEF Close, IInv, TypeOK
  <2>3. CASE UNCHANGED vars
    BY <2>3 DEF vars
  <2> QED  BY <2>1, <2>2, <2>3
<1>2. TypeOK'
  <2>1. closed' \in BOOLEAN /\ result' \in Errors /\ done' \in BOOLEAN
    BY <1>1 DEF IInv, TypeOK
  <2> QED  BY <1>1, <2>1 DEF IInv, TypeOK
<1>3. MessagesInOrder'
  BY <1>1 DEF IInv, MessagesInOrder
<1>4. EOFIsNoError' /\ StreamInv'
  BY <1>1 DEF IInv, EOFIsNoError, StreamInv, MayRecv
<1> QED  BY <1>2, <1>3, <1>4 DEF IInv

LEMMA StreamInvariant == Spec => []IInv
<1>1. IInv /\ [Next]_vars => IInv'
  BY FailsIInv, DecodesIInv, ClosedIInv DEF Next
<1> QED  BY <1>1, InitIInv, PTL DEF Spec

(* The decoder never runs past the content of the reader, and the opening   *)
(* bracket is looked for once (v2/proto_json_stream.go, Recv).              *)
THEOREM StreamTyped == Spec => []TypeOK
<1>1. IInv => TypeOK
  BY DEF IInv
<1> QED  BY <1>1, StreamInvariant, PTL

(* Whatever the reader holds, every message that was read was returned, in  *)
(* its place and once: no look for a bracket takes one                      *)
(* (v2/proto_json_stream.go, Recv).                                         *)
THEOREM NoMessageIsLost == Spec => []MessagesInOrder
<1>1. IInv => MessagesInOrder
  BY DEF IInv
<1> QED  BY <1>1, StreamInvariant, PTL

(* Whatever the reader holds and however it ends, io.EOF from an open       *)
(* stream follows a closing bracket or the end of a reader that did not     *)
(* fail (v2/proto_json_stream.go, Recv).                                    *)
THEOREM EOFIsHonest == Spec => []EOFIsNoError
<1>1. IInv => EOFIsNoError
  BY DEF IInv
<1> QED  BY <1>1, StreamInvariant, PTL
=============================================================================
