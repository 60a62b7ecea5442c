-------------------------- MODULE ProtoJSONStream --------------------------
(***************************************************************************)
(* A reader of a JSON array of messages (v2/proto_json_stream.go) on top of *)
(* the streaming decoder of encoding/json, whose Token and Decode are       *)
(* modelled from how Recv uses them: a token at a time, with the place in   *)
(* the array and the error that Decode keeps.                               *)
(*                                                                         *)
(* The bytes are a sequence of tokens: a bracket, a comma, a JSON value     *)
(* that is a message ("message") or is not one ("other"), text that is not  *)
(* JSON ("garbage") or a value that is cut off by the end ("cut").  Nested  *)
(* arrays are values.  One goroutine uses a stream, as its documentation    *)
(* demands, and it stops at the first error that leaves the decoder         *)
(* nowhere; it may go on after io.EOF and after a value that is no message. *)
(***************************************************************************)
EXTENDS Integers, Sequences, FiniteSets

CONSTANTS
    Inputs      \* the contents of the readers: sequences of Tokens

Values == {"message", "other"}
Tokens == Values \cup {"[", "]", ",", "garbage", "cut"}
Ends == {"EOF", "failed"}               \* how reading ends: io.EOF or an error

ASSUME StreamAssumption == Inputs \subseteq Seq(Tokens)

VARIABLES
    input, end,     \* what the reader holds, and how it ends
    first, closed,  \* of the ProtoJSONStream
    decoder,        \* the json.Decoder: place in input, tokenState, kept error
    result,         \* the error of the last Recv
    delivered,      \* the places in input of the messages Recv returned
    done            \* history: some Recv returned io.EOF

vars == << input, end, first, closed, decoder, result, delivered, done >>

Errors == Ends \cup {"none", "syntax", "unexpectedEOF", "badOpening", "unmarshal"}
Decoders == [pos : Nat \ {0}, state : {"top", "start", "comma", "value"}, err : Errors]

Init ==
    /\ input \in Inputs
    /\ end \in Ends
    /\ first = TRUE
    /\ closed = FALSE
    /\ decoder = [pos |-> 1, state |-> "top", err |-> "none"]
    /\ result = "none"
    /\ delivered = << >>
    /\ done = FALSE

----------------------------------------------------------------------------
(* encoding/json: what a call returns, and the decoder after it. *)

NoToken == "none"
Answer(d, token, err) == [d |-> d, token |-> token, err |-> err]
Error(d, err) == Answer(d, NoToken, err)
Kept(d, err) == Error([d EXCEPT !.err = err], err)

Peek(d) == IF d.pos <= Len(input) THEN input[d.pos] ELSE "end"
Moved(d, state) == [d EXCEPT !.pos = @ + 1, !.state = state]

(* A value is read whole; an error on the way is kept. *)
readValue(d) ==
    CASE Peek(d) \in Values ->
            Answer(Moved(d, IF d.state = "top" THEN "top" ELSE "comma"), Peek(d), "none")
      [] Peek(d) = "end" -> Kept(d, end)
      [] Peek(d) = "cut" -> Kept(d, IF end = "EOF" THEN "unexpectedEOF" ELSE end)
      [] OTHER -> Kept(d, "syntax")

(* Decode first consumes the comma between two elements. *)
Decode(d) ==
    CASE d.err # "none" -> Error(d, d.err)
      [] d.err = "none" /\ d.state # "comma" -> readValue(d)
      [] d.err = "none" /\ d.state = "comma" /\ Peek(d) = "," ->
            readValue(Moved(d, "value"))
      [] OTHER -> Error(d, IF Peek(d) = "end" THEN end ELSE "syntax")

(* Token returns a bracket or a value and skips a comma that is in place.   *)
Token(d) ==
    LET at == IF Peek(d) = "," /\ d.state = "comma" THEN Moved(d, "value") ELSE d
        c  == Peek(at)
    IN  CASE c = "end" -> Error(at, end)
          [] c = "[" /\ at.state # "comma" -> Answer(Moved(at, "start"), c, "none")
          [] c = "]" /\ at.state \in {"start", "comma"} -> Answer(Moved(at, "top"), c, "none")
          [] c \in Values \cup {"cut", "garbage"} /\ at.state # "comma" -> Decode(at)
          [] OTHER -> Error(at, "syntax")

----------------------------------------------------------------------------
(* ProtoJSONStream *)

Recvs(err) == result' = err /\ done' = (done \/ err = "EOF")

RecvClosed ==
    /\ closed
    /\ Recvs("EOF")
    /\ UNCHANGED << input, end, first, closed, decoder, delivered >>

(* Mutant: s.first is not reset. *)
FirstKept == TRUE

(* s.first after any Recv of an open stream. *)
FirstAfterRecv == FALSE

(* The decoder and the error when Recv is past the opening bracket. *)
Opened ==
    LET opening == Token(decoder)
    IN  IF ~first THEN Error(decoder, "none")
        ELSE IF opening.err # "none" THEN opening
        ELSE IF opening.token # "[" THEN Error(opening.d, "badOpening")
        ELSE opening

(* Mutant: every error of Decode is taken for the end. *)
AfterFailureEOF(failed) == [Token(failed.d) EXCEPT !.err = "EOF"]

(* Decode failed: it was the end of the array if a closing bracket follows. *)
AfterFailure(failed) ==
    LET t == Token(failed.d)
    IN  IF t.token = "]" THEN Error(t.d, "EOF") ELSE Error(t.d, failed.err)

(* A client that loops until it has an error it cannot go on from. *)
MayRecv == ~closed /\ result \in {"none", "unmarshal", "EOF"}

RecvFails ==
    /\ MayRecv
    /\ first' = FirstAfterRecv
    /\ \/ /\ Opened.err # "none"
          /\ decoder' = Opened.d
          /\ Recvs(Opened.err)
       \/ LET answer == Decode(Opened.d)
          IN  /\ Opened.err = "none" /\ answer.err # "none"
              /\ decoder' = AfterFailure(answer).d
              /\ Recvs(AfterFailure(answer).err)
    /\ UNCHANGED << input, end, closed, delivered >>

RecvDecodes ==
    /\ MayRecv
    /\ Opened.err = "none"
    /\ LET answer == Decode(Opened.d)
       IN  /\ answer.err = "none"
           /\ first' = FirstAfterRecv
           /\ decoder' = answer.d
           /\ IF answer.token = "message"
              THEN Recvs("none") /\ delivered' = Append(delivered, answer.d.pos - 1)
              ELSE Recvs("unmarshal") /\ UNCHANGED delivered
    /\ UNCHANGED << input, end, closed >>

Close ==
    /\ closed' = TRUE
    /\ UNCHANGED << input, end, first, decoder, result, delivered, done >>

Next == RecvClosed \/ RecvFails \/ RecvDecodes \/ Close

Spec == Init /\ [][Next]_vars

----------------------------------------------------------------------------
(* The opening bracket is looked for until the first Recv only. *)
TypeOK ==
    /\ input \in Seq(Tokens) /\ end \in Ends
    /\ first \in BOOLEAN /\ closed \in BOOLEAN /\ done \in BOOLEAN
    /\ decoder \in Decoders /\ decoder.pos <= Len(input) + 1
    /\ result \in Errors
    /\ delivered \in Seq(1 .. Len(input))
    /\ first => decoder.pos = 1 /\ delivered = << >>

(* Every message that was read from the array was returned, once and in its *)
(* place: neither the look for a closing bracket after an error nor a value *)
(* that is no message loses one (v2/proto_json_stream.go, Recv).            *)
MessagesInOrder ==
    /\ \A i, j \in 1 .. Len(delivered) : i < j => delivered[i] < delivered[j]
    /\ {delivered[i] : i \in 1 .. Len(delivered)}
            = {p \in 2 .. decoder.pos - 1 : input[p] = "message"}

(* io.EOF from an open stream is never an error in disguise: the array was  *)
(* closed just before, or there is nothing left to read and reading did not *)
(* fail.                                                                    *)
EOFIsNoError ==
    result = "EOF" /\ ~closed =>
        \/ decoder.pos > 1 /\ input[decoder.pos - 1] = "]"
        \/ decoder.pos > Len(input) /\ end = "EOF"

(* "Recv decodes the next protobuf message in the stream or returns io.EOF  *)
(* if the stream is done" (v2/proto_json_stream.go): a stream that was done *)
(* stays so.                                                                *)
DoneStaysDone == done => result = "EOF"
=============================================================================
