--------------------------- MODULE ContentSniffer ---------------------------
(***************************************************************************)
(* The sniffer of content types (v2/content_type.go) around a reader: the  *)
(* first read or question takes the start of the content into a buffer,    *)
(* from which later reads are served, with the error that cut it short.    *)
(* Items are bytes, numbered from 1.  What http.DetectContentType answers  *)
(* depends on the bytes it is given: here, on how many of the first.       *)
(***************************************************************************)
EXTENDS Source, Sequences, FiniteSetsExt

CONSTANTS sniffBuffSize,
          BufferSizes      \* of the slices the caller reads into

ASSUME SnifferAssumption == sniffBuffSize \in Nat \ {0} /\ BufferSizes \subseteq Nat

VARIABLES typer,            \* the media has a ContentType method of its own
          start, err,       \* buffered bytes, and the error behind them
          ctype, sniffed,   \* the type: a number of bytes, or NoType
          call,             \* what the caller is waiting for
          answer,           \* the answer of the last ContentType
          delivered,        \* history: the bytes Read returned, in order
          result,           \* the error of the last Read
          failed            \* history: some Read has failed

readerVars == << delivered, result, failed >>
snifferVars == << typer, start, err, ctype, sniffed, call, answer >>

NoType == -1        \* "", FALSE
Static == -2        \* the type the media has of its own
NotAsked == -3
Idle == [op |-> "none", size |-> 0]
Bytes(from, to) == [i \in 1 .. to - from |-> from + i]

SnifferTypeOK ==
    /\ typer \in BOOLEAN /\ sniffed \in BOOLEAN
    /\ start \in Seq(1 .. length) /\ Len(start) <= sniffBuffSize
    /\ err \in {"none", "failed"}
    /\ ctype \in NoType .. sniffBuffSize
    /\ call \in {Idle} \cup [op : {"Read", "ContentType"}, size : BufferSizes]
    /\ answer \in NotAsked .. sniffBuffSize
    /\ delivered \in Seq(1 .. length)
    /\ result \in {"none", "EOF", "failed"} /\ failed \in BOOLEAN

(* newContentSniffer *)
SnifferInit ==
    /\ start = << >> /\ err = "none"
    /\ ctype = NoType /\ sniffed = FALSE
    /\ call = Idle /\ answer = NotAsked
    /\ delivered = << >> /\ result = "none" /\ failed = FALSE

(* ContentType, and Read which begins with it: the start is wanted first. *)
Begin(op, size) ==
    /\ call = Idle /\ ~typer
    /\ call' = [op |-> op, size |-> size]
    /\ UNCHANGED << sourceVars, typer, start, err, ctype, sniffed, answer, readerVars >>

(* Mutant: one Read of the underlying reader is taken for the start. *)
FirstRead == TRUE

(* io.ReadAll of an io.LimitReader goes on until the limit or an error.     *)
StartComplete == Len(start') = sniffBuffSize \/ told' # "none"

(* Mutant: the limit is that of each read. *)
WholeLimit == sniffBuffSize

Remaining == sniffBuffSize - Len(start)

SniffRead ==
    /\ call # Idle /\ ~sniffed
    /\ ReadUpTo(Remaining)
    /\ start' = start \o Bytes(pos, pos')
    /\ IF StartComplete
       THEN /\ sniffed' = TRUE
            /\ err' = IF told' = "failed" THEN "failed" ELSE "none"
            /\ ctype' = IF told' = "failed" THEN NoType ELSE Len(start')
       ELSE UNCHANGED << sniffed, err, ctype >>
    /\ UNCHANGED << typer, call, answer, readerVars >>

(* The end of ContentType. *)
AnswerType ==
    /\ call.op = "ContentType" /\ sniffed
    /\ answer' = ctype
    /\ call' = Idle
    /\ UNCHANGED << sourceVars, typer, start, err, ctype, sniffed, readerVars >>

Return(bytes, error) ==
    /\ delivered' = delivered \o bytes
    /\ result' = error
    /\ failed' = (failed \/ error = "failed")
    /\ call' = Idle
    /\ UNCHANGED << typer, err, ctype, sniffed, answer >>

(* Mutant: the buffer is dropped after a read from it. *)
BufferDropped(n) == << >>

RestOfBuffer(n) == SubSeq(start, n + 1, Len(start))

(* Read, when the start is there: from the buffer, ... *)
ReadBuffered ==
    /\ call.op = "Read" /\ sniffed
    /\ start # << >>
    /\ LET n == Min({call.size, Len(start)})
       IN  /\ Return(SubSeq(start, 1, n), "none")
           /\ start' = RestOfBuffer(n)
    /\ UNCHANGED sourceVars

(* ... the error that is kept, ... *)
ReadError ==
    /\ call.op = "Read" /\ sniffed
    /\ start = << >> /\ err # "none"
    /\ Return(<< >>, err)
    /\ UNCHANGED << sourceVars, start >>

(* Mutant: the kept error does not stop later reads. *)
MayDelegate == start = << >>

Delegates == start = << >> /\ err = "none"

(* ... or what the underlying reader returns. *)
ReadUnderlying ==
    /\ call.op = "Read" /\ sniffed
    /\ Delegates
    /\ ReadUpTo(call.size)
    /\ Return(Bytes(pos, pos'), told')
    /\ UNCHANGED start

(* DetermineContentType returns a media with a type of its own as it is. *)
ReadTyper(size) ==
    /\ typer
    /\ ReadUpTo(size)
    /\ Return(Bytes(pos, pos'), told')
    /\ UNCHANGED start

AskTyper ==
    /\ typer
    /\ answer' = Static
    /\ UNCHANGED << sourceVars, typer, start, err, ctype, sniffed, call, readerVars >>

Use ==
    \/ \E size \in BufferSizes : Begin("Read", size) \/ ReadTyper(size)
    \/ \E size \in BufferSizes : Begin("ContentType", size)
    \/ AskTyper
SnifferSteps == SniffRead \/ AnswerType \/ ReadBuffered \/ ReadError \/ ReadUnderlying

----------------------------------------------------------------------------
(* The reader that the caller gets can stand for the media: it has the same *)
(* items, the failure in the same place and the same end, however the two   *)
(* split the content into reads (v2/content_type.go, Read).                 *)
Media == INSTANCE Source WITH pos <- Len(delivered), told <- result, hit <- failed
SnifferIsReader == Media!SourceSpec

(* No byte is lost, repeated or out of order between the underlying reader, *)
(* the buffer and the caller, in whatever order reads and questions come.   *)
NothingLost == delivered \o start = Bytes(0, pos)

(* The type is found on the whole start, min(sniffBuffSize, length) bytes,  *)
(* even when it comes in several reads, and missing only if the content     *)
(* fails within it ("possibly incomplete data"); and questions before,      *)
(* between and after the reads are all answered so.                        *)
TypeFromStart ==
    /\ sniffed => IF ctype = NoType THEN fault <= sniffBuffSize
                  ELSE ctype = Min({sniffBuffSize, length})
    /\ answer \notin {NotAsked, Static} => sniffed /\ answer = ctype
=============================================================================
