---------------------------- MODULE ErrorDetails ----------------------------
(***************************************************************************)
(* What ErrorChain leaves out of its links (v2/apierror/apierror.go): the  *)
(* details of an error, sorted into the typed fields of ErrDetails, and the *)
(* text of Error() and Message(), as the set of pieces it is made of: their *)
(* order is layout.  A list that something is left out of keeps the         *)
(* positions of the rest.                                                  *)
(***************************************************************************)
EXTENDS ErrorChain, FiniteSetsExt

CONSTANT Payloads   \* the lists of details services send

VARIABLE facts      \* for each link of chain, its LinkFacts

detailVars == << vars, facts >>

(* The messages of error_details.proto, the others the program knows, and   *)
(* Any values it cannot decode: of an unknown type, or without a type.      *)
DetailKinds == {"ErrorInfo", "BadRequest", "PreconditionFailure", "QuotaFailure",
                "RetryInfo", "ResourceInfo", "RequestInfo", "DebugInfo", "Help",
                "LocalizedMessage"}
CustomTypes == {"CustomError", "AnotherError"}
Bad == {"unresolved", "empty"}
Details == [type : DetailKinds \cup CustomTypes \cup Bad, value : Reasons]

(* A status is what carries a code, and no origin was made by FromError. *)
ASSUME DetailsAssumption ==
    /\ Payloads \subseteq Seq(Details)
    /\ \A e \in Origins : \A i \in DOMAIN e :
        e[i].kind # "api" /\ (e[i].kind = "status") = (e[i].code # NoStatus)

NoDetail == [type |-> "none", value |-> NoReason]
NoDetails == [field |-> [k \in DetailKinds |-> NoDetail], Unknown |-> << >>]

LastOfKind(details, k) ==
    LET I == {i \in DOMAIN details : details[i].type = k}
    IN  IF I = {} THEN NoDetail ELSE details[Max(I)]

UnknownOf(details) ==
    Restrict(details, {i \in DOMAIN details : details[i].type \notin DetailKinds})

parseDetails(details) ==
    [field |-> [k \in DetailKinds |-> LastOfKind(details, k)], Unknown |-> UnknownOf(details)]

(* Details of a gRPC status: the error of an Any that cannot be decoded     *)
(* stands in its place.                                                    *)
StatusDetails(payload) ==
    [i \in DOMAIN payload |->
        IF payload[i].type \in Bad THEN [type |-> "error", value |-> NoReason]
        ELSE payload[i]]

WithType(body) == Restrict(body, {i \in DOMAIN body : body[i].type # "empty"})

(* protojson refuses a body with a type it cannot resolve, and all of it    *)
(* is ignored; an Any without a type is skipped.                           *)
parseHTTPDetails(body) ==
    IF \E i \in DOMAIN body : body[i].type = "unresolved" THEN NoDetails
    ELSE parseDetails(WithType(body))

(* ExtractProtoMessage: the first message of a type among the unknown ones, *)
(* NoDetail for ErrMessageNotFound.                                        *)
ExtractProtoMessage(ed, type) ==
    LET found == {i \in DOMAIN ed.Unknown : ed.Unknown[i].type = type}
    IN  IF found = {} THEN NoDetail ELSE ed.Unknown[Min(found)]

(* The methods that read the ErrorInfo. *)
InfoOf(ed) == ed.field["ErrorInfo"].value

(* Mutant: String leaves out what it does not know. *)
KnownOnly(ed, name) == name # "Unknown" /\ ed.field[name] # NoDetail

Shows(ed, name) ==
    IF name = "Unknown" THEN DOMAIN ed.Unknown # {} ELSE ed.field[name] # NoDetail

(* String: the paragraphs. *)
String(ed) == {name \in DetailKinds \cup {"Unknown"} : Shows(ed, name)}

----------------------------------------------------------------------------
(* The facts of a link: the details its status (or, of a googleapi.Error,   *)
(* its body) carries, those it presents, and the pieces of what Error and   *)
(* Message return: the message of the error at the bottom, the notes of    *)
(* annotations, and paragraphs about details.                              *)
Link(payload, details, text, message) ==
    [payload |-> payload, details |-> details, text |-> text, message |-> message]

(* An error of a service, or one from elsewhere: only the payload differs. *)
Bottom(payload) == Link(payload, NoDetails, {"message"}, {"message"})

Annotation(below) ==
    Link(<< >>, NoDetails, {"note"} \cup below[1].text, {"note"} \cup below[1].text)

(* Mutant: the status that is kept is a new one, without details. *)
NewStatus(payload) == << >>

StatusKeptWhole(payload) == payload

(* setDetailsFromError, Error and Message, where the status wins: the       *)
(* message of a status that status.FromError finds below the first link is *)
(* replaced by the whole text.                                             *)
OfStatus(e, below) ==
    LET s == FirstIn(WithStatus(e))
        details == parseDetails(StatusDetails(below[s].payload))
    IN  Link(StatusKeptWhole(below[s].payload), details,
             below[1].text \cup String(details),
             IF s = 1 THEN below[1].message ELSE below[1].text)

(* The same over a googleapi.Error; its status has no details. *)
OfGoogleapi(e, below) ==
    LET h == FirstIn(WithGoogleapi(e))
        details == parseHTTPDetails(below[h].payload)
    IN  Link(<< >>, details, below[h].message \cup String(details), below[h].message)

APIErrorFacts(e, below) ==
    IF StatusOK(e) THEN OfStatus(e, below) ELSE OfGoogleapi(e, below)

Info(link, payload) ==
    CASE link.kind = "status" -> link.info = InfoOf(parseDetails(StatusDetails(payload)))
      [] link.kind = "http" -> link.reason = InfoOf(parseHTTPDetails(payload))
      [] OTHER -> payload = << >>

DetailInit ==
    /\ Init
    /\ facts \in [DOMAIN origin -> {Bottom(p) : p \in Payloads}]
    /\ \A i \in DOMAIN origin : Info(origin[i], facts[i].payload)

DetailNext ==
    \/ Classify /\ facts' = << APIErrorFacts(chain, facts) >> \o facts
    \/ Annotate /\ facts' = << Annotation(facts) >> \o facts

DetailSpec == DetailInit /\ [][DetailNext]_detailVars

----------------------------------------------------------------------------
DetailTypeOK ==
    /\ TypeOK
    /\ DOMAIN facts = DOMAIN chain
    /\ \A i \in DOMAIN facts : facts[i].payload \in Seq(Details)

Layers == {i \in DOMAIN chain : chain[i].kind = "api"}
OriginFacts == SubSeq(facts, Len(facts) - Len(origin) + 1, Len(facts))

(* What a service has sent can be reached through an APIError: the last     *)
(* detail of each kind by its field, the first one of every other type by  *)
(* ExtractProtoMessage.                                                    *)
Presents(ed, details) ==
    \A i \in DOMAIN details :
        LET t == details[i].type
            same == {j \in DOMAIN details : details[j].type = t}
        IN  IF t \in DetailKinds THEN ed.field[t] = details[Max(same)]
            ELSE ExtractProtoMessage(ed, t) = details[Min(same)]

(* The details of a gRPC status can be reached through every APIError above *)
(* it, however often it is annotated and classified again; those in the     *)
(* body of a googleapi.Error through the first one at least, if the program *)
(* knows their types.  Reason() is that of the ErrorInfo among them         *)
(* (v2/apierror/apierror.go, parseDetails and Reason).                      *)
DetailsReachable ==
    /\ \A i \in Layers : chain[i].reason = InfoOf(facts[i].details)
    /\ Layers # {} =>
        IF StatusOK(origin)
        THEN \A i \in Layers :
                Presents(facts[i].details,
                         StatusDetails(OriginFacts[FirstIn(WithStatus(origin))].payload))
        ELSE LET body == OriginFacts[FirstIn(WithGoogleapi(origin))].payload
             IN  (\A i \in DOMAIN body : body[i].type # "unresolved") =>
                    Presents(facts[Max(Layers)].details,
                             WithType(body))

(* No layer takes a paragraph about details or the message of the service   *)
(* out of the text, and Message() always has that message                   *)
(* (v2/apierror/apierror.go, Error, Message and ErrDetails.String).         *)
TextKept ==
    [][/\ facts[1].text \ {"note"} \subseteq facts'[1].text
       /\ "message" \in facts'[1].message
       /\ chain'[1].kind = "api" =>
            LET ed == facts'[1].details
            IN  /\ \A k \in DetailKinds : ed.field[k] # NoDetail => k \in facts'[1].text
                /\ DOMAIN ed.Unknown # {} => "Unknown" \in facts'[1].text]_detailVars
=============================================================================
