-------------------------- MODULE ErrorChain_proofs --------------------------
(***************************************************************************)
(* What survives when an error is wrapped and classified again and again:  *)
(* the error at the bottom, its status and its googleapi.Error, the        *)
(* details and the text; for every error, every number of layers and every *)
(* list of details.                                                        *)
(***************************************************************************)
EXTENDS ErrorDetails, Retry_proofs

----------------------------------------------------------------------------
(* One link more on top of an error. *)
LEMMA Prepended ==
    ASSUME NEW S, NEW s \in Seq(S), NEW x \in S
    PROVE  LET w == << x >> \o s
           IN  /\ w \in Seq(S) /\ Len(w) = Len(s) + 1 /\ Len(s) \in Nat
               /\ DOMAIN w = 1 .. Len(s) + 1 /\ DOMAIN s = 1 .. Len(s)
               /\ w[1] = x
               /\ \A i \in DOMAIN s : w[i + 1] = s[i]
<1> DEFINE w == << x >> \o s
<1>1. /\ w \in Seq(S) /\ Len(w) = 1 + Len(s) /\ Len(s) \in Nat
      /\ \A i \in 1 .. Len(w) : w[i] = IF i <= 1 THEN << x >>[i] ELSE s[i - 1]
  <2>1. << x >> \in Seq(S) /\ Len(<< x >>) = 1
    OBVIOUS
  <2> QED  BY <2>1, ConcatProperties, LenProperties
<1>2. DOMAIN w = 1 .. Len(w) /\ DOMAIN s = 1 .. Len(s)
  BY <1>1
<1> HIDE DEF w
<1>3. w[1] = x
  BY <1>1
<1>4. ASSUME NEW i \in DOMAIN s PROVE w[i + 1] = s[i]
  <2>1. i + 1 \in 1 .. Len(w) /\ ~(i + 1 <= 1) /\ (i + 1) - 1 = i
    BY <1>1, <1>2
  <2> QED  BY <1>1, <2>1
<1> QED  BY <1>1, <1>2, <1>3, <1>4 DEF w

(* The first of a set of positions when all of them move down by one. *)
LEMMA FirstInShift ==
    ASSUME NEW S \in SUBSET Nat, S # {}
    PROVE  FirstIn({i + 1 : i \in S}) = FirstIn(S) + 1
<1> DEFINE f == FirstIn(S)
           T == {i + 1 : i \in S}
<1>1. f \in S /\ \A j \in S : f <= j
  BY FirstInLeast
<1> HIDE DEF f
<1>2. f + 1 \in T /\ T \in SUBSET Nat /\ \A j \in T : f + 1 <= j
  BY <1>1
<1> HIDE DEF T
<1>3. FirstIn(T) = f + 1
  BY <1>2, FirstInUnique
<1> QED  BY <1>3 DEF T, f

(* What the searches find in an error with one link more. *)
LEMMA PrependedStatus ==
    ASSUME NEW e \in ErrorValues, NEW x \in Links
    PROVE  LET w == << x >> \o e
           IN  IF x.code # NoStatus
               THEN StatusOK(w) /\ FirstIn(WithStatus(w)) = 1 /\ StatusOf(w) = x
               ELSE /\ StatusOK(w) <=> StatusOK(e)
                    /\ StatusOK(e) =>
                        /\ FirstIn(WithStatus(w)) = FirstIn(WithStatus(e)) + 1
                        /\ FirstIn(WithStatus(e)) \in DOMAIN e
                        /\ StatusOf(w) = StatusOf(e)
<1> DEFINE w == << x >> \o e
<1>1. /\ Len(e) \in Nat /\ DOMAIN w = 1 .. Len(e) + 1 /\ DOMAIN e = 1 .. Len(e)
      /\ w[1] = x /\ \A i \in DOMAIN e : w[i + 1] = e[i]
  BY Prepended DEF ErrorValues
<1> HIDE DEF w
<1>2. CASE x.code # NoStatus
  <2>1. 1 \in WithStatus(w) /\ WithStatus(w) \in SUBSET Nat /\ \A j \in WithStatus(w) : 1 <= j
    BY <1>1, <1>2 DEF WithStatus
  <2>2. FirstIn(WithStatus(w)) = 1
    BY <2>1, FirstInUnique
  <2>3. StatusOK(w) /\ StatusOf(w) = x
    BY <1>1, <2>1, <2>2 DEF StatusOK, StatusOf
  <2> QED  BY <1>2, <2>2, <2>3 DEF w
<1>3. CASE x.code = NoStatus
  <2>1. WithStatus(w) = {i + 1 : i \in WithStatus(e)}
    <3>1. ASSUME NEW j \in WithStatus(w) PROVE j - 1 \in WithStatus(e) /\ j = (j - 1) + 1
      <4>1. j \in 1 .. Len(e) + 1 /\ w[j].code # NoStatus
        BY <1>1 DEF WithStatus
      <4>2. j # 1
        BY <1>1, <1>3, <4>1
      <4>3. j - 1 \in DOMAIN e /\ j = (j - 1) + 1
        BY <1>1, <4>1, <4>2
      <4>4. e[j - 1] = w[j]
        BY <1>1, <4>3
      <4> QED  BY <4>1, <4>3, <4>4 DEF WithStatus
    <3>2. ASSUME NEW i \in WithStatus(e) PROVE i + 1 \in WithStatus(w)
      <4>1. i \in DOMAIN e /\ e[i].code # NoStatus
        BY DEF WithStatus
      <4>2. i + 1 \in DOMAIN w /\ w[i + 1] = e[i]
        BY <1>1, <4>1
      <4> QED  BY <4>1, <4>2 DEF WithStatus
    <3> QED  BY <3>1, <3>2
  <2>2. WithStatus(e) \in SUBSET Nat /\ WithStatus(e) \subseteq DOMAIN e
    BY <1>1 DEF WithStatus
  <2>3. StatusOK(w) <=> StatusOK(e)
    BY <2>1 DEF StatusOK
  <2>4. ASSUME StatusOK(e)
        PROVE  /\ FirstIn(WithStatus(w)) = FirstIn(WithStatus(e)) + 1
               /\ FirstIn(WithStatus(e)) \in DOMAIN e
               /\ StatusOf(w) = StatusOf(e)
    <3>1. FirstIn(WithStatus(w)) = FirstIn(WithStatus(e)) + 1
      BY <2>1, <2>2, <2>4, FirstInShift DEF StatusOK
    <3>2. FirstIn(WithStatus(e)) \in DOMAIN e
      BY <2>2, <2>4, FirstInLeast DEF StatusOK
    <3> QED  BY <1>1, <3>1, <3>2 DEF StatusOf
  <2> QED  BY <1>3, <2>3, <2>4 DEF w
<1> QED  BY <1>2, <1>3

LEMMA PrependedGoogleapi ==
    ASSUME NEW e \in ErrorValues, NEW x \in Links, x.kind # "http"
    PROVE  LET w == << x >> \o e
           IN  /\ IsHTTPErr(w) <=> IsHTTPErr(e)
               /\ IsHTTPErr(e) =>
                    /\ FirstIn(WithGoogleapi(w)) = FirstIn(WithGoogleapi(e)) + 1
                    /\ FirstIn(WithGoogleapi(e)) \in DOMAIN e
                    /\ HTTPErrOf(w) = HTTPErrOf(e)
<1> DEFINE w == << x >> \o e
<1>1. /\ Len(e) \in Nat /\ DOMAIN w = 1 .. Len(e) + 1 /\ DOMAIN e = 1 .. Len(e)
      /\ w[1] = x /\ \A i \in DOMAIN e : w[i + 1] = e[i]
  BY Prepended DEF ErrorValues
<1> HIDE DEF w
<1>2. WithGoogleapi(w) = {i + 1 : i \in WithGoogleapi(e)}
  <2>1. ASSUME NEW j \in WithGoogleapi(w) PROVE j - 1 \in WithGoogleapi(e) /\ j = (j - 1) + 1
    <3>1. j \in 1 .. Len(e) + 1 /\ w[j].kind = "http"
      BY <1>1 DEF WithGoogleapi
    <3>2. j # 1
      BY <1>1, <3>1
    <3>3. j - 1 \in DOMAIN e /\ j = (j - 1) + 1
      BY <1>1, <3>1, <3>2
    <3>4. e[j - 1] = w[j]
      BY <1>1, <3>3
    <3> QED  BY <3>1, <3>3, <3>4 DEF WithGoogleapi
  <2>2. ASSUME NEW i \in WithGoogleapi(e) PROVE i + 1 \in WithGoogleapi(w)
    <3>1. i \in DOMAIN e /\ e[i].kind = "http"
      BY DEF WithGoogleapi
    <3>2. i + 1 \in DOMAIN w /\ w[i + 1] = e[i]
      BY <1>1, <3>1
    <3> QED  BY <3>1, <3>2 DEF WithGoogleapi
  <2> QED  BY <2>1, <2>2
<1>3. WithGoogleapi(e) \in SUBSET Nat /\ WithGoogleapi(e) \subseteq DOMAIN e
  BY <1>1 DEF WithGoogleapi
<1>4. IsHTTPErr(w) <=> IsHTTPErr(e)
  BY <1>2 DEF IsHTTPErr
<1>5. ASSUME IsHTTPErr(e)
      PROVE  /\ FirstIn(WithGoogleapi(w)) = FirstIn(WithGoogleapi(e)) + 1
             /\ FirstIn(WithGoogleapi(e)) \in DOMAIN e
             /\ HTTPErrOf(w) = HTTPErrOf(e)
  <2>1. FirstIn(WithGoogleapi(w)) = FirstIn(WithGoogleapi(e)) + 1
    BY <1>2, <1>3, <1>5, FirstInShift DEF IsHTTPErr
  <2>2. FirstIn(WithGoogleapi(e)) \in DOMAIN e
    BY <1>3, <1>5, FirstInLeast DEF IsHTTPErr
  <2> QED  BY <1>1, <2>1, <2>2 DEF HTTPErrOf
<1> QED  BY <1>4, <1>5 DEF w

----------------------------------------------------------------------------
(* The chain.  Its lower part stays the origin, and the status and the      *)
(* googleapi.Error that are found in it stay what they were.               *)
BelowIsOrigin ==
    /\ Len(origin) <= Len(chain)
    /\ \A i \in DOMAIN origin : chain[Len(chain) - Len(origin) + i] = origin[i]

(* What a search in the error after tells of the error before. *)
Tells(before, after) ==
    /\ StatusOK(before) => /\ StatusOK(after)
                           /\ StatusOf(after).code = StatusOf(before).code
                           /\ StatusOf(after).info = StatusOf(before).info
    /\ IsHTTPErr(after) <=> IsHTTPErr(before)
    /\ IsHTTPErr(before) => HTTPErrOf(after) = HTTPErrOf(before)

ChainInv ==
    /\ TypeOK /\ origin # NilError
    /\ BelowIsOrigin /\ Tells(origin, chain)

LEMMA PlainLink ==
    ASSUME NEW cert \in BOOLEAN
    PROVE  /\ Plain("plain", cert) \in Links
           /\ Plain("plain", cert).code = NoStatus /\ Plain("plain", cert).kind = "plain"
BY ApiErrorAssumption DEF Plain, Links, LinkKinds, NoStatus, NoHTTP

(* A layer puts one link on top: an APIError, or an annotation. *)
LEMMA LayerLink ==
    ASSUME chain \in ErrorValues, chain # NilError, Next
    PROVE  \E x \in Links :
            /\ chain' = << x >> \o chain
            /\ \/ /\ Classify /\ Parsable(chain)
                  /\ x = setDetailsFromError(chain)
                  /\ x.kind = "api" /\ x.code # NoStatus
               \/ /\ Annotate
                  /\ x.kind = "plain" /\ x.code = NoStatus
<1>1. CASE Classify
  <2>1. Parsable(chain) /\ chain' = FromError(chain)
    BY <1>1 DEF Classify
  <2> QED  BY <1>1, <2>1, FromErrorLinks, APIErrorLink
<1>2. CASE Annotate
  <2>1. chain[1] \in Links
    BY EmptySeq, LenProperties, ElementOfSeq DEF ErrorValues, NilError
  <2>2. chain[1].cert \in BOOLEAN
    BY <2>1 DEF Links
  <2>3. chain' = << Plain("plain", chain[1].cert) >> \o chain
    BY <1>2 DEF Annotate
  <2> QED  BY <1>2, <2>2, <2>3, PlainLink
<1> QED  BY <1>1, <1>2 DEF Next

LEMMA LayerTells ==
    ASSUME chain \in ErrorValues, chain # NilError, Next
    PROVE  Tells(chain, chain')
<1>1. PICK x \in Links :
        /\ chain' = << x >> \o chain
        /\ \/ /\ Parsable(chain) /\ x = setDetailsFromError(chain)
              /\ x.kind = "api" /\ x.code # NoStatus
           \/ x.kind = "plain" /\ x.code = NoStatus
  BY LayerLink
<1>2. /\ IsHTTPErr(chain') <=> IsHTTPErr(chain)
      /\ IsHTTPErr(chain) => HTTPErrOf(chain') = HTTPErrOf(chain)
  BY <1>1, PrependedGoogleapi
<1>3. CASE x.code # NoStatus
  <2>1. StatusOK(chain') /\ StatusOf(chain') = setDetailsFromError(chain)
    BY <1>1, <1>3, PrependedStatus
  <2>2. StatusOK(chain) => /\ setDetailsFromError(chain).code = StatusOf(chain).code
                           /\ setDetailsFromError(chain).info = StatusOf(chain).info
    BY DEF setDetailsFromError
  <2> QED  BY <1>2, <2>1, <2>2 DEF Tells
<1>4. CASE x.code = NoStatus
  <2>1. StatusOK(chain) => StatusOK(chain') /\ StatusOf(chain') = StatusOf(chain)
    BY <1>1, <1>4, PrependedStatus
  <2> QED  BY <1>2, <2>1 DEF Tells
<1> QED  BY <1>3, <1>4

LEMMA InitChain == Init => ChainInv
<1> SUFFICES ASSUME Init PROVE ChainInv
  OBVIOUS
<1>1. origin \in ErrorValues /\ origin # NilError /\ chain = origin
  BY ErrorChainAssumption DEF Init
<1>2. Len(origin) \in Nat
  BY <1>1 DEF ErrorValues
<1>3. \A i \in DOMAIN origin : Len(origin) - Len(origin) + i = i
  BY <1>1, <1>2 DEF ErrorValues
<1> QED  BY <1>1, <1>2, <1>3 DEF ChainInv, TypeOK, BelowIsOrigin, Tells

LEMMA ChainNotNil ==
    ASSUME ChainInv
    PROVE  chain # NilError /\ Len(chain) \in Nat /\ Len(origin) \in Nat \ {0}
BY EmptySeq, LenProperties DEF ChainInv, TypeOK, BelowIsOrigin, ErrorValues, NilError

LEMMA NextChain == ChainInv /\ [Next]_vars => ChainInv'
<1> SUFFICES ASSUME ChainInv, [Next]_vars PROVE ChainInv'
  OBVIOUS
<1>1. CASE UNCHANGED vars
  BY <1>1 DEF vars, ChainInv, TypeOK, BelowIsOrigin, Tells
<1>2. CASE Next
  <2>1. /\ chain \in ErrorValues /\ chain # NilError /\ origin' = origin
        /\ Len(chain) \in Nat /\ Len(origin) \in Nat
    BY <1>2, ChainNotNil DEF ChainInv, TypeOK, Next, Classify, Annotate
  <2>2. PICK x \in Links : chain' = << x >> \o chain
    BY <1>2, <2>1, LayerLink
  <2>3. /\ chain' \in ErrorValues /\ Len(chain') = Len(chain) + 1
        /\ DOMAIN chain = 1 .. Len(chain)
        /\ \A i \in DOMAIN chain : chain'[i + 1] = chain[i]
    BY <2>1, <2>2, Prepended DEF ErrorValues
  <2>4. BelowIsOrigin'
    <3>1. ASSUME NEW i \in DOMAIN origin
          PROVE  chain'[Len(chain') - Len(origin) + i] = origin[i]
      <4>1. i \in 1 .. Len(origin) /\ Len(origin) <= Len(chain)
        BY <2>1 DEF ChainInv, TypeOK, ErrorValues, BelowIsOrigin
      <4>2. /\ Len(chain) - Len(origin) + i \in DOMAIN chain
            /\ Len(chain') - Len(origin) + i = (Len(chain) - Len(origin) + i) + 1
        BY <2>1, <2>3, <4>1
      <4> QED  BY <2>3, <4>2 DEF ChainInv, BelowIsOrigin
    <3> QED  BY <2>1, <2>3, <3>1 DEF ChainInv, BelowIsOrigin
  <2>5. Tells(origin, chain')
    BY <1>2, <2>1, LayerTells DEF ChainInv, Tells
  <2> QED  BY <2>1, <2>3, <2>4, <2>5 DEF ChainInv, TypeOK
<1> QED  BY <1>1, <1>2

(* Details only add facts to a chain, which grows as without them           *)
(* (v2/apierror/apierror.go, setDetailsFromError).                          *)
THEOREM DetailsAdd == DetailSpec => Spec
<1>1. DetailInit => Init
  BY DEF DetailInit
<1>2. [DetailNext]_detailVars => [Next]_vars
  BY DEF DetailNext, Next, detailVars
<1> QED  BY <1>1, <1>2, PTL DEF DetailSpec, Spec

(* However many layers wrap an error, unwrapping leads back to it           *)
(* (v2/apierror/apierror.go, FromError and Unwrap).                         *)
THEOREM OriginIsReachable == Spec => []OriginReachable
<1>1. ChainInv => OriginReachable
  <2> SUFFICES ASSUME ChainInv PROVE OriginReachable
    OBVIOUS
  <2> DEFINE below == SubSeq(chain, Len(chain) - Len(origin) + 1, Len(chain))
  <2>1. /\ chain \in Seq(Links) /\ origin \in Seq(Links)
        /\ Len(chain) \in Nat /\ Len(origin) \in Nat \ {0} /\ Len(origin) <= Len(chain)
    BY ChainNotNil DEF ChainInv, TypeOK, ErrorValues, BelowIsOrigin
  <2>2. /\ Len(chain) - Len(origin) + 1 \in 1 .. Len(chain) + 1
        /\ Len(chain) \in Len(chain) - Len(origin) .. Len(chain)
    BY <2>1
  <2>3. /\ below \in Seq(Links) /\ Len(below) = Len(origin)
        /\ \A i \in 1 .. Len(origin) : below[i] = chain[Len(chain) - Len(origin) + i]
    <3>1. below = [i \in 1 .. Len(origin) |-> chain[Len(chain) - Len(origin) + i]]
      BY <2>1
    <3> QED  BY <2>1, <3>1
  <2>4. DOMAIN origin = 1 .. Len(origin)
    BY <2>1
  <2>5. \A i \in 1 .. Len(origin) : below[i] = origin[i]
    BY <2>3, <2>4 DEF ChainInv, BelowIsOrigin
  <2>6. below = origin
    BY <2>1, <2>3, <2>5, SeqEqual
  <2> QED  BY <2>1, <2>6 DEF OriginReachable
<1> QED  BY <1>1, InitChain, NextChain, PTL DEF Spec

(* No layer changes the gRPC status of an error or hides the                *)
(* googleapi.Error in it (v2/apierror/apierror.go, setDetailsFromError).    *)
THEOREM StatusIsKept == Spec => StatusKept
<1>1. ChainInv /\ [Next]_vars =>
        [/\ StatusOK(chain) => /\ StatusOK(chain')
                               /\ StatusOf(chain').code = StatusOf(chain).code
                               /\ StatusOf(chain').info = StatusOf(chain).info
         /\ IsHTTPErr(chain) => /\ IsHTTPErr(chain')
                                /\ HTTPErrOf(chain') = HTTPErrOf(chain)]_vars
  <2> SUFFICES ASSUME ChainInv, Next PROVE Tells(chain, chain')
    BY DEF Tells
  <2> QED  BY ChainNotNil, LayerTells DEF ChainInv, TypeOK
<1> QED  BY <1>1, InitChain, NextChain, PTL DEF Spec, StatusKept

(* A Retryer that would have retried the error at the bottom still does,    *)
(* whatever wraps it (v2/call_option.go, Retry of the three Retryers).      *)
THEOREM RetryIsKept == Spec => []RetryKept
<1>1. ChainInv => RetryKept
  <2> SUFFICES ASSUME ChainInv, NEW r \in Judges, Verdicts(r, origin) = {TRUE}
               PROVE  Verdicts(r, chain) = {TRUE}
    BY DEF RetryKept
  <2>1. Tells(origin, chain)
    BY DEF ChainInv
  <2>2. CASE r.kind = "codes"
    BY <2>1, <2>2 DEF Verdicts, Tells
  <2>3. CASE r.kind = "http"
    BY <2>1, <2>3 DEF Verdicts, Tells
  <2>4. CASE r.kind = "func"
    BY <2>4 DEF Verdicts
  <2>5. CASE r.kind \notin {"codes", "http", "func"}
    BY <2>5 DEF Verdicts
  <2> QED  BY <2>2, <2>3, <2>4, <2>5
<1> QED  BY <1>1, InitChain, NextChain, PTL DEF Spec

----------------------------------------------------------------------------
(* The details.  What parseDetails makes of a list presents all of it. *)
LEMMA MaxMinIn ==
    ASSUME NEW S \in SUBSET Nat, S # {}
    PROVE  /\ Min(S) \in S /\ \A j \in S : Min(S) <= j
           /\ \A n \in Nat : S \subseteq 0 .. n => Max(S) \in S /\ \A j \in S : j <= Max(S)
<1>1. Min(S) = FirstIn(S)
  BY DEF Min, FirstIn
<1>2. Min(S) \in S /\ \A j \in S : Min(S) <= j
  BY <1>1, FirstInLeast
<1>3. ASSUME NEW n \in Nat, S \subseteq 0 .. n
      PROVE  Max(S) \in S /\ \A j \in S : j <= Max(S)
  <2> DEFINE T == {n - i : i \in S}
             f == FirstIn(T)
  <2>1. T \in SUBSET Nat /\ T # {}
    <3>1. \A i \in S : n - i \in Nat
      BY <1>3
    <3> QED  BY <3>1
  <2>2. f \in T /\ \A j \in T : f <= j
    BY <2>1, FirstInLeast
  <2> HIDE DEF f
  <2>3. PICK m \in S : f = n - m
    BY <2>2
  <2>4. \A i \in S : i <= m
    <3> SUFFICES ASSUME NEW i \in S PROVE i <= m
      OBVIOUS
    <3>1. n - m <= n - i
      BY <2>2, <2>3
    <3> QED  BY <3>1
  <2>5. \E k \in S : \A j \in S : k >= j
    BY <2>4
  <2>6. Max(S) \in S /\ \A j \in S : Max(S) >= j
    BY <2>5 DEF Max
  <2> QED  BY <2>6
<1> QED  BY <1>2, <1>3

LEMMA ParsedPresents ==
    ASSUME NEW details, DOMAIN details \in SUBSET Nat
    PROVE  Presents(parseDetails(details), details)
<1> SUFFICES ASSUME NEW i \in DOMAIN details
             PROVE  LET t == details[i].type
                        same == {j \in DOMAIN details : details[j].type = t}
                        ed == parseDetails(details)
                    IN  IF t \in DetailKinds THEN ed.field[t] = details[Max(same)]
                        ELSE ExtractProtoMessage(ed, t) = details[Min(same)]
  BY DEF Presents
<1> DEFINE t == details[i].type
           same == {j \in DOMAIN details : details[j].type = t}
           ed == parseDetails(details)
<1>1. i \in same /\ same \in SUBSET Nat
  OBVIOUS
<1>2. CASE t \in DetailKinds
  BY <1>1, <1>2 DEF parseDetails, LastOfKind
<1>3. CASE t \notin DetailKinds
  <2> DEFINE D == {j \in DOMAIN details : details[j].type \notin DetailKinds}
  <2>1. ed.Unknown = [j \in D |-> details[j]]
    BY DEF parseDetails, UnknownOf, Restrict
  <2>2. same \subseteq D
    BY <1>3
  <2>3. {j \in DOMAIN ed.Unknown : ed.Unknown[j].type = t} = same
    BY <2>1, <2>2
  <2>4. Min(same) \in D
    BY <1>1, <2>2, MaxMinIn
  <2>5. ed.Unknown[Min(same)] = details[Min(same)]
    BY <2>1, <2>4
  <2> QED  BY <1>1, <1>3, <2>3, <2>5 DEF ExtractProtoMessage
<1> QED  BY <1>2, <1>3

(* The facts of a link. *)
Pieces == {"note", "message", "Unknown"} \cup DetailKinds
Parsed ==
    {NoDetails} \cup {parseDetails(StatusDetails(p)) : p \in Seq(Details)}
                \cup {parseDetails(WithType(p)) : p \in Seq(Details)}
LinkFacts == [payload : Seq(Details), details : Parsed,
              text : SUBSET Pieces, message : SUBSET Pieces]

LEMMA StringPieces == \A ed : String(ed) \in SUBSET Pieces
BY DEF String, Pieces

LEMMA HTTPParsed == \A p \in Seq(Details) : parseHTTPDetails(p) \in Parsed
BY DEF parseHTTPDetails, Parsed

(* What is known of every link, whatever is above or below it. *)
Agrees(link, fact) ==
    /\ link.code # NoStatus => link.info = InfoOf(parseDetails(StatusDetails(fact.payload)))
    /\ link.kind = "http" => link.reason = InfoOf(parseHTTPDetails(fact.payload))
    /\ link.kind = "api" => link.code # NoStatus /\ link.reason = InfoOf(fact.details)
    /\ "message" \in fact.text /\ "message" \in fact.message

(* The payloads that the searches find are those of the origin; the APIErrors *)
(* above present the one, or the lowest of them presents the other.         *)
StatusPayload == OriginFacts[FirstIn(WithStatus(origin))].payload
Body == OriginFacts[FirstIn(WithGoogleapi(origin))].payload

DetailInv ==
    /\ ChainInv
    /\ facts \in Seq(LinkFacts) /\ Len(facts) = Len(chain)
    /\ \A i \in DOMAIN chain : Agrees(chain[i], facts[i])
    /\ Layers # {} => Parsable(origin)
    /\ Layers = {} => /\ StatusOK(chain) <=> StatusOK(origin)
                      /\ \A i \in DOMAIN chain : facts[i].text \subseteq {"note", "message"}
    /\ StatusOK(origin) =>
        /\ facts[FirstIn(WithStatus(chain))].payload = StatusPayload
        /\ \A i \in Layers : facts[i].details = parseDetails(StatusDetails(StatusPayload))
    /\ IsHTTPErr(origin) => facts[FirstIn(WithGoogleapi(chain))].payload = Body
    /\ ~StatusOK(origin) /\ Layers # {} => facts[Max(Layers)].details = parseHTTPDetails(Body)

LEMMA NoPayload ==
    << >> \in Seq(Details) /\ InfoOf(parseDetails(StatusDetails(<< >>))) = NoReason
<1>1. DOMAIN StatusDetails(<< >>) = {}
  BY DEF StatusDetails
<1>2. LastOfKind(StatusDetails(<< >>), "ErrorInfo") = NoDetail
  BY <1>1 DEF LastOfKind
<1>3. "ErrorInfo" \in DetailKinds
  BY DEF DetailKinds
<1>4. InfoOf(parseDetails(StatusDetails(<< >>))) = NoDetail.value
  BY <1>2, <1>3 DEF InfoOf, parseDetails
<1> QED  BY <1>4 DEF NoDetail

LEMMA DetailShapes ==
    ASSUME DetailInv
    PROVE  /\ chain \in ErrorValues /\ origin \in ErrorValues
           /\ chain # NilError /\ Len(chain) \in Nat /\ Len(origin) \in Nat \ {0}
           /\ Len(origin) <= Len(chain)
           /\ DOMAIN chain = 1 .. Len(chain) /\ DOMAIN facts = DOMAIN chain
           /\ 1 \in DOMAIN chain
           /\ \A i \in DOMAIN chain : chain[i] \in Links /\ facts[i] \in LinkFacts
           /\ StatusOK(chain) => FirstIn(WithStatus(chain)) \in WithStatus(chain)
           /\ WithStatus(chain) \subseteq DOMAIN chain
           /\ IsHTTPErr(chain) => FirstIn(WithGoogleapi(chain)) \in WithGoogleapi(chain)
           /\ WithGoogleapi(chain) \subseteq DOMAIN chain
<1>1. /\ chain # NilError /\ Len(chain) \in Nat /\ Len(origin) \in Nat \ {0}
      /\ Len(origin) <= Len(chain)
      /\ chain \in Seq(Links) /\ origin \in ErrorValues
  BY ChainNotNil DEF DetailInv, ChainInv, TypeOK, BelowIsOrigin, ErrorValues
<1>2. /\ DOMAIN chain = 1 .. Len(chain) /\ DOMAIN facts = DOMAIN chain /\ 1 \in DOMAIN chain
  BY <1>1 DEF DetailInv
<1>3. \A i \in DOMAIN chain : chain[i] \in Links /\ facts[i] \in LinkFacts
  BY <1>1, <1>2 DEF DetailInv
<1>4. /\ WithStatus(chain) \subseteq DOMAIN chain /\ WithGoogleapi(chain) \subseteq DOMAIN chain
      /\ DOMAIN chain \subseteq Nat
  BY <1>2 DEF WithStatus, WithGoogleapi
<1>5. /\ StatusOK(chain) => FirstIn(WithStatus(chain)) \in WithStatus(chain)
      /\ IsHTTPErr(chain) => FirstIn(WithGoogleapi(chain)) \in WithGoogleapi(chain)
  BY <1>4, FirstInLeast DEF StatusOK, IsHTTPErr
<1> QED  BY <1>1, <1>2, <1>3, <1>4, <1>5 DEF ErrorValues

(* The facts of an APIError, by what it was made of. *)
LEMMA StatusFacts ==
    ASSUME DetailInv, StatusOK(chain)
    PROVE  LET below == facts[FirstIn(WithStatus(chain))]
               f == APIErrorFacts(chain, facts)
           IN  /\ f \in LinkFacts /\ Agrees(setDetailsFromError(chain), f)
               /\ f.payload = below.payload
               /\ f.details = parseDetails(StatusDetails(below.payload))
               /\ f.text = facts[1].text \cup String(f.details)
<1> DEFINE s == FirstIn(WithStatus(chain))
           f == APIErrorFacts(chain, facts)
           d == parseDetails(StatusDetails(facts[s].payload))
<1>1. /\ s \in DOMAIN chain /\ chain[s].code # NoStatus /\ facts[s] \in LinkFacts
      /\ facts[1] \in LinkFacts /\ Agrees(chain[1], facts[1]) /\ Agrees(chain[s], facts[s])
  BY DetailShapes DEF WithStatus, DetailInv
<1>2. /\ f.payload = facts[s].payload /\ f.details = d
      /\ f.text = facts[1].text \cup String(d)
      /\ f.message = IF s = 1 THEN facts[1].message ELSE facts[1].text
      /\ f = [payload |-> f.payload, details |-> f.details, text |-> f.text,
              message |-> f.message]
  BY DEF APIErrorFacts, OfStatus, Link, StatusKeptWhole
<1> HIDE DEF f, s
<1>3. facts[s].payload \in Seq(Details) /\ d \in Parsed
  BY <1>1 DEF LinkFacts, Parsed
<1>4. f \in LinkFacts
  BY <1>1, <1>2, <1>3, StringPieces DEF LinkFacts
<1>5. "message" \in f.text /\ "message" \in f.message
  BY <1>1, <1>2 DEF Agrees
<1>6. setDetailsFromError(chain).info = InfoOf(d) /\ setDetailsFromError(chain).reason = InfoOf(d)
  BY <1>1 DEF Agrees, setDetailsFromError, StatusOf, s
<1>7. setDetailsFromError(chain).code # NoStatus /\ setDetailsFromError(chain).kind = "api"
  BY DetailShapes, APIErrorLink DEF Parsable
<1>8. Agrees(setDetailsFromError(chain), f)
  BY <1>2, <1>5, <1>6, <1>7 DEF Agrees
<1> QED  BY <1>2, <1>4, <1>8 DEF f, s

LEMMA GoogleapiFacts ==
    ASSUME DetailInv, ~StatusOK(chain), IsHTTPErr(chain)
    PROVE  LET below == facts[FirstIn(WithGoogleapi(chain))]
               f == APIErrorFacts(chain, facts)
           IN  /\ f \in LinkFacts /\ Agrees(setDetailsFromError(chain), f)
               /\ f.details = parseHTTPDetails(below.payload)
               /\ f.text = below.message \cup String(f.details)
<1> DEFINE h == FirstIn(WithGoogleapi(chain))
           f == APIErrorFacts(chain, facts)
           d == parseHTTPDetails(facts[h].payload)
<1>1. /\ h \in DOMAIN chain /\ chain[h].kind = "http" /\ facts[h] \in LinkFacts
      /\ Agrees(chain[h], facts[h])
  BY DetailShapes DEF WithGoogleapi, DetailInv
<1>2. /\ f.payload = << >> /\ f.details = d
      /\ f.text = facts[h].message \cup String(d)
      /\ f.message = facts[h].message
      /\ f = [payload |-> f.payload, details |-> f.details, text |-> f.text,
              message |-> f.message]
  BY DEF APIErrorFacts, OfGoogleapi, Link
<1> HIDE DEF f, h
<1>3. d \in Parsed
  BY <1>1, HTTPParsed DEF LinkFacts
<1>4. f \in LinkFacts
  BY <1>1, <1>2, <1>3, StringPieces, NoPayload DEF LinkFacts
<1>5. "message" \in f.text /\ "message" \in f.message
  BY <1>1, <1>2 DEF Agrees
<1>6. setDetailsFromError(chain).info = NoReason /\ setDetailsFromError(chain).reason = InfoOf(d)
  BY <1>1 DEF Agrees, setDetailsFromError, HTTPErrOf, h
<1>7. setDetailsFromError(chain).code # NoStatus /\ setDetailsFromError(chain).kind = "api"
  BY DetailShapes, APIErrorLink DEF Parsable
<1>8. Agrees(setDetailsFromError(chain), f)
  BY <1>2, <1>5, <1>6, <1>7, NoPayload DEF Agrees
<1> QED  BY <1>2, <1>4, <1>8 DEF f, h

LEMMA AnnotationFacts ==
    ASSUME DetailInv, NEW x, x.code = NoStatus, x.kind = "plain"
    PROVE  /\ Annotation(facts) \in LinkFacts /\ Agrees(x, Annotation(facts))
           /\ Annotation(facts).text = {"note"} \cup facts[1].text
<1> DEFINE f == Annotation(facts)
<1>1. facts[1] \in LinkFacts /\ "message" \in facts[1].text
  BY DetailShapes DEF DetailInv, Agrees
<1>2. f = [payload |-> << >>, details |-> NoDetails, text |-> {"note"} \cup facts[1].text,
           message |-> {"note"} \cup facts[1].text]
  BY DEF Annotation, Link
<1> HIDE DEF f
<1>3. f \in LinkFacts
  BY <1>1, <1>2, NoPayload DEF LinkFacts, Parsed, Pieces
<1>4. Agrees(x, f)
  BY <1>1, <1>2 DEF Agrees
<1> QED  BY <1>2, <1>3, <1>4 DEF f

----------------------------------------------------------------------------
LEMMA InitDetail == DetailInit => DetailInv
<1> SUFFICES ASSUME DetailInit PROVE DetailInv
  OBVIOUS
<1>1. ChainInv /\ chain = origin /\ origin \in Origins /\ origin \in Seq(Links)
  BY InitChain DEF DetailInit, Init, ChainInv, TypeOK, ErrorValues
<1>2. /\ DOMAIN facts = 1 .. Len(origin) /\ Len(origin) \in Nat
      /\ \A i \in 1 .. Len(origin) : \E p \in Payloads : facts[i] = Bottom(p)
      /\ \A i \in 1 .. Len(origin) : Info(origin[i], facts[i].payload)
      /\ facts = [i \in 1 .. Len(origin) |-> facts[i]]
  BY <1>1 DEF DetailInit
<1>3. \A i \in 1 .. Len(origin) :
        /\ facts[i] \in LinkFacts
        /\ facts[i].text = {"message"} /\ facts[i].message = {"message"}
  <2>1. ASSUME NEW p \in Payloads
        PROVE  /\ Bottom(p) \in LinkFacts
               /\ Bottom(p).text = {"message"} /\ Bottom(p).message = {"message"}
    BY DetailsAssumption DEF Bottom, Link, LinkFacts, Parsed, Pieces
  <2> QED  BY <1>2, <2>1
<1>4. facts \in Seq(LinkFacts) /\ Len(facts) = Len(chain)
  BY <1>1, <1>2, <1>3
<1>5. \A i \in DOMAIN chain : Agrees(chain[i], facts[i]) /\ chain[i].kind # "api"
  <2> SUFFICES ASSUME NEW i \in DOMAIN chain
               PROVE  Agrees(chain[i], facts[i]) /\ chain[i].kind # "api"
    OBVIOUS
  <2>1. /\ i \in 1 .. Len(origin) /\ chain[i] = origin[i]
        /\ origin[i].kind # "api" /\ (origin[i].kind = "status") = (origin[i].code # NoStatus)
    BY <1>1, DetailsAssumption
  <2>2. Info(origin[i], facts[i].payload)
    BY <1>2, <2>1
  <2>3. origin[i].kind = "status" =>
            origin[i].info = InfoOf(parseDetails(StatusDetails(facts[i].payload)))
    BY <2>2 DEF Info
  <2>4. origin[i].kind = "http" => origin[i].reason = InfoOf(parseHTTPDetails(facts[i].payload))
    BY <2>2 DEF Info
  <2> QED  BY <1>3, <2>1, <2>3, <2>4 DEF Agrees
<1>6. Layers = {}
  BY <1>5 DEF Layers
<1>7. OriginFacts = facts
  BY <1>1, <1>4, SubSeqFull DEF OriginFacts
<1> QED
  BY <1>1, <1>3, <1>4, <1>5, <1>6, <1>7 DEF DetailInv, StatusPayload, Body

(* The facts of a layer, in the terms of the invariant. *)
LEMMA DetailLayer ==
    ASSUME DetailInv, DetailNext
    PROVE  \E x \in Links, f \in LinkFacts :
            /\ chain' = << x >> \o chain /\ facts' = << f >> \o facts /\ origin' = origin
            /\ Agrees(x, f)
            /\ \/ /\ x.kind = "api" /\ Parsable(chain)
                  /\ StatusOK(chain) =>
                       LET below == facts[FirstIn(WithStatus(chain))]
                       IN  /\ f.payload = below.payload
                           /\ f.details = parseDetails(StatusDetails(below.payload))
                           /\ f.text = facts[1].text \cup String(f.details)
                  /\ ~StatusOK(chain) =>
                       LET below == facts[FirstIn(WithGoogleapi(chain))]
                       IN  /\ f.details = parseHTTPDetails(below.payload)
                           /\ f.text = below.message \cup String(f.details)
               \/ /\ x.kind = "plain" /\ x.code = NoStatus
                  /\ f.text = {"note"} \cup facts[1].text
<1>0. chain \in ErrorValues /\ chain # NilError
  BY DetailShapes
<1>1. CASE Classify /\ facts' = << APIErrorFacts(chain, facts) >> \o facts
  <2> DEFINE x == setDetailsFromError(chain)
             f == APIErrorFacts(chain, facts)
  <2>1. /\ Parsable(chain) /\ origin' = origin /\ chain' = << x >> \o chain
        /\ x \in Links /\ x.kind = "api"
    BY <1>0, <1>1, FromErrorLinks, APIErrorLink DEF Classify
  <2>2. CASE StatusOK(chain)
    <3>1. LET below == facts[FirstIn(WithStatus(chain))]
          IN  /\ f \in LinkFacts /\ Agrees(x, f)
              /\ f.payload = below.payload
              /\ f.details = parseDetails(StatusDetails(below.payload))
              /\ f.text = facts[1].text \cup String(f.details)
      BY <2>2, StatusFacts
    <3> HIDE DEF x, f
    <3> QED  BY <1>1, <2>1, <2>2, <3>1 DEF f
  <2>3. CASE ~StatusOK(chain)
    <3>1. LET below == facts[FirstIn(WithGoogleapi(chain))]
          IN  /\ f \in LinkFacts /\ Agrees(x, f)
              /\ f.details = parseHTTPDetails(below.payload)
              /\ f.text = below.message \cup String(f.details)
      BY <2>1, <2>3, GoogleapiFacts DEF Parsable
    <3> HIDE DEF x, f
    <3> QED  BY <1>1, <2>1, <2>3, <3>1 DEF f
  <2> QED  BY <2>2, <2>3
<1>2. CASE Annotate /\ facts' = << Annotation(facts) >> \o facts
  <2> DEFINE f == Annotation(facts)
  <2>1. PICK x \in Links :
            /\ chain' = << x >> \o chain /\ x.kind = "plain" /\ x.code = NoStatus
    <3>1. chain[1] \in Links
      BY DetailShapes
    <3>2. chain[1].cert \in BOOLEAN
      BY <3>1 DEF Links
    <3>3. chain' = << Plain("plain", chain[1].cert) >> \o chain
      BY <1>2 DEF Annotate
    <3> QED  BY <3>2, <3>3, PlainLink
  <2>2. f \in LinkFacts /\ Agrees(x, f) /\ f.text = {"note"} \cup facts[1].text
    BY <2>1, AnnotationFacts
  <2>3. origin' = origin
    BY <1>2 DEF Annotate
  <2> HIDE DEF f
  <2> QED  BY <1>2, <2>1, <2>2, <2>3 DEF f
<1> QED  BY <1>1, <1>2 DEF DetailNext

LEMMA NextDetail == DetailInv /\ [DetailNext]_detailVars => DetailInv'
<1> SUFFICES ASSUME DetailInv, [DetailNext]_detailVars PROVE DetailInv'
  OBVIOUS
<1>0. ChainInv'
  <2>1. [Next]_vars
    BY DEF DetailNext, Next, detailVars
  <2> QED  BY <2>1, NextChain DEF DetailInv
<1>1. CASE UNCHANGED detailVars
  BY <1>0, <1>1
  DEF detailVars, vars, DetailInv, Layers, OriginFacts, StatusPayload, Body
<1>2. CASE DetailNext
  <2>1. PICK x \in Links, f \in LinkFacts :
            /\ chain' = << x >> \o chain /\ facts' = << f >> \o facts /\ origin' = origin
            /\ Agrees(x, f)
            /\ \/ /\ x.kind = "api" /\ Parsable(chain)
                  /\ StatusOK(chain) =>
                       LET below == facts[FirstIn(WithStatus(chain))]
                       IN  /\ f.payload = below.payload
                           /\ f.details = parseDetails(StatusDetails(below.payload))
                           /\ f.text = facts[1].text \cup String(f.details)
                  /\ ~StatusOK(chain) =>
                       LET below == facts[FirstIn(WithGoogleapi(chain))]
                       IN  /\ f.details = parseHTTPDetails(below.payload)
                           /\ f.text = below.message \cup String(f.details)
               \/ /\ x.kind = "plain" /\ x.code = NoStatus
                  /\ f.text = {"note"} \cup facts[1].text
    BY <1>2, DetailLayer
  <2>2. /\ chain \in ErrorValues /\ Len(chain) \in Nat /\ Len(origin) \in Nat \ {0}
        /\ Len(origin) <= Len(chain) /\ DOMAIN chain = 1 .. Len(chain)
        /\ DOMAIN facts = DOMAIN chain /\ facts \in Seq(LinkFacts) /\ Len(facts) = Len(chain)
        /\ 1 \in DOMAIN chain
    BY DetailShapes DEF DetailInv
  <2>3. /\ Len(chain') = Len(chain) + 1 /\ DOMAIN chain' = 1 .. Len(chain) + 1
        /\ chain'[1] = x /\ \A i \in DOMAIN chain : chain'[i + 1] = chain[i]
    BY <2>1, <2>2, Prepended DEF ErrorValues
  <2>4. /\ facts' \in Seq(LinkFacts) /\ Len(facts') = Len(chain) + 1
        /\ facts'[1] = f /\ \A i \in DOMAIN chain : facts'[i + 1] = facts[i]
    BY <2>1, <2>2, Prepended
  <2>5. \A j \in DOMAIN chain' : j = 1 \/ (j - 1 \in DOMAIN chain /\ j = (j - 1) + 1)
    BY <2>2, <2>3
  <2>6. \A i \in DOMAIN chain' : Agrees(chain'[i], facts'[i])
    <3> SUFFICES ASSUME NEW i \in DOMAIN chain' PROVE Agrees(chain'[i], facts'[i])
      OBVIOUS
    <3>1. CASE i = 1
      BY <2>1, <2>3, <2>4, <3>1
    <3>2. CASE i # 1
      <4>1. i - 1 \in DOMAIN chain /\ chain'[i] = chain[i - 1] /\ facts'[i] = facts[i - 1]
        BY <2>3, <2>4, <2>5, <3>2
      <4> QED  BY <4>1 DEF DetailInv
    <3> QED  BY <3>1, <3>2
  <2>7. OriginFacts' = OriginFacts
    <3> DEFINE lo == Len(origin)
               n == Len(chain)
    <3>1. OriginFacts = [i \in 1 .. lo |-> facts[n - lo + i]]
      BY <2>2 DEF OriginFacts
    <3>2. OriginFacts' = [i \in 1 .. lo |-> facts'[(n - lo + i) + 1]]
      BY <2>1, <2>2, <2>4 DEF OriginFacts
    <3>3. \A i \in 1 .. lo : n - lo + i \in DOMAIN chain
      BY <2>2
    <3> QED  BY <2>4, <3>1, <3>2, <3>3
  <2>8. StatusPayload' = StatusPayload /\ Body' = Body
    BY <2>1, <2>7 DEF StatusPayload, Body
  <2>9. Layers' = {i + 1 : i \in Layers} \cup (IF x.kind = "api" THEN {1} ELSE {})
    <3>1. ASSUME NEW i \in Layers PROVE i + 1 \in Layers'
      BY <2>2, <2>3 DEF Layers
    <3>2. x.kind = "api" => 1 \in Layers'
      BY <2>2, <2>3 DEF Layers
    <3>3. ASSUME NEW j \in Layers'
          PROVE  j \in {i + 1 : i \in Layers} \cup (IF x.kind = "api" THEN {1} ELSE {})
      <4>1. j \in DOMAIN chain' /\ chain'[j].kind = "api"
        BY DEF Layers
      <4>2. CASE j = 1
        BY <2>3, <4>1, <4>2
      <4>3. CASE j # 1
        <5>1. j - 1 \in DOMAIN chain /\ j = (j - 1) + 1 /\ chain'[j] = chain[j - 1]
          BY <2>3, <2>5, <4>1, <4>3
        <5>2. j - 1 \in Layers
          BY <4>1, <5>1 DEF Layers
        <5> QED  BY <5>1, <5>2
      <4> QED  BY <4>2, <4>3
    <3> QED  BY <3>1, <3>2, <3>3
  <2>10. /\ Layers \subseteq DOMAIN chain
         /\ \A i \in Layers : facts'[i + 1] = facts[i]
    BY <2>4 DEF Layers
  <2>11. IsHTTPErr(origin) => facts'[FirstIn(WithGoogleapi(chain'))].payload = Body
    <3> SUFFICES ASSUME IsHTTPErr(origin)
                 PROVE  facts'[FirstIn(WithGoogleapi(chain'))].payload = Body
      OBVIOUS
    <3>1. IsHTTPErr(chain)
      BY DEF DetailInv, ChainInv, Tells
    <3>2. /\ FirstIn(WithGoogleapi(chain')) = FirstIn(WithGoogleapi(chain)) + 1
          /\ FirstIn(WithGoogleapi(chain)) \in DOMAIN chain
      BY <2>1, <2>2, <3>1, PrependedGoogleapi
    <3> QED  BY <2>4, <3>2 DEF DetailInv
  <2>12. StatusOK(origin) =>
            /\ facts'[FirstIn(WithStatus(chain'))].payload = StatusPayload
            /\ \A i \in Layers' : facts'[i].details = parseDetails(StatusDetails(StatusPayload))
    <3> SUFFICES ASSUME StatusOK(origin)
                 PROVE  /\ facts'[FirstIn(WithStatus(chain'))].payload = StatusPayload
                        /\ \A i \in Layers' :
                            facts'[i].details = parseDetails(StatusDetails(StatusPayload))
      OBVIOUS
    <3>1. /\ StatusOK(chain) /\ facts[FirstIn(WithStatus(chain))].payload = StatusPayload
          /\ \A i \in Layers : facts[i].details = parseDetails(StatusDetails(StatusPayload))
      BY DEF DetailInv, ChainInv, Tells
    <3>2. x.kind = "api" => /\ x.code # NoStatus /\ f.payload = StatusPayload
                            /\ f.details = parseDetails(StatusDetails(StatusPayload))
      BY <2>1, <3>1 DEF Agrees
    <3>3. x.code # NoStatus => x.kind = "api"
      BY <2>1
    <3>4. facts'[FirstIn(WithStatus(chain'))].payload = StatusPayload
      <4>1. CASE x.code # NoStatus
        <5>1. FirstIn(WithStatus(chain')) = 1
          BY <2>1, <2>2, <4>1, PrependedStatus
        <5> QED  BY <2>4, <3>2, <3>3, <4>1, <5>1
      <4>2. CASE x.code = NoStatus
        <5>1. /\ FirstIn(WithStatus(chain')) = FirstIn(WithStatus(chain)) + 1
              /\ FirstIn(WithStatus(chain)) \in DOMAIN chain
          BY <2>1, <2>2, <3>1, <4>2, PrependedStatus
        <5> QED  BY <2>4, <3>1, <5>1
      <4> QED  BY <4>1, <4>2
    <3>5. \A i \in Layers' : facts'[i].details = parseDetails(StatusDetails(StatusPayload))
      BY <2>4, <2>9, <2>10, <3>1, <3>2
    <3> QED  BY <3>4, <3>5
  <2>13. Layers' # {} => Parsable(origin)
    <3>1. Layers # {} => Parsable(origin)
      BY DEF DetailInv
    <3>2. Layers = {} /\ Parsable(chain) => Parsable(origin)
      BY DEF DetailInv, ChainInv, Tells, Parsable
    <3> QED  BY <2>1, <2>9, <3>1, <3>2
  <2>14. Layers' = {} =>
            /\ StatusOK(chain') <=> StatusOK(origin)
            /\ \A i \in DOMAIN chain' : facts'[i].text \subseteq {"note", "message"}
    <3> SUFFICES ASSUME Layers' = {}
                 PROVE  /\ StatusOK(chain') <=> StatusOK(origin)
                        /\ \A i \in DOMAIN chain' : facts'[i].text \subseteq {"note", "message"}
      OBVIOUS
    <3>1. Layers = {} /\ x.kind = "plain" /\ x.code = NoStatus
          /\ f.text = {"note"} \cup facts[1].text
      BY <2>1, <2>9
    <3>2. StatusOK(chain) <=> StatusOK(origin)
      BY <3>1 DEF DetailInv
    <3>3. \A i \in DOMAIN chain : facts[i].text \subseteq {"note", "message"}
      BY <3>1 DEF DetailInv
    <3>4. StatusOK(chain') <=> StatusOK(chain)
      BY <2>1, <2>2, <3>1, PrependedStatus
    <3>5. \A i \in DOMAIN chain' : facts'[i].text \subseteq {"note", "message"}
      <4> SUFFICES ASSUME NEW i \in DOMAIN chain' PROVE facts'[i].text \subseteq {"note", "message"}
        OBVIOUS
      <4>1. CASE i = 1
        BY <2>2, <2>4, <3>1, <3>3, <4>1
      <4>2. CASE i # 1
        <5>1. i - 1 \in DOMAIN chain /\ facts'[i] = facts[i - 1]
          BY <2>4, <2>5, <4>2
        <5> QED  BY <3>3, <5>1
      <4> QED  BY <4>1, <4>2
    <3> QED  BY <3>2, <3>4, <3>5
  <2>15. ~StatusOK(origin) /\ Layers' # {} =>
            facts'[Max(Layers')].details = parseHTTPDetails(Body)
    <3> SUFFICES ASSUME ~StatusOK(origin), Layers' # {}
                 PROVE  facts'[Max(Layers')].details = parseHTTPDetails(Body)
      OBVIOUS
    <3>1. CASE Layers = {}
      <4>1. Layers' = {1} /\ x.kind = "api"
        BY <2>9, <3>1
      <4>2. ~StatusOK(chain) /\ IsHTTPErr(origin)
        BY <2>1, <3>1, <4>1 DEF DetailInv, ChainInv, Tells, Parsable
      <4>3. f.details = parseHTTPDetails(Body)
        BY <2>1, <4>1, <4>2 DEF DetailInv
      <4>4. Max(Layers') = 1
        BY <4>1 DEF Max
      <4> QED  BY <2>4, <4>3, <4>4
    <3>2. CASE Layers # {}
      <4>1. /\ Layers \in SUBSET Nat /\ Layers \subseteq 0 .. Len(chain)
        BY <2>2, <2>10
      <4>2. Max(Layers) \in Layers /\ \A j \in Layers : j <= Max(Layers)
        BY <2>2, <3>2, <4>1, MaxMinIn
      <4> DEFINE m == Max(Layers) + 1
      <4>3. m \in Layers' /\ m \in Nat /\ Layers' \subseteq Nat /\ \A j \in Layers' : m >= j
        <5> DEFINE mx == Max(Layers)
        <5>1. mx \in Layers /\ mx \in Nat /\ \A j \in Layers : j <= mx
          BY <4>1, <4>2
        <5> HIDE DEF mx
        <5>2. Layers' = {i + 1 : i \in Layers} \/ Layers' = {1} \cup {i + 1 : i \in Layers}
          BY <2>9
        <5>3. mx + 1 \in Layers' /\ mx + 1 \in Nat
          BY <5>1, <5>2
        <5>4. Layers' \subseteq Nat /\ \A j \in Layers' : mx + 1 >= j
          BY <4>1, <5>1, <5>2
        <5> QED  BY <5>3, <5>4 DEF mx
      <4> HIDE DEF m
      <4>4. \A k \in Layers' : (\A j \in Layers' : k >= j) => k = m
        BY <4>3
      <4>5. Max(Layers') = m
        BY <4>3, <4>4 DEF Max
      <4>6. facts[Max(Layers)].details = parseHTTPDetails(Body)
        BY <3>2 DEF DetailInv
      <4> QED  BY <2>10, <4>2, <4>5, <4>6 DEF m
    <3> QED  BY <3>1, <3>2
  <2> QED
    BY <1>0, <2>1, <2>3, <2>4, <2>6, <2>8, <2>11, <2>12, <2>13, <2>14, <2>15 DEF DetailInv
<1> QED  BY <1>1, <1>2

LEMMA DetailInvariant == DetailSpec => []DetailInv
<1> QED  BY InitDetail, NextDetail, PTL DEF DetailSpec

(* What a service sent with an error can be reached through the APIErrors   *)
(* above it, whatever the details, the layers and the annotations between   *)
(* them (v2/apierror/apierror.go, setDetailsFromError, parseDetails,        *)
(* parseHTTPDetails and Reason).                                            *)
THEOREM DetailsAreReachable == DetailSpec => []DetailsReachable
<1>1. DetailInv => DetailsReachable
  <2> SUFFICES ASSUME DetailInv PROVE DetailsReachable
    OBVIOUS
  <2>1. \A i \in Layers : chain[i].reason = InfoOf(facts[i].details)
    BY DEF DetailInv, Layers, Agrees
  <2>2. ASSUME StatusOK(origin), NEW i \in Layers
        PROVE  Presents(facts[i].details, StatusDetails(StatusPayload))
    <3>1. StatusPayload \in Seq(Details)
      <4>1. StatusOK(chain)
        BY <2>2 DEF DetailInv, ChainInv, Tells
      <4>2. facts[FirstIn(WithStatus(chain))] \in LinkFacts
        BY <4>1, DetailShapes
      <4> QED  BY <2>2, <4>2 DEF DetailInv, LinkFacts
    <3>2. DOMAIN StatusDetails(StatusPayload) \in SUBSET Nat
      BY <3>1 DEF StatusDetails
    <3>3. facts[i].details = parseDetails(StatusDetails(StatusPayload))
      BY <2>2 DEF DetailInv
    <3> QED  BY <3>2, <3>3, ParsedPresents
  <2>3. ASSUME ~StatusOK(origin), Layers # {},
               \A i \in DOMAIN Body : Body[i].type # "unresolved"
        PROVE  Presents(facts[Max(Layers)].details, WithType(Body))
    <3>1. Body \in Seq(Details)
      <4>1. IsHTTPErr(origin)
        BY <2>3 DEF DetailInv, Parsable
      <4>2. IsHTTPErr(chain)
        BY <4>1 DEF DetailInv, ChainInv, Tells
      <4>3. facts[FirstIn(WithGoogleapi(chain))] \in LinkFacts
        BY <4>2, DetailShapes
      <4> QED  BY <4>1, <4>3 DEF DetailInv, LinkFacts
    <3>2. DOMAIN WithType(Body) \in SUBSET Nat
      BY <3>1 DEF WithType, Restrict
    <3>3. facts[Max(Layers)].details = parseDetails(WithType(Body))
      BY <2>3 DEF DetailInv, parseHTTPDetails
    <3> QED  BY <3>2, <3>3, ParsedPresents
  <2> QED  BY <2>1, <2>2, <2>3 DEF DetailsReachable, StatusPayload, Body
<1> QED  BY <1>1, DetailInvariant, PTL

(* No layer takes a piece of the text of an error away, and an APIError     *)
(* shows a paragraph for every detail it has (v2/apierror/apierror.go,      *)
(* Error, Message and ErrDetails.String).                                   *)
THEOREM TextIsKept == DetailSpec => TextKept
<1> DEFINE Kept ==
      /\ facts[1].text \ {"note"} \subseteq facts'[1].text
      /\ "message" \in facts'[1].message
      /\ chain'[1].kind = "api" =>
           LET ed == facts'[1].details
           IN  /\ \A k \in DetailKinds : ed.field[k] # NoDetail => k \in facts'[1].text
               /\ DOMAIN ed.Unknown # {} => "Unknown" \in facts'[1].text
<1>1. DetailInv /\ [DetailNext]_detailVars => [Kept]_detailVars
  <2> SUFFICES ASSUME DetailInv, DetailNext PROVE Kept
    OBVIOUS
  <2>1. PICK x \in Links, f \in LinkFacts :
            /\ chain' = << x >> \o chain /\ facts' = << f >> \o facts
            /\ Agrees(x, f)
            /\ \/ /\ x.kind = "api" /\ Parsable(chain)
                  /\ StatusOK(chain) => f.text = facts[1].text \cup String(f.details)
                  /\ ~StatusOK(chain) =>
                       f.text = facts[FirstIn(WithGoogleapi(chain))].message \cup String(f.details)
               \/ /\ x.kind = "plain" /\ f.text = {"note"} \cup facts[1].text
    BY DetailLayer
  <2>2. chain \in Seq(Links) /\ facts \in Seq(LinkFacts) /\ 1 \in DOMAIN chain
    BY DetailShapes DEF DetailInv, ErrorValues
  <2>3. chain'[1] = x /\ facts'[1] = f
    BY <2>1, <2>2
  <2>4. "message" \in f.message
    BY <2>1 DEF Agrees
  <2>5. facts[1].text \ {"note"} \subseteq f.text
    <3>1. CASE x.kind = "api" /\ ~StatusOK(chain)
      <4>1. Layers = {}
        <5>1. ASSUME NEW i \in Layers PROVE i \in WithStatus(chain)
          BY DEF DetailInv, Agrees, Layers, WithStatus
        <5> QED  BY <3>1, <5>1 DEF StatusOK
      <4>2. facts[1].text \subseteq {"note", "message"}
        BY <2>2, <4>1 DEF DetailInv
      <4>3. FirstIn(WithGoogleapi(chain)) \in DOMAIN chain
        BY <2>1, <3>1, DetailShapes DEF Parsable
      <4>4. "message" \in facts[FirstIn(WithGoogleapi(chain))].message
        BY <4>3 DEF DetailInv, Agrees
      <4>5. f.text = facts[FirstIn(WithGoogleapi(chain))].message \cup String(f.details)
        BY <2>1, <3>1
      <4> QED  BY <4>2, <4>4, <4>5
    <3>2. CASE ~(x.kind = "api" /\ ~StatusOK(chain))
      BY <2>1, <3>2
    <3> QED  BY <3>1, <3>2
  <2>6. x.kind = "api" => String(f.details) \subseteq f.text
    BY <2>1
  <2>7. /\ \A k \in DetailKinds : f.details.field[k] # NoDetail /\ k # "Unknown" =>
                k \in String(f.details)
        /\ DOMAIN f.details.Unknown # {} => "Unknown" \in String(f.details)
    BY DEF String, Shows
  <2>8. "Unknown" \notin DetailKinds
    BY DEF DetailKinds
  <2> QED  BY <2>3, <2>4, <2>5, <2>6, <2>7, <2>8
<1>2. QED  BY <1>1, DetailInvariant, PTL DEF DetailSpec, TextKept
=============================================================================
