---------------------------- MODULE Retry_proofs ----------------------------
(***************************************************************************)
(* Facts about the values that Retryers work with, cited by the proofs     *)
(* about the components: every error value and every APIError made of one, *)
(* and one call of Pause for all parameters of a Backoff.                  *)
(***************************************************************************)
EXTENDS Retry, SequenceTheorems, WellFoundedInduction, TLAPS

(* errors.As finds the first link it wants, and no other one.              *)
LEMMA FirstInLeast ==
    ASSUME NEW S \in SUBSET Nat, S # {}
    PROVE  /\ FirstIn(S) \in S
           /\ \A j \in S : FirstIn(S) <= j
<1>1. PICK i \in S : \A j \in S : << j, i >> \notin OpToRel(<, Nat)
  BY WFMin, NatLessThanWellFounded
<1>2. ASSUME NEW j \in S, j < i PROVE FALSE
  <2>1. j \in Nat /\ i \in Nat
    OBVIOUS
  <2>2. << j, i >> \in OpToRel(<, Nat)
    BY <1>2, <2>1, Zenon DEF OpToRel
  <2> QED  BY <1>1, <2>2, Zenon
<1>3. \A j \in S : i <= j
  BY <1>2
<1> QED  BY <1>3 DEF FirstIn

LEMMA FirstInUnique ==
    ASSUME NEW S \in SUBSET Nat, NEW i \in S, \A j \in S : i <= j
    PROVE  FirstIn(S) = i
<1>1. FirstIn(S) \in S /\ FirstIn(S) <= i
  BY FirstInLeast
<1>2. FirstIn(S) \in Nat /\ i \in Nat /\ i <= FirstIn(S)
  BY <1>1
<1> QED  BY <1>1, <1>2

(* The links that status.FromError and errors.As find are links of e.      *)
LEMMA FoundLinks ==
    ASSUME NEW e \in ErrorValues
    PROVE  /\ StatusOK(e) => /\ StatusOf(e) \in Links
                             /\ StatusOf(e).code # NoStatus
           /\ IsHTTPErr(e) => /\ HTTPErrOf(e) \in Links
                              /\ HTTPErrOf(e).kind = "http"
<1>1. DOMAIN e \subseteq Nat /\ \A i \in DOMAIN e : e[i] \in Links
  BY DEF ErrorValues
<1>2. WithStatus(e) \in SUBSET Nat /\ WithGoogleapi(e) \in SUBSET Nat
  BY <1>1 DEF WithStatus, WithGoogleapi
<1>3. StatusOK(e) => FirstIn(WithStatus(e)) \in WithStatus(e)
  BY <1>2, FirstInLeast DEF StatusOK
<1>4. IsHTTPErr(e) => FirstIn(WithGoogleapi(e)) \in WithGoogleapi(e)
  BY <1>2, FirstInLeast DEF IsHTTPErr
<1> QED  BY <1>1, <1>3, <1>4 DEF StatusOf, HTTPErrOf, WithStatus, WithGoogleapi

(* Every HTTP code, listed or not, gets the number of a gRPC code.         *)
LEMMA ToCodeType ==
    ASSUME NEW h \in Int
    PROVE  toCode(h) \in 0 .. 16
<1>1. CASE h \in DOMAIN canonicalMap
  BY <1>1 DEF toCode, canonicalMap, OK, InvalidArgument, PermissionDenied,
              NotFound, Aborted, OutOfRange, ResourceExhausted,
              DeadlineExceeded, Unimplemented, Unavailable, Unauthenticated
<1>2. CASE h \notin DOMAIN canonicalMap
  BY <1>2 DEF toCode, OK, FailedPrecondition, Internal, Unknown
<1> QED  BY <1>1, <1>2

(* The APIError made of a non-nil error is a link that has a status.       *)
LEMMA APIErrorLink ==
    ASSUME NEW e \in ErrorValues, Parsable(e)
    PROVE  /\ setDetailsFromError(e) \in Links
           /\ setDetailsFromError(e).code # NoStatus
           /\ setDetailsFromError(e).kind = "api"
<1>1. e # NilError
  BY DEF Parsable, StatusOK, IsHTTPErr, WithStatus, WithGoogleapi, NilError
<1>2. e[1] \in Links
  BY <1>1, EmptySeq, LenProperties, ElementOfSeq DEF ErrorValues, NilError
<1>3. CASE StatusOK(e)
  BY <1>2, <1>3, FoundLinks DEF setDetailsFromError, Links, LinkKinds, NoHTTP
<1>4. CASE ~StatusOK(e)
  <2>1. IsHTTPErr(e)
    BY <1>4 DEF Parsable
  <2>2. HTTPErrOf(e) \in Links
    BY <2>1, FoundLinks
  <2>3. toCode(HTTPErrOf(e).http) \in 0 .. 16
    BY <2>2, ToCodeType DEF Links
  <2>4. toCode(HTTPErrOf(e).http) \in Int /\ toCode(HTTPErrOf(e).http) # NoStatus
    BY <2>3 DEF NoStatus
  <2>5. setDetailsFromError(e) =
          [kind |-> "api", code |-> toCode(HTTPErrOf(e).http), info |-> NoReason,
           http |-> HTTPErrOf(e).http, reason |-> HTTPErrOf(e).reason,
           cert |-> HTTPErrOf(e).cert]
    BY <1>4 DEF setDetailsFromError
  <2>6. /\ HTTPErrOf(e).http \in Int
        /\ HTTPErrOf(e).reason \in Reasons
        /\ HTTPErrOf(e).cert \in BOOLEAN
    BY <2>2 DEF Links
  <2>7. NoReason \in Reasons
    BY ApiErrorAssumption
  <2>8. "api" \in LinkKinds
    BY DEF LinkKinds
  <2>9. setDetailsFromError(e) \in Links
    BY <2>4, <2>5, <2>6, <2>7, <2>8 DEF Links
  <2> QED  BY <2>4, <2>5, <2>9
<1> QED  BY <1>3, <1>4

(* FromError puts one link on top of the error and keeps all the others.   *)
LEMMA FromErrorLinks ==
    ASSUME NEW e \in ErrorValues, Parsable(e)
    PROVE  /\ FromError(e) = << setDetailsFromError(e) >> \o e
           /\ FromError(e) \in ErrorValues
           /\ Len(FromError(e)) = Len(e) + 1
           /\ FromError(e)[1] = setDetailsFromError(e)
           /\ \A i \in DOMAIN e : FromError(e)[i + 1] = e[i]
<1>1. FromError(e) = << setDetailsFromError(e) >> \o e
  BY DEF FromError, ParseError
<1>2. << setDetailsFromError(e) >> \in Seq(Links)
  BY APIErrorLink
<1>3. e \in Seq(Links)
  BY DEF ErrorValues
<1>4. /\ FromError(e) \in Seq(Links)
      /\ Len(FromError(e)) = Len(<< setDetailsFromError(e) >>) + Len(e)
  BY <1>1, <1>2, <1>3, ConcatProperties
<1> QED  BY <1>1, <1>2, <1>3, <1>4 DEF ErrorValues

(* The status of an error that was wrapped is the one its APIError has.    *)
LEMMA FromErrorStatus ==
    ASSUME NEW e \in ErrorValues, Parsable(e)
    PROVE  /\ StatusOK(FromError(e))
           /\ StatusOf(FromError(e)) = setDetailsFromError(e)
<1> DEFINE w == FromError(e)
<1>1. /\ w \in Seq(Links)
      /\ w[1] = setDetailsFromError(e)
      /\ Len(w) = Len(e) + 1
      /\ Len(e) \in Nat
  <2>1. w \in ErrorValues /\ w[1] = setDetailsFromError(e) /\ Len(w) = Len(e) + 1
    BY FromErrorLinks
  <2>2. w \in Seq(Links) /\ e \in Seq(Links)
    BY <2>1 DEF ErrorValues
  <2> QED  BY <2>1, <2>2, LenProperties
<1>2. w[1].code # NoStatus
  BY <1>1, APIErrorLink
<1> HIDE DEF w
<1>3. DOMAIN w = 1 .. Len(w)
  BY <1>1
<1>4. 1 \in WithStatus(w)
  BY <1>1, <1>2, <1>3 DEF WithStatus
<1>5. WithStatus(w) \in SUBSET Nat /\ \A j \in WithStatus(w) : 1 <= j
  BY <1>1, <1>3 DEF WithStatus
<1>6. FirstIn(WithStatus(w)) = 1
  BY <1>4, <1>5, FirstInUnique
<1>7. StatusOK(w) /\ StatusOf(w) = w[1]
  BY <1>4, <1>6 DEF StatusOK, StatusOf
<1> QED  BY <1>1, <1>7 DEF w

(* The googleapi.Error that errors.As finds is the same before and after.  *)
LEMMA FromErrorGoogleapi ==
    ASSUME NEW e \in ErrorValues, Parsable(e)
    PROVE  /\ IsHTTPErr(FromError(e)) <=> IsHTTPErr(e)
           /\ IsHTTPErr(e) => HTTPErrOf(FromError(e)) = HTTPErrOf(e)
<1> DEFINE w == FromError(e)
<1>1. /\ w \in Seq(Links) /\ e \in Seq(Links)
      /\ w[1] = setDetailsFromError(e)
      /\ Len(w) = Len(e) + 1
      /\ Len(e) \in Nat
      /\ \A i \in DOMAIN e : w[i + 1] = e[i]
  <2>1. /\ w \in ErrorValues
        /\ w[1] = setDetailsFromError(e)
        /\ Len(w) = Len(e) + 1
        /\ \A i \in DOMAIN e : w[i + 1] = e[i]
    BY FromErrorLinks
  <2>2. w \in Seq(Links) /\ e \in Seq(Links)
    BY <2>1 DEF ErrorValues
  <2> QED  BY <2>1, <2>2, LenProperties
<1>2. w[1].kind = "api"
  BY <1>1, APIErrorLink
<1> HIDE DEF w
<1>3. DOMAIN w = 1 .. Len(e) + 1 /\ DOMAIN e = 1 .. Len(e)
  BY <1>1
<1>4. 1 \notin WithGoogleapi(w)
  BY <1>2 DEF WithGoogleapi
<1>5. \A i \in DOMAIN e : i \in WithGoogleapi(e) <=> i + 1 \in WithGoogleapi(w)
  BY <1>1, <1>3 DEF WithGoogleapi
<1>6. /\ WithGoogleapi(w) \subseteq 1 .. Len(e) + 1
      /\ WithGoogleapi(e) \subseteq DOMAIN e
  BY <1>3 DEF WithGoogleapi
<1>7. \A j \in WithGoogleapi(w) : j - 1 \in WithGoogleapi(e)
  <2> TAKE j \in WithGoogleapi(w)
  <2>1. j \in 1 .. Len(e) + 1 /\ j # 1
    BY <1>4, <1>6
  <2>2. j - 1 \in DOMAIN e /\ (j - 1) + 1 = j
    BY <2>1, <1>1, <1>3
  <2> QED  BY <2>2, <1>5
<1>8. IsHTTPErr(w) <=> IsHTTPErr(e)
  BY <1>5, <1>6, <1>7 DEF IsHTTPErr
<1>9. ASSUME IsHTTPErr(e) PROVE HTTPErrOf(w) = HTTPErrOf(e)
  <2> DEFINE f == FirstIn(WithGoogleapi(e))
  <2>1. WithGoogleapi(e) \in SUBSET Nat /\ WithGoogleapi(w) \in SUBSET Nat
    BY <1>1, <1>3, <1>6
  <2>2. f \in WithGoogleapi(e) /\ \A j \in WithGoogleapi(e) : f <= j
    BY <1>9, <2>1, FirstInLeast DEF IsHTTPErr
  <2> HIDE DEF f
  <2>3. f \in DOMAIN e /\ f \in Nat
    BY <2>1, <2>2, <1>6
  <2>4. f + 1 \in WithGoogleapi(w)
    BY <2>2, <2>3, <1>5
  <2>5. \A j \in WithGoogleapi(w) : f + 1 <= j
    <3> TAKE j \in WithGoogleapi(w)
    <3>1. f <= j - 1 /\ j \in Nat
      BY <1>7, <2>1, <2>2
    <3> QED  BY <3>1, <2>3
  <2>6. FirstIn(WithGoogleapi(w)) = f + 1
    BY <2>1, <2>4, <2>5, FirstInUnique
  <2> QED  BY <2>3, <2>6, <1>1 DEF HTTPErrOf, f
<1> QED  BY <1>8, <1>9 DEF w

----------------------------------------------------------------------------
(* Backoff *)

(* Multiplication of natural numbers is monotone in each factor.           *)
LEMMA TimesMonotone ==
    ASSUME NEW a \in Nat, NEW b \in Nat, NEW m \in Nat, a <= b
    PROVE  a * m <= b * m
<1>1. PICK d \in Nat : b = a + d
  <2>1. b - a \in Nat /\ b = a + (b - a)
    OBVIOUS
  <2> QED  BY <2>1
<1>2. b * m = a * m + d * m
  BY <1>1
<1>3. d * m \in Nat /\ a * m \in Nat
  BY SMT
<1> QED  BY <1>2, <1>3

(* The default of every zero field fits in a duration, and the period that *)
(* Pause works with is never zero.                                         *)
LEMMA NormalizedType ==
    ASSUME NEW bo \in Backoffs
    PROVE  /\ Normalized(bo) \in Backoffs
           /\ Normalized(bo).Initial # 0
           /\ Normalized(bo).Max # 0
           /\ Normalized(bo).cur # 0
           /\ Normalized(bo).Multiplier >= 100
<1>1. /\ Second \in Durations /\ 30 * Second \in Durations
      /\ Second # 0 /\ 30 * Second # 0
  BY BackoffAssumption DEF Durations, IntMin
<1> QED  BY <1>1 DEF Normalized, Backoffs

(* One multiplication of a positive period by a factor of at least one.    *)
LEMMA ScaledGrows ==
    ASSUME NEW cur \in Durations, cur > 0, NEW m \in Int, m >= 100
    PROVE  /\ (cur * m) \div 100 \in Nat
           /\ cur <= (cur * m) \div 100
<1>1. cur \in Nat /\ 100 \in Nat /\ m \in Nat
  BY BackoffAssumption DEF Durations, IntMin
<1>2. 100 * cur <= m * cur
  BY <1>1, TimesMonotone
<1>3. cur * m = m * cur /\ cur * m \in Nat
  BY <1>1
<1> QED  BY <1>1, <1>2, <1>3, SMT

(* A Pause that does not panic leaves a Backoff behind, also when the      *)
(* period overflows.                                                       *)
LEMMA AfterPauseType ==
    ASSUME NEW bo \in Backoffs, ~PausePanics(bo), NEW after \in AfterPause(bo)
    PROVE  after \in Backoffs
<1> DEFINE n == Normalized(bo)
<1>1. /\ n \in Backoffs
      /\ n.cur \in Durations /\ n.Max \in Durations
      /\ n.cur > 0
      /\ n.Multiplier \in Int /\ n.Multiplier >= 100
  BY NormalizedType DEF PausePanics, Backoffs, Durations, IntMin
<1> HIDE DEF n
<1>2. (n.cur * n.Multiplier) \div 100 \in Nat
  BY <1>1, ScaledGrows
<1>3. Scaled(n.cur, n.Multiplier) \subseteq Durations
  BY <1>2, BackoffAssumption DEF Scaled, Durations, IntMin
<1>4. PICK c \in Scaled(n.cur, n.Multiplier) :
        after = [n EXCEPT !.cur = IF c > n.Max THEN n.Max ELSE c]
  BY DEF AfterPause, n
<1> QED  BY <1>1, <1>3, <1>4 DEF Backoffs
=============================================================================
