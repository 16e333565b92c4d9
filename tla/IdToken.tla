------------------------------- MODULE IdToken -------------------------------
(***************************************************************************)
(* The claim rules of an ID token (validateClaims and parseAudience of     *)
(* IdTokenVerifier) against a clock that goes on: one token, as any        *)
(* signed payload may have it, is verified again and again.                *)
(*                                                                         *)
(* exp and iat are int64, and time.Time counts int64 seconds from year 1:  *)
(* time.Unix adds the offset and wraps, Add saturates.  Both are kept, on  *)
(* integers of any width.  The current time has a fraction of a second,    *)
(* which claims do not have; it is told apart as zero or not.              *)
(***************************************************************************)
EXTENDS Integers, Sequences

CONSTANTS
    MaxInt,        \* the greatest int64
    UnixEpoch,     \* seconds from year 1 to 1970
    ClockSkew,     \* 5 min
    MaxAge,        \* 10 min
    Names,         \* strings in aud and azp
    Empty,         \* the empty string, what an absent azp decodes to
    ClientId,      \* expectedClientId, which loadConfig requires
    Issuers,       \* strings in iss
    Issuer,        \* expectedIssuer
    BareIssuer,    \* the same without https://
    MaxAudience,   \* bound on the length of aud
    ExpClaims,     \* values of exp
    IatClaims,     \* values of iat
    MaxNow         \* bound on the clock

Int64 == -(MaxInt + 1) .. MaxInt

ASSUME TokenAssumption ==
    /\ MaxInt \in Nat /\ UnixEpoch \in Nat
    /\ ClockSkew \in Nat \ {0} /\ MaxAge \in Nat \ {0}
    /\ UnixEpoch <= MaxInt /\ ClockSkew <= MaxInt /\ MaxAge <= MaxInt
    /\ Empty \in Names /\ ClientId \in Names \ {Empty}
    /\ Issuer \in Issuers /\ BareIssuer \in Issuers
    /\ MaxAudience \in Nat
    /\ ExpClaims \subseteq Int64 /\ IatClaims \subseteq Int64
    /\ MaxNow \in Nat /\ MaxNow + UnixEpoch < MaxInt

VARIABLES
    token,         \* the claims that json.Unmarshal gives
    now,           \* time.Now(): seconds since 1970 and whether any more
    verdict,       \* of the last Verify, if the clock has not moved since
    refusedBefore  \* whether an earlier Verify refused the token

vars == <<token, now, verdict, refusedBefore>>

\* The JSON value of aud; a null in an array decodes to the empty string.
RawAudiences ==
    [form : {"missing", "null", "other"}, names : {<<>>}]
    \cup [form : {"string"}, names : [1 .. 1 -> Names]]
    \cup [form : {"array"}, names : UNION {[1 .. n -> Names] :
                                             n \in 0 .. MaxAudience}]

Claims == [iss : Issuers, aud : RawAudiences, azp : Names, exp : ExpClaims,
           iat : IatClaims, nonceMatches : BOOLEAN, subPresent : BOOLEAN]

Init ==
    /\ token \in Claims
    /\ now = [sec |-> 0, fraction |-> FALSE]
    /\ verdict = "none"
    /\ refusedBefore = FALSE

-----------------------------------------------------------------------------
(* time.Time.                                                              *)

\* int64 arithmetic on a result that is out of range by less than its size.
Wrap(n) == IF n > MaxInt THEN n - 2 * (MaxInt + 1)
           ELSE IF n < -(MaxInt + 1) THEN n + 2 * (MaxInt + 1)
           ELSE n

\* time.Unix.
Unix(sec) == Wrap(sec + UnixEpoch)

\* Time.Add for a positive number of seconds: a sum that did not grow has
\* wrapped, and becomes the end of time.
Add(t, d) == IF Wrap(t + d) > t THEN Wrap(t + d) ELSE MaxInt

\* Fault: the end is taken for past.
NotAfter(t) == t <= Unix(now.sec)

\* Time.Before(now) of a time without a fraction.
Before(t) == t < Unix(now.sec) \/ (t = Unix(now.sec) /\ now.fraction)

-----------------------------------------------------------------------------
(* validateClaims.                                                         *)

\* No audience at all is an error of its own, and refused just the same.
parseAudience(aud) ==
    CASE aud.form \in {"string", "array"} -> aud.names
      [] aud.form = "null" -> <<Empty>>
      [] aud.form \in {"missing", "other"} -> <<>>

issMatches == token.iss \in {Issuer, BareIssuer}

audContainsClientId ==
    LET audience == parseAudience(token.aud)
    IN  \E i \in DOMAIN audience : audience[i] = ClientId

\* Fault: an azp is compared only when there is one.
AzpIfPresent == token.azp \in {Empty, ClientId}

azpMatches ==
    Len(parseAudience(token.aud)) > 1 => token.azp = ClientId

expired == Before(Add(Unix(token.exp), ClockSkew))

\* Fault: a token from the future is refused as well.
TooOldOrEarly ==
    \/ Before(Add(Unix(token.iat), MaxAge))
    \/ token.iat > now.sec

tooOld == Before(Add(Unix(token.iat), MaxAge))

validateClaims ==
    /\ issMatches
    /\ audContainsClientId
    /\ azpMatches
    /\ ~expired
    /\ ~tooOld
    /\ token.nonceMatches
    /\ token.subPresent

Verify ==
    /\ verdict = "none"
    /\ verdict' = IF validateClaims THEN "accepted" ELSE "refused"
    /\ UNCHANGED <<token, now, refusedBefore>>

\* The clock moves on; what was verified stays behind.
Tick ==
    /\ \E sec \in {now.sec, now.sec + 1} \cap 0 .. MaxNow,
          fraction \in BOOLEAN :
          /\ sec > now.sec \/ (fraction /\ ~now.fraction)
          /\ now' = [sec |-> sec, fraction |-> fraction]
    /\ refusedBefore' = (refusedBefore \/ verdict = "refused")
    /\ verdict' = "none"
    /\ UNCHANGED token

Next == Verify \/ Tick

Spec == Init /\ [][Next]_vars

-----------------------------------------------------------------------------
TypeOK ==
    /\ token \in Claims
    /\ now \in [sec : 0 .. MaxNow, fraction : BOOLEAN]
    /\ verdict \in {"none", "accepted", "refused"}
    /\ refusedBefore \in BOOLEAN

\* Whether a moment that is sec seconds after 1970 is over, on the integers.
Over(sec) == sec < now.sec \/ (sec = now.sec /\ now.fraction)

Audience ==
    {token.aud.names[i] : i \in DOMAIN token.aud.names}

\* The table of docs/google-idp.md, step 4.4, on the integers and on the
\* claims as they were sent.
Rules ==
    /\ token.iss \in {Issuer, BareIssuer}
    /\ ClientId \in Audience
    /\ Len(token.aud.names) > 1 => token.azp = ClientId
    /\ ~Over(token.exp + ClockSkew)
    /\ ~Over(token.iat + MaxAge)
    /\ token.nonceMatches
    /\ token.subPresent

\* No token is accepted outside the documented rules, also when time.Unix
\* wraps and Add saturates: an exp or iat at the end of int64 never makes an
\* old token young (validateClaims).
AcceptedMatchesRules == verdict = "accepted" => Rules

\* A token within the rules is accepted up to the last instant of its skew
\* and its age, if time.Unix can hold its times; the Add may still saturate.
ClearTokenAccepted ==
    /\ verdict = "refused"
    /\ token.exp + UnixEpoch <= MaxInt
    /\ token.iat + UnixEpoch <= MaxInt
    => ~Rules

\* A token that was refused once is refused ever after: with one clock, no
\* second try of the same token gets through (validateClaims has no lower
\* bound on the time).
RefusedStaysRefused == refusedBefore => verdict # "accepted"
=============================================================================
