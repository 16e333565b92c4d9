---------------------------- MODULE IdTokenProofs ----------------------------
(***************************************************************************)
(* The claim rules of IdToken for integers of every width, every skew and  *)
(* age, and every set of claims.                                           *)
(***************************************************************************)
EXTENDS IdToken, TLAPS

\* Both verdicts hold of the present moment, and a refusal of every later one.
TokenInvariant ==
    /\ TypeOK
    /\ verdict = "accepted" => validateClaims
    /\ verdict = "refused" => ~validateClaims
    /\ refusedBefore => ~validateClaims

\* The clock never wraps, and a claim wraps to a time before year 1.
LEMMA UnixValues ==
  ASSUME TypeOK
  PROVE  /\ Unix(now.sec) = now.sec + UnixEpoch
         /\ \A n \in Int64 :
               \/ Unix(n) = n + UnixEpoch /\ n + UnixEpoch <= MaxInt
               \/ /\ n + UnixEpoch > MaxInt
                  /\ Unix(n) = n + UnixEpoch - 2 * (MaxInt + 1)
BY TokenAssumption DEF TypeOK, Unix, Wrap, Int64

\* Whenever the clock arithmetic takes a claim for current, it is current on
\* the integers; and the other way round if time.Unix can hold it.
LEMMA BeforeIsOver ==
  ASSUME TypeOK, NEW n \in Int64, NEW d \in Nat \ {0}, d <= MaxInt
  PROVE  /\ Over(n + d) => Before(Add(Unix(n), d))
         /\ n + UnixEpoch <= MaxInt =>
               (Before(Add(Unix(n), d)) => Over(n + d))
<1>1. /\ MaxInt \in Nat /\ UnixEpoch \in Nat /\ UnixEpoch <= MaxInt
      /\ now.sec \in Nat /\ now.fraction \in BOOLEAN
      /\ now.sec + UnixEpoch < MaxInt
      /\ n \in Int /\ n <= MaxInt /\ n >= -(MaxInt + 1)
  BY TokenAssumption DEF TypeOK, Int64
<1>2. Unix(now.sec) = now.sec + UnixEpoch
  BY UnixValues
<1>3. CASE n + UnixEpoch <= MaxInt
  <2>1. Unix(n) = n + UnixEpoch
    BY <1>1, <1>3, UnixValues
  <2>2. Add(Unix(n), d) = IF n + UnixEpoch + d <= MaxInt
                          THEN n + UnixEpoch + d ELSE MaxInt
    BY <1>1, <1>3, <2>1 DEF Add, Wrap
  <2>3. CASE n + UnixEpoch + d <= MaxInt
    BY <1>1, <1>2, <2>2, <2>3 DEF Before, Over
  <2>4. CASE n + UnixEpoch + d > MaxInt
    <3>1. ~Over(n + d)
      BY <1>1, <2>4 DEF Over
    <3>2. ~Before(MaxInt)
      BY <1>1, <1>2 DEF Before
    <3> QED
      BY <1>1, <2>2, <2>4, <3>1, <3>2
  <2> QED
    BY <1>1, <1>3, <2>3, <2>4
<1>4. CASE n + UnixEpoch > MaxInt
  BY <1>1, <1>4 DEF Over
<1> QED
  BY <1>1, <1>3, <1>4

\* The audience that parseAudience gives names the client exactly if aud does.
LEMMA AudienceParsed ==
  ASSUME TypeOK
  PROVE  /\ audContainsClientId <=> ClientId \in Audience
         /\ audContainsClientId =>
               parseAudience(token.aud) = token.aud.names
<1>1. /\ token.aud \in RawAudiences
      /\ token.aud.form \in {"missing", "null", "other", "string", "array"}
      /\ token.aud.form \in {"missing", "null", "other"} =>
            token.aud.names = <<>>
  BY DEF TypeOK, Claims, RawAudiences
<1>2. CASE token.aud.form \in {"string", "array"}
  <2>1. parseAudience(token.aud) = token.aud.names
    BY <1>2 DEF parseAudience
  <2> QED
    BY <2>1 DEF audContainsClientId, Audience
<1>3. CASE token.aud.form \in {"missing", "null", "other"}
  <2>1. ClientId \notin Audience
    BY <1>1, <1>3 DEF Audience
  <2>2. parseAudience(token.aud) \in {<<Empty>>, <<>>}
    BY <1>3 DEF parseAudience
  <2>3. ~audContainsClientId
    BY <2>2, TokenAssumption DEF audContainsClientId
  <2> QED
    BY <2>1, <2>3
<1> QED
  BY <1>1, <1>2, <1>3

\* What validateClaims accepts obeys the rules, and what obeys them within the
\* range of time.Unix is accepted.
LEMMA ValidateMatchesRules ==
  ASSUME TypeOK
  PROVE  /\ validateClaims => Rules
         /\ /\ Rules
            /\ token.exp + UnixEpoch <= MaxInt
            /\ token.iat + UnixEpoch <= MaxInt
            => validateClaims
<1>1. token.exp \in Int64 /\ token.iat \in Int64
  BY TokenAssumption DEF TypeOK, Claims
<1>2. /\ Over(token.exp + ClockSkew) => expired
      /\ token.exp + UnixEpoch <= MaxInt =>
            (expired => Over(token.exp + ClockSkew))
  BY <1>1, BeforeIsOver, TokenAssumption DEF expired
<1>3. /\ Over(token.iat + MaxAge) => tooOld
      /\ token.iat + UnixEpoch <= MaxInt =>
            (tooOld => Over(token.iat + MaxAge))
  BY <1>1, BeforeIsOver, TokenAssumption DEF tooOld
<1> QED
  BY <1>2, <1>3, AudienceParsed
  DEF validateClaims, Rules, issMatches, azpMatches

\* A time that is past stays past: the clock only makes validateClaims false.
LEMMA TickRefuses ==
  ASSUME TypeOK, Tick, validateClaims'
  PROVE  validateClaims
<1>1. /\ UNCHANGED token
      /\ now.sec \in Nat /\ now'.sec \in Nat
      /\ now.fraction \in BOOLEAN /\ now'.fraction \in BOOLEAN
      /\ now'.sec + UnixEpoch <= MaxInt
      /\ \/ now'.sec > now.sec
         \/ now'.sec = now.sec /\ now'.fraction /\ ~now.fraction
  BY TokenAssumption DEF TypeOK, Tick
<1>2. /\ Unix(now.sec) = now.sec + UnixEpoch
      /\ Unix(now'.sec) = now'.sec + UnixEpoch
  BY <1>1, TokenAssumption DEF TypeOK, Unix, Wrap
<1>3. ASSUME NEW t \in Int, Before(t)
      PROVE  Before(t)'
  BY <1>1, <1>2, <1>3, TokenAssumption DEF Before
<1>4. ASSUME NEW n \in Int64, NEW d \in Nat
      PROVE  Add(Unix(n), d) \in Int
  BY <1>4, TokenAssumption DEF Int64, Unix, Add, Wrap
<1>5. (expired => expired') /\ (tooOld => tooOld')
  <2>1. token.exp \in Int64 /\ token.iat \in Int64
    BY TokenAssumption DEF TypeOK, Claims
  <2>2. PICK e \in Int, i \in Int : /\ e = Add(Unix(token.exp), ClockSkew)
                                    /\ i = Add(Unix(token.iat), MaxAge)
    BY <1>4, <2>1, TokenAssumption
  <2>3. /\ e = Add(Unix(token'.exp), ClockSkew)
        /\ i = Add(Unix(token'.iat), MaxAge)
    BY <1>1, <2>2
  <2>4. (Before(e) => Before(e)') /\ (Before(i) => Before(i)')
    BY <1>3
  <2> QED
    BY <2>2, <2>3, <2>4 DEF expired, tooOld
<1> QED
  BY <1>1, <1>5 DEF validateClaims, issMatches, audContainsClientId, azpMatches

\* TokenInvariant is inductive.
LEMMA TokenStep == TokenInvariant /\ [Next]_vars => TokenInvariant'
<1> SUFFICES ASSUME TokenInvariant, [Next]_vars
             PROVE  TokenInvariant'
  OBVIOUS
<1>1. CASE Verify
  BY <1>1 DEF TokenInvariant, TypeOK, Verify, validateClaims, issMatches,
      audContainsClientId, azpMatches, expired, tooOld, Before
<1>2. CASE Tick
  <2>1. TypeOK'
    BY <1>2, TokenAssumption DEF TokenInvariant, TypeOK, Tick
  <2>2. refusedBefore' => ~validateClaims
    BY <1>2 DEF TokenInvariant, Tick
  <2>3. ~validateClaims => ~validateClaims'
    BY <1>2, TickRefuses DEF TokenInvariant
  <2> QED
    BY <1>2, <2>1, <2>2, <2>3 DEF TokenInvariant, Tick
<1>3. CASE UNCHANGED vars
  BY <1>3 DEF vars, TokenInvariant, TypeOK, validateClaims, issMatches,
      audContainsClientId, azpMatches, expired, tooOld, Before
<1> QED
  BY <1>1, <1>2, <1>3 DEF Next

\* Verdicts are those of validateClaims, in every reachable state.
THEOREM TokenInvariantHolds == Spec => []TokenInvariant
<1>1. Init => TypeOK
  <2>1. 0 \in 0 .. MaxNow
    BY TokenAssumption
  <2>2. Init => now \in [sec : 0 .. MaxNow, fraction : BOOLEAN]
    BY <2>1 DEF Init
  <2>3. Init => token \in Claims /\ refusedBefore \in BOOLEAN
    BY Zenon DEF Init
  <2>4. Init => verdict \in {"none", "accepted", "refused"}
    BY DEF Init
  <2> QED
    BY <2>2, <2>3, <2>4 DEF TypeOK
<1>2. Init => TokenInvariant
  BY <1>1 DEF Init, TokenInvariant
<1> QED
  BY <1>2, TokenStep, PTL DEF Spec

\* No token is accepted outside the documented rules, at any width of the
\* integers.
THEOREM AcceptedTokensMatchRules == Spec => []AcceptedMatchesRules
<1>1. TokenInvariant => AcceptedMatchesRules
  BY ValidateMatchesRules DEF TokenInvariant, AcceptedMatchesRules
<1> QED
  BY <1>1, TokenInvariantHolds, PTL

\* A token within the rules is accepted if time.Unix can hold its times.
THEOREM ClearTokensAccepted == Spec => []ClearTokenAccepted
<1>1. TokenInvariant => ClearTokenAccepted
  BY ValidateMatchesRules DEF TokenInvariant, ClearTokenAccepted
<1> QED
  BY <1>1, TokenInvariantHolds, PTL

\* A token that was refused once is refused ever after.
THEOREM RefusedTokensStayRefused == Spec => []RefusedStaysRefused
<1>1. TokenInvariant => RefusedStaysRefused
  BY DEF TokenInvariant, RefusedStaysRefused
<1> QED
  BY <1>1, TokenInvariantHolds, PTL
=============================================================================
