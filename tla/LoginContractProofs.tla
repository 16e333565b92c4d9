------------------------- MODULE LoginContractProofs -------------------------
(***************************************************************************)
(* The flow implements LoginContract: under the refinement mapping of      *)
(* LoginFlow every step is a step of the contract or a stutter.            *)
(***************************************************************************)
EXTENDS LoginFlowProofs

\* A callback that is about to store its session: nobody else has its id or
\* its code, and the session is new.
LEMMA HSetIsFresh ==
  ASSUME FlowInvariant, NEW r \in CallbackReqs, callback[r].pc = "hset"
  PROVE  /\ callback[r].sid \in SessionIds
         /\ callback[r].code \in Codes \ SpentCodes
         /\ grants[callback[r].code] # None
         /\ callback[r].token.subject = grants[callback[r].code].subject
         /\ sessStore[callback[r].sid] = None
         /\ Life[callback[r].sid] = "new"
<1>1. /\ CallbackSound(r)
      /\ callback[r] \in CallbackRequest
      /\ CallbacksApart
  BY DEF FlowInvariant, TypeOK, CallbacksSound
<1>2. /\ callback[r].sid \in SessionIds
      /\ callback[r].token # None
      /\ callback[r].code \in Codes
      /\ grants[callback[r].code] # None
      /\ callback[r].token.subject = grants[callback[r].code].subject
  BY <1>1 DEF CallbackSound, CallbackRequest
<1>3. ASSUME NEW q \in Tried
      PROVE  /\ callback[q].sid # callback[r].sid
             /\ callback[q].code # callback[r].code
  <2>1. /\ q \in CallbackReqs /\ q # r
        /\ CallbackSound(q) /\ callback[q].sid # None
    BY <1>3 DEF Tried, FlowInvariant, CallbacksSound
  <2> QED
    BY <1>1, <1>2, <2>1 DEF CallbackSound, CallbacksApart
<1>4. sessStore[callback[r].sid] = None
  <2>1. SUFFICES ASSUME sessStore[callback[r].sid] # None
                 PROVE  FALSE
    OBVIOUS
  <2>2. PICK q \in CallbackReqs :
           callback[q].sid = callback[r].sid /\ callback[q].pc # "hset"
    BY <1>2, <2>1 DEF FlowInvariant, SessionsSound
  <2>3. callback[r].sid # None
    BY <1>2, NoneAssumption
  <2> QED
    BY <1>3, <2>2, <2>3 DEF Tried
<1> QED
  BY <1>2, <1>3, <1>4 DEF SpentCodes, Life

\* Initially every session is new and no code is spent.
LEMMA ContractInit == Init => Contract!Init
BY DEF Init, Contract!Init, Tried, ProofOf, SpentCodes, Life, Owner

\* A grant of the provider is an authentication.
LEMMA GrantAuthenticates ==
  ASSUME FlowInvariant, NEW l \in LoginReqs, NEW c \in Codes,
         NEW u \in Subjects, OpGrants(l, c, u)
  PROVE  Contract!Authenticate(c, u)
<1>1. /\ UNCHANGED <<callback, sessStore>>
      /\ grants \in [Codes -> Grant \cup {None}]
      /\ grants[c] = None
      /\ \A d \in Codes \ {c} : grants'[d] = grants[d]
      /\ grants'[c] # None /\ grants'[c].subject = u
  <2>1. login[l].nonce \in Nonces
    BY DEF FlowInvariant, TypeOK, LoginRequest, LoginsSound, OpGrants
  <2>2. [nonce |-> login[l].nonce, subject |-> u, redeemed |-> FALSE] \in Grant
    BY <2>1 DEF Grant
  <2> QED
    BY <2>2, NoneAssumption DEF OpGrants, FlowInvariant, TypeOK
<1>2. UNCHANGED <<SpentCodes, Life, Owner>>
  BY <1>1 DEF Tried, SpentCodes, Life, Owner
<1>3. ProofOf[c] = None /\ ProofOf' = [ProofOf EXCEPT ![c] = u]
  BY <1>1 DEF ProofOf
<1> QED
  BY <1>2, <1>3 DEF Contract!Authenticate

\* The end of a stored session whose callback has tried to store it closes
\* the session.
LEMMA DropCloses ==
  ASSUME FlowInvariant, NEW i \in SessionIds, sessStore[i] # None,
         sessStore' = [sessStore EXCEPT ![i] = None],
         Tried' = Tried, UNCHANGED <<ProofOf, SpentCodes>>,
         \A q \in Tried : callback'[q].sid = callback[q].sid
  PROVE  Contract!Close(i)
<1>1. sessStore \in [SessionIds -> Session \cup {None}]
  BY DEF FlowInvariant, TypeOK
<1>2. PICK q \in Tried : callback[q].sid = i
  BY NoneAssumption DEF FlowInvariant, SessionsSound, Tried
<1>3. Life[i] = "open" /\ Life' = [Life EXCEPT ![i] = "closed"]
  BY <1>1, <1>2 DEF Life
<1>4. Owner' = [Owner EXCEPT ![i] = None]
  BY <1>1 DEF Owner
<1> QED
  BY <1>3, <1>4 DEF Contract!Close

\* What a callback's step does to the sets and stores that the contract sees:
\* leaving "hset" is the first attempt to store the session; every other step
\* repeats or drops what is stored.
LEMMA CallbackAttempts ==
  ASSUME FlowInvariant, NEW r \in CallbackReqs,
         CallbackArrives(r) \/ CallbackStep(r) \/ CallbackLost(r)
  PROVE  \/ /\ callback[r].pc = "hset"
            /\ Tried' = Tried \cup {r}
            /\ callback'[r].sid = callback[r].sid
            /\ callback'[r].code = callback[r].code
            /\ \/ UNCHANGED sessStore
               \/ sessStore' = [sessStore EXCEPT
                                  ![callback[r].sid] = SessionHash(r)]
         \/ /\ Tried' = Tried
            /\ r \in Tried => /\ callback'[r].sid = callback[r].sid
                              /\ callback'[r].code = callback[r].code
            /\ \/ UNCHANGED sessStore
               \/ /\ r \in Tried
                  /\ sessStore' = [sessStore EXCEPT ![callback[r].sid] =
                                      WithTtl(@, SessionTtl)]
<1>1. /\ callback \in [CallbackReqs -> CallbackRequest]
      /\ callback[r] \in CallbackRequest
      /\ CallbackSound(r)
  BY DEF FlowInvariant, TypeOK, CallbacksSound
<1>2. \A q \in CallbackReqs : q # r => callback'[q] = callback[q]
  BY CallbackFrame
<1>3. CASE SessionSaveHSet(r)
  <2>1. /\ callback'[r] = [callback[r] EXCEPT !.pc = "expire"]
        /\ callback[r].pc = "hset"
        /\ sessStore' = [sessStore EXCEPT
                           ![callback[r].sid] = SessionHash(r)]
    BY <1>1, <1>3 DEF SessionSaveHSet
  <2>2. callback[r].sid # None
    BY <1>1, <2>1 DEF CallbackSound
  <2> QED
    BY <1>1, <1>2, <2>1, <2>2 DEF Tried, CallbackRequest
<1>4. CASE SessionSaveExpire(r) \/ CallbackReplyLost(r)
  <2>1. PICK pc \in {"redirected", "serverError"} :
           callback' = [callback EXCEPT ![r].pc = pc]
    BY <1>4 DEF SessionSaveExpire, CallbackReplyLost
  <2>2. callback[r].pc # "hset"
    BY <1>4 DEF SessionSaveExpire, CallbackReplyLost
  <2>3. /\ callback'[r].sid = callback[r].sid
        /\ callback'[r].code = callback[r].code
        /\ callback'[r].pc # "hset"
    BY <1>1, <2>1 DEF CallbackRequest
  <2>4. Tried' = Tried
    BY <1>2, <2>2, <2>3 DEF Tried
  <2>5. \/ UNCHANGED sessStore
        \/ /\ r \in Tried
           /\ sessStore' = [sessStore EXCEPT ![callback[r].sid] =
                               WithTtl(@, SessionTtl)]
    BY <1>1, <1>4 DEF SessionSaveExpire, CallbackReplyLost, CallbackSound,
                      Tried
  <2> QED
    BY <2>3, <2>4, <2>5
<1>5. CASE CallbackFails(r) \/ CallbackLost(r)
  <2>1. PICK pc \in {"serverError", "lost"} :
           callback' = [callback EXCEPT ![r].pc = pc]
    BY <1>5 DEF CallbackFails, CallbackLost
  <2>2. /\ callback'[r].sid = callback[r].sid
        /\ callback'[r].code = callback[r].code
        /\ callback'[r].pc # "hset"
    BY <1>1, <2>1 DEF CallbackRequest
  <2>3. UNCHANGED sessStore
    BY <1>5 DEF CallbackFails, CallbackLost
  <2>4. CASE callback[r].pc = "hset"
    <3>1. callback[r].sid # None
      BY <1>1, <2>4 DEF CallbackSound
    <3>2. Tried' = Tried \cup {r}
      BY <1>2, <2>2, <3>1 DEF Tried
    <3> QED
      BY <2>2, <2>3, <2>4, <3>2
  <2>5. CASE callback[r].pc # "hset"
    <3>1. Tried' = Tried
      BY <1>2, <2>2, <2>5 DEF Tried
    <3> QED
      BY <2>2, <2>3, <3>1
  <2> QED
    BY <2>4, <2>5
<1>6. CASE ~(\/ SessionSaveHSet(r) \/ SessionSaveExpire(r)
             \/ CallbackReplyLost(r) \/ CallbackFails(r) \/ CallbackLost(r))
  <2>1. /\ UNCHANGED sessStore
        /\ callback[r].pc \in {"idle", "find", "delete", "metadata",
                               "exchange", "verify"}
    BY <1>6
    DEF CallbackArrives, CallbackBadRequest, CallbackAuthorizationError,
        CallbackAccepted, CallbackStep, FindTransaction, DeleteTransaction,
        CallbackMetadata, ExchangeCode, ExchangeFails, TokenVerified,
        VerifyFails
  <2>2. callback[r].sid = None
    BY <1>1, <2>1 DEF CallbackSound
  <2>3. callback'[r].sid = None \/ callback'[r].pc = "hset"
    <3>1. CASE TokenVerified(r)
      <4>1. PICK i : callback' = [callback EXCEPT ![r] =
                                    [@ EXCEPT !.pc = "hset", !.sid = i]]
        BY <3>1 DEF TokenVerified
      <4> QED
        BY <1>1, <4>1 DEF CallbackRequest
    <3>2. CASE ~TokenVerified(r)
      BY <2>2, <3>2, CallbackFields
    <3> QED
      BY <3>1, <3>2
  <2>4. Tried' = Tried /\ r \notin Tried
    BY <1>2, <2>2, <2>3 DEF Tried
  <2> QED
    BY <2>1, <2>4
<1> QED
  BY <1>3, <1>4, <1>5, <1>6

\* A callback's step opens, abandons or closes a session, or the contract does
\* not see it.
LEMMA CallbackKeepsContract ==
  ASSUME FlowInvariant, NEW r \in CallbackReqs,
         CallbackArrives(r) \/ CallbackStep(r) \/ CallbackLost(r)
  PROVE  [Contract!Next]_Contract!vars
<1>1. /\ callback \in [CallbackReqs -> CallbackRequest]
      /\ sessStore \in [SessionIds -> Session \cup {None}]
      /\ grants \in [Codes -> Grant \cup {None}]
      /\ CallbackSound(r)
  BY DEF FlowInvariant, TypeOK, CallbacksSound
<1>2. \A q \in CallbackReqs : q # r => callback'[q] = callback[q]
  BY CallbackFrame
<1>3. UNCHANGED ProofOf
  <2>1. CASE UNCHANGED grants
    BY <2>1 DEF ProofOf
  <2>2. CASE /\ callback[r].pc = "exchange"
             /\ Redeemable(callback[r].code)
             /\ OpRedeems(callback[r].code)
    <3>1. \A c \in Codes : /\ grants'[c] = None <=> grants[c] = None
                           /\ grants[c] # None =>
                                 grants'[c].subject = grants[c].subject
      BY <1>1, <2>2, NoneAssumption DEF Redeemable, OpRedeems, Grant
    <3> QED
      BY <3>1 DEF ProofOf
  <2> QED
    BY <2>1, <2>2, CallbackFrame
<1>4. CASE /\ callback[r].pc = "hset"
           /\ Tried' = Tried \cup {r}
           /\ callback'[r].sid = callback[r].sid
           /\ callback'[r].code = callback[r].code
           /\ \/ UNCHANGED sessStore
              \/ sessStore' = [sessStore EXCEPT
                                 ![callback[r].sid] = SessionHash(r)]
  <2> DEFINE i == callback[r].sid
             c == callback[r].code
  <2>1. /\ i \in SessionIds
        /\ c \in Codes \ SpentCodes
        /\ grants[c] # None
        /\ callback[r].token.subject = grants[c].subject
        /\ sessStore[i] = None
        /\ Life[i] = "new"
    BY <1>4, HSetIsFresh
  <2>2. SpentCodes' = SpentCodes \cup {c}
    BY <1>2, <1>4 DEF SpentCodes, Tried
  <2>3. \A j \in SessionIds :
           (\E q \in Tried : callback[q].sid = j)'
              <=> j = i \/ \E q \in Tried : callback[q].sid = j
    BY <1>2, <1>4 DEF Tried
  <2>4. CASE UNCHANGED sessStore
    <3>1. Life' = [Life EXCEPT ![i] = "closed"] /\ UNCHANGED Owner
      BY <2>1, <2>3, <2>4 DEF Life, Owner
    <3>2. Contract!Abandon(i, c)
      BY <1>3, <2>1, <2>2, <3>1 DEF Contract!Abandon
    <3> QED
      BY <2>1, <3>2 DEF Contract!Next
  <2>5. CASE sessStore' = [sessStore EXCEPT ![i] = SessionHash(r)]
    <3>1. SessionHash(r) # None /\ SessionHash(r).subject = grants[c].subject
      <4>1. grants[c].subject \in Subjects
        BY <1>1, <2>1 DEF Grant
      <4>2. SessionHash(r) \in Session
        BY <2>1, <4>1 DEF SessionHash, Session
      <4> QED
        BY <2>1, <4>2, NoneAssumption DEF SessionHash
    <3>2. /\ Life' = [Life EXCEPT ![i] = "open"]
          /\ Owner' = [Owner EXCEPT ![i] = grants[c].subject]
      BY <1>1, <2>1, <2>3, <2>5, <3>1 DEF Life, Owner
    <3>3. ProofOf[c] = grants[c].subject /\ grants[c].subject # None
      BY <1>1, <2>1, NoneAssumption DEF ProofOf, Grant
    <3>4. Contract!Open(i, c)
      BY <1>3, <2>1, <2>2, <3>2, <3>3 DEF Contract!Open
    <3> QED
      BY <2>1, <3>4 DEF Contract!Next
  <2> QED
    BY <1>4, <2>4, <2>5
<1>5. CASE /\ Tried' = Tried
           /\ r \in Tried => /\ callback'[r].sid = callback[r].sid
                             /\ callback'[r].code = callback[r].code
           /\ \/ UNCHANGED sessStore
              \/ /\ r \in Tried
                 /\ sessStore' = [sessStore EXCEPT ![callback[r].sid] =
                                     WithTtl(@, SessionTtl)]
  <2>1. \A q \in Tried : /\ callback'[q].sid = callback[q].sid
                         /\ callback'[q].code = callback[q].code
    BY <1>2, <1>5 DEF Tried
  <2>2. UNCHANGED SpentCodes
    BY <1>5, <2>1 DEF SpentCodes
  <2>3. CASE UNCHANGED sessStore
    BY <1>3, <1>5, <2>1, <2>2, <2>3 DEF Contract!vars, Life, Owner
  <2>4. CASE /\ r \in Tried
             /\ sessStore' = [sessStore EXCEPT ![callback[r].sid] =
                                 WithTtl(@, SessionTtl)]
    <3> DEFINE i == callback[r].sid
    <3>1. i \in SessionIds
      BY <1>1, <2>4 DEF Tried, CallbackRequest
    <3>2. CASE sessStore'[i] = None /\ sessStore[i] # None
      <4>1. sessStore' = [sessStore EXCEPT ![i] = None]
        BY <1>1, <2>4, <3>1, <3>2
      <4>2. Contract!Close(i)
        BY <1>3, <1>5, <2>1, <2>2, <3>1, <3>2, <4>1, DropCloses
      <4> QED
        BY <3>1, <4>2 DEF Contract!Next
    <3>3. CASE ~(sessStore'[i] = None /\ sessStore[i] # None)
      <4>1. \A j \in SessionIds :
               /\ sessStore'[j] = None <=> sessStore[j] = None
               /\ sessStore[j] # None =>
                     sessStore'[j].subject = sessStore[j].subject
        BY <1>1, <2>4, <3>1, <3>3 DEF WithTtl, Session
      <4>2. UNCHANGED <<Life, Owner>>
        BY <1>5, <2>1, <4>1 DEF Life, Owner
      <4> QED
        BY <1>3, <2>2, <4>2 DEF Contract!vars
    <3> QED
      BY <3>2, <3>3
  <2> QED
    BY <1>5, <2>3, <2>4
<1> QED
  BY <1>4, <1>5, CallbackAttempts

\* Every step of the flow is a step of the contract or a stutter.
LEMMA ContractStep ==
  FlowInvariant /\ [Next]_vars => [Contract!Next]_Contract!vars
<1> SUFFICES ASSUME FlowInvariant, [Next]_vars
             PROVE  [Contract!Next]_Contract!vars
  OBVIOUS
<1>1. CASE UNCHANGED <<sessStore, grants, callback>>
  BY <1>1 DEF Contract!vars, Tried, ProofOf, SpentCodes, Life, Owner
<1>2. ASSUME NEW l \in LoginReqs,
             LoginArrives(l) \/ LoginStep(l) \/ LoginLost(l)
      PROVE  [Contract!Next]_Contract!vars
  BY <1>1, <1>2, LoginFrame
<1>3. ASSUME NEW s \in States, TransactionExpires(s)
      PROVE  [Contract!Next]_Contract!vars
  BY <1>1, <1>3 DEF TransactionExpires
<1>4. ASSUME NEW l \in LoginReqs, NEW c \in Codes, NEW u \in Subjects,
             OpGrants(l, c, u)
      PROVE  [Contract!Next]_Contract!vars
  BY <1>4, GrantAuthenticates DEF Contract!Next
<1>5. ASSUME NEW i \in SessionIds, SessionExpires(i)
      PROVE  [Contract!Next]_Contract!vars
  <2>1. UNCHANGED <<grants, callback>>
    BY <1>5 DEF SessionExpires
  <2>2. /\ Tried' = Tried
        /\ \A q \in Tried : callback'[q].sid = callback[q].sid
        /\ UNCHANGED <<ProofOf, SpentCodes>>
    BY <2>1 DEF Tried, ProofOf, SpentCodes
  <2>3. Contract!Close(i)
    BY <1>5, <2>2, DropCloses DEF SessionExpires
  <2> QED
    BY <2>3 DEF Contract!Next
<1> QED
  BY <1>1, <1>2, <1>3, <1>4, <1>5, CallbackKeepsContract DEF Next, vars

\* The flow keeps the contract: a session opens at most once, on an
\* authentication that opened no other, and never reopens.
THEOREM FlowKeepsContract == Spec => KeepsContract
BY ContractInit, ContractStep, FlowInvariantHolds, PTL
DEF Spec, KeepsContract, Contract!Spec
=============================================================================
