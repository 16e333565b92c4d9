--------------------------- MODULE LoginFlowProofs ---------------------------
(***************************************************************************)
(* FlowInvariant is inductive, and the safety properties of LoginFlow      *)
(* follow from it, for any sets of requests, states, codes and users, and  *)
(* any two TTLs.                                                           *)
(*                                                                         *)
(* The proof of the step follows the actors: for each conjunct of          *)
(* FlowInvariant there is a lemma for the steps of a /login request and    *)
(* one for those of a /callback request, then Redis and the provider.      *)
(***************************************************************************)
EXTENDS LoginFlow, FiniteSetTheorems, TLAPS

\* A step of a /login request keeps every variable in its type.
LEMMA LoginTypeOK ==
  ASSUME FlowInvariant, NEW l \in LoginReqs,
         LoginArrives(l) \/ LoginStep(l) \/ LoginLost(l)
  PROVE  TypeOK'
<1>1. /\ TypeOK
      /\ login \in [LoginReqs -> LoginRequest]
      /\ txStore \in [States -> Transaction \cup {None}]
  BY DEF FlowInvariant, TypeOK
<1>2. /\ login[l] \in LoginRequest
      /\ login[l].pc \in {"hset", "expire"} =>
            /\ login[l].state \in States
            /\ TransactionHash(l) \in Transaction
  BY ConfigAssumption, <1>1 DEF FlowInvariant, LoginsSound, LoginRequest,
      TransactionHash, Transaction
<1>3. \A t \in Transaction \cup {None} :
         WithTtl(t, TransactionTtl) \in Transaction \cup {None}
  BY DEF WithTtl, Transaction
<1>4. CASE LoginArrives(l)
  <2>1. PICK rec \in LoginRequest : login' = [login EXCEPT ![l] = rec]
    BY <1>2, <1>4 DEF LoginArrives, LoginRefused, LoginAccepted, LoginRequest,
        LoginActive, LoginEnded
  <2> QED
    BY <1>1, <1>4, <2>1
    DEF TypeOK, LoginArrives, LoginRefused, LoginAccepted
<1>5. CASE LoginPrepared(l)
  <2>1. PICK rec \in LoginRequest : login' = [login EXCEPT ![l] = rec]
    BY <1>2, <1>5 DEF LoginPrepared, LoginRequest, LoginActive
  <2> QED BY <1>1, <1>5, <2>1 DEF TypeOK, LoginPrepared
<1>6. \A pc \in LoginActive \cup LoginEnded :
         [login EXCEPT ![l].pc = pc] \in [LoginReqs -> LoginRequest]
  BY <1>1, <1>2 DEF LoginRequest
<1>7. CASE LoginSaveHSet(l)
  BY <1>1, <1>2, <1>6, <1>7 DEF TypeOK, LoginSaveHSet, LoginActive
<1>8. CASE LoginSaveExpire(l) \/ LoginReplyLost(l)
  BY <1>1, <1>2, <1>3, <1>6, <1>8 DEF TypeOK, LoginSaveExpire, LoginReplyLost,
      LoginEnded
<1>9. CASE LoginFails(l) \/ LoginLost(l)
  BY <1>1, <1>2, <1>3, <1>6, <1>9 DEF TypeOK, LoginFails, LoginLost, LoginEnded
<1> QED
  BY <1>4, <1>5, <1>7, <1>8, <1>9 DEF LoginStep

\* A step of a /callback request keeps every variable in its type.
LEMMA CallbackTypeOK ==
  ASSUME FlowInvariant, NEW r \in CallbackReqs,
         CallbackArrives(r) \/ CallbackStep(r) \/ CallbackLost(r)
  PROVE  TypeOK'
<1>1. /\ TypeOK
      /\ callback \in [CallbackReqs -> CallbackRequest]
      /\ txStore \in [States -> Transaction \cup {None}]
      /\ sessStore \in [SessionIds -> Session \cup {None}]
      /\ grants \in [Codes -> Grant \cup {None}]
  BY DEF FlowInvariant, TypeOK
<1>2. callback[r] \in CallbackRequest
  BY <1>1
<1>3. \A pc \in CallbackActive \cup CallbackEnded :
         [callback EXCEPT ![r].pc = pc] \in [CallbackReqs -> CallbackRequest]
  BY <1>1, <1>2 DEF CallbackRequest
<1>4. ASSUME NEW c \in Codes, Redeemable(c), OpRedeems(c)
      PROVE  grants' \in [Codes -> Grant \cup {None}]
  <2>1. [grants[c] EXCEPT !.redeemed = TRUE] \in Grant
    BY <1>1, <1>4 DEF Redeemable, Grant
  <2> QED
    BY <1>1, <1>4, <2>1 DEF OpRedeems
<1>5. \A i \in SessionIds :
         WithTtl(sessStore[i], SessionTtl) \in Session \cup {None}
  BY <1>1 DEF WithTtl, Session
<1>6. /\ callback[r].pc \in CallbackActive =>
            callback[r].state \in States /\ callback[r].code \in Codes
      /\ callback[r].pc \in {"hset", "expire"} =>
            callback[r].sid \in SessionIds /\ SessionHash(r) \in Session
  <2>1. callback[r].pc \in {"hset", "expire"} => callback[r].token \in IdToken
    BY <1>2 DEF FlowInvariant, CallbacksSound, CallbackSound, CallbackRequest
  <2> QED
    BY <1>2, <2>1 DEF FlowInvariant, CallbacksSound, CallbackSound,
        CallbackRequest, SessionHash, Session, IdToken
<1>7. CASE CallbackArrives(r)
  <2>1. PICK rec \in CallbackRequest : callback' = [callback EXCEPT ![r] = rec]
    <3>1. PICK s \in ShownStates \cup {None},
               c \in IssuedCodes \cup {None}, err \in BOOLEAN :
             \/ CallbackBadRequest(r, s, c, err)
             \/ CallbackAuthorizationError(r, s, c, err)
             \/ CallbackAccepted(r, s, c, err)
      BY <1>7 DEF CallbackArrives
    <3>2. s \in States \cup {None} /\ c \in Codes \cup {None}
      BY DEF ShownStates, IssuedCodes, FlowInvariant, TypeOK, LoginRequest
    <3> QED
      BY <1>2, <3>1, <3>2 DEF CallbackBadRequest, CallbackAuthorizationError,
            CallbackAccepted, CallbackRequest, CallbackActive, CallbackEnded
  <2> QED
    BY <1>1, <1>7, <2>1 DEF TypeOK, CallbackArrives, CallbackBadRequest,
        CallbackAuthorizationError, CallbackAccepted
<1>8. CASE FindTransaction(r)
  <2>1. callback[r].state \in States
    BY <1>6, <1>8 DEF FindTransaction, CallbackActive
  <2>2. callback' \in [CallbackReqs -> CallbackRequest]
    <3>1. CASE txStore[callback[r].state] = None
      BY <1>3, <1>8, <3>1 DEF FindTransaction, CallbackEnded
    <3>2. CASE txStore[callback[r].state] # None
      <4>1. PICK rec \in CallbackRequest :
               callback' = [callback EXCEPT ![r] = rec]
        BY <1>1, <1>2, <1>8, <2>1, <3>2 DEF FindTransaction, CallbackRequest,
            CallbackActive
      <4> QED BY <1>1, <4>1
    <3> QED BY <3>1, <3>2
  <2> QED
    BY <1>1, <1>8, <2>2 DEF TypeOK, FindTransaction
<1>9. CASE ExchangeCode(r)
  <2>1. callback[r].code \in Codes
    BY <1>6, <1>9 DEF ExchangeCode, CallbackActive
  <2>2. PICK rec \in CallbackRequest : callback' = [callback EXCEPT ![r] = rec]
    BY <1>1, <1>2, <1>9, <2>1 DEF ExchangeCode, Redeemable, CallbackRequest,
        CallbackActive, IdToken, Grant
  <2> QED
    BY <1>1, <1>4, <1>9, <2>1, <2>2 DEF TypeOK, ExchangeCode
<1>10. CASE ExchangeFails(r)
  <2>1. callback[r].code \in Codes
    BY <1>6, <1>10 DEF ExchangeFails, CallbackActive
  <2> QED
    BY <1>1, <1>3, <1>4, <1>10, <2>1 DEF TypeOK, ExchangeFails, CallbackEnded
<1>11. CASE TokenVerified(r)
  <2>1. PICK rec \in CallbackRequest : callback' = [callback EXCEPT ![r] = rec]
    BY <1>2, <1>11 DEF TokenVerified, CallbackRequest, CallbackActive
  <2> QED
    BY <1>1, <1>11, <2>1 DEF TypeOK, TokenVerified
<1>12. CASE SessionSaveHSet(r)
  BY <1>1, <1>3, <1>6, <1>12 DEF TypeOK, SessionSaveHSet, CallbackActive
<1>13. CASE SessionSaveExpire(r)
  BY <1>1, <1>3, <1>5, <1>6, <1>13 DEF TypeOK, SessionSaveExpire, CallbackEnded
<1>14. CASE CallbackReplyLost(r)
  BY <1>1, <1>3, <1>5, <1>6, <1>14 DEF TypeOK, CallbackReplyLost, CallbackEnded
<1>15. CASE DeleteTransaction(r)
  BY <1>1, <1>3, <1>15 DEF TypeOK, DeleteTransaction, CallbackActive
<1>16. CASE \/ CallbackMetadata(r) \/ VerifyFails(r)
            \/ CallbackFails(r) \/ CallbackLost(r)
  BY <1>1, <1>3, <1>16 DEF TypeOK, CallbackMetadata, VerifyFails,
      CallbackFails, CallbackLost, CallbackActive, CallbackEnded
<1> QED
  BY <1>7, <1>8, <1>9, <1>10, <1>11, <1>12, <1>13, <1>14, <1>15, <1>16
  DEF CallbackStep

\* A /login request writes no session, no grant and no callback.
LEMMA LoginFrame ==
  ASSUME NEW l \in LoginReqs,
         LoginArrives(l) \/ LoginStep(l) \/ LoginLost(l)
  PROVE  UNCHANGED <<sessStore, grants, callback>>
BY DEF LoginArrives, LoginRefused, LoginAccepted, LoginStep, LoginPrepared,
       LoginSaveHSet, LoginSaveExpire, LoginFails, LoginReplyLost, LoginLost

\* A /login request takes back neither what logins wrote into transactions nor
\* the states they have shown to a browser.
LEMMA LoginKeepsHistory ==
  ASSUME FlowInvariant, NEW l \in LoginReqs,
         LoginArrives(l) \/ LoginStep(l) \/ LoginLost(l)
  PROVE  /\ \A s \in States : \A t : MadeByLogin(s, t) => MadeByLogin(s, t)'
         /\ \A m \in LoginReqs : login[m].pc = "redirected" =>
               /\ login'[m].pc = "redirected"
               /\ login'[m].state = login[m].state
<1>1. /\ login \in [LoginReqs -> LoginRequest]
      /\ None \notin States
  BY NoneAssumption DEF FlowInvariant, TypeOK
<1>2. \/ login'[l] = login[l]
      \/ /\ login[l].state = None
         /\ login[l].pc # "redirected"
      \/ /\ login[l].pc # "redirected"
         /\ login'[l].state = login[l].state
         /\ login'[l].nonce = login[l].nonce
         /\ login'[l].returnTo = login[l].returnTo
         /\ login'[l].idp = login[l].idp
  <2>0. login[l] \in LoginRequest
    BY <1>1
  <2>1. CASE LoginArrives(l) \/ LoginPrepared(l)
    BY <2>0, <2>1 DEF FlowInvariant, LoginsSound, LoginArrives,
                      LoginRefused, LoginAccepted, LoginPrepared
  <2>2. CASE \/ LoginSaveHSet(l) \/ LoginSaveExpire(l) \/ LoginFails(l)
             \/ LoginReplyLost(l) \/ LoginLost(l)
    BY <1>1, <2>0, <2>2 DEF LoginRequest, LoginActive, LoginSaveHSet,
        LoginSaveExpire, LoginFails,
                      LoginReplyLost, LoginLost
  <2> QED
    BY <2>1, <2>2 DEF LoginStep
<1>3. \A m \in LoginReqs : m # l => login'[m] = login[m]
  BY <1>1 DEF LoginArrives, LoginRefused,
      LoginAccepted, LoginStep, LoginPrepared, LoginSaveHSet,
      LoginSaveExpire, LoginFails, LoginReplyLost, LoginLost
<1> QED
  BY <1>1, <1>2, <1>3 DEF MadeByLogin

\* A /callback request changes no login.
LEMMA CallbackKeepsLogins ==
  ASSUME NEW r \in CallbackReqs,
         CallbackArrives(r) \/ CallbackStep(r) \/ CallbackLost(r)
  PROVE  UNCHANGED login
BY DEF CallbackArrives, CallbackBadRequest, CallbackAuthorizationError,
       CallbackAccepted, CallbackStep, FindTransaction, DeleteTransaction,
       CallbackMetadata, ExchangeCode, ExchangeFails, TokenVerified,
       VerifyFails, SessionSaveHSet, SessionSaveExpire, CallbackFails,
       CallbackReplyLost, CallbackLost

\* A /callback request at most deletes the transaction of its own state.
LEMMA CallbackTransactions ==
  ASSUME NEW r \in CallbackReqs,
         CallbackArrives(r) \/ CallbackStep(r) \/ CallbackLost(r)
  PROVE  \/ UNCHANGED txStore
         \/ txStore' = [txStore EXCEPT ![callback[r].state] = None]
BY DEF CallbackArrives, CallbackBadRequest, CallbackAuthorizationError,
       CallbackAccepted, CallbackStep, FindTransaction, DeleteTransaction,
       CallbackMetadata, ExchangeCode, ExchangeFails, TokenVerified,
       VerifyFails, SessionSaveHSet, SessionSaveExpire, CallbackFails,
       CallbackReplyLost, CallbackLost

\* A step of a /login request keeps the logins sound: states and nonces are
\* fresh, and a redirect comes after the EXPIRE of its transaction.
LEMMA LoginLoginsSound ==
  ASSUME FlowInvariant, NEW l \in LoginReqs,
         LoginArrives(l) \/ LoginStep(l) \/ LoginLost(l)
  PROVE  LoginsSound'
<1> USE NoneAssumption, ConfigAssumption
    DEF FlowInvariant, TypeOK, LoginsSound, LoginRequest, Transaction
<1>1. CASE LoginArrives(l)
  <2>1. login[l].pc = "idle"
    BY <1>1 DEF LoginArrives, LoginRefused, LoginAccepted
  <2>2. PICK idp \in Idps, returnTo \in ReturnTos :
           LoginRefused(l, idp, returnTo) \/ LoginAccepted(l, idp, returnTo)
    BY <1>1 DEF LoginArrives
  <2>3. CASE LoginRefused(l, idp, returnTo)
    BY <2>1, <2>3 DEF LoginRefused
  <2>4. CASE LoginAccepted(l, idp, returnTo)
    BY <2>1, <2>4 DEF LoginAccepted, ValidReturnTo
  <2> QED
    BY <2>2, <2>3, <2>4
<1>2. CASE LoginPrepared(l)
  BY <1>2 DEF LoginPrepared, UsedStates, UsedNonces
<1>3. CASE LoginSaveHSet(l)
  BY <1>3 DEF LoginSaveHSet
<1>4. CASE LoginSaveExpire(l)
  BY <1>4 DEF LoginSaveExpire, WithTtl
<1>5. CASE LoginFails(l)
  BY <1>5 DEF LoginFails, LoginActive
<1>6. CASE LoginReplyLost(l)
  BY <1>6 DEF LoginReplyLost, WithTtl
<1>7. CASE LoginLost(l)
  BY <1>7 DEF LoginLost, LoginActive
<1> QED
  BY <1>1, <1>2, <1>3, <1>4, <1>5, <1>6, <1>7 DEF LoginStep

\* A step of a /callback request keeps the logins sound.
LEMMA CallbackLoginsSound ==
  ASSUME FlowInvariant, NEW r \in CallbackReqs,
         CallbackArrives(r) \/ CallbackStep(r) \/ CallbackLost(r)
  PROVE  LoginsSound'
<1>1. UNCHANGED login
  BY CallbackKeepsLogins
<1>2. \/ UNCHANGED txStore
      \/ txStore' = [txStore EXCEPT ![callback[r].state] = None]
  BY CallbackTransactions
<1> QED
  BY <1>1, <1>2 DEF FlowInvariant, TypeOK, LoginsSound, LoginRequest

\* Save of the transaction repository stores what its own login generated.
LEMMA LoginTransactionsSound ==
  ASSUME FlowInvariant, NEW l \in LoginReqs,
         LoginArrives(l) \/ LoginStep(l) \/ LoginLost(l)
  PROVE  TransactionsSound'
<1>1. /\ TransactionsSound
      /\ txStore \in [States -> Transaction \cup {None}]
      /\ login \in [LoginReqs -> LoginRequest]
  BY DEF FlowInvariant, TypeOK
<1>2. \A s \in States : \A t : MadeByLogin(s, t) => MadeByLogin(s, t)'
  BY LoginKeepsHistory
<1>3. CASE LoginSaveHSet(l)
  <2>1. \A s \in States \ {login[l].state} : txStore'[s] = txStore[s]
    BY <1>1, <1>3 DEF LoginSaveHSet
  <2>2. ASSUME login[l].state \in States
        PROVE  MadeByLogin(login[l].state, txStore[login[l].state])'
    BY <1>1, <1>3, <2>2
    DEF LoginSaveHSet, MadeByLogin, TransactionHash, LoginRequest
  <2>3. login'[l].state = login[l].state
    BY <1>1, <1>3 DEF LoginSaveHSet, LoginRequest
  <2> QED
    BY <1>1, <1>2, <2>1, <2>2, <2>3 DEF TransactionsSound
<1>4. CASE LoginSaveExpire(l) \/ LoginReplyLost(l)
  <2>1. \A s \in States : txStore'[s] # None =>
           /\ txStore[s] # None
           /\ txStore'[s].nonce = txStore[s].nonce
           /\ txStore'[s].returnTo = txStore[s].returnTo
           /\ txStore'[s].idp = txStore[s].idp
    BY <1>1, <1>4 DEF LoginSaveExpire, LoginReplyLost, WithTtl, Transaction
  <2>2. ASSUME NEW s \in States, NEW t, t = txStore[s], t # None
        PROVE  MadeByLogin(s, t)'
    BY <1>1, <1>2, <2>2 DEF TransactionsSound
  <2> QED
    BY <2>1, <2>2 DEF TransactionsSound, MadeByLogin
<1>5. CASE ~(LoginSaveHSet(l) \/ LoginSaveExpire(l) \/ LoginReplyLost(l))
  <2>1. UNCHANGED txStore
    BY <1>5 DEF LoginArrives, LoginRefused, LoginAccepted, LoginStep,
        LoginPrepared, LoginFails, LoginLost
  <2> QED
    BY <1>1, <1>2, <2>1 DEF TransactionsSound
<1> QED
  BY <1>3, <1>4, <1>5

\* A step of a /callback request writes no transaction.
LEMMA CallbackTransactionsSound ==
  ASSUME FlowInvariant, NEW r \in CallbackReqs,
         CallbackArrives(r) \/ CallbackStep(r) \/ CallbackLost(r)
  PROVE  TransactionsSound'
<1>1. UNCHANGED login
  BY CallbackKeepsLogins
<1>2. \/ UNCHANGED txStore
      \/ txStore' = [txStore EXCEPT ![callback[r].state] = None]
  BY CallbackTransactions
<1> QED
  BY <1>1, <1>2 DEF FlowInvariant, TypeOK, TransactionsSound, MadeByLogin

\* A step of a /login request invalidates nothing that a callback holds.
LEMMA LoginCallbacksSound ==
  ASSUME FlowInvariant, NEW l \in LoginReqs,
         LoginArrives(l) \/ LoginStep(l) \/ LoginLost(l)
  PROVE  CallbacksSound'
<1>1. UNCHANGED <<grants, callback>>
  BY LoginFrame
<1>2. /\ CallbacksSound
      /\ callback \in [CallbackReqs -> CallbackRequest]
  BY DEF FlowInvariant, TypeOK
<1>3. /\ \A s \in States : \A t : MadeByLogin(s, t) => MadeByLogin(s, t)'
      /\ \A m \in LoginReqs : login[m].pc = "redirected" =>
            /\ login'[m].pc = "redirected"
            /\ login'[m].state = login[m].state
  BY LoginKeepsHistory
<1> SUFFICES ASSUME NEW r \in CallbackReqs
             PROVE  CallbackSound(r)'
  BY DEF CallbacksSound
<1>4. CallbackSound(r) /\ callback[r] \in CallbackRequest
  BY <1>2 DEF CallbacksSound
<1>5. callback[r].state # None => ShownState(callback[r].state)'
  BY <1>1, <1>3, <1>4 DEF CallbackSound, ShownState
<1>6. callback[r].tx # None => MadeByLogin(callback[r].state, callback[r].tx)'
  BY <1>1, <1>3, <1>4 DEF CallbackSound, CallbackRequest
<1> QED
  BY <1>1, <1>4, <1>5, <1>6 DEF CallbackSound

\* A callback changes its own record only, and of the codes at most its own,
\* at the token endpoint.
LEMMA CallbackFrame ==
  ASSUME FlowInvariant, NEW r \in CallbackReqs,
         CallbackArrives(r) \/ CallbackStep(r) \/ CallbackLost(r)
  PROVE  /\ \A q \in CallbackReqs : q # r => callback'[q] = callback[q]
         /\ \/ UNCHANGED grants
            \/ /\ callback[r].pc = "exchange"
               /\ Redeemable(callback[r].code)
               /\ OpRedeems(callback[r].code)
<1>1. callback \in [CallbackReqs -> CallbackRequest]
  BY DEF FlowInvariant, TypeOK
<1> QED
  BY <1>1
  DEF CallbackArrives, CallbackBadRequest, CallbackAuthorizationError,
      CallbackAccepted, CallbackStep, FindTransaction, DeleteTransaction,
      CallbackMetadata, ExchangeCode, ExchangeFails, TokenVerified,
      VerifyFails, SessionSaveHSet, SessionSaveExpire, CallbackFails,
      CallbackReplyLost, CallbackLost

\* After its own step a callback holds a shown state, that state's transaction
\* and the token of a code that it redeemed itself.
LEMMA OwnCallbackSound ==
  ASSUME FlowInvariant, NEW r \in CallbackReqs,
         CallbackArrives(r) \/ CallbackStep(r) \/ CallbackLost(r)
  PROVE  CallbackSound(r)'
<1>1. /\ callback \in [CallbackReqs -> CallbackRequest]
      /\ grants \in [Codes -> Grant \cup {None}]
      /\ txStore \in [States -> Transaction \cup {None}]
      /\ callback[r] \in CallbackRequest
      /\ CallbackSound(r)
  BY DEF FlowInvariant, TypeOK, CallbacksSound
<1>2. UNCHANGED login
  BY CallbackKeepsLogins
<1>3. /\ \A s : ShownState(s) => ShownState(s)'
      /\ \A s, t : MadeByLogin(s, t) => MadeByLogin(s, t)'
  BY <1>2 DEF ShownState, MadeByLogin
<1> USE <1>1, <1>2, <1>3 DEF CallbackSound, CallbackRequest
<1>4. CASE CallbackArrives(r)
  <2>1. PICK s \in ShownStates \cup {None},
             c \in IssuedCodes \cup {None}, err \in BOOLEAN :
           \/ CallbackBadRequest(r, s, c, err)
           \/ CallbackAuthorizationError(r, s, c, err)
           \/ CallbackAccepted(r, s, c, err)
    BY <1>4 DEF CallbackArrives
  <2>2. s # None => ShownState(s)
    BY DEF ShownStates, ShownState
  <2>3. CASE CallbackBadRequest(r, s, c, err)
    BY <2>2, <2>3 DEF CallbackBadRequest, CallbackActive
  <2>4. CASE CallbackAuthorizationError(r, s, c, err)
    BY <2>2, <2>4 DEF CallbackAuthorizationError, CallbackActive
  <2>5. CASE CallbackAccepted(r, s, c, err)
    BY <2>2, <2>5 DEF CallbackAccepted, CallbackActive
  <2> QED
    BY <2>1, <2>3, <2>4, <2>5
<1>5. CASE FindTransaction(r)
  <2>1. callback[r].state \in States
    BY <1>5 DEF FindTransaction, CallbackActive
  <2>2. PICK s \in States, t \in Transaction \cup {None} :
           s = callback[r].state /\ t = txStore[s]
    BY <2>1
  <2>3. CASE t = None
    BY <1>5, <2>2, <2>3 DEF FindTransaction, CallbackActive
  <2>4. CASE t # None
    <3>1. callback' = [callback EXCEPT ![r] =
                         [@ EXCEPT !.pc = "delete", !.tx = t]]
      BY <1>5, <2>2, <2>4 DEF FindTransaction
    <3>2. MadeByLogin(s, t)'
      BY <2>2, <2>4, <1>3 DEF FlowInvariant, TransactionsSound
    <3>3. callback'[r] = [callback[r] EXCEPT !.pc = "delete", !.tx = t]
      BY <3>1
    <3>4. /\ callback[r].token = None
          /\ callback[r].sid = None
          /\ callback[r].code # None
          /\ ShownState(s)'
      BY <1>5, <2>2 DEF FindTransaction, CallbackActive
    <3> QED
      BY <2>2, <2>4, <3>2, <3>3, <3>4, NoneAssumption DEF CallbackActive
  <2> QED
    BY <2>3, <2>4
<1>6. CASE ExchangeCode(r)
  <2>1. callback[r].code \in Codes /\ callback[r].state \in States
    BY <1>6 DEF ExchangeCode, CallbackActive
  <2>2. PICK g \in Grant, s \in States, t \in Transaction :
           /\ g = grants[callback[r].code]
           /\ s = callback[r].state
           /\ t = callback[r].tx
    BY <1>6, <2>1 DEF ExchangeCode, Redeemable
  <2>3. callback'[r] = [callback[r] EXCEPT
           !.pc = "verify",
           !.token = [nonce |-> g.nonce, subject |-> g.subject]]
    BY <1>6, <2>2 DEF ExchangeCode
  <2>4. /\ grants'[callback[r].code].redeemed
        /\ grants'[callback[r].code].nonce = g.nonce
        /\ grants'[callback[r].code].subject = g.subject
        /\ grants'[callback[r].code] # None
    BY <1>6, <2>1, <2>2, NoneAssumption DEF ExchangeCode, OpRedeems, Grant
  <2>5. [nonce |-> g.nonce, subject |-> g.subject] \in IdToken
    BY <2>2 DEF Grant, IdToken
  <2>6. /\ callback[r].sid = None
        /\ ShownState(s)'
        /\ MadeByLogin(s, t)'
    BY <1>6, <2>2, NoneAssumption DEF ExchangeCode, CallbackActive
  <2> QED
    BY <2>1, <2>2, <2>3, <2>4, <2>5, <2>6, NoneAssumption DEF CallbackActive
<1>7. CASE ExchangeFails(r)
  BY <1>7 DEF ExchangeFails, CallbackActive
<1>8. CASE TokenVerified(r)
  BY <1>8, NoneAssumption DEF TokenVerified, CallbackActive
<1>9. CASE DeleteTransaction(r) \/ CallbackMetadata(r)
  BY <1>9 DEF DeleteTransaction, CallbackMetadata, CallbackActive
<1>10. CASE VerifyFails(r) \/ SessionSaveHSet(r) \/ SessionSaveExpire(r)
  BY <1>10 DEF VerifyFails, SessionSaveHSet, SessionSaveExpire, CallbackActive
<1>11. CASE CallbackFails(r) \/ CallbackReplyLost(r) \/ CallbackLost(r)
  BY <1>11 DEF CallbackFails, CallbackReplyLost, CallbackLost, CallbackActive
<1> QED
  BY <1>4, <1>5, <1>6, <1>7, <1>8, <1>9, <1>10, <1>11 DEF CallbackStep

\* A callback's step invalidates nothing that another callback holds: a
\* redeemed code is redeemed once.
LEMMA CallbackCallbacksSound ==
  ASSUME FlowInvariant, NEW r \in CallbackReqs,
         CallbackArrives(r) \/ CallbackStep(r) \/ CallbackLost(r)
  PROVE  CallbacksSound'
<1>1. CallbackSound(r)'
  BY OwnCallbackSound
<1>2. ASSUME NEW q \in CallbackReqs, q # r
      PROVE  CallbackSound(q)'
  <2>1. /\ callback'[q] = callback[q]
        /\ callback[q] \in CallbackRequest
        /\ CallbackSound(q)
    BY <1>2, CallbackFrame DEF FlowInvariant, TypeOK, CallbacksSound
  <2>2. UNCHANGED login
    BY CallbackKeepsLogins
  <2>3. ASSUME NEW c \in Codes, grants[c] # None, grants[c].redeemed
        PROVE  grants'[c] = grants[c]
    BY <2>3, CallbackFrame DEF FlowInvariant, TypeOK, Redeemable, OpRedeems
  <2>4. callback[q].token # None =>
           grants'[callback[q].code] = grants[callback[q].code]
    BY <2>1, <2>3 DEF CallbackSound, CallbackRequest
  <2> QED
    BY <2>1, <2>2, <2>4 DEF CallbackSound, ShownState, MadeByLogin
<1> QED
  BY <1>1, <1>2 DEF CallbacksSound

\* Which fields of its record a callback's step may change.
LEMMA CallbackFields ==
  ASSUME FlowInvariant, NEW r \in CallbackReqs,
         CallbackArrives(r) \/ CallbackStep(r) \/ CallbackLost(r)
  PROVE  /\ \/ callback[r].pc = "idle"
            \/ /\ callback'[r].state = callback[r].state
               /\ callback'[r].code = callback[r].code
         /\ ExchangeCode(r) \/ callback'[r].token = callback[r].token
         /\ TokenVerified(r) \/ callback'[r].sid = callback[r].sid
<1>1. /\ callback[r] \in CallbackRequest
      /\ callback \in [CallbackReqs -> CallbackRequest]
  BY DEF FlowInvariant, TypeOK
<1>2. CASE CallbackArrives(r)
  <2>1. PICK s, c, pc :
           /\ callback[r].pc = "idle"
           /\ callback' = [callback EXCEPT ![r] =
                             [@ EXCEPT !.pc = pc, !.state = s, !.code = c]]
    BY <1>2 DEF CallbackArrives, CallbackBadRequest,
                CallbackAuthorizationError, CallbackAccepted
  <2> QED
    BY <1>1, <2>1 DEF CallbackRequest, ExchangeCode
<1>3. CASE FindTransaction(r)
  <2>1. /\ callback'[r].state = callback[r].state
        /\ callback'[r].code = callback[r].code
        /\ callback'[r].token = callback[r].token
        /\ callback'[r].sid = callback[r].sid
    <3>1. CASE callback' = [callback EXCEPT ![r].pc = "stateMismatch"]
      BY <1>1, <3>1 DEF CallbackRequest
    <3>2. CASE callback' = [callback EXCEPT ![r] =
                              [@ EXCEPT !.pc = "delete",
                                        !.tx = txStore[callback[r].state]]]
      BY <1>1, <3>2 DEF CallbackRequest
    <3> QED
      BY <1>3, <3>1, <3>2 DEF FindTransaction
  <2> QED
    BY <2>1
<1>4. CASE ExchangeCode(r)
  BY <1>1, <1>4 DEF ExchangeCode, CallbackRequest
<1>5. CASE TokenVerified(r)
  <2>1. PICK i : callback' = [callback EXCEPT ![r] =
                                [@ EXCEPT !.pc = "hset", !.sid = i]]
    BY <1>5 DEF TokenVerified
  <2> QED
    BY <1>1, <1>5, <2>1 DEF CallbackRequest
<1>6. CASE \/ DeleteTransaction(r) \/ CallbackMetadata(r) \/ ExchangeFails(r)
           \/ VerifyFails(r) \/ SessionSaveHSet(r) \/ SessionSaveExpire(r)
           \/ CallbackFails(r) \/ CallbackReplyLost(r) \/ CallbackLost(r)
  <2>1. PICK pc : callback' = [callback EXCEPT ![r].pc = pc]
    BY <1>6 DEF DeleteTransaction, CallbackMetadata, ExchangeFails,
                VerifyFails, SessionSaveHSet, SessionSaveExpire,
                CallbackFails, CallbackReplyLost, CallbackLost
  <2> QED
    BY <1>1, <2>1 DEF CallbackRequest
<1> QED
  BY <1>2, <1>3, <1>4, <1>5, <1>6 DEF CallbackStep

\* No login writes the transaction of a state that a callback has spent.
LEMMA LoginCallbacksApart ==
  ASSUME FlowInvariant, NEW l \in LoginReqs,
         LoginArrives(l) \/ LoginStep(l) \/ LoginLost(l)
  PROVE  CallbacksApart'
<1>1. UNCHANGED callback
  BY LoginFrame
<1>2. ASSUME NEW r \in CallbackReqs, Spent(r)
      PROVE  txStore'[callback[r].state] = None
  <2>1. /\ callback[r].state \in States
        /\ txStore[callback[r].state] = None
        /\ ShownState(callback[r].state)
    BY <1>2 DEF FlowInvariant, TypeOK, CallbackRequest, CallbacksSound,
                CallbackSound, CallbacksApart, Spent, CallbackActive
  <2>2. CASE LoginSaveHSet(l)
    <3>1. login[l].state # callback[r].state
      BY <2>1, <2>2 DEF LoginSaveHSet, ShownState, FlowInvariant, LoginsSound
    <3> QED
      BY <2>1, <2>2, <3>1 DEF LoginSaveHSet, FlowInvariant, TypeOK
  <2>3. CASE LoginSaveExpire(l) \/ LoginReplyLost(l)
    BY <2>1, <2>3 DEF LoginSaveExpire, LoginReplyLost, WithTtl,
                      FlowInvariant, TypeOK
  <2>4. CASE ~(LoginSaveHSet(l) \/ LoginSaveExpire(l) \/ LoginReplyLost(l))
    BY <2>1, <2>4 DEF LoginArrives, LoginRefused, LoginAccepted, LoginStep,
                      LoginPrepared, LoginFails, LoginLost
  <2> QED
    BY <2>2, <2>3, <2>4
<1> QED
  BY <1>1, <1>2 DEF FlowInvariant, CallbacksApart, Spent

\* A callback's step gives it a session id and a code of its own, and spends a
\* state only with its transaction gone.
LEMMA CallbackCallbacksApart ==
  ASSUME FlowInvariant, NEW r \in CallbackReqs,
         CallbackArrives(r) \/ CallbackStep(r) \/ CallbackLost(r)
  PROVE  CallbacksApart'
<1>1. /\ callback \in [CallbackReqs -> CallbackRequest]
      /\ callback[r] \in CallbackRequest
      /\ txStore \in [States -> Transaction \cup {None}]
      /\ CallbackSound(r)
      /\ CallbacksApart
  BY DEF FlowInvariant, TypeOK, CallbacksSound
<1>2. \A q \in CallbackReqs : q # r => callback'[q] = callback[q]
  BY CallbackFrame
<1>3. \/ callback'[r].sid = callback[r].sid
      \/ \A q \in CallbackReqs : callback'[r].sid # callback[q].sid
  <2>1. CASE TokenVerified(r)
    BY <1>1, <2>1 DEF TokenVerified, UsedSessionIds, CallbackRequest
  <2> QED
    BY <2>1, CallbackFields
<1>4. \/ callback'[r].token = None
      \/ /\ callback'[r].token = callback[r].token
         /\ callback'[r].code = callback[r].code
      \/ /\ Redeemable(callback[r].code)
         /\ callback'[r].code = callback[r].code
  <2>1. CASE ExchangeCode(r)
    BY <1>1, <2>1, CallbackFields DEF ExchangeCode
  <2>2. callback[r].pc = "idle" => callback[r].token = None
    BY <1>1 DEF CallbackSound
  <2> QED
    BY <2>1, <2>2, CallbackFields DEF ExchangeCode
<1>5. ASSUME NEW q \in CallbackReqs, q # r, callback'[q].token # None,
             callback'[r].token # None
      PROVE  callback'[q].code # callback'[r].code
  <2>1. /\ callback[q].token # None
        /\ grants[callback[q].code].redeemed
    BY <1>2, <1>5 DEF FlowInvariant, CallbacksSound, CallbackSound
  <2> QED
    BY <1>1, <1>2, <1>4, <1>5, <2>1 DEF CallbacksApart, Redeemable
<1>6. /\ \/ UNCHANGED txStore
         \/ txStore' = [txStore EXCEPT ![callback[r].state] = None]
      /\ Spent(r)' => \/ Spent(r) /\ callback'[r].state = callback[r].state
                      \/ /\ callback'[r].state = callback[r].state
                         /\ callback[r].state \in States
                         /\ txStore'[callback[r].state] = None
  <2> USE <1>1 DEF CallbackRequest, CallbackSound, CallbackActive, Spent
  <2>1. CASE CallbackArrives(r)
    <3>1. PICK s, c, err : \/ CallbackBadRequest(r, s, c, err)
                           \/ CallbackAuthorizationError(r, s, c, err)
                           \/ CallbackAccepted(r, s, c, err)
      BY <2>1 DEF CallbackArrives
    <3>2. UNCHANGED txStore
      BY <3>1 DEF CallbackBadRequest, CallbackAuthorizationError,
                  CallbackAccepted
    <3>3. PICK pc \in {"badRequest", "authorizationError", "find"} :
             callback' = [callback EXCEPT ![r] =
                            [@ EXCEPT !.pc = pc, !.state = s, !.code = c]]
      <4> HIDE DEF CallbackRequest, CallbackSound
      <4> QED
        BY <3>1 DEF CallbackBadRequest, CallbackAuthorizationError,
                    CallbackAccepted
    <3> QED
      BY <3>2, <3>3
  <2>2. CASE FindTransaction(r)
    <3>1. UNCHANGED txStore /\ callback'[r].pc \in {"delete", "stateMismatch"}
      BY <2>2 DEF FindTransaction
    <3> QED
      BY <3>1
  <2>3. CASE DeleteTransaction(r)
    BY <2>3 DEF DeleteTransaction
  <2>4. CASE ExchangeCode(r) \/ TokenVerified(r)
    <3>1. UNCHANGED txStore /\ Spent(r)
      BY <2>4 DEF ExchangeCode, TokenVerified
    <3>2. callback[r].pc # "idle"
      BY <2>4 DEF ExchangeCode, TokenVerified
    <3> QED
      BY <3>1, <3>2, CallbackFields
  <2>5. CASE \/ CallbackMetadata(r) \/ ExchangeFails(r) \/ VerifyFails(r)
             \/ SessionSaveHSet(r) \/ SessionSaveExpire(r)
    BY <2>5 DEF CallbackMetadata, ExchangeFails, VerifyFails,
                SessionSaveHSet, SessionSaveExpire
  <2>6. CASE CallbackFails(r) \/ CallbackReplyLost(r) \/ CallbackLost(r)
    BY <2>6 DEF CallbackFails, CallbackReplyLost, CallbackLost
  <2> QED
    BY <2>1, <2>2, <2>3, <2>4, <2>5, <2>6 DEF CallbackStep
<1>7. \A s \in States : txStore[s] = None => txStore'[s] = None
  BY <1>1, <1>6
<1>8. \A q \in CallbackReqs : Spent(q) => callback[q].state \in States
  BY DEF FlowInvariant, TypeOK, CallbackRequest, CallbacksSound, CallbackSound,
      Spent, CallbackActive
<1> QED
  BY <1>1, <1>2, <1>3, <1>5, <1>6, <1>7, <1>8 DEF CallbacksApart, Spent

\* A step of a /login request touches no session.
LEMMA LoginSessionsSound ==
  ASSUME FlowInvariant, NEW l \in LoginReqs,
         LoginArrives(l) \/ LoginStep(l) \/ LoginLost(l)
  PROVE  SessionsSound'
<1>1. UNCHANGED <<callback, sessStore>>
  BY LoginFrame
<1> QED
  BY <1>1 DEF FlowInvariant, SessionsSound

\* What backs session i, when it holds data x.
Backed(i, x) ==
    \E r \in CallbackReqs : /\ callback[r].sid = i
                            /\ callback[r].pc # "hset"
                            /\ callback[r].token.subject = x.subject

\* A callback's step stores the subject of its own token, and redirects only
\* after the EXPIRE of its session.
LEMMA CallbackSessionsSound ==
  ASSUME FlowInvariant, NEW r \in CallbackReqs,
         CallbackArrives(r) \/ CallbackStep(r) \/ CallbackLost(r)
  PROVE  SessionsSound'
<1>1. /\ callback \in [CallbackReqs -> CallbackRequest]
      /\ callback[r] \in CallbackRequest
      /\ sessStore \in [SessionIds -> Session \cup {None}]
      /\ None \notin SessionIds
      /\ CallbackSound(r)
      /\ CallbacksApart
      /\ SessionsSound
  BY NoneAssumption DEF FlowInvariant, TypeOK, CallbacksSound
<1>2. \A q \in CallbackReqs : q # r => callback'[q] = callback[q]
  BY CallbackFrame
<1>3. callback[r].sid # None /\ callback[r].pc # "hset" =>
         /\ callback'[r].sid = callback[r].sid
         /\ callback'[r].token = callback[r].token
         /\ callback'[r].pc # "hset"
  <2>1. \/ callback[r].pc \notin
             {"idle", "find", "delete", "metadata", "exchange", "verify"}
        \/ callback[r].sid = None
    BY <1>1 DEF CallbackSound
  <2>2. CASE \/ SessionSaveExpire(r)
             \/ CallbackFails(r) \/ CallbackReplyLost(r) \/ CallbackLost(r)
    BY <1>1, <2>2 DEF SessionSaveExpire, CallbackFails, CallbackReplyLost,
                      CallbackLost, CallbackRequest
  <2>3. CASE ~(\/ SessionSaveExpire(r)
               \/ CallbackFails(r) \/ CallbackReplyLost(r) \/ CallbackLost(r))
    BY <2>1, <2>3
    DEF CallbackArrives, CallbackBadRequest, CallbackAuthorizationError,
        CallbackAccepted, CallbackStep, FindTransaction, DeleteTransaction,
        CallbackMetadata, ExchangeCode, ExchangeFails, TokenVerified,
        VerifyFails, SessionSaveHSet
  <2> QED
    BY <2>2, <2>3
<1>4. \A i \in SessionIds : \A x : Backed(i, x) => Backed(i, x)'
  <2> SUFFICES ASSUME NEW i \in SessionIds, NEW x, Backed(i, x)
               PROVE  Backed(i, x)'
    OBVIOUS
  <2>1. PICK q \in CallbackReqs : /\ callback[q].sid = i
                                  /\ callback[q].pc # "hset"
                                  /\ callback[q].token.subject = x.subject
    BY DEF Backed
  <2>2. /\ callback'[q].sid = i
        /\ callback'[q].pc # "hset"
        /\ callback'[q].token.subject = x.subject
    BY <1>1, <1>2, <1>3, <2>1
  <2> QED
    BY <2>2 DEF Backed
<1>5. CASE SessionSaveHSet(r)
  <2>1. /\ callback[r].sid \in SessionIds
        /\ callback'[r] = [callback[r] EXCEPT !.pc = "expire"]
        /\ sessStore' = [sessStore EXCEPT ![callback[r].sid] = SessionHash(r)]
    BY <1>1, <1>5 DEF SessionSaveHSet, CallbackSound, CallbackRequest
  <2>2. sessStore'[callback[r].sid].subject = callback[r].token.subject
    BY <1>1, <2>1 DEF SessionHash
  <2>3. ASSUME NEW i \in SessionIds, sessStore'[i] # None
        PROVE  Backed(i, sessStore[i])'
    <3>1. CASE i = callback[r].sid
      BY <1>1, <2>1, <2>2, <3>1 DEF Backed, CallbackRequest
    <3>2. CASE i # callback[r].sid
      <4>1. PICK x : x = sessStore[i]
        OBVIOUS
      <4>2. sessStore'[i] = x /\ Backed(i, x)
        BY <1>1, <2>1, <2>3, <3>2, <4>1 DEF SessionsSound, Backed
      <4>3. Backed(i, x)'
        BY <1>4, <4>2
      <4> QED
        BY <4>2, <4>3 DEF Backed
    <3> QED
      BY <3>1, <3>2
  <2>4. ASSUME NEW q \in CallbackReqs, callback'[q].pc = "redirected",
               sessStore'[callback'[q].sid] # None
        PROVE  sessStore'[callback'[q].sid].expires
    <3>1. q # r /\ callback'[q] = callback[q]
      BY <1>1, <1>2, <2>1, <2>4 DEF CallbackRequest
    <3>2. callback[q].sid \in SessionIds /\ callback[q].sid # callback[r].sid
      BY <1>1, <2>4, <3>1 DEF FlowInvariant, CallbacksSound, CallbackSound,
          CallbackRequest, CallbacksApart
    <3> QED
      BY <1>1, <2>1, <2>4, <3>1, <3>2 DEF SessionsSound
  <2> QED
    BY <2>3, <2>4 DEF SessionsSound, Backed
<1>6. CASE SessionSaveExpire(r) \/ CallbackReplyLost(r)
  <2>1. /\ \/ UNCHANGED sessStore
           \/ sessStore' =
                [sessStore EXCEPT ![callback[r].sid] = WithTtl(@, SessionTtl)]
        /\ callback'[r].pc = "redirected" =>
              sessStore' =
                [sessStore EXCEPT ![callback[r].sid] = WithTtl(@, SessionTtl)]
    <3>1. CASE SessionSaveExpire(r)
      BY <3>1 DEF SessionSaveExpire
    <3>2. CASE CallbackReplyLost(r)
      BY <1>1, <3>2 DEF CallbackReplyLost
    <3> QED
      BY <1>6, <3>1, <3>2
  <2>2. \A i \in SessionIds : sessStore'[i] # None =>
           /\ sessStore[i] # None
           /\ sessStore'[i].subject = sessStore[i].subject
           /\ sessStore[i].expires => sessStore'[i].expires
    BY <1>1, <2>1 DEF WithTtl, Session
  <2>3. callback'[r].pc = "redirected" =>
           /\ callback'[r].sid \in SessionIds
           /\ sessStore'[callback'[r].sid] # None =>
                 sessStore'[callback'[r].sid].expires
    <3>1. CASE SessionSaveExpire(r)
      BY <1>1, <2>1, <3>1 DEF SessionSaveExpire, CallbackSound,
          CallbackRequest, WithTtl, Session
    <3>2. CASE CallbackReplyLost(r)
      BY <1>1, <3>2 DEF CallbackReplyLost
    <3> QED
      BY <1>6, <3>1, <3>2
  <2>4. ASSUME NEW i \in SessionIds, sessStore'[i] # None
        PROVE  Backed(i, sessStore[i])'
    <3>1. PICK x : x = sessStore[i]
      OBVIOUS
    <3>2. Backed(i, x)
      BY <1>1, <2>2, <2>4, <3>1 DEF SessionsSound, Backed
    <3>3. Backed(i, x)'
      BY <1>4, <3>2
    <3> QED
      BY <2>2, <2>4, <3>1, <3>3 DEF Backed
  <2>5. ASSUME NEW q \in CallbackReqs, callback'[q].pc = "redirected",
               sessStore'[callback'[q].sid] # None
        PROVE  sessStore'[callback'[q].sid].expires
    <3>1. CASE q = r
      BY <2>3, <2>5, <3>1
    <3>2. CASE q # r
      <4>1. callback'[q] = callback[q] /\ callback[q].sid \in SessionIds
        BY <1>1, <1>2, <2>5, <3>2 DEF FlowInvariant, CallbacksSound,
            CallbackSound, CallbackRequest
      <4> QED
        BY <1>1, <2>2, <2>5, <4>1 DEF SessionsSound
    <3> QED
      BY <3>1, <3>2
  <2> QED
    BY <2>4, <2>5 DEF SessionsSound, Backed
<1>7. CASE ~(SessionSaveHSet(r) \/ SessionSaveExpire(r) \/ CallbackReplyLost(r))
  <2>1. UNCHANGED sessStore /\ callback'[r].pc # "redirected"
    <3>1. CASE CallbackArrives(r)
      <4>1. PICK s, c, err : \/ CallbackBadRequest(r, s, c, err)
                             \/ CallbackAuthorizationError(r, s, c, err)
                             \/ CallbackAccepted(r, s, c, err)
        BY <3>1 DEF CallbackArrives
      <4>2. PICK pc \in {"badRequest", "authorizationError", "find"} :
               callback' = [callback EXCEPT ![r] =
                              [@ EXCEPT !.pc = pc, !.state = s, !.code = c]]
        BY <4>1 DEF CallbackBadRequest, CallbackAuthorizationError,
                    CallbackAccepted
      <4>3. UNCHANGED sessStore
        BY <4>1 DEF CallbackBadRequest, CallbackAuthorizationError,
                    CallbackAccepted
      <4> QED
        BY <1>1, <4>2, <4>3 DEF CallbackRequest
    <3>2. CASE FindTransaction(r) \/ DeleteTransaction(r)
      BY <1>1, <3>2 DEF FindTransaction, DeleteTransaction,
                            CallbackRequest
    <3>3. CASE CallbackMetadata(r) \/ ExchangeFails(r) \/ VerifyFails(r)
      BY <1>1, <3>3 DEF CallbackMetadata, ExchangeFails, VerifyFails,
                            CallbackRequest
    <3>4. CASE ExchangeCode(r)
      BY <1>1, <3>4 DEF ExchangeCode
    <3>5. CASE TokenVerified(r)
      BY <1>1, <3>5 DEF TokenVerified
    <3>6. CASE CallbackFails(r) \/ CallbackLost(r)
      BY <1>1, <3>6 DEF CallbackFails, CallbackLost, CallbackRequest
    <3> QED
      BY <1>7, <3>1, <3>2, <3>3, <3>4, <3>5, <3>6 DEF CallbackStep
  <2>2. ASSUME NEW i \in SessionIds, sessStore[i] # None
        PROVE  Backed(i, sessStore[i])'
    <3>1. PICK x : x = sessStore[i]
      OBVIOUS
    <3>2. Backed(i, x)'
      BY <1>1, <1>4, <2>2, <3>1 DEF SessionsSound, Backed
    <3> QED
      BY <2>1, <3>1, <3>2 DEF Backed
  <2>3. ASSUME NEW q \in CallbackReqs, callback'[q].pc = "redirected"
        PROVE  callback'[q] = callback[q]
    BY <1>2, <2>1, <2>3
  <2> QED
    BY <1>1, <2>1, <2>2, <2>3 DEF SessionsSound, Backed
<1> QED
  BY <1>5, <1>6, <1>7

-----------------------------------------------------------------------------
(* The rest of the system, and the invariant.                              *)

\* Initially there is nothing.
LEMMA InitFlow == Init => FlowInvariant
<1> SUFFICES ASSUME Init PROVE FlowInvariant
  OBVIOUS
<1> USE NoneAssumption DEF Init
<1>1. TypeOK
  BY DEF TypeOK, LoginRequest, CallbackRequest
<1>2. LoginsSound
  BY DEF LoginsSound
<1>3. TransactionsSound
  BY DEF TransactionsSound
<1>4. CallbacksSound
  BY DEF CallbacksSound, CallbackSound, CallbackActive
<1>5. CallbacksApart /\ SessionsSound
  BY DEF CallbacksApart, SessionsSound, Spent
<1> QED
  BY <1>1, <1>2, <1>3, <1>4, <1>5 DEF FlowInvariant

\* The expiry of a transaction takes nothing away that another part relies on.
LEMMA TransactionExpiryFlow ==
  ASSUME FlowInvariant, NEW s \in States, TransactionExpires(s)
  PROVE  FlowInvariant'
<1>1. /\ txStore \in [States -> Transaction \cup {None}]
      /\ txStore' = [txStore EXCEPT ![s] = None]
      /\ UNCHANGED <<sessStore, grants, login, callback>>
  BY DEF FlowInvariant, TypeOK, TransactionExpires
<1>2. \A t \in States : txStore'[t] = txStore[t] \/ txStore'[t] = None
  BY <1>1
<1>3. /\ \A l \in LoginReqs : login[l].state \in States \cup {None}
      /\ \A r \in CallbackReqs : Spent(r) => callback[r].state \in States
  BY DEF FlowInvariant, TypeOK, LoginRequest, CallbackRequest,
         CallbacksSound, CallbackSound, Spent, CallbackActive
<1>4. TypeOK' /\ TransactionsSound'
  BY <1>1, <1>2 DEF FlowInvariant, TypeOK, TransactionsSound, MadeByLogin
<1>5. LoginsSound'
  BY <1>1, <1>2, <1>3 DEF FlowInvariant, LoginsSound
<1>6. CallbacksSound' /\ SessionsSound'
  BY <1>1 DEF FlowInvariant, CallbacksSound, CallbackSound, SessionsSound,
              ShownState, MadeByLogin
<1>7. CallbacksApart'
  BY <1>1, <1>2, <1>3 DEF FlowInvariant, CallbacksApart, Spent
<1> QED
  BY <1>4, <1>5, <1>6, <1>7 DEF FlowInvariant

\* The end of a session takes nothing away that another part relies on.
LEMMA SessionDropFlow ==
  ASSUME FlowInvariant, NEW i \in SessionIds,
         sessStore' = [sessStore EXCEPT ![i] = None],
         UNCHANGED <<txStore, grants, login, callback>>
  PROVE  FlowInvariant'
<1>1. sessStore \in [SessionIds -> Session \cup {None}]
  BY DEF FlowInvariant, TypeOK
<1>2. \A j \in SessionIds : sessStore'[j] = sessStore[j] \/ sessStore'[j] = None
  BY <1>1
<1>3. \A r \in CallbackReqs : callback[r].pc = "redirected" =>
         callback[r].sid \in SessionIds
  BY DEF FlowInvariant, TypeOK, CallbackRequest, CallbacksSound, CallbackSound
<1>4. TypeOK'
  BY <1>1, <1>2 DEF FlowInvariant, TypeOK
<1>5. SessionsSound'
  BY <1>1, <1>2, <1>3 DEF FlowInvariant, SessionsSound
<1>6. LoginsSound' /\ TransactionsSound' /\ CallbacksSound' /\ CallbacksApart'
  BY DEF FlowInvariant, LoginsSound, TransactionsSound, CallbacksSound,
         CallbackSound, CallbacksApart, ShownState, MadeByLogin, Spent
<1> QED
  BY <1>4, <1>5, <1>6 DEF FlowInvariant

LEMMA SessionExpiryFlow ==
  ASSUME FlowInvariant, NEW i \in SessionIds, SessionExpires(i)
  PROVE  FlowInvariant'
BY SessionDropFlow DEF SessionExpires

\* The provider issues a fresh code, which no callback has used.
LEMMA GrantFlow ==
  ASSUME FlowInvariant, NEW l \in LoginReqs, NEW c \in Codes,
         NEW u \in Subjects, OpGrants(l, c, u)
  PROVE  FlowInvariant'
<1>1. /\ grants \in [Codes -> Grant \cup {None}]
      /\ grants[c] = None
      /\ UNCHANGED <<txStore, sessStore, login, callback>>
      /\ \A d \in Codes : d # c => grants'[d] = grants[d]
  BY DEF FlowInvariant, TypeOK, OpGrants
<1>2. login[l].nonce \in Nonces
  BY DEF FlowInvariant, TypeOK, LoginRequest, LoginsSound, OpGrants
<1>3. TypeOK'
  BY <1>1, <1>2 DEF FlowInvariant, TypeOK, OpGrants, Grant
<1>4. CallbacksSound'
  <2> SUFFICES ASSUME NEW r \in CallbackReqs PROVE CallbackSound(r)'
    BY DEF CallbacksSound
  <2>1. CallbackSound(r) /\ callback[r] \in CallbackRequest
    BY DEF FlowInvariant, TypeOK, CallbacksSound
  <2>2. callback[r].token # None =>
           grants'[callback[r].code] = grants[callback[r].code]
    BY <1>1, <2>1 DEF CallbackSound, CallbackRequest
  <2> QED
    BY <1>1, <2>1, <2>2 DEF CallbackSound, ShownState, MadeByLogin
<1>5. /\ LoginsSound' /\ TransactionsSound'
      /\ CallbacksApart' /\ SessionsSound'
  BY <1>1 DEF FlowInvariant, LoginsSound, TransactionsSound, CallbacksApart,
              SessionsSound, MadeByLogin, Spent
<1> QED
  BY <1>3, <1>4, <1>5 DEF FlowInvariant

\* FlowInvariant is inductive.
LEMMA FlowStep == FlowInvariant /\ [Next]_vars => FlowInvariant'
<1> SUFFICES ASSUME FlowInvariant, [Next]_vars
             PROVE  FlowInvariant'
  OBVIOUS
<1>1. ASSUME NEW l \in LoginReqs,
             LoginArrives(l) \/ LoginStep(l) \/ LoginLost(l)
      PROVE  FlowInvariant'
  BY <1>1, LoginTypeOK, LoginLoginsSound, LoginTransactionsSound,
     LoginCallbacksSound, LoginCallbacksApart, LoginSessionsSound
  DEF FlowInvariant
<1>2. ASSUME NEW r \in CallbackReqs,
             CallbackArrives(r) \/ CallbackStep(r) \/ CallbackLost(r)
      PROVE  FlowInvariant'
  BY <1>2, CallbackTypeOK, CallbackLoginsSound, CallbackTransactionsSound,
     CallbackCallbacksSound, CallbackCallbacksApart, CallbackSessionsSound
  DEF FlowInvariant
<1>3. CASE UNCHANGED vars
  BY <1>3 DEF vars, FlowInvariant, TypeOK, LoginsSound, TransactionsSound,
              CallbacksSound, CallbackSound, CallbacksApart, SessionsSound,
              ShownState, MadeByLogin, Spent
<1> QED
  BY <1>1, <1>2, <1>3, TransactionExpiryFlow, SessionExpiryFlow, GrantFlow
  DEF Next

\* In every reachable state each transaction, session and callback goes back
\* to the one login and the one code it came from.
THEOREM FlowInvariantHolds == Spec => []FlowInvariant
BY InitFlow, FlowStep, PTL DEF Spec

\* Every variable keeps its type: the store holds well-formed hashes only.
THEOREM TypesHold == Spec => []TypeOK
<1>1. FlowInvariant => TypeOK
  BY DEF FlowInvariant
<1> QED
  BY <1>1, FlowInvariantHolds, PTL

\* A stored session belongs to a user whom the provider authenticated for the
\* very login that the callback's state came from.
THEOREM SessionsAreAuthenticated == Spec => []SessionIsAuthenticated
<1>1. FlowInvariant => SessionIsAuthenticated
  <2> SUFFICES ASSUME FlowInvariant, NEW i \in SessionIds, sessStore[i] # None
               PROVE  \E r \in CallbackReqs, l \in LoginReqs :
                         LET grant == grants[callback[r].code]
                         IN  /\ callback[r].sid = i
                             /\ login[l].state = callback[r].state
                             /\ grant # None
                             /\ grant.nonce = login[l].nonce
                             /\ grant.subject = sessStore[i].subject
    BY DEF SessionIsAuthenticated
  <2>1. PICK r \in CallbackReqs :
           /\ callback[r].sid = i
           /\ callback[r].token.subject = sessStore[i].subject
    BY DEF FlowInvariant, SessionsSound
  <2>2. CallbackSound(r)
    BY DEF FlowInvariant, CallbacksSound
  <2>3. callback[r].sid # None
    BY <2>1, NoneAssumption
  <2>4. PICK l \in LoginReqs :
           /\ login[l].state = callback[r].state
           /\ login[l].nonce = callback[r].tx.nonce
    BY <2>2, <2>3 DEF CallbackSound, MadeByLogin
  <2> QED
    BY <2>1, <2>2, <2>3, <2>4 DEF CallbackSound
<1> QED
  BY <1>1, FlowInvariantHolds, PTL

\* A callback redirects only to the allowed return_to of its own login.
THEOREM CallbacksReturnToLoginOrigin == Spec => []ReturnsToLoginOrigin
<1>1. FlowInvariant => ReturnsToLoginOrigin
  <2> SUFFICES ASSUME FlowInvariant, NEW r \in CallbackReqs,
                      callback[r].pc = "redirected"
               PROVE  /\ callback[r].tx.returnTo \in AllowedOrigins
                      /\ \E l \in LoginReqs :
                            /\ login[l].state = callback[r].state
                            /\ login[l].returnTo = callback[r].tx.returnTo
    BY DEF ReturnsToLoginOrigin
  <2>1. CallbackSound(r)
    BY DEF FlowInvariant, CallbacksSound
  <2>2. PICK l \in LoginReqs :
           /\ login[l].state = callback[r].state
           /\ login[l].returnTo = callback[r].tx.returnTo
    BY <2>1 DEF CallbackSound, MadeByLogin
  <2>3. login[l].state # None
    BY <2>1, <2>2 DEF CallbackSound
  <2>4. login[l].returnTo \in AllowedOrigins
    BY <2>3 DEF FlowInvariant, LoginsSound
  <2> QED
    BY <2>2, <2>4
<1> QED
  BY <1>1, FlowInvariantHolds, PTL

\* A key whose state or session id was handed to a browser has a TTL.
THEOREM IssuedKeysHaveTtl == Spec => []IssuedKeysExpire
<1>1. FlowInvariant => IssuedKeysExpire
  BY DEF FlowInvariant, LoginsSound, SessionsSound, IssuedKeysExpire
<1> QED
  BY <1>1, FlowInvariantHolds, PTL

\* A replay whose lookup comes after the deletion of its transaction is
\* refused.
THEOREM LateReplaysRefused == Spec => LateReplayRefused
<1>1. ASSUME FlowInvariant, [Next]_vars
      PROVE  [\A q, r \in CallbackReqs :
                /\ Spent(q)
                /\ callback[r].state = callback[q].state
                /\ callback[r].pc = "find"
                => callback'[r].pc # "delete"]_vars
  <2> SUFFICES ASSUME NEW q \in CallbackReqs, NEW r \in CallbackReqs,
                      Spent(q),
                      callback[r].state = callback[q].state,
                      callback[r].pc = "find"
               PROVE  callback'[r].pc # "delete"
    OBVIOUS
  <2>1. /\ txStore[callback[r].state] = None
        /\ callback \in [CallbackReqs -> CallbackRequest]
    BY <1>1 DEF FlowInvariant, TypeOK, CallbacksApart
  <2>2. ASSUME NEW p \in CallbackReqs,
               CallbackArrives(p) \/ CallbackStep(p) \/ CallbackLost(p)
        PROVE  callback'[r].pc # "delete"
    <3>1. CASE p # r
      BY <1>1, <2>2, <3>1, CallbackFrame
    <3>2. CASE p = r
      <4>1. CASE FindTransaction(r) \/ CallbackFails(r) \/ CallbackLost(r)
        BY <2>1, <4>1 DEF FindTransaction, CallbackFails, CallbackLost,
                          CallbackRequest
      <4>2. CASE ~(FindTransaction(r) \/ CallbackFails(r) \/ CallbackLost(r))
        BY <2>2, <3>2, <4>2
        DEF CallbackArrives, CallbackBadRequest, CallbackAuthorizationError,
            CallbackAccepted, CallbackStep, DeleteTransaction,
            CallbackMetadata, ExchangeCode, ExchangeFails, TokenVerified,
            VerifyFails, SessionSaveHSet, SessionSaveExpire,
            CallbackReplyLost
      <4> QED
        BY <4>1, <4>2
    <3> QED
      BY <3>1, <3>2
  <2>3. CASE UNCHANGED callback
    BY <2>3
  <2> QED
    BY <1>1, <2>2, <2>3, LoginFrame
    DEF Next, vars, OpGrants, TransactionExpires, SessionExpires
<1> QED
  BY <1>1, FlowInvariantHolds, PTL DEF Spec, LateReplayRefused

\* No step stores a transaction under the state of a login that has sent its
\* browser away.
LEMMA LoginStoresElsewhere ==
  ASSUME FlowInvariant, NEW l \in LoginReqs, NEW m \in LoginReqs,
         login[l].pc = "redirected", txStore[login[l].state] = None,
         LoginArrives(m) \/ LoginStep(m) \/ LoginLost(m)
  PROVE  txStore'[login[l].state] = None
<1>1. /\ txStore \in [States -> Transaction \cup {None}]
      /\ login[l].state \in States
      /\ login[m].pc \in {"hset", "expire"} => login[m].state # None
  BY DEF FlowInvariant, TypeOK, LoginsSound, LoginRequest
<1>2. CASE LoginSaveHSet(m)
  <2>1. m # l /\ login[m].state # login[l].state
    BY <1>1, <1>2 DEF LoginSaveHSet, FlowInvariant, LoginsSound
  <2> QED
    BY <1>1, <1>2, <2>1 DEF LoginSaveHSet
<1>3. CASE LoginSaveExpire(m) \/ LoginReplyLost(m)
  BY <1>1, <1>3 DEF LoginSaveExpire, LoginReplyLost, WithTtl
<1>4. CASE UNCHANGED txStore
  BY <1>4
<1> QED
  BY <1>2, <1>3, <1>4
  DEF LoginArrives, LoginRefused, LoginAccepted, LoginStep, LoginPrepared,
      LoginFails, LoginLost

\* A state whose transaction was used or expired is never good again.
THEOREM DeadStates == Spec => DeadStateStaysDead
<1> DEFINE A == \A l \in LoginReqs :
                   login[l].pc = "redirected" /\ txStore[login[l].state] = None
                      => txStore'[login[l].state] = None
<1>1. FlowInvariant /\ [Next]_vars => A
  <2> SUFFICES ASSUME FlowInvariant, [Next]_vars, NEW l \in LoginReqs,
                      login[l].pc = "redirected",
                      txStore[login[l].state] = None
               PROVE  txStore'[login[l].state] = None
    OBVIOUS
  <2>1. txStore \in [States -> Transaction \cup {None}]
        /\ login[l].state \in States
    BY DEF FlowInvariant, TypeOK, LoginsSound, LoginRequest
  <2>2. ASSUME NEW r \in CallbackReqs,
               CallbackArrives(r) \/ CallbackStep(r) \/ CallbackLost(r)
        PROVE  txStore'[login[l].state] = None
    BY <2>1, <2>2, CallbackTransactions
  <2>3. ASSUME NEW s \in States, TransactionExpires(s)
        PROVE  txStore'[login[l].state] = None
    BY <2>1, <2>3 DEF TransactionExpires
  <2>4. CASE UNCHANGED txStore
    BY <2>4
  <2> QED
    BY <2>2, <2>3, <2>4, LoginStoresElsewhere
    DEF Next, vars, OpGrants, SessionExpires
<1>2. FlowInvariant /\ [Next]_vars => [A]_vars
  BY <1>1
<1> QED
  BY <1>2, FlowInvariantHolds, PTL DEF Spec, DeadStateStaysDead

-----------------------------------------------------------------------------
(* Sessions and the sign-ins they come from.                               *)

\* The provider redeems no code but the one that a callback shows it.
LEMMA CallbackRedeems ==
  ASSUME FlowInvariant, NEW r \in CallbackReqs,
         CallbackArrives(r) \/ CallbackStep(r) \/ CallbackLost(r)
  PROVE  \A u \in Subjects :
            SignInsOf(u)' \subseteq SignInsOf(u) \cup {callback[r].code}
<1>1. CASE UNCHANGED grants
  BY <1>1 DEF SignInsOf
<1>2. CASE OpRedeems(callback[r].code)
  <2>1. grants \in [Codes -> Grant \cup {None}]
    BY DEF FlowInvariant, TypeOK
  <2>2. \A c \in Codes : c # callback[r].code => grants'[c] = grants[c]
    BY <1>2, <2>1 DEF OpRedeems
  <2> QED
    BY <2>2 DEF SignInsOf
<1> QED
  BY <1>1, <1>2
  DEF CallbackArrives, CallbackBadRequest, CallbackAuthorizationError,
      CallbackAccepted, CallbackStep, FindTransaction, DeleteTransaction,
      CallbackMetadata, ExchangeCode, ExchangeFails, TokenVerified,
      VerifyFails, SessionSaveHSet, SessionSaveExpire, CallbackFails,
      CallbackReplyLost, CallbackLost

\* Each step redeems one code at most.
LEMMA OneCodeRedeemed ==
  ASSUME FlowInvariant, [Next]_vars
  PROVE  \E c : \A u \in Subjects :
            SignInsOf(u)' \subseteq SignInsOf(u) \cup {c}
<1>1. CASE UNCHANGED grants
  BY <1>1 DEF SignInsOf
<1>2. ASSUME NEW l \in LoginReqs, NEW c \in Codes, NEW u \in Subjects,
             OpGrants(l, c, u)
      PROVE  \A w \in Subjects : SignInsOf(w)' \subseteq SignInsOf(w)
  <2>1. grants \in [Codes -> Grant \cup {None}]
    BY DEF FlowInvariant, TypeOK
  <2>2. /\ ~grants'[c].redeemed
        /\ \A d \in Codes : d # c => grants'[d] = grants[d]
    BY <1>2, <2>1 DEF OpGrants
  <2> QED
    BY <2>2 DEF SignInsOf
<1>3. ASSUME NEW r \in CallbackReqs,
             CallbackArrives(r) \/ CallbackStep(r) \/ CallbackLost(r)
      PROVE  \E c : \A u \in Subjects :
                SignInsOf(u)' \subseteq SignInsOf(u) \cup {c}
  BY <1>3, CallbackRedeems
<1> QED
  BY <1>1, <1>2, <1>3, LoginFrame
  DEF Next, vars, TransactionExpires, SessionExpires

\* However many codes there may be, at any time finitely many were redeemed.
FinitelyRedeemed == \A u \in Subjects : IsFiniteSet(SignInsOf(u))

LEMMA NoneRedeemed == Init => FinitelyRedeemed
<1> SUFFICES ASSUME Init, NEW u \in Subjects
             PROVE  IsFiniteSet(SignInsOf(u))
  BY DEF FinitelyRedeemed
<1>1. SignInsOf(u) = {}
  BY DEF Init, SignInsOf
<1> QED
  BY <1>1, FS_EmptySet

LEMMA FewRedeemed ==
  FlowInvariant /\ FinitelyRedeemed /\ [Next]_vars => FinitelyRedeemed'
<1> SUFFICES ASSUME FlowInvariant, FinitelyRedeemed, [Next]_vars,
                    NEW u \in Subjects
             PROVE  IsFiniteSet(SignInsOf(u)')
  BY DEF FinitelyRedeemed
<1>1. PICK c : SignInsOf(u)' \subseteq SignInsOf(u) \cup {c}
  BY OneCodeRedeemed
<1>2. IsFiniteSet(SignInsOf(u) \cup {c})
  BY FS_AddElement DEF FinitelyRedeemed
<1> QED
  BY <1>1, <1>2, FS_Subset

\* The callbacks that stored a user's sessions redeemed as many codes of
\* that user.
LEMMA SessionsCounted ==
  FlowInvariant /\ FinitelyRedeemed => SessionsWithinSignIns
<1> SUFFICES ASSUME FlowInvariant, FinitelyRedeemed, NEW u \in Subjects
             PROVE  Cardinality(SessionsOf(u)) <= Cardinality(SignInsOf(u))
  BY DEF SessionsWithinSignIns
<1> DEFINE Stores(i, r) == callback[r].sid = i /\ callback[r].pc # "hset"
                           /\ callback[r].token.subject = u
           storer == [i \in SessionsOf(u) |->
                        CHOOSE r \in CallbackReqs : Stores(i, r)]
           codeOf == [i \in SessionsOf(u) |-> callback[storer[i]].code]
<1>1. ASSUME NEW i \in SessionsOf(u)
      PROVE  storer[i] \in CallbackReqs /\ Stores(i, storer[i])
  <2>1. \E r \in CallbackReqs : Stores(i, r)
    BY DEF FlowInvariant, SessionsSound, SessionsOf
  <2> QED
    BY <2>1
<1>2. ASSUME NEW i \in SessionsOf(u)
      PROVE  /\ callback[storer[i]].sid = i /\ callback[storer[i]].sid # None
             /\ callback[storer[i]].token # None
             /\ callback[storer[i]].code \in SignInsOf(u)
  <2> DEFINE r == storer[i]
  <2>1. r \in CallbackReqs /\ callback[r].sid = i
        /\ callback[r].token.subject = u
    BY <1>1
  <2>2. callback[r].sid # None
    BY <2>1, NoneAssumption DEF SessionsOf
  <2> HIDE DEF r
  <2>3. CallbackSound(r) /\ callback[r] \in CallbackRequest
    BY <2>1 DEF FlowInvariant, TypeOK, CallbacksSound
  <2>4. callback[r].token # None /\ callback[r].code \in SignInsOf(u)
    BY <2>1, <2>2, <2>3 DEF CallbackSound, CallbackRequest, SignInsOf
  <2> QED
    BY <2>1, <2>2, <2>4 DEF r
<1>3. codeOf \in Injection(SessionsOf(u), SignInsOf(u))
  <2>1. codeOf \in [SessionsOf(u) -> SignInsOf(u)]
    BY <1>2
  <2>2. ASSUME NEW i \in SessionsOf(u), NEW j \in SessionsOf(u),
               codeOf[i] = codeOf[j]
        PROVE  i = j
    <3>1. callback[storer[i]].code = callback[storer[j]].code
      BY <2>2
    <3>2. storer[i] = storer[j]
      <4> HIDE DEF storer
      <4> QED
        BY <1>1, <1>2, <3>1 DEF FlowInvariant, CallbacksApart
    <3> QED
      BY <1>2, <3>2
  <2> HIDE DEF codeOf
  <2> QED
    BY <2>1, <2>2 DEF Injection, IsInjective
<1>4. IsFiniteSet(SignInsOf(u))
  BY DEF FinitelyRedeemed
<1> HIDE DEF codeOf
<1> QED
  BY <1>3, <1>4, FS_Injection

\* A user has at most one session for each sign-in, whatever is replayed,
\* repeated or lost.
THEOREM SessionsStayWithinSignIns == Spec => []SessionsWithinSignIns
BY SessionsCounted, NoneRedeemed, FewRedeemed, FlowInvariantHolds, PTL
   DEF Spec

=============================================================================
