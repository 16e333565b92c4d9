-------------------------- MODULE RelyingPartyProofs --------------------------
(***************************************************************************)
(* /me, /logout and the browsers' cookies beside the flow, for any number  *)
(* of requests and browsers: RpInvariant is inductive, a logout is final,  *)
(* /me names the authenticated user, and the contract of the flow is kept. *)
(***************************************************************************)
EXTENDS RelyingParty, LoginContractProofs

-----------------------------------------------------------------------------
(* What the flow does to sessions that browsers know of.                   *)

\* The steps of the flow, sorted by what they may do to a session.
LEMMA FlowStepKinds ==
  ASSUME FlowInvariant, [Next]_vars
  PROVE  \/ UNCHANGED <<sessStore, grants, callback>>
         \/ \E l \in LoginReqs, c \in Codes, u \in Subjects : OpGrants(l, c, u)
         \/ \E i \in SessionIds : SessionExpires(i)
         \/ \E r \in CallbackReqs :
               CallbackArrives(r) \/ CallbackStep(r) \/ CallbackLost(r)
<1>1. ASSUME NEW l \in LoginReqs,
             LoginArrives(l) \/ LoginStep(l) \/ LoginLost(l)
      PROVE  UNCHANGED <<sessStore, grants, callback>>
  BY <1>1, LoginFrame
<1>2. ASSUME NEW s \in States, TransactionExpires(s)
      PROVE  UNCHANGED <<sessStore, grants, callback>>
  BY <1>2 DEF TransactionExpires
<1>3. CASE UNCHANGED vars
  BY <1>3 DEF vars
<1> QED
  BY <1>1, <1>2, <1>3 DEF Next

\* A callback that takes a step has not redirected.
LEMMA CallbackActs ==
  ASSUME NEW r \in CallbackReqs,
         CallbackArrives(r) \/ CallbackStep(r) \/ CallbackLost(r)
  PROVE  callback[r].pc # "redirected"
BY DEF CallbackArrives, CallbackBadRequest, CallbackAuthorizationError,
       CallbackAccepted, CallbackStep, FindTransaction, DeleteTransaction,
       CallbackMetadata, ExchangeCode, ExchangeFails, TokenVerified,
       VerifyFails, SessionSaveHSet, SessionSaveExpire, CallbackFails,
       CallbackReplyLost, CallbackLost, CallbackActive

\* A redirected callback stays as it is, and so does the user of its code.
LEMMA RedirectedStays ==
  ASSUME FlowInvariant, [Next]_vars, NEW r \in CallbackReqs,
         callback[r].pc = "redirected"
  PROVE  /\ callback'[r] = callback[r]
         /\ grants'[callback[r].code] # None
         /\ grants'[callback[r].code].subject
               = grants[callback[r].code].subject
<1>1. /\ CallbackSound(r) /\ callback[r] \in CallbackRequest
      /\ grants \in [Codes -> Grant \cup {None}]
  BY DEF FlowInvariant, CallbacksSound, TypeOK
<1>2. /\ callback[r].code \in Codes /\ grants[callback[r].code] # None
      /\ grants[callback[r].code] \in Grant
  BY <1>1 DEF CallbackSound, CallbackRequest
<1>3. CASE UNCHANGED <<sessStore, grants, callback>>
  BY <1>2, <1>3
<1>4. ASSUME NEW l \in LoginReqs, NEW c \in Codes, NEW u \in Subjects,
             OpGrants(l, c, u)
      PROVE  /\ callback'[r] = callback[r]
             /\ grants'[callback[r].code] = grants[callback[r].code]
  BY <1>1, <1>2, <1>4 DEF OpGrants
<1>5. ASSUME NEW i \in SessionIds, SessionExpires(i)
      PROVE  UNCHANGED <<grants, callback>>
  BY <1>5 DEF SessionExpires
<1>6. ASSUME NEW q \in CallbackReqs,
             CallbackArrives(q) \/ CallbackStep(q) \/ CallbackLost(q)
      PROVE  /\ callback'[r] = callback[r]
             /\ grants'[callback[r].code] # None
             /\ grants'[callback[r].code].subject
                   = grants[callback[r].code].subject
  <2>1. callback'[r] = callback[r]
    BY <1>6, CallbackActs, CallbackFrame
  <2>2. \/ UNCHANGED grants
        \/ Redeemable(callback[q].code) /\ OpRedeems(callback[q].code)
    BY <1>6, CallbackFrame
  <2>3. CASE Redeemable(callback[q].code) /\ OpRedeems(callback[q].code)
    <3>1. \/ grants'[callback[r].code] = grants[callback[r].code]
          \/ grants'[callback[r].code]
                = [grants[callback[r].code] EXCEPT !.redeemed = TRUE]
      BY <1>1, <1>2, <2>3 DEF OpRedeems
    <3>2. [grants[callback[r].code] EXCEPT !.redeemed = TRUE] \in Grant
      BY <1>2 DEF Grant
    <3> QED
      BY <1>2, <2>1, <3>1, <3>2, NoneAssumption DEF Grant
  <2> QED
    BY <1>2, <2>1, <2>2, <2>3
<1> QED
  BY <1>2, <1>3, <1>4, <1>5, <1>6, FlowStepKinds

LEMMA IssuedStays ==
  ASSUME FlowInvariant, [Next]_vars, NEW i, Issued(i)
  PROVE  Issued(i)'
BY RedirectedStays DEF Issued

\* No step of the flow stores a session under an id that is already out.
LEMMA IssuedStaysDead ==
  ASSUME FlowInvariant, [Next]_vars, NEW i, Issued(i), sessStore[i] = None
  PROVE  sessStore'[i] = None
<1>1. PICK r \in CallbackReqs :
         callback[r].sid = i /\ callback[r].pc = "redirected"
  BY DEF Issued
<1>2. /\ sessStore \in [SessionIds -> Session \cup {None}]
      /\ i \in SessionIds
  BY <1>1 DEF FlowInvariant, TypeOK, CallbacksSound, CallbackSound,
              CallbackRequest
<1>3. CASE UNCHANGED <<sessStore, grants, callback>>
  BY <1>3
<1>4. ASSUME NEW l \in LoginReqs, NEW c \in Codes, NEW u \in Subjects,
             OpGrants(l, c, u)
      PROVE  UNCHANGED sessStore
  BY <1>4 DEF OpGrants
<1>5. ASSUME NEW j \in SessionIds, SessionExpires(j)
      PROVE  sessStore'[i] = None
  BY <1>2, <1>5 DEF SessionExpires
<1>6. ASSUME NEW q \in CallbackReqs,
             CallbackArrives(q) \/ CallbackStep(q) \/ CallbackLost(q)
      PROVE  sessStore'[i] = None
  <2>1. \/ UNCHANGED sessStore
        \/ /\ callback[q].pc = "hset"
           /\ sessStore' = [sessStore EXCEPT
                              ![callback[q].sid] = SessionHash(q)]
        \/ sessStore' = [sessStore EXCEPT
                           ![callback[q].sid] = WithTtl(@, SessionTtl)]
    BY <1>6, CallbackAttempts
  <2>2. callback[q].pc = "hset" => callback[q].sid # i
    BY <1>1 DEF FlowInvariant, CallbacksSound, CallbackSound, CallbacksApart
  <2> QED
    BY <1>2, <2>1, <2>2 DEF WithTtl
<1> QED
  BY <1>3, <1>4, <1>5, <1>6, FlowStepKinds
-----------------------------------------------------------------------------
(* The invariant.                                                          *)

LEMMA InitRp == RpInit => RpInvariant
<1> SUFFICES ASSUME RpInit PROVE RpInvariant
  OBVIOUS
<1>1. FlowInvariant
  BY InitFlow DEF RpInit
<1>2. RpTypeOK
  BY <1>1 DEF RpInit, RpTypeOK, FlowInvariant, MeRequest, LogoutRequest
<1> QED
  BY <1>1, <1>2 DEF RpInit, RpInvariant, MeReportsAuthenticatedUser,
                    LogoutIsFinal

\* The flow beside requests and cookies that stay as they are.
LEMMA RpFlowStep ==
  ASSUME RpInvariant, [Next]_vars, UNCHANGED rpVars
  PROVE  RpInvariant'
<1>1. FlowInvariant /\ FlowInvariant'
  BY FlowStep DEF RpInvariant
<1>2. RpTypeOK'
  BY <1>1 DEF RpInvariant, RpTypeOK, FlowInvariant, rpVars
<1>3. \A i : Issued(i) => Issued(i)'
  BY <1>1, IssuedStays
<1>4. MeReportsAuthenticatedUser'
  <2> SUFFICES ASSUME NEW m \in MeReqs, me'[m].pc = "ok"
               PROVE  \E r \in CallbackReqs :
                        /\ callback'[r].sid = me'[m].sid
                        /\ callback'[r].pc = "redirected"
                        /\ grants'[callback'[r].code].subject = me'[m].subject
    BY DEF MeReportsAuthenticatedUser
  <2>1. PICK r \in CallbackReqs :
           /\ callback[r].sid = me[m].sid
           /\ callback[r].pc = "redirected"
           /\ grants[callback[r].code].subject = me[m].subject
    BY DEF RpInvariant, MeReportsAuthenticatedUser, rpVars
  <2>2. /\ callback'[r] = callback[r]
        /\ grants'[callback[r].code].subject
              = grants[callback[r].code].subject
    BY <1>1, <2>1, RedirectedStays
  <2> QED
    BY <2>1, <2>2 DEF rpVars
<1>5. LogoutIsFinal'
  <2> SUFFICES ASSUME NEW o \in LogoutReqs, logout[o].pc = "ok"
               PROVE  sessStore'[logout[o].sid] = None
    BY DEF LogoutIsFinal, rpVars
  <2>1. PICK i : i = logout[o].sid
    OBVIOUS
  <2>2. Issued(i) /\ sessStore[i] = None
    BY <2>1 DEF RpInvariant, LogoutIsFinal
  <2> QED
    BY <1>1, <2>1, <2>2, IssuedStaysDead
<1>6. /\ \A b \in Browsers : cookie'[b] # None => Issued(cookie[b])'
      /\ \A m \in MeReqs : me'[m].sid # None => Issued(me[m].sid)'
      /\ \A o \in LogoutReqs : logout'[o].sid # None => Issued(logout[o].sid)'
  BY <1>3 DEF RpInvariant, rpVars, Issued
<1> QED
  BY <1>1, <1>2, <1>4, <1>5, <1>6 DEF RpInvariant, rpVars

\* Session ids that are out stay so while the flow rests.
LEMMA RpRest ==
  ASSUME RpInvariant, UNCHANGED vars
  PROVE  /\ FlowInvariant' /\ TypeOK'
         /\ \A i : Issued(i) => Issued(i)'
         /\ LogoutIsFinal' \/ ~UNCHANGED logout
<1>1. FlowInvariant'
  BY FlowStep DEF RpInvariant
<1> QED
  BY <1>1 DEF FlowInvariant, Issued, vars, RpInvariant, LogoutIsFinal

LEMMA DeliverCallbackRp ==
  ASSUME RpInvariant, NEW r \in CallbackReqs, NEW b \in Browsers,
         DeliverCallback(r, b)
  PROVE  RpInvariant'
<1>1. FlowInvariant' /\ TypeOK' /\ \A i : Issued(i) => Issued(i)'
  BY RpRest DEF DeliverCallback
<1>2. callback[r].sid \in SessionIds
  BY DEF DeliverCallback, RpInvariant, FlowInvariant, TypeOK, CallbacksSound,
         CallbackSound, CallbackRequest
<1>3. RpTypeOK'
  BY <1>1, <1>2 DEF RpInvariant, RpTypeOK, DeliverCallback
<1>4. ASSUME NEW a \in Browsers, cookie'[a] # None
      PROVE  Issued(cookie[a])'
  <2>1. cookie'[a] = cookie[a] \/ cookie'[a] = callback[r].sid
    BY DEF RpInvariant, RpTypeOK, DeliverCallback
  <2>2. PICK i : i = cookie'[a]
    OBVIOUS
  <2>3. Issued(i)
    BY <1>4, <2>1, <2>2 DEF RpInvariant, DeliverCallback, Issued
  <2> QED
    BY <1>1, <2>2, <2>3 DEF Issued
<1>5. /\ MeReportsAuthenticatedUser' /\ LogoutIsFinal'
  BY DEF RpInvariant, DeliverCallback, vars, MeReportsAuthenticatedUser,
         LogoutIsFinal
<1> QED
  BY <1>1, <1>3, <1>4, <1>5 DEF RpInvariant, DeliverCallback, Issued, vars

LEMMA DeliverLogoutRp ==
  ASSUME RpInvariant, NEW o \in LogoutReqs, DeliverLogout(o)
  PROVE  RpInvariant'
<1>1. FlowInvariant' /\ TypeOK'
  BY RpRest DEF DeliverLogout
<1>2. RpTypeOK'
  BY <1>1 DEF RpInvariant, RpTypeOK, DeliverLogout
<1>3. \A a \in Browsers : cookie'[a] = cookie[a] \/ cookie'[a] = None
  BY DEF RpInvariant, RpTypeOK, DeliverLogout
<1>4. /\ MeReportsAuthenticatedUser' /\ LogoutIsFinal'
  BY DEF RpInvariant, DeliverLogout, vars, MeReportsAuthenticatedUser,
         LogoutIsFinal
<1> QED
  BY <1>1, <1>2, <1>3, <1>4 DEF RpInvariant, DeliverLogout, Issued, vars

\* Requests take their session id from a cookie.
LEMMA MeArrivesRp ==
  ASSUME RpInvariant, NEW m \in MeReqs, NEW b \in Browsers, MeArrives(m, b)
  PROVE  RpInvariant'
<1>1. FlowInvariant' /\ TypeOK'
  BY RpRest DEF MeArrives
<1>2. /\ me[m] \in MeRequest /\ cookie[b] \in SessionIds \cup {None}
      /\ me \in [MeReqs -> MeRequest]
  BY DEF RpInvariant, RpTypeOK
<1> DEFINE pc == IF cookie[b] = None THEN "unauthorized" ELSE "find"
<1>3. me' = [me EXCEPT ![m] = [me[m] EXCEPT !.sid = cookie[b], !.pc = pc]]
  BY <1>2 DEF MeArrives, MeRequest
<1>4. /\ me'[m] \in MeRequest /\ me'[m].pc = pc /\ me'[m].sid = cookie[b]
      /\ \A n \in MeReqs : n # m => me'[n] = me[n]
  BY <1>2, <1>3 DEF MeRequest
<1>5. RpTypeOK'
  BY <1>1, <1>2, <1>3, <1>4 DEF RpInvariant, RpTypeOK, MeArrives
<1>6. pc # "ok" /\ (pc = "find" => cookie[b] # None)
  OBVIOUS
<1>7. UNCHANGED <<vars, logout, cookie, delivered>>
  BY DEF MeArrives
<1> HIDE DEF pc
<1>8. MeReportsAuthenticatedUser' /\ LogoutIsFinal'
  BY <1>4, <1>6, <1>7 DEF RpInvariant, vars, MeReportsAuthenticatedUser,
                          LogoutIsFinal
<1>9. \A n \in MeReqs :
         /\ me'[n].sid # None => Issued(me[n].sid)'
         /\ me'[n].pc \in {"find", "ok"} => me'[n].sid # None
  BY <1>4, <1>6, <1>7 DEF RpInvariant, Issued, vars
<1> QED
  BY <1>1, <1>5, <1>7, <1>8, <1>9 DEF RpInvariant, Issued, vars

\* A stored session names the user of the one callback that has its id.
LEMMA SessionNamesUser ==
  ASSUME FlowInvariant, NEW i, Issued(i), sessStore[i] # None
  PROVE  \E r \in CallbackReqs :
            /\ callback[r].sid = i /\ callback[r].pc = "redirected"
            /\ grants[callback[r].code].subject = sessStore[i].subject
            /\ sessStore[i].subject \in Subjects
<1>1. PICK r \in CallbackReqs :
         callback[r].sid = i /\ callback[r].pc = "redirected"
  BY DEF Issued
<1>2. i \in SessionIds /\ i # None
  BY <1>1, NoneAssumption DEF FlowInvariant, TypeOK, CallbacksSound,
     CallbackSound, CallbackRequest
<1>3. PICK q \in CallbackReqs :
         callback[q].sid = i /\ callback[q].token.subject = sessStore[i].subject
  BY <1>2 DEF FlowInvariant, SessionsSound
<1>4. q = r
  BY <1>1, <1>2, <1>3 DEF FlowInvariant, CallbacksApart
<1>5. callback[r].token # None
  BY <1>1, <1>2 DEF FlowInvariant, CallbacksSound, CallbackSound
<1>6. grants[callback[r].code].subject = sessStore[i].subject
  BY <1>3, <1>4, <1>5 DEF FlowInvariant, CallbacksSound, CallbackSound
<1>7. sessStore[i] \in Session
  BY <1>2 DEF FlowInvariant, TypeOK
<1> QED
  BY <1>1, <1>6, <1>7 DEF Session

LEMMA MeFindRp ==
  ASSUME RpInvariant, NEW m \in MeReqs, MeFind(m)
  PROVE  RpInvariant'
<1>1. FlowInvariant' /\ TypeOK' /\ FlowInvariant
  BY RpRest DEF MeFind, RpInvariant
<1>2. /\ me[m] \in MeRequest /\ me \in [MeReqs -> MeRequest]
      /\ Issued(me[m].sid) /\ me[m].sid # None
  BY DEF RpInvariant, RpTypeOK, MeFind
<1>3. CASE sessStore[me[m].sid] = None
  <2>1. me' = [me EXCEPT ![m] = [me[m] EXCEPT !.pc = "unauthorized"]]
    BY <1>2, <1>3 DEF MeFind, MeRequest
  <2>2. /\ me'[m] \in MeRequest /\ me'[m].pc = "unauthorized"
        /\ me'[m].sid = me[m].sid
        /\ \A n \in MeReqs : n # m => me'[n] = me[n]
    BY <1>2, <2>1 DEF MeRequest
  <2>3. RpTypeOK'
    BY <1>1, <1>2, <2>1, <2>2 DEF RpInvariant, RpTypeOK, MeFind
  <2>4. MeReportsAuthenticatedUser' /\ LogoutIsFinal'
    BY <2>2 DEF RpInvariant, MeFind, vars, MeReportsAuthenticatedUser,
                LogoutIsFinal
  <2>5. \A n \in MeReqs :
           /\ me'[n].sid # None => Issued(me[n].sid)'
           /\ me'[n].pc \in {"find", "ok"} => me'[n].sid # None
    BY <1>2, <2>2 DEF RpInvariant, MeFind, Issued, vars
  <2> QED
    BY <1>1, <2>3, <2>4, <2>5 DEF RpInvariant, MeFind, Issued, vars
<1>4. CASE sessStore[me[m].sid] # None
  <2>0. PICK u \in Subjects, r \in CallbackReqs :
           /\ u = sessStore[me[m].sid].subject
           /\ callback[r].sid = me[m].sid /\ callback[r].pc = "redirected"
           /\ grants[callback[r].code].subject = u
    BY <1>1, <1>2, <1>4, SessionNamesUser
  <2>1. me' = [me EXCEPT ![m] = [me[m] EXCEPT !.pc = "ok", !.subject = u]]
    BY <1>2, <1>4, <2>0 DEF MeFind, MeRequest
  <2>2. /\ me'[m] \in MeRequest /\ me'[m].pc = "ok"
        /\ me'[m].sid = me[m].sid /\ me'[m].subject = u
        /\ \A n \in MeReqs : n # m => me'[n] = me[n]
    BY <1>2, <2>1 DEF MeRequest
  <2>3. RpTypeOK'
    BY <1>1, <1>2, <2>1, <2>2 DEF RpInvariant, RpTypeOK, MeFind
  <2>4. MeReportsAuthenticatedUser' /\ LogoutIsFinal'
    BY <2>0, <2>2 DEF RpInvariant, MeFind, vars, MeReportsAuthenticatedUser,
                      LogoutIsFinal
  <2>5. \A n \in MeReqs :
           /\ me'[n].sid # None => Issued(me[n].sid)'
           /\ me'[n].pc \in {"find", "ok"} => me'[n].sid # None
    BY <1>2, <2>2 DEF RpInvariant, MeFind, Issued, vars
  <2> QED
    BY <1>1, <2>3, <2>4, <2>5 DEF RpInvariant, MeFind, Issued, vars
<1> QED
  BY <1>3, <1>4

LEMMA MeFailsRp ==
  ASSUME RpInvariant, NEW m \in MeReqs, MeFails(m)
  PROVE  RpInvariant'
<1>1. FlowInvariant' /\ TypeOK'
  BY RpRest DEF MeFails
<1>2. me[m] \in MeRequest /\ me \in [MeReqs -> MeRequest]
  BY DEF RpInvariant, RpTypeOK
<1>3. PICK end \in {"serverError", "lost"} :
         me' = [me EXCEPT ![m] = [me[m] EXCEPT !.pc = end]]
  BY <1>2 DEF MeFails, MeRequest
<1>4. /\ me'[m] \in MeRequest /\ me'[m].pc = end /\ me'[m].sid = me[m].sid
      /\ \A n \in MeReqs : n # m => me'[n] = me[n]
  BY <1>2, <1>3 DEF MeRequest
<1>5. RpTypeOK'
  BY <1>1, <1>2, <1>3, <1>4 DEF RpInvariant, RpTypeOK, MeFails
<1>6. MeReportsAuthenticatedUser' /\ LogoutIsFinal'
  BY <1>4 DEF RpInvariant, MeFails, vars, MeReportsAuthenticatedUser,
              LogoutIsFinal
<1>7. \A n \in MeReqs :
         /\ me'[n].sid # None => Issued(me[n].sid)'
         /\ me'[n].pc \in {"find", "ok"} => me'[n].sid # None
  BY <1>4 DEF RpInvariant, MeFails, Issued, vars
<1> QED
  BY <1>1, <1>5, <1>6, <1>7 DEF RpInvariant, MeFails, Issued, vars
\* A logout that only moves on.
LEMMA LogoutMovesRp ==
  ASSUME RpInvariant, NEW o \in LogoutReqs, NEW e \in LogoutRequest,
         UNCHANGED <<vars, me, cookie, delivered>>,
         logout' = [logout EXCEPT ![o] = e],
         e.sid # None => Issued(e.sid),
         e.pc # "ok", e.pc \in {"find", "delete"} => e.sid # None
  PROVE  RpInvariant'
<1>1. FlowInvariant' /\ TypeOK'
  BY RpRest
<1>2. /\ logout \in [LogoutReqs -> LogoutRequest] /\ logout'[o] = e
      /\ \A p \in LogoutReqs : p # o => logout'[p] = logout[p]
  BY DEF RpInvariant, RpTypeOK
<1>3. RpTypeOK'
  BY <1>1, <1>2 DEF RpInvariant, RpTypeOK
<1>4. MeReportsAuthenticatedUser' /\ LogoutIsFinal'
  BY <1>2 DEF RpInvariant, vars, MeReportsAuthenticatedUser, LogoutIsFinal
<1>5. \A p \in LogoutReqs :
         /\ logout'[p].sid # None => Issued(logout[p].sid)'
         /\ logout'[p].pc \in {"find", "delete", "ok"}
               => logout'[p].sid # None
  BY <1>2 DEF RpInvariant, Issued, vars
<1> QED
  BY <1>1, <1>3, <1>4, <1>5 DEF RpInvariant, Issued, vars

LEMMA LogoutArrivesRp ==
  ASSUME RpInvariant, NEW o \in LogoutReqs, NEW b \in Browsers,
         LogoutArrives(o, b)
  PROVE  RpInvariant'
<1> DEFINE e == [pc |-> IF cookie[b] = None THEN "unauthorized" ELSE "find",
                 sid |-> cookie[b], browser |-> b]
<1>1. e \in LogoutRequest
  BY DEF RpInvariant, RpTypeOK, LogoutRequest
<1>2. /\ e.sid # None => Issued(e.sid)
      /\ e.pc # "ok" /\ e.pc # "delete" /\ (e.pc = "find" => e.sid # None)
  BY DEF RpInvariant
<1>3. logout' = [logout EXCEPT ![o] = e]
  BY DEF LogoutArrives
<1> HIDE DEF e
<1> QED
  BY <1>1, <1>2, <1>3, LogoutMovesRp DEF LogoutArrives

LEMMA LogoutFindRp ==
  ASSUME RpInvariant, NEW o \in LogoutReqs, LogoutFind(o) \/ LogoutFails(o)
  PROVE  RpInvariant'
<1>1. logout[o] \in LogoutRequest /\ logout \in [LogoutReqs -> LogoutRequest]
  BY DEF RpInvariant, RpTypeOK
<1>2. PICK pc \in {"unauthorized", "delete", "serverError", "lost"} :
         logout' = [logout EXCEPT ![o] = [logout[o] EXCEPT !.pc = pc]]
  <2>1. CASE LogoutFind(o)
    BY <1>1, <2>1 DEF LogoutFind, LogoutRequest
  <2>2. CASE LogoutFails(o)
    BY <1>1, <2>2 DEF LogoutFails, LogoutRequest
  <2> QED
    BY <2>1, <2>2
<1> DEFINE e == [logout[o] EXCEPT !.pc = pc]
<1>3. e \in LogoutRequest /\ e.pc = pc /\ e.sid = logout[o].sid
  BY <1>1 DEF LogoutRequest
<1>4. logout[o].sid # None /\ Issued(logout[o].sid)
  BY DEF RpInvariant, LogoutFind, LogoutFails
<1>5. UNCHANGED <<vars, me, cookie, delivered>>
  BY DEF LogoutFind, LogoutFails
<1>6. logout' = [logout EXCEPT ![o] = e]
  BY <1>2
<1> HIDE DEF e
<1> QED
  BY <1>3, <1>4, <1>5, <1>6, LogoutMovesRp

\* The deletion ends the session and nothing else.
LEMMA LogoutDropsRp ==
  ASSUME RpInvariant, NEW o \in LogoutReqs,
         LogoutDelete(o) \/ LogoutReplyLost(o)
  PROVE  RpInvariant'
<1>0. /\ UNCHANGED <<txStore, grants, login, callback, me, cookie, delivered>>
      /\ sessStore' = [sessStore EXCEPT ![logout[o].sid] = None]
      /\ logout[o].pc = "delete"
  BY DEF LogoutDelete, LogoutReplyLost
<1>1. /\ logout[o] \in LogoutRequest
      /\ logout \in [LogoutReqs -> LogoutRequest]
      /\ logout[o].sid \in SessionIds
      /\ sessStore \in [SessionIds -> Session \cup {None}]
  BY <1>0 DEF RpInvariant, RpTypeOK, LogoutRequest, TypeOK
<1>2. FlowInvariant'
  BY <1>0, <1>1, SessionDropFlow DEF RpInvariant
<1>3. PICK pc \in {"ok", "serverError"} :
         logout' = [logout EXCEPT ![o] = [logout[o] EXCEPT !.pc = pc]]
  <2>1. CASE LogoutDelete(o)
    BY <1>1, <2>1 DEF LogoutDelete, LogoutRequest
  <2>2. CASE LogoutReplyLost(o)
    BY <1>1, <2>2 DEF LogoutReplyLost, LogoutRequest
  <2> QED
    BY <2>1, <2>2
<1>4. /\ logout'[o] \in LogoutRequest /\ logout'[o].pc = pc
      /\ logout'[o].sid = logout[o].sid
      /\ \A p \in LogoutReqs : p # o => logout'[p] = logout[p]
  BY <1>1, <1>3 DEF LogoutRequest
<1>5. RpTypeOK'
  BY <1>0, <1>1, <1>2, <1>3, <1>4 DEF RpInvariant, RpTypeOK, FlowInvariant
<1>6. MeReportsAuthenticatedUser'
  BY <1>0 DEF RpInvariant, MeReportsAuthenticatedUser
<1>7. LogoutIsFinal'
  <2> SUFFICES ASSUME NEW p \in LogoutReqs, logout'[p].pc = "ok"
               PROVE  sessStore'[logout'[p].sid] = None
    BY DEF LogoutIsFinal
  <2>1. CASE p = o
    BY <1>0, <1>1, <1>4, <2>1
  <2>2. CASE p # o
    <3>1. logout[p].sid \in SessionIds
      BY <1>4, <2>2 DEF RpInvariant, RpTypeOK, LogoutRequest
    <3>2. sessStore[logout[p].sid] = None
      BY <1>4, <2>2 DEF RpInvariant, LogoutIsFinal
    <3> QED
      BY <1>0, <1>1, <1>4, <2>2, <3>1, <3>2
  <2> QED
    BY <2>1, <2>2
<1>8. \A p \in LogoutReqs :
         /\ logout'[p].sid # None => Issued(logout[p].sid)'
         /\ logout'[p].pc \in {"find", "delete", "ok"}
               => logout'[p].sid # None
  BY <1>0, <1>4 DEF RpInvariant, Issued
<1> QED
  BY <1>0, <1>2, <1>5, <1>6, <1>7, <1>8 DEF RpInvariant, Issued

LEMMA StepRp == RpInvariant /\ [RpNext]_allVars => RpInvariant'
<1> SUFFICES ASSUME RpInvariant, [RpNext]_allVars PROVE RpInvariant'
  OBVIOUS
<1>1. CASE Next /\ UNCHANGED rpVars
  BY <1>1, RpFlowStep
<1>2. CASE UNCHANGED allVars
  <2>1. [Next]_vars /\ UNCHANGED rpVars
    BY <1>2 DEF allVars
  <2> QED
    BY <2>1, RpFlowStep
<1> QED
  BY <1>1, <1>2, DeliverCallbackRp, DeliverLogoutRp, MeArrivesRp, MeFindRp,
     MeFailsRp, LogoutArrivesRp, LogoutFindRp, LogoutDropsRp DEF RpNext

\* Every session id outside the server comes from a redirect, in every
\* reachable state of the whole relying party (CookieManager and all four
\* usecases).
THEOREM RpInvariantHolds == RpSpec => []RpInvariant
BY InitRp, StepRp, PTL DEF RpSpec

\* Every request and every cookie keeps its type.
THEOREM RpTypesHold == RpSpec => []RpTypeOK
<1>1. RpInvariant => RpTypeOK
  BY DEF RpInvariant
<1> QED
  BY <1>1, RpInvariantHolds, PTL

\* /me answers with the authenticated user (MeUsecase.Execute).
THEOREM MeIsTruthful == RpSpec => []MeReportsAuthenticatedUser
<1>1. RpInvariant => MeReportsAuthenticatedUser
  BY DEF RpInvariant
<1> QED
  BY <1>1, RpInvariantHolds, PTL

\* A session whose logout succeeded is gone for good
\* (LogoutUsecase.Execute, redisSessionRepository.Save).
THEOREM LogoutsAreFinal == RpSpec => []LogoutIsFinal
<1>1. RpInvariant => LogoutIsFinal
  BY DEF RpInvariant
<1> QED
  BY <1>1, RpInvariantHolds, PTL

-----------------------------------------------------------------------------
(* Dead cookies and the contract.                                          *)

\* What a step does to the sessions.
LEMMA RpStepKinds ==
  ASSUME RpInvariant, [RpNext]_allVars
  PROVE  \/ [Next]_vars
         \/ \E o \in LogoutReqs :
               /\ logout[o].sid \in SessionIds
               /\ sessStore' = [sessStore EXCEPT ![logout[o].sid] = None]
               /\ UNCHANGED <<txStore, grants, login, callback>>
<1>1. ASSUME NEW o \in LogoutReqs, LogoutDelete(o) \/ LogoutReplyLost(o)
      PROVE  /\ logout[o].sid \in SessionIds
             /\ sessStore' = [sessStore EXCEPT ![logout[o].sid] = None]
             /\ UNCHANGED <<txStore, grants, login, callback>>
  BY <1>1 DEF LogoutDelete, LogoutReplyLost, RpInvariant, RpTypeOK,
              LogoutRequest
<1>2. CASE UNCHANGED allVars
  BY <1>2 DEF allVars
<1> QED
  BY <1>1, <1>2 DEF RpNext, DeliverCallback, DeliverLogout, MeArrives, MeFind,
                    MeFails, LogoutArrives, LogoutFind, LogoutFails

\* A cookie that names no stored session never names one again (Save).
THEOREM DeadCookies == RpSpec => DeadCookieStaysDead
<1> DEFINE A == \A b \in Browsers :
                   cookie[b] # None /\ cookie'[b] = cookie[b]
                      /\ sessStore[cookie[b]] = None
                   => sessStore'[cookie[b]] = None
<1>1. RpInvariant /\ [RpNext]_allVars => A
  <2> SUFFICES ASSUME RpInvariant, [RpNext]_allVars, NEW b \in Browsers,
                      cookie[b] # None, sessStore[cookie[b]] = None
               PROVE  sessStore'[cookie[b]] = None
    OBVIOUS
  <2>1. PICK i : i = cookie[b]
    OBVIOUS
  <2>2. /\ Issued(i) /\ sessStore[i] = None /\ FlowInvariant
        /\ i \in SessionIds /\ sessStore \in [SessionIds -> Session \cup {None}]
    BY <2>1 DEF RpInvariant, RpTypeOK, TypeOK
  <2>3. CASE [Next]_vars
    BY <2>1, <2>2, <2>3, IssuedStaysDead
  <2>4. ASSUME NEW o \in LogoutReqs,
               sessStore' = [sessStore EXCEPT ![logout[o].sid] = None]
        PROVE  sessStore'[i] = None
    BY <2>2, <2>4
  <2> QED
    BY <2>1, <2>3, <2>4, RpStepKinds
<1>2. RpInvariant /\ [RpNext]_allVars => [A]_allVars
  BY <1>1
<1> QED
  BY <1>2, RpInvariantHolds, PTL DEF RpSpec, DeadCookieStaysDead

LEMMA RpContractStep ==
  RpInvariant /\ [RpNext]_allVars => [Contract!Next]_Contract!vars
<1> SUFFICES ASSUME RpInvariant, [RpNext]_allVars
             PROVE  [Contract!Next]_Contract!vars
  OBVIOUS
<1>0. FlowInvariant
  BY DEF RpInvariant
<1>1. CASE [Next]_vars
  BY <1>0, <1>1, ContractStep
<1>2. ASSUME NEW i \in SessionIds,
             sessStore' = [sessStore EXCEPT ![i] = None],
             UNCHANGED <<txStore, grants, login, callback>>
      PROVE  [Contract!Next]_Contract!vars
  <2>1. /\ Tried' = Tried
        /\ \A q \in Tried : callback'[q].sid = callback[q].sid
        /\ UNCHANGED <<ProofOf, SpentCodes>>
    BY <1>2 DEF Tried, ProofOf, SpentCodes
  <2>2. CASE sessStore[i] # None
    <3>1. Contract!Close(i)
      BY <1>0, <1>2, <2>1, <2>2, DropCloses
    <3> QED
      BY <3>1 DEF Contract!Next
  <2>3. CASE sessStore[i] = None
    <3>1. sessStore' = sessStore
      BY <1>0, <1>2, <2>3 DEF FlowInvariant, TypeOK
    <3> QED
      BY <1>2, <3>1 DEF Contract!vars, Tried, ProofOf, SpentCodes, Life, Owner
  <2> QED
    BY <2>2, <2>3
<1>3. ASSUME NEW o \in LogoutReqs, logout[o].sid \in SessionIds,
             sessStore' = [sessStore EXCEPT ![logout[o].sid] = None],
             UNCHANGED <<txStore, grants, login, callback>>
      PROVE  [Contract!Next]_Contract!vars
  <2>1. PICK i \in SessionIds : i = logout[o].sid
    BY <1>3
  <2> QED
    BY <1>2, <1>3, <2>1
<1> QED
  BY <1>1, <1>3, RpStepKinds

\* /me and /logout keep the contract of the flow.
THEOREM RelyingPartyKeepsContract == RpSpec => RpKeepsContract
<1>1. RpInit => Contract!Init
  BY ContractInit DEF RpInit
<1> QED
  BY <1>1, RpContractStep, RpInvariantHolds, PTL
  DEF RpSpec, RpKeepsContract, Contract!Spec

\* Nor do /me, /logout and late responses multiply sessions.
THEOREM RpSessionsWithinSignIns == RpSpec => []SessionsWithinSignIns
<1>1. RpInit => FinitelyRedeemed
  BY NoneRedeemed DEF RpInit
<1>2. RpInvariant /\ FinitelyRedeemed /\ [RpNext]_allVars => FinitelyRedeemed'
  <2> SUFFICES ASSUME RpInvariant, FinitelyRedeemed, [RpNext]_allVars
               PROVE  FinitelyRedeemed'
    OBVIOUS
  <2>1. CASE [Next]_vars
    BY <2>1, FewRedeemed DEF RpInvariant
  <2>2. CASE UNCHANGED grants
    BY <2>2 DEF FinitelyRedeemed, SignInsOf
  <2> QED
    BY <2>1, <2>2, RpStepKinds
<1>3. RpInvariant => FlowInvariant
  BY DEF RpInvariant
<1> QED
  BY <1>1, <1>2, <1>3, SessionsCounted, RpInvariantHolds, PTL DEF RpSpec
=============================================================================
