---------------------------- MODULE RelyingParty ----------------------------
(***************************************************************************)
(* The whole relying party: the authorization-code flow of LoginFlow with  *)
(* GET /me (MeHandler, MeUsecase), POST /logout (LogoutHandler,            *)
(* LogoutUsecase) and the session cookie that browsers carry between them  *)
(* (CookieManager).  Responses reach a browser in any order, and late.     *)
(***************************************************************************)
EXTENDS LoginFlow

CONSTANTS
    Browsers,    \* cookie jars
    MeReqs,      \* GET /me requests
    LogoutReqs   \* POST /logout requests

VARIABLES
    me,         \* local state and outcome of each /me request
    logout,     \* local state and outcome of each /logout request
    cookie,     \* the session_id cookie of each browser
    delivered   \* responses with a Set-Cookie header that have arrived

rpVars == <<me, logout, cookie, delivered>>
allVars == <<vars, rpVars>>

-----------------------------------------------------------------------------
\* 401 is "unauthorized", 500 "serverError", 200 "ok".
MeRequest ==
    [pc : {"idle", "find", "unauthorized", "serverError", "ok", "lost"},
     sid : SessionIds \cup {None}, subject : Subjects \cup {None}]

LogoutRequest ==
    [pc : {"idle", "find", "delete", "unauthorized", "serverError", "ok",
           "lost"},
     sid : SessionIds \cup {None}, browser : Browsers \cup {None}]

RpTypeOK ==
    /\ TypeOK
    /\ me \in [MeReqs -> MeRequest]
    /\ logout \in [LogoutReqs -> LogoutRequest]
    /\ cookie \in [Browsers -> SessionIds \cup {None}]
    /\ delivered \subseteq CallbackReqs \cup LogoutReqs

RpInit ==
    /\ Init
    /\ me = [m \in MeReqs |-> [pc |-> "idle", sid |-> None,
                               subject |-> None]]
    /\ logout = [o \in LogoutReqs |-> [pc |-> "idle", sid |-> None,
                                       browser |-> None]]
    /\ cookie = [b \in Browsers |-> None]
    /\ delivered = {}

-----------------------------------------------------------------------------
(* The browser.                                                            *)

\* The 302 of a callback arrives; its cookie has neither Expires nor Max-Age
\* and replaces the one of the same name and path.
DeliverCallback(r, b) ==
    /\ callback[r].pc = "redirected"
    /\ r \notin delivered
    /\ cookie' = [cookie EXCEPT ![b] = callback[r].sid]
    /\ delivered' = delivered \cup {r}
    /\ UNCHANGED <<vars, me, logout>>

\* The 200 of a logout arrives and drops whatever cookie is there by then.
DeliverLogout(o) ==
    /\ logout[o].pc = "ok"
    /\ o \notin delivered
    /\ cookie' = [cookie EXCEPT ![logout[o].browser] = None]
    /\ delivered' = delivered \cup {o}
    /\ UNCHANGED <<vars, me, logout>>

-----------------------------------------------------------------------------
(* GET /me.                                                                *)

MeArrives(m, b) ==
    /\ me[m].pc = "idle"
    /\ me' = [me EXCEPT ![m].sid = cookie[b],
                        ![m].pc = IF cookie[b] = None THEN "unauthorized"
                                  ELSE "find"]
    /\ UNCHANGED <<vars, logout, cookie, delivered>>

MeFind(m) ==
    /\ me[m].pc = "find"
    /\ \/ /\ sessStore[me[m].sid] = None
          /\ me' = [me EXCEPT ![m].pc = "unauthorized"]
       \/ /\ sessStore[me[m].sid] # None
          /\ me' = [me EXCEPT ![m].pc = "ok",
                              ![m].subject = sessStore[me[m].sid].subject]
    /\ UNCHANGED <<vars, logout, cookie, delivered>>

MeFails(m) ==
    /\ me[m].pc = "find"
    /\ \E end \in {"serverError", "lost"} : me' = [me EXCEPT ![m].pc = end]
    /\ UNCHANGED <<vars, logout, cookie, delivered>>

-----------------------------------------------------------------------------
(* POST /logout.                                                           *)

LogoutArrives(o, b) ==
    /\ logout[o].pc = "idle"
    /\ logout' = [logout EXCEPT
                    ![o] = [pc |-> IF cookie[b] = None THEN "unauthorized"
                                   ELSE "find",
                            sid |-> cookie[b], browser |-> b]]
    /\ UNCHANGED <<vars, me, cookie, delivered>>

LogoutFind(o) ==
    /\ logout[o].pc = "find"
    /\ logout' = [logout EXCEPT
                    ![o].pc = IF sessStore[logout[o].sid] = None
                              THEN "unauthorized" ELSE "delete"]
    /\ UNCHANGED <<vars, me, cookie, delivered>>

\* Fault: the session is left to its TTL.
LogoutKeeps(o) ==
    /\ logout[o].pc = "delete"
    /\ logout' = [logout EXCEPT ![o].pc = "ok"]
    /\ UNCHANGED <<vars, me, cookie, delivered>>

\* DEL succeeds whether or not the key still exists.
LogoutDelete(o) ==
    /\ logout[o].pc = "delete"
    /\ sessStore' = [sessStore EXCEPT ![logout[o].sid] = None]
    /\ logout' = [logout EXCEPT ![o].pc = "ok"]
    /\ UNCHANGED <<txStore, grants, login, callback, me, cookie, delivered>>

LogoutFails(o) ==
    /\ logout[o].pc \in {"find", "delete"}
    /\ \E end \in {"serverError", "lost"} :
          logout' = [logout EXCEPT ![o].pc = end]
    /\ UNCHANGED <<vars, me, cookie, delivered>>

\* Redis deleted the session but its reply was lost: 500 all the same.
LogoutReplyLost(o) ==
    /\ logout[o].pc = "delete"
    /\ sessStore' = [sessStore EXCEPT ![logout[o].sid] = None]
    /\ logout' = [logout EXCEPT ![o].pc = "serverError"]
    /\ UNCHANGED <<txStore, grants, login, callback, me, cookie, delivered>>

-----------------------------------------------------------------------------
RpNext ==
    \/ Next /\ UNCHANGED rpVars
    \/ \E r \in CallbackReqs, b \in Browsers : DeliverCallback(r, b)
    \/ \E o \in LogoutReqs : DeliverLogout(o)
    \/ \E m \in MeReqs :
          (\E b \in Browsers : MeArrives(m, b)) \/ MeFind(m) \/ MeFails(m)
    \/ \E o \in LogoutReqs :
          \/ \E b \in Browsers : LogoutArrives(o, b)
          \/ LogoutFind(o)
          \/ LogoutDelete(o)
          \/ LogoutFails(o)
          \/ LogoutReplyLost(o)

RpSpec == RpInit /\ [][RpNext]_allVars

-----------------------------------------------------------------------------
(* Safety.                                                                 *)

\* /me answers 200 only with the user whom the provider authenticated for
\* the session named by the request's cookie, also when logins, logouts and
\* expiries go on meanwhile (MeUsecase.Execute).
MeReportsAuthenticatedUser ==
    \A m \in MeReqs : me[m].pc = "ok" =>
        \E r \in CallbackReqs :
            /\ callback[r].sid = me[m].sid
            /\ callback[r].pc = "redirected"
            /\ grants[callback[r].code].subject = me[m].subject

\* A session whose logout answered 200 is gone for good, also with a second
\* logout, a /me or a late response under way: no pipeline of Save brings it
\* back (LogoutUsecase.Execute, redisSessionRepository.Save).
LogoutIsFinal ==
    \A o \in LogoutReqs : logout[o].pc = "ok" => sessStore[logout[o].sid] = None

\* The session id was handed to a browser.
Issued(i) ==
    \E r \in CallbackReqs :
        callback[r].sid = i /\ callback[r].pc = "redirected"

\* Every session id outside the server, in a cookie or in a request, comes
\* from a redirect of a callback; the above follow from it.
RpInvariant ==
    /\ FlowInvariant
    /\ RpTypeOK
    /\ \A b \in Browsers : cookie[b] # None => Issued(cookie[b])
    /\ \A m \in MeReqs :
          /\ me[m].sid # None => Issued(me[m].sid)
          /\ me[m].pc \in {"find", "ok"} => me[m].sid # None
    /\ \A o \in LogoutReqs :
          /\ logout[o].sid # None => Issued(logout[o].sid)
          /\ logout[o].pc \in {"find", "delete", "ok"} => logout[o].sid # None
    /\ MeReportsAuthenticatedUser
    /\ LogoutIsFinal

\* A cookie that names no stored session never names one again: no browser
\* is logged in anew without a new cookie.
DeadCookieStaysDead ==
    [][\A b \in Browsers :
          cookie[b] # None /\ cookie'[b] = cookie[b]
             /\ sessStore[cookie[b]] = None
          => sessStore'[cookie[b]] = None]_allVars

\* With /me and /logout beside the flow the contract still holds: a session
\* ends by logout or by its TTL, and no other way brings it about.
RpKeepsContract == Contract!Spec
=============================================================================
