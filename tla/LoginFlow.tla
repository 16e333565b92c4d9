------------------------------ MODULE LoginFlow ------------------------------
(***************************************************************************)
(* The authorization-code flow of the relying party: GET /login and        *)
(* GET /callback (LoginHandler, LoginUsecase, CallbackHandler,             *)
(* CallbackUsecase), the two Redis repositories they write, and the OpenID *)
(* provider that issues and redeems authorization codes.                   *)
(*                                                                         *)
(* Every HTTP request is served by its own goroutine, possibly in another  *)
(* instance; requests share nothing but Redis and the provider, so one     *)
(* action is one call that leaves the process (a Redis command, an HTTP    *)
(* exchange) together with the code up to the next such call.  A request   *)
(* identity is used once: a finished request keeps the outcome it had.     *)
(*                                                                         *)
(* A Redis call may fail without effect, or take effect and lose its       *)
(* reply; an instance may die between any two calls (LoginLost,            *)
(* CallbackLost).  Save is a Redis pipeline, not a transaction, so HSET    *)
(* and EXPIRE are two steps.  256-bit random values are fresh values.      *)
(***************************************************************************)
EXTENDS Integers, FiniteSets

CONSTANTS
    LoginReqs,       \* GET /login requests
    CallbackReqs,    \* GET /callback requests
    States,          \* values RandomGenerator may return for state,
    Nonces,          \*   for nonce
    SessionIds,      \*   and for session ids
    Codes,           \* authorization codes the provider may issue
    Subjects,        \* end users the provider may authenticate
    ReturnTos,       \* return_to parameters, each standing for its origin
    AllowedOrigins,  \* ALLOWED_RETURN_TO_ORIGINS
    Idps,            \* idp parameters
    Registry,        \* keys of model.Registry
    TransactionTtl,  \* TRANSACTION_TTL_MINUTES, any integer
    SessionTtl,      \* SESSION_TTL_MINUTES, any integer
    None             \* an absent key, parameter or local variable

ASSUME ConfigAssumption ==
    /\ AllowedOrigins \subseteq ReturnTos
    /\ Registry \subseteq Idps
    /\ TransactionTtl \in Int
    /\ SessionTtl \in Int

VARIABLES
    txStore,    \* Redis hashes oidc:tx:{state}
    sessStore,  \* Redis hashes oidc:sess:{session_id}
    grants,     \* what the provider recorded for each code it issued
    login,      \* local state and outcome of each /login request
    callback    \* local state and outcome of each /callback request

vars == <<txStore, sessStore, grants, login, callback>>

-----------------------------------------------------------------------------
(* Data.  expires tells whether the Redis key has a TTL.                   *)

Transaction == [nonce : Nonces, returnTo : ReturnTos, idp : Idps,
                expires : BOOLEAN]

\* AppSession: the profile fields e-mail, name and picture travel with the
\* subject and are not told apart.
Session == [subject : Subjects, expires : BOOLEAN]

Grant == [nonce : Nonces, subject : Subjects, redeemed : BOOLEAN]

IdToken == [nonce : Nonces, subject : Subjects]

ASSUME NoneAssumption ==
    None \notin Transaction \cup Session \cup Grant \cup IdToken
                \cup States \cup Nonces \cup SessionIds \cup Codes
                \cup Subjects \cup ReturnTos \cup Idps

\* The outcomes are the responses: 400 is "badRequest", 500 "serverError",
\* 302 "redirected"; the three 403 of /callback carry their error code.
LoginActive == {"metadata", "hset", "expire"}
LoginEnded == {"badRequest", "serverError", "redirected", "lost"}

CallbackActive ==
    {"find", "delete", "metadata", "exchange", "verify", "hset", "expire"}
CallbackEnded ==
    {"badRequest", "authorizationError", "stateMismatch", "tokenRejected",
     "serverError", "redirected", "lost"}

LoginRequest ==
    [pc : {"idle"} \cup LoginActive \cup LoginEnded,
     idp : Idps \cup {None}, returnTo : ReturnTos \cup {None},
     state : States \cup {None}, nonce : Nonces \cup {None}]

CallbackRequest ==
    [pc : {"idle"} \cup CallbackActive \cup CallbackEnded,
     state : States \cup {None}, code : Codes \cup {None},
     tx : Transaction \cup {None}, token : IdToken \cup {None},
     sid : SessionIds \cup {None}]

TypeOK ==
    /\ txStore \in [States -> Transaction \cup {None}]
    /\ sessStore \in [SessionIds -> Session \cup {None}]
    /\ grants \in [Codes -> Grant \cup {None}]
    /\ login \in [LoginReqs -> LoginRequest]
    /\ callback \in [CallbackReqs -> CallbackRequest]

Init ==
    /\ txStore = [s \in States |-> None]
    /\ sessStore = [i \in SessionIds |-> None]
    /\ grants = [c \in Codes |-> None]
    /\ login = [l \in LoginReqs |->
                  [pc |-> "idle", idp |-> None, returnTo |-> None,
                   state |-> None, nonce |-> None]]
    /\ callback = [r \in CallbackReqs |->
                     [pc |-> "idle", state |-> None, code |-> None,
                      tx |-> None, token |-> None, sid |-> None]]

-----------------------------------------------------------------------------
(* Redis commands of the repositories.                                     *)

\* EXPIRE on a key: a TTL that is not positive deletes it at once.
WithTtl(entry, ttl) ==
    IF entry = None \/ ttl <= 0 THEN None ELSE [entry EXCEPT !.expires = TRUE]

\* The hash that Save writes for a login's transaction.
TransactionHash(l) ==
    [nonce |-> login[l].nonce, returnTo |-> login[l].returnTo,
     idp |-> login[l].idp, expires |-> FALSE]

\* Fault: the arguments of NewAppSession are swapped.
SessionHashSwapped(r) == [subject |-> callback[r].sid, expires |-> FALSE]

\* The hash that Save writes for a verified ID token.
SessionHash(r) == [subject |-> callback[r].token.subject, expires |-> FALSE]

\* Redis drops a transaction or a session whose TTL has run out.
TransactionExpires(s) ==
    /\ txStore[s] # None
    /\ txStore[s].expires
    /\ txStore' = [txStore EXCEPT ![s] = None]
    /\ UNCHANGED <<sessStore, grants, login, callback>>

SessionExpires(i) ==
    /\ sessStore[i] # None
    /\ sessStore[i].expires
    /\ sessStore' = [sessStore EXCEPT ![i] = None]
    /\ UNCHANGED <<txStore, grants, login, callback>>

-----------------------------------------------------------------------------
(* GET /login.                                                             *)

UsedStates == {login[l].state : l \in LoginReqs}
UsedNonces == {login[l].nonce : l \in LoginReqs}

\* Fault: any origin passes.
AnyReturnTo(returnTo) == returnTo \in ReturnTos

ValidReturnTo(returnTo) == returnTo \in AllowedOrigins

LoginRefused(l, idp, returnTo) ==
    /\ login[l].pc = "idle"
    /\ idp \notin Registry \/ ~ValidReturnTo(returnTo)
    /\ login' = [login EXCEPT ![l] =
                  [@ EXCEPT !.pc = "badRequest",
                            !.idp = idp,
                            !.returnTo = returnTo]]
    /\ UNCHANGED <<txStore, sessStore, grants, callback>>

LoginAccepted(l, idp, returnTo) ==
    /\ login[l].pc = "idle"
    /\ idp \in Registry
    /\ ValidReturnTo(returnTo)
    /\ login' = [login EXCEPT ![l] =
                  [@ EXCEPT !.pc = "metadata",
                            !.idp = idp,
                            !.returnTo = returnTo]]
    /\ UNCHANGED <<txStore, sessStore, grants, callback>>

\* Fault: the generator may repeat a state.
LoginPreparedAnyState(l) ==
    /\ login[l].pc = "metadata"
    /\ \E s \in States, n \in Nonces \ UsedNonces :
          login' = [login EXCEPT ![l] =
                     [@ EXCEPT !.pc = "hset", !.state = s, !.nonce = n]]
    /\ UNCHANGED <<txStore, sessStore, grants, callback>>

\* The provider metadata is there; state and nonce are generated.
LoginPrepared(l) ==
    /\ login[l].pc = "metadata"
    /\ \E s \in States \ UsedStates, n \in Nonces \ UsedNonces :
          login' = [login EXCEPT ![l] =
                     [@ EXCEPT !.pc = "hset", !.state = s, !.nonce = n]]
    /\ UNCHANGED <<txStore, sessStore, grants, callback>>

LoginSaveHSet(l) ==
    /\ login[l].pc = "hset"
    /\ txStore' = [txStore EXCEPT ![login[l].state] = TransactionHash(l)]
    /\ login' = [login EXCEPT ![l].pc = "expire"]
    /\ UNCHANGED <<sessStore, grants, callback>>

\* Fault: Save sends no EXPIRE.
LoginSaveNoExpire(l) ==
    /\ login[l].pc = "expire"
    /\ login' = [login EXCEPT ![l].pc = "redirected"]
    /\ UNCHANGED <<txStore, sessStore, grants, callback>>

LoginSaveExpire(l) ==
    /\ login[l].pc = "expire"
    /\ txStore' = [txStore EXCEPT
                     ![login[l].state] = WithTtl(@, TransactionTtl)]
    /\ login' = [login EXCEPT ![l].pc = "redirected"]
    /\ UNCHANGED <<sessStore, grants, callback>>

\* Discovery, the generator or a Redis command fails; nothing more is
\* written, but an HSET already applied stays.
LoginFails(l) ==
    /\ login[l].pc \in LoginActive
    /\ login' = [login EXCEPT ![l].pc = "serverError"]
    /\ UNCHANGED <<txStore, sessStore, grants, callback>>

\* The whole pipeline is applied and its reply lost.
LoginReplyLost(l) ==
    /\ login[l].pc = "expire"
    /\ txStore' = [txStore EXCEPT
                     ![login[l].state] = WithTtl(@, TransactionTtl)]
    /\ login' = [login EXCEPT ![l].pc = "serverError"]
    /\ UNCHANGED <<sessStore, grants, callback>>

LoginLost(l) ==
    /\ login[l].pc \in LoginActive
    /\ login' = [login EXCEPT ![l].pc = "lost"]
    /\ UNCHANGED <<txStore, sessStore, grants, callback>>

LoginArrives(l) ==
    \E idp \in Idps, returnTo \in ReturnTos :
        LoginRefused(l, idp, returnTo) \/ LoginAccepted(l, idp, returnTo)

LoginStep(l) ==
    \/ LoginPrepared(l)
    \/ LoginSaveHSet(l)
    \/ LoginSaveExpire(l)
    \/ LoginFails(l)
    \/ LoginReplyLost(l)

-----------------------------------------------------------------------------
(* The provider: a browser that followed the redirect of a login signs in  *)
(* and is sent back with a code bound to that login's nonce.  The same     *)
(* authorization request may be answered more than once.                   *)

OpGrants(l, c, u) ==
    /\ login[l].pc = "redirected"
    /\ grants[c] = None
    /\ grants' = [grants EXCEPT ![c] = [nonce |-> login[l].nonce,
                                        subject |-> u, redeemed |-> FALSE]]
    /\ UNCHANGED <<txStore, sessStore, login, callback>>

\* A code is good once; the provider answers invalid_grant afterwards.
Redeemable(c) == grants[c] # None /\ ~grants[c].redeemed

OpRedeems(c) == grants' = [grants EXCEPT ![c].redeemed = TRUE]

-----------------------------------------------------------------------------
(* GET /callback.                                                          *)

\* A state is known outside only once a login has redirected with it.
ShownStates == {login[l].state : l \in {m \in LoginReqs :
                                          login[m].pc = "redirected"}}
IssuedCodes == {c \in Codes : grants[c] # None}

UsedSessionIds == {callback[r].sid : r \in CallbackReqs}

\* NewCallbackInput and the OP-error branch: s or c is None when the query
\* lacks it, err tells whether it has an error parameter.
CallbackBadRequest(r, s, c, err) ==
    /\ callback[r].pc = "idle"
    /\ s = None \/ (c = None /\ ~err)
    /\ callback' = [callback EXCEPT ![r] =
                     [@ EXCEPT !.pc = "badRequest", !.state = s, !.code = c]]
    /\ UNCHANGED <<txStore, sessStore, grants, login>>

CallbackAuthorizationError(r, s, c, err) ==
    /\ callback[r].pc = "idle"
    /\ s # None
    /\ err
    /\ callback' = [callback EXCEPT ![r] =
                     [@ EXCEPT !.pc = "authorizationError",
                               !.state = s,
                               !.code = c]]
    /\ UNCHANGED <<txStore, sessStore, grants, login>>

CallbackAccepted(r, s, c, err) ==
    /\ callback[r].pc = "idle"
    /\ s # None /\ c # None /\ ~err
    /\ callback' = [callback EXCEPT ![r] =
                     [@ EXCEPT !.pc = "find", !.state = s, !.code = c]]
    /\ UNCHANGED <<txStore, sessStore, grants, login>>

FindTransaction(r) ==
    /\ callback[r].pc = "find"
    /\ \/ /\ txStore[callback[r].state] = None
          /\ callback' = [callback EXCEPT ![r].pc = "stateMismatch"]
       \/ /\ txStore[callback[r].state] # None
          /\ callback' = [callback EXCEPT ![r] =
                           [@ EXCEPT !.pc = "delete",
                                     !.tx = txStore[callback[r].state]]]
    /\ UNCHANGED <<txStore, sessStore, grants, login>>

\* Fault: the transaction is left to its TTL.
KeepTransaction(r) ==
    /\ callback[r].pc = "delete"
    /\ callback' = [callback EXCEPT ![r].pc = "metadata"]
    /\ UNCHANGED <<txStore, sessStore, grants, login>>

\* DEL succeeds whether or not the key still exists: the number of keys it
\* removed is not looked at.
DeleteTransaction(r) ==
    /\ callback[r].pc = "delete"
    /\ txStore' = [txStore EXCEPT ![callback[r].state] = None]
    /\ callback' = [callback EXCEPT ![r].pc = "metadata"]
    /\ UNCHANGED <<sessStore, grants, login>>

CallbackMetadata(r) ==
    /\ callback[r].pc = "metadata"
    /\ callback[r].tx.idp \in Registry
    /\ callback' = [callback EXCEPT ![r].pc = "exchange"]
    /\ UNCHANGED <<txStore, sessStore, grants, login>>

ExchangeCode(r) ==
    /\ callback[r].pc = "exchange"
    /\ Redeemable(callback[r].code)
    /\ OpRedeems(callback[r].code)
    /\ callback' = [callback EXCEPT ![r] =
         [@ EXCEPT !.pc = "verify",
                   !.token = [nonce |-> grants[callback[r].code].nonce,
                              subject |-> grants[callback[r].code].subject]]]
    /\ UNCHANGED <<txStore, sessStore, login>>

\* The provider refuses, cannot be reached, or answers with something that
\* is not a bearer token response; its own record may have changed.
ExchangeFails(r) ==
    /\ callback[r].pc = "exchange"
    /\ callback' = [callback EXCEPT ![r].pc = "tokenRejected"]
    /\ \/ UNCHANGED grants
       \/ Redeemable(callback[r].code) /\ OpRedeems(callback[r].code)
    /\ UNCHANGED <<txStore, sessStore, login>>

\* Fault: the nonce is not compared.
AnyNonceVerified(r) ==
    /\ callback[r].pc = "verify"
    /\ \E i \in SessionIds \ UsedSessionIds :
          callback' = [callback EXCEPT ![r] =
                        [@ EXCEPT !.pc = "hset", !.sid = i]]
    /\ UNCHANGED <<txStore, sessStore, grants, login>>

\* Fault: the generator may repeat a session id.
AnySessionIdVerified(r) ==
    /\ callback[r].pc = "verify"
    /\ callback[r].token.nonce = callback[r].tx.nonce
    /\ \E i \in SessionIds :
          callback' = [callback EXCEPT ![r] =
                        [@ EXCEPT !.pc = "hset", !.sid = i]]
    /\ UNCHANGED <<txStore, sessStore, grants, login>>

\* Of what Verify checks, the nonce relates the token to the transaction and
\* is kept; every other check may fail (VerifyFails).
TokenVerified(r) ==
    /\ callback[r].pc = "verify"
    /\ callback[r].token.nonce = callback[r].tx.nonce
    /\ \E i \in SessionIds \ UsedSessionIds :
          callback' = [callback EXCEPT ![r] =
                        [@ EXCEPT !.pc = "hset", !.sid = i]]
    /\ UNCHANGED <<txStore, sessStore, grants, login>>

VerifyFails(r) ==
    /\ callback[r].pc = "verify"
    /\ callback' = [callback EXCEPT ![r].pc = "tokenRejected"]
    /\ UNCHANGED <<txStore, sessStore, grants, login>>

SessionSaveHSet(r) ==
    /\ callback[r].pc = "hset"
    /\ sessStore' = [sessStore EXCEPT ![callback[r].sid] = SessionHash(r)]
    /\ callback' = [callback EXCEPT ![r].pc = "expire"]
    /\ UNCHANGED <<txStore, grants, login>>

\* Fault: Save sends no EXPIRE.
SessionSaveNoExpire(r) ==
    /\ callback[r].pc = "expire"
    /\ callback' = [callback EXCEPT ![r].pc = "redirected"]
    /\ UNCHANGED <<txStore, sessStore, grants, login>>

SessionSaveExpire(r) ==
    /\ callback[r].pc = "expire"
    /\ sessStore' = [sessStore EXCEPT
                       ![callback[r].sid] = WithTtl(@, SessionTtl)]
    /\ callback' = [callback EXCEPT ![r].pc = "redirected"]
    /\ UNCHANGED <<txStore, grants, login>>

\* A failure that the handler answers with 500: Redis at the lookup, the
\* deletion or the save, an unknown idp, discovery, or the generator.
CallbackFails(r) ==
    /\ callback[r].pc \in CallbackActive \ {"exchange"}
    /\ callback' = [callback EXCEPT ![r].pc = "serverError"]
    /\ UNCHANGED <<txStore, sessStore, grants, login>>

\* Fault: a save whose reply was lost is tried again with another id.
CallbackReplyLostRetried(r) ==
    /\ callback[r].pc = "expire"
    /\ sessStore' = [sessStore EXCEPT
                       ![callback[r].sid] = WithTtl(@, SessionTtl)]
    /\ callback' = [callback EXCEPT ![r] =
                      [@ EXCEPT !.pc = "verify", !.sid = None]]
    /\ UNCHANGED <<txStore, grants, login>>

\* Redis applied the command but its reply was lost: 500 all the same.
CallbackReplyLost(r) ==
    /\ \/ /\ callback[r].pc = "delete"
          /\ txStore' = [txStore EXCEPT ![callback[r].state] = None]
          /\ UNCHANGED sessStore
       \/ /\ callback[r].pc = "expire"
          /\ sessStore' = [sessStore EXCEPT
                             ![callback[r].sid] = WithTtl(@, SessionTtl)]
          /\ UNCHANGED txStore
    /\ callback' = [callback EXCEPT ![r].pc = "serverError"]
    /\ UNCHANGED <<grants, login>>

CallbackLost(r) ==
    /\ callback[r].pc \in CallbackActive
    /\ callback' = [callback EXCEPT ![r].pc = "lost"]
    /\ UNCHANGED <<txStore, sessStore, grants, login>>

CallbackArrives(r) ==
    \E s \in ShownStates \cup {None}, c \in IssuedCodes \cup {None},
       err \in BOOLEAN :
        \/ CallbackBadRequest(r, s, c, err)
        \/ CallbackAuthorizationError(r, s, c, err)
        \/ CallbackAccepted(r, s, c, err)

CallbackStep(r) ==
    \/ FindTransaction(r)
    \/ DeleteTransaction(r)
    \/ CallbackMetadata(r)
    \/ ExchangeCode(r)
    \/ ExchangeFails(r)
    \/ TokenVerified(r)
    \/ VerifyFails(r)
    \/ SessionSaveHSet(r)
    \/ SessionSaveExpire(r)
    \/ CallbackFails(r)
    \/ CallbackReplyLost(r)

-----------------------------------------------------------------------------
Next ==
    \/ \E l \in LoginReqs : LoginArrives(l) \/ LoginStep(l) \/ LoginLost(l)
    \/ \E l \in LoginReqs, c \in Codes, u \in Subjects : OpGrants(l, c, u)
    \/ \E r \in CallbackReqs :
          CallbackArrives(r) \/ CallbackStep(r) \/ CallbackLost(r)
    \/ \E s \in States : TransactionExpires(s)
    \/ \E i \in SessionIds : SessionExpires(i)

Spec == Init /\ [][Next]_vars

\* Redis removes every key whose TTL has run out.  Nothing is assumed of the
\* users, the provider or the requests: each may stop at any point.
Fairness ==
    /\ \A s \in States : WF_vars(TransactionExpires(s))
    /\ \A i \in SessionIds : WF_vars(SessionExpires(i))

FairSpec == Spec /\ Fairness

-----------------------------------------------------------------------------
(* Safety.                                                                 *)

\* A callback that has deleted its transaction.
Spent(r) == callback[r].pc \in {"metadata", "exchange", "verify", "hset",
                                "expire", "redirected", "tokenRejected"}

\* Whatever the interleaving of logins, callbacks, failures and expiries, a
\* stored session belongs to a user whom the provider authenticated for the
\* very login that the callback's state came from: a code obtained through
\* another login never opens a session (state lookup, nonce check and Save
\* in CallbackUsecase.Execute).
SessionIsAuthenticated ==
    \A i \in SessionIds : sessStore[i] # None =>
        \E r \in CallbackReqs, l \in LoginReqs :
            LET grant == grants[callback[r].code]
            IN  /\ callback[r].sid = i
                /\ login[l].state = callback[r].state
                /\ grant # None
                /\ grant.nonce = login[l].nonce
                /\ grant.subject = sessStore[i].subject

SessionsOf(u) ==
    {i \in SessionIds : sessStore[i] # None /\ sessStore[i].subject = u}

SignInsOf(u) ==
    {c \in Codes : /\ grants[c] # None
                   /\ grants[c].redeemed
                   /\ grants[c].subject = u}

\* No user ever has more sessions than sign-ins that were redeemed: replayed
\* states, repeated codes, lost replies and half-done saves multiply nothing
\* (FindByState then Delete, Exchange, Save in CallbackUsecase.Execute).
SessionsWithinSignIns ==
    \A u \in Subjects :
        Cardinality(SessionsOf(u)) <= Cardinality(SignInsOf(u))

\* A callback redirects only to the return_to of the login that made its
\* state, and only to an allowed origin, although the value went through
\* Redis and is not validated again (LoginUsecase.validateReturnTo,
\* CallbackOutput.ReturnTo).
ReturnsToLoginOrigin ==
    \A r \in CallbackReqs : callback[r].pc = "redirected" =>
        /\ callback[r].tx.returnTo \in AllowedOrigins
        /\ \E l \in LoginReqs :
              /\ login[l].state = callback[r].state
              /\ login[l].returnTo = callback[r].tx.returnTo

\* A key whose state or session id was handed to a browser has a TTL, even
\* with the two Save pipelines interrupted anywhere (Save of both
\* repositories): nothing a browser can present lives forever.
IssuedKeysExpire ==
    /\ \A l \in LoginReqs :
          login[l].pc = "redirected" /\ txStore[login[l].state] # None
             => txStore[login[l].state].expires
    /\ \A r \in CallbackReqs :
          callback[r].pc = "redirected" /\ sessStore[callback[r].sid] # None
             => sessStore[callback[r].sid].expires

\* Once one callback has deleted the transaction of a state, a callback that
\* looks the same state up later is refused: a replay passes only if its
\* lookup came before the deletion (callback.go, FindByState then Delete).
LateReplayRefused ==
    [][\A q, r \in CallbackReqs :
          /\ Spent(q)
          /\ callback[r].state = callback[q].state
          /\ callback[r].pc = "find"
          => callback'[r].pc # "delete"]_vars

\* A state that a browser was given is good until its transaction is gone,
\* used or expired, and never again: no later login and no late EXPIRE
\* brings the transaction back (Generate, Save in LoginUsecase.Execute).
DeadStateStaysDead ==
    [][\A l \in LoginReqs :
          login[l].pc = "redirected" /\ txStore[login[l].state] = None
             => txStore'[login[l].state] = None]_vars

-----------------------------------------------------------------------------
(* The inductive invariant behind the safety properties.                   *)

\* The transaction hash t is the one that some login wrote for state s.
MadeByLogin(s, t) ==
    \E l \in LoginReqs :
        /\ login[l].state = s
        /\ login[l].returnTo = t.returnTo
        /\ login[l].nonce = t.nonce
        /\ login[l].idp = t.idp

LoginsSound ==
    /\ \A l \in LoginReqs :
          /\ login[l].state # None <=> login[l].nonce # None
          /\ login[l].pc \in {"idle", "badRequest", "metadata"}
                => login[l].state = None
          /\ login[l].pc \in {"hset", "expire", "redirected"}
                => login[l].state # None
          /\ login[l].pc \notin {"idle", "badRequest"}
                => /\ login[l].idp \in Registry
                   /\ login[l].returnTo \in AllowedOrigins
          /\ login[l].pc = "redirected" /\ txStore[login[l].state] # None
                => txStore[login[l].state].expires
    /\ \A k, l \in LoginReqs :
          k # l /\ login[k].state # None
             => login[k].state # login[l].state

TransactionsSound ==
    \A s \in States : txStore[s] # None => MadeByLogin(s, txStore[s])

ShownState(s) ==
    \E l \in LoginReqs : login[l].state = s /\ login[l].pc = "redirected"

\* What callback r holds: a state that a redirect showed, that state's
\* transaction, and the ID token of a code that it redeemed itself.
CallbackSound(r) ==
    LET cb == callback[r]
    IN  /\ cb.state # None => ShownState(cb.state)
        /\ cb.pc \in CallbackActive \cup {"redirected", "tokenRejected"}
              => cb.state # None /\ cb.code # None
        /\ cb.pc = "idle" => cb.state = None
        /\ cb.pc \in {"idle", "find", "delete", "metadata", "exchange"}
              => cb.token = None /\ cb.sid = None
        /\ cb.pc \in {"delete", "metadata", "exchange", "verify", "hset",
                      "expire", "redirected"} => cb.tx # None
        /\ cb.tx # None => cb.state # None /\ MadeByLogin(cb.state, cb.tx)
        /\ cb.pc = "verify" => cb.token # None /\ cb.sid = None
        /\ cb.token # None => /\ cb.code # None
                              /\ grants[cb.code] # None
                              /\ grants[cb.code].redeemed
                              /\ cb.token.nonce = grants[cb.code].nonce
                              /\ cb.token.subject = grants[cb.code].subject
        /\ cb.sid # None => /\ cb.tx # None
                            /\ cb.token # None
                            /\ cb.token.nonce = cb.tx.nonce
        /\ cb.pc \in {"hset", "expire", "redirected"} => cb.sid # None

CallbacksSound == \A r \in CallbackReqs : CallbackSound(r)

\* No two callbacks share a session id or the token of one code, and the
\* state of a callback that has deleted its transaction stays without one.
CallbacksApart ==
    /\ \A q, r \in CallbackReqs :
          q # r => /\ callback[q].sid # None => callback[q].sid # callback[r].sid
                   /\ callback[q].token # None /\ callback[r].token # None
                         => callback[q].code # callback[r].code
    /\ \A r \in CallbackReqs : Spent(r) => txStore[callback[r].state] = None

SessionsSound ==
    /\ \A i \in SessionIds : sessStore[i] # None =>
          \E r \in CallbackReqs :
              /\ callback[r].sid = i
              /\ callback[r].pc # "hset"
              /\ callback[r].token.subject = sessStore[i].subject
    /\ \A r \in CallbackReqs :
          callback[r].pc = "redirected" /\ sessStore[callback[r].sid] # None
             => sessStore[callback[r].sid].expires

\* Every transaction, session and callback goes back to the one login and
\* the one code it came from; all the above follow from it.
FlowInvariant ==
    /\ TypeOK
    /\ LoginsSound
    /\ TransactionsSound
    /\ CallbacksSound
    /\ CallbacksApart
    /\ SessionsSound

-----------------------------------------------------------------------------
(* Liveness.                                                               *)

\* A login that nobody finishes leaves nothing behind: once /login has
\* redirected, its transaction goes, by a callback or by its TTL.
IssuedStatesEnd ==
    \A l \in LoginReqs :
        login[l].pc = "redirected" ~> \A s \in States :
            login[l].state = s => txStore[s] = None

\* A session that was handed to a browser ends even if nobody logs out, so
\* its user has to authenticate again.
IssuedSessionsEnd ==
    \A r \in CallbackReqs :
        callback[r].pc = "redirected" ~> \A i \in SessionIds :
            callback[r].sid = i => sessStore[i] = None

-----------------------------------------------------------------------------
(* The contract: a session is new until a callback tries to store it, open *)
(* while it is stored and closed afterwards; a code is spent once the      *)
(* callback that redeemed it has tried to store its session.               *)

Tried == {r \in CallbackReqs : callback[r].sid # None
                                 /\ callback[r].pc # "hset"}

ProofOf == [c \in Codes |->
               IF grants[c] = None THEN None ELSE grants[c].subject]

SpentCodes == {callback[r].code : r \in Tried}

Life == [i \in SessionIds |->
            IF sessStore[i] # None THEN "open"
            ELSE IF \E r \in Tried : callback[r].sid = i THEN "closed"
            ELSE "new"]

Owner == [i \in SessionIds |->
             IF sessStore[i] = None THEN None ELSE sessStore[i].subject]

Contract == INSTANCE LoginContract WITH
    proof <- ProofOf, spent <- SpentCodes, life <- Life, owner <- Owner

\* Requests, failures and expiries in any interleaving keep the contract: a
\* session opens at most once, on an authentication that opened no other,
\* and never reopens (sessionRepo.Save as the last step of Execute).
KeepsContract == Contract!Spec

-----------------------------------------------------------------------------
(* What the repository says and the code does not do.                      *)

\* callback.go calls the deletion of the transaction "one-time use (replay
\* prevention)": no two callbacks would get past it with one state.
TransactionOneTimeUse ==
    \A q, r \in CallbackReqs :
        q # r /\ Spent(q) /\ Spent(r) => callback[q].state # callback[r].state

\* docs/google-idp.md has every session stored with an expiry: once the
\* request that saved it is over, a stored session has a TTL.
StoredSessionsExpire ==
    \A r \in CallbackReqs, i \in SessionIds :
        /\ callback[r].pc \in CallbackEnded
        /\ callback[r].sid = i
        /\ sessStore[i] # None
        => sessStore[i].expires
=============================================================================
