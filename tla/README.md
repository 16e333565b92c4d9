# Formal models of the OIDC relying party

The program is a small OpenID Connect relying party in Go. A browser starts at
`GET /login`, goes to the OpenID provider (OP), comes back at `GET /callback`
with an authorization code, and holds a session cookie for `GET /me` and
`POST /logout`. State is kept in Redis; several instances may run side by side.

This directory holds TLA+ modules translated from the source, TLC
configurations that check them on small instances, and TLAPS proofs for every
value of the constants. `PROJECT.json` lists the parts of the system, the runs,
for each definition the lines it models, one seeded fault per property, the
hazards of the code and the theorems.

    tlc -config LoginFlow_safety.cfg MCLoginFlow     # one run
    tlapm LoginFlowProofs.tla                        # one module of proofs

## 1. The system

| part | code (`src/internal/...`) | state it keeps | operations |
|---|---|---|---|
| login | `usecase/login.go`, `presentation/handler/login.go` | none between requests | check `idp` and `return_to`, get metadata, generate state and nonce, save the transaction, redirect to the OP |
| callback | `usecase/callback.go`, `presentation/handler/callback.go` | none between requests | find and delete the transaction, get metadata, exchange the code, verify the ID token, save a session, set the cookie, redirect to `return_to` |
| repositories | `infrastructure/repository/*.go` | Redis hashes `oidc:tx:{state}`, `oidc:sess:{id}` with a TTL | `Save` (HSET and EXPIRE in one pipeline), find (HGETALL), delete (DEL) |
| me | `usecase/me.go`, `presentation/handler/me.go` | none | read the session that the cookie names |
| logout, cookie | `usecase/logout.go`, `presentation/handler/{logout,cookie}.go` | the cookie, in the browser | find and delete the session, clear the cookie |
| discovery and JWKS cache | `infrastructure/client/*discover*.go` | Redis keys for metadata (6 h) and key set (1 h) | `GetProviderMetadata`, `GetJwks`, `RefreshJwks` |
| ID token verification | `domain/service/token_verifier.go` | none | select the key (one refresh on an unknown `kid`), verify the signature, validate the claims |
| token client | `infrastructure/client/token.go` | none | one POST to the token endpoint |
| random generator | `domain/service/random.go` | none | 256-bit states, nonces and session ids |
| domain models | `domain/model/*.go` | the registry of providers | records and getters |
| bootstrap, configuration | `bootstrap/wire.go` | constants | read the environment, wire the parts |
| lifecycle | `src/cmd/main.go`, `bootstrap/wire.go` | HTTP server, Redis client | serve, wait for a signal or an error, shut down |
| logging, helpers, health | `logger`, `handler/{middleware,helpers,health}.go` | none | log lines, response bodies |

**How they interact.** Each request runs in a goroutine of its own. Handlers call
usecases, usecases call ports; nothing is shared in memory between requests.
They meet in three places: Redis (transactions, sessions, the discovery cache),
the OP (which remembers what code it issued and whether it was redeemed) and
the browser (which carries `state`, `code` and the cookie, and may repeat, mix
or drop them). One atomic step is therefore one call that leaves the process,
with the code up to the next such call.

**What is hard here.**

* Two callbacks with one state: lookup and deletion are two Redis commands.
* A callback combines the state of one login and a code of another.
* `Save` is a pipeline but not a transaction: HSET may be applied and EXPIRE not.
* A Redis command may be applied and its reply lost; a process may die anywhere.
* Responses with `Set-Cookie` may reach a browser late and in any order.
* Cached keys and metadata go stale while the OP rotates keys or moves; a slow
  caller may write an older key set over a newer one.
* A signal, a server error, requests on open connections and the end of the
  drain time come in any order while the process stops.
* `exp` and `iat` are any int64; `time.Unix` wraps and `Time.Add` saturates;
  minutes from the environment are multiplied into an int64 unchecked.

**What makes each part correct.** Login: only registered providers and allowed
origins get past it, and what it stored is what the callback uses. Callback: a
session belongs to the user whom the OP authenticated for that very login, at
most one session per code, a replay after the deletion is refused. Repositories:
nothing a browser can present lives forever. Me: the right user or 401. Logout:
final. Cache: withdrawn keys and endpoints are used for a bounded time, no key
that stays published is called unknown, and every call ends if its exchanges do.
Verification: exactly the
documented claim rules. Requests to the OP: what it reads is what was meant,
whatever characters the configuration contains. Configuration: no key lives
and no limited discovery call lasts longer than the environment says. Lifecycle: a timely stop costs no request, and
a signal or a server error always ends the process.

## 2. The modules

| module | models | depends on |
|---|---|---|
| `LoginFlow` | login, callback, the repositories, the OP | |
| `LoginContract` | the abstract promise about sessions | |
| `RelyingParty` | the flow with `/me`, `/logout` and cookies | extends `LoginFlow` |
| `DiscoveryCache` | the discovery client and the key selection of the verifier | |
| `KeyService` | the abstract promise about keys | |
| `IdToken` | the claim rules and their clock arithmetic | |
| `FormEncoding` | `url.QueryEscape` and its decoding | |
| `ProviderRequests` | the authorization URL, the token request with its client authentication, what the OP reads in both, its answer | extends `FormEncoding` |
| `Config` | `loadConfig` and what its durations come to | |
| `Lifecycle` | one process from start to exit | |
| `MC...` | model values, symmetry, bounded inputs | the module named |
| `...Proofs` | theorems | the module named |

A few definitions marked "Fault" stand beside the ones they alter: each is a
plausible bug (a dropped guard, a missing EXPIRE) that the property it is paired
with in `PROJECT.json` must detect.

### LoginFlow

`txStore` and `sessStore` are the two kinds of Redis hash (`expires` tells
whether the key has a TTL), `grants` is what the OP recorded for each code, and
`login` and `callback` hold the local variables and the outcome of each request.

| actions | code |
|---|---|
| `LoginRefused`, `LoginAccepted`, `LoginPrepared` | `LoginUsecase.Execute` up to the save |
| `LoginSaveHSet`, `LoginSaveExpire` | `redisTransactionRepository.Save` |
| `OpGrants`, `OpRedeems` | the OP (external) |
| `CallbackBadRequest`, `CallbackAuthorizationError`, `CallbackAccepted` | `NewCallbackInput` and the error branch of the handler |
| `FindTransaction`, `DeleteTransaction`, `CallbackMetadata`, `ExchangeCode`, `TokenVerified` | `CallbackUsecase.Execute`, call by call |
| `SessionSaveHSet`, `SessionSaveExpire` | `redisSessionRepository.Save` |
| `LoginFails`, `CallbackFails`, `ExchangeFails`, `VerifyFails` | the error returns |
| `LoginReplyLost`, `CallbackReplyLost` | Redis applied the command, the client saw an error |
| `LoginLost`, `CallbackLost` | the process died |
| `TransactionExpires`, `SessionExpires` | Redis (external) |

Points where the model follows the code rather than one's expectation: a failed
step writes nothing more but does not undo an HSET; DEL succeeds when the key
is already gone, and the code does not ask; EXPIRE with a TTL that is not
positive deletes the key at once; an OP error leaves the transaction alone; a
code is redeemed at the OP even when the answer is lost. The Redis client repeats
commands after a network error; the commands used are idempotent, and repeating
one before its reply has no more outcomes than one that was applied or was not.
Random values are fresh values: 256 bits are taken not to repeat.

### LoginContract

Four actions, no requests and no failures: `Authenticate`, `Open`, `Abandon`,
`Close`. A session is opened at most once, on an authentication that opened no
other, for the user it names, and never comes back. `LoginFlow` implements it
under the mapping `ProofOf`, `SpentCodes`, `Life`, `Owner`: a session is open
while it is stored and closed once its callback has tried to store it and it is
not there any more; a code is spent once its callback has tried.

### RelyingParty

Adds `me`, `logout`, `cookie` and `delivered`. A callback's or a logout's
`Set-Cookie` reaches a browser in an action of its own (`DeliverCallback`,
`DeliverLogout`), in any order and possibly after the session is gone.
The session of a callback may be read or deleted by any browser that got its
cookie. Every action of `LoginFlow` runs beside them. The cookie's `Secure`,
`HttpOnly` and `SameSite` attributes are not told apart.

### DiscoveryCache

`document`, `published`, `leftFor` and `retiredFor` describe the OP; `metadata`
and `jwks` are the two Redis entries, with their remaining lifetime; `caller` is
the local state of each goroutine inside the client. Each caller runs
`GetProviderMetadata` (login, callback) or the key selection of
`IdTokenVerifier.Verify`: `GetJwks`, and `RefreshJwks` when the `kid` is not
there. Keys and key ids are two things (`KidOf`): the OP may replace the key of a
key id, and then `FindByKid` finds a key that did not sign the token. A failed
save or deletion is ignored, as in the code; a failed GET or fetch ends the call
with `failed`, and the properties about keys are silent about such a call. An
address that the OP left is taken to answer nothing: a fetch from it can only fail.
An old address that still served old keys would be outside this model.
Time passes in ticks and a call lasts at most `MaxLatency`. There is one issuer, as
in the registry; the two cache keys contain it.

### KeyService

What `DiscoveryCache` promises to a callback that holds a signed token, without
caches, calls or metadata: the key that is used is published or was withdrawn a
bounded time ago, `unknownKid` means that the key was missing at some time of
the request, and `badSignature` means that another key of the same key id is, or
recently was, published. A request is open in `KeyService` while its caller is
inside `DiscoveryCache`; an answer is the step that ends the call.

### IdToken

One token with any claims and a clock that goes on. `Unix`, `Add` and `Before`
are those of Go's `time` package: int64 seconds from year 1, `time.Unix` adds
the offset and wraps, `Add` saturates. `parseAudience` keeps what decoding does
with a missing `aud`, `null`, a string, an array, anything else. `Rules` states
the table of `docs/google-idp.md` step 4.4 on unbounded integers, with no
reference to the code's helpers. `TypeOK` appears in the proofs only, where it
is needed; the runs' invariants already depend on every variable.

### ProviderRequests

`LoginFlow` has both requests of a login to the OP as one step each. This module
looks inside: texts are sequences of characters, because the question is whether
they survive the encoding, and `pc` follows one login from `Redirect` over the OP
(`ProviderAuthorizes`) to `Exchange`, the OP's answer and what the callback makes
of it (`AnswerRead`: `token_type` without regard to case, `scope` not at all; the
answers differ in more than the properties of the module look at, they complete
`Exchange`).
The parameters of a request are a sequence of names with values, in the order in
which `url.Values.Encode` writes them (`Encode`); a name is one character, since
the names are literals without anything to escape. `FormDecode` reads a text one
character at a time (`Read`); `ReadQuery`, `ReadForm` and `ReadBasic` take apart what
the OP receives, and `Pairs` is what it should find. `tokenRequest` is what
`Exchange` sends; without client authentication in the header that is `<<>>`. An
`authorization_endpoint` may have a query of its own: the OP then reads no
`client_id` of this client and the login ends in `notAuthorized`. The third branch
of the `switch` in `Exchange` cannot be reached: `loadConfig` yields two methods.

### Config

`env` is the environment, `config` what `loadConfig` returns, `outcome` that of
`InitializeServer`. One action reads everything, in one `Load` or `LoadFails`.
`Wrap` is int64 multiplication, `Lifetime` what go-redis and Redis make of a
`Duration` in EXPIRE, `Limited` what `http.Client` makes of a timeout: 0 or less is
none. `TimeoutNeverLonger` speaks of every number of seconds but those so far below
zero that their product wraps. It does not say that every call has a limit: the code
checks nothing, and with 0 or a product that wraps below zero there is none.

### Lifecycle

| actions | code |
|---|---|
| `InitFails`, `InitSucceeds` | `main.go:27-39` |
| `BeginShutdown`, `ErrorSelected` | the two cases of the `select` |
| `Poll`, `GiveUp`, `DeadlinePasses` | `http.Server.Shutdown` (external) with its context of five seconds |
| `CloseRedis` | the end of `GracefulShutdown`, and `CloseExternalConnections` |
| `Return` | the end of `main`, which ends every goroutine |
| `Signal` | SIGINT or SIGTERM: caught until `stop()`, deadly after it |
| `Bind`, `AcceptFails`, `AcceptClosed`, `SendError` | the goroutine in `ListenAndServe` |
| `Accept` to `Answer` | connections and handlers (external but for the Redis client) |

What is taken from `net/http`: `Shutdown` closes the listener first, then polls:
it closes connections that wait for a request, counts one that was accepted and
has sent nothing as busy for five seconds, and returns when none is busy or its
context is done; requests that arrive on an open connection meanwhile are served;
after an error of `Accept` open connections are served on. A request and the busy
state of its connection are one step (`Begin`). In `net/http` a request may already
be in the buffer of a connection that is still marked idle, and `Shutdown` may then
close it; that a timely stop costs no request follows the documented contract of
`Shutdown` and does not cover that window. A request that a
stopping process drops shows in `LoginFlow` as `CallbackFails` (a Redis call
refused) or `CallbackLost` (cut short), so the flow's properties cover it. The
process ends with status 0 even after a server error; nothing depends on that
here.

## 3. The runs

| run | shows | distinct states |
|---|---|---|
| `LoginFlow_safety` | `TypeOK`, `SessionIsAuthenticated`, `ReturnsToLoginOrigin`, `SessionsWithinSignIns`, `IssuedKeysExpire`, `LateReplayRefused`, `DeadStateStaysDead`, the inductive `FlowInvariant`, and the refinement `KeepsContract`, in every interleaving of two logins and two callbacks | 183 thousand |
| `LoginFlow_liveness` | `IssuedStatesEnd`, `IssuedSessionsEnd`: what a browser was given leaves the store, whatever stops | 23 thousand |
| `LoginFlow_OneTimeUse` | violated: `TransactionOneTimeUse` | |
| `LoginFlow_Expiry` | violated: `StoredSessionsExpire` | |
| `RelyingParty_safety` | `RpTypeOK`, `MeReportsAuthenticatedUser`, `LogoutIsFinal`, `DeadCookieStaysDead`, `RpKeepsContract`, the inductive `RpInvariant` | 87 thousand |
| `DiscoveryCache_move` | `TypeOK`, `UnknownKidWasUnpublished`, `RetiredKeyDies`, `LeftUriDies`, the inductive `CacheInvariant`: rotated keys and a moved endpoint under overlapping reads, refreshes and saves | 1.95 million |
| `DiscoveryCache_rekey` | `RekeyHeals`, the refinement `KeepsKeyService`, `CallsEnd` and `CallsShorten`: the key of a key id is replaced, and every call ends after a bounded number of exchanges | 416 thousand |
| `DiscoveryCache_metadata` | violated: `MetadataConfirmed` | |
| `IdToken_claims` | `AcceptedMatchesRules`, `ClearTokenAccepted`, `RefusedStaysRefused` | 1.65 million |
| `ProviderRequests` | `ParametersArrive`, `CredentialsArrive`, `RedirectUriAgrees` | 560 thousand |
| `Config_durations` | `TypeOK`, `LifetimesAsConfigured`, `TimeoutNeverLonger`: products that wrap, zero and less | 6.5 million |
| `Lifecycle` | `TimelyStopDropsNothing`, the inductive `LifecycleInvariant`, `SignalEndsProcess`, `FailureEndsProcess` | 18 thousand |

**Bounds, and why they are enough.**

* `LoginFlow`: two logins, two callbacks, two codes, two users, an allowed origin
  to confuse with another allowed one and with a foreign one, a known and an
  unknown provider. Every property speaks of at most two requests of a kind, so
  two of each reach mixed-up states, codes and users, replays and overlapping
  saves. The proofs cover any number.
* `LoginFlow_liveness`: one login answered twice, two callbacks. The properties
  speak of one key; a second callback is there to race for the same transaction.
  No symmetry, which liveness checking does not allow.
* `RelyingParty`: one login answered twice, so that two sessions can exist; two
  browsers; one `/me`; two logouts, so that one can race with another. Two logins
  add no new way to reach `/me` and `/logout`, which see session ids only.
* `DiscoveryCache`: two callers (one that is late, one that refreshes), two keys
  (a rotation) and a latency of 1. In `DiscoveryCache_move` there are two documents
  and the metadata lives for 2 ticks, so that it is read within its life. With a
  key set living for 2 ticks that run has 4.6 million states and the same outcome;
  with one document and a key set living for 3 ticks, 588 thousand and the same
  outcome. `KeyBound` and `UriBound` bound the ages, which no property tells apart
  beyond them. A latency of a third to all of a lifetime is harsher than seconds
  against an hour. `DiscoveryCache_rekey` has both keys under one key id, one
  document and no symmetry: a second caller that deletes and overwrites what the
  first one saved is what could hold it up, and a key that is never published keeps
  the second selection failing.
* `IdToken`: int64 scaled down to -16 .. 15 with an epoch of 4, a skew of 2 and
  an age of 3; `exp` and `iat` take the values at both ends, at the points where
  `Unix` wraps and `Add` saturates, and around the clock. `aud` has up to two
  names: one, several, none. The proofs cover all widths, lengths and values.
* `ProviderRequests`: client id and secret take all texts of up to two characters
  over an alphabet with a letter, each character that means something on the
  wire, and one that looks like the code of another; encoding is character by
  character, so pairs show every boundary. Redirect URIs: plain, with a query of
  their own, with what looks like an escape. Endpoints: with and without a query.
  State, nonce and code are opaque and stand for themselves.
* `Config`: int64 scaled down to -32 .. 31 with a second of 3 and a minute of 6.
  The session's minutes take every value, the transaction's those around zero, the
  last that fits, the first that wraps and the end of the range. The seconds take
  these too, and reach each kind of product: 11 wraps below zero (no limit), 31
  wraps to a shorter limit, -11 from below the range to a limit.
* `Lifecycle`: three connections reach one that is busy, one that waits and one
  that arrives during the drain, at the same time. Signals are unlimited.

Deadlock is not checked where every request is served once (`LoginFlow`,
`RelyingParty`, `ProviderRequests`), the configuration is read once, the
process ends (`Lifecycle`) or the clock stops at a bound (`IdToken`): the model
then ends because its inputs are used up. `DiscoveryCache` checks it.

**Fairness.**

* `LoginFlow`: only `TransactionExpires` and `SessionExpires` are weakly fair:
  Redis removes every key whose TTL ran out. Nothing is assumed of the users, the
  OP, the requests or the processes; each may stop at any point.
* `DiscoveryCache`: `CallStep`, for each caller: a Redis or HTTP call returns with
  an answer or a timeout and its goroutine goes on. `CallsEnd` holds under this
  assumption only. The limit of a discovery call justifies it, and where
  `DISCOVERY_TIMEOUT_SECONDS` leaves a call without one (see `Config`) the assumption
  is that the OP closes the connection. Nothing else is assumed of the OP.
* `Lifecycle`: `MainStep` and `ServeStep`, goroutines that can go on do so, and
  `DeadlinePasses`, time goes on. Handlers may hang and clients may stay silent.

## 4. Where code and comments or documents differ

* `callback.go:91` calls the deletion "one-time use (replay prevention)". The
  lookup and the deletion are two commands and the number of deleted keys is
  not looked at, so two callbacks with one state can both go on
  (`LoginFlow_OneTimeUse`). What does hold: a lookup after the deletion is
  refused (`LateReplayRefused`), and no code opens two sessions
  (`KeepsContract`).
* `docs/google-idp.md:203` gives sessions an expiry. HSET applied and EXPIRE not
  leaves a session without one (`LoginFlow_Expiry`). What does hold: a session
  whose id reached a browser has a TTL (`IssuedKeysExpire`).
* `docs/google-idp.md:42-44` has the metadata confirmed for `code`, `public` and
  `RS256`. The code stores these fields and does not look at them
  (`DiscoveryCache_metadata`).

The following show in the source and have no violating run of their own; the
property named says what does hold.

* `wire.go:61` has `GracefulShutdown` drain connections, then close external
  ones. When the drain takes more than five seconds Redis is closed under the
  handlers that are left. A drain that ends in time drops nothing
  (`TimelyStopDropsNothing`).
* `wire.go:75` has `CloseExternalConnections` used when the HTTP server has
  stopped. After an error of `Accept` open connections are still served while
  Redis is closed and `main` returns; the third case of `TimelyStopDropsNothing` is
  there for it.
* `callback.go:78` says of the lookup of `state` "validates CSRF", and
  `docs/google-idp.md:82` has `state` compared with a value kept in the session. The
  code looks `state` up in Redis, where transactions are not tied to a browser, so a
  callback may come from another browser than its login. No property speaks of the
  browser that began a login; what does hold is that the session is that of the
  user authenticated for the login of this very `state` (`SessionIsAuthenticated`).
* `README.md:44` names the values of `AUTH_METHOD` `basic` and `post`; the code
  knows `client_secret_post` and takes `post` for the default (`AuthMethod` in
  `Config`).
* `README.md:25-32` calls `ALLOWED_RETURN_TO_ORIGINS` required; the process starts
  without it and refuses every login.
* `docs/google-idp.md:128` has the callback stop when `scope` lacks `openid`; the
  code does not look at `scope` (`AnswerRead` in `ProviderRequests`).
* `openapi/paths/login.yml:37` has the parameters added to the
  `authorization_endpoint`. When the endpoint has a query of its own, the code's
  `"?"` makes `client_id` part of that query's last value. Without one, every
  parameter arrives (`ParametersArrive`).

## 5. The proofs

TLAPS proves, for every set of requests, random values, codes, users and origins,
and every TTL including zero and negative ones:

| theorem | says |
|---|---|
| `FlowInvariantHolds`, `TypesHold` | the inductive invariant, type correctness |
| `SessionsAreAuthenticated` | a stored session belongs to the user authenticated for the login of the callback's state |
| `CallbacksReturnToLoginOrigin` | a callback redirects to the allowed origin of its own login |
| `IssuedKeysHaveTtl` | what a browser holds has a TTL |
| `LateReplaysRefused`, `DeadStates` | the action properties on replays: a used state is refused, and a used or expired one is never good again |
| `SessionsStayWithinSignIns`, `RpSessionsWithinSignIns` | no user has more sessions than redeemed sign-ins, in the flow and in the composition |
| `FlowKeepsContract` | `LoginFlow` implements `LoginContract` |
| `RpInvariantHolds`, `RpTypesHold` | the inductive invariant of the composition, its types |
| `MeIsTruthful`, `LogoutsAreFinal`, `DeadCookies` | the three properties of `RelyingParty`, for any number of browsers and requests |
| `RelyingPartyKeepsContract` | `RelyingParty` implements `LoginContract` |
| `CacheStaysSound`, `CacheTypes` | the inductive invariant of the cache, its types |
| `UnknownKids`, `RetiredKeys`, `Rekeying`, `LeftAddresses` | the four safety properties of `DiscoveryCache`, for every TTL, latency and number of callers |
| `CallsGetShorter` | each exchange of a call leaves it fewer before it, and never more than twelve |
| `Contract` | `DiscoveryCache` implements `KeyService` |
| `PhasesAgree`, `TypesKept`, `TimelyStop` | the inductive invariant of `Lifecycle`, its types, and that a timely stop drops nothing |
| `LifetimesHold`, `TimeoutsHold`, `SettingTypes` | the lifetimes, the discovery timeout and the types of `Config`, for integers of every width |
| `EscapingUndone` | decoding gives back every text that `QueryEscape` escaped |
| `FormsArrive` | in what `Encode` writes the OP reads the pairs that were put in, for any number of pairs and any text |
| `RequestsAsBuilt` | the inductive invariant of `ProviderRequests` |
| `ParametersReachProvider`, `CredentialsReachProvider`, `RedirectUrisAgree` | its three properties, for client ids, secrets, redirect URIs and endpoints of every length |
| `TokenInvariantHolds` | a verdict is that of the rules at the present moment, and a refusal holds for every later one |
| `AcceptedTokensMatchRules`, `ClearTokensAccepted`, `RefusedTokensStayRefused` | the three properties of `IdToken` for integers of every width |

**Assumptions.** `ConfigAssumption`: allowed origins are origins, registered
providers are providers, the TTLs are integers. `NoneAssumption`: `None` is no
other value. `TokenAssumption`: the offset, skew and age fit the integer width,
the client id is not empty (`loadConfig` requires it), and the clock stays below
the last second that an int64 can hold. The last one is needed: in that second
`Add` saturates at the present, and whether a token is over would depend on
the fraction of the second.

`CacheAssumption`: the TTLs are positive (they are literals in `wire.go:101-102`),
the latency a natural number, and `None` is no document, key or entry.
`UnitsAssumption`, `NumbersAssumption`: a minute is a whole number of seconds, the
defaults fit, `Atoi` returns an int64.

`TextsAssumption`: client ids, secrets, redirect URIs and endpoints are sequences of
strings, each of which stands for a character, and no endpoint's own query names
`client_id`. The last part is a duty of the OP: a request must not contain a
parameter twice (RFC 6749 section 3.1), so an endpoint that named it could be used
by nobody.

**The argument for the flow.** That a session is authenticated does not follow
from one step to the next: it needs to know where the callback's transaction and
token came from, long after the transaction is deleted. `FlowInvariant` adds

* `LoginsSound`: what a login generated, and that no two logins share a state;
* `TransactionsSound`: every stored transaction is one that a login wrote;
* `CallbacksSound`: the state a callback holds was shown by a redirect, its
  transaction is that state's, its token is that of a code which it redeemed
  itself, and a session id exists only after the nonces matched;
* `CallbacksApart`: no two callbacks share a session id or the token of one code,
  and a state whose transaction was deleted by a callback stays without one;
* `SessionsSound`: every stored session comes from a callback past its HSET.

There is one lemma per conjunct and actor (login, callback), then one per
environment step (expiries, the OP); `FlowStep` joins them. `CallbacksApart`
carries the contract: a code redeemed once and fresh session ids are why HSET is
an `Open` and why a later EXPIRE never reopens. `FlowKeepsContract` maps each
step: HSET to `Open`, an expiry or an EXPIRE that deletes to `Close`, an OP grant
to `Authenticate`, the rest to a stutter.

`LateReplaysRefused` reads off `CallbacksApart`. `DeadStates` is about every writer
of transactions: another login writes under another state (`LoginsSound`), its own
login is done, and an EXPIRE finds no key (`LoginStoresElsewhere`).

`SessionsWithinSignIns` follows from the same invariant: the callbacks that stored
the sessions of a user are different ones, each redeemed a code of its own
(`CallbacksApart`), and that code is one of this user (`CallbackSound`), so
sessions map to codes one to one. What has to be added is that only finitely many
codes were ever redeemed, each step redeeming one at most (`FewRedeemed`), because
the model does not say that there are finitely many codes, requests or ids.

**The argument for tokens.** `BeforeIsOver` relates Go's arithmetic to integers
case by case (no wrap, wrap in `Unix`, saturation in `Add`); a wrapped time lies
far in the past, so an out-of-range claim is refused rather than accepted.
`ValidateMatchesRules` lifts this to the claims; `TickRefuses` shows that time
only turns acceptance into refusal.

**The argument for the composition.** `RpInvariant` adds to `FlowInvariant` that
every session id in a cookie or a request was `Issued`, that is handed out by a
redirect of a callback. `Issued` ids stay issued, and their session is past its
HSET and EXPIRE, so no step of the flow stores it again; that is why a logout is
final and a dead cookie stays dead. The proofs reuse the lemmas of the flow for
every step of `Next` and add one lemma per action of `RelyingParty`.

**The argument for the cache.** `CacheInvariant` dates everything: an entry with
remaining lifetime t was true at some time in the last TTL + latency - t ticks
(`EntriesSound`), and what a caller holds was true at some time since it was
read, counted by `waited` (`CallerSound`). A save turns the second into the first
and loses at most one call; a read turns the first into the second and loses
nothing. `TickHolds` ages both sides alike. The action properties follow at the
step that answers, and `Contract` maps that step to `Answer`.

`ExchangesLeft` measures a call by its task and stage. A step of the task goes on to
a later stage or ends the call, and Verify sends a caller from the end of a fill to
the start of a refresh, which costs less, and never from a refresh to anything but
an answer (`SelectShortens`). The measure looks at the caller alone, so nothing that
other callers, the cache or the OP do can lengthen a call. With the fairness of
`CallStep` this is why `CallsEnd` holds; that last inference is temporal and is left
to TLC.

**The argument for the lifecycle.** A request can be dropped only when Redis is
closed or the process ends. `PhasesSound` has each phase of `main` fix the state of
the deadline, of Redis and of the accept loop, and a drain that ended before its
deadline leave the server `Quiescent`: no accept loop and no open connection, so
nothing can begin any more.

**The argument for the lifetimes.** `WrapBelow`: a product inside the range is kept
and one above it never comes out larger; `MinutesInSeconds`: what fits loses nothing
when EXPIRE cuts it to seconds; one second is the least that go-redis sends, and a
product below a second is zero.

`NumbersRead` and `WrapTypes` give the values after `Atoi` and after a multiplication
that may wrap. `TimeoutsHold` is `WrapBelow` for products of either sign: a limit that
comes out positive is at most the product, so a product of 0 or less that did not
wrap gives none.

**The argument for the requests.** Here the proofs are about data: texts of any
length and forms of any number of parameters. `Joined` and `Reading` are recursive
functions; `FoldExists` shows that functions with such equations exist, so that
their values obey them (`JoinedAppend`, `ReadingAppend`). The induction theorems of
the library take a predicate as a parameter, which the provers cannot instantiate;
`Induction` and `SequenceInduction` say the same of sets, and follow from the least
element of a set of natural numbers (`LeastElement`). With these:

* one escaped character, read from any state between two escapes, appends that
  character (`EscapeUndone`), so by induction on the text reading undoes escaping;
* an escaped text contains no separator (`EscapedWithout`), so a part of an encoded
  form is one pair and the first `=` of a part ends its name (`PartsOfEncoded`, by
  induction on the number of pairs);
* `BasicCredentials` is taken apart at the only colon there is;
* a query starts at the first question mark. Behind an endpoint without one that is
  the mark that `buildAuthorizationUrl` writes. Behind another, `client_id` has become
  part of the endpoint's last value (`FirstNameLost`), so the OP authorizes nothing,
  and nothing is claimed of a token request that is never sent.

`RequestInvariant` records that what was read and sent is what the operators build
from `client` and `endpoint`, which never change; the three properties are then facts
about operators. `Chars` is `STRING` with the characters that the operators name:
the provers do not know of a string literal that it is in `STRING`.

**Model-checked only.** The liveness properties `IssuedStatesEnd`, `IssuedSessionsEnd`,
`CallsEnd`, `SignalEndsProcess` and `FailureEndsProcess`: fairness and `ENABLED` are
outside the prover's reach. Every other property of a passing run is proved, as
are all refinements.

## 6. What is not modelled

* Log lines, trace ids, response bodies and `/health`: no request reads them.
* The RSA arithmetic and the decoding of keys; a signature that does not verify
  is a key other than the one that signed, or a failure at any time.
* The profile fields of a session beyond its subject; the cookie's attributes in
  a browser (`Config` has what they are set to).
* Splitting of `ALLOWED_RETURN_TO_ORIGINS` and the parsing of `return_to`: an origin
  is a value, equal to an allowed one or not.
* `VERSION`, `PORT`, `REDIS_ADDR`, which are passed on as they are.
* Numbers far below zero may wrap to a positive lifetime or limit: no property of
  `Config` speaks of negative minutes, or of seconds whose product wraps from below.

## 7. Plan

Done: the login flow and its contract, the composition with `/me` and `/logout`,
the discovery cache and its contract, the claim rules, the two requests to the
OP, the configuration, the process lifecycle, and proofs of all their safety
properties. Left, in order of worth:

1. The safety half of the other liveness properties as theorems, as `CallsShorten`
   is for `CallsEnd`: what each step of the shutdown brings nearer to the end.
2. `Lifecycle` composed with `LoginFlow`: several processes that stop and start
   beside each other over one Redis.
3. The parsing of `return_to` and of the list of origins as texts, with the lemmas on
   separators that `FormEncoding` already has.
