------------------------------- MODULE Config -------------------------------
(***************************************************************************)
(* loadConfig: from environment variables to the settings that the other   *)
(* components run with, and what Redis, the HTTP clients and the token     *)
(* client make of those.  InitializeServer fails when loadConfig does.     *)
(*                                                                         *)
(* A time.Duration is an int64 number of nanoseconds; minutes and seconds  *)
(* are multiplied into it without a check, so large numbers wrap.  Widths  *)
(* and units are constants, to be small for TLC.  Unset and empty are the  *)
(* same to os.Getenv.  Texts that are only passed on (VERSION, PORT,       *)
(* REDIS_ADDR) are left out.                                               *)
(***************************************************************************)
EXTENDS Integers

CONSTANTS
    MaxInt,                \* the greatest int64
    Second, Minute,        \* time.Second and time.Minute
    DefaultSessionTtl,     \* 60 minutes
    DefaultTransactionTtl, \* 10 minutes
    DefaultTimeout,        \* 10 seconds
    SessionNumbers,        \* integers in SESSION_TTL_MINUTES,
    TransactionNumbers,    \*   in TRANSACTION_TTL_MINUTES
    TimeoutNumbers,        \*   and in DISCOVERY_TIMEOUT_SECONDS
    Unset,                 \* a variable that is not set, or empty
    Junk                   \* text that the parser of its variable refuses

Int64 == -(MaxInt + 1) .. MaxInt

ASSUME UnitsAssumption ==
    /\ MaxInt \in Nat
    /\ Second \in Nat \ {0} /\ Minute \in Nat \ {0} /\ Minute % Second = 0
    /\ DefaultSessionTtl \in Nat /\ DefaultSessionTtl * Minute <= MaxInt
    /\ DefaultTransactionTtl \in Nat
    /\ DefaultTransactionTtl * Minute <= MaxInt
    /\ DefaultTimeout \in Nat /\ DefaultTimeout * Second <= MaxInt

ASSUME NumbersAssumption ==
    /\ SessionNumbers \subseteq Int64
    /\ TransactionNumbers \subseteq Int64
    /\ TimeoutNumbers \subseteq Int64
    /\ Unset \notin Int /\ Junk \notin Int /\ Unset # Junk

VARIABLES
    env,     \* the environment
    outcome, \* of InitializeServer
    config   \* what loadConfig returned

vars == <<env, outcome, config>>

\* Variables without which the program would not do.
Credentials == {"GOOGLE_CLIENT_ID", "GOOGLE_CLIENT_SECRET", "REDIRECT_URI"}
Required == Credentials \cup {"ALLOWED_RETURN_TO_ORIGINS"}

\* COOKIE_SAME_SITE unset, or anything else, is as good as lax.
Environments ==
    [given : SUBSET Required,
     authMethod : {Unset, "basic", "post", "client_secret_post"},
     sessionTtl : SessionNumbers \cup {Unset, Junk},
     transactionTtl : TransactionNumbers \cup {Unset, Junk},
     timeout : TimeoutNumbers \cup {Unset, Junk},
     cookieSecure : {Unset, Junk, TRUE, FALSE},
     cookieSameSite : {"lax", "strict", "none"}]

Nothing == [authMethod |-> "none", sessionTtl |-> 0, transactionTtl |-> 0,
            timeout |-> 0, secure |-> FALSE, sameSite |-> "none",
            origins |-> FALSE]

Init ==
    /\ env \in Environments
    /\ outcome = "loading"
    /\ config = Nothing

-----------------------------------------------------------------------------
(* loadConfig.                                                             *)

\* int64 multiplication.
Wrap(n) == ((n + MaxInt + 1) % (2 * (MaxInt + 1))) - (MaxInt + 1)

\* Fault: the unit is forgotten.
DurationWithoutUnit(number, default, unit) ==
    Wrap(IF number = Unset THEN default ELSE number)

\* time.Duration(number) * unit.
Duration(number, default, unit) ==
    Wrap((IF number = Unset THEN default ELSE number) * unit)

\* Fault: the text is passed on as it is.
AuthMethodVerbatim(text) ==
    IF text = Unset THEN "client_secret_basic" ELSE text

AuthMethod(text) ==
    IF text = "client_secret_post" THEN "client_secret_post"
    ELSE "client_secret_basic"

\* Text that ParseBool refuses leaves the cookie without the attribute.
CookieSecure(text) == text = TRUE

Readable ==
    /\ Credentials \subseteq env.given
    /\ Junk \notin {env.sessionTtl, env.transactionTtl, env.timeout}

LoadFails ==
    /\ outcome = "loading"
    /\ ~Readable
    /\ outcome' = "failed"
    /\ UNCHANGED <<env, config>>

Load ==
    /\ outcome = "loading"
    /\ Readable
    /\ outcome' = "ready"
    /\ config' =
         [authMethod |-> AuthMethod(env.authMethod),
          sessionTtl |-> Duration(env.sessionTtl, DefaultSessionTtl, Minute),
          transactionTtl |->
              Duration(env.transactionTtl, DefaultTransactionTtl, Minute),
          timeout |-> Duration(env.timeout, DefaultTimeout, Second),
          secure |-> CookieSecure(env.cookieSecure),
          sameSite |-> env.cookieSameSite,
          origins |-> "ALLOWED_RETURN_TO_ORIGINS" \in env.given]
    /\ UNCHANGED env

Next == LoadFails \/ Load

Spec == Init /\ [][Next]_vars

-----------------------------------------------------------------------------
(* What the settings come to.                                              *)

\* Fault: a lifetime is rounded up to a whole second.
LifetimeRoundedUp(d) == IF d <= 0 THEN 0 ELSE d \div Second + 1

\* The seconds that a key with EXPIRE d lives: go-redis makes a second of
\* less and cuts off the rest, Redis deletes the key at a TTL of 0 or less.
Lifetime(d) ==
    IF d <= 0 THEN 0 ELSE IF d < Second THEN 1 ELSE d \div Second

\* http.Client takes a timeout that is not positive for none.
Limited(d) == d > 0

-----------------------------------------------------------------------------
(* Properties.                                                             *)

TypeOK ==
    /\ env \in Environments
    /\ outcome \in {"loading", "failed", "ready"}
    /\ config \in [authMethod : {"none", "client_secret_basic",
                                 "client_secret_post"},
                   sessionTtl : Int64, transactionTtl : Int64,
                   timeout : Int64, secure : BOOLEAN,
                   sameSite : {"lax", "strict", "none"}, origins : BOOLEAN]

\* number minutes in the environment, d what loadConfig made of them.
LivesAsSet(number, default, d) ==
    LET minutes == IF number = Unset THEN default ELSE number
    IN  /\ minutes >= 0 => Lifetime(d) * Second <= minutes * Minute
        /\ minutes >= 0 /\ minutes * Minute <= MaxInt
              => Lifetime(d) * Second = minutes * Minute

\* No session and no transaction lives longer than the minutes in the
\* environment, even when their product wraps, and every number of minutes
\* that a Duration can hold is met exactly (loadConfig, go-redis, EXPIRE).
LifetimesAsConfigured ==
    outcome = "ready" =>
        /\ LivesAsSet(env.sessionTtl, DefaultSessionTtl, config.sessionTtl)
        /\ LivesAsSet(env.transactionTtl, DefaultTransactionTtl,
                      config.transactionTtl)

\* Where a discovery call has a limit, it is never longer than the seconds in
\* the environment, even when their product wraps past the range; 0 and less
\* are no limit at all, never one that is over at once or lasts a while, and
\* seconds that a Duration can hold are met exactly.  Only numbers so far
\* below zero that they wrap are left out (NewHttpDiscoveryClient).
TimeoutNeverLonger ==
    outcome = "ready" =>
        LET seconds == IF env.timeout = Unset THEN DefaultTimeout
                       ELSE env.timeout
            limit == seconds * Second
        IN  /\ limit >= -(MaxInt + 1) /\ Limited(config.timeout)
                  => config.timeout <= limit
            /\ limit \in 1 .. MaxInt => config.timeout = limit
=============================================================================
