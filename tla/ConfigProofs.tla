----------------------------- MODULE ConfigProofs -----------------------------
(***************************************************************************)
(* Lifetimes are as configured for every width of integers, every length   *)
(* of second and minute and every number in the environment.               *)
(***************************************************************************)
EXTENDS Config, TLAPS

\* Remainder and quotient by a positive number.
LEMMA Division ==
    ASSUME NEW a \in Nat, NEW b \in Nat \ {0}
    PROVE  /\ a % b \in 0 .. b - 1
           /\ a % b <= a
           /\ a < b => a % b = a
           /\ a \div b \in Nat
           /\ (a \div b) * b <= a
           /\ a % b = 0 => (a \div b) * b = a
           /\ a >= b => a \div b > 0
<1>1. a % b \in 0 .. b - 1
  OBVIOUS
<1>2. a % b <= a
  OBVIOUS
<1>3. a < b => a % b = a
  OBVIOUS
<1>4. a \div b \in Nat
  OBVIOUS
<1>5. (a \div b) * b <= a
  OBVIOUS
<1>6. a % b = 0 => (a \div b) * b = a
  OBVIOUS
<1>7. a >= b => a \div b > 0
  OBVIOUS
<1> QED
  BY <1>1, <1>2, <1>3, <1>4, <1>5, <1>6, <1>7

\* A product within the range is kept; one above it never comes out larger.
LEMMA WrapBelow ==
    ASSUME NEW p \in Int, MaxInt \in Nat, p >= -(MaxInt + 1)
    PROVE  /\ Wrap(p) \in Int64
           /\ Wrap(p) <= p
           /\ p <= MaxInt => Wrap(p) = p
<1> DEFINE m == 2 * (MaxInt + 1)
           a == p + MaxInt + 1
<1>1. m \in Nat \ {0} /\ a \in Nat /\ (p <= MaxInt => a < m)
  OBVIOUS
<1>2. /\ a % m \in 0 .. m - 1
      /\ a % m <= a
      /\ a < m => a % m = a
  <2> HIDE DEF a, m
  <2> QED
    BY <1>1, Division
<1>3. Wrap(p) = (a % m) - (MaxInt + 1)
  BY DEF Wrap
<1> DEFINE r == a % m
<1>4. Wrap(p) = r - (MaxInt + 1)
  BY <1>3
<1>5. r \in 0 .. m - 1 /\ r <= a /\ (p <= MaxInt => r = a)
  <2> HIDE DEF a, m
  <2> QED
    BY <1>1, <1>2
<1> HIDE DEF r
<1> QED
  BY <1>4, <1>5 DEF Int64

\* A whole number of minutes is a whole number of seconds.
LEMMA MinutesInSeconds ==
    ASSUME UnitsAssumption, NEW n \in Nat
    PROVE  ((n * Minute) \div Second) * Second = n * Minute
<1> DEFINE k == Minute \div Second
<1>1. k \in Nat /\ k * Second = Minute
  BY Division DEF UnitsAssumption
<1> HIDE DEF k
<1>2. n * k \in Nat /\ n * Minute = (n * k) * Second
  BY <1>1 DEF UnitsAssumption
<1>3. ASSUME NEW j \in Nat PROVE (j * Second) \div Second = j
  BY DEF UnitsAssumption
<1>4. ((n * k) * Second) \div Second = n * k
  BY <1>2, <1>3
<1> QED
  BY <1>2, <1>4

\* What Redis makes of a Duration of some minutes, wrapped or not.
LEMMA MinutesLive ==
    ASSUME UnitsAssumption, NEW n \in Nat
    PROVE  LET d == Wrap(n * Minute)
           IN  /\ Lifetime(d) * Second <= n * Minute
               /\ n * Minute <= MaxInt => Lifetime(d) * Second = n * Minute
<1> DEFINE p == n * Minute
           d == Wrap(p)
<1>1. p \in Nat /\ MaxInt \in Nat /\ Second \in Nat \ {0}
  BY DEF UnitsAssumption
<1>2. (p \div Second) * Second = p
  BY MinutesInSeconds
<1>3. p = 0 \/ p >= Second
  <2>1. (p \div Second) \in Nat
    <3> HIDE DEF p
    <3> QED
      BY <1>1, Division
  <2> DEFINE q == p \div Second
  <2>2. q \in Nat /\ q * Second = p
    BY <1>2, <2>1
  <2> HIDE DEF p, q
  <2> QED
    BY <1>1, <2>2
<1>4. d \in Int /\ d <= p /\ (p <= MaxInt => d = p)
  <2> HIDE DEF p
  <2>1. p \in Int /\ p >= -(MaxInt + 1)
    BY <1>1
  <2>2. Wrap(p) \in Int64 /\ Wrap(p) <= p /\ (p <= MaxInt => Wrap(p) = p)
    BY <1>1, <2>1, WrapBelow
  <2> QED
    BY <1>1, <2>2 DEF Int64
<1> SUFFICES /\ Lifetime(d) * Second <= p
             /\ p <= MaxInt => Lifetime(d) * Second = p
  OBVIOUS
<1> HIDE DEF p, d
<1>5. CASE d <= 0
  BY <1>1, <1>4, <1>5 DEF Lifetime
<1>6. CASE d > 0 /\ d < Second
  BY <1>1, <1>3, <1>4, <1>6 DEF Lifetime
<1>7. CASE d >= Second
  <2>1. Lifetime(d) = d \div Second
    BY <1>1, <1>4, <1>7 DEF Lifetime
  <2>2. (d \div Second) * Second <= d /\ d \div Second \in Nat
    BY <1>1, <1>4, <1>7, Division
  <2>3. (d \div Second) * Second <= p
    <3> DEFINE e == (d \div Second) * Second
    <3>1. e \in Int /\ e <= d
      BY <1>1, <2>2
    <3> HIDE DEF e
    <3>2. e <= p
      BY <1>1, <1>4, <3>1
    <3> QED
      BY <3>2 DEF e
  <2> QED
    BY <1>2, <1>4, <2>1, <2>3
<1> QED
  BY <1>1, <1>4, <1>5, <1>6, <1>7

\* Both TTLs are read the same way.
LEMMA SettingLives ==
    ASSUME UnitsAssumption, NEW number \in Int \cup {Unset},
           NEW default \in Nat, Unset \notin Int
    PROVE  LivesAsSet(number, default, Duration(number, default, Minute))
<1> DEFINE n == IF number = Unset THEN default ELSE number
<1>1. n \in Int /\ Duration(number, default, Minute) = Wrap(n * Minute)
  BY DEF Duration
<1>2. CASE n >= 0
  BY <1>1, <1>2, MinutesLive DEF LivesAsSet
<1>3. CASE n < 0
  BY <1>1, <1>3 DEF LivesAsSet
<1> QED
  BY <1>1, <1>2, <1>3

\* Whatever is multiplied, an int64 comes out.
LEMMA WrapTypes ==
    ASSUME NEW p \in Int, MaxInt \in Nat
    PROVE  Wrap(p) \in Int64
<1> DEFINE m == 2 * (MaxInt + 1)
           r == (p + MaxInt + 1) % m
<1>1. r \in 0 .. m - 1
  <2> DEFINE a == p + MaxInt + 1
  <2>1. a \in Int /\ m \in Nat \ {0}
    OBVIOUS
  <2> HIDE DEF m, a
  <2>2. a % m \in 0 .. m - 1
    BY <2>1
  <2> QED
    BY <2>2 DEF a
<1>2. Wrap(p) = r - (MaxInt + 1)
  BY DEF Wrap
<1> HIDE DEF r
<1> QED
  BY <1>1, <1>2 DEF Int64

LEMMA DurationTypes ==
    ASSUME UnitsAssumption, NEW number \in Int \cup {Unset},
           NEW default \in Nat, NEW unit \in Nat
    PROVE  Duration(number, default, unit) \in Int64
<1> DEFINE n == IF number = Unset THEN default ELSE number
<1>1. n \in Int /\ MaxInt \in Nat
  BY DEF UnitsAssumption
<1> HIDE DEF n
<1>2. n * unit \in Int
  BY <1>1
<1>3. Wrap(n * unit) \in Int64
  BY <1>1, <1>2, WrapTypes
<1> QED
  BY <1>3 DEF Duration, n

\* Numbers that were read are numbers, or left out.
LEMMA NumbersRead ==
    ASSUME env \in Environments, Readable
    PROVE  /\ env.sessionTtl \in Int \cup {Unset}
           /\ env.transactionTtl \in Int \cup {Unset}
           /\ env.timeout \in Int \cup {Unset}
<1>1. Int64 \subseteq Int
  BY UnitsAssumption DEF UnitsAssumption, Int64
<1> QED
  BY <1>1, NumbersAssumption DEF NumbersAssumption, Readable, Environments

\* Settings have the types of the configuration, whatever product wraps
\* (loadConfig).
THEOREM SettingTypes == Spec => []TypeOK
<1>1. Init => TypeOK
  <2>1. 0 \in Int64
    BY UnitsAssumption DEF UnitsAssumption, Int64
  <2> QED
    BY <2>1 DEF Init, TypeOK, Nothing
<1>2. TypeOK /\ [Next]_vars => TypeOK'
  <2> SUFFICES ASSUME TypeOK, [Next]_vars PROVE TypeOK'
    OBVIOUS
  <2>1. CASE LoadFails
    BY <2>1 DEF LoadFails, TypeOK
  <2>2. CASE Load
    <3>1. env \in Environments /\ Readable
      BY <2>2 DEF Load, TypeOK
    <3>2. /\ DefaultSessionTtl \in Nat /\ DefaultTransactionTtl \in Nat
          /\ DefaultTimeout \in Nat /\ Minute \in Nat /\ Second \in Nat
      BY UnitsAssumption DEF UnitsAssumption
    <3>3. Duration(env.sessionTtl, DefaultSessionTtl, Minute) \in Int64
      BY <3>1, <3>2, NumbersRead, DurationTypes, UnitsAssumption
    <3>4. Duration(env.transactionTtl, DefaultTransactionTtl, Minute) \in Int64
      BY <3>1, <3>2, NumbersRead, DurationTypes, UnitsAssumption
    <3>5. Duration(env.timeout, DefaultTimeout, Second) \in Int64
      BY <3>1, <3>2, NumbersRead, DurationTypes, UnitsAssumption
    <3>6. /\ AuthMethod(env.authMethod) \in {"client_secret_basic",
                                             "client_secret_post"}
          /\ CookieSecure(env.cookieSecure) \in BOOLEAN
          /\ env.cookieSameSite \in {"lax", "strict", "none"}
      BY <3>1 DEF AuthMethod, CookieSecure, Environments
    <3>7. config' \in [authMethod : {"none", "client_secret_basic",
                                     "client_secret_post"},
                       sessionTtl : Int64, transactionTtl : Int64,
                       timeout : Int64, secure : BOOLEAN,
                       sameSite : {"lax", "strict", "none"}, origins : BOOLEAN]
      BY <2>2, <3>3, <3>4, <3>5, <3>6 DEF Load
    <3> QED
      BY <2>2, <3>1, <3>7 DEF Load, TypeOK
  <2>3. CASE UNCHANGED vars
    BY <2>3 DEF vars, TypeOK
  <2> QED
    BY <2>1, <2>2, <2>3 DEF Next
<1> QED
  BY <1>1, <1>2, PTL DEF Spec

\* What holds once loadConfig has returned settings.
Loaded ==
    /\ env \in Environments
    /\ outcome = "ready" =>
          /\ Readable
          /\ config.sessionTtl =
                Duration(env.sessionTtl, DefaultSessionTtl, Minute)
          /\ config.transactionTtl =
                Duration(env.transactionTtl, DefaultTransactionTtl, Minute)
          /\ config.timeout = Duration(env.timeout, DefaultTimeout, Second)

\* The settings come from the environment that was read.
LEMMA LoadedHolds == Spec => []Loaded
<1>1. Init => Loaded
  BY DEF Init, Loaded
<1>2. Loaded /\ [Next]_vars => Loaded'
  BY DEF Loaded, Next, LoadFails, Load, Readable, vars
<1> QED
  BY <1>1, <1>2, PTL DEF Spec

\* No key lives longer than configured, and none shorter while its minutes
\* fit a Duration, for every number that the environment may hold.
THEOREM LifetimesHold == Spec => []LifetimesAsConfigured
<1>1. Loaded => LifetimesAsConfigured
  <2> SUFFICES ASSUME Loaded, outcome = "ready"
               PROVE  /\ LivesAsSet(env.sessionTtl, DefaultSessionTtl,
                                    config.sessionTtl)
                      /\ LivesAsSet(env.transactionTtl, DefaultTransactionTtl,
                                    config.transactionTtl)
    BY DEF LifetimesAsConfigured
  <2>1. /\ env.sessionTtl \in Int \cup {Unset}
        /\ env.transactionTtl \in Int \cup {Unset}
    BY NumbersRead DEF Loaded
  <2>2. DefaultSessionTtl \in Nat /\ DefaultTransactionTtl \in Nat
    BY UnitsAssumption DEF UnitsAssumption
  <2>3. LivesAsSet(env.sessionTtl, DefaultSessionTtl,
                   Duration(env.sessionTtl, DefaultSessionTtl, Minute))
    BY <2>1, <2>2, SettingLives, UnitsAssumption, NumbersAssumption
  <2>4. LivesAsSet(env.transactionTtl, DefaultTransactionTtl,
                   Duration(env.transactionTtl, DefaultTransactionTtl, Minute))
    BY <2>1, <2>2, SettingLives, UnitsAssumption, NumbersAssumption
  <2> QED
    BY <2>3, <2>4 DEF Loaded
<1> QED
  BY <1>1, LoadedHolds, PTL

\* Whatever product wraps, a discovery call that has a limit is not allowed
\* more than the configured seconds, and 0 or less is no limit
\* (NewHttpDiscoveryClient).
THEOREM TimeoutsHold == Spec => []TimeoutNeverLonger
<1>1. Loaded => TimeoutNeverLonger
  <2> DEFINE seconds == IF env.timeout = Unset THEN DefaultTimeout
                        ELSE env.timeout
             limit == seconds * Second
  <2> SUFFICES ASSUME Loaded, outcome = "ready"
               PROVE  /\ limit >= -(MaxInt + 1) /\ Limited(config.timeout)
                            => config.timeout <= limit
                      /\ limit \in 1 .. MaxInt => config.timeout = limit
    BY DEF TimeoutNeverLonger
  <2>1. seconds \in Int /\ Second \in Nat /\ MaxInt \in Nat
    BY NumbersRead, UnitsAssumption DEF Loaded, UnitsAssumption
  <2>2. config.timeout = Wrap(limit)
    BY DEF Loaded, Duration
  <2>3. limit \in Int
    BY <2>1
  <2> HIDE DEF limit
  <2>4. CASE limit >= -(MaxInt + 1)
    <3>1. /\ Wrap(limit) <= limit
          /\ limit <= MaxInt => Wrap(limit) = limit
      BY <2>1, <2>3, <2>4, WrapBelow
    <3> QED
      BY <2>1, <2>2, <2>3, <3>1
  <2>5. CASE ~(limit >= -(MaxInt + 1))
    BY <2>1, <2>3, <2>5
  <2> QED
    BY <2>4, <2>5
<1> QED
  BY <1>1, LoadedHolds, PTL
=============================================================================
