\* A minute is two seconds of three nanoseconds; 5 minutes fit, 6 wrap.
SPECIFICATION Spec
CONSTANTS
    Unset = Unset
    Junk = Junk
    MaxInt = 31
    Second = 3
    Minute = 6
    DefaultSessionTtl = 5
    DefaultTransactionTtl = 2
    DefaultTimeout = 3
    SessionNumbers <- MCAll
    TransactionNumbers <- MCEdges
    TimeoutNumbers <- MCSeconds
INVARIANTS
    TypeOK
    LifetimesAsConfigured
    TimeoutNeverLonger
\* Loading happens once.
CHECK_DEADLOCK FALSE
