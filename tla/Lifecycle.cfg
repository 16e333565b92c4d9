\* Three connections, any number of signals; no symmetry, liveness does not
\* allow it.
SPECIFICATION FairSpec
CONSTANTS
    c1 = c1  c2 = c2  c3 = c3
    Conns = {c1, c2, c3}
INVARIANTS
    TimelyStopDropsNothing
    LifecycleInvariant
PROPERTIES
    SignalEndsProcess
    FailureEndsProcess
\* The process ends.
CHECK_DEADLOCK FALSE
