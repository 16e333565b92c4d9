--------------------------- MODULE LifecycleProofs ---------------------------
(***************************************************************************)
(* A timely stop drops no request, for any number of connections:          *)
(* LifecycleInvariant is inductive and implies it.                         *)
(***************************************************************************)
EXTENDS Lifecycle, TLAPS

LEMMA InitHolds == Init => LifecycleInvariant
BY DEF Init, LifecycleInvariant, TypeOK, RequestsSound, PhasesSound, Quiescent,
       TimelyStopDropsNothing, Dropped

\* main: leaving the wait, draining, closing, returning.
LEMMA MainHolds == LifecycleInvariant /\ MainStep => LifecycleInvariant'
<1> SUFFICES ASSUME LifecycleInvariant, MainStep PROVE LifecycleInvariant'
  OBVIOUS
<1> USE DEF LifecycleInvariant, TypeOK, RequestsSound, PhasesSound, Quiescent,
            TimelyStopDropsNothing, Dropped, Ended, control, server, clients
<1>1. CASE InitFails
  BY <1>1 DEF InitFails, Exit
<1>2. CASE InitSucceeds
  BY <1>2 DEF InitSucceeds
<1>3. CASE BeginShutdown
  BY <1>3 DEF BeginShutdown
<1>4. CASE ErrorSelected
  BY <1>4 DEF ErrorSelected
<1>5. CASE Poll
  BY <1>5 DEF Poll
<1>6. CASE GiveUp
  BY <1>6 DEF GiveUp
<1>7. CASE CloseRedis
  BY <1>7 DEF CloseRedis
<1>8. CASE Return
  BY <1>8 DEF Return, Exit
<1> QED
  BY <1>1, <1>2, <1>3, <1>4, <1>5, <1>6, <1>7, <1>8 DEF MainStep

\* Signals, the deadline and the accept goroutine.
LEMMA AroundHolds ==
    LifecycleInvariant /\ (DeadlinePasses \/ Signal \/ ServeStep \/ AcceptFails)
        => LifecycleInvariant'
<1> SUFFICES ASSUME LifecycleInvariant,
                    DeadlinePasses \/ Signal \/ ServeStep \/ AcceptFails
             PROVE  LifecycleInvariant'
  OBVIOUS
<1> USE DEF LifecycleInvariant, TypeOK, RequestsSound, PhasesSound, Quiescent,
            TimelyStopDropsNothing, Dropped, Ended, control, server, clients
<1>1. CASE DeadlinePasses
  BY <1>1 DEF DeadlinePasses
<1>2. CASE Signal
  BY <1>2 DEF Signal, Exit
<1>3. CASE Bind
  BY <1>3 DEF Bind
<1>4. CASE AcceptClosed
  BY <1>4 DEF AcceptClosed
<1>5. CASE SendError
  BY <1>5 DEF SendError
<1>6. CASE AcceptFails
  BY <1>6 DEF AcceptFails
<1> QED
  BY <1>1, <1>2, <1>3, <1>4, <1>5, <1>6 DEF ServeStep

\* Connections and handlers: nothing begins once a timely drain is over.
LEMMA ConnHolds ==
    ASSUME NEW c \in Conns, LifecycleInvariant, ConnStep(c)
    PROVE  LifecycleInvariant'
<1> USE DEF LifecycleInvariant, TypeOK, RequestsSound, PhasesSound, Quiescent,
            TimelyStopDropsNothing, Dropped, Ended, control, server, clients
<1>1. CASE Accept(c)
  BY <1>1 DEF Accept
<1>2. CASE GrowStale(c)
  BY <1>2 DEF GrowStale
<1>3. CASE HangUp(c)
  BY <1>3 DEF HangUp
<1>4. CASE Begin(c)
  BY <1>4 DEF Begin
<1>5. CASE CallRefused(c)
  BY <1>5 DEF CallRefused
<1>6. CASE Answer(c)
  BY <1>6 DEF Answer
<1> QED
  BY <1>1, <1>2, <1>3, <1>4, <1>5, <1>6 DEF ConnStep

LEMMA StutterHolds ==
    LifecycleInvariant /\ UNCHANGED vars => LifecycleInvariant'
BY DEF vars, LifecycleInvariant, TypeOK, RequestsSound, PhasesSound, Quiescent,
       TimelyStopDropsNothing, Dropped, Ended

\* The phases of main, the accept goroutine and the connections agree.
THEOREM PhasesAgree == Spec => []LifecycleInvariant
<1>1. LifecycleInvariant /\ [Next]_vars => LifecycleInvariant'
  BY MainHolds, AroundHolds, ConnHolds, StutterHolds DEF Next
<1> QED
  BY InitHolds, <1>1, PTL DEF Spec

\* The variables keep their types.
THEOREM TypesKept == Spec => []TypeOK
<1>1. LifecycleInvariant => TypeOK
  BY DEF LifecycleInvariant
<1> QED
  BY PhasesAgree, <1>1, PTL

\* A stop within the drain time costs no request, however many connections
\* clients hold.
THEOREM TimelyStop == Spec => []TimelyStopDropsNothing
<1>1. LifecycleInvariant => TimelyStopDropsNothing
  BY DEF LifecycleInvariant
<1> QED
  BY PhasesAgree, <1>1, PTL
=============================================================================
