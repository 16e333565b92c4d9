------------------------------ MODULE Lifecycle ------------------------------
(***************************************************************************)
(* One process of the relying party from start to exit: main, the          *)
(* goroutine in ListenAndServe, the handlers it starts, and the two orders *)
(* in which the HTTP server and the Redis client are stopped               *)
(* (GracefulShutdown and CloseExternalConnections).                        *)
(*                                                                         *)
(* What net/http does is modelled from how the code relies on it: Shutdown *)
(* stops the listener, then closes the connections that wait for a request *)
(* until none is left or its context ends; a connection on which nothing   *)
(* was ever sent counts as busy for its first five seconds; requests that  *)
(* arrive on an open connection during the drain are still served.  What a *)
(* handler does is left out but for its use of the shared Redis client.    *)
(***************************************************************************)
EXTENDS Naturals

CONSTANT Conns   \* TCP connections that clients may open

VARIABLES
    main,        \* where func main is
    caught,      \* signal.NotifyContext is in force
    ctxDone,     \* its context is done
    serve,       \* the goroutine that runs ListenAndServe
    errCh,       \* the channel's one place holds an error
    inShutdown,  \* http.Server is shutting down
    deadline,    \* of shutdownCtx
    redis,       \* the client that all repositories share
    conn,        \* each connection as http.Server tracks it
    request      \* the last request of each connection

vars == <<main, caught, ctxDone, serve, errCh, inShutdown, deadline, redis,
          conn, request>>

\* For what actions leave alone: main's side, the server's, the clients'.
control == <<main, caught, ctxDone, deadline, redis>>
server == <<serve, errCh, inShutdown>>
clients == <<conn, request>>

Ended == main \in {"initFailed", "returned", "killed"}

TypeOK ==
    /\ main \in {"starting", "waiting", "draining", "closing", "failing",
                 "finishing", "initFailed", "returned", "killed"}
    /\ serve \in {"unborn", "binding", "accepting", "failing", "failed",
                  "over"}
    /\ deadline \in {"off", "running", "passed"}
    /\ redis \in {"open", "closed"}
    /\ caught \in BOOLEAN /\ ctxDone \in BOOLEAN
    /\ errCh \in BOOLEAN /\ inShutdown \in BOOLEAN
    /\ conn \in [Conns -> {"none", "new", "stale", "busy", "idle", "closed"}]
    /\ request \in [Conns -> {"none", "running", "refused", "answered",
                              "failed", "cut"}]

\* NotifyContext has returned, InitializeServer is running.
Init ==
    /\ main = "starting"
    /\ caught = TRUE
    /\ ctxDone = FALSE
    /\ serve = "unborn"
    /\ errCh = FALSE
    /\ inShutdown = FALSE
    /\ deadline = "off"
    /\ redis = "open"
    /\ conn = [c \in Conns |-> "none"]
    /\ request = [c \in Conns |-> "none"]

\* The process ends and takes its handlers with it.
Exit(how) ==
    /\ main' = how
    /\ request' = [c \in Conns |->
                     IF conn[c] = "busy" THEN "cut" ELSE request[c]]

-----------------------------------------------------------------------------
(* main.                                                                   *)

\* os.Exit(1): no deferred call runs.
InitFails ==
    /\ main = "starting"
    /\ Exit("initFailed")
    /\ UNCHANGED <<caught, ctxDone, server, deadline, redis, conn>>

InitSucceeds ==
    /\ main = "starting"
    /\ main' = "waiting"
    /\ serve' = "binding"
    /\ UNCHANGED <<caught, ctxDone, errCh, inShutdown, deadline, redis,
                   clients>>

\* Fault: GracefulShutdown closes Redis before it drains.
ShutdownClosingRedis ==
    /\ main = "waiting"
    /\ ctxDone
    /\ main' = "draining"
    /\ caught' = FALSE
    /\ inShutdown' = TRUE
    /\ deadline' = "running"
    /\ redis' = "closed"
    /\ UNCHANGED <<ctxDone, serve, errCh, clients>>

\* Fault: GracefulShutdown calls Close in place of Shutdown, which waits for
\* no handler.
BeginWithoutDrain ==
    /\ main = "waiting"
    /\ ctxDone
    /\ main' = "closing"
    /\ caught' = FALSE
    /\ inShutdown' = TRUE
    /\ deadline' = "running"
    /\ UNCHANGED <<ctxDone, serve, errCh, redis, clients>>

\* The select, by its first case: stop() gives signals their default effect
\* back, so the next one kills, and Shutdown begins.
BeginShutdown ==
    /\ main = "waiting"
    /\ ctxDone
    /\ main' = "draining"
    /\ caught' = FALSE
    /\ inShutdown' = TRUE
    /\ deadline' = "running"
    /\ UNCHANGED <<ctxDone, serve, errCh, redis, clients>>

\* The select, by its second case, open to it even after a signal.
ErrorSelected ==
    /\ main = "waiting"
    /\ errCh
    /\ main' = "failing"
    /\ errCh' = FALSE
    /\ UNCHANGED <<caught, ctxDone, serve, inShutdown, deadline, redis,
                   clients>>

\* One round of Shutdown, once the accept loop is gone.
Poll ==
    /\ main = "draining"
    /\ serve # "accepting"
    /\ conn' = [c \in Conns |->
                  IF conn[c] \in {"idle", "stale"} THEN "closed" ELSE conn[c]]
    /\ main' = IF \E c \in Conns : conn[c] \in {"new", "busy"}
               THEN "draining" ELSE "closing"
    /\ UNCHANGED <<caught, ctxDone, server, deadline, redis, request>>

\* Fault: Shutdown is given a context without a deadline.
NoDeadline ==
    /\ FALSE
    /\ UNCHANGED vars

DeadlinePasses ==
    /\ main = "draining"
    /\ deadline = "running"
    /\ deadline' = "passed"
    /\ UNCHANGED <<main, caught, ctxDone, server, redis, clients>>

\* Shutdown returns the context's error; its connections stay open.
GiveUp ==
    /\ main = "draining"
    /\ serve # "accepting"
    /\ deadline = "passed"
    /\ main' = "closing"
    /\ UNCHANGED <<caught, ctxDone, server, deadline, redis, clients>>

\* redisClient.Close, in GracefulShutdown or CloseExternalConnections.
CloseRedis ==
    /\ main \in {"closing", "failing"}
    /\ main' = "finishing"
    /\ redis' = "closed"
    /\ UNCHANGED <<caught, ctxDone, server, deadline, clients>>

Return ==
    /\ main = "finishing"
    /\ Exit("returned")
    /\ UNCHANGED <<caught, ctxDone, server, deadline, redis, conn>>

MainStep ==
    \/ InitFails \/ InitSucceeds
    \/ BeginShutdown \/ ErrorSelected
    \/ Poll \/ GiveUp
    \/ CloseRedis \/ Return

\* SIGINT or SIGTERM, at any time and any number of times.
Signal ==
    /\ ~Ended
    /\ IF caught THEN ctxDone' = TRUE /\ UNCHANGED <<main, request>>
                 ELSE Exit("killed") /\ UNCHANGED ctxDone
    /\ UNCHANGED <<caught, server, deadline, redis, conn>>

-----------------------------------------------------------------------------
(* The goroutine in ListenAndServe.                                        *)

\* net.Listen works, fails (the port is taken), or comes after Shutdown.
Bind ==
    /\ ~Ended
    /\ serve = "binding"
    /\ serve' \in IF inShutdown THEN {"over"} ELSE {"accepting", "failing"}
    /\ UNCHANGED <<control, errCh, inShutdown, clients>>

\* Accept fails for good; its open connections go on being served.
AcceptFails ==
    /\ ~Ended
    /\ serve = "accepting"
    /\ ~inShutdown
    /\ serve' = "failing"
    /\ UNCHANGED <<control, errCh, inShutdown, clients>>

\* ErrServerClosed, which is not sent.
AcceptClosed ==
    /\ ~Ended
    /\ serve = "accepting"
    /\ inShutdown
    /\ serve' = "over"
    /\ UNCHANGED <<control, errCh, inShutdown, clients>>

\* Fault: the error is logged where it occurs and not sent.
LogError ==
    /\ ~Ended
    /\ serve = "failing"
    /\ serve' = "failed"
    /\ UNCHANGED <<control, errCh, inShutdown, clients>>

\* The channel has a place for it, so the goroutine never waits.
SendError ==
    /\ ~Ended
    /\ serve = "failing"
    /\ serve' = "failed"
    /\ errCh' = TRUE
    /\ UNCHANGED <<control, inShutdown, clients>>

ServeStep == Bind \/ AcceptClosed \/ SendError

-----------------------------------------------------------------------------
(* Connections and handlers.                                               *)

Accept(c) ==
    /\ ~Ended
    /\ serve = "accepting"
    /\ conn[c] = "none"
    /\ conn' = [conn EXCEPT ![c] = "new"]
    /\ UNCHANGED <<control, server, request>>

GrowStale(c) ==
    /\ ~Ended
    /\ conn[c] = "new"
    /\ conn' = [conn EXCEPT ![c] = "stale"]
    /\ UNCHANGED <<control, server, request>>

HangUp(c) ==
    /\ ~Ended
    /\ conn[c] \in {"new", "stale", "idle"}
    /\ conn' = [conn EXCEPT ![c] = "closed"]
    /\ UNCHANGED <<control, server, request>>

Begin(c) ==
    /\ ~Ended
    /\ conn[c] \in {"new", "stale", "idle"}
    /\ conn' = [conn EXCEPT ![c] = "busy"]
    /\ request' = [request EXCEPT ![c] = "running"]
    /\ UNCHANGED <<control, server>>

\* A handler's Redis call returns redis.ErrClosed.
CallRefused(c) ==
    /\ ~Ended
    /\ request[c] = "running"
    /\ redis = "closed"
    /\ request' = [request EXCEPT ![c] = "refused"]
    /\ UNCHANGED <<control, server, conn>>

\* The response; a server that is shutting down then closes the connection.
Answer(c) ==
    /\ ~Ended
    /\ conn[c] = "busy"
    /\ conn' = [conn EXCEPT ![c] = IF inShutdown THEN "closed" ELSE "idle"]
    /\ request' = [request EXCEPT ![c] =
                     IF @ = "running" THEN "answered" ELSE "failed"]
    /\ UNCHANGED <<control, server>>

ConnStep(c) ==
    \/ Accept(c) \/ GrowStale(c) \/ HangUp(c)
    \/ Begin(c) \/ CallRefused(c) \/ Answer(c)

-----------------------------------------------------------------------------
Next ==
    \/ MainStep
    \/ DeadlinePasses
    \/ Signal
    \/ ServeStep
    \/ AcceptFails
    \/ \E c \in Conns : ConnStep(c)

Spec == Init /\ [][Next]_vars

\* main and the accept goroutine are scheduled and time passes.  Nothing is
\* assumed of clients and handlers: a handler may hang, a client may keep a
\* connection open and send nothing.
Fairness ==
    /\ WF_vars(MainStep)
    /\ WF_vars(ServeStep)
    /\ WF_vars(DeadlinePasses)

FairSpec == Spec /\ Fairness

-----------------------------------------------------------------------------
(* Properties.                                                             *)

\* The request was refused by a closed Redis client, or lost its handler.
Dropped(c) == request[c] \in {"refused", "failed", "cut"}

\* A stop within the drain time costs no request: whatever arrives on open
\* connections while Shutdown waits, no handler meets a closed Redis client
\* and none is cut short, unless five seconds passed, a second signal came,
\* or the accept loop failed and main took that branch (GracefulShutdown's
\* order, the select in main).
TimelyStopDropsNothing ==
    \A c \in Conns : Dropped(c) =>
        \/ main = "killed"
        \/ deadline = "passed"
        \/ deadline = "off" /\ serve = "failed"

\* A signal ends the process, in whatever phase it comes, even if a handler
\* hangs, a client sits on its connection, or the server fails at the same
\* moment (the select, context.WithTimeout in main).
SignalEndsProcess == ctxDone ~> Ended

\* A server that cannot listen or accept any more does not linger behind a
\* port that nobody serves: the process ends (errCh in main).
FailureEndsProcess == serve = "failing" ~> Ended

-----------------------------------------------------------------------------
(* The inductive invariant behind TimelyStopDropsNothing.                  *)

RequestsSound ==
    \A c \in Conns :
        /\ conn[c] = "busy" <=> request[c] \in {"running", "refused", "cut"}
        /\ request[c] = "cut" => Ended
        /\ request[c] \in {"refused", "failed"} => redis = "closed"

\* A drain that ended in time left nothing that could still begin.
Quiescent ==
    /\ serve # "accepting"
    /\ \A c \in Conns : conn[c] \in {"none", "closed"}

PhasesSound ==
    /\ main \in {"starting", "waiting", "initFailed"}
          => deadline = "off" /\ redis = "open"
    /\ main \in {"draining", "closing", "failing"} => redis = "open"
    /\ main \in {"draining", "closing"} => deadline # "off"
    /\ main = "failing" => deadline = "off"
    /\ errCh => serve = "failed"
    /\ main \in {"failing", "finishing", "returned"} /\ deadline = "off"
          => serve = "failed"
    /\ inShutdown <=> deadline # "off"
    /\ main \in {"closing", "finishing", "returned"} /\ deadline = "running"
          => Quiescent
    /\ main \in {"starting", "initFailed"}
          => serve = "unborn" /\ \A c \in Conns : conn[c] = "none"

LifecycleInvariant ==
    /\ TypeOK
    /\ RequestsSound
    /\ PhasesSound
    /\ TimelyStopDropsNothing

=============================================================================
