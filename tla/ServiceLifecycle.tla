-------------------------- MODULE ServiceLifecycle --------------------------
(***************************************************************************)
(* Start-up, readiness and shutdown of the read-only governance service    *)
(* (apps/read-only-governance-service).  One event loop runs three         *)
(* activities that interleave at their awaits: main (composition, start,   *)
(* the catch block), performStop, and the readiness check that probes and  *)
(* start share.  Signals, connections and probes come from outside.        *)
(***************************************************************************)
EXTENDS Naturals

CONSTANTS
  HostIsName,    \* the host needs a name lookup: listen() takes a while
  MaxConnections \* bound: connections open at once

ASSUME HostAssumption == HostIsName \in BOOLEAN
ASSUME ConnectionAssumption == MaxConnections \in Nat

VARIABLES
  main,        \* where main.js stands
  server,      \* the HTTP server
  connections, \* its connections with a request in progress
  started,     \* ManagedReadOnlyService.started
  stopping,    \* ReadinessCoordinator.stopping
  startedAt,   \* ReadinessCoordinator.startedAt is set
  inFlight,    \* ReadinessCoordinator.inFlight: none, running, or doomed when
               \* it began after the pool had ended
  stop,        \* where performStop stands; "none" before the first stop()
  pool,        \* the PostgreSQL pool
  signalled,   \* the shutdown signal has been handled
  probe        \* one GET /ready: none, waiting, or its last answer

serviceVars == <<main, server, connections, started, stopping, startedAt, inFlight,
          stop, pool, signalled, probe>>

readiness == <<stopping, startedAt>>

ServiceTypeOK ==
  /\ main \in {"composing", "binding", "announcing", "checking", "stopping",
               "serving", "catch", "failed"}
  /\ server \in {"new", "binding", "listening", "draining", "closed"}
  /\ connections \in 0..MaxConnections
  /\ started \in BOOLEAN /\ stopping \in BOOLEAN
  /\ startedAt \in BOOLEAN /\ signalled \in BOOLEAN
  /\ inFlight \in {"none", "running", "doomed"}
  /\ stop \in {"none", "announce", "drain", "destroyed", "pool", "record",
               "done", "rejected"}
  /\ pool \in {"open", "ended"}
  /\ probe \in {"none", "waiting", "ready", "not_ready"}

ServiceInit ==
  /\ main = "composing" /\ server = "new" /\ connections = 0
  /\ started = FALSE /\ stopping = FALSE /\ startedAt = FALSE
  /\ inFlight = "none" /\ stop = "none" /\ pool = "open"
  /\ signalled = FALSE /\ probe = "none"

-----------------------------------------------------------------------------
(* main.js and ManagedReadOnlyService.start                                *)

\* Migrations, JWKS warm-up and assembly; any failure goes to the catch block.
ComposeFails ==
  /\ main = "composing"
  /\ main' = "catch"
  /\ UNCHANGED <<server, connections, started, readiness, inFlight, stop, pool,
                 signalled, probe>>

\* Signals are handled from here on; start() calls server.listen().
Listen ==
  /\ main = "composing"
  /\ main' = "binding"
  /\ server' = "binding"
  /\ UNCHANGED <<connections, started, readiness, inFlight, stop, pool,
                 signalled, probe>>

ListenFails ==
  /\ server = "binding"
  /\ server' = "closed"
  /\ main' = "catch"
  /\ UNCHANGED <<connections, started, readiness, inFlight, stop, pool,
                 signalled, probe>>

\* The 'listening' event and the synchronous code after it.
Listening ==
  /\ server = "binding"
  /\ server' = "listening"
  /\ main' = "announcing"
  /\ started' = TRUE
  /\ startedAt' = TRUE
  /\ stopping' = FALSE
  /\ UNCHANGED <<connections, inFlight, stop, pool, signalled, probe>>

\* stop(): the first call runs performStop up to its first await, later calls
\* return the same promise.
CallStop ==
  IF stop = "none"
  THEN stop' = "announce" /\ stopping' = TRUE
  ELSE UNCHANGED <<stop, stopping>>

\* ready() joins the check in flight or begins one.
SharedCheck ==
  IF inFlight # "none" THEN inFlight
  ELSE IF pool = "open" THEN "running" ELSE "doomed"

\* Wrong variant: markStarted runs after SERVICE_LISTENING has been recorded.
FirstCheckMarksStarted ==
  /\ main = "announcing"
  /\ main' = "checking"
  /\ inFlight' = SharedCheck
  /\ startedAt' = TRUE
  /\ stopping' = FALSE
  /\ UNCHANGED <<server, connections, started, stop, pool, signalled, probe>>

\* SERVICE_LISTENING is recorded and start() awaits its own readiness check.
FirstCheck ==
  /\ main = "announcing"
  /\ IF stopping
     THEN /\ main' = "stopping"
          /\ CallStop
          /\ UNCHANGED inFlight
     ELSE /\ main' = "checking"
          /\ inFlight' = SharedCheck
          /\ UNCHANGED <<stop, stopping>>
  /\ UNCHANGED <<server, connections, started, startedAt, pool, signalled, probe>>

\* Wrong variant: a failed first check throws without stopping the service.
CheckSettlesWithoutStop(ok) ==
  /\ inFlight # "none"
  /\ ok => inFlight = "running"
  /\ inFlight' = "none"
  /\ probe' = IF probe # "waiting" THEN probe
              ELSE IF ok THEN "ready" ELSE "not_ready"
  /\ main' = IF main # "checking" THEN main
             ELSE IF ok THEN "serving" ELSE "catch"
  /\ UNCHANGED <<server, connections, started, stopping, startedAt, stop, pool,
                 signalled>>

\* runChecks settles; a query on an ended pool is rejected.  Whoever waits for
\* the shared check is answered.
CheckSettles(ok) ==
  /\ inFlight # "none"
  /\ ok => inFlight = "running"
  /\ inFlight' = "none"
  /\ probe' = IF probe # "waiting" THEN probe
              ELSE IF ok THEN "ready" ELSE "not_ready"
  /\ IF main = "checking"
     THEN IF ok
          THEN main' = "serving" /\ UNCHANGED <<stop, stopping>>
          ELSE main' = "stopping" /\ CallStop
     ELSE UNCHANGED <<main, stop, stopping>>
  /\ UNCHANGED <<server, connections, started, startedAt, pool, signalled>>

\* await this.stop() ends and start() throws SERVICE_STARTUP_NOT_READY.
StartRejects ==
  /\ main = "stopping"
  /\ stop \in {"done", "rejected"}
  /\ main' = "catch"
  /\ UNCHANGED <<server, connections, started, readiness, inFlight, stop, pool,
                 signalled, probe>>

\* The catch block ends the pool, whatever that call answers.
Catch ==
  /\ main = "catch"
  /\ main' = "failed"
  /\ pool' = "ended"
  /\ UNCHANGED <<server, connections, started, readiness, inFlight, stop,
                 signalled, probe>>

-----------------------------------------------------------------------------
(* performStop                                                             *)

\* SIGTERM or SIGINT, handled once, from the moment start() is called.  With a
\* numeric host the server listens before the event loop can deliver one.
Signal ==
  /\ ~ signalled
  /\ server # "new"
  /\ server = "binding" => HostIsName
  /\ signalled' = TRUE
  /\ CallStop
  /\ UNCHANGED <<main, server, connections, started, startedAt, inFlight, pool, probe>>

\* Wrong variant: the pool is ended before the server is closed.
CloseServerAfterPool ==
  /\ stop = "announce"
  /\ pool' = "ended"
  /\ IF started THEN stop' = "drain" /\ server' = "draining"
                ELSE stop' = "pool" /\ UNCHANGED server
  /\ UNCHANGED <<main, connections, started, readiness, inFlight, signalled, probe>>

\* SERVICE_STOPPING is recorded; a started server stops accepting.
CloseServer ==
  /\ stop = "announce"
  /\ IF started
     THEN stop' = "drain" /\ server' = "draining"
     ELSE stop' = "pool" /\ UNCHANGED server
  /\ UNCHANGED <<main, connections, started, readiness, inFlight, pool,
                 signalled, probe>>

\* A closing server with no connection left closes.
ServerCloses ==
  /\ server = "draining"
  /\ connections = 0
  /\ server' = "closed"
  /\ UNCHANGED <<main, connections, started, readiness, inFlight, stop, pool,
                 signalled, probe>>

Drained ==
  /\ stop = "drain"
  /\ server = "closed"
  /\ stop' = "pool"
  /\ UNCHANGED <<main, server, connections, started, readiness, inFlight, pool,
                 signalled, probe>>

\* Wrong variant: gives up on the open connections without destroying them.
DrainTimesOutLeavingSockets ==
  /\ stop = "drain"
  /\ server # "closed"
  /\ stop' = "destroyed"
  /\ UNCHANGED <<main, server, connections, started, readiness, inFlight, pool,
                 signalled, probe>>

\* shutdownTimeoutMs passes: the remaining sockets are destroyed.
DrainTimesOut ==
  /\ stop = "drain"
  /\ server # "closed"
  /\ connections' = 0
  /\ stop' = "destroyed"
  /\ UNCHANGED <<main, server, started, readiness, inFlight, pool, signalled, probe>>

\* The server closes within a second, or performStop goes on without it.
Destroyed ==
  /\ stop = "destroyed"
  /\ stop' = "pool"
  /\ UNCHANGED <<main, server, connections, started, readiness, inFlight, pool,
                 signalled, probe>>

\* pool.end() rejects when the catch block has ended the pool before.
EndPool ==
  /\ stop = "pool"
  /\ IF pool = "open" THEN stop' = "record" ELSE stop' = "rejected"
  /\ pool' = "ended"
  /\ UNCHANGED <<main, server, connections, started, readiness, inFlight,
                 signalled, probe>>

Stopped ==
  /\ stop = "record"
  /\ stop' = "done"
  /\ UNCHANGED <<main, server, connections, started, readiness, inFlight, pool,
                 signalled, probe>>

-----------------------------------------------------------------------------
(* Clients                                                                 *)

OpenRequest ==
  /\ server = "listening"
  /\ connections < MaxConnections
  /\ connections' = connections + 1
  /\ UNCHANGED <<main, server, started, readiness, inFlight, stop, pool,
                 signalled, probe>>

\* Wrong variant: a socket that has gone is counted out a second time.
RespondTwice ==
  /\ connections' = connections - 1
  /\ UNCHANGED <<main, server, started, readiness, inFlight, stop, pool,
                 signalled, probe>>

Respond ==
  /\ connections > 0
  /\ connections' = connections - 1
  /\ UNCHANGED <<main, server, started, readiness, inFlight, stop, pool,
                 signalled, probe>>

\* GET /ready: ready() answers at once or joins the check in flight.
Probe ==
  /\ server = "listening"
  /\ probe # "waiting"
  /\ IF stopping \/ ~ startedAt
     THEN probe' = "not_ready" /\ UNCHANGED inFlight
     ELSE probe' = "waiting" /\ inFlight' = SharedCheck
  /\ UNCHANGED <<main, server, connections, started, readiness, stop, pool, signalled>>

Main == Listening \/ ListenFails \/ FirstCheck \/ StartRejects \/ Catch

Checks == \E ok \in BOOLEAN : CheckSettles(ok)

PerformStop ==
  \/ CloseServer \/ ServerCloses \/ Drained \/ DrainTimesOut \/ Destroyed
  \/ EndPool \/ Stopped

\* From the moment start() is called.
Running ==
  Main \/ Checks \/ PerformStop \/ Signal \/ OpenRequest \/ Respond \/ Probe

ServiceNext == ComposeFails \/ Listen \/ Running

ServiceSpec == ServiceInit /\ [][ServiceNext]_serviceVars

\* The event loop runs what is due: recorded events, timers (both the check
\* timeout and the shutdown window) and server events.  Requests need not end.
ServiceFairness ==
  /\ WF_serviceVars(Main) /\ WF_serviceVars(Checks)
  /\ WF_serviceVars(CloseServer) /\ WF_serviceVars(ServerCloses)
  /\ WF_serviceVars(Drained \/ DrainTimesOut) /\ WF_serviceVars(Destroyed)
  /\ WF_serviceVars(EndPool) /\ WF_serviceVars(Stopped)

-----------------------------------------------------------------------------
(* Properties.                                                             *)

\* m1-i-read-only-service-composition.md:51: no failed step may leave an open
\* port behind; when start-up has failed nothing accepts connections.
NoOpenPortAfterFailure ==
  main = "failed" => server \notin {"binding", "listening"}

\* The pool outlives the connections: a request in progress is answered or its
\* socket destroyed before the database is taken away from it.
PoolOutlivesConnections == pool = "ended" => connections = 0

\* Readiness, once revoked by a stop, never comes back: no later probe can
\* send traffic to a service that is going away.
StoppingIsFinal == [][stopping => stopping']_serviceVars

\* A handled signal ends in a closed server and an ended pool, whatever start
\* was doing and however long the requests in progress last.
ShutdownCompletes == signalled ~> (server = "closed" /\ pool = "ended")
=============================================================================
