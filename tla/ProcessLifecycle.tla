--------------------------- MODULE ProcessLifecycle ---------------------------
(***************************************************************************)
(* One run of a k6 process under the Node adapter of                       *)
(* packages/k6-api-adapter: node-process-adapter.js (the callbacks that    *)
(* race until the promise is settled) and the evidence contract of         *)
(* process-lifecycle-evidence.js that the settled record has to satisfy.   *)
(*                                                                         *)
(* The variables of the promise's closure are the fields of one record,    *)
(* `run', and every callback is an operator from that record to the next   *)
(* one, because callbacks nest: child.kill may emit 'error' before it      *)
(* returns, and then onError settles the run in the middle of              *)
(* sendForceKill, which goes on to arm a timer.  `child' is the process    *)
(* as the operating system sees it and `aborted' the caller's AbortSignal. *)
(*                                                                         *)
(* Timers carry no durations: an armed timer may fire at any moment, so    *)
(* each order of timers, signals and events of the child is explored.      *)
(***************************************************************************)
EXTENDS Naturals, Sequences, SequencesExt

VARIABLES
  phase,    \* of the adapter's call: "called", "waiting", "rejected"
  run,      \* the closure of runNodeProcessLifecycle
  child,    \* the process: see ChildStates
  aborted   \* context.abortSignal.aborted

vars == <<phase, run, child, aborted>>

ChildStates == {"none", "starting", "failed", "running", "exited"}
TimerNames == {"startup", "timeout", "force", "forceSettle"}
Reasons == {"none", "ABORT", "TIMEOUT", "START_TIMEOUT"}

\* What child.kill does: it delivers the signal, it returns false or throws, or
\* it emits 'error' on the child before it returns false.
KillResults == {"sent", "refused", "error"}

EventTypes ==
  { "COMMAND_ACCEPTED", "CANCELLED_BEFORE_START", "PROCESS_SPAWNED",
    "PROCESS_START_TIMEOUT", "TIMEOUT_REACHED", "CANCELLATION_REQUESTED",
    "COOPERATIVE_SIGNAL_REQUESTED", "FORCE_KILL_SIGNAL_REQUESTED",
    "PROCESS_EXITED", "PROCESS_START_FAILED", "PROCESS_ERROR",
    "FORCE_SETTLEMENT_EXPIRED" }

TerminalStates ==
  { "CANCELLED_BEFORE_START", "EXITED", "START_FAILED",
    "START_TIMED_OUT_FORCE_TERMINATED", "START_TIMED_OUT_FORCE_UNCONFIRMED",
    "PROCESS_ERROR", "CANCELLED", "CANCELLED_FORCE_TERMINATED",
    "CANCELLED_FORCE_UNCONFIRMED", "TIMED_OUT", "TIMED_OUT_FORCE_TERMINATED",
    "TIMED_OUT_FORCE_UNCONFIRMED" }

\* The observations the lifecycle sets; the others stay false throughout.
Observations ==
  { "processStartAttempted", "processStarted", "processStartUnknown",
    "processIdCreated", "k6InvocationAttempted", "abortRequested",
    "startupTimeoutTriggered", "timeoutTriggered",
    "cooperativeSignalRequested", "cooperativeSignalSent",
    "forceKillSignalRequested", "forceKillSignalSent",
    "exitObserved", "processTerminationConfirmed" }

NoEvidence == [terminalState |-> "none", events |-> <<>>, observations |-> {}]

-----------------------------------------------------------------------------
(* The helpers of the closure. *)

Settled(r) == r.evidence # NoEvidence

Observed(r, names) == [r EXCEPT !.observations = @ \cup names]

\* pushEvent: the sequence number of an event is its index.
PushEvent(r, type) == [r EXCEPT !.events = Append(@, type)]

Armed(r, timer) == [r EXCEPT !.timers = @ \cup {timer}]

\* finish with cleanup: only the first call counts; the timers armed so far are
\* cleared and every listener is removed.
Finish(r, terminalState) ==
  IF Settled(r) THEN r
  ELSE [r EXCEPT !.timers = {},
                 !.listening = FALSE,
                 !.evidence = [terminalState |-> terminalState,
                               events |-> r.events,
                               observations |-> r.observations]]

\* onError: after a startup timeout, and before the child is known to run, an
\* error is only noted; otherwise it settles the run.
OnError(r) ==
  IF Settled(r) THEN r
  ELSE IF r.reason = "START_TIMEOUT" /\ ~r.spawned THEN PushEvent(r, "PROCESS_ERROR")
  ELSE IF r.spawned THEN Finish(PushEvent(r, "PROCESS_ERROR"), "PROCESS_ERROR")
  ELSE Finish(PushEvent(r, "PROCESS_START_FAILED"), "START_FAILED")

\* child.kill through safeKill: `sent' is the observation that it returned true.
SafeKill(r, sent, result) ==
  CASE result = "sent" -> Observed(r, {sent})
    [] result = "refused" -> r
    [] result = "error" -> OnError(r)

\* What the grace timer does once it has checked that the run is not settled.
ForceKillRequested(r, result) ==
  IF "forceKillSignalRequested" \in r.observations THEN r
  ELSE LET requested == PushEvent(Observed(r, {"forceKillSignalRequested"}),
                                  "FORCE_KILL_SIGNAL_REQUESTED")
       IN Armed(SafeKill(requested, "forceKillSignalSent", result), "forceSettle")

SendForceKill(r, result) == IF Settled(r) THEN r ELSE ForceKillRequested(r, result)

SendCooperativeCancellation(r, result) ==
  IF Settled(r) \/ ~r.spawned \/ "cooperativeSignalRequested" \in r.observations THEN r
  ELSE LET requested == PushEvent(Observed(r, {"cooperativeSignalRequested"}),
                                  "COOPERATIVE_SIGNAL_REQUESTED")
       IN Armed(SafeKill(requested, "cooperativeSignalSent", result), "force")

\* A reason to cancel is recorded.
CancellationNoted(r, reason) ==
  LET cause == [r EXCEPT !.reason = reason, !.pending = TRUE]
  IN IF reason = "TIMEOUT"
       THEN PushEvent(Observed(cause, {"timeoutTriggered"}), "TIMEOUT_REACHED")
       ELSE PushEvent(Observed(cause, {"abortRequested"}), "CANCELLATION_REQUESTED")

\* Wrong variant: a later reason to cancel replaces the first.
LastReasonWins(r, reason, result) ==
  IF Settled(r) \/ r.reason = reason THEN r
  ELSE SendCooperativeCancellation(CancellationNoted(r, reason), result)

\* The first reason to cancel is the one that counts; a child that has not been
\* announced yet is signalled by onSpawn.
RequestCancellation(r, reason, result) ==
  IF Settled(r) \/ r.reason # "none" THEN r
  ELSE SendCooperativeCancellation(CancellationNoted(r, reason), result)

StartTimeoutNoted(r) ==
  PushEvent(Observed(r, {"startupTimeoutTriggered", "processStartUnknown"}),
            "PROCESS_START_TIMEOUT")

\* Wrong variant: a run that is being cancelled is left to its cancellation.
StartupTimeoutDefers(r, result) ==
  IF Settled(r) \/ r.spawned \/ r.reason # "none" THEN r
  ELSE SendForceKill([StartTimeoutNoted(r) EXCEPT !.reason = "START_TIMEOUT"], result)

OnStartupTimeout(r, result) ==
  IF Settled(r) \/ r.spawned THEN r
  ELSE SendForceKill([StartTimeoutNoted(r) EXCEPT
                        !.reason = IF @ = "none" THEN "START_TIMEOUT" ELSE @], result)

\* Wrong variant: processStartUnknown stays as the startup timeout set it.
StartKeptUnknown(r) ==
  PushEvent([r EXCEPT !.spawned = TRUE,
                      !.observations = @ \cup {"processStarted", "processIdCreated"},
                      !.timers = @ \ {"startup"}],
            "PROCESS_SPAWNED")

StartNoted(r) ==
  PushEvent([r EXCEPT !.spawned = TRUE,
                      !.observations = (@ \ {"processStartUnknown"})
                                         \cup {"processStarted", "processIdCreated"},
                      !.timers = @ \ {"startup"}],
            "PROCESS_SPAWNED")

\* The start is acknowledged: after a startup timeout the kill is under way; a
\* cancellation that came first signals the child now.
OnSpawn(r, result) ==
  IF Settled(r) THEN r
  ELSE IF r.reason = "START_TIMEOUT" THEN StartNoted(r)
  ELSE IF r.pending
    THEN SendCooperativeCancellation(Armed(StartNoted(r), "timeout"), result)
  ELSE Armed(StartNoted(r), "timeout")

ExitState(r) ==
  LET forced == "forceKillSignalRequested" \in r.observations
  IN CASE r.reason = "TIMEOUT" -> IF forced THEN "TIMED_OUT_FORCE_TERMINATED" ELSE "TIMED_OUT"
       [] r.reason = "ABORT" -> IF forced THEN "CANCELLED_FORCE_TERMINATED" ELSE "CANCELLED"
       [] r.reason = "START_TIMEOUT" -> "START_TIMED_OUT_FORCE_TERMINATED"
       [] OTHER -> "EXITED"

OnExit(r) ==
  IF Settled(r) THEN r
  ELSE Finish(PushEvent(Observed(r, {"exitObserved", "processTerminationConfirmed"}),
                        "PROCESS_EXITED"),
              ExitState(r))

\* Wrong variant: the prefix is reported without its suffix.
PrefixReported(r) ==
  CASE r.reason = "TIMEOUT" -> "TIMED_OUT_FORCE_UNCONFIRMED"
    [] r.reason = "START_TIMEOUT" -> "START_TIMED_OUT"
    [] OTHER -> "CANCELLED_FORCE_UNCONFIRMED"

\* forceTerminalPrefix and its suffix.
UnconfirmedState(r) ==
  CASE r.reason = "TIMEOUT" -> "TIMED_OUT_FORCE_UNCONFIRMED"
    [] r.reason = "START_TIMEOUT" -> "START_TIMED_OUT_FORCE_UNCONFIRMED"
    [] OTHER -> "CANCELLED_FORCE_UNCONFIRMED"

OnForceSettle(r) ==
  IF Settled(r) THEN r
  ELSE Finish(PushEvent(r, "FORCE_SETTLEMENT_EXPIRED"), UnconfirmedState(r))

-----------------------------------------------------------------------------
(* The adapter's call, the timers, the caller's signal and the child. *)

Init ==
  /\ phase = "called"
  /\ run = [spawned |-> FALSE, reason |-> "none", pending |-> FALSE,
            listening |-> FALSE, events |-> <<"COMMAND_ACCEPTED">>,
            observations |-> {}, timers |-> {}, evidence |-> NoEvidence]
  /\ child = "none"
  /\ aborted \in BOOLEAN

\* The caller aborted before the call, or while resolveWorkingDirectory ran.
CancelBeforeStart ==
  /\ phase = "called"
  /\ aborted' = TRUE
  /\ phase' = "waiting"
  /\ run' = Finish(PushEvent(Observed(run, {"abortRequested"}), "CANCELLED_BEFORE_START"),
                   "CANCELLED_BEFORE_START")
  /\ UNCHANGED child

\* resolveWorkingDirectoryPath throws, whether or not the caller aborted while
\* it ran: the call rejects without evidence.
ResolverFails ==
  /\ phase = "called"
  /\ ~aborted
  /\ phase' = "rejected"
  /\ aborted' \in BOOLEAN
  /\ UNCHANGED <<run, child>>

\* validateExecutionContext: without a resolver and a usable abort signal the
\* call rejects before it looks at either.
ContextRefused ==
  /\ phase = "called"
  /\ phase' = "rejected"
  /\ UNCHANGED <<run, child, aborted>>

Attempted(r) ==
  Observed([r EXCEPT !.listening = TRUE], {"processStartAttempted", "k6InvocationAttempted"})

\* spawnProcess throws, or returns something that is not a process handle.
SpawnThrows ==
  /\ phase = "called"
  /\ ~aborted
  /\ phase' = "waiting"
  /\ run' = Finish(PushEvent(Attempted(run), "PROCESS_START_FAILED"), "START_FAILED")
  /\ UNCHANGED <<child, aborted>>

SpawnProcess ==
  /\ phase = "called"
  /\ ~aborted
  /\ phase' = "waiting"
  /\ child' = "starting"
  /\ \E pid \in {{}, {"processIdCreated"}} :
       run' = Armed(Observed(Attempted(run), pid), "startup")
  /\ UNCHANGED aborted

Abort ==
  /\ phase = "waiting"
  /\ ~aborted
  /\ aborted' = TRUE
  /\ IF run.listening
       THEN \E result \in KillResults : run' = RequestCancellation(run, "ABORT", result)
       ELSE UNCHANGED run
  /\ UNCHANGED <<phase, child>>

\* A timer fires once.
Fired(timer) == [run EXCEPT !.timers = @ \ {timer}]

StartupTimeout ==
  /\ "startup" \in run.timers
  /\ \E result \in KillResults : run' = OnStartupTimeout(Fired("startup"), result)
  /\ UNCHANGED <<phase, child, aborted>>

ExecutionTimeout ==
  /\ "timeout" \in run.timers
  /\ \E result \in KillResults :
       run' = RequestCancellation(Fired("timeout"), "TIMEOUT", result)
  /\ UNCHANGED <<phase, child, aborted>>

GraceExpires ==
  /\ "force" \in run.timers
  /\ \E result \in KillResults : run' = SendForceKill(Fired("force"), result)
  /\ UNCHANGED <<phase, child, aborted>>

ForceSettlementExpires ==
  /\ "forceSettle" \in run.timers
  /\ run' = OnForceSettle(Fired("forceSettle"))
  /\ UNCHANGED <<phase, child, aborted>>

ChildSpawns ==
  /\ child = "starting"
  /\ child' = "running"
  /\ \E result \in KillResults : run' = OnSpawn(run, result)
  /\ UNCHANGED <<phase, aborted>>

\* The process could not be created.  One that answered a signal, even with an
\* error, was created.
ChildFails ==
  /\ child = "starting"
  /\ "forceKillSignalSent" \notin run.observations
  /\ "PROCESS_ERROR" \notin ToSet(run.events)
  /\ child' = "failed"
  /\ run' = OnError(run)
  /\ UNCHANGED <<phase, aborted>>

\* The process ends; one whose start was never announced, only once it is killed.
ChildExits ==
  /\ \/ child = "running"
     \/ child = "starting" /\ "forceKillSignalRequested" \in run.observations
  /\ child' = "exited"
  /\ run' = OnExit(run)
  /\ UNCHANGED <<phase, aborted>>

Start == CancelBeforeStart \/ ContextRefused \/ ResolverFails \/ SpawnThrows \/ SpawnProcess

Next ==
  \/ CancelBeforeStart \/ ContextRefused \/ ResolverFails \/ SpawnThrows \/ SpawnProcess
  \/ Abort
  \/ StartupTimeout \/ ExecutionTimeout \/ GraceExpires \/ ForceSettlementExpires
  \/ ChildSpawns \/ ChildFails \/ ChildExits

\* What the event loop owes a run is stated with the call, in K6Execution.
Spec == Init /\ [][Next]_vars

-----------------------------------------------------------------------------
(* The evidence contract: validateK6ProcessLifecycleEvidenceShape. *)

ObservationsMatch(e) ==
  LET has(type) == type \in ToSet(e.events)
      seen(name) == name \in e.observations
  IN /\ seen("processStartAttempted") <=> seen("k6InvocationAttempted")
     /\ seen("processStarted") <=> has("PROCESS_SPAWNED")
     /\ seen("processStartUnknown")
          <=> has("PROCESS_START_TIMEOUT") /\ ~has("PROCESS_SPAWNED")
     /\ seen("processIdCreated") => seen("processStartAttempted")
     /\ seen("abortRequested")
          <=> has("CANCELLED_BEFORE_START") \/ has("CANCELLATION_REQUESTED")
     /\ seen("startupTimeoutTriggered") <=> has("PROCESS_START_TIMEOUT")
     /\ seen("timeoutTriggered") <=> has("TIMEOUT_REACHED")
     /\ seen("cooperativeSignalRequested") <=> has("COOPERATIVE_SIGNAL_REQUESTED")
     /\ seen("cooperativeSignalSent") => seen("cooperativeSignalRequested")
     /\ seen("forceKillSignalRequested") <=> has("FORCE_KILL_SIGNAL_REQUESTED")
     /\ seen("forceKillSignalSent") => seen("forceKillSignalRequested")
     /\ seen("exitObserved") <=> has("PROCESS_EXITED")
     /\ seen("processTerminationConfirmed") <=> seen("exitObserved")

\* validateTerminalEventSemantics.
TerminalMatches(e) ==
  LET final == Last(e.events)
      has(type) == type \in ToSet(e.events)
      forced == has("FORCE_KILL_SIGNAL_REQUESTED")
      gentle == has("COOPERATIVE_SIGNAL_REQUESTED") /\ ~forced
      causes == {"TIMEOUT_REACHED", "CANCELLATION_REQUESTED", "PROCESS_START_TIMEOUT"}
      ended == final = "PROCESS_EXITED"
      expired == final = "FORCE_SETTLEMENT_EXPIRED"
  IN CASE e.terminalState = "CANCELLED_BEFORE_START" ->
            final = "CANCELLED_BEFORE_START" /\ "processStartAttempted" \notin e.observations
       [] e.terminalState = "EXITED" -> ended /\ ToSet(e.events) \cap causes = {}
       [] e.terminalState = "START_FAILED" ->
            final = "PROCESS_START_FAILED" /\ "processStarted" \notin e.observations
       [] e.terminalState = "PROCESS_ERROR" ->
            final = "PROCESS_ERROR" /\ "processStarted" \in e.observations
       [] e.terminalState = "START_TIMED_OUT_FORCE_TERMINATED" ->
            ended /\ has("PROCESS_START_TIMEOUT") /\ forced
       [] e.terminalState = "START_TIMED_OUT_FORCE_UNCONFIRMED" ->
            expired /\ has("PROCESS_START_TIMEOUT") /\ forced
       [] e.terminalState = "CANCELLED" -> ended /\ has("CANCELLATION_REQUESTED") /\ gentle
       [] e.terminalState = "CANCELLED_FORCE_TERMINATED" ->
            ended /\ has("CANCELLATION_REQUESTED") /\ forced
       [] e.terminalState = "CANCELLED_FORCE_UNCONFIRMED" ->
            expired /\ has("CANCELLATION_REQUESTED") /\ forced
       [] e.terminalState = "TIMED_OUT" -> ended /\ has("TIMEOUT_REACHED") /\ gentle
       [] e.terminalState = "TIMED_OUT_FORCE_TERMINATED" ->
            ended /\ has("TIMEOUT_REACHED") /\ forced
       [] e.terminalState = "TIMED_OUT_FORCE_UNCONFIRMED" ->
            expired /\ has("TIMEOUT_REACHED") /\ forced
       [] OTHER -> FALSE

ValidEvidence(e) ==
  /\ Len(e.events) \in 2..16
  /\ IsInjective(e.events)
  /\ Head(e.events) = "COMMAND_ACCEPTED"
  /\ ObservationsMatch(e)
  /\ TerminalMatches(e)

-----------------------------------------------------------------------------
(* Properties. *)

\* Every variable has its type.
TypeOK ==
  /\ phase \in {"called", "waiting", "rejected"}
  /\ child \in ChildStates
  /\ aborted \in BOOLEAN
  /\ run.spawned \in BOOLEAN /\ run.pending \in BOOLEAN /\ run.listening \in BOOLEAN
  /\ run.reason \in Reasons
  /\ run.events \in Seq(EventTypes)
  /\ run.observations \subseteq Observations
  /\ run.timers \subseteq TimerNames
  /\ Settled(run) => run.evidence.terminalState \in TerminalStates

\* Whatever order the callbacks came in, the record finish() builds passes its
\* own evidence contract.  finish() builds it after it has marked the run as
\* settled, so a record that did not pass would throw inside a callback and the
\* caller's promise would never settle.
EvidenceValid == Settled(run) => ValidEvidence(run.evidence)

Causes == {"CANCELLATION_REQUESTED", "TIMEOUT_REACHED", "PROCESS_START_TIMEOUT"}

CameFirst(events, cause) ==
  \E i \in DOMAIN events :
    events[i] = cause /\ \A j \in 1..(i - 1) : events[j] \notin Causes

\* The terminal state names the cause that came first: a timeout during a
\* cancellation, an abort during a timeout or a late spawn acknowledgement after
\* a startup timeout does not change what the run is reported as.
FirstCauseNamed ==
  Settled(run) =>
    LET state == run.evidence.terminalState
        events == run.evidence.events
    IN /\ ToSet(events) \cap Causes = {} =>
            state \in {"CANCELLED_BEFORE_START", "EXITED", "START_FAILED", "PROCESS_ERROR"}
       /\ CameFirst(events, "CANCELLATION_REQUESTED") =>
            state \in {"CANCELLED", "CANCELLED_FORCE_TERMINATED",
                      "CANCELLED_FORCE_UNCONFIRMED", "START_FAILED", "PROCESS_ERROR"}
       /\ CameFirst(events, "TIMEOUT_REACHED") =>
            state \in {"TIMED_OUT", "TIMED_OUT_FORCE_TERMINATED",
                      "TIMED_OUT_FORCE_UNCONFIRMED", "PROCESS_ERROR"}
       /\ CameFirst(events, "PROCESS_START_TIMEOUT") =>
            state \in {"START_TIMED_OUT_FORCE_TERMINATED",
                      "START_TIMED_OUT_FORCE_UNCONFIRMED", "PROCESS_ERROR"}

\* A settled run is over: no callback, and no timer that was armed after the
\* timers were cleared, records an event, sends a signal or settles it again.
SettledOnce ==
  [][Settled(run) => /\ run'.events = run.events
                     /\ run'.evidence = run.evidence
                     /\ run'.observations = run.observations]_vars
=============================================================================
