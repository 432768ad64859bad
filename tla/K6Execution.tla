----------------------------- MODULE K6Execution -----------------------------
(***************************************************************************)
(* executeK6ProcessWithSanitizedResult: the command that the documents of  *)
(* an execution lead to is accepted, the Node adapter runs it (the module  *)
(* ProcessLifecycle), and what the run has left behind is turned into the  *)
(* observation, the outcome and the evidence of the runtime.               *)
(*                                                                         *)
(* The caller's documents are validated before the run and again after it: *)
(* the call waits in between, and the object that holds them is still the  *)
(* caller's.                                                               *)
(***************************************************************************)
EXTENDS ProcessLifecycle, K6Runtime

VARIABLES
  call,   \* the caller's promise, and the digest of the command it runs
  exit    \* how the child ended, as node reports it

executionVars == <<vars, documents, call, exit>>

CallStates == {"none", "running", "answered", "rejected"}

\* An exit code from 0 to 255, a signal of the allow-list, or any other signal.
Exits == {"zero", "nonzero", "signal", "unlisted"}

CommandKinds == Binds["command"] \cup {"command"}

InitExecution ==
  /\ Init
  /\ InitDocuments
  /\ call = [state |-> "none", command |-> "none"]
  /\ exit = "none"

\* A step of the documents, while no call is under way: a bound of the model.
Prepare ==
  /\ call.state = "none"
  /\ ContractNext \/ SourceNext \/ RuntimeNext
  /\ UNCHANGED <<vars, differs, call, exit>>

Execute ==
  /\ call.state = "none"
  /\ "command" \in Made
  /\ \E command \in {p["command"].digest : p \in {q \in Presented(CommandKinds) : ValidCommand(q)}} :
       call' = [state |-> "running", command |-> command]
  /\ UNCHANGED <<vars, documents, exit>>

\* A step of the adapter, of its timers or of the child.
LifecycleStep(step) ==
  /\ call.state = "running"
  /\ step
  /\ IF child' = "exited" /\ child # "exited" THEN exit' \in Exits ELSE UNCHANGED exit
  /\ UNCHANGED <<documents, call>>

\* Wrong variant: a process that ended with code 0 has succeeded.
ZeroSucceeds(state, ended) ==
  CASE ended = "zero" -> "SUCCEEDED"
    [] state = "EXITED" -> IF ended = "signal" THEN "FAILED_SIGNAL" ELSE "FAILED_EXIT_CODE"
    [] state = "START_FAILED" -> "START_FAILED"
    [] state = "PROCESS_ERROR" -> "PROCESS_ERROR"
    [] state \in {"CANCELLED_BEFORE_START", "CANCELLED", "CANCELLED_FORCE_TERMINATED",
                  "CANCELLED_FORCE_UNCONFIRMED"} -> "CANCELLED"
    [] OTHER -> "TIMED_OUT"

\* classifyOutcome.
Classify(state, ended) ==
  CASE state = "EXITED" /\ ended = "signal" -> "FAILED_SIGNAL"
    [] state = "EXITED" -> IF ended = "zero" THEN "SUCCEEDED" ELSE "FAILED_EXIT_CODE"
    [] state = "START_FAILED" -> "START_FAILED"
    [] state = "PROCESS_ERROR" -> "PROCESS_ERROR"
    [] state \in {"CANCELLED_BEFORE_START", "CANCELLED", "CANCELLED_FORCE_TERMINATED",
                  "CANCELLED_FORCE_UNCONFIRMED"} -> "CANCELLED"
    [] OTHER -> "TIMED_OUT"

\* The exit code and the signal that onExit kept: one that came after the run was
\* settled is not among them.
ExitKept == IF "exitObserved" \in run.evidence.observations THEN exit ELSE "none"

\* normalizeExitMetadata: one exit code or one signal of the allow-list when the
\* process was seen to end, and nothing otherwise.
ExitFits(lifecycle, ended) ==
  IF "exitObserved" \in lifecycle.observations THEN ended \in Exits \ {"unlisted"}
  ELSE ended = "none"

-----------------------------------------------------------------------------
(* The documents of a run, made and validated again from those before them *)

LifecycleOf(p) == Content(To(p, {"command"}), run.evidence)

ValidLifecycle(p) ==
  /\ ValidEvidence(p["lifecycle"].own)
  /\ Intact(p, {"lifecycle"})
  /\ Names(p, "lifecycle", {"command"})

ObservationOf(ran, ended) == Content(ran, ended)

ValidObservation(p) ==
  /\ ValidLifecycle(p)
  /\ Intact(p, {"observation"})
  /\ ExitFits(p["lifecycle"].own, p["observation"].own)
  /\ Names(p, "observation", {"command", "lifecycle"})

OutcomeOf(observed, lifecycle, observation) ==
  Content(observed, Classify(lifecycle.own.terminalState, observation.own))

ValidOutcome(p) ==
  /\ ValidObservation(p)
  /\ Intact(p, {"outcome"})
  /\ p["outcome"].own = OutcomeOf(p["outcome"].refs, p["lifecycle"], p["observation"]).own
  /\ Names(p, "outcome", {"command", "lifecycle", "observation"})

RuntimeEvidenceOf(p, classified) == Content(Merged(To(p, LaunchKinds), classified), "none")

\* validateK6RuntimeExecutionEvidence, for whoever audits a run.
ValidRuntimeEvidence(p) ==
  /\ ValidCommand(p)
  /\ ValidOutcome(p)
  /\ Intact(p, {"runtimeEvidence"})
  /\ Names(p, "runtimeEvidence", Binds["runtimeEvidence"])

\* The bindings the caller's object may hold once the run has settled, with the
\* command the call has kept.
Bindings ==
  LET kept == Document("command", IF call.command = "current" THEN {"command"} ELSE {}, "none")
  IN {Merged([command |-> kept], p) : p \in Presented(LaunchKinds)}

\* Wrong variant: the bindings are not validated a second time.
BindingsKept(p) == TRUE

BindingsStillValid(p) == ValidCommand(p)

\* The documents made of a settled run, each from those before it.
RuntimeDocuments(p, ended) ==
  LET command == p["command"].digest
      lifecycle == LifecycleOf(p)
      ran == Digest("lifecycle", lifecycle)
      observation == ObservationOf([command |-> command, lifecycle |-> ran], ended)
      observed == Digest("observation", observation)
      outcome == OutcomeOf([command |-> command, lifecycle |-> ran, observation |-> observed],
                           lifecycle, observation)
      classified == [ command |-> command, lifecycle |-> ran, observation |-> observed,
                      outcome |-> Digest("outcome", outcome) ]
  IN [ lifecycle |-> lifecycle, observation |-> observation, outcome |-> outcome,
       runtimeEvidence |-> RuntimeEvidenceOf(p, classified) ]

Answered(state) == call' = [call EXCEPT !.state = state]

Answer ==
  /\ call.state = "running"
  /\ Settled(run)
  /\ ExitFits(run.evidence, ExitKept)
  /\ \E p \in {q \in Bindings : BindingsStillValid(q)} :
       docs' = Merged(RuntimeDocuments(p, ExitKept), docs)
  /\ Answered("answered")
  /\ UNCHANGED <<vars, differs, exit>>

\* The lifecycle rejects; or normalizeExitMetadata refuses a signal it does not
\* know; or the caller has changed the bindings meanwhile.
Reject ==
  /\ call.state = "running"
  /\ \/ phase = "rejected"
     \/ Settled(run) /\ ~ExitFits(run.evidence, ExitKept)
     \/ Settled(run) /\ ~ \A p \in Bindings : BindingsStillValid(p)
  /\ Answered("rejected")
  /\ UNCHANGED <<vars, documents, exit>>

NextExecution ==
  \/ Prepare
  \/ Execute
  \/ LifecycleStep(Next)
  \/ Answer
  \/ Reject

\* The event loop fires timers and resumes the call; nothing is assumed of the
\* process or of the caller.
FairnessExecution ==
  /\ WF_executionVars(LifecycleStep(StartupTimeout))
  /\ WF_executionVars(LifecycleStep(ExecutionTimeout))
  /\ WF_executionVars(LifecycleStep(GraceExpires))
  /\ WF_executionVars(LifecycleStep(ForceSettlementExpires))
  /\ WF_executionVars(LifecycleStep(Start))
  /\ WF_executionVars(Answer \/ Reject)

SpecExecution == InitExecution /\ [][NextExecution]_executionVars /\ FairnessExecution

-----------------------------------------------------------------------------
(* Properties. *)

RunKinds == Binds["runtimeEvidence"] \cup {"runtimeEvidence"}

\* The documents the call has returned, with those they descend from.
Returned ==
  LET current == {k \in RunKinds : <<k, "current">> \in Lineage["runtimeEvidence"]}
  IN [k \in RunKinds |-> Document(k, current, "none")]

\* What an auditor is handed belongs to one run.
OfOneRun(p) ==
  IF p["runtimeEvidence"].digest = "earlier" THEN \A k \in RunKinds : p[k].digest = "earlier"
  ELSE \A k \in RunKinds : <<k, p[k].digest>> \in Lineage["runtimeEvidence"]

\* No document of an execution descends from two different documents of one
\* kind: plans, sources, admissions, commands and runs of two executions are
\* never mixed, whatever mixture of intact and damaged documents the operations
\* were handed and although most of them see only their direct predecessors.
\* The request, and what is only made of it, may name a snapshot that is not its
\* plan's, which the compiler is the first to refuse.  Whoever validates the
\* runtime evidence again accepts what the call returned and no mixture.
OneLineage ==
  LET lineage == Lineage
      mixed(k) == {j \in Made : {<<j, "earlier">>, <<j, "current">>} \subseteq lineage[k]}
  IN /\ \A k \in Made : mixed(k) \subseteq (IF k \in ContractKinds THEN {"snapshot"} ELSE {})
     /\ "runtimeEvidence" \in Made =>
          /\ ValidRuntimeEvidence(Returned)
          /\ \A p \in Presented(RunKinds) : ValidRuntimeEvidence(p) => OfOneRun(p)

\* An outcome says SUCCEEDED only of a process that ran to its own end with exit
\* code 0, before any abort or timeout was noted.
SuccessIsClean ==
  "outcome" \in Made /\ docs["outcome"].own = "SUCCEEDED" =>
    /\ exit = "zero" /\ child = "exited"
    /\ {"abortRequested", "timeoutTriggered", "startupTimeoutTriggered"}
         \cap run.observations = {}

\* A call that was started is answered or rejected, whatever the process does.
ExecutionAnswers == (call.state = "running") ~> (call.state \in {"answered", "rejected"})
=============================================================================
