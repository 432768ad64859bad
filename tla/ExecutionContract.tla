-------------------------- MODULE ExecutionContract --------------------------
(***************************************************************************)
(* packages/execution-contract: the request that binds a frozen test plan  *)
(* to an adapter, and the result and the evidence of an execution, with    *)
(* the state machine a result's history has to follow.  Times are left     *)
(* out, and so are the schema checks that only bound a field by itself.    *)
(***************************************************************************)
EXTENDS Documents

CONSTANT
  Histories   \* the state histories a caller may report

\* ALLOWED_TRANSITIONS.
Transitions ==
  [ PENDING                |-> {"VALIDATED", "REJECTED", "CANCELLED"},
    VALIDATED              |-> {"RUNNING", "CANCELLED"},
    REJECTED               |-> {},
    RUNNING                |-> {"CANCELLATION_REQUESTED", "SUCCEEDED", "FAILED", "TIMED_OUT"},
    CANCELLATION_REQUESTED |-> {"CANCELLED", "FAILED", "TIMED_OUT"},
    SUCCEEDED              |-> {},
    FAILED                 |-> {},
    CANCELLED              |-> {},
    TIMED_OUT              |-> {} ]

ResultStates == {"SUCCEEDED", "FAILED", "CANCELLED", "TIMED_OUT"}

ASSUME HistoriesAssumption == Histories \subseteq Seq(DOMAIN Transitions)

CreateDescriptor == Due("descriptor") /\ Make("descriptor", <<>>, Own("descriptor"))

\* The caller writes plan, snapshot and environment into the request side by
\* side: nothing compares them before the compiler does.
CreateRequest ==
  /\ Due("request")
  /\ \E p \in Presented(Binds["request"]) :
       /\ Intact(p, {"descriptor"})
       /\ Make("request", To(p, Binds["request"]), Own("request"))

ValidRequest(p) == Intact(p, {"descriptor", "request"}) /\ Names(p, "request", {"descriptor"})

\* Wrong variant: an execution may fail or time out before it runs.
EarlyFailure(history) ==
  /\ Len(history) >= 2
  /\ Head(history) = "PENDING"
  /\ \A i \in 2..Len(history) :
       history[i] \in Transitions[history[i - 1]]
                        \cup (IF history[i - 1] = "VALIDATED" THEN {"FAILED", "TIMED_OUT"} ELSE {})
  /\ Transitions[Last(history)] = {}

\* validateExecutionStateHistory.
ValidHistory(history) ==
  /\ Len(history) >= 2
  /\ Head(history) = "PENDING"
  /\ \A i \in 2..Len(history) : history[i] \in Transitions[history[i - 1]]
  /\ Transitions[Last(history)] = {}

Modes == {"COOPERATIVE", "UNSUPPORTED"}
Failures == {"none", "TIMEOUT", "other"}

\* enforceTerminalSemantics, for the cancellation mode of the adapter.
TerminalSemantics(state, failure, cancelled, mode) ==
  CASE state = "SUCCEEDED" -> failure = "none" /\ ~cancelled
    [] state = "FAILED" -> failure # "none" /\ ~cancelled
    [] state = "TIMED_OUT" -> failure = "TIMEOUT" /\ ~cancelled
    [] state = "CANCELLED" -> mode = "COOPERATIVE" /\ cancelled /\ failure = "none"

\* Nothing but the request joins a result to a run of k6; a behaviour reports a
\* result or goes on to k6: a bound of the model.
CreateResult ==
  /\ Due("result")
  /\ "spec" \notin Made
  /\ \E p \in Presented({"request", "descriptor"}), state \in ResultStates,
       history \in Histories, failure \in Failures, cancelled \in BOOLEAN, mode \in Modes :
       /\ ValidRequest(p)
       /\ ValidHistory(history)
       /\ Last(history) = state
       /\ TerminalSemantics(state, failure, cancelled, mode)
       /\ Make("result", To(p, {"request", "descriptor"}),
               [state |-> state, history |-> history])

\* Wrong variant: the evidence is made of any intact result.
ResultIntact(p) == ValidRequest(p) /\ Intact(p, {"result"})

\* validateExecutionResult.
ValidResult(p) ==
  /\ ValidRequest(p)
  /\ Names(p, "result", {"request", "descriptor"})
  /\ Intact(p, {"result"})

CreateExecutionEvidence ==
  /\ Due("executionEvidence")
  /\ \E p \in Presented({"request", "result", "descriptor"}) :
       /\ ValidResult(p)
       /\ Make("executionEvidence",
               ToAndFrom(p, {"request", "result", "descriptor"},
                         "request", {"plan", "snapshot", "environment"}),
               "none")

ContractKinds == {"request", "result", "executionEvidence"}

ContractNext == CreateDescriptor \/ CreateRequest \/ CreateResult \/ CreateExecutionEvidence

-----------------------------------------------------------------------------
(* Properties. *)

\* By the states a result is reported with, which nothing ties to a recorded run: an
\* execution that succeeded, failed or timed out did run, one that succeeded was not
\* asked to stop, and one cancelled after it ran was (validateExecutionStateHistory).
ReportedAsRun ==
  "result" \in Made =>
    LET result == docs["result"].own
        states == ToSet(result.history)
    IN /\ result.state \in {"SUCCEEDED", "FAILED", "TIMED_OUT"} => "RUNNING" \in states
       /\ result.state = "SUCCEEDED" => "CANCELLATION_REQUESTED" \notin states
       /\ result.state = "CANCELLED" /\ "RUNNING" \in states
            => "CANCELLATION_REQUESTED" \in states
=============================================================================
