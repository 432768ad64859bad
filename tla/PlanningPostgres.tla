-------------------------- MODULE PlanningPostgres --------------------------
(***************************************************************************)
(* Durable planning orchestration over PostgreSQL                          *)
(* (packages/test-planning-orchestration, test-plan-postgres): concurrent  *)
(* commands, each a session that runs its whole unit of work in one READ   *)
(* COMMITTED transaction, a SQL statement at a time.  generate is          *)
(* idempotent: it looks for a plan of the same input first and, when a     *)
(* concurrent generate wins the unique index, once more afterwards.        *)
(*                                                                         *)
(* plans and decisions are what is committed; the database itself (locks,  *)
(* unique indexes, deadlock detector) is external.                         *)
(***************************************************************************)
EXTENDS PlanLifecycle

CONSTANTS
  Grants, MaxRevision, NoPlan,  \* as in TestPlanGovernance
  Sessions,    \* concurrent commands
  Ops,         \* the commands the clients of a run issue
  NoCommand,   \* an idle session's command
  NoDecision,  \* no uncommitted decision
  Nobody       \* no lock holder

ASSUME StoreAssumption ==
  /\ MaxRevision \in Nat \ {0}
  /\ NoPlan \notin PlanRecord
  /\ IsFiniteSet(Actors)

VARIABLES
  plans, decisions,  \* the committed tables
  pc,        \* the statement each session executes next
  cmd,       \* its command
  seen,      \* the record its transaction has read
  nextRec,   \* the record it has written and not committed
  pending,   \* the decision it has inserted and not committed
  rowLock,   \* the holder of FOR UPDATE on each row
  keyShare   \* the holders of FOR KEY SHARE, taken by the foreign keys

committed == <<plans, decisions>>
work == <<cmd, seen, nextRec, pending>>
locks == <<rowLock, keyShare>>
vars == <<committed, pc, work, locks>>

G == INSTANCE TestPlanGovernance WITH plans <- plans, decisions <- decisions

PCs == {"idle", "by_input", "input_history", "insert", "retry", "retry_history",
        "read", "history", "decision", "foreign_key", "evidence", "lock", "commit"}

Command ==
  [op : {"generate", "edit"}, plan : Plans, actor : Actors, arg : Contents,
   expected : Nat, at : Times]
  \union
  [op : {"review"}, plan : Plans, actor : Actors, arg : G!Verdicts,
   exempts : SUBSET Exemptions, at : Times]
  \union
  [op : {"submit", "approve", "freeze"}, plan : Plans, actor : Actors, at : Times]

ASSUME SessionAssumption ==
  /\ Grants \subseteq [plan : Plans, actor : Actors, action : G!PlanActions]
  /\ NoCommand \notin Command
  /\ NoDecision \notin G!Decision
  /\ Nobody \notin Sessions

Init ==
  /\ G!Init
  /\ pc = [s \in Sessions |-> "idle"]
  /\ cmd = [s \in Sessions |-> NoCommand]
  /\ seen = [s \in Sessions |-> NoPlan]
  /\ nextRec = [s \in Sessions |-> NoPlan]
  /\ pending = [s \in Sessions |-> NoDecision]
  /\ rowLock = [k \in Plans |-> Nobody]
  /\ keyShare = [k \in Plans |-> {}]

Goto(s, label) == pc' = [pc EXCEPT ![s] = label]

Forget(s) ==
  /\ seen' = [seen EXCEPT ![s] = NoPlan]
  /\ nextRec' = [nextRec EXCEPT ![s] = NoPlan]
  /\ pending' = [pending EXCEPT ![s] = NoDecision]
  /\ rowLock' = [k \in Plans |-> IF rowLock[k] = s THEN Nobody ELSE rowLock[k]]
  /\ keyShare' = [k \in Plans |-> keyShare[k] \ {s}]

\* COMMIT and ROLLBACK both end the transaction and with it the command.
Finish(s) ==
  /\ Goto(s, "idle")
  /\ cmd' = [cmd EXCEPT ![s] = NoCommand]
  /\ Forget(s)

Rollback(s) == Finish(s) /\ UNCHANGED committed

-----------------------------------------------------------------------------
(* The commands.  Only edit takes the revision from the client, the one it *)
(* last saw; the others act on the revision their transaction reads.       *)

Begin(s, c, label) ==
  /\ pc[s] = "idle"
  /\ c.op \in Ops
  /\ cmd' = [cmd EXCEPT ![s] = c]
  /\ Goto(s, label)
  /\ UNCHANGED <<committed, seen, nextRec, pending, locks>>

\* The generating actor must be the author named in the planning request.
CallGenerate(s, x, t) ==
  Begin(s, [op |-> "generate", plan |-> PlanOf[x], actor |-> CreatorOf[x],
            arg |-> x, expected |-> 0, at |-> t], "by_input")

CallEdit(s, k, a, x, t) ==
  /\ G!Exists(k)
  /\ plans[k].revision < MaxRevision
  /\ G!Granted(k, a, "PLAN_EDIT")
  /\ Begin(s, [op |-> "edit", plan |-> k, actor |-> a, arg |-> x,
               expected |-> plans[k].revision, at |-> t], "lock")

CallReview(s, k, a, verdict, x, t) ==
  /\ G!Exists(k)
  /\ plans[k].revision < MaxRevision
  /\ Begin(s, [op |-> "review", plan |-> k, actor |-> a, arg |-> verdict,
               exempts |-> x, at |-> t], "read")

CallTransition(s, k, a, op, t) ==
  /\ G!Exists(k)
  /\ plans[k].revision < MaxRevision
  /\ Begin(s, [op |-> op, plan |-> k, actor |-> a, at |-> t], "read")

-----------------------------------------------------------------------------
(* generate                                                                *)

\* getByFingerprint, the row.
FindByInput(s) ==
  LET k == cmd[s].plan IN
  /\ pc[s] = "by_input"
  /\ seen' = [seen EXCEPT ![s] = plans[k]]
  /\ Goto(s, IF G!Exists(k) THEN "input_history" ELSE "insert")
  /\ UNCHANGED <<committed, cmd, nextRec, pending, locks>>

\* The row read before with the history read now.
Hydrated(s) == [seen[s] EXCEPT !.history = plans[cmd[s].plan].history]

\* getByFingerprint, the history: the plan is returned when it is valid and
\* holds the very result requested, else the command fails.  Either way it
\* changes nothing.
FoundByInput(s) ==
  /\ pc[s] \in {"input_history", "retry_history"}
  /\ Rollback(s)

InsertAllowed(s) ==
  /\ G!Granted(cmd[s].plan, cmd[s].actor, "PLAN_GENERATE")
  /\ CanCreate(cmd[s].arg, cmd[s].at)

\* The sessions whose uncommitted plan the unique index waits for.
Rivals(s) ==
  {u \in Sessions \ {s} : cmd[u] # NoCommand /\ cmd[u].op = "generate"
                          /\ cmd[u].plan = cmd[s].plan /\ nextRec[u] # NoPlan}

InsertPlan(s) ==
  LET c == cmd[s] IN
  /\ pc[s] = "insert"
  /\ InsertAllowed(s)
  /\ Rivals(s) = {}
  /\ ~ G!Exists(c.plan)
  /\ nextRec' = [nextRec EXCEPT ![s] = CreatedPlan(c.arg, c.actor, c.at)]
  /\ Goto(s, "commit")
  /\ UNCHANGED <<committed, cmd, seen, pending, locks>>

\* PLAN_EXISTS or PLAN_INPUT_EXISTS: the transaction is rolled back and a
\* second one looks for the plan again.
InsertDuplicate(s) ==
  /\ pc[s] = "insert"
  /\ InsertAllowed(s)
  /\ G!Exists(cmd[s].plan)
  /\ Goto(s, "retry")
  /\ Forget(s)
  /\ UNCHANGED <<committed, cmd>>

\* Wrong variant: every error of the first transaction is taken for a lost race.
InsertRefusedRetried(s) ==
  /\ pc[s] = "insert"
  /\ ~ InsertAllowed(s)
  /\ Goto(s, "retry")
  /\ Forget(s)
  /\ UNCHANGED <<committed, cmd>>

InsertRefused(s) ==
  /\ pc[s] = "insert"
  /\ ~ InsertAllowed(s)
  /\ Rollback(s)

FindAgain(s) ==
  /\ pc[s] = "retry"
  /\ IF G!Exists(cmd[s].plan)
     THEN /\ seen' = [seen EXCEPT ![s] = plans[cmd[s].plan]]
          /\ Goto(s, "retry_history")
          /\ UNCHANGED <<committed, cmd, nextRec, pending, locks>>
     ELSE Rollback(s)

-----------------------------------------------------------------------------
(* submit, review, approve and freeze                                      *)

ReadRow(s) ==
  /\ pc[s] = "read"
  /\ seen' = [seen EXCEPT ![s] = plans[cmd[s].plan]]
  /\ Goto(s, "history")
  /\ UNCHANGED <<committed, cmd, nextRec, pending, locks>>

ActionOf ==
  [submit |-> "PLAN_SUBMIT", review |-> "PLAN_REVIEW", approve |-> "PLAN_APPROVE",
   freeze |-> "PLAN_FREEZE"]

\* What the command checks of the record it has read, and its next statement.
Checked(s, rec) ==
  LET c == cmd[s] IN
  /\ ValidPlan(c.plan, rec)
  /\ G!Granted(c.plan, c.actor, ActionOf[c.op])
  /\ c.op = "submit" => c.actor = CreatorOf[rec.content]
  /\ c.op = "review" => rec.status \in G!Reviewable
  /\ c.op = "approve" => rec.status = "REVIEWING"
  /\ c.op = "freeze" => rec.status = "APPROVED"
  /\ c.op \in {"review", "approve"} => c.actor # CreatorOf[rec.content]

AfterChecks(op) ==
  CASE op = "review" -> "decision"
    [] op = "submit" -> "lock"
    [] OTHER         -> "evidence"

ReadHistory(s) ==
  /\ pc[s] = "history"
  /\ Checked(s, Hydrated(s))
  /\ seen' = [seen EXCEPT ![s] = Hydrated(s)]
  /\ Goto(s, AfterChecks(cmd[s].op))
  /\ UNCHANGED <<committed, cmd, nextRec, pending, locks>>

ReadRejected(s) ==
  /\ pc[s] = "history"
  /\ ~ Checked(s, Hydrated(s))
  /\ Rollback(s)

DecisionOf(s) ==
  LET c == cmd[s] IN
  [plan |-> c.plan, revision |-> seen[s].revision, verdict |-> c.arg,
   reviewer |-> c.actor, exempts |-> c.exempts]

SameReview(d, e) ==
  d.plan = e.plan /\ d.revision = e.revision /\ d.reviewer = e.reviewer

\* The sessions whose uncommitted decision the unique index waits for.
Twins(s) ==
  {u \in Sessions \ {s} : pending[u] # NoDecision /\ SameReview(pending[u], DecisionOf(s))}

AlreadyDecided(s) == \E d \in decisions : SameReview(d, DecisionOf(s))

InsertDecision(s) ==
  /\ pc[s] = "decision"
  /\ ~ AlreadyDecided(s)
  /\ Twins(s) = {}
  /\ pending' = [pending EXCEPT ![s] = DecisionOf(s)]
  /\ Goto(s, "foreign_key")
  /\ UNCHANGED <<committed, cmd, seen, nextRec, locks>>

DecisionRejected(s) ==
  /\ pc[s] = "decision"
  /\ AlreadyDecided(s)
  /\ Rollback(s)

\* The foreign key on the record row; a REQUEST_CHANGES then asks for the row.
ForeignKeyShare(s) ==
  LET k == cmd[s].plan IN
  /\ pc[s] = "foreign_key"
  /\ rowLock[k] = Nobody
  /\ keyShare' = [keyShare EXCEPT ![k] = @ \union {s}]
  /\ Goto(s, IF cmd[s].arg = "APPROVE" THEN "commit" ELSE "lock")
  /\ UNCHANGED <<committed, work, rowLock>>

\* The decisions committed by now on the revision under the gate.
EvidenceFor(s) ==
  G!DecisionsAt(cmd[s].plan,
    IF cmd[s].op = "approve" THEN seen[s].revision ELSE seen[s].revision - 1)

\* Wrong variant: the approval gate also counts the decisions on earlier revisions.
EvidenceAcceptedOfPlan(s) ==
  /\ GatePassed(seen[s].content,
       {d \in decisions : d.plan = cmd[s].plan /\ d.verdict = "APPROVE"})
  /\ cmd[s].op = "freeze" => cmd[s].actor \notin Approvers(EvidenceFor(s))

EvidenceAccepted(s) ==
  /\ GatePassed(seen[s].content, EvidenceFor(s))
  /\ cmd[s].op = "freeze" => cmd[s].actor \notin Approvers(EvidenceFor(s))

CollectEvidence(s) ==
  /\ pc[s] = "evidence"
  /\ EvidenceAccepted(s)
  /\ Goto(s, "lock")
  /\ UNCHANGED <<committed, work, locks>>

EvidenceRejected(s) ==
  /\ pc[s] = "evidence"
  /\ ~ EvidenceAccepted(s)
  /\ Rollback(s)

-----------------------------------------------------------------------------
(* registry.replaceDraft and registry.transition: SELECT ... FOR UPDATE,   *)
(* the checks on the latest committed record, UPDATE and history INSERT.   *)

Target(c) ==
  CASE c.op = "submit"  -> "REVIEWING"
    [] c.op = "review"  -> "DRAFT"
    [] c.op = "approve" -> "APPROVED"
    [] c.op = "freeze"  -> "FROZEN"

\* Wrong variant: a transition is made from whatever revision is found.
CanWriteAnyRevision(s, rec) ==
  LET c == cmd[s] IN
  IF c.op = "edit" THEN CanReplace(rec, c.expected, c.arg, c.at)
                   ELSE CanMove(rec, rec.revision, Target(c), c.at)

CanWrite(s, rec) ==
  LET c == cmd[s] IN
  IF c.op = "edit" THEN CanReplace(rec, c.expected, c.arg, c.at)
                   ELSE CanMove(rec, seen[s].revision, Target(c), c.at)

Written(c, rec) ==
  IF c.op = "edit" THEN ReplacedPlan(rec, c.arg, c.actor, c.at)
                   ELSE MovedPlan(rec, Target(c), c.actor, c.at)

RowFree(s, k) == rowLock[k] = Nobody /\ keyShare[k] \subseteq {s}

LockAndWrite(s) ==
  LET k == cmd[s].plan IN
  /\ pc[s] = "lock"
  /\ RowFree(s, k)
  /\ plans[k].revision < MaxRevision    \* the bound of the model
  /\ CanWrite(s, plans[k])
  /\ rowLock' = [rowLock EXCEPT ![k] = s]
  /\ nextRec' = [nextRec EXCEPT ![s] = Written(cmd[s], plans[k])]
  /\ Goto(s, "commit")
  /\ UNCHANGED <<committed, cmd, seen, pending, keyShare>>

WriteRejected(s) ==
  /\ pc[s] = "lock"
  /\ RowFree(s, cmd[s].plan)
  /\ ~ CanWrite(s, plans[cmd[s].plan])
  /\ Rollback(s)

Commit(s) ==
  /\ pc[s] = "commit"
  /\ plans' = IF nextRec[s] = NoPlan THEN plans
              ELSE [plans EXCEPT ![cmd[s].plan] = nextRec[s]]
  /\ decisions' = decisions \union ({pending[s]} \ {NoDecision})
  /\ Finish(s)

\* The process or its connection dies: the server rolls back.
ConnectionLost(s) == pc[s] # "idle" /\ Rollback(s)

-----------------------------------------------------------------------------
(* Waiting                                                                 *)

WaitsFor(s, u) ==
  LET k == cmd[s].plan IN
  /\ s # u
  /\ \/ pc[s] = "lock" /\ (rowLock[k] = u \/ u \in keyShare[k])
     \/ pc[s] = "foreign_key" /\ rowLock[k] = u
     \/ pc[s] = "decision" /\ ~ AlreadyDecided(s) /\ u \in Twins(s)
     \/ pc[s] = "insert" /\ ~ G!Exists(k) /\ u \in Rivals(s)

\* Sessions that wait for one another; a smallest such set is a cycle.
Waiting(C) == C # {} /\ \A s \in C : \E u \in C : WaitsFor(s, u)

Deadlocked(s) ==
  \E C \in SUBSET Sessions :
    /\ s \in C
    /\ Waiting(C)
    /\ \A D \in SUBSET C : Waiting(D) => s \in D

DeadlockVictim(s) == Deadlocked(s) /\ Rollback(s)

-----------------------------------------------------------------------------

Call(s) ==
  \E t \in Times :
    \/ \E x \in Contents : CallGenerate(s, x, t)
    \/ \E k \in Plans, a \in Actors :
         \/ \E x \in Contents : CallEdit(s, k, a, x, t)
         \/ \E v \in G!Verdicts, x \in SUBSET Exemptions : CallReview(s, k, a, v, x, t)
         \/ \E op \in {"submit", "approve", "freeze"} : CallTransition(s, k, a, op, t)

Next ==
  \E s \in Sessions :
    \/ Call(s)
    \/ FindByInput(s) \/ FoundByInput(s) \/ FindAgain(s)
    \/ InsertPlan(s) \/ InsertDuplicate(s) \/ InsertRefused(s)
    \/ ReadRow(s) \/ ReadHistory(s) \/ ReadRejected(s)
    \/ InsertDecision(s) \/ DecisionRejected(s) \/ ForeignKeyShare(s)
    \/ CollectEvidence(s) \/ EvidenceRejected(s)
    \/ LockAndWrite(s) \/ WriteRejected(s)
    \/ Commit(s) \/ ConnectionLost(s) \/ DeadlockVictim(s)

Spec == Init /\ [][Next]_vars

-----------------------------------------------------------------------------
(* Properties.                                                             *)

TypeOK ==
  /\ G!TypeOK
  /\ pc \in [Sessions -> PCs]
  /\ cmd \in [Sessions -> Command \union {NoCommand}]
  /\ seen \in [Sessions -> PlanRecord \union {NoPlan}]
  /\ nextRec \in [Sessions -> PlanRecord \union {NoPlan}]
  /\ pending \in [Sessions -> G!Decision \union {NoDecision}]
  /\ rowLock \in [Plans -> Sessions \union {Nobody}]
  /\ keyShare \in [Plans -> SUBSET Sessions]

\* The committed tables change only as atomic plan governance allows.
PlanGovernanceImplemented == G!Spec

\* The second transaction of a generate that lost the race always finds the
\* plan of the winner: service.js:40 never rethrows.
RetryFindsPlan == \A s \in Sessions : pc[s] = "retry" => G!Exists(cmd[s].plan)

\* service.js:94: "A reviewer of the approved revision cannot freeze the plan".
ApproversDoNotFreeze ==
  \A k \in Plans : \A i \in 3..MaxRevision :
    G!MovedTo(k, i, "FROZEN") =>
      plans[k].history[i].actor \notin Approvers(G!DecisionsAt(k, i - 2))
=============================================================================
