------------------------- MODULE TestPlanGovernance -------------------------
(***************************************************************************)
(* What test plan governance promises: every command of                    *)
(* packages/test-plan-governance is one atomic step over the durable plan  *)
(* records and the review decisions; a command that fails changes nothing. *)
(* PlanningPostgres implements this module with sessions, statements and   *)
(* locks.                                                                  *)
(*                                                                         *)
(* Decisions and gates are tied to a revision, not to an instant: a review *)
(* may be recorded after the revision it is about has passed, and Freeze   *)
(* is judged on the decisions it has read, which later ones may extend.    *)
(***************************************************************************)
EXTENDS PlanLifecycle

CONSTANTS
  Grants,       \* what the authorization port allows in the project of each plan
  MaxRevision,  \* bound: a plan at this revision takes no further change
  NoPlan        \* the absence of a record

PlanActions ==
  {"PLAN_CREATE", "PLAN_GENERATE", "PLAN_EDIT", "PLAN_SUBMIT", "PLAN_REVIEW",
   "PLAN_APPROVE", "PLAN_FREEZE"}

ASSUME GrantAssumption ==
  Grants \subseteq [plan : Plans, actor : Actors, action : PlanActions]

ASSUME BoundAssumption == MaxRevision \in Nat

ASSUME NoPlanAssumption == NoPlan \notin PlanRecord

ASSUME FiniteAssumption == IsFiniteSet(Actors)

Verdicts == {"APPROVE", "REQUEST_CHANGES"}

Decision == [plan : Plans, revision : Nat \ {0}, verdict : Verdicts,
             reviewer : Actors, exempts : SUBSET Exemptions]

Granted(k, a, action) == [plan |-> k, actor |-> a, action |-> action] \in Grants

VARIABLES
  plans,     \* the plan registry: one record or NoPlan per planning input
  decisions  \* the review decisions, append-only

vars == <<plans, decisions>>

Init ==
  /\ plans = [k \in Plans |-> NoPlan]
  /\ decisions = {}

Exists(k) == plans[k] # NoPlan

CreatedBy(k) == CreatorOf[plans[k].content]

Put(k, rec) ==
  /\ rec.revision <= MaxRevision
  /\ plans' = [plans EXCEPT ![k] = rec]

DecisionsAt(k, r) == {d \in decisions : d.plan = k /\ d.revision = r}

\* One decision per plan, revision and reviewer.
Undecided(k, r, a) == \A d \in DecisionsAt(k, r) : d.reviewer # a

Decide(k, r, verdict, a, exempts) ==
  decisions' = decisions \union
    {[plan |-> k, revision |-> r, verdict |-> verdict, reviewer |-> a,
      exempts |-> exempts]}

-----------------------------------------------------------------------------

\* create and generate
Create(c, a, t) ==
  /\ \E action \in {"PLAN_CREATE", "PLAN_GENERATE"} : Granted(PlanOf[c], a, action)
  /\ ~ Exists(PlanOf[c])
  /\ CanCreate(c, t)
  /\ Put(PlanOf[c], CreatedPlan(c, a, t))
  /\ UNCHANGED decisions

Edit(k, c, a, t) ==
  /\ Exists(k)
  /\ Granted(k, a, "PLAN_EDIT")
  /\ CanReplace(plans[k], plans[k].revision, c, t)
  /\ Put(k, ReplacedPlan(plans[k], c, a, t))
  /\ UNCHANGED decisions

\* A transition of the plan at its current revision.
Move(k, to, a, t) ==
  /\ CanMove(plans[k], plans[k].revision, to, t)
  /\ Put(k, MovedPlan(plans[k], to, a, t))

Submit(k, a, t) ==
  /\ Exists(k)
  /\ Granted(k, a, "PLAN_SUBMIT")
  /\ a = CreatedBy(k)
  /\ Move(k, "REVIEWING", a, t)
  /\ UNCHANGED decisions

Reviewable == {"REVIEWING", "APPROVED"}

\* review with APPROVE: about any revision that was once open to review.
ReviewApprove(k, a, r, exempts) ==
  /\ Exists(k)
  /\ Granted(k, a, "PLAN_REVIEW")
  /\ r \in DOMAIN plans[k].history
  /\ plans[k].history[r].to \in Reviewable
  /\ a # CreatedBy(k)
  /\ Undecided(k, r, a)
  /\ Decide(k, r, "APPROVE", a, exempts)
  /\ UNCHANGED plans

ReviewRequestChanges(k, a, t, exempts) ==
  /\ Exists(k)
  /\ Granted(k, a, "PLAN_REVIEW")
  /\ plans[k].status \in Reviewable
  /\ a # CreatedBy(k)
  /\ Undecided(k, plans[k].revision, a)
  /\ Decide(k, plans[k].revision, "REQUEST_CHANGES", a, exempts)
  /\ Move(k, "DRAFT", a, t)

\* Wrong variant: the gate counts the decisions on every revision of the plan.
ApproveOnAllDecisions(k, a, t) ==
  /\ Exists(k)
  /\ Granted(k, a, "PLAN_APPROVE")
  /\ plans[k].status = "REVIEWING"
  /\ a # CreatedBy(k)
  /\ GatePassed(plans[k].content, {d \in decisions : d.plan = k /\ d.verdict = "APPROVE"})
  /\ Move(k, "APPROVED", a, t)
  /\ UNCHANGED decisions

Approve(k, a, t) ==
  /\ Exists(k)
  /\ Granted(k, a, "PLAN_APPROVE")
  /\ plans[k].status = "REVIEWING"
  /\ a # CreatedBy(k)
  /\ GatePassed(plans[k].content, DecisionsAt(k, plans[k].revision))
  /\ Move(k, "APPROVED", a, t)
  /\ UNCHANGED decisions

\* The revision the approvals are about is the one before APPROVED.
Freeze(k, a, t, evidence) ==
  /\ Exists(k)
  /\ Granted(k, a, "PLAN_FREEZE")
  /\ plans[k].status = "APPROVED"
  /\ evidence \subseteq DecisionsAt(k, plans[k].revision - 1)
  /\ a \notin Approvers(evidence)
  /\ GatePassed(plans[k].content, evidence)
  /\ Move(k, "FROZEN", a, t)
  /\ UNCHANGED decisions

Next ==
  \E k \in Plans, a \in Actors :
    \/ \E c \in Contents, t \in Times : Create(c, a, t)
    \/ \E c \in Contents, t \in Times : Edit(k, c, a, t)
    \/ \E t \in Times : Submit(k, a, t)
    \/ \E r \in 1..MaxRevision, x \in SUBSET Exemptions : ReviewApprove(k, a, r, x)
    \/ \E t \in Times, x \in SUBSET Exemptions : ReviewRequestChanges(k, a, t, x)
    \/ \E t \in Times : Approve(k, a, t)
    \/ \E t \in Times : \E ds \in SUBSET decisions : Freeze(k, a, t, ds)

Spec == Init /\ [][Next]_vars

-----------------------------------------------------------------------------
(* Properties.                                                             *)

TypeOK ==
  /\ plans \in [Plans -> PlanRecord \union {NoPlan}]
  /\ decisions \subseteq Decision

\* Every stored plan passes validatePlanRecord, without which it could never
\* be read again: its history is gapless, legal and ends in the row.
PlansValid == \A k \in Plans : Exists(k) => ValidPlan(k, plans[k])

\* The event of plan k at revision i moved it to this status.
MovedTo(k, i, status) ==
  /\ Exists(k)
  /\ i \in DOMAIN plans[k].history
  /\ plans[k].history[i].to = status

\* An approved plan was approved by someone other than its author, and the
\* gate for the very result under review is passed by the decisions on that
\* review for good: no decision recorded late can undo it.
ApprovedOnEvidence ==
  \A k \in Plans : \A i \in 2..MaxRevision :
    MovedTo(k, i, "APPROVED") =>
      /\ plans[k].history[i].actor # CreatedBy(k)
      /\ GatePassed(plans[k].history[i - 1].content, DecisionsAt(k, i - 1))

\* A frozen plan, the only kind execution may take, is the result that was
\* approved one revision before and reviewed two before, under a gate that
\* still passes.
FrozenAsReviewed ==
  \A k \in Plans : \A i \in 3..MaxRevision :
    MovedTo(k, i, "FROZEN") =>
      /\ MovedTo(k, i - 1, "APPROVED")
      /\ MovedTo(k, i - 2, "REVIEWING")
      /\ plans[k].content = plans[k].history[i - 2].content
      /\ GatePassed(plans[k].content, DecisionsAt(k, i - 2))

\* Each decision is about a revision that was open to review, never by the
\* author of the plan, and nobody decides twice on one revision.
DecisionsSound ==
  /\ \A d \in decisions :
       /\ \E status \in Reviewable : MovedTo(d.plan, d.revision, status)
       /\ d.reviewer # CreatedBy(d.plan)
  /\ \A d, e \in decisions :
       d.plan = e.plan /\ d.revision = e.revision /\ d.reviewer = e.reviewer => d = e
=============================================================================
