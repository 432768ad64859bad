---------------------------- MODULE PlanLifecycle ----------------------------
(***************************************************************************)
(* The pure rules of a durable test plan: the plan record and its history  *)
(* (packages/test-plan-registry/src/validation.js), its lifecycle table    *)
(* (constants.js) and the coverage gate that approval and freezing pass    *)
(* (packages/test-plan-governance/src/policy.js).                          *)
(*                                                                         *)
(* A plan is identified by its canonical planning input: planId and        *)
(* inputFingerprint both follow from it, so Plans stands for both.  A      *)
(* planning result is a member of Contents; the author and the time of the *)
(* planning request are part of it but not of the input.                   *)
(***************************************************************************)
EXTENDS Naturals, Sequences, FiniteSets

CONSTANTS
  Actors,                 \* authenticated subjects
  Plans,                  \* canonical planning inputs
  RiskOf,                 \* the highest risk among the rules of each input's snapshot
  Contents,               \* planning results
  PlanOf,                 \* the planning input of each result
  CreatorOf,              \* createdBy of each result
  CreatedAtOf,            \* createdAt of each result
  ObligationsOf,          \* the coverage obligations of each result
  Exemptions,             \* identifiers of the obligations that ask for an exemption
  AllowMandatoryPartial,  \* the policy option; TRUE by default
  Times                   \* timestamps

RiskLevels == {"low", "medium", "high", "critical"}

CoverageStatuses == {"COVERED", "PARTIAL", "UNPLANNED", "EXEMPT"}

Obligation == [id : Exemptions, mandatory : BOOLEAN, status : CoverageStatuses]

ASSUME PlanAssumption ==
  /\ Times \subseteq Nat
  /\ RiskOf \in [Plans -> RiskLevels]
  /\ PlanOf \in [Contents -> Plans]
  /\ CreatorOf \in [Contents -> Actors]
  /\ CreatedAtOf \in [Contents -> Times]
  /\ ObligationsOf \in [Contents -> SUBSET Obligation]
  /\ AllowMandatoryPartial \in BOOLEAN

PlanStatuses ==
  {"DRAFT", "REVIEWING", "APPROVED", "FROZEN", "SUPERSEDED", "ARCHIVED"}

PlanTransitions ==
  [DRAFT      |-> {"REVIEWING"},
   REVIEWING  |-> {"DRAFT", "APPROVED"},
   APPROVED   |-> {"DRAFT", "FROZEN"},
   FROZEN     |-> {"SUPERSEDED"},
   SUPERSEDED |-> {"ARCHIVED"},
   ARCHIVED   |-> {}]

EventTypes == {"PLAN_CREATED", "PLAN_CONTENT_REPLACED", "PLAN_STATUS_TRANSITIONED"}

\* One history event with the content the record has after it; the creation
\* comes from no status ("NONE") and no earlier content.
Event == [type : EventTypes, from : PlanStatuses \union {"NONE"}, to : PlanStatuses,
          content : Contents, actor : Actors, at : Times]

PlanRecord == [revision : Nat \ {0}, status : PlanStatuses, content : Contents,
               updatedAt : Times, history : Seq(Event)]

-----------------------------------------------------------------------------
(* Building and changing a record.                                         *)

CanCreate(c, t) == t >= CreatedAtOf[c]

CreatedPlan(c, a, t) ==
  [revision |-> 1, status |-> "DRAFT", content |-> c, updatedAt |-> t,
   history |-> << [type |-> "PLAN_CREATED", from |-> "NONE", to |-> "DRAFT",
                   content |-> c, actor |-> a, at |-> t] >>]

\* The input, and with it project, snapshot and catalog, the author and the
\* creation time of a plan never change.
SameBindings(c, d) ==
  /\ PlanOf[c] = PlanOf[d]
  /\ CreatorOf[c] = CreatorOf[d]
  /\ CreatedAtOf[c] = CreatedAtOf[d]

\* assertExpectedRevision: nobody changed the record since the caller read it.
AtRevision(rec, expected) == rec.revision = expected

\* validateOperationTime.
NotBefore(rec, t) == t >= rec.updatedAt

\* Wrong variant: an approved plan can still be edited.
CanReplaceApproved(rec, expected, c, t) ==
  /\ AtRevision(rec, expected)
  /\ rec.status \in {"DRAFT", "APPROVED"}
  /\ SameBindings(c, rec.content)
  /\ c # rec.content
  /\ NotBefore(rec, t)

CanReplace(rec, expected, c, t) ==
  /\ AtRevision(rec, expected)
  /\ rec.status = "DRAFT"
  /\ SameBindings(c, rec.content)
  /\ c # rec.content
  /\ NotBefore(rec, t)

\* Wrong variant: a draft is edited in place, under the revision it had.
ReplacedPlanInPlace(rec, c, a, t) ==
  [rec EXCEPT !.content = c, !.updatedAt = t,
     !.history[rec.revision] =
       [@ EXCEPT !.content = c, !.actor = a, !.at = t]]

ReplacedPlan(rec, c, a, t) ==
  [revision |-> rec.revision + 1, status |-> rec.status, content |-> c,
   updatedAt |-> t,
   history |-> Append(rec.history,
     [type |-> "PLAN_CONTENT_REPLACED", from |-> rec.status, to |-> rec.status,
      content |-> c, actor |-> a, at |-> t])]

CanMove(rec, expected, to, t) ==
  /\ AtRevision(rec, expected)
  /\ to \in PlanTransitions[rec.status]
  /\ NotBefore(rec, t)

MovedPlan(rec, to, a, t) ==
  [revision |-> rec.revision + 1, status |-> to, content |-> rec.content,
   updatedAt |-> t,
   history |-> Append(rec.history,
     [type |-> "PLAN_STATUS_TRANSITIONED", from |-> rec.status, to |-> to,
      content |-> rec.content, actor |-> a, at |-> t])]

\* What validatePlanRecord demands of every record read or written.
ValidStep(e, f) ==
  /\ f.from = e.to
  /\ f.at >= e.at
  /\ \/ /\ f.type = "PLAN_CONTENT_REPLACED"
        /\ f.from = "DRAFT" /\ f.to = "DRAFT" /\ f.content # e.content
     \/ /\ f.type = "PLAN_STATUS_TRANSITIONED"
        /\ f.to \in PlanTransitions[f.from] /\ f.content = e.content

ValidPlan(k, rec) ==
  LET h == rec.history IN
  /\ PlanOf[rec.content] = k
  /\ Len(h) = rec.revision
  /\ h[1].type = "PLAN_CREATED" /\ h[1].from = "NONE" /\ h[1].to = "DRAFT"
  /\ h[1].at >= CreatedAtOf[rec.content]
  /\ \A i \in 2..Len(h) : ValidStep(h[i - 1], h[i])
  /\ h[Len(h)].to = rec.status
  /\ h[Len(h)].content = rec.content
  /\ h[Len(h)].at = rec.updatedAt

-----------------------------------------------------------------------------
(* The coverage gate.                                                      *)

RequiredApprovals == [low |-> 1, medium |-> 1, high |-> 2, critical |-> 2]

Approvals(ds) == {d \in ds : d.verdict = "APPROVE"}

Approvers(ds) == {d.reviewer : d \in Approvals(ds)}

GatePassed(c, ds) ==
  /\ \A o \in ObligationsOf[c] :
       /\ ~ (o.mandatory /\ o.status = "UNPLANNED")
       /\ o.mandatory /\ o.status = "PARTIAL" => AllowMandatoryPartial
       /\ o.status = "EXEMPT" => \E d \in Approvals(ds) : o.id \in d.exempts
  /\ \A d \in ds : d.verdict # "REQUEST_CHANGES"
  /\ Cardinality(Approvers(ds)) >= RequiredApprovals[RiskOf[PlanOf[c]]]
=============================================================================
