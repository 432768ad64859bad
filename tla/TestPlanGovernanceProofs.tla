---------------------- MODULE TestPlanGovernanceProofs ----------------------
(***************************************************************************)
(* Proofs about TestPlanGovernance for every set of actors, plans,         *)
(* planning results, exemptions and grants.                                *)
(***************************************************************************)
EXTENDS TestPlanGovernance, FiniteSetTheorems, TLAPS

-----------------------------------------------------------------------------
(* The inductive invariant.                                                *)

\* A frozen plan takes no further event: nothing the service does moves it on.
FrozenIsLast ==
  \A k \in Plans : \A i \in Nat : MovedTo(k, i, "FROZEN") => i = plans[k].revision

IInv ==
  /\ TypeOK
  /\ PlansValid
  /\ FrozenIsLast
  /\ ApprovedOnEvidence
  /\ DecisionsSound

-----------------------------------------------------------------------------
(* The records the rules build are records, and valid ones.                *)

\* A new plan passes the check every later read and write makes of it.
LEMMA CreatedIsValid ==
  ASSUME NEW c \in Contents, NEW a \in Actors, NEW t \in Times, CanCreate(c, t)
  PROVE  /\ CreatedPlan(c, a, t) \in PlanRecord
         /\ ValidPlan(PlanOf[c], CreatedPlan(c, a, t))
  BY DEF CreatedPlan, CanCreate, PlanRecord, ValidPlan, Event, EventTypes, PlanStatuses

\* The last event of a valid plan is what the row says.
LEMMA LastEvent ==
  ASSUME NEW k \in Plans, NEW rec \in PlanRecord, ValidPlan(k, rec)
  PROVE  /\ rec.history \in Seq(Event)
         /\ rec.revision \in Nat \ {0}
         /\ Len(rec.history) = rec.revision
         /\ DOMAIN rec.history = 1..rec.revision
         /\ rec.history[rec.revision].to = rec.status
         /\ rec.history[rec.revision].content = rec.content
         /\ rec.history[rec.revision].at = rec.updatedAt
  BY DEF PlanRecord, ValidPlan

\* Appending one legal event to a valid plan keeps it valid.
LEMMA ExtendedIsValid ==
  ASSUME NEW k \in Plans, NEW rec \in PlanRecord, ValidPlan(k, rec), NEW e \in Event,
         ValidStep(rec.history[rec.revision], e), SameBindings(e.content, rec.content)
  PROVE  LET new == [revision |-> rec.revision + 1, status |-> e.to,
                     content |-> e.content, updatedAt |-> e.at,
                     history |-> Append(rec.history, e)]
         IN  new \in PlanRecord /\ ValidPlan(k, new)
<1> DEFINE h == rec.history
           n == rec.revision
           g == Append(h, e)
           new == [revision |-> n + 1, status |-> e.to, content |-> e.content,
                   updatedAt |-> e.at, history |-> g]
<1>1. h \in Seq(Event) /\ n \in Nat \ {0} /\ Len(h) = n
  BY LastEvent
<1>2. /\ g \in Seq(Event) /\ Len(g) = n + 1 /\ g[n + 1] = e
      /\ \A i \in 1..n : g[i] = h[i]
  BY <1>1
<1>3. new \in PlanRecord
  BY <1>1, <1>2 DEF PlanRecord, Event
<1>4. \A i \in 2..(n + 1) : ValidStep(g[i - 1], g[i])
  <2> SUFFICES ASSUME NEW i \in 2..(n + 1) PROVE ValidStep(g[i - 1], g[i])
    OBVIOUS
  <2>1. CASE i = n + 1
    <3>1. g[i - 1] = h[n] /\ g[i] = e
      BY <1>1, <1>2, <2>1
    <3> QED BY <3>1
  <2>2. CASE i \in 2..n
    <3>1. g[i - 1] = h[i - 1] /\ g[i] = h[i]
      BY <1>1, <1>2, <2>2
    <3> QED BY <1>1, <3>1, <2>2 DEF ValidPlan
  <2> QED BY <1>1, <2>1, <2>2
<1>5. ValidPlan(k, new)
  <2>1. g[1] = h[1]
    BY <1>1, <1>2
  <2> QED BY <1>1, <1>2, <1>4, <2>1 DEF ValidPlan, SameBindings
<1> QED BY <1>3, <1>5

\* A legal move of a valid plan gives a valid plan.
LEMMA MovedIsValid ==
  ASSUME NEW k \in Plans, NEW rec \in PlanRecord, ValidPlan(k, rec),
         NEW a \in Actors, NEW t \in Times, NEW to, CanMove(rec, rec.revision, to, t)
  PROVE  /\ MovedPlan(rec, to, a, t) \in PlanRecord
         /\ ValidPlan(k, MovedPlan(rec, to, a, t))
<1> DEFINE e == [type |-> "PLAN_STATUS_TRANSITIONED", from |-> rec.status, to |-> to,
                 content |-> rec.content, actor |-> a, at |-> t]
<1>1. rec.status \in PlanStatuses /\ rec.content \in Contents
  BY DEF PlanRecord
<1>2. to \in PlanTransitions[rec.status] /\ t >= rec.updatedAt
  BY DEF CanMove, NotBefore
<1>3. to \in PlanStatuses
  BY <1>1, <1>2 DEF PlanTransitions, PlanStatuses
<1>4. e \in Event /\ ValidStep(rec.history[rec.revision], e)
  BY <1>1, <1>2, <1>3, LastEvent DEF Event, EventTypes, ValidStep
<1> HIDE DEF e
<1>5. e.to = to /\ e.at = t /\ e.content = rec.content
  BY DEF e
<1>6. SameBindings(e.content, rec.content)
  BY <1>5 DEF SameBindings
<1> QED BY <1>4, <1>5, <1>6, ExtendedIsValid DEF MovedPlan, e

\* A legal edit of a valid plan gives a valid plan.
LEMMA ReplacedIsValid ==
  ASSUME NEW k \in Plans, NEW rec \in PlanRecord, ValidPlan(k, rec),
         NEW a \in Actors, NEW t \in Times, NEW c \in Contents,
         CanReplace(rec, rec.revision, c, t)
  PROVE  /\ ReplacedPlan(rec, c, a, t) \in PlanRecord
         /\ ValidPlan(k, ReplacedPlan(rec, c, a, t))
<1> DEFINE e == [type |-> "PLAN_CONTENT_REPLACED", from |-> rec.status,
                 to |-> rec.status, content |-> c, actor |-> a, at |-> t]
<1>1. /\ rec.status = "DRAFT" /\ c # rec.content /\ t >= rec.updatedAt
      /\ SameBindings(c, rec.content)
  BY DEF CanReplace, NotBefore
<1>2. e \in Event /\ ValidStep(rec.history[rec.revision], e)
  BY <1>1, LastEvent DEF Event, EventTypes, PlanStatuses, ValidStep
<1> HIDE DEF e
<1>3. e.to = rec.status /\ e.at = t /\ e.content = c
  BY DEF e
<1> QED BY <1>1, <1>2, <1>3, ExtendedIsValid DEF ReplacedPlan, e

-----------------------------------------------------------------------------
(* What a step does to the plans it does not replace.                      *)

\* In a valid registry the history of a plan has one event per revision.
LEMMA HistoryLength ==
  ASSUME TypeOK, PlansValid, NEW k \in Plans, Exists(k)
  PROVE  /\ plans[k] \in PlanRecord /\ ValidPlan(k, plans[k])
         /\ plans[k].history \in Seq(Event)
         /\ plans[k].revision \in Nat \ {0}
         /\ Len(plans[k].history) = plans[k].revision
         /\ DOMAIN plans[k].history = 1..plans[k].revision
         /\ plans[k].history[plans[k].revision].to = plans[k].status
         /\ plans[k].history[plans[k].revision].content = plans[k].content
<1>1. plans[k] \in PlanRecord /\ ValidPlan(k, plans[k])
  BY DEF TypeOK, PlansValid, Exists
<1> QED BY <1>1, LastEvent

\* No plan loses an event, gets another author or another input, or changes
\* without a new revision.
Grows ==
  \A k \in Plans :
    Exists(k) =>
      /\ Exists(k)'
      /\ plans[k].revision <= plans'[k].revision
      /\ plans[k].revision = plans'[k].revision => plans'[k] = plans[k]
      /\ \A i \in 1..plans[k].revision : plans'[k].history[i] = plans[k].history[i]
      /\ SameBindings(plans'[k].content, plans[k].content)

\* What a record that extends the one of plan k, if there is one, looks like.
Succeeds(new, k) ==
  /\ new \in PlanRecord
  /\ ValidPlan(k, new)
  /\ IF Exists(k)
     THEN /\ new.revision = plans[k].revision + 1
          /\ \A i \in 1..plans[k].revision : new.history[i] = plans[k].history[i]
          /\ SameBindings(new.content, plans[k].content)
     ELSE new.revision = 1

\* Storing a successor keeps the registry typed, valid and append-only.
LEMMA PutSucceeds ==
  ASSUME TypeOK, PlansValid, NEW k \in Plans, NEW new, Succeeds(new, k), Put(k, new)
  PROVE  /\ plans' \in [Plans -> PlanRecord \union {NoPlan}]
         /\ PlansValid'
         /\ Grows
         /\ plans'[k] = new
         /\ \A j \in Plans \ {k} : plans'[j] = plans[j]
<1>1. new \in PlanRecord /\ ValidPlan(k, new) /\ new # NoPlan
  BY NoPlanAssumption DEF Succeeds
<1>2. /\ plans' \in [Plans -> PlanRecord \union {NoPlan}]
      /\ plans'[k] = new
      /\ \A j \in Plans \ {k} : plans'[j] = plans[j]
  BY <1>1 DEF TypeOK, Put
<1>3. PlansValid'
  BY <1>1, <1>2 DEF PlansValid, Exists
<1>4. Grows
  <2> SUFFICES ASSUME NEW j \in Plans, Exists(j)
               PROVE /\ Exists(j)'
                     /\ plans[j].revision <= plans'[j].revision
                     /\ plans[j].revision = plans'[j].revision => plans'[j] = plans[j]
                     /\ \A i \in 1..plans[j].revision :
                          plans'[j].history[i] = plans[j].history[i]
                     /\ SameBindings(plans'[j].content, plans[j].content)
    BY DEF Grows
  <2>1. plans[j].revision \in Nat
    BY HistoryLength
  <2>2. CASE j = k
    BY <1>1, <1>2, <2>1, <2>2 DEF Succeeds, Exists
  <2>3. CASE j # k
    BY <1>2, <2>1, <2>3 DEF Exists, SameBindings
  <2> QED BY <2>2, <2>3
<1> QED BY <1>2, <1>3, <1>4

\* A transition of a stored plan is a successor of it, with this last event.
LEMMA MovedSucceeds ==
  ASSUME TypeOK, PlansValid, NEW k \in Plans, Exists(k), NEW a \in Actors,
         NEW t \in Times, NEW to, CanMove(plans[k], plans[k].revision, to, t),
         NEW new, new = MovedPlan(plans[k], to, a, t)
  PROVE  /\ Succeeds(new, k)
         /\ new.status = to /\ new.content = plans[k].content
         /\ new.revision = plans[k].revision + 1
         /\ new.history[new.revision].to = to
         /\ new.history[new.revision].actor = a
<1>1. /\ plans[k] \in PlanRecord /\ ValidPlan(k, plans[k])
      /\ plans[k].history \in Seq(Event) /\ plans[k].revision \in Nat \ {0}
      /\ Len(plans[k].history) = plans[k].revision
  BY HistoryLength
<1>2. new \in PlanRecord /\ ValidPlan(k, new)
  BY <1>1, MovedIsValid
<1>3. /\ new.status = to /\ new.content = plans[k].content
      /\ new.revision = plans[k].revision + 1
      /\ \A i \in 1..plans[k].revision : new.history[i] = plans[k].history[i]
      /\ new.history[plans[k].revision + 1] =
           [type |-> "PLAN_STATUS_TRANSITIONED", from |-> plans[k].status, to |-> to,
            content |-> plans[k].content, actor |-> a, at |-> t]
  BY <1>1 DEF MovedPlan
<1> QED BY <1>2, <1>3 DEF Succeeds, SameBindings

\* An edit of a stored plan is a successor of it, and still a draft.
LEMMA ReplacedSucceeds ==
  ASSUME TypeOK, PlansValid, NEW k \in Plans, Exists(k), NEW a \in Actors,
         NEW t \in Times, NEW c \in Contents,
         CanReplace(plans[k], plans[k].revision, c, t),
         NEW new, new = ReplacedPlan(plans[k], c, a, t)
  PROVE  Succeeds(new, k) /\ new.status = "DRAFT"
<1>1. /\ plans[k] \in PlanRecord /\ ValidPlan(k, plans[k])
      /\ plans[k].history \in Seq(Event) /\ plans[k].revision \in Nat \ {0}
      /\ Len(plans[k].history) = plans[k].revision
  BY HistoryLength
<1>2. new \in PlanRecord /\ ValidPlan(k, new)
  BY <1>1, ReplacedIsValid
<1>3. /\ new.status = "DRAFT" /\ new.content = c
      /\ new.revision = plans[k].revision + 1
      /\ \A i \in 1..plans[k].revision : new.history[i] = plans[k].history[i]
  BY <1>1 DEF ReplacedPlan, CanReplace
<1> QED BY <1>2, <1>3 DEF Succeeds, CanReplace

-----------------------------------------------------------------------------
(* The gate.                                                               *)

\* More approvals never close a gate that was open.
LEMMA GatePersists ==
  ASSUME NEW c \in Contents, NEW ds, NEW es, ds \subseteq es, es \subseteq Decision,
         \A d \in es \ ds : d.verdict = "APPROVE", GatePassed(c, ds)
  PROVE  GatePassed(c, es)
<1>1. Approvals(ds) \subseteq Approvals(es)
  BY DEF Approvals
<1>2. Approvers(ds) \subseteq Approvers(es) /\ Approvers(es) \subseteq Actors
  BY <1>1 DEF Approvers, Approvals, Decision
<1>3. IsFiniteSet(Approvers(es))
  BY <1>2, FiniteAssumption, FS_Subset
<1>4. /\ Cardinality(Approvers(ds)) <= Cardinality(Approvers(es))
      /\ IsFiniteSet(Approvers(ds))
  BY <1>2, <1>3, FS_Subset
<1>5. Cardinality(Approvers(ds)) \in Nat /\ Cardinality(Approvers(es)) \in Nat
  BY <1>3, <1>4, FS_CardinalityType
<1>6. RequiredApprovals[RiskOf[PlanOf[c]]] \in Nat
  BY PlanAssumption DEF RequiredApprovals, RiskLevels
<1>7. Cardinality(Approvers(es)) >= RequiredApprovals[RiskOf[PlanOf[c]]]
  BY <1>4, <1>5, <1>6 DEF GatePassed
<1>8. \A d \in es : d.verdict # "REQUEST_CHANGES"
  BY DEF GatePassed
<1> QED BY <1>1, <1>7, <1>8 DEF GatePassed

-----------------------------------------------------------------------------
(* What the evidence keeps when plans only grow.                           *)

\* The author of a plan never changes, nor does what happened to it.
LEMMA PastPersists ==
  ASSUME TypeOK, PlansValid, Grows, PlansValid',
         plans' \in [Plans -> PlanRecord \union {NoPlan}],
         NEW k \in Plans, Exists(k)
  PROVE  /\ Exists(k)' /\ CreatedBy(k)' = CreatedBy(k)
         /\ plans[k].revision \in Nat \ {0} /\ plans'[k].revision \in Nat \ {0}
         /\ plans[k].revision <= plans'[k].revision
         /\ DOMAIN plans[k].history = 1..plans[k].revision
         /\ DOMAIN plans'[k].history = 1..plans'[k].revision
         /\ \A i \in 1..plans[k].revision : plans'[k].history[i] = plans[k].history[i]
         /\ \A i \in 1..plans[k].revision : \A status :
              MovedTo(k, i, status)' <=> MovedTo(k, i, status)
<1>1. /\ Exists(k)' /\ CreatedBy(k)' = CreatedBy(k)
      /\ plans[k].revision <= plans'[k].revision
      /\ \A i \in 1..plans[k].revision : plans'[k].history[i] = plans[k].history[i]
  BY DEF Grows, CreatedBy, SameBindings
<1>2. plans[k].revision \in Nat \ {0} /\ DOMAIN plans[k].history = 1..plans[k].revision
  BY HistoryLength
<1>3. plans'[k].revision \in Nat \ {0} /\ DOMAIN plans'[k].history = 1..plans'[k].revision
  <2>1. plans'[k] \in PlanRecord /\ ValidPlan(k, plans'[k])
    BY <1>1 DEF PlansValid, Exists
  <2> QED BY <2>1, LastEvent
<1> QED BY <1>1, <1>2, <1>3 DEF MovedTo

\* Decisions keep meaning what they meant when plans only grow.
LEMMA DecisionsPersist ==
  ASSUME IInv, Grows, PlansValid', plans' \in [Plans -> PlanRecord \union {NoPlan}],
         NEW d \in decisions
  PROVE  /\ \E status \in Reviewable : MovedTo(d.plan, d.revision, status)'
         /\ d.reviewer # CreatedBy(d.plan)'
<1>1. d.plan \in Plans /\ d.reviewer # CreatedBy(d.plan)
  BY DEF IInv, TypeOK, Decision, DecisionsSound
<1>2. PICK status \in Reviewable : MovedTo(d.plan, d.revision, status)
  BY DEF IInv, DecisionsSound
<1>3. Exists(d.plan) /\ d.revision \in DOMAIN plans[d.plan].history
  BY <1>2 DEF MovedTo
<1> QED BY <1>1, <1>2, <1>3, PastPersists DEF IInv

\* A step that decides nothing keeps the decisions sound.
LEMMA UndecidedKeepsSound ==
  ASSUME IInv, Grows, PlansValid', plans' \in [Plans -> PlanRecord \union {NoPlan}],
         UNCHANGED decisions
  PROVE  TypeOK' /\ DecisionsSound'
<1>1. TypeOK'
  BY DEF IInv, TypeOK
<1>2. \A d, e \in decisions :
        d.plan = e.plan /\ d.revision = e.revision /\ d.reviewer = e.reviewer => d = e
  BY DEF IInv, DecisionsSound
<1> QED BY <1>1, <1>2, DecisionsPersist DEF DecisionsSound

\* A decision on a revision that was open to review, by another than the author
\* and the first of its reviewer there, keeps the decisions sound.
LEMMA DecisionIsSound ==
  ASSUME IInv, Grows, PlansValid', plans' \in [Plans -> PlanRecord \union {NoPlan}],
         NEW k \in Plans, Exists(k), NEW r \in 1..plans[k].revision,
         plans[k].history[r].to \in Reviewable,
         NEW a \in Actors, a # CreatedBy(k), Undecided(k, r, a),
         NEW verdict \in Verdicts, NEW x \in SUBSET Exemptions,
         Decide(k, r, verdict, a, x)
  PROVE  TypeOK' /\ DecisionsSound'
<1>1. PICK new : new = [plan |-> k, revision |-> r, verdict |-> verdict,
                        reviewer |-> a, exempts |-> x]
  OBVIOUS
<1>2. decisions' = decisions \union {new}
  BY <1>1 DEF Decide
<1>3. plans[k].revision \in Nat \ {0} /\ DOMAIN plans[k].history = 1..plans[k].revision
  BY HistoryLength DEF IInv
<1>4. new \in Decision
  BY <1>1, <1>3 DEF Decision
<1>5. TypeOK'
  BY <1>2, <1>4 DEF IInv, TypeOK
<1>6. \A d \in decisions' : /\ \E status \in Reviewable : MovedTo(d.plan, d.revision, status)'
                            /\ d.reviewer # CreatedBy(d.plan)'
  <2>1. CreatedBy(k)' = CreatedBy(k) /\ \E status \in Reviewable : MovedTo(k, r, status)'
    BY <1>3, PastPersists DEF IInv, MovedTo
  <2>2. /\ \E status \in Reviewable : MovedTo(new.plan, new.revision, status)'
        /\ new.reviewer # CreatedBy(new.plan)'
    BY <1>1, <2>1
  <2> QED BY <1>2, <2>2, DecisionsPersist
<1>7. \A d, e \in decisions' :
        d.plan = e.plan /\ d.revision = e.revision /\ d.reviewer = e.reviewer => d = e
  <2>1. \A d \in decisions :
          ~ (d.plan = new.plan /\ d.revision = new.revision /\ d.reviewer = new.reviewer)
    BY <1>1 DEF Undecided, DecisionsAt
  <2>2. \A d, e \in decisions :
          d.plan = e.plan /\ d.revision = e.revision /\ d.reviewer = e.reviewer => d = e
    BY DEF IInv, DecisionsSound
  <2> QED BY <1>2, <2>1, <2>2
<1> QED BY <1>5, <1>6, <1>7 DEF DecisionsSound

-----------------------------------------------------------------------------
(* What approvals and freezes keep.                                        *)

\* The gate an approval passed stays passed, provided what is decided later
\* on the reviewed revision are approvals.
LEMMA ApprovalPersists ==
  ASSUME IInv, Grows, PlansValid', TypeOK', decisions \subseteq decisions',
         NEW k \in Plans, NEW i \in 2..MaxRevision, MovedTo(k, i, "APPROVED"),
         \A d \in decisions' \ decisions :
           d.plan = k /\ d.revision = i - 1 => d.verdict = "APPROVE"
  PROVE  /\ plans'[k].history[i].actor # CreatedBy(k)'
         /\ GatePassed(plans'[k].history[i - 1].content, DecisionsAt(k, i - 1)')
<1> DEFINE c == plans[k].history[i - 1].content
           old == DecisionsAt(k, i - 1)
           new == {d \in decisions' : d.plan = k /\ d.revision = i - 1}
<1>1. Exists(k) /\ i \in DOMAIN plans[k].history
  BY DEF MovedTo
<1>2. plans[k].history[i].actor # CreatedBy(k) /\ GatePassed(c, old)
  BY DEF IInv, ApprovedOnEvidence
<1>3. /\ CreatedBy(k)' = CreatedBy(k)
      /\ i \in 1..plans[k].revision /\ i - 1 \in 1..plans[k].revision
      /\ plans'[k].history[i] = plans[k].history[i]
      /\ plans'[k].history[i - 1] = plans[k].history[i - 1]
  BY <1>1, PastPersists DEF IInv, TypeOK
<1>4. c \in Contents
  <2>1. plans[k].history \in Seq(Event) /\ Len(plans[k].history) = plans[k].revision
    BY <1>1, HistoryLength DEF IInv
  <2>2. plans[k].history[i - 1] \in Event
    BY <1>3, <2>1
  <2> QED BY <2>2 DEF Event
<1>5. /\ old \subseteq new /\ new \subseteq Decision
      /\ \A d \in new \ old : d.verdict = "APPROVE"
  BY DEF DecisionsAt, TypeOK
<1> HIDE DEF c, old, new
<1>6. GatePassed(c, new)
  BY <1>2, <1>4, <1>5, GatePersists
<1> QED BY <1>2, <1>3, <1>6 DEF c, new, DecisionsAt

\* Storing a successor of a plan that is not frozen keeps every approval and
\* every freeze, provided an approval stored has passed the gate.
LEMMA ApprovalsPersist ==
  ASSUME IInv, NEW k \in Plans, NEW new, Succeeds(new, k), Put(k, new),
         TypeOK', decisions \subseteq decisions',
         \A d \in decisions' \ decisions :
           d.plan = k /\ Exists(k) /\ d.revision = plans[k].revision,
         Exists(k) => plans[k].status # "FROZEN",
         new.status = "APPROVED" =>
           /\ Exists(k) /\ decisions' = decisions
           /\ new.history[new.revision].actor # CreatorOf[new.content]
           /\ GatePassed(plans[k].content, DecisionsAt(k, plans[k].revision))
  PROVE  FrozenIsLast' /\ ApprovedOnEvidence'
<1>1. /\ PlansValid' /\ Grows /\ plans'[k] = new
      /\ \A j \in Plans \ {k} : plans'[j] = plans[j]
  BY PutSucceeds DEF IInv
<1>2. /\ new.revision \in Nat \ {0} /\ DOMAIN new.history = 1..new.revision
      /\ new.history[new.revision].to = new.status
  BY LastEvent DEF Succeeds
<1>3. \A j \in Plans, i \in Nat : \A status :
        MovedTo(j, i, status)' =>
          \/ MovedTo(j, i, status)
          \/ j = k /\ i = new.revision /\ status = new.status
  <2> SUFFICES ASSUME NEW j \in Plans, NEW i \in Nat, NEW status, MovedTo(j, i, status)'
               PROVE  \/ MovedTo(j, i, status)
                      \/ j = k /\ i = new.revision /\ status = new.status
    OBVIOUS
  <2>1. CASE j # k
    BY <1>1, <2>1 DEF MovedTo, Exists
  <2>2. CASE j = k /\ ~ Exists(k)
    BY <1>1, <1>2, <2>2 DEF MovedTo, Succeeds
  <2>3. CASE j = k /\ Exists(k)
    <3>1. /\ plans[k].revision \in Nat \ {0} /\ new.revision = plans[k].revision + 1
          /\ DOMAIN plans[k].history = 1..plans[k].revision
          /\ \A n \in 1..plans[k].revision : new.history[n] = plans[k].history[n]
      BY <2>3, HistoryLength DEF IInv, Succeeds
    <3>2. i \in 1..new.revision /\ new.history[i].to = status
      BY <1>1, <1>2, <2>3 DEF MovedTo
    <3> QED BY <1>2, <2>3, <3>1, <3>2 DEF MovedTo
  <2> QED BY <2>1, <2>2, <2>3
<1>4. FrozenIsLast'
  <2> SUFFICES ASSUME NEW j \in Plans, NEW i \in Nat, MovedTo(j, i, "FROZEN")'
               PROVE  i = plans'[j].revision
    BY DEF FrozenIsLast
  <2>1. CASE MovedTo(j, i, "FROZEN")
    <3>1. i = plans[j].revision /\ Exists(j)
      BY <2>1 DEF IInv, FrozenIsLast, MovedTo
    <3>2. plans[j].status = "FROZEN"
      BY <2>1, <3>1, HistoryLength DEF IInv, MovedTo
    <3> QED BY <1>1, <3>1, <3>2
  <2> QED BY <1>1, <1>3, <2>1
<1>5. ApprovedOnEvidence'
  <2> SUFFICES ASSUME NEW j \in Plans, NEW i \in 2..MaxRevision, MovedTo(j, i, "APPROVED")'
               PROVE  /\ plans'[j].history[i].actor # CreatedBy(j)'
                      /\ GatePassed(plans'[j].history[i - 1].content, DecisionsAt(j, i - 1)')
    BY DEF ApprovedOnEvidence
  <2>1. CASE MovedTo(j, i, "APPROVED")
    <3>1. Exists(j) /\ i \in 1..plans[j].revision
      BY <2>1, HistoryLength DEF IInv, MovedTo
    <3>2. plans[j].revision \in Nat
      BY <3>1, HistoryLength DEF IInv
    <3>3. \A d \in decisions' \ decisions : ~ (d.plan = j /\ d.revision = i - 1)
      BY <3>1, <3>2
    <3> QED BY <1>1, <2>1, <3>3, ApprovalPersists
  <2>2. CASE j = k /\ i = new.revision /\ new.status = "APPROVED"
    <3>0. Exists(k)
      BY <2>2
    <3>1. /\ plans[k].revision \in Nat \ {0} /\ i - 1 = plans[k].revision
          /\ new.history[i - 1] = plans[k].history[i - 1]
          /\ plans[k].history[i - 1].content = plans[k].content
      <4>1. /\ plans[k].revision \in Nat \ {0}
            /\ plans[k].history[plans[k].revision].content = plans[k].content
        BY <3>0, HistoryLength DEF IInv
      <4>2. i = plans[k].revision + 1
        BY <2>2, <3>0 DEF Succeeds
      <4>3. i - 1 = plans[k].revision /\ i - 1 \in 1..plans[k].revision
        BY <4>1, <4>2
      <4> QED BY <3>0, <4>1, <4>3 DEF Succeeds
    <3>2. DecisionsAt(k, i - 1)' = DecisionsAt(k, i - 1)
      BY <2>2 DEF DecisionsAt
    <3> QED BY <1>1, <2>2, <3>1, <3>2 DEF CreatedBy
  <2> QED BY <1>3, <2>1, <2>2
<1> QED BY <1>4, <1>5

-----------------------------------------------------------------------------
(* The actions.                                                            *)

\* What storing a successor without a decision has to show.
LEMMA StorePreserves ==
  ASSUME IInv, NEW k \in Plans, NEW new, Succeeds(new, k), Put(k, new),
         UNCHANGED decisions,
         Exists(k) => plans[k].status # "FROZEN",
         new.status = "APPROVED" =>
           /\ Exists(k)
           /\ new.history[new.revision].actor # CreatorOf[new.content]
           /\ GatePassed(plans[k].content, DecisionsAt(k, plans[k].revision))
  PROVE  IInv'
<1>1. /\ plans' \in [Plans -> PlanRecord \union {NoPlan}]
      /\ PlansValid' /\ Grows
  BY PutSucceeds DEF IInv
<1>2. TypeOK' /\ DecisionsSound'
  BY <1>1, UndecidedKeepsSound
<1>3. FrozenIsLast' /\ ApprovedOnEvidence'
  BY <1>2, ApprovalsPersist
<1> QED BY <1>1, <1>2, <1>3 DEF IInv

\* Create keeps the invariant.
LEMMA CreatePreserves ==
  ASSUME IInv, NEW c \in Contents, NEW a \in Actors, NEW t \in Times, Create(c, a, t)
  PROVE  IInv'
<1>1. PICK k, new : k = PlanOf[c] /\ new = CreatedPlan(c, a, t)
  OBVIOUS
<1>2. /\ k \in Plans /\ ~ Exists(k) /\ Put(k, new) /\ UNCHANGED decisions
      /\ CanCreate(c, t)
  BY <1>1, PlanAssumption DEF Create
<1>3. new \in PlanRecord /\ ValidPlan(k, new)
  BY <1>1, <1>2, CreatedIsValid
<1>4. new.revision = 1 /\ new.status = "DRAFT"
  BY <1>1 DEF CreatedPlan
<1> QED BY <1>2, <1>3, <1>4, StorePreserves DEF Succeeds

\* Edit keeps the invariant.
LEMMA EditPreserves ==
  ASSUME IInv, NEW k \in Plans, NEW c \in Contents, NEW a \in Actors, NEW t \in Times,
         Edit(k, c, a, t)
  PROVE  IInv'
<1>1. PICK new : new = ReplacedPlan(plans[k], c, a, t)
  OBVIOUS
<1>2. /\ Exists(k) /\ Put(k, new) /\ UNCHANGED decisions
      /\ CanReplace(plans[k], plans[k].revision, c, t)
  BY <1>1 DEF Edit
<1>3. Succeeds(new, k) /\ new.status = "DRAFT"
  BY <1>1, <1>2, ReplacedSucceeds DEF IInv
<1>4. plans[k].status = "DRAFT"
  BY <1>2 DEF CanReplace
<1> QED BY <1>2, <1>3, <1>4, StorePreserves

\* A transition of the service is one to a status other than APPROVED, or an
\* approval by another than the author that has passed the gate.
LEMMA MovePreserves ==
  ASSUME IInv, NEW k \in Plans, Exists(k), NEW a \in Actors, NEW t \in Times,
         NEW to \in {"REVIEWING", "APPROVED", "FROZEN"}, Move(k, to, a, t),
         UNCHANGED decisions,
         to = "APPROVED" =>
           /\ a # CreatedBy(k)
           /\ GatePassed(plans[k].content, DecisionsAt(k, plans[k].revision))
  PROVE  IInv'
<1>1. PICK new : new = MovedPlan(plans[k], to, a, t)
  OBVIOUS
<1>2. Put(k, new) /\ CanMove(plans[k], plans[k].revision, to, t)
  BY <1>1 DEF Move
<1>3. /\ Succeeds(new, k) /\ new.status = to /\ new.content = plans[k].content
      /\ new.history[new.revision].actor = a
  BY <1>1, <1>2, MovedSucceeds DEF IInv
<1>4. plans[k].status # "FROZEN"
  BY <1>2 DEF CanMove, PlanTransitions
<1> QED BY <1>2, <1>3, <1>4, StorePreserves DEF CreatedBy

\* ReviewApprove keeps the invariant.
LEMMA ReviewApprovePreserves ==
  ASSUME IInv, NEW k \in Plans, NEW a \in Actors, NEW r \in 1..MaxRevision,
         NEW x \in SUBSET Exemptions, ReviewApprove(k, a, r, x)
  PROVE  IInv'
<1>1. /\ UNCHANGED plans /\ Exists(k) /\ a # CreatedBy(k) /\ Undecided(k, r, a)
      /\ Decide(k, r, "APPROVE", a, x) /\ plans[k].history[r].to \in Reviewable
      /\ r \in 1..plans[k].revision
  BY HistoryLength DEF IInv, ReviewApprove
<1>2. PlansValid' /\ FrozenIsLast' /\ plans' \in [Plans -> PlanRecord \union {NoPlan}]
  BY <1>1 DEF IInv, TypeOK, PlansValid, FrozenIsLast, MovedTo, Exists
<1>3. Grows
  <2> SUFFICES ASSUME NEW j \in Plans, Exists(j)
               PROVE  plans[j].revision <= plans[j].revision
    BY <1>1 DEF Grows, Exists, SameBindings
  <2>1. plans[j].revision \in Nat
    BY HistoryLength DEF IInv
  <2> QED BY <2>1
<1>4. TypeOK' /\ DecisionsSound'
  BY <1>1, <1>2, <1>3, DecisionIsSound DEF Verdicts
<1>5. decisions \subseteq decisions' /\ \A d \in decisions' \ decisions : d.verdict = "APPROVE"
  BY <1>1 DEF Decide
<1>6. ApprovedOnEvidence'
  <2> SUFFICES ASSUME NEW j \in Plans, NEW i \in 2..MaxRevision, MovedTo(j, i, "APPROVED")
               PROVE  /\ plans'[j].history[i].actor # CreatedBy(j)'
                      /\ GatePassed(plans'[j].history[i - 1].content, DecisionsAt(j, i - 1)')
    BY <1>1 DEF ApprovedOnEvidence, MovedTo, Exists
  <2> QED BY <1>2, <1>3, <1>4, <1>5, ApprovalPersists
<1> QED BY <1>2, <1>4, <1>6 DEF IInv

\* ReviewRequestChanges keeps the invariant.
LEMMA ReviewRequestChangesPreserves ==
  ASSUME IInv, NEW k \in Plans, NEW a \in Actors, NEW t \in Times,
         NEW x \in SUBSET Exemptions, ReviewRequestChanges(k, a, t, x)
  PROVE  IInv'
<1>1. PICK r, new : r = plans[k].revision /\ new = MovedPlan(plans[k], "DRAFT", a, t)
  OBVIOUS
<1>2. /\ Exists(k) /\ a # CreatedBy(k) /\ Undecided(k, r, a)
      /\ plans[k].status \in Reviewable
      /\ Decide(k, r, "REQUEST_CHANGES", a, x)
      /\ Put(k, new) /\ CanMove(plans[k], plans[k].revision, "DRAFT", t)
  BY <1>1 DEF ReviewRequestChanges, Move
<1>3. Succeeds(new, k) /\ new.status = "DRAFT"
  BY <1>1, <1>2, MovedSucceeds DEF IInv
<1>4. /\ plans' \in [Plans -> PlanRecord \union {NoPlan}]
      /\ PlansValid' /\ Grows
  BY <1>2, <1>3, PutSucceeds DEF IInv
<1>5. r \in 1..plans[k].revision /\ plans[k].history[r].to \in Reviewable
  BY <1>1, <1>2, HistoryLength DEF IInv
<1>6. TypeOK' /\ DecisionsSound'
  BY <1>2, <1>4, <1>5, DecisionIsSound DEF Verdicts
<1>7. /\ decisions \subseteq decisions'
      /\ \A d \in decisions' \ decisions :
           d.plan = k /\ Exists(k) /\ d.revision = plans[k].revision
  BY <1>1, <1>2 DEF Decide
<1>8. plans[k].status # "FROZEN"
  BY <1>2 DEF Reviewable
<1>9. FrozenIsLast' /\ ApprovedOnEvidence'
  BY <1>2, <1>3, <1>6, <1>7, <1>8, ApprovalsPersist
<1> QED BY <1>4, <1>6, <1>9 DEF IInv

-----------------------------------------------------------------------------
(* The theorems.                                                           *)

\* An empty registry satisfies the invariant.
LEMMA InitEstablishes == Init => IInv
  BY DEF Init, IInv, TypeOK, PlansValid, FrozenIsLast, ApprovedOnEvidence,
         DecisionsSound, MovedTo, Exists

\* Every command keeps the invariant.
LEMMA StepPreserves == IInv /\ [Next]_vars => IInv'
<1> SUFFICES ASSUME IInv, [Next]_vars PROVE IInv'
  OBVIOUS
<1>1. CASE UNCHANGED vars
  BY <1>1 DEF vars, IInv, TypeOK, PlansValid, FrozenIsLast, ApprovedOnEvidence,
              DecisionsSound, MovedTo, Exists, CreatedBy, DecisionsAt
<1>2. ASSUME NEW k \in Plans, NEW a \in Actors, NEW c \in Contents, NEW t \in Times,
             Create(c, a, t) \/ Edit(k, c, a, t)
      PROVE  IInv'
  BY <1>2, CreatePreserves, EditPreserves
<1>3. ASSUME NEW k \in Plans, NEW a \in Actors, NEW t \in Times, Submit(k, a, t)
      PROVE  IInv'
  BY <1>3, MovePreserves DEF Submit
<1>4. ASSUME NEW k \in Plans, NEW a \in Actors, NEW r \in 1..MaxRevision,
             NEW x \in SUBSET Exemptions, ReviewApprove(k, a, r, x)
      PROVE  IInv'
  BY <1>4, ReviewApprovePreserves
<1>5. ASSUME NEW k \in Plans, NEW a \in Actors, NEW t \in Times,
             NEW x \in SUBSET Exemptions, ReviewRequestChanges(k, a, t, x)
      PROVE  IInv'
  BY <1>5, ReviewRequestChangesPreserves
<1>6. ASSUME NEW k \in Plans, NEW a \in Actors, NEW t \in Times, Approve(k, a, t)
      PROVE  IInv'
  BY <1>6, MovePreserves DEF Approve
<1>7. ASSUME NEW k \in Plans, NEW a \in Actors, NEW t \in Times,
             NEW ds \in SUBSET decisions, Freeze(k, a, t, ds)
      PROVE  IInv'
  BY <1>7, MovePreserves DEF Freeze
<1> QED BY <1>1, <1>2, <1>3, <1>4, <1>5, <1>6, <1>7 DEF Next

\* No step rewrites what was recorded or decided.
LEMMA StepGrows == IInv /\ [Next]_vars => Grows /\ decisions \subseteq decisions'
<1> SUFFICES ASSUME IInv, [Next]_vars PROVE Grows /\ decisions \subseteq decisions'
  OBVIOUS
<1>1. ASSUME UNCHANGED plans
      PROVE  Grows
  <2> SUFFICES ASSUME NEW j \in Plans, Exists(j)
               PROVE  plans[j].revision <= plans[j].revision
    BY <1>1 DEF Grows, Exists, SameBindings
  <2>1. plans[j].revision \in Nat
    BY HistoryLength DEF IInv
  <2> QED BY <2>1
<1>2. ASSUME NEW k \in Plans, NEW a \in Actors, NEW t \in Times, NEW to, Exists(k),
             Move(k, to, a, t)
      PROVE  Grows
  <2>1. PICK new : new = MovedPlan(plans[k], to, a, t)
    OBVIOUS
  <2>2. Succeeds(new, k) /\ Put(k, new)
    BY <1>2, <2>1, MovedSucceeds DEF IInv, Move
  <2> QED BY <2>2, PutSucceeds DEF IInv
<1>3. CASE UNCHANGED vars
  BY <1>1, <1>3 DEF vars
<1>4. ASSUME NEW a \in Actors, NEW c \in Contents, NEW t \in Times, Create(c, a, t)
      PROVE  Grows /\ UNCHANGED decisions
  <2>1. PlanOf[c] \in Plans /\ ~ Exists(PlanOf[c]) /\ CanCreate(c, t)
    BY <1>4, PlanAssumption DEF Create
  <2>2. CreatedPlan(c, a, t).revision = 1
    BY DEF CreatedPlan
  <2>3. Succeeds(CreatedPlan(c, a, t), PlanOf[c])
    BY <2>1, <2>2, CreatedIsValid DEF Succeeds
  <2> QED BY <1>4, <2>1, <2>3, PutSucceeds DEF IInv, Create
<1>5. ASSUME NEW k \in Plans, NEW a \in Actors, NEW c \in Contents, NEW t \in Times,
             Edit(k, c, a, t)
      PROVE  Grows /\ UNCHANGED decisions
  <2>1. Succeeds(ReplacedPlan(plans[k], c, a, t), k)
    BY <1>5, ReplacedSucceeds DEF IInv, Edit
  <2> QED BY <1>5, <2>1, PutSucceeds DEF IInv, Edit
<1>6. ASSUME NEW k \in Plans, NEW a \in Actors, NEW r \in 1..MaxRevision,
             NEW x \in SUBSET Exemptions, ReviewApprove(k, a, r, x)
      PROVE  Grows /\ decisions \subseteq decisions'
  BY <1>1, <1>6 DEF ReviewApprove, Decide
<1>7. ASSUME NEW k \in Plans, NEW a \in Actors, NEW t \in Times,
             \/ Submit(k, a, t) \/ Approve(k, a, t)
             \/ \E x \in SUBSET Exemptions : ReviewRequestChanges(k, a, t, x)
             \/ \E ds \in SUBSET decisions : Freeze(k, a, t, ds)
      PROVE  Grows /\ decisions \subseteq decisions'
  BY <1>2, <1>7 DEF Submit, ReviewRequestChanges, Approve, Freeze, Decide
<1> QED BY <1>3, <1>4, <1>5, <1>6, <1>7 DEF Next

\* Plans and their reviews are an audit trail: no command, in whatever order
\* with others, removes or rewrites a revision, an event or a decision.
AppendOnly == [][Grows /\ decisions \subseteq decisions']_vars

\* Every reachable state satisfies the inductive invariant.
THEOREM Invariance == Spec => []IInv
  BY InitEstablishes, StepPreserves, PTL DEF Spec

\* Type correctness of the plan registry and its evidence.
THEOREM TypeCorrect == Spec => []TypeOK
<1>1. IInv => TypeOK
  BY DEF IInv
<1> QED BY <1>1, Invariance, PTL

\* No command ever stores a plan that validatePlanRecord would reject, so no
\* plan becomes unreadable.
THEOREM PlansStayValid == Spec => []PlansValid
<1>1. IInv => PlansValid
  BY DEF IInv
<1> QED BY <1>1, Invariance, PTL

\* Whoever decides what and when, an approval was given by another than the
\* author on a gate that stays passed (evaluateApproval).
THEOREM ApprovalsHaveEvidence == Spec => []ApprovedOnEvidence
<1>1. IInv => ApprovedOnEvidence
  BY DEF IInv
<1> QED BY <1>1, Invariance, PTL

\* Reviews are single, impartial and about revisions open to review (review).
THEOREM DecisionsAreSound == Spec => []DecisionsSound
<1>1. IInv => DecisionsSound
  BY DEF IInv
<1> QED BY <1>1, Invariance, PTL

\* A frozen plan follows its approval, and that its review, without an edit in
\* between: what each event may follow leaves no other history.
LEMMA InvariantImpliesFrozenAsReviewed == IInv => FrozenAsReviewed
<1> SUFFICES ASSUME IInv, NEW k \in Plans, NEW i \in 3..MaxRevision,
                    MovedTo(k, i, "FROZEN")
             PROVE  /\ MovedTo(k, i - 1, "APPROVED")
                    /\ MovedTo(k, i - 2, "REVIEWING")
                    /\ plans[k].content = plans[k].history[i - 2].content
                    /\ GatePassed(plans[k].content, DecisionsAt(k, i - 2))
  BY DEF FrozenAsReviewed
<1> DEFINE h == plans[k].history
<1>1. Exists(k) /\ i \in DOMAIN h /\ h[i].to = "FROZEN"
  BY DEF MovedTo
<1>2. /\ h \in Seq(Event) /\ Len(h) = plans[k].revision /\ i \in 1..plans[k].revision
      /\ DOMAIN h = 1..plans[k].revision /\ plans[k].revision \in Nat
      /\ h[plans[k].revision].content = plans[k].content
      /\ ValidPlan(k, plans[k])
  BY <1>1, HistoryLength DEF IInv
<1>3. i - 1 \in 2..Len(h) /\ i \in 2..Len(h)
  BY <1>2
<1>4. ValidStep(h[i - 1], h[i]) /\ ValidStep(h[(i - 1) - 1], h[i - 1])
  BY <1>2, <1>3 DEF ValidPlan
<1>5. /\ h[i].from = h[i - 1].to /\ h[i].content = h[i - 1].content
      /\ "FROZEN" \in PlanTransitions[h[i].from]
  BY <1>1, <1>4 DEF ValidStep
<1>6. h[i - 1] \in Event /\ h[(i - 1) - 1] \in Event
  BY <1>2, <1>3
<1>7. h[i - 1].to = "APPROVED"
  BY <1>5, <1>6 DEF PlanTransitions, Event, PlanStatuses
<1>8. /\ h[i - 1].from = h[(i - 1) - 1].to
      /\ h[i - 1].content = h[(i - 1) - 1].content
      /\ "APPROVED" \in PlanTransitions[h[i - 1].from]
  BY <1>4, <1>7 DEF ValidStep
<1>9. h[(i - 1) - 1].to = "REVIEWING"
  BY <1>6, <1>8 DEF PlanTransitions, Event, PlanStatuses
<1>10. MovedTo(k, i - 1, "APPROVED") /\ MovedTo(k, i - 2, "REVIEWING")
  <2>1. (i - 1) - 1 = i - 2 /\ i - 2 \in 1..plans[k].revision
    BY <1>2, <1>3
  <2> QED BY <1>1, <1>2, <1>3, <1>7, <1>9, <2>1 DEF MovedTo
<1>11. i = plans[k].revision
  BY DEF IInv, FrozenIsLast
<1>12. plans[k].content = h[i - 2].content
  <2>1. (i - 1) - 1 = i - 2
    OBVIOUS
  <2> QED BY <1>2, <1>5, <1>8, <1>11, <2>1
<1>13. GatePassed(h[(i - 1) - 1].content, DecisionsAt(k, (i - 1) - 1))
  <2>1. i - 1 \in 2..MaxRevision
    BY BoundAssumption
  <2> QED BY <1>10, <2>1 DEF IInv, ApprovedOnEvidence
<1>14. (i - 1) - 1 = i - 2
  OBVIOUS
<1> QED BY <1>10, <1>12, <1>13, <1>14

\* What execution may take is what was reviewed and approved, under a gate
\* that still passes (approve, freeze).
THEOREM FreezesWhatWasReviewed == Spec => []FrozenAsReviewed
  BY Invariance, InvariantImpliesFrozenAsReviewed, PTL

\* What was planned and decided stays (replace, transition, append).
THEOREM NothingIsRewritten == Spec => AppendOnly
<1>1. IInv /\ [Next]_vars => [Grows /\ decisions \subseteq decisions']_vars
  BY StepGrows
<1> QED BY <1>1, Invariance, PTL DEF Spec, AppendOnly
====
