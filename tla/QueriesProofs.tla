--------------------------- MODULE QueriesProofs ---------------------------
(***************************************************************************)
(* What the read-only queries promise beside any governance: those of test *)
(* plans, and through K, an instance, those of knowledge and snapshots.    *)
(*                                                                         *)
(* A timeline is read in two transactions.  The invariant says that the    *)
(* record read first stays a past of the stored one, and that whoever      *)
(* returned a plan to draft left the decision: what decisions are read     *)
(* later then hold the evidence of every event of that past.               *)
(*                                                                         *)
(* A list is read page by page.  The invariant says that an entry that has *)
(* stayed as it was has been shown exactly if it sorts no later than the   *)
(* last entry shown.  Every page keeps it, because the list is in a total  *)
(* order, has every entry once, and the page begins where that last entry  *)
(* stands now.                                                             *)
(***************************************************************************)
EXTENDS PlanQueries, TestPlanGovernanceProofs

-----------------------------------------------------------------------------
(* Timelines                                                                 *)

\* An event that returns a plan to draft.
Returns(e) == e.to = "DRAFT" /\ e.from \notin {"NONE", "DRAFT"}

\* Among the decisions, this actor requested changes of the plan at revision i.
ChangesRequested(ds, k, i, a) ==
  \E d \in ds : /\ d.plan = k /\ d.revision = i
               /\ d.verdict = "REQUEST_CHANGES" /\ d.reviewer = a

\* Whoever returned a plan to draft requested changes of it, at the revision it had.
ReturnsDecided ==
  \A k \in Plans : Exists(k) =>
    \A i \in 1..plans[k].revision :
      Returns(plans[k].history[i])
        => ChangesRequested(decisions, k, i - 1, plans[k].history[i].actor)

\* Finitely many plans are stored, each within the bound of the model.
StoreBounded ==
  /\ IsFiniteSet({k \in Plans : Exists(k)})
  /\ \A k \in Plans : Exists(k) => plans[k].revision <= MaxRevision

\* The record a timeline was read from is a past of the stored one.
LookedAt(k, rec) ==
  /\ k \in Plans /\ Exists(k)
  /\ rec \in PlanRecord /\ ValidPlan(k, rec)
  /\ rec.revision <= plans[k].revision
  /\ \A i \in 1..rec.revision : plans[k].history[i] = rec.history[i]

TimelineInv ==
  /\ IInv
  /\ StoreBounded
  /\ ReturnsDecided
  /\ timeline.stage = "record" => LookedAt(timeline.plan, timeline.record)
  /\ IF timeline.stage = "shown" THEN TimelineShowsEvidence ELSE timeline.events = {}

\* A command that stores nothing leaves every return decided.
LEMMA ReturnsStayDecided ==
  ASSUME UNCHANGED plans, decisions \subseteq decisions', ReturnsDecided, StoreBounded
  PROVE  ReturnsDecided' /\ StoreBounded'
BY DEF ReturnsDecided, StoreBounded, ChangesRequested, Exists

\* So does one that stores a successor of a plan, if its last event is no return or
\* comes with the decision.
LEMMA SuccessorDecided ==
  ASSUME IInv, ReturnsDecided, StoreBounded, NEW k \in Plans, NEW new,
         Succeeds(new, k), Put(k, new), decisions \subseteq decisions',
         Returns(new.history[new.revision])
           => ChangesRequested(decisions', k, new.revision - 1, new.history[new.revision].actor)
  PROVE  ReturnsDecided' /\ StoreBounded'
<1>1. /\ plans'[k] = new
      /\ \A j \in Plans \ {k} : plans'[j] = plans[j]
  BY PutSucceeds DEF IInv
<1>2. StoreBounded'
  <2>1. {j \in Plans : Exists(j)'} \subseteq {j \in Plans : Exists(j)} \union {k}
    BY <1>1 DEF Exists
  <2>2. IsFiniteSet({j \in Plans : Exists(j)} \union {k}) BY FS_AddElement DEF StoreBounded
  <2>3. IsFiniteSet({j \in Plans : Exists(j)'}) BY <2>1, <2>2, FS_Subset
  <2> QED BY <1>1, <2>3 DEF StoreBounded, Put, Exists
<1>3. new.revision \in Nat \ {0} BY DEF Succeeds, PlanRecord
<1>4. ASSUME NEW j \in Plans, NEW i, NEW a, ChangesRequested(decisions, j, i, a)
      PROVE  ChangesRequested(decisions', j, i, a)
  BY <1>4 DEF ChangesRequested
<1>5. ASSUME NEW j \in Plans, Exists(j)', NEW i \in 1..plans'[j].revision,
             Returns(plans'[j].history[i])
      PROVE  ChangesRequested(decisions', j, i - 1, plans'[j].history[i].actor)
  <2>1. CASE j # k
    <3>1. plans'[j] = plans[j] /\ Exists(j) BY <1>1, <1>5, <2>1 DEF Exists
    <3>2. ChangesRequested(decisions, j, i - 1, plans[j].history[i].actor)
      BY <1>5, <3>1 DEF ReturnsDecided
    <3>3. ChangesRequested(decisions', j, i - 1, plans[j].history[i].actor) BY <1>4, <3>1, <3>2
    <3> QED BY <3>1, <3>3
  <2>2. CASE j = k /\ i = new.revision
    BY <1>1, <1>5, <2>2
  <2>3. CASE j = k /\ i # new.revision
    <3>1. i \in 1..new.revision /\ i # new.revision /\ i <= new.revision - 1
      BY <1>1, <1>3, <1>5, <2>3
    <3>2. Exists(k) /\ plans[k].revision \in Nat /\ new.revision = plans[k].revision + 1
      <4>1. CASE Exists(k) BY <4>1, HistoryLength DEF IInv, Succeeds
      <4>2. CASE ~ Exists(k) BY <1>3, <3>1, <4>2 DEF Succeeds
      <4> QED BY <4>1, <4>2
    <3>3. i \in 1..plans[k].revision /\ new.history[i] = plans[k].history[i]
      BY <3>1, <3>2 DEF Succeeds
    <3>4. ChangesRequested(decisions, k, i - 1, plans[k].history[i].actor)
      BY <1>1, <1>5, <2>3, <3>2, <3>3 DEF ReturnsDecided
    <3> QED BY <1>1, <1>4, <2>3, <3>3, <3>4
  <2> QED BY <2>1, <2>2, <2>3
<1>6. ReturnsDecided' BY <1>5 DEF ReturnsDecided, Exists
<1> QED BY <1>2, <1>6

\* A transition of a plan, to draft only with the decision.
LEMMA MoveDecided ==
  ASSUME IInv, ReturnsDecided, StoreBounded, NEW k \in Plans, Exists(k),
         NEW a \in Actors, NEW t \in Times, NEW to, Move(k, to, a, t),
         decisions \subseteq decisions',
         to = "DRAFT" => ChangesRequested(decisions', k, plans[k].revision, a)
  PROVE  ReturnsDecided' /\ StoreBounded'
<1>1. PICK new : new = MovedPlan(plans[k], to, a, t) OBVIOUS
<1>2. /\ Put(k, new) /\ Succeeds(new, k)
      /\ new.revision = plans[k].revision + 1
      /\ new.history[new.revision].to = to /\ new.history[new.revision].actor = a
  BY <1>1, MovedSucceeds DEF IInv, Move
<1>3. plans[k].revision \in Nat BY HistoryLength DEF IInv
<1>4. Returns(new.history[new.revision])
        => ChangesRequested(decisions', k, new.revision - 1, new.history[new.revision].actor)
  BY <1>2, <1>3 DEF Returns
<1> QED BY <1>2, <1>4, SuccessorDecided

\* Every command leaves every return decided.
LEMMA CommandDecided ==
  ASSUME IInv, ReturnsDecided, StoreBounded, Next
  PROVE  ReturnsDecided' /\ StoreBounded'
<1>0. decisions \subseteq decisions' BY StepGrows
<1>1. ASSUME NEW a \in Actors, NEW c \in Contents, NEW t \in Times, Create(c, a, t)
      PROVE  ReturnsDecided' /\ StoreBounded'
  <2>1. PICK k, new : k = PlanOf[c] /\ new = CreatedPlan(c, a, t) OBVIOUS
  <2>2. k \in Plans /\ ~ Exists(k) /\ Put(k, new) /\ CanCreate(c, t)
    BY <1>1, <2>1, PlanAssumption DEF Create
  <2>3. Succeeds(new, k) /\ new.revision = 1 /\ new.history[1].from = "NONE"
    BY <2>1, <2>2, CreatedIsValid DEF Succeeds, CreatedPlan
  <2> QED BY <1>0, <2>2, <2>3, SuccessorDecided DEF Returns
<1>2. ASSUME NEW k \in Plans, NEW a \in Actors, NEW c \in Contents, NEW t \in Times,
             Edit(k, c, a, t)
      PROVE  ReturnsDecided' /\ StoreBounded'
  <2>1. PICK new : new = ReplacedPlan(plans[k], c, a, t) OBVIOUS
  <2>2. Exists(k) /\ Put(k, new) /\ CanReplace(plans[k], plans[k].revision, c, t)
    BY <1>2, <2>1 DEF Edit
  <2>3. Succeeds(new, k) BY <2>1, <2>2, ReplacedSucceeds DEF IInv
  <2>4. new.history[new.revision].from = "DRAFT"
    <3>1. plans[k].history \in Seq(Event) /\ Len(plans[k].history) = plans[k].revision
      BY <2>2, HistoryLength DEF IInv
    <3> QED BY <2>1, <2>2, <3>1 DEF ReplacedPlan, CanReplace
  <2> QED BY <1>0, <2>2, <2>3, <2>4, SuccessorDecided DEF Returns
<1>3. ASSUME NEW k \in Plans, NEW a \in Actors, NEW r \in 1..MaxRevision,
             NEW x \in SUBSET Exemptions, ReviewApprove(k, a, r, x)
      PROVE  ReturnsDecided' /\ StoreBounded'
  BY <1>0, <1>3, ReturnsStayDecided DEF ReviewApprove
<1>4. ASSUME NEW k \in Plans, NEW a \in Actors, NEW t \in Times,
             \/ Submit(k, a, t) \/ Approve(k, a, t)
             \/ \E ds \in SUBSET decisions : Freeze(k, a, t, ds)
      PROVE  ReturnsDecided' /\ StoreBounded'
  BY <1>0, <1>4, MoveDecided DEF Submit, Approve, Freeze
<1>5. ASSUME NEW k \in Plans, NEW a \in Actors, NEW t \in Times,
             NEW x \in SUBSET Exemptions, ReviewRequestChanges(k, a, t, x)
      PROVE  ReturnsDecided' /\ StoreBounded'
  <2>1. ChangesRequested(decisions', k, plans[k].revision, a)
    <3>1. PICK r : r = plans[k].revision OBVIOUS
    <3>2. PICK d : d = [plan |-> k, revision |-> r, verdict |-> "REQUEST_CHANGES",
                        reviewer |-> a, exempts |-> x]
      OBVIOUS
    <3>3. d \in decisions' BY <1>5, <3>1, <3>2 DEF ReviewRequestChanges, Decide
    <3> QED BY <3>1, <3>2, <3>3 DEF ChangesRequested
  <2> QED BY <1>0, <1>5, <2>1, MoveDecided DEF ReviewRequestChanges
<1> QED BY <1>1, <1>2, <1>3, <1>4, <1>5 DEF Next

\* What a timeline was read from stays a past of the stored record.
LEMMA StillLookedAt ==
  ASSUME IInv, IInv', Grows, NEW k, NEW rec, LookedAt(k, rec)
  PROVE  LookedAt(k, rec)'
<1>1. /\ k \in Plans /\ Exists(k) /\ rec \in PlanRecord /\ rec.revision \in Nat
      /\ rec.revision <= plans[k].revision
      /\ \A i \in 1..rec.revision : plans[k].history[i] = rec.history[i]
  BY DEF LookedAt, PlanRecord
<1>2. /\ Exists(k)'
      /\ plans[k].revision \in Nat /\ plans'[k].revision \in Nat
      /\ plans[k].revision <= plans'[k].revision
      /\ \A i \in 1..plans[k].revision : plans'[k].history[i] = plans[k].history[i]
  BY <1>1, PastPersists DEF IInv, TypeOK
<1>3. \A i \in 1..rec.revision : i \in 1..plans[k].revision BY <1>1, <1>2
<1>4. rec.revision <= plans'[k].revision BY <1>1, <1>2
<1> QED BY <1>1, <1>2, <1>3, <1>4 DEF LookedAt

\* The decisions on plan k, shown beside a past of it, hold the evidence of its events.
LEMMA ShownWithEvidence ==
  ASSUME IInv, StoreBounded, ReturnsDecided, NEW k, NEW rec, LookedAt(k, rec),
         NEW i \in DOMAIN rec.history
  PROVE  LET e == rec.history[i] IN
         /\ e.to = "APPROVED" => GatePassed(e.content, DecisionsAt(k, i - 1))
         /\ Returns(e) => ChangesRequested(decisions, k, i - 1, e.actor)
<1>1. /\ k \in Plans /\ Exists(k) /\ rec \in PlanRecord /\ ValidPlan(k, rec)
      /\ rec.revision <= plans[k].revision
      /\ \A n \in 1..rec.revision : plans[k].history[n] = rec.history[n]
  BY DEF LookedAt
<1>2. /\ rec.history \in Seq(Event) /\ rec.revision \in Nat \ {0}
      /\ Len(rec.history) = rec.revision /\ DOMAIN rec.history = 1..rec.revision
  BY <1>1, LastEvent
<1>3. /\ plans[k].revision \in Nat /\ DOMAIN plans[k].history = 1..plans[k].revision
      /\ plans[k].revision <= MaxRevision
  BY <1>1, HistoryLength DEF IInv, StoreBounded
<1>4. i \in 1..rec.revision /\ i \in 1..plans[k].revision BY <1>1, <1>2, <1>3
<1>5. plans[k].history[i] = rec.history[i] BY <1>1, <1>4
<1>6. ASSUME rec.history[i].to = "APPROVED"
      PROVE  GatePassed(rec.history[i].content, DecisionsAt(k, i - 1))
  <2>1. i # 1 BY <1>1, <1>6 DEF ValidPlan
  <2>2. i \in 2..MaxRevision /\ i \in 2..Len(rec.history) /\ i - 1 \in 1..rec.revision
    BY <1>2, <1>3, <1>4, <2>1, BoundAssumption
  <2>3. MovedTo(k, i, "APPROVED") BY <1>1, <1>3, <1>4, <1>5, <1>6 DEF MovedTo
  <2>4. GatePassed(plans[k].history[i - 1].content, DecisionsAt(k, i - 1))
    BY <1>1, <2>2, <2>3 DEF IInv, ApprovedOnEvidence
  <2>5. ValidStep(rec.history[i - 1], rec.history[i]) BY <1>1, <2>2 DEF ValidPlan
  <2>6. rec.history[i].content = rec.history[i - 1].content BY <1>6, <2>5 DEF ValidStep
  <2>7. plans[k].history[i - 1] = rec.history[i - 1] BY <1>1, <2>2
  <2> QED BY <2>4, <2>6, <2>7
<1>7. Returns(rec.history[i]) => ChangesRequested(decisions, k, i - 1, rec.history[i].actor)
  BY <1>1, <1>4, <1>5 DEF ReturnsDecided
<1> QED BY <1>6, <1>7

\* Reading the decisions shows them.
LEMMA ShowsEvidence ==
  ASSUME TimelineInv, ListReviewDecisions
  PROVE  TimelineShowsEvidence'
<1>1. PICK k, rec : k = timeline.plan /\ rec = timeline.record OBVIOUS
<1>2. LookedAt(k, rec) BY <1>1 DEF TimelineInv, ListReviewDecisions, Show
<1>3. timeline'.events = PlanTimeline(rec, {d \in decisions : d.plan = k})
  BY <1>1 DEF ListReviewDecisions, Show
<1>4. ASSUME NEW e, e \in timeline'.events, e.kind = "PLAN_HISTORY"
      PROVE  /\ e.revision \in DOMAIN rec.history /\ e.event = rec.history[e.revision]
  BY <1>3, <1>4 DEF PlanTimeline
<1>5. ASSUME NEW r
      PROVE  {e.event : e \in {e \in {e \in timeline'.events : e.kind = "PLAN_REVIEW_DECISION"} :
                                  e.revision = r}}
               = DecisionsAt(k, r)
  <2>1. \A e \in timeline'.events :
          e.kind = "PLAN_REVIEW_DECISION" /\ e.revision = r => e.event \in DecisionsAt(k, r)
    BY <1>3 DEF PlanTimeline, DecisionsAt
  <2>2. ASSUME NEW d \in DecisionsAt(k, r)
        PROVE  \E e \in timeline'.events :
                 e.kind = "PLAN_REVIEW_DECISION" /\ e.revision = r /\ e.event = d
    <3>1. PICK e : e = [kind |-> "PLAN_REVIEW_DECISION", revision |-> d.revision, event |-> d]
      OBVIOUS
    <3>2. e \in timeline'.events BY <1>3, <3>1 DEF PlanTimeline, DecisionsAt
    <3> QED BY <3>1, <3>2 DEF DecisionsAt
  <2> QED BY <2>1, <2>2
<1>6. ASSUME NEW e, e \in timeline'.events, e.kind = "PLAN_HISTORY"
      PROVE  /\ e.event.to = "APPROVED"
                  => GatePassed(e.event.content, DecisionsAt(k, e.revision - 1))
             /\ e.event.to = "DRAFT" /\ e.event.from \notin {"NONE", "DRAFT"} =>
                  \E d \in DecisionsAt(k, e.revision - 1) :
                    d.verdict = "REQUEST_CHANGES" /\ d.reviewer = e.event.actor
  <2>1. e.revision \in DOMAIN rec.history /\ e.event = rec.history[e.revision]
    BY <1>4, <1>6
  <2>2. /\ e.event.to = "APPROVED"
             => GatePassed(e.event.content, DecisionsAt(k, e.revision - 1))
        /\ Returns(e.event) => ChangesRequested(decisions, k, e.revision - 1, e.event.actor)
    BY <1>2, <2>1, ShownWithEvidence DEF TimelineInv
  <2> QED BY <2>2 DEF Returns, ChangesRequested, DecisionsAt
<1> DEFINE Reviews(r) == {e.event : e \in {e \in {e \in timeline'.events : e.kind = "PLAN_REVIEW_DECISION"} :
                                  e.revision = r}}
<1> HIDE DEF Reviews
<1>7. \A r : Reviews(r) = DecisionsAt(k, r) BY <1>5 DEF Reviews
<1>8. \A e \in {e \in timeline'.events : e.kind = "PLAN_HISTORY"} :
        /\ e.event.to = "APPROVED" => GatePassed(e.event.content, Reviews(e.revision - 1))
        /\ e.event.to = "DRAFT" /\ e.event.from \notin {"NONE", "DRAFT"} =>
             \E d \in Reviews(e.revision - 1) :
               d.verdict = "REQUEST_CHANGES" /\ d.reviewer = e.event.actor
  BY <1>6, <1>7
<1> QED BY <1>8 DEF TimelineShowsEvidence, Reviews

\* Nothing is shown before it is read.
LEMMA TimelineBegins == QueriesInit => TimelineInv
<1> SUFFICES ASSUME QueriesInit PROVE TimelineInv OBVIOUS
<1>1. IInv BY InitEstablishes DEF QueriesInit
<1>2. {k \in Plans : Exists(k)} = {} BY DEF QueriesInit, Init, Exists
<1>3. StoreBounded /\ ReturnsDecided
  BY <1>2, FS_EmptySet DEF StoreBounded, ReturnsDecided
<1> QED BY <1>1, <1>3 DEF TimelineInv, QueriesInit, NoTimeline

\* Every step keeps what was read a past of the record, and what was shown.
LEMMA TimelineStepped == TimelineInv /\ [QueriesNext]_queryVars => TimelineInv'
<1> SUFFICES ASSUME TimelineInv, [QueriesNext]_queryVars PROVE TimelineInv' OBVIOUS
<1>1. [Next]_vars
  BY DEF QueriesNext, queryVars, Govern, FirstPage, NextPage, ReadTimelineRecord, ListReviewDecisions
<1>2. IInv' /\ Grows /\ decisions \subseteq decisions'
  BY <1>1, StepPreserves, StepGrows DEF TimelineInv
<1>3. ReturnsDecided' /\ StoreBounded'
  BY <1>1, <1>2, CommandDecided, ReturnsStayDecided DEF vars, TimelineInv
<1>4. CASE UNCHANGED timeline
  <2>1. timeline.stage = "record" => LookedAt(timeline.plan, timeline.record)'
    BY <1>2, <1>4, StillLookedAt DEF TimelineInv
  <2>2. TimelineShowsEvidence' <=> TimelineShowsEvidence
    BY <1>4 DEF TimelineShowsEvidence
  <2>3. (timeline.stage = "record" => LookedAt(timeline.plan, timeline.record))'
    BY <1>4, <2>1 DEF LookedAt
  <2> QED BY <1>2, <1>3, <1>4, <2>2, <2>3 DEF TimelineInv
<1>5. ASSUME NEW k \in Plans, ReadTimelineRecord(k) PROVE TimelineInv'
  <2>1. /\ timeline'.stage = "record" /\ timeline'.plan = k /\ timeline'.record = plans[k]
        /\ timeline'.events = {} /\ Exists(k) /\ UNCHANGED vars
    BY <1>5 DEF ReadTimelineRecord
  <2>2. plans[k] \in PlanRecord /\ ValidPlan(k, plans[k]) /\ plans[k].revision \in Nat
    BY <2>1, HistoryLength DEF TimelineInv, IInv
  <2>3. LookedAt(k, plans[k]) BY <2>1, <2>2 DEF LookedAt
  <2>4. LookedAt(timeline.plan, timeline.record)' BY <2>1, <2>3 DEF LookedAt, vars, Exists
  <2> QED BY <1>2, <1>3, <2>1, <2>4 DEF TimelineInv
<1>6. CASE ListReviewDecisions
  <2>1. TimelineShowsEvidence' BY <1>6, ShowsEvidence
  <2>2. timeline'.stage = "shown" BY <1>6 DEF ListReviewDecisions, Show
  <2> QED BY <1>2, <1>3, <2>1, <2>2 DEF TimelineInv
<1> QED
  BY <1>4, <1>5, <1>6 DEF QueriesNext, queryVars, Govern, FirstPage, NextPage

\* A timeline that shows an approval or a return to draft shows the decisions behind it,
\* although it is read in two transactions.
THEOREM TimelinesShowEvidence == QueriesSpec => []TimelineShowsEvidence
<1>1. TimelineInv => TimelineShowsEvidence BY DEF TimelineInv, TimelineShowsEvidence
<1> QED BY <1>1, TimelineBegins, TimelineStepped, PTL DEF QueriesSpec

-----------------------------------------------------------------------------
(* Sorted lists                                                              *)

\* R orders the members of S, strictly and totally.
Orders(R, S) ==
  /\ \A i, j, k \in S : <<i, j>> \in R /\ <<j, k>> \in R => <<i, k>> \in R
  /\ \A i \in S : <<i, i>> \notin R
  /\ \A i, j \in S : i = j \/ <<i, j>> \in R \/ <<j, i>> \in R

Earlier(R, S, i) == {j \in S : <<j, i>> \in R}

\* What comes before another member has fewer members before it.
LEMMA EarlierCounts ==
  ASSUME NEW S, IsFiniteSet(S), NEW R, Orders(R, S), NEW i \in S
  PROVE  /\ Cardinality(Earlier(R, S, i)) \in 0..(Cardinality(S) - 1)
         /\ \A j \in S : <<i, j>> \in R =>
              Cardinality(Earlier(R, S, i)) < Cardinality(Earlier(R, S, j))
<1>1. ASSUME NEW j \in S
      PROVE  /\ Earlier(R, S, j) \in SUBSET S /\ IsFiniteSet(Earlier(R, S, j))
             /\ Cardinality(Earlier(R, S, j)) \in Nat
  BY FS_Subset, FS_CardinalityType DEF Earlier
<1>2. Cardinality(S) \in Nat BY FS_CardinalityType
<1>3. ASSUME NEW T, Earlier(R, S, i) \subseteq T, T \subseteq S, i \in T
      PROVE  Cardinality(Earlier(R, S, i)) < Cardinality(T)
  <2>1. IsFiniteSet(T) /\ Cardinality(T) \in Nat BY <1>3, FS_Subset, FS_CardinalityType
  <2>2. i \notin Earlier(R, S, i) BY DEF Earlier, Orders
  <2>3. /\ Cardinality(Earlier(R, S, i)) <= Cardinality(T)
        /\ Cardinality(T) = Cardinality(Earlier(R, S, i)) => T = Earlier(R, S, i)
    BY <1>3, <2>1, FS_Subset
  <2> QED BY <1>1, <1>3, <2>1, <2>2, <2>3
<1>4. Cardinality(Earlier(R, S, i)) < Cardinality(S) BY <1>1, <1>3
<1>5. ASSUME NEW j \in S, <<i, j>> \in R
      PROVE  Cardinality(Earlier(R, S, i)) < Cardinality(Earlier(R, S, j))
  <2>1. Earlier(R, S, i) \subseteq Earlier(R, S, j) /\ i \in Earlier(R, S, j)
    BY <1>5 DEF Earlier, Orders
  <2> QED BY <1>1, <1>3, <2>1
<1> QED BY <1>1, <1>2, <1>4, <1>5

\* S as a list in the order R.
Lists(L, R, S) ==
  /\ L \in Seq(S)
  /\ \A i \in S : \E n \in 1..Len(L) : L[n] = i
  /\ \A m, n \in 1..Len(L) : m < n <=> <<L[m], L[n]>> \in R

\* That is what it is: no two members share a place, and no place is free.
LEMMA RankedLists ==
  ASSUME NEW S, IsFiniteSet(S), NEW R, Orders(R, S)
  PROVE  Lists(Sorted(S, R), R, S)
<1> DEFINE place == [i \in S |-> Cardinality(Earlier(R, S, i)) + 1]
           N == Cardinality(S)
<1>1. N \in Nat BY FS_CardinalityType
<1>2. \A i \in S : /\ Cardinality(Earlier(R, S, i)) \in 0..(N - 1)
                   /\ \A j \in S : <<i, j>> \in R =>
                        Cardinality(Earlier(R, S, i)) < Cardinality(Earlier(R, S, j))
  BY EarlierCounts
<1>3. place \in [S -> 1..N] BY <1>1, <1>2
<1>4. \A i, j \in S : <<i, j>> \in R => place[i] < place[j] BY <1>1, <1>2
<1>5. ASSUME NEW i \in S, NEW j \in S, place[i] = place[j] PROVE i = j
  <2> HIDE DEF place
  <2>1. place[i] \in Nat BY <1>1, <1>3
  <2>2. ~ (<<i, j>> \in R) /\ ~ (<<j, i>> \in R) BY <1>4, <1>5, <2>1
  <2> QED BY <2>2 DEF Orders
<1>6. place \in Injection(S, 1..N) BY <1>3, <1>5 DEF Injection, IsInjective
<1>7. IsFiniteSet(1..N) /\ Cardinality(1..N) = N BY <1>1, FS_Interval
<1>8. place \in Surjection(S, 1..N) BY <1>6, <1>7, FS_Injection
<1>9. \A n \in 1..N : \E i \in S : place[i] = n BY <1>8 DEF Surjection
<1> DEFINE L == Sorted(S, R)
<1>10. \A n \in 1..N : L[n] \in S /\ place[L[n]] = n
  <2> SUFFICES ASSUME NEW n \in 1..N PROVE L[n] \in S /\ place[L[n]] = n OBVIOUS
  <2>1. \E i \in S : Cardinality(Earlier(R, S, i)) = n - 1 BY <1>1, <1>2, <1>9
  <2>2. L[n] = CHOOSE i \in S : Cardinality(Earlier(R, S, i)) = n - 1 BY DEF Sorted, Earlier
  <2>3. L[n] \in S /\ Cardinality(Earlier(R, S, L[n])) = n - 1 BY <2>1, <2>2
  <2> QED BY <1>1, <2>3
<1>11. L \in Seq(S) /\ Len(L) = N
  <2>1. L \in [1..N -> S] BY <1>10 DEF Sorted
  <2> QED BY <1>1, <2>1
<1> HIDE DEF L, place
<1>12. \A i \in S : \E n \in 1..N : L[n] = i
  <2> SUFFICES ASSUME NEW i \in S PROVE \E n \in 1..N : L[n] = i OBVIOUS
  <2>1. place[i] \in 1..N BY <1>3
  <2>2. L[place[i]] \in S /\ place[L[place[i]]] = place[i] BY <1>10, <2>1
  <2> QED BY <1>5, <2>1, <2>2
<1>13. ASSUME NEW m \in 1..N, NEW n \in 1..N PROVE m < n <=> <<L[m], L[n]>> \in R
  <2>1. /\ L[m] \in S /\ L[n] \in S /\ place[L[m]] = m /\ place[L[n]] = n BY <1>10
  <2>2. <<L[m], L[n]>> \in R => m < n BY <1>4, <2>1
  <2>3. m < n => <<L[m], L[n]>> \in R
    <3> SUFFICES ASSUME m < n PROVE <<L[m], L[n]>> \in R OBVIOUS
    <3>1. ~ (<<L[n], L[m]>> \in R) BY <1>1, <1>4, <2>1
    <3>2. L[n] # L[m] BY <1>1, <2>1
    <3> QED BY <2>1, <3>1, <3>2 DEF Orders
  <2> QED BY <2>2, <2>3
<1> QED BY <1>11, <1>12, <1>13 DEF Lists, L

\* It is the list in any order that agrees with this one on the members.
LEMMA SortedInOrder ==
  ASSUME NEW S, IsFiniteSet(S), NEW R, Orders(R, S), NEW before,
         \A i, j \in S : <<i, j>> \in before <=> <<i, j>> \in R
  PROVE  Lists(Sorted(S, before), R, S)
<1>1. Orders(before, S) BY DEF Orders
<1>2. PICK L : L = Sorted(S, before) OBVIOUS
<1>3. Lists(L, before, S) BY <1>1, <1>2, RankedLists
<1>4. \A n \in 1..Len(L) : L[n] \in S BY <1>3 DEF Lists
<1> QED BY <1>2, <1>3, <1>4 DEF Lists

-----------------------------------------------------------------------------
(* A walk from page to page                                                  *)

NotShown(seen, key) == \A i \in 1..Len(seen) : seen[i] # key

ShownOnce(seen, key) ==
  \E i \in 1..Len(seen) : seen[i] = key /\ \A j \in 1..Len(seen) : seen[j] = key => j = i

\* Of a list, the keys on the page from one place to another.
PageOf(L, start, end) == [i \in 1..(end - start) |-> L[start + i].key]

\* The key of one item of the list, and of no other, is shown by the page it is on and
\* by no other.
LEMMA PageShows ==
  ASSUME NEW K, NEW seen \in Seq(K), NEW L, Len(L) \in Nat, \A i \in 1..Len(L) : L[i].key \in K,
         NEW start \in 0..Len(L), NEW end \in start..Len(L), NEW key,
         NEW n \in 1..Len(L), \A i \in 1..Len(L) : L[i].key = key <=> i = n,
         IF n <= start THEN ShownOnce(seen, key) ELSE NotShown(seen, key)
  PROVE  LET shown == seen \o PageOf(L, start, end) IN
         IF n <= end THEN ShownOnce(shown, key) ELSE NotShown(shown, key)
<1> DEFINE page == PageOf(L, start, end)
           shown == seen \o page
<1>1. /\ start \in Nat /\ end \in Nat /\ n \in Nat /\ end - start \in Nat /\ Len(seen) \in Nat
      /\ start <= end
  OBVIOUS
<1>2. Len(page) = end - start /\ \A i \in 1..(end - start) : page[i] = L[start + i].key
  BY <1>1 DEF PageOf
<1>3. \A i \in 1..(end - start) : page[i] = key <=> start + i = n
  <2> SUFFICES ASSUME NEW i \in 1..(end - start) PROVE page[i] = key <=> start + i = n OBVIOUS
  <2>1. start + i \in 1..Len(L) BY <1>1
  <2> QED BY <1>2, <2>1
<1>4. /\ Len(shown) = Len(seen) + (end - start)
      /\ \A i \in 1..Len(seen) : shown[i] = seen[i]
      /\ \A i \in 1..(end - start) : shown[Len(seen) + i] = page[i]
  <2>1. page \in [1..(end - start) -> K] BY <1>1 DEF PageOf
  <2>2. page \in Seq(K) BY <1>1, <2>1
  <2> HIDE DEF page
  <2>3. shown = seen \o page /\ Len(shown) = Len(seen) + Len(page) OBVIOUS
  <2> QED BY <1>1, <1>2, <2>2, <2>3
<1> HIDE DEF page, shown
<1>5. ASSUME NEW i \in 1..Len(shown)
      PROVE  \/ i \in 1..Len(seen) /\ shown[i] = seen[i]
             \/ /\ i - Len(seen) \in 1..(end - start) /\ shown[i] = page[i - Len(seen)]
  <2>1. CASE i <= Len(seen) BY <1>1, <1>4, <2>1
  <2>2. CASE i > Len(seen)
    <3>1. i - Len(seen) \in 1..(end - start) /\ i = Len(seen) + (i - Len(seen)) BY <1>1, <1>4, <2>2
    <3> QED BY <1>4, <3>1
  <2> QED BY <1>1, <1>4, <2>1, <2>2
<1>6. CASE n <= start
  <2>1. n <= end BY <1>1, <1>6
  <2>2. PICK i \in 1..Len(seen) : seen[i] = key /\ \A j \in 1..Len(seen) : seen[j] = key => j = i
    BY <1>6 DEF ShownOnce
  <2>3. i \in 1..Len(shown) /\ shown[i] = key BY <1>1, <1>4, <2>2
  <2>4. ASSUME NEW j \in 1..Len(shown), shown[j] = key PROVE j = i
    <3>1. ~ (j - Len(seen) \in 1..(end - start) /\ shown[j] = page[j - Len(seen)])
      BY <1>1, <1>3, <1>6, <2>4
    <3> QED BY <1>5, <2>2, <2>4, <3>1
  <2> QED BY <2>1, <2>3, <2>4 DEF ShownOnce, shown, page
<1>7. CASE n > start
  <2>0. NotShown(seen, key) BY <1>1, <1>7
  <2>1. CASE n <= end
    <3>1. PICK i : i = Len(seen) + (n - start) OBVIOUS
    <3>2. /\ n - start \in 1..(end - start) /\ i \in 1..Len(shown)
          /\ start + (n - start) = n
      BY <1>1, <1>4, <1>7, <2>1, <3>1
    <3>3. shown[i] = key BY <1>3, <1>4, <3>1, <3>2
    <3>4. ASSUME NEW j \in 1..Len(shown), shown[j] = key PROVE j = i
      <4>1. j - Len(seen) \in 1..(end - start) /\ page[j - Len(seen)] = key
        BY <1>5, <2>0, <3>4 DEF NotShown
      <4>2. start + (j - Len(seen)) = n BY <1>3, <4>1
      <4> QED BY <1>1, <1>4, <3>1, <4>2
    <3> QED BY <2>1, <3>2, <3>3, <3>4 DEF ShownOnce, shown, page
  <2>2. CASE n > end
    <3>1. ASSUME NEW j \in 1..Len(shown) PROVE shown[j] # key
      <4>1. SUFFICES ASSUME shown[j] = key PROVE FALSE OBVIOUS
      <4>2. j - Len(seen) \in 1..(end - start) /\ page[j - Len(seen)] = key
        BY <1>5, <2>0, <4>1 DEF NotShown
      <4>3. start + (j - Len(seen)) = n BY <1>3, <4>2
      <4> QED BY <1>1, <2>2, <4>2, <4>3
    <3>2. ~ (n <= end) BY <1>1, <2>2
    <3> QED BY <3>1, <3>2 DEF NotShown, shown, page
  <2> QED BY <1>1, <2>1, <2>2
<1> QED BY <1>1, <1>6, <1>7

\* TimesSeen counts what is shown.
LEMMA TimesCounted ==
  ASSUME NEW walk0, NEW key, DOMAIN walk0.seen = 1..Len(walk0.seen)
  PROVE  /\ NotShown(walk0.seen, key) => TimesSeen(walk0, key) = 0
         /\ ShownOnce(walk0.seen, key) => TimesSeen(walk0, key) = 1
<1>1. ASSUME NotShown(walk0.seen, key) PROVE TimesSeen(walk0, key) = 0
  <2>1. {i \in DOMAIN walk0.seen : walk0.seen[i] = key} = {} BY <1>1 DEF NotShown
  <2> QED BY <2>1, FS_EmptySet DEF TimesSeen
<1>2. ASSUME ShownOnce(walk0.seen, key) PROVE TimesSeen(walk0, key) = 1
  <2>1. PICK i \in 1..Len(walk0.seen) :
          walk0.seen[i] = key /\ \A j \in 1..Len(walk0.seen) : walk0.seen[j] = key => j = i
    BY <1>2 DEF ShownOnce
  <2>2. {j \in DOMAIN walk0.seen : walk0.seen[j] = key} = {i} BY <2>1
  <2> QED BY <2>2, FS_Singleton DEF TimesSeen
<1> QED BY <1>1, <1>2

\* A walk that has shown keys of K and watches some of them.
IsWalk(w, K) ==
  /\ w = [stage |-> w.stage, list |-> w.list, cursor |-> w.cursor, seen |-> w.seen, steady |-> w.steady]
  /\ w.seen \in Seq(K) /\ w.steady \subseteq K
  /\ w.stage \in {"none", "refused", "stale", "ended", "paging"}

\* After the last item shown, item i has been shown if it comes no later.
Follows(R, seen, last, i) ==
  IF i = last \/ <<i, last>> \in R THEN ShownOnce(seen, i.key) ELSE NotShown(seen, i.key)

\* The items of S, told apart by keys of K, as the list L in the order R.
Listing(L, R, S, K) ==
  /\ Lists(L, R, S) /\ Orders(R, S)
  /\ \A i \in S : i.key \in K
  /\ \A i, j \in S : i.key = j.key => i = j

\* The walk stands where item i is due: nothing is left out or shown twice so far.
Due(w, R, i) ==
  IF w.cursor = NoCursor THEN NotShown(w.seen, i.key) ELSE Follows(R, w.seen, w.cursor[1].last, i)

\* What an answer leaves of a walk through S: the items due before it are due after it.
Answered(new, w, query, R, S) ==
  /\ new.steady = w.steady /\ new.stage # "none"
  /\ new.stage \in {"refused", "stale"} => new.seen = w.seen
  /\ new.stage \in {"ended", "paging"} => ~ Mismatched(w.cursor, query)
  /\ new.stage = "paging" => \E last \in S : new.cursor = <<[query |-> query, last |-> last]>>
  /\ \A i \in S :
       Due(w, R, i) => /\ new.stage = "ended" => ShownOnce(new.seen, i.key)
                       /\ new.stage = "paging" => Due(new, R, i)

\* A page ends on the list, with the list if not before.
LEMMA PageEnds ==
  ASSUME NEW N \in Nat, NEW start \in 0..N, NEW size \in Nat \ {0},
         NEW end, end = IF start + size < N THEN start + size ELSE N
  PROVE  /\ end \in start..N /\ end - start \in Nat
         /\ \A n \in 1..(end - start) : start + n \in 1..N
         /\ end < N => end \in 1..N
         /\ ~ (end < N) => end = N
OBVIOUS

\* The part of a list from one place to another.
LEMMA PartOfList ==
  ASSUME NEW S, NEW L \in Seq(S), NEW start \in 0..Len(L), NEW end \in start..Len(L)
  PROVE  /\ DOMAIN SubSeq(L, start + 1, end) = 1..(end - start)
         /\ \A n \in 1..(end - start) : SubSeq(L, start + 1, end)[n] = L[start + n]
<1>1. Len(L) \in Nat /\ end - start \in Nat OBVIOUS
<1>2. start + 1 \in 1..(Len(L) + 1) OBVIOUS
<1>3. SubSeq(L, start + 1, end) = [n \in 1..(end - (start + 1) + 1) |-> L[n + (start + 1) - 1]]
  OBVIOUS
<1>4. end - (start + 1) + 1 = end - start BY <1>1
<1>5. \A n \in 1..(end - start) : n + (start + 1) - 1 = start + n BY <1>1
<1> QED BY <1>3, <1>4, <1>5

\* One answer to a walk through the list of S.
LEMMA WalkedOn ==
  ASSUME NEW K, NEW S, NEW R, NEW L, Listing(L, R, S, K), NEW w, IsWalk(w, K),
         NEW query, NEW limit, NEW new, new = Walked(w, L, query, limit, w.cursor)
  PROVE  IsWalk(new, K) /\ Answered(new, w, query, R, S)
<1>1. Lists(L, R, S) /\ Orders(R, S) BY DEF Listing
<1>2. CASE ~ ValidPageLimit(limit) \/ Mismatched(w.cursor, query) \/ Stale(L, w.cursor)
  <2>1. \/ new = [w EXCEPT !.stage = "refused"]
        \/ new = [w EXCEPT !.stage = "stale"]
    BY <1>2 DEF Walked
  <2>2. /\ IsWalk(new, K) /\ new.steady = w.steady /\ new.seen = w.seen
        /\ new.stage \in {"refused", "stale"}
    BY <2>1 DEF IsWalk
  <2> QED BY <2>2 DEF Answered
<1>3. CASE ValidPageLimit(limit) /\ ~ Mismatched(w.cursor, query) /\ ~ Stale(L, w.cursor)
  <2> DEFINE size == PageLimit(limit)
             start == IF w.cursor = NoCursor THEN 0 ELSE CHOOSE n \in Anchored(L, w.cursor) : TRUE
             end == IF start + size < Len(L) THEN start + size ELSE Len(L)
             page == Paginate(L, query, size, w.cursor)
  <2>1. size \in Nat \ {0} BY <1>3 DEF ValidPageLimit, MaxPageLimit
  <2>2. Len(L) \in Nat /\ DOMAIN L = 1..Len(L) /\ \A n \in 1..Len(L) : L[n] \in S
    BY <1>1 DEF Lists
  <2>3. /\ w.cursor = NoCursor => start = 0
        /\ w.cursor # NoCursor => start \in 1..Len(L) /\ L[start] = w.cursor[1].last
    <3>1. CASE w.cursor # NoCursor
      <4>1. start \in Anchored(L, w.cursor) BY <1>3, <3>1 DEF Stale
      <4> QED BY <2>2, <3>1, <4>1 DEF Anchored
    <3> QED BY <3>1
  <2>4. /\ page.items = SubSeq(L, start + 1, end)
        /\ page.nextCursor = IF end < Len(L) THEN <<[query |-> query, last |-> L[end]]>> ELSE NoCursor
    BY DEF Paginate
  <2>5. new = [w EXCEPT !.stage = IF page.nextCursor = NoCursor THEN "ended" ELSE "paging",
                        !.cursor = page.nextCursor,
                        !.seen = @ \o [n \in DOMAIN page.items |-> page.items[n].key]]
    BY <1>3 DEF Walked
  <2>6. end = IF start + size < Len(L) THEN start + size ELSE Len(L) OBVIOUS
  <2> HIDE DEF size, start, end, page
  <2>7. start \in 0..Len(L)
    <3>1. CASE w.cursor = NoCursor BY <2>2, <2>3, <3>1
    <3>2. CASE w.cursor # NoCursor BY <2>2, <2>3, <3>2
    <3> QED BY <3>1, <3>2
  <2>8. /\ end \in start..Len(L) /\ end - start \in Nat
        /\ \A n \in 1..(end - start) : start + n \in 1..Len(L)
        /\ end < Len(L) => end \in 1..Len(L)
        /\ ~ (end < Len(L)) => end = Len(L)
    BY <2>1, <2>2, <2>6, <2>7, PageEnds
  <2>9. [n \in DOMAIN page.items |-> page.items[n].key] = PageOf(L, start, end)
    <3>1. /\ DOMAIN page.items = 1..(end - start)
          /\ \A n \in 1..(end - start) : page.items[n] = L[start + n]
      BY <1>1, <2>4, <2>7, <2>8, PartOfList DEF Lists
    <3> QED BY <3>1 DEF PageOf
  <2>10. /\ new.stage = IF page.nextCursor = NoCursor THEN "ended" ELSE "paging"
         /\ new.cursor = page.nextCursor /\ new.seen = w.seen \o PageOf(L, start, end)
         /\ new.steady = w.steady
         /\ new = [stage |-> new.stage, list |-> new.list, cursor |-> new.cursor,
                   seen |-> new.seen, steady |-> new.steady]
    BY <2>5, <2>9 DEF IsWalk
  <2>11. /\ w.seen \in Seq(K) /\ \A n \in 1..Len(L) : L[n].key \in K
    BY <2>2 DEF IsWalk, Listing
  <2>12. IsWalk(new, K)
    <3>1. PageOf(L, start, end) \in [1..(end - start) -> K] BY <2>8, <2>11 DEF PageOf
    <3>2. PageOf(L, start, end) \in Seq(K) BY <2>8, <3>1
    <3>3. new.seen \in Seq(K) BY <2>10, <2>11, <3>2
    <3> QED BY <2>10, <3>3 DEF IsWalk
  <2>13. new.stage = "paging" => end < Len(L) /\ new.cursor = <<[query |-> query, last |-> L[end]]>>
    BY <2>4, <2>10
  <2>14. new.stage = "ended" => end = Len(L)
    <3>1. <<[query |-> query, last |-> L[end]]>> # NoCursor BY DEF NoCursor
    <3>2. new.stage = "ended" => ~ (end < Len(L)) BY <2>4, <2>10, <3>1
    <3> QED BY <2>8, <3>2
  <2>15. ASSUME NEW i \in S, Due(w, R, i)
         PROVE  /\ new.stage = "ended" => ShownOnce(new.seen, i.key)
                /\ new.stage = "paging" => Due(new, R, i)
    <3>1. PICK n \in 1..Len(L) : L[n] = i BY <1>1 DEF Lists
    <3>2. ASSUME NEW m \in 1..Len(L), L[m] = i PROVE m = n
      <4>1. m < n <=> <<i, i>> \in R BY <1>1, <3>1, <3>2 DEF Lists
      <4>2. n < m <=> <<i, i>> \in R BY <1>1, <3>1, <3>2 DEF Lists
      <4>3. <<i, i>> \notin R BY <1>1 DEF Orders
      <4> QED BY <2>2, <4>1, <4>2, <4>3
    <3>3. \A m \in 1..Len(L) : n <= m <=> i = L[m] \/ <<i, L[m]>> \in R
      BY <1>1, <2>2, <3>1 DEF Lists, Orders
    <3>4. \A m \in 1..Len(L) : L[m].key = i.key <=> m = n
      BY <2>2, <3>1, <3>2 DEF Listing
    <3>5. IF n <= start THEN ShownOnce(w.seen, i.key) ELSE NotShown(w.seen, i.key)
      <4>1. CASE w.cursor = NoCursor
        <5>1. ~ (n <= start) BY <2>2, <2>3, <3>1, <4>1
        <5> QED BY <2>15, <4>1, <5>1 DEF Due
      <4>2. CASE w.cursor # NoCursor BY <2>3, <2>15, <3>3, <4>2 DEF Due, Follows
      <4> QED BY <4>1, <4>2
    <3>6. LET shown == w.seen \o PageOf(L, start, end) IN
          IF n <= end THEN ShownOnce(shown, i.key) ELSE NotShown(shown, i.key)
      BY <2>2, <2>7, <2>8, <2>11, <3>1, <3>4, <3>5, PageShows
    <3>7. IF n <= end THEN ShownOnce(new.seen, i.key) ELSE NotShown(new.seen, i.key)
      BY <2>10, <3>6
    <3>8. new.stage = "ended" => ShownOnce(new.seen, i.key)
      <4>1. n <= Len(L) BY <2>2, <3>1
      <4> QED BY <2>14, <3>7, <4>1
    <3>9. new.stage = "paging" => Due(new, R, i)
      <4>1. SUFFICES ASSUME new.stage = "paging" PROVE Due(new, R, i) OBVIOUS
      <4>2. end \in 1..Len(L) /\ new.cursor # NoCursor /\ new.cursor[1].last = L[end]
        BY <2>8, <2>13, <4>1 DEF NoCursor
      <4> QED BY <3>3, <3>7, <4>2 DEF Due, Follows
    <3> QED BY <3>8, <3>9
  <2>16. new.stage \in {"ended", "paging"} BY <2>10
  <2>17. new.stage = "paging" => \E last \in S : new.cursor = <<[query |-> query, last |-> last]>>
    <3>1. new.stage = "paging" => L[end] \in S BY <2>2, <2>8, <2>13
    <3> QED BY <2>13, <3>1
  <2> QED BY <1>3, <2>10, <2>12, <2>15, <2>16, <2>17 DEF Answered
<1> QED BY <1>2, <1>3

-----------------------------------------------------------------------------
(* The list of plans                                                         *)

Items == [key : Plans, value : Nat]

PlanOrder(direction) == {p \in Items \X Items : PlanComparator(p[1], p[2], direction)}

Listed(q) == {k \in Plans : Exists(k) /\ q.status \in {Absent, plans[k].status}}

ItemOf(k, q) == Item(k, PlanSortValue(k, q.sortBy))

PlanItems(q) == {ItemOf(k, q) : k \in Listed(q)}

\* A walk through the list of q stands where the watched plans are due.
OnTheWay(w, q) ==
  \A k \in w.steady : k \in Listed(q) /\ Due(w, PlanOrder(q.direction), ItemOf(k, q))

\* The client has been shown a watched plan if it comes no later than the last one shown.
Shows(w) ==
  IF w.stage = "paging"
  THEN \E q : \E last \in Items : /\ ValidPlanListQuery(q) /\ OnTheWay(w, q)
                                  /\ w.cursor = <<[query |-> q, last |-> last]>>
  ELSE \A k \in w.steady :
         ShownOnce(w.seen, k) \/ (w.stage # "ended" /\ NotShown(w.seen, k))

WalkInv ==
  /\ TimelineInv
  /\ IsWalk(walk, Plans)
  /\ Shows(walk)

\* Plans sort in one way: no two have the rank by which ties are broken.
LEMMA PlansOrdered ==
  ASSUME TimelineInv, NEW q, ValidPlanListQuery(q)
  PROVE  /\ PlanItems(q) \subseteq Items
         /\ Listing(ListPlans(q), PlanOrder(q.direction), PlanItems(q), Plans)
<1> DEFINE R == PlanOrder(q.direction)
           S == PlanItems(q)
           before == {p \in S \X S : PlanComparator(p[1], p[2], q.direction)}
<1>0. \A s \in PlanStatuses : StatusOrder[s] \in Nat BY DEF StatusOrder, PlanStatuses
<1>1. ASSUME NEW k \in Listed(q) PROVE ItemOf(k, q) \in Items
  <2>1. /\ k \in Plans /\ plans[k] \in PlanRecord /\ plans[k].content \in Contents
        /\ plans[k].revision \in Nat /\ plans[k].updatedAt \in Nat /\ plans[k].status \in PlanStatuses
    BY <1>1, HistoryLength, PlanAssumption DEF Listed, TimelineInv, IInv, PlanRecord
  <2>2. CreatedAtOf[plans[k].content] \in Nat /\ PlanRank[k] \in Nat /\ StatusOrder[plans[k].status] \in Nat
    BY <1>0, <2>1, PlanAssumption, RankAssumption
  <2>3. PlanSortValue(k, q.sortBy) \in Nat
    BY <2>1, <2>2 DEF PlanSortValue, ValidPlanListQuery, PLAN_QUERY_SORT_FIELDS
  <2> QED BY <2>1, <2>3 DEF ItemOf, Item, Items
<1>2. S \subseteq Items BY <1>1 DEF PlanItems
<1>3. IsFiniteSet(S)
  <2>1. IsFiniteSet(Listed(q))
    <3>1. Listed(q) \subseteq {k \in Plans : Exists(k)} BY DEF Listed
    <3> QED BY <3>1, FS_Subset DEF TimelineInv, StoreBounded
  <2>2. PICK f : f = [k \in Listed(q) |-> ItemOf(k, q)] OBVIOUS
  <2>3. f \in Surjection(Listed(q), S) BY <2>2 DEF Surjection, PlanItems
  <2> QED BY <2>1, <2>3, FS_Surjection
<1>4. \A i, j \in S : i.key = j.key => i = j BY DEF PlanItems, ItemOf, Item
<1>5. ListPlans(q) = Sorted(S, before) BY DEF ListPlans, PlanItems, ItemOf, Listed
<1> HIDE DEF S
<1>6. \A i, j \in S : <<i, j>> \in before <=> PlanComparator(i, j, q.direction) OBVIOUS
<1>7. \A i, j \in S : <<i, j>> \in R <=> PlanComparator(i, j, q.direction)
  BY <1>2 DEF PlanOrder
<1> HIDE DEF R, before
<1>8. \A i \in S : i.value \in Nat /\ i.key \in Plans /\ PlanRank[i.key] \in Nat
  BY <1>2, RankAssumption DEF Items
<1>9. Orders(R, S)
  <2>1. ASSUME NEW i \in S, NEW j \in S, NEW k \in S, <<i, j>> \in R, <<j, k>> \in R
        PROVE  <<i, k>> \in R
    <3>1. PlanComparator(i, j, q.direction) /\ PlanComparator(j, k, q.direction)
      BY <1>7, <2>1
    <3>2. PlanComparator(i, k, q.direction) BY <1>8, <3>1 DEF PlanComparator
    <3> QED BY <1>7, <3>2
  <2>2. \A i \in S : <<i, i>> \notin R BY <1>7, <1>8 DEF PlanComparator
  <2>3. ASSUME NEW i \in S, NEW j \in S, i # j PROVE <<i, j>> \in R \/ <<j, i>> \in R
    <3>1. PlanRank[i.key] # PlanRank[j.key] BY <1>4, <1>8, <2>3, RankAssumption
    <3>2. PlanComparator(i, j, q.direction) \/ PlanComparator(j, i, q.direction)
      BY <1>8, <3>1 DEF PlanComparator
    <3> QED BY <1>7, <3>2
  <2> QED BY <2>1, <2>2, <2>3 DEF Orders
<1>10. \A i, j \in S : <<i, j>> \in before <=> <<i, j>> \in R BY <1>6, <1>7
<1>11. Lists(ListPlans(q), R, S) BY <1>3, <1>5, <1>9, <1>10, SortedInOrder
<1> QED BY <1>2, <1>4, <1>8, <1>9, <1>11 DEF Listing, R, S

\* A watched plan is either shown or not.
LEMMA ShownOrNot ==
  ASSUME NEW w, Shows(w), NEW k \in w.steady
  PROVE  ShownOnce(w.seen, k) \/ NotShown(w.seen, k)
<1>1. CASE w.stage = "paging"
  <2>1. PICK q : OnTheWay(w, q) BY <1>1 DEF Shows
  <2>2. Due(w, PlanOrder(q.direction), ItemOf(k, q)) /\ ItemOf(k, q).key = k
    BY <2>1 DEF OnTheWay, ItemOf, Item
  <2> QED BY <2>2 DEF Due, Follows
<1>2. CASE w.stage # "paging" BY <1>2 DEF Shows
<1> QED BY <1>1, <1>2

\* An answer leaves the watched plans due, or shown.
LEMMA PageShowsDue ==
  ASSUME TimelineInv, NEW w, IsWalk(w, Plans), NEW q, NEW limit, NEW new,
         NEW n, n = NormalizePlanListQuery(q), new = Page(w, q, limit),
         \A k \in w.steady : ShownOnce(w.seen, k) \/ NotShown(w.seen, k),
         ValidPlanListQuery(n) /\ ~ Mismatched(w.cursor, n) => OnTheWay(w, n)
  PROVE  IsWalk(new, Plans) /\ Shows(new)
<1>1. CASE ~ ValidPlanListQuery(n)
  <2>1. new = [w EXCEPT !.stage = "refused"] BY <1>1 DEF Page
  <2>2. /\ IsWalk(new, Plans) /\ new.steady = w.steady /\ new.seen = w.seen
        /\ new.stage = "refused"
    BY <2>1 DEF IsWalk
  <2> QED BY <2>2 DEF Shows
<1>2. CASE ValidPlanListQuery(n)
  <2>1. PICK R, S : R = PlanOrder(n.direction) /\ S = PlanItems(n) OBVIOUS
  <2>2. S \subseteq Items /\ Listing(ListPlans(n), R, S, Plans)
    BY <1>2, <2>1, PlansOrdered
  <2>3. new = Walked(w, ListPlans(n), n, limit, w.cursor) BY <1>2 DEF Page
  <2>4. IsWalk(new, Plans) /\ Answered(new, w, n, R, S) BY <2>2, <2>3, WalkedOn
  <2>5. ASSUME NEW k \in new.steady, new.stage \in {"ended", "paging"}
        PROVE  /\ k \in Listed(n)
               /\ new.stage = "ended" => ShownOnce(new.seen, k)
               /\ new.stage = "paging" => Due(new, R, ItemOf(k, n))
    <3>1. k \in w.steady /\ ~ Mismatched(w.cursor, n) BY <2>4, <2>5 DEF Answered
    <3>2. k \in Listed(n) /\ Due(w, R, ItemOf(k, n)) BY <1>2, <2>1, <3>1 DEF OnTheWay
    <3>3. ItemOf(k, n) \in S /\ ItemOf(k, n).key = k BY <2>1, <3>2 DEF PlanItems, ItemOf, Item
    <3>4. /\ new.stage = "ended" => ShownOnce(new.seen, ItemOf(k, n).key)
          /\ new.stage = "paging" => Due(new, R, ItemOf(k, n))
      BY <2>4, <3>2, <3>3 DEF Answered
    <3> QED BY <3>2, <3>3, <3>4
  <2>6. CASE new.stage = "paging"
    <3>1. PICK last \in S : new.cursor = <<[query |-> n, last |-> last]>>
      BY <2>4, <2>6 DEF Answered
    <3>2. OnTheWay(new, n) BY <2>1, <2>5, <2>6 DEF OnTheWay
    <3> QED BY <1>2, <2>2, <2>4, <2>6, <3>1, <3>2 DEF Shows
  <2>7. CASE new.stage # "paging"
    <3>1. new.stage \in {"refused", "stale", "ended"} BY <2>4, <2>7 DEF IsWalk, Answered
    <3>2. CASE new.stage = "ended" BY <2>4, <2>5, <3>2 DEF Shows
    <3>3. CASE new.stage \in {"refused", "stale"} BY <2>4, <3>3 DEF Shows, Answered
    <3> QED BY <3>1, <3>2, <3>3
  <2> QED BY <2>6, <2>7
<1> QED BY <1>1, <1>2

\* A walk begins with nothing shown.
LEMMA WalkBegins == QueriesInit => WalkInv
<1> SUFFICES ASSUME QueriesInit PROVE WalkInv OBVIOUS
<1>1. TimelineInv BY TimelineBegins
<1>2. walk = [stage |-> "none", list |-> "none", cursor |-> NoCursor, seen |-> << >>, steady |-> {}]
  BY DEF QueriesInit, NoWalk
<1>3. << >> \in Seq(Plans) OBVIOUS
<1>4. IsWalk(walk, Plans) /\ walk.stage = "none" /\ walk.steady = {} BY <1>2, <1>3 DEF IsWalk
<1> QED BY <1>1, <1>4 DEF WalkInv, Shows

\* What is the same after a step to a watched plan.
LEMMA UnmovedStaysListed ==
  ASSUME NEW k, plans'[k] = plans[k], NEW q
  PROVE  ((k \in Listed(q))' <=> k \in Listed(q)) /\ ItemOf(k, q)' = ItemOf(k, q)
BY DEF Listed, Exists, ItemOf, Item, PlanSortValue

\* A walk whose watched plans have not moved still shows them.
LEMMA UnmovedStaysDue ==
  ASSUME NEW w, Shows(w), NEW new, new.stage = w.stage, new.cursor = w.cursor,
         new.seen = w.seen, new.steady \subseteq w.steady,
         \A k \in new.steady : plans'[k] = plans[k]
  PROVE  Shows(new)'
<1>1. CASE w.stage = "paging"
  <2>1. PICK q : \E last \in Items : /\ ValidPlanListQuery(q) /\ OnTheWay(w, q)
                                     /\ w.cursor = <<[query |-> q, last |-> last]>>
    BY <1>1 DEF Shows
  <2>2. ASSUME NEW k \in new.steady
        PROVE  (k \in Listed(q))' /\ Due(new, PlanOrder(q.direction), ItemOf(k, q)')
    <3>1. k \in Listed(q) /\ Due(w, PlanOrder(q.direction), ItemOf(k, q))
      BY <2>1, <2>2 DEF OnTheWay
    <3>2. (k \in Listed(q))' /\ ItemOf(k, q)' = ItemOf(k, q) BY <2>2, <3>1, UnmovedStaysListed
    <3>3. Due(new, PlanOrder(q.direction), ItemOf(k, q)) BY <3>1 DEF Due
    <3> QED BY <3>2, <3>3
  <2>3. OnTheWay(new, q)' BY <2>2 DEF OnTheWay
  <2> QED BY <1>1, <2>1, <2>3 DEF Shows
<1>2. CASE w.stage # "paging" BY <1>2 DEF Shows
<1> QED BY <1>1, <1>2

\* Every step keeps what the client has been shown.
LEMMA WalkStepped == WalkInv /\ [QueriesNext]_queryVars => WalkInv'
<1> SUFFICES ASSUME WalkInv, [QueriesNext]_queryVars PROVE WalkInv' OBVIOUS
<1>1. TimelineInv /\ TimelineInv' BY TimelineStepped DEF WalkInv
<1>2. CASE Govern
  <2>1. PICK new : new = [walk EXCEPT !.steady = {k \in walk.steady : plans'[k] = plans[k]}]
    OBVIOUS
  <2>2. /\ new.stage = walk.stage /\ new.cursor = walk.cursor /\ new.seen = walk.seen
        /\ new.steady = {k \in walk.steady : plans'[k] = plans[k]}
        /\ IsWalk(new, Plans)
    BY <2>1 DEF WalkInv, IsWalk
  <2>3. Shows(new)' BY <2>2, UnmovedStaysDue DEF WalkInv
  <2>4. walk' = new BY <1>2, <2>1 DEF Govern
  <2> QED BY <1>1, <2>2, <2>3, <2>4 DEF WalkInv, IsWalk, Shows, OnTheWay
<1>3. CASE UNCHANGED <<plans, walk>>
  <2>1. PICK new : new = walk OBVIOUS
  <2>2. Shows(new)' BY <1>3, <2>1, UnmovedStaysDue DEF WalkInv
  <2> QED BY <1>1, <1>3, <2>1, <2>2 DEF WalkInv, IsWalk, Shows, OnTheWay
<1>4. ASSUME NEW q \in Queries, NEW limit \in PageLimits, FirstPage(q, limit) \/ NextPage(q, limit)
      PROVE  WalkInv'
  <2>1. UNCHANGED plans BY <1>4 DEF FirstPage, NextPage, vars
  <2>2. PICK n : n = NormalizePlanListQuery(q) OBVIOUS
  <2>3. PICK w : /\ walk' = Page(w, q, limit)
                 /\ IsWalk(w, Plans)
                 /\ \A k \in w.steady : ShownOnce(w.seen, k) \/ NotShown(w.seen, k)
                 /\ ValidPlanListQuery(n) /\ ~ Mismatched(w.cursor, n) => OnTheWay(w, n)
    <3>1. CASE FirstPage(q, limit)
      <4>1. PICK steady : steady = {k \in Plans : Exists(k) /\ q.status \in {"", Absent, plans[k].status}}
        OBVIOUS
      <4>2. PICK w : w = [NoWalk EXCEPT !.list = "plans", !.steady = steady] OBVIOUS
      <4>3. walk' = Page(w, q, limit) BY <3>1, <4>1, <4>2 DEF FirstPage
      <4>4. w = [stage |-> "none", list |-> "plans", cursor |-> NoCursor, seen |-> << >>, steady |-> steady]
        BY <4>2 DEF NoWalk
      <4>5. /\ << >> \in Seq(Plans)
            /\ steady \subseteq Plans
        <5>1. << >> \in Seq(Plans) OBVIOUS
        <5> QED BY <4>1, <5>1
      <4>6. IsWalk(w, Plans) BY <4>4, <4>5 DEF IsWalk
      <4>7. w.cursor = NoCursor /\ w.steady = steady /\ \A k : NotShown(w.seen, k)
        BY <4>4 DEF NotShown
      <4>8. n.status = IF q.status = "" THEN Absent ELSE q.status
        BY <2>2, QueryAssumption DEF NormalizePlanListQuery
      <4>9. \A k \in Plans : Exists(k) => plans[k].status \in PlanStatuses
        BY <1>1, HistoryLength DEF TimelineInv, IInv, PlanRecord
      <4>10. \A k \in steady : k \in Listed(n)
        BY <4>1, <4>8, <4>9 DEF Listed, Absent, PlanStatuses
      <4>11. OnTheWay(w, n) BY <4>7, <4>10 DEF OnTheWay, Due
      <4> QED BY <4>3, <4>6, <4>7, <4>11
    <3>2. CASE NextPage(q, limit)
      <4>1. walk' = Page(walk, q, limit) /\ walk.stage = "paging" BY <3>2 DEF NextPage
      <4>2. PICK p : \E last \in Items : /\ ValidPlanListQuery(p) /\ OnTheWay(walk, p)
                                         /\ walk.cursor = <<[query |-> p, last |-> last]>>
        BY <4>1 DEF WalkInv, Shows
      <4>3. walk.cursor # NoCursor /\ walk.cursor[1].query = p
        BY <4>2 DEF NoCursor
      <4>4. ~ Mismatched(walk.cursor, n) => p = n BY <4>3 DEF Mismatched
      <4>5. \A k \in walk.steady : ShownOnce(walk.seen, k) \/ NotShown(walk.seen, k)
        BY ShownOrNot DEF WalkInv
      <4> QED BY <4>1, <4>2, <4>4, <4>5 DEF WalkInv
    <3> QED BY <1>4, <3>1, <3>2
  <2>4. PICK new : new = Page(w, q, limit) OBVIOUS
  <2>5. IsWalk(new, Plans) /\ Shows(new) BY <1>1, <2>2, <2>3, <2>4, PageShowsDue
  <2>6. Shows(new)' BY <2>1, <2>5, UnmovedStaysDue
  <2>7. walk' = new BY <2>3, <2>4
  <2> QED BY <1>1, <2>5, <2>6, <2>7 DEF WalkInv, IsWalk, Shows, OnTheWay
<1> QED
  BY <1>2, <1>3, <1>4 DEF QueriesNext, queryVars, vars, ReadTimelineRecord, ListReviewDecisions, Show

\* A client that pages to the end of the list has seen every plan that stayed as it was
\* once, and none twice on the way, whatever was governed between its pages.
THEOREM PlanPagesComplete == QueriesSpec => []PagesComplete
<1>1. WalkInv => PagesComplete
  <2> SUFFICES ASSUME WalkInv, NEW k \in walk.steady
               PROVE  TimesSeen(walk, k) <= 1 /\ (walk.stage = "ended" => TimesSeen(walk, k) = 1)
    BY DEF PagesComplete, ShowsSteadyOnce
  <2>1. DOMAIN walk.seen = 1..Len(walk.seen) BY DEF WalkInv, IsWalk
  <2>2. /\ NotShown(walk.seen, k) => TimesSeen(walk, k) = 0
        /\ ShownOnce(walk.seen, k) => TimesSeen(walk, k) = 1
    BY <2>1, TimesCounted
  <2>3. walk.stage = "ended" => ShownOnce(walk.seen, k) BY DEF WalkInv, Shows
  <2>4. ShownOnce(walk.seen, k) \/ NotShown(walk.seen, k) BY ShownOrNot DEF WalkInv
  <2> QED BY <2>2, <2>3, <2>4
<1> QED BY <1>1, WalkBegins, WalkStepped, PTL DEF QueriesSpec
-----------------------------------------------------------------------------
(* The lists of knowledge and of snapshots.                                  *)

CONSTANTS Projects, Bodies, RiskOfBody, ScopeOfBody, Unbound, Instants, Ids, Versions,
          KnowledgeGrants, MaxRecordRevision, NoRecord, Snapshots, KeyRank, SnapshotRank,
          ListQueries, ListLimits

VARIABLES records, reviews, bodyLog, snapshots, reading

\* The registry, its snapshots and the client that reads their lists.
K == INSTANCE KnowledgeQueries WITH
       Contents <- Bodies, RiskOf <- RiskOfBody, ScopeOf <- ScopeOfBody, Times <- Instants,
       Grants <- KnowledgeGrants, MaxRevision <- MaxRecordRevision, Queries <- ListQueries,
       PageLimits <- ListLimits, decisions <- reviews, contentLog <- bodyLog, walk <- reading

\* What KnowledgeQueries assumes of its constants.
Assumptions ==
  /\ K!ContentAssumption /\ K!TimeAssumption /\ K!VersionAssumption
  /\ K!SnapshotAssumption /\ K!RankAssumption /\ K!QueryAssumption

ListKeys == K!Keys \union K!SnapshotIds

\* The items of the list n asks for.
ListItems(n) ==
  IF n.list = "knowledge"
  THEN {Item(k, K!KnowledgeSortValue(k, n.sortBy)) : k \in {k \in K!Keys : K!MatchesKnowledge(k, n)}}
  ELSE {Item(e.snapshotId, K!SnapshotSortValue(e, n.sortBy)) :
          e \in {e \in snapshots : e.projectId = n.project /\ n.createdBy \in {Absent, e.createdBy}}}

\* By value, and by rank where values are the same.
ByRank(rank, i, j) == i.value < j.value \/ (i.value = j.value /\ rank[i.key] < rank[j.key])

RankOrder(rank, direction) ==
  LET items == [key : DOMAIN rank, value : Nat]
  IN  {p \in items \X items :
         IF direction = "asc" THEN ByRank(rank, p[1], p[2]) ELSE ByRank(rank, p[2], p[1])}

ListOrder(n) == RankOrder(IF n.list = "knowledge" THEN KeyRank ELSE SnapshotRank, n.direction)

\* The records are records, with the event that created each, and finitely many.
RecordsSound ==
  /\ records \in [K!Keys -> K!Record \union {NoRecord}]
  /\ \A k \in K!Keys : K!Exists(k) => records[k] \in K!Record /\ Len(records[k].history) > 0
  /\ IsFiniteSet({k \in K!Keys : K!Exists(k)})

\* The envelopes are of snapshots, one for each, and finitely many.
SnapshotsSound ==
  /\ IsFiniteSet(snapshots)
  /\ \A e \in snapshots :
       e.snapshotId \in K!SnapshotIds /\ e.releaseId \in Nat /\ e.createdAt \in Nat
  /\ \A e, f \in snapshots : e.snapshotId = f.snapshotId => e = f

\* Paging is the same for every list.
LEMMA SamePaging ==
  /\ K!NoWalk = NoWalk /\ K!NoCursor = NoCursor /\ K!Absent = Absent
  /\ \A w, L, q, limit, cursor : K!Walked(w, L, q, limit, cursor) = Walked(w, L, q, limit, cursor)
  /\ \A S, before : K!Sorted(S, before) = Sorted(S, before)
  /\ \A w : K!ShowsSteadyOnce(w) <=> ShowsSteadyOnce(w)
  /\ \A key, value : K!Item(key, value) = Item(key, value)
<1>1. /\ K!NoWalk = NoWalk /\ K!NoCursor = NoCursor /\ K!Absent = Absent
      /\ \A key, value : K!Item(key, value) = Item(key, value)
  BY DEF K!NoWalk, NoWalk, K!NoCursor, NoCursor, K!Absent, Absent, K!Item, Item
<1>2. \A w, L, q, limit, cursor : K!Walked(w, L, q, limit, cursor) = Walked(w, L, q, limit, cursor)
  BY DEF K!Walked, Walked, K!ValidPageLimit, ValidPageLimit, K!PageLimit, PageLimit,
         K!DefaultPageLimit, DefaultPageLimit, K!MaxPageLimit, MaxPageLimit,
         K!Mismatched, Mismatched, K!Stale, Stale, K!Anchored, Anchored,
         K!Paginate, Paginate, K!NoCursor, NoCursor
<1>3. \A S : K!Cardinality(S) = Cardinality(S) BY DEF K!Cardinality, Cardinality
<1>4. \A S, before : K!Sorted(S, before) = Sorted(S, before)
  BY DEF K!Sorted, Sorted, K!Cardinality, Cardinality
<1>5. \A w : K!ShowsSteadyOnce(w) <=> ShowsSteadyOnce(w)
  BY <1>3 DEF K!ShowsSteadyOnce, ShowsSteadyOnce, K!TimesSeen, TimesSeen
<1> QED BY <1>1, <1>2, <1>4, <1>5

\* No two items with different keys have the same place.
LEMMA RankOrders ==
  ASSUME NEW D, NEW rank \in [D -> Nat], \A j, k \in D : rank[j] = rank[k] => j = k,
         NEW S, S \subseteq [key : D, value : Nat], \A i, j \in S : i.key = j.key => i = j,
         NEW direction
  PROVE  Orders(RankOrder(rank, direction), S)
<1>1. PICK R : R = RankOrder(rank, direction) OBVIOUS
<1>2. DOMAIN rank = D OBVIOUS
<1>3. \A i, j \in S : <<i, j>> \in R <=>
        IF direction = "asc" THEN ByRank(rank, i, j) ELSE ByRank(rank, j, i)
  BY <1>1, <1>2 DEF RankOrder
<1>4. \A i \in S : i.value \in Nat /\ rank[i.key] \in Nat /\ i.key \in D OBVIOUS
<1>5. /\ \A i, j, k \in S : ByRank(rank, i, j) /\ ByRank(rank, j, k) => ByRank(rank, i, k)
      /\ \A i \in S : ~ ByRank(rank, i, i)
  BY <1>4 DEF ByRank
<1>6. ASSUME NEW i \in S, NEW j \in S, i # j PROVE ByRank(rank, i, j) \/ ByRank(rank, j, i)
  <2>1. rank[i.key] # rank[j.key] BY <1>4, <1>6
  <2> QED BY <1>4, <2>1 DEF ByRank
<1>7. Orders(R, S) BY <1>3, <1>5, <1>6 DEF Orders
<1> QED BY <1>1, <1>7

\* The code's lists are these items in this order.
LEMMA ListsInOrder ==
  ASSUME Assumptions, RecordsSound, SnapshotsSound,
         NEW n, K!Valid(n), n.list \in {"knowledge", "snapshots"}
  PROVE  Listing(K!Listed(n), ListOrder(n), ListItems(n), ListKeys)
<1> DEFINE S == ListItems(n)
           R == ListOrder(n)
<1>1. CASE n.list = "knowledge"
  <2> DEFINE found == {k \in K!Keys : K!MatchesKnowledge(k, n)}
             item(k) == Item(k, K!KnowledgeSortValue(k, n.sortBy))
             before == {p \in S \X S : K!KnowledgeComparator(p[1], p[2], n.direction)}
  <2>1. S = {item(k) : k \in found} BY <1>1 DEF ListItems
  <2>2. K!ValidKnowledgeListQuery(n) BY <1>1 DEF K!Valid
  <2>3. ASSUME NEW k \in found PROVE item(k) \in [key : K!Keys, value : Nat]
    <3>1. K!Exists(k) BY DEF K!MatchesKnowledge
    <3>2. records[k] \in K!Record /\ Len(records[k].history) > 0 BY <3>1 DEF RecordsSound
    <3>3. /\ records[k].updatedAt \in Nat /\ records[k].history[1].at \in Nat
          /\ records[k].status \in K!Statuses /\ records[k].content \in Bodies
      <4>1. Instants \subseteq Nat BY DEF Assumptions, K!TimeAssumption
      <4>2. records[k].history \in Seq(K!Event) /\ records[k].updatedAt \in Instants
            /\ records[k].status \in K!Statuses /\ records[k].content \in Bodies
        BY <3>2 DEF K!Record
      <4>3. records[k].history[1] \in K!Event BY <3>2, <4>2
      <4>4. records[k].history[1].at \in Instants BY <4>3 DEF K!Event
      <4> QED BY <4>1, <4>2, <4>4
    <3>4. k.version \in Nat BY DEF K!Keys, Assumptions, K!VersionAssumption
    <3>5. K!StatusOrder[records[k].status] \in Nat BY <3>3 DEF K!StatusOrder, K!Statuses
    <3>6. K!RISK_ORDER[RiskOfBody[records[k].content]] \in Nat
      <4>1. RiskOfBody[records[k].content] \in K!RiskLevels
        BY <3>3 DEF Assumptions, K!ContentAssumption
      <4> QED BY <4>1 DEF K!RISK_ORDER, K!RiskLevels
    <3>7. KeyRank[k] \in Nat BY DEF Assumptions, K!RankAssumption
    <3>8. K!KnowledgeSortValue(k, n.sortBy) \in Nat
      BY <2>2, <3>3, <3>4, <3>5, <3>6, <3>7
         DEF K!KnowledgeSortValue, K!ValidKnowledgeListQuery, K!KNOWLEDGE_SORT_FIELDS
    <3> QED BY <3>8 DEF Item
  <2>4. S \subseteq [key : K!Keys, value : Nat] BY <2>1, <2>3
  <2>5. \A i, j \in S : i.key = j.key => i = j BY <2>1 DEF Item
  <2>6. IsFiniteSet(S)
    <3>1. IsFiniteSet(found)
      <4>1. found \subseteq {k \in K!Keys : K!Exists(k)} BY DEF K!MatchesKnowledge
      <4> QED BY <4>1, FS_Subset DEF RecordsSound
    <3>2. PICK f : f = [k \in found |-> item(k)] OBVIOUS
    <3>3. f \in Surjection(found, S) BY <2>1, <3>2 DEF Surjection
    <3> QED BY <3>1, <3>3, FS_Surjection
  <2>7. R = RankOrder(KeyRank, n.direction) BY <1>1 DEF ListOrder
  <2>8. /\ KeyRank \in [K!Keys -> Nat]
        /\ \A j, k \in K!Keys : KeyRank[j] = KeyRank[k] => j = k
    BY DEF Assumptions, K!RankAssumption
  <2>9. K!Listed(n) = Sorted(S, before)
    <3>1. /\ \A key, value : K!Item(key, value) = Item(key, value)
          /\ \A T, B : K!Sorted(T, B) = Sorted(T, B)
      BY SamePaging
    <3>2. {K!Item(k, K!KnowledgeSortValue(k, n.sortBy)) : k \in found} = S BY <2>1, <3>1
    <3> QED BY <1>1, <3>1, <3>2 DEF K!Listed, K!ListKnowledge
  <2> HIDE DEF S, R, found, item
  <2>10. Orders(R, S) BY <2>4, <2>5, <2>7, <2>8, RankOrders
  <2>11. \A i, j \in S : <<i, j>> \in before <=> <<i, j>> \in R
    BY <2>4, <2>7, <2>8 DEF K!KnowledgeComparator, RankOrder, ByRank
  <2>12. Lists(K!Listed(n), R, S) BY <2>6, <2>9, <2>10, <2>11, SortedInOrder
  <2> QED BY <2>4, <2>5, <2>10, <2>12 DEF Listing, ListKeys, S, R
<1>2. CASE n.list = "snapshots"
  <2> DEFINE found == {e \in snapshots : e.projectId = n.project /\ n.createdBy \in {Absent, e.createdBy}}
             item(e) == Item(e.snapshotId, K!SnapshotSortValue(e, n.sortBy))
             before == {p \in S \X S : K!SnapshotComparator(p[1], p[2], n.direction)}
  <2>1. S = {item(e) : e \in found} BY <1>2 DEF ListItems
  <2>2. K!ValidSnapshotListQuery(n) BY <1>2 DEF K!Valid
  <2>3. ASSUME NEW e \in found PROVE item(e) \in [key : K!SnapshotIds, value : Nat]
    <3>1. e.snapshotId \in K!SnapshotIds /\ e.releaseId \in Nat /\ e.createdAt \in Nat
      BY DEF SnapshotsSound
    <3>2. SnapshotRank[e.snapshotId] \in Nat BY <3>1 DEF Assumptions, K!RankAssumption
    <3>3. K!SnapshotSortValue(e, n.sortBy) \in Nat
      BY <2>2, <3>1, <3>2 DEF K!SnapshotSortValue, K!ValidSnapshotListQuery, K!SNAPSHOT_SORT_FIELDS
    <3> QED BY <3>1, <3>3 DEF Item
  <2>4. S \subseteq [key : K!SnapshotIds, value : Nat] BY <2>1, <2>3
  <2>5. \A i, j \in S : i.key = j.key => i = j BY <2>1 DEF Item, SnapshotsSound
  <2>6. IsFiniteSet(S)
    <3>1. IsFiniteSet(found) BY FS_Subset DEF SnapshotsSound
    <3>2. PICK f : f = [e \in found |-> item(e)] OBVIOUS
    <3>3. f \in Surjection(found, S) BY <2>1, <3>2 DEF Surjection
    <3> QED BY <3>1, <3>3, FS_Surjection
  <2>7. R = RankOrder(SnapshotRank, n.direction) BY <1>2 DEF ListOrder
  <2>8. /\ SnapshotRank \in [K!SnapshotIds -> Nat]
        /\ \A j, k \in K!SnapshotIds : SnapshotRank[j] = SnapshotRank[k] => j = k
    BY DEF Assumptions, K!RankAssumption
  <2>9. K!Listed(n) = Sorted(S, before)
    <3>1. /\ \A key, value : K!Item(key, value) = Item(key, value)
          /\ \A T, B : K!Sorted(T, B) = Sorted(T, B)
          /\ K!Absent = Absent
      BY SamePaging
    <3>2. {K!Item(e.snapshotId, K!SnapshotSortValue(e, n.sortBy)) : e \in found} = S BY <2>1, <3>1
    <3> QED BY <1>2, <3>1, <3>2 DEF K!Listed, K!ListSnapshots
  <2> HIDE DEF S, R, found, item
  <2>10. Orders(R, S) BY <2>4, <2>5, <2>7, <2>8, RankOrders
  <2>11. \A i, j \in S : <<i, j>> \in before <=> <<i, j>> \in R
    BY <2>4, <2>7, <2>8 DEF K!SnapshotComparator, RankOrder, ByRank
  <2>12. Lists(K!Listed(n), R, S) BY <2>6, <2>9, <2>10, <2>11, SortedInOrder
  <2> QED BY <2>4, <2>5, <2>10, <2>12 DEF Listing, ListKeys, S, R
<1> QED BY <1>1, <1>2

\* Storing a record keeps the registry sound.
LEMMA PutKeepsSound ==
  ASSUME RecordsSound, NEW k \in K!Keys, NEW rec \in K!Record, Len(rec.history) > 0, K!Put(k, rec)
  PROVE  RecordsSound'
<1>1. records' = [records EXCEPT ![k] = rec] /\ records \in [K!Keys -> K!Record \union {NoRecord}]
  BY DEF K!Put, RecordsSound
<1>2. records' \in [K!Keys -> K!Record \union {NoRecord}] BY <1>1
<1>3. ASSUME NEW j \in K!Keys, K!Exists(j)'
      PROVE  /\ records'[j] \in K!Record /\ Len(records'[j].history) > 0
             /\ j \in {i \in K!Keys : K!Exists(i)} \union {k}
  <2>1. CASE j = k BY <1>1, <2>1
  <2>2. CASE j # k
    <3>1. records'[j] = records[j] BY <1>1, <2>2
    <3> QED BY <1>3, <3>1 DEF K!Exists, RecordsSound
  <2> QED BY <2>1, <2>2
<1>4. IsFiniteSet({j \in K!Keys : K!Exists(j)'})
  <2>1. IsFiniteSet({j \in K!Keys : K!Exists(j)} \union {k}) BY FS_AddElement DEF RecordsSound
  <2> QED BY <1>3, <2>1, FS_Subset
<1> QED BY <1>2, <1>3, <1>4 DEF RecordsSound

\* Every command stores a sound record, or none.
LEMMA RecordsStaySound ==
  ASSUME RecordsSound, K!Next
  PROVE  RecordsSound'
<1>1. PICK p \in Projects, k \in K!Keys, a \in Actors :
        \/ \E c \in Bodies, t \in Instants : K!CreateDraft(p, k, c, a, t)
        \/ \E c \in Bodies, t \in Instants : K!ReplaceDraft(p, k, c, a, t)
        \/ \E t \in Instants : K!Submit(p, k, a, t)
        \/ \E r \in 1..MaxRecordRevision : K!Approve(p, k, a, r)
        \/ \E t \in Instants : K!RequestChanges(p, k, a, t)
        \/ \E t \in Instants : K!Publish(p, k, a, t)
        \/ \E t \in Instants : K!Deprecate(p, k, a, t)
        \/ \E t \in Instants : K!Archive(p, k, a, t)
  BY DEF K!Next
<1>2. ASSUME NEW c \in Bodies, NEW t \in Instants, K!CreateDraft(p, k, c, a, t) PROVE RecordsSound'
  <2>1. PICK rec : rec = K!CreatedRecord(c, a, t) OBVIOUS
  <2>2. rec \in K!Record /\ Len(rec.history) > 0
    BY <2>1 DEF K!CreatedRecord, K!Record, K!Event, K!EventTypes, K!Statuses
  <2>3. K!Put(k, rec) BY <1>2, <2>1 DEF K!CreateDraft
  <2> QED BY <2>2, <2>3, PutKeepsSound
<1>3. ASSUME K!Exists(k), NEW e \in K!Event, NEW status \in K!Statuses, NEW c \in Bodies,
             NEW t \in Instants, NEW rec,
             rec = [revision |-> records[k].revision + 1, status |-> status, content |-> c,
                    updatedAt |-> t, history |-> Append(records[k].history, e)],
             K!Put(k, rec)
      PROVE  RecordsSound'
  <2>1. /\ records[k].history \in Seq(K!Event) /\ records[k].revision \in Nat
        /\ Len(records[k].history) > 0
    BY <1>3 DEF RecordsSound, K!Record
  <2>2. PICK h : h = Append(records[k].history, e) OBVIOUS
  <2>3. h \in Seq(K!Event) /\ Len(h) > 0 BY <2>1, <2>2
  <2>4. rec = [revision |-> records[k].revision + 1, status |-> status, content |-> c,
               updatedAt |-> t, history |-> h]
    BY <1>3, <2>2
  <2>5. records[k].revision + 1 \in Nat \ {0} BY <2>1
  <2>6. rec \in K!Record /\ rec.history = h BY <2>3, <2>4, <2>5 DEF K!Record
  <2> QED BY <1>3, <2>3, <2>6, PutKeepsSound
<1>4. ASSUME NEW c \in Bodies, NEW t \in Instants, K!ReplaceDraft(p, k, c, a, t) PROVE RecordsSound'
  <2>1. PICK rec : rec = K!ReplacedRecord(records[k], c, a, t) OBVIOUS
  <2>2. K!Exists(k) /\ K!Put(k, rec) /\ records[k].status \in K!Statuses
    BY <1>4, <2>1 DEF K!ReplaceDraft, K!Handles, RecordsSound, K!Record
  <2>3. PICK e : e = [type |-> "DRAFT_REPLACED", from |-> "DRAFT", to |-> "DRAFT", actor |-> a, at |-> t]
    OBVIOUS
  <2>4. e \in K!Event BY <2>3 DEF K!Event, K!EventTypes, K!Statuses
  <2>5. rec = [revision |-> records[k].revision + 1, status |-> records[k].status, content |-> c,
               updatedAt |-> t, history |-> Append(records[k].history, e)]
    BY <2>1, <2>3 DEF K!ReplacedRecord
  <2> QED BY <1>3, <2>2, <2>4, <2>5
<1>5. ASSUME K!Exists(k), NEW to, NEW t \in Instants, K!Move(k, to, a, t) PROVE RecordsSound'
  <2>1. PICK rec : rec = K!TransitionedRecord(records[k], to, a, t) OBVIOUS
  <2>2. /\ K!Put(k, rec) /\ records[k].status \in K!Statuses /\ records[k].content \in Bodies
        /\ to \in K!LifecycleTransitions[records[k].status]
    BY <1>5, <2>1 DEF K!Move, K!CanTransition, RecordsSound, K!Record
  <2>3. to \in K!Statuses BY <2>2 DEF K!LifecycleTransitions, K!Statuses
  <2>4. PICK e : e = [type |-> "STATUS_TRANSITIONED", from |-> records[k].status, to |-> to,
                      actor |-> a, at |-> t]
    OBVIOUS
  <2>5. e \in K!Event BY <2>2, <2>3, <2>4 DEF K!Event, K!EventTypes
  <2>6. rec = [revision |-> records[k].revision + 1, status |-> to, content |-> records[k].content,
               updatedAt |-> t, history |-> Append(records[k].history, e)]
    BY <2>1, <2>4 DEF K!TransitionedRecord
  <2> QED BY <1>3, <1>5, <2>2, <2>3, <2>5, <2>6
<1>6. ASSUME NEW t \in Instants,
             \/ K!Submit(p, k, a, t) \/ K!RequestChanges(p, k, a, t) \/ K!Publish(p, k, a, t)
             \/ K!Deprecate(p, k, a, t) \/ K!Archive(p, k, a, t)
      PROVE  RecordsSound'
  <2>1. K!Exists(k) /\ \E to : K!Move(k, to, a, t)
    BY <1>6 DEF K!Submit, K!RequestChanges, K!Publish, K!Deprecate, K!Archive, K!Handles
  <2> QED BY <1>5, <2>1
<1>7. ASSUME NEW r \in 1..MaxRecordRevision, K!Approve(p, k, a, r) PROVE RecordsSound'
  BY <1>7 DEF K!Approve, RecordsSound, K!Exists
<1> QED BY <1>1, <1>2, <1>4, <1>6, <1>7

\* A snapshot is stored once.
LEMMA SnapshotsStaySound ==
  ASSUME Assumptions, SnapshotsSound, K!Persist
  PROVE  SnapshotsSound' /\ snapshots \subseteq snapshots'
<1>1. PICK p \in Projects, s \in Snapshots, a \in Actors, t \in Instants : K!PersistSnapshot(p, s, a, t)
  BY DEF K!Persist
<1>2. PICK e : e = K!CreateSnapshotEnvelope(s, a, t) OBVIOUS
<1>3. K!Stored(e) \subseteq {e} /\ snapshots' = snapshots \union {e}
  BY <1>1, <1>2 DEF K!PersistSnapshot, K!Save
<1>4. e.snapshotId \in K!SnapshotIds /\ e.releaseId \in Nat /\ e.createdAt \in Nat
  <2>1. e.snapshotId = s.snapshotId /\ e.releaseId = s.payload.release /\ e.createdAt = t
    BY <1>2 DEF K!CreateSnapshotEnvelope
  <2>2. s.payload.release \in Nat BY DEF Assumptions, K!SnapshotAssumption
  <2>3. t \in Nat BY DEF Assumptions, K!TimeAssumption
  <2> QED BY <2>1, <2>2, <2>3 DEF K!SnapshotIds
<1>5. \A f \in snapshots : f.snapshotId = e.snapshotId => f = e BY <1>3 DEF K!Stored
<1>6. IsFiniteSet(snapshots') BY <1>3, FS_AddElement DEF SnapshotsSound
<1> QED BY <1>3, <1>4, <1>5, <1>6 DEF SnapshotsSound

\* A walk through the list n asks for stands where the watched entries are due.
ListDue(w, n) ==
  \A key \in w.steady : \E i \in ListItems(n) : i.key = key /\ Due(w, ListOrder(n), i)

\* The client has been shown a watched entry if it comes no later than the last one
\* shown, and where snapshots are listed the last one shown is there to stay.
Displays(w) ==
  IF w.stage = "paging"
  THEN \E n, last :
         /\ K!Valid(n) /\ n.list = w.list /\ w.list \in {"knowledge", "snapshots"}
         /\ w.cursor = <<[query |-> n, last |-> last]>>
         /\ n.list = "snapshots" => last \in ListItems(n)
         /\ ListDue(w, n)
  ELSE /\ w.list = "snapshots" => w.stage # "stale"
       /\ \A key \in w.steady :
            ShownOnce(w.seen, key) \/ (w.stage # "ended" /\ NotShown(w.seen, key))

ReadingInv ==
  /\ RecordsSound /\ SnapshotsSound
  /\ IsWalk(reading, ListKeys)
  /\ Displays(reading)

\* A watched entry is either shown or not.
LEMMA DisplayedOrNot ==
  ASSUME NEW w, Displays(w), NEW key \in w.steady
  PROVE  ShownOnce(w.seen, key) \/ NotShown(w.seen, key)
<1>1. CASE w.stage = "paging"
  <2>1. PICK n : ListDue(w, n) BY <1>1 DEF Displays
  <2>2. PICK i : i.key = key /\ Due(w, ListOrder(n), i) BY <2>1 DEF ListDue
  <2> QED BY <2>2 DEF Due, Follows
<1>2. CASE w.stage # "paging" BY <1>2 DEF Displays
<1> QED BY <1>1, <1>2

\* An answer leaves the watched entries due, or shown.
LEMMA PageDisplays ==
  ASSUME Assumptions, RecordsSound, SnapshotsSound,
         NEW n, K!Valid(n), n.list \in {"knowledge", "snapshots"},
         NEW w, IsWalk(w, ListKeys), w.stage # "stale",
         \A key \in w.steady : ShownOnce(w.seen, key) \/ NotShown(w.seen, key),
         ~ Mismatched(w.cursor, n) =>
           /\ n.list = w.list /\ ListDue(w, n)
           /\ w.list = "snapshots" /\ w.cursor # NoCursor => w.cursor[1].last \in ListItems(n),
         NEW limit, NEW new, new = Walked(w, K!Listed(n), n, limit, w.cursor)
  PROVE  IsWalk(new, ListKeys) /\ Displays(new)
<1>1. PICK R, S, L : R = ListOrder(n) /\ S = ListItems(n) /\ L = K!Listed(n) OBVIOUS
<1>2. Listing(L, R, S, ListKeys) BY <1>1, ListsInOrder
<1>3. IsWalk(new, ListKeys) /\ Answered(new, w, n, R, S) BY <1>1, <1>2, WalkedOn
<1>4. new.list = w.list
  <2>1. w = [stage |-> w.stage, list |-> w.list, cursor |-> w.cursor, seen |-> w.seen, steady |-> w.steady]
    BY DEF IsWalk
  <2>2. \/ new = [w EXCEPT !.stage = "refused"]
        \/ new = [w EXCEPT !.stage = "stale"]
        \/ LET page == Paginate(K!Listed(n), n, PageLimit(limit), w.cursor) IN
           new = [w EXCEPT !.stage = IF page.nextCursor = NoCursor THEN "ended" ELSE "paging",
                           !.cursor = page.nextCursor,
                           !.seen = @ \o [i \in DOMAIN page.items |-> page.items[i].key]]
    BY DEF Walked
  <2> QED BY <2>1, <2>2
<1>5. w.list = "snapshots" => new.stage # "stale"
  <2> SUFFICES ASSUME w.list = "snapshots", new.stage = "stale" PROVE FALSE OBVIOUS
  <2>1. ~ Mismatched(w.cursor, n) /\ w.cursor # NoCursor /\ Anchored(L, w.cursor) = {}
    BY <1>1 DEF Walked, IsWalk, Stale
  <2>2. w.cursor[1].last \in S BY <1>1, <2>1
  <2>3. PICK m \in 1..Len(L) : L[m] = w.cursor[1].last BY <1>2, <2>2 DEF Listing, Lists
  <2>4. m \in DOMAIN L BY <1>2 DEF Listing, Lists
  <2> QED BY <2>1, <2>3, <2>4 DEF Anchored
<1>6. ASSUME NEW key \in new.steady, new.stage \in {"ended", "paging"}
      PROVE  /\ new.stage = "ended" => ShownOnce(new.seen, key)
             /\ new.stage = "paging" => \E i \in S : i.key = key /\ Due(new, R, i)
  <2>1. key \in w.steady /\ ~ Mismatched(w.cursor, n) BY <1>3, <1>6 DEF Answered
  <2>2. PICK i \in S : i.key = key /\ Due(w, R, i) BY <1>1, <2>1 DEF ListDue
  <2>3. /\ new.stage = "ended" => ShownOnce(new.seen, i.key)
        /\ new.stage = "paging" => Due(new, R, i)
    BY <1>3, <2>2 DEF Answered
  <2> QED BY <2>2, <2>3
<1>7. CASE new.stage = "paging"
  <2>1. PICK last \in S : new.cursor = <<[query |-> n, last |-> last]>>
    BY <1>3, <1>7 DEF Answered
  <2>2. ~ Mismatched(w.cursor, n) BY <1>3, <1>7 DEF Answered
  <2>3. ListDue(new, n) BY <1>1, <1>6, <1>7 DEF ListDue
  <2> QED BY <1>1, <1>3, <1>4, <1>7, <2>1, <2>2, <2>3 DEF Displays
<1>8. CASE new.stage # "paging"
  <2>1. new.stage \in {"refused", "stale", "ended"} BY <1>3, <1>8 DEF IsWalk, Answered
  <2>2. CASE new.stage = "ended" BY <1>3, <1>4, <1>6, <2>2 DEF Displays
  <2>3. CASE new.stage \in {"refused", "stale"}
    <3>1. new.seen = w.seen /\ new.steady = w.steady BY <1>3, <2>3 DEF Answered
    <3> QED BY <1>3, <1>4, <1>5, <2>3, <3>1 DEF Displays
  <2> QED BY <2>1, <2>2, <2>3
<1> QED BY <1>3, <1>7, <1>8

\* A walk whose watched entries have not moved still shows them.
LEMMA UnmovedStaysDisplayed ==
  ASSUME NEW w, Displays(w), NEW new, new.stage = w.stage, new.list = w.list,
         new.cursor = w.cursor, new.seen = w.seen, new.steady \subseteq w.steady,
         \A n : n.list = w.list =>
           \A i \in ListItems(n) :
             i.key \in new.steady \/ w.list = "snapshots" => i \in ListItems(n)'
  PROVE  Displays(new)'
<1>1. CASE w.stage = "paging"
  <2>1. PICK n, last :
          /\ K!Valid(n) /\ n.list = w.list /\ w.list \in {"knowledge", "snapshots"}
          /\ w.cursor = <<[query |-> n, last |-> last]>>
          /\ n.list = "snapshots" => last \in ListItems(n)
          /\ ListDue(w, n)
    BY <1>1 DEF Displays
  <2>2. ASSUME NEW key \in new.steady
        PROVE  \E i \in ListItems(n)' : i.key = key /\ Due(new, ListOrder(n), i)
    <3>1. PICK i \in ListItems(n) : i.key = key /\ Due(w, ListOrder(n), i)
      BY <2>1, <2>2 DEF ListDue
    <3>2. i \in ListItems(n)' BY <2>1, <2>2, <3>1
    <3>3. Due(new, ListOrder(n), i) BY <3>1 DEF Due
    <3> QED BY <3>1, <3>2, <3>3
  <2>3. ListDue(new, n)' BY <2>2 DEF ListDue
  <2>4. n.list = "snapshots" => last \in ListItems(n)' BY <2>1
  <2>5. K!Valid(n)' BY <2>1
  <2> QED BY <1>1, <2>1, <2>3, <2>4, <2>5 DEF Displays
<1>2. CASE w.stage # "paging" BY <1>2 DEF Displays
<1> QED BY <1>1, <1>2

\* What has not moved stays listed as it was, and so do snapshots.
LEMMA ItemsStay ==
  ASSUME snapshots \subseteq snapshots', NEW n, NEW i \in ListItems(n),
         n.list = "knowledge" => records'[i.key] = records[i.key]
  PROVE  i \in ListItems(n)'
<1>1. CASE n.list = "knowledge"
  <2>1. PICK k \in K!Keys :
          K!MatchesKnowledge(k, n) /\ i = Item(k, K!KnowledgeSortValue(k, n.sortBy))
    BY <1>1 DEF ListItems
  <2>2. records'[k] = records[k] BY <1>1, <2>1 DEF Item
  <2>3. K!MatchesKnowledge(k, n)' BY <2>1, <2>2 DEF K!MatchesKnowledge, K!Exists
  <2>4. K!KnowledgeSortValue(k, n.sortBy)' = K!KnowledgeSortValue(k, n.sortBy)
    BY <2>2 DEF K!KnowledgeSortValue
  <2> QED BY <1>1, <2>1, <2>3, <2>4 DEF ListItems
<1>2. CASE n.list # "knowledge"
  <2>1. PICK e \in snapshots :
          /\ e.projectId = n.project /\ n.createdBy \in {Absent, e.createdBy}
          /\ i = Item(e.snapshotId, K!SnapshotSortValue(e, n.sortBy))
    BY <1>2 DEF ListItems
  <2> QED BY <1>2, <2>1 DEF ListItems
<1> QED BY <1>1, <1>2

\* The client begins with nothing listed and nothing shown.
LEMMA ReadingBegins == K!QueriesInit => ReadingInv
<1> SUFFICES ASSUME K!QueriesInit PROVE ReadingInv OBVIOUS
<1>1. records = [k \in K!Keys |-> NoRecord] /\ snapshots = {}
  BY DEF K!QueriesInit, K!Init
<1>2. RecordsSound
  <2>1. {k \in K!Keys : K!Exists(k)} = {} BY <1>1 DEF K!Exists
  <2> QED BY <1>1, <2>1, FS_EmptySet DEF RecordsSound
<1>3. SnapshotsSound BY <1>1, FS_EmptySet DEF SnapshotsSound
<1>4. reading = [stage |-> "none", list |-> "none", cursor |-> NoCursor, seen |-> << >>, steady |-> {}]
  BY SamePaging DEF K!QueriesInit, NoWalk
<1>5. << >> \in Seq(ListKeys) OBVIOUS
<1>6. IsWalk(reading, ListKeys) BY <1>4, <1>5 DEF IsWalk
<1>7. reading.stage = "none" /\ reading.list = "none" /\ reading.steady = {} BY <1>4
<1> QED BY <1>2, <1>3, <1>6, <1>7 DEF ReadingInv, Displays

\* A step that leaves what is watched as it is.
LEMMA UnmovedKeeps ==
  ASSUME ReadingInv, RecordsSound', SnapshotsSound', snapshots \subseteq snapshots',
         reading'.stage = reading.stage, reading'.list = reading.list,
         reading'.cursor = reading.cursor, reading'.seen = reading.seen,
         reading'.steady \subseteq reading.steady, IsWalk(reading', ListKeys),
         reading.list = "knowledge" => \A k \in reading'.steady : records'[k] = records[k]
  PROVE  ReadingInv'
<1>1. PICK new : new = reading' OBVIOUS
<1>2. ASSUME NEW n, n.list = reading.list, NEW i \in ListItems(n),
             i.key \in new.steady \/ reading.list = "snapshots"
      PROVE  i \in ListItems(n)'
  BY <1>1, <1>2, ItemsStay
<1>3. Displays(new)' BY <1>1, <1>2, UnmovedStaysDisplayed DEF ReadingInv
<1> QED BY <1>1, <1>3 DEF ReadingInv, IsWalk, Displays, ListDue

\* Every step keeps what the client has been shown.
LEMMA ReadingStepped == Assumptions /\ ReadingInv /\ [K!QueriesNext]_K!queryVars => ReadingInv'
<1> SUFFICES ASSUME Assumptions, ReadingInv, [K!QueriesNext]_K!queryVars PROVE ReadingInv' OBVIOUS
<1>1. ASSUME UNCHANGED <<records, snapshots>> PROVE RecordsSound' /\ SnapshotsSound'
  BY <1>1 DEF ReadingInv, RecordsSound, SnapshotsSound, K!Exists
<1>2. CASE K!Govern
  <2>1. RecordsSound' /\ SnapshotsSound' /\ UNCHANGED snapshots
    BY <1>2, RecordsStaySound DEF K!Govern, ReadingInv, SnapshotsSound
  <2>2. CASE reading.list = "knowledge"
    <3>1. reading' = [reading EXCEPT !.steady = {k \in reading.steady : records'[k] = records[k]}]
      BY <1>2, <2>2 DEF K!Govern
    <3>2. /\ reading'.stage = reading.stage /\ reading'.list = reading.list
          /\ reading'.cursor = reading.cursor /\ reading'.seen = reading.seen
          /\ reading'.steady = {k \in reading.steady : records'[k] = records[k]}
          /\ IsWalk(reading', ListKeys)
      BY <3>1 DEF ReadingInv, IsWalk
    <3> QED BY <2>1, <3>2, UnmovedKeeps
  <2>3. CASE reading.list # "knowledge"
    <3>1. reading' = reading BY <1>2, <2>3 DEF K!Govern
    <3> QED BY <2>1, <2>3, <3>1, UnmovedKeeps DEF ReadingInv
  <2> QED BY <2>2, <2>3
<1>3. CASE K!Persist
  <2>1. SnapshotsSound' /\ snapshots \subseteq snapshots' BY <1>3, SnapshotsStaySound DEF ReadingInv
  <2>2. UNCHANGED <<records, reading>> BY <1>3 DEF K!Persist, K!vars
  <2>3. RecordsSound' BY <2>2 DEF ReadingInv, RecordsSound, K!Exists
  <2> QED BY <2>1, <2>2, <2>3, UnmovedKeeps DEF ReadingInv
<1>4. CASE UNCHANGED K!queryVars
  <2>1. UNCHANGED <<records, snapshots, reading>> BY <1>4 DEF K!queryVars, K!vars
  <2> QED BY <1>1, <2>1, UnmovedKeeps DEF ReadingInv
<1>5. ASSUME NEW q \in ListQueries, NEW limit \in ListLimits, K!FirstPage(q, limit) \/ K!NextPage(q, limit)
      PROVE  ReadingInv'
  <2>1. UNCHANGED <<records, snapshots>> BY <1>5 DEF K!FirstPage, K!NextPage, K!vars
  <2>2. PICK n : n = K!Normalized(q) OBVIOUS
  <2>3. n.list = q.list /\ q.list \in {"knowledge", "snapshots"}
    BY <2>2 DEF Assumptions, K!QueryAssumption, K!Normalized, K!NormalizeKnowledgeListQuery,
                K!NormalizeSnapshotListQuery
  <2>4. CASE ~ K!Valid(n)
    <3>1. \/ reading' = [NoWalk EXCEPT !.stage = "refused"]
          \/ reading' = [reading EXCEPT !.stage = "refused"]
      BY <1>5, <2>2, <2>4, SamePaging DEF K!FirstPage, K!NextPage
    <3>2. PICK new : new = reading' OBVIOUS
    <3>3. CASE new = [NoWalk EXCEPT !.stage = "refused"]
      <4>1. new = [stage |-> "refused", list |-> "none", cursor |-> NoCursor, seen |-> << >>, steady |-> {}]
        BY <3>3 DEF NoWalk
      <4>2. << >> \in Seq(ListKeys) OBVIOUS
      <4>3. IsWalk(new, ListKeys) BY <4>1, <4>2 DEF IsWalk
      <4>4. new.stage = "refused" /\ new.steady = {} BY <4>1
      <4> QED BY <1>1, <2>1, <3>2, <4>3, <4>4 DEF ReadingInv, Displays, IsWalk
    <3>4. CASE new = [reading EXCEPT !.stage = "refused"]
      <4>1. /\ IsWalk(new, ListKeys) /\ new.stage = "refused" /\ new.seen = reading.seen
            /\ new.steady = reading.steady
        BY <3>4 DEF ReadingInv, IsWalk
      <4>2. \A key \in new.steady : ShownOnce(new.seen, key) \/ NotShown(new.seen, key)
        BY <4>1, DisplayedOrNot DEF ReadingInv
      <4> QED BY <1>1, <2>1, <3>2, <4>1, <4>2 DEF ReadingInv, Displays, IsWalk
    <3> QED BY <3>1, <3>2, <3>3, <3>4
  <2>5. CASE K!Valid(n)
    <3>1. PICK L : L = K!Listed(n) OBVIOUS
    <3>2. PICK w :
            /\ reading' = Walked(w, L, n, limit, w.cursor)
            /\ IsWalk(w, ListKeys) /\ w.stage # "stale"
            /\ \A key \in w.steady : ShownOnce(w.seen, key) \/ NotShown(w.seen, key)
            /\ ~ Mismatched(w.cursor, n) =>
                 /\ n.list = w.list /\ ListDue(w, n)
                 /\ w.list = "snapshots" /\ w.cursor # NoCursor => w.cursor[1].last \in ListItems(n)
      <4>1. CASE K!FirstPage(q, limit)
        <5>1. PICK steady : steady = {L[i].key : i \in DOMAIN L} OBVIOUS
        <5>2. PICK w : w = [NoWalk EXCEPT !.list = q.list, !.steady = steady] OBVIOUS
        <5>3. w = [stage |-> "none", list |-> q.list, cursor |-> NoCursor, seen |-> << >>, steady |-> steady]
          BY <5>2 DEF NoWalk
        <5>4. reading' = Walked(w, L, n, limit, NoCursor)
          BY <2>2, <2>5, <3>1, <4>1, <5>1, <5>2, SamePaging DEF K!FirstPage
        <5>5. Listing(L, ListOrder(n), ListItems(n), ListKeys)
          BY <2>3, <2>5, <3>1, ListsInOrder DEF ReadingInv
        <5>6. \A key \in steady : key \in ListKeys /\ \E i \in ListItems(n) : i.key = key
          BY <5>1, <5>5 DEF Listing, Lists
        <5>7. << >> \in Seq(ListKeys) OBVIOUS
        <5>8. IsWalk(w, ListKeys) BY <5>3, <5>6, <5>7 DEF IsWalk
        <5>9. /\ w.cursor = NoCursor /\ w.steady = steady /\ w.list = q.list /\ w.stage = "none"
              /\ \A key : NotShown(w.seen, key)
          BY <5>3 DEF NotShown
        <5>10. ListDue(w, n) BY <5>6, <5>9 DEF ListDue, Due
        <5> QED BY <2>3, <5>4, <5>8, <5>9, <5>10
      <4>2. CASE K!NextPage(q, limit)
        <5>1. reading' = Walked(reading, L, n, limit, reading.cursor) /\ reading.stage = "paging"
          BY <2>2, <2>5, <3>1, <4>2, SamePaging DEF K!NextPage
        <5>2. PICK p, last :
                /\ p.list = reading.list
                /\ reading.cursor = <<[query |-> p, last |-> last]>>
                /\ p.list = "snapshots" => last \in ListItems(p)
                /\ ListDue(reading, p)
          BY <5>1 DEF ReadingInv, Displays
        <5>3. /\ reading.cursor # NoCursor /\ reading.cursor[1].query = p
              /\ reading.cursor[1].last = last
          BY <5>2 DEF NoCursor
        <5>4. ~ Mismatched(reading.cursor, n) => p = n BY <5>3 DEF Mismatched
        <5>5. \A key \in reading.steady : ShownOnce(reading.seen, key) \/ NotShown(reading.seen, key)
          BY DisplayedOrNot DEF ReadingInv
        <5> QED BY <5>1, <5>2, <5>3, <5>4, <5>5 DEF ReadingInv
      <4> QED BY <1>5, <4>1, <4>2
    <3>3. PICK new : new = Walked(w, L, n, limit, w.cursor) OBVIOUS
    <3>4. IsWalk(new, ListKeys) /\ Displays(new)
      BY <2>3, <2>5, <3>1, <3>2, <3>3, PageDisplays DEF ReadingInv
    <3>5. \A m : ListItems(m) \subseteq ListItems(m)' BY <2>1, ItemsStay
    <3>6. Displays(new)' BY <3>4, <3>5, UnmovedStaysDisplayed
    <3>7. reading' = new BY <3>2, <3>3
    <3> QED BY <1>1, <2>1, <3>4, <3>6, <3>7 DEF ReadingInv, IsWalk, Displays, ListDue
  <2> QED BY <2>4, <2>5
<1> QED BY <1>2, <1>3, <1>4, <1>5 DEF K!QueriesNext

\* A client that pages through the knowledge or the snapshots of a project to the end has
\* seen every entry that stayed as it was once, whatever was governed or stored between
\* its pages, and is never told that its cursor into the snapshots is stale.
THEOREM KnowledgePagesComplete ==
  ASSUME Assumptions
  PROVE  K!QueriesSpec => []K!PagesComplete
<1>1. ReadingInv => K!PagesComplete
  <2> SUFFICES ASSUME ReadingInv PROVE K!PagesComplete OBVIOUS
  <2>1. DOMAIN reading.seen = 1..Len(reading.seen) BY DEF ReadingInv, IsWalk
  <2>2. ASSUME NEW key \in reading.steady
        PROVE  TimesSeen(reading, key) <= 1 /\ (reading.stage = "ended" => TimesSeen(reading, key) = 1)
    <3>1. /\ NotShown(reading.seen, key) => TimesSeen(reading, key) = 0
          /\ ShownOnce(reading.seen, key) => TimesSeen(reading, key) = 1
      BY <2>1, TimesCounted
    <3>2. reading.stage = "ended" => ShownOnce(reading.seen, key)
      BY DEF ReadingInv, Displays
    <3>3. ShownOnce(reading.seen, key) \/ NotShown(reading.seen, key)
      BY DisplayedOrNot DEF ReadingInv
    <3> QED BY <3>1, <3>2, <3>3
  <2>3. reading.list = "snapshots" => reading.stage # "stale" BY DEF ReadingInv, Displays
  <2>4. ShowsSteadyOnce(reading) BY <2>2 DEF ShowsSteadyOnce
  <2> QED BY <2>3, <2>4, SamePaging DEF K!PagesComplete
<1>2. ReadingInv /\ [K!QueriesNext]_K!queryVars => ReadingInv' BY ReadingStepped
<1> QED BY <1>1, <1>2, ReadingBegins, PTL DEF K!QueriesSpec
=============================================================================
