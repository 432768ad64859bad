----------------------- MODULE PlanningPostgresProofs -----------------------
(***************************************************************************)
(* Durable planning orchestration implements TestPlanGovernance, for every *)
(* set of sessions, actors, planning inputs, results and grants: however   *)
(* its statements interleave, every commit is one step of the atomic       *)
(* service.  P is that service with its inductive invariant.               *)
(***************************************************************************)
EXTENDS PlanningPostgres, FiniteSetTheorems, TLAPS

P == INSTANCE TestPlanGovernanceProofs

-----------------------------------------------------------------------------
(* The inductive invariant: what a session may rely on at each statement.  *)

Transitions == {"submit", "review", "approve", "freeze"}

\* The statements of the command s runs; only a REQUEST_CHANGES locks the row.
OnPath(s) ==
  LET c == cmd[s] IN
  /\ c.op = "generate" =>
       pc[s] \in {"by_input", "input_history", "insert", "retry", "retry_history", "commit"}
  /\ c.op = "edit" => pc[s] \in {"lock", "commit"}
  /\ pc[s] \in {"by_input", "input_history", "insert", "retry", "retry_history"} =>
       c.op = "generate"
  /\ pc[s] \in {"decision", "foreign_key"} => c.op = "review"
  /\ pc[s] = "evidence" => c.op \in {"approve", "freeze"}
  /\ pc[s] = "lock" /\ c.op = "review" => c.arg = "REQUEST_CHANGES"

\* What was known when the command began still holds: plans stay, and the
\* revision the client last saw was a revision of its plan.
Begun(s) ==
  LET c == cmd[s] IN
  /\ c \in Command
  /\ c.op = "generate" => c.plan = PlanOf[c.arg] /\ c.actor = CreatorOf[c.arg]
  /\ c.op # "generate" => G!Exists(c.plan)
  /\ c.op = "edit" =>
       /\ G!Granted(c.plan, c.actor, "PLAN_EDIT")
       /\ c.expected <= plans[c.plan].revision
  /\ pc[s] = "retry" => G!Exists(c.plan)

\* What was read is out of date only if its revision is.
SeenSound(s) ==
  LET rec == plans[cmd[s].plan] IN
  cmd[s].op \in Transitions /\ pc[s] # "read" =>
    /\ seen[s] \in PlanRecord
    /\ seen[s].revision <= rec.revision
    /\ seen[s].revision = rec.revision => seen[s] = rec

\* What was checked is what the plan was at the revision that was read.
CheckedSound(s) ==
  LET k == cmd[s].plan IN
  cmd[s].op \in Transitions /\ pc[s] \notin {"read", "history"} =>
    /\ Checked(s, seen[s])
    /\ SameBindings(plans[k].content, seen[s].content)
    /\ \A i \in 1..seen[s].revision : plans[k].history[i] = seen[s].history[i]

\* An uncommitted decision is the session's own, and nobody has committed it.
DecisionSound(s) ==
  IF cmd[s].op = "review" /\ pc[s] \in {"foreign_key", "lock", "commit"}
  THEN pending[s] = DecisionOf(s) /\ ~ AlreadyDecided(s)
  ELSE pending[s] = NoDecision

\* The gate an approval passed is still passed, unless the plan has moved on;
\* the decisions a freeze was judged on are still there.
EvidenceSound(s) ==
  pc[s] \in {"lock", "commit"} =>
    /\ /\ cmd[s].op = "approve"
       /\ plans[cmd[s].plan].revision = seen[s].revision
       => GatePassed(seen[s].content, EvidenceFor(s))
    /\ cmd[s].op = "freeze" =>
         \E ds \in SUBSET EvidenceFor(s) :
           GatePassed(seen[s].content, ds) /\ cmd[s].actor \notin Approvers(ds)

\* A new plan is written when there is none, by an author who may.
CreateSound(s) ==
  LET c == cmd[s] IN
  c.op = "generate" /\ pc[s] = "commit" =>
    /\ InsertAllowed(s)
    /\ ~ G!Exists(c.plan)
    /\ nextRec[s] = CreatedPlan(c.arg, c.actor, c.at)

\* Any other is written under its row lock, from the plan that is stored.
WriteSound(s) ==
  LET c == cmd[s]  rec == plans[c.plan] IN
  c.op # "generate" /\ pc[s] = "commit" =>
    IF c.op = "review" /\ c.arg = "APPROVE"
    THEN nextRec[s] = NoPlan
    ELSE /\ rowLock[c.plan] = s
         /\ rec.revision < MaxRevision
         /\ CanWrite(s, rec)
         /\ nextRec[s] = Written(c, rec)

Sound(s) ==
  /\ pc[s] # "commit" => nextRec[s] = NoPlan
  /\ IF pc[s] = "idle"
     THEN pending[s] = NoDecision
     ELSE /\ OnPath(s) /\ Begun(s)
          /\ SeenSound(s) /\ CheckedSound(s)
          /\ DecisionSound(s) /\ EvidenceSound(s)
          /\ CreateSound(s) /\ WriteSound(s)

\* The unique indexes: no two sessions hold the same decision, or a plan of
\* the same input, uncommitted.
Inserting(s) == cmd[s].op = "generate" /\ nextRec[s] # NoPlan

Unique ==
  \A s, u \in Sessions :
    s # u =>
      /\ pending[s] # NoDecision /\ pending[u] # NoDecision
           => ~ SameReview(pending[s], pending[u])
      /\ pc[s] = "commit" /\ pc[u] = "commit" /\ Inserting(s) /\ Inserting(u)
           => cmd[s].plan # cmd[u].plan

\* The bound of the model: no plan has passed it.
Bounded == \A k \in Plans : G!Exists(k) => plans[k].revision <= MaxRevision

Inv ==
  /\ TypeOK
  /\ P!IInv
  /\ Bounded
  /\ \A s \in Sessions : Sound(s)
  /\ Unique

-----------------------------------------------------------------------------
(* The sessions' rules are the rules of the service they implement.        *)

\* The finite sets of P, which has its own instance of FiniteSets, are ours.
LEMMA SameCounts ==
  ASSUME NEW S
  PROVE  /\ P!IsFiniteSet(S) <=> IsFiniteSet(S)
         /\ P!Cardinality(S) = Cardinality(S)
<1>1. P!IsFiniteSet(S) <=> IsFiniteSet(S)
  BY DEF P!IsFiniteSet, IsFiniteSet
<1>2. P!Cardinality(S) = Cardinality(S)
  BY DEF P!Cardinality, Cardinality
<1> QED BY <1>1, <1>2

\* The sets of records, events and decisions P declares are those of G.
LEMMA SameSets ==
  /\ P!PlanRecord = PlanRecord
  /\ P!Verdicts = {"APPROVE", "REQUEST_CHANGES"}
  /\ G!Verdicts = {"APPROVE", "REQUEST_CHANGES"}
  /\ P!Reviewable = {"REVIEWING", "APPROVED"}
  /\ G!Reviewable = {"REVIEWING", "APPROVED"}
  /\ P!Decision = G!Decision
<1>1. P!PlanRecord = PlanRecord
  BY DEF P!PlanRecord, PlanRecord, P!Event, Event, P!EventTypes, EventTypes,
         P!PlanStatuses, PlanStatuses
<1>2. P!Verdicts = {"APPROVE", "REQUEST_CHANGES"} /\ G!Verdicts = {"APPROVE", "REQUEST_CHANGES"}
  BY DEF P!Verdicts, G!Verdicts
<1>3. P!Reviewable = {"REVIEWING", "APPROVED"} /\ G!Reviewable = {"REVIEWING", "APPROVED"}
  BY DEF P!Reviewable, G!Reviewable
<1> QED BY <1>1, <1>2, <1>3 DEF P!Decision, G!Decision

\* The rules of the registry and of the policy are the ones of P.
LEMMA SameRules ==
  /\ \A k, rec : P!ValidPlan(k, rec) <=> ValidPlan(k, rec)
  /\ \A c, d : P!SameBindings(c, d) <=> SameBindings(c, d)
  /\ \A ds : P!Approvers(ds) = Approvers(ds)
  /\ \A c, ds : P!GatePassed(c, ds) <=> GatePassed(c, ds)
<1>1. \A k, rec : P!ValidPlan(k, rec) <=> ValidPlan(k, rec)
  BY DEF P!ValidPlan, ValidPlan, P!ValidStep, ValidStep, P!PlanTransitions, PlanTransitions
<1>2. \A c, d : P!SameBindings(c, d) <=> SameBindings(c, d)
  BY DEF P!SameBindings, SameBindings
<1>3. \A ds : P!Approvals(ds) = Approvals(ds) /\ P!Approvers(ds) = Approvers(ds)
  BY DEF P!Approvals, Approvals, P!Approvers, Approvers
<1>4. \A c, ds : P!GatePassed(c, ds) <=> GatePassed(c, ds)
  <2>1. P!RequiredApprovals = RequiredApprovals
    BY DEF P!RequiredApprovals, RequiredApprovals
  <2> QED BY <1>3, <2>1, SameCounts DEF P!GatePassed, GatePassed
<1> QED BY <1>1, <1>2, <1>3, <1>4

\* The records the commands store are the ones of P.
LEMMA SameRecords ==
  /\ \A c, a, t : P!CreatedPlan(c, a, t) = CreatedPlan(c, a, t)
  /\ \A rec, c, a, t : P!ReplacedPlan(rec, c, a, t) = ReplacedPlan(rec, c, a, t)
  /\ \A rec, to, a, t : P!MovedPlan(rec, to, a, t) = MovedPlan(rec, to, a, t)
  /\ \A c, t : P!CanCreate(c, t) <=> CanCreate(c, t)
  /\ \A rec, e, c, t : P!CanReplace(rec, e, c, t) <=> CanReplace(rec, e, c, t)
  /\ \A rec, e, to, t : P!CanMove(rec, e, to, t) <=> CanMove(rec, e, to, t)
<1>1. /\ \A c, a, t : P!CreatedPlan(c, a, t) = CreatedPlan(c, a, t)
      /\ \A rec, c, a, t : P!ReplacedPlan(rec, c, a, t) = ReplacedPlan(rec, c, a, t)
      /\ \A rec, to, a, t : P!MovedPlan(rec, to, a, t) = MovedPlan(rec, to, a, t)
  BY DEF P!CreatedPlan, CreatedPlan, P!ReplacedPlan, ReplacedPlan, P!MovedPlan, MovedPlan
<1>2. /\ \A c, t : P!CanCreate(c, t) <=> CanCreate(c, t)
      /\ \A rec, e : P!AtRevision(rec, e) <=> AtRevision(rec, e)
      /\ \A rec, t : P!NotBefore(rec, t) <=> NotBefore(rec, t)
  BY DEF P!CanCreate, CanCreate, P!AtRevision, AtRevision, P!NotBefore, NotBefore
<1>3. P!PlanTransitions = PlanTransitions
  BY DEF P!PlanTransitions, PlanTransitions
<1>4. /\ \A rec, e, c, t : P!CanReplace(rec, e, c, t) <=> CanReplace(rec, e, c, t)
      /\ \A rec, e, to, t : P!CanMove(rec, e, to, t) <=> CanMove(rec, e, to, t)
  BY <1>2, <1>3, SameRules DEF P!CanReplace, CanReplace, P!CanMove, CanMove
<1> QED BY <1>1, <1>2, <1>4

\* P and G read the same store.
LEMMA SameStore ==
  /\ G!TypeOK <=> P!TypeOK
  /\ \A k : G!Exists(k) <=> P!Exists(k)
  /\ \A k : G!CreatedBy(k) = P!CreatedBy(k)
  /\ \A k, r : G!DecisionsAt(k, r) = P!DecisionsAt(k, r)
  /\ \A k, a, action : G!Granted(k, a, action) <=> P!Granted(k, a, action)
<1>1. G!TypeOK <=> P!TypeOK
  BY SameSets DEF G!TypeOK, P!TypeOK, P!PlanRecord, G!PlanRecord, P!Event, G!Event,
                  P!EventTypes, G!EventTypes, P!PlanStatuses, G!PlanStatuses
<1> QED BY <1>1 DEF G!Exists, P!Exists, G!CreatedBy, P!CreatedBy, G!DecisionsAt,
                    P!DecisionsAt, G!Granted, P!Granted

\* What P assumes of its constants follows from what this module assumes.
LEMMA Assumptions ==
  /\ P!PlanAssumption /\ P!GrantAssumption /\ P!BoundAssumption
  /\ P!NoPlanAssumption /\ P!FiniteAssumption
<1>1. P!PlanAssumption
  BY PlanAssumption DEF P!PlanAssumption, PlanAssumption, P!RiskLevels, RiskLevels,
                        P!Obligation, Obligation, P!CoverageStatuses, CoverageStatuses
<1>2. P!GrantAssumption
  BY SessionAssumption DEF P!GrantAssumption, SessionAssumption, P!PlanActions, G!PlanActions
<1>3. P!BoundAssumption
  BY StoreAssumption DEF P!BoundAssumption, StoreAssumption
<1>4. P!NoPlanAssumption
  BY StoreAssumption, SameSets DEF P!NoPlanAssumption, StoreAssumption
<1>5. P!FiniteAssumption
  BY StoreAssumption, SameCounts DEF P!FiniteAssumption, StoreAssumption
<1> QED BY <1>1, <1>2, <1>3, <1>4, <1>5

-----------------------------------------------------------------------------
(* What a step does to the sessions that do not take it.                   *)

\* The fields of a command.
LEMMA CommandType ==
  ASSUME NEW c \in Command
  PROVE  /\ c.op \in {"generate", "edit", "review", "submit", "approve", "freeze"}
         /\ c.plan \in Plans /\ c.actor \in Actors /\ c.at \in Times
         /\ c.op \in {"generate", "edit"} => c.arg \in Contents /\ c.expected \in Nat
         /\ c.op = "review" => /\ c.arg \in {"APPROVE", "REQUEST_CHANGES"}
                               /\ c.exempts \in SUBSET Exemptions
  BY SameSets DEF Command

\* A stored plan is a record, and as long as its history.
LEMMA StoredPlan ==
  ASSUME Inv, NEW k \in Plans, G!Exists(k)
  PROVE  /\ plans[k] \in PlanRecord
         /\ ValidPlan(k, plans[k])
         /\ plans[k].content \in Contents
         /\ plans[k].revision \in Nat \ {0}
         /\ Len(plans[k].history) = plans[k].revision
         /\ DOMAIN plans[k].history = 1..plans[k].revision
         /\ plans[k].status = plans[k].history[plans[k].revision].to
<1>1. P!Exists(k) /\ P!TypeOK /\ P!PlansValid
  BY SameStore DEF Inv, P!IInv
<1>2. /\ plans[k] \in P!PlanRecord /\ P!ValidPlan(k, plans[k])
      /\ plans[k].revision \in Nat \ {0}
      /\ Len(plans[k].history) = plans[k].revision
      /\ DOMAIN plans[k].history = 1..plans[k].revision
      /\ plans[k].history[plans[k].revision].to = plans[k].status
  BY <1>1, Assumptions, P!HistoryLength
<1> QED BY <1>2, SameSets, SameRules DEF PlanRecord

\* Grows, for one stored plan.
LEMMA PlanGrows ==
  ASSUME Inv, P!IInv', P!Grows, NEW k \in Plans, G!Exists(k)
  PROVE  /\ plans'[k] # NoPlan
         /\ plans'[k] \in PlanRecord
         /\ plans[k].revision \in Nat /\ plans'[k].revision \in Nat
         /\ plans[k].revision <= plans'[k].revision
         /\ plans[k].revision = plans'[k].revision => plans'[k] = plans[k]
         /\ \A i \in 1..plans[k].revision : plans'[k].history[i] = plans[k].history[i]
         /\ SameBindings(plans'[k].content, plans[k].content)
<1>1. P!Exists(k)
  BY SameStore
<1>2. /\ P!Exists(k)'
      /\ plans[k].revision <= plans'[k].revision
      /\ plans[k].revision = plans'[k].revision => plans'[k] = plans[k]
      /\ \A i \in 1..plans[k].revision : plans'[k].history[i] = plans[k].history[i]
      /\ SameBindings(plans'[k].content, plans[k].content)
  BY <1>1, SameRules DEF P!Grows
<1>3. plans[k].revision \in Nat
  BY StoredPlan
<1>4. plans'[k] \in PlanRecord
  BY <1>2, SameSets DEF P!IInv, P!TypeOK, P!Exists
<1>5. plans'[k].revision \in Nat
  BY <1>4 DEF PlanRecord
<1> QED BY <1>2, <1>3, <1>4, <1>5 DEF P!Exists

\* The gate of the sessions, under decisions that all approve.
LEMMA GatePersists ==
  ASSUME NEW c \in Contents, NEW ds, NEW es, ds \subseteq es, es \subseteq G!Decision,
         \A d \in es \ ds : d.verdict = "APPROVE", GatePassed(c, ds)
  PROVE  GatePassed(c, es)
  BY Assumptions, SameSets, SameRules, P!GatePersists

\* What a session u may count on while another one takes a step: its own work
\* and locks stay, nobody changes the row it has locked or commits a plan of
\* the input it has inserted one for, nobody commits the decision it has
\* inserted, and a decision that is committed approves unless the plan moves on.
Untouched(u) ==
  /\ pc'[u] = pc[u] /\ cmd'[u] = cmd[u] /\ seen'[u] = seen[u]
  /\ nextRec'[u] = nextRec[u] /\ pending'[u] = pending[u]
  /\ \A k \in Plans : rowLock[k] = u =>
       /\ rowLock'[k] = u
       /\ G!Exists(k) => plans'[k] = plans[k]
  /\ pc[u] = "commit" /\ cmd[u].op = "generate" /\ G!Exists(cmd[u].plan)'
       => G!Exists(cmd[u].plan)
  /\ decisions \subseteq decisions'
  /\ \A d \in decisions' \ decisions :
       /\ pending[u] # NoDecision => ~ SameReview(d, pending[u])
       /\ \/ d.verdict = "APPROVE"
          \/ d.revision < plans'[d.plan].revision

\* What a session has read, checked and collected outlives the steps of others:
\* the store only grows, and grows by what P allows.
LEMMA UntouchedStaysSound ==
  ASSUME Inv, TypeOK', P!IInv', P!Grows, NEW u \in Sessions, Untouched(u)
  PROVE  Sound(u)'
<1> DEFINE c == cmd[u]
           k == c.plan
           r == seen[u].revision
<1>1. /\ pc'[u] = pc[u] /\ cmd'[u] = cmd[u] /\ seen'[u] = seen[u]
      /\ nextRec'[u] = nextRec[u] /\ pending'[u] = pending[u]
  BY DEF Untouched
<1>2. CASE pc[u] = "idle"
  BY <1>1, <1>2 DEF Inv, Sound
<1>3. CASE pc[u] # "idle"
  <2>1. /\ OnPath(u) /\ Begun(u) /\ SeenSound(u) /\ CheckedSound(u)
        /\ DecisionSound(u) /\ EvidenceSound(u) /\ CreateSound(u) /\ WriteSound(u)
    BY <1>3 DEF Inv, Sound
  <2>2. c \in Command /\ k \in Plans
    BY <2>1, CommandType DEF Begun
  <2>3. ASSUME G!Exists(k)
        PROVE  /\ plans'[k] # NoPlan
               /\ plans[k].revision \in Nat /\ plans'[k].revision \in Nat
               /\ plans[k].revision <= plans'[k].revision
               /\ plans[k].revision = plans'[k].revision => plans'[k] = plans[k]
               /\ \A i \in 1..plans[k].revision : plans'[k].history[i] = plans[k].history[i]
               /\ SameBindings(plans'[k].content, plans[k].content)
    BY <2>2, <2>3, PlanGrows
  <2>4. OnPath(u)'
    BY <1>1, <2>1 DEF OnPath
  <2>5. Begun(u)'
    <3>1. c.op = "edit" => c.expected \in Nat
      BY <2>2, CommandType
    <3> QED BY <1>1, <2>1, <2>3, <3>1 DEF Begun, G!Granted, G!Exists
  <2>6. ASSUME c.op \in Transitions
        PROVE  G!Exists(k)
    BY <2>1, <2>6 DEF Begun, Transitions
  <2>7. SeenSound(u)'
    <3> SUFFICES ASSUME c.op \in Transitions, pc[u] # "read"
                 PROVE  /\ seen[u] \in PlanRecord
                        /\ r <= plans'[k].revision
                        /\ r = plans'[k].revision => seen[u] = plans'[k]
      BY <1>1 DEF SeenSound
    <3>1. /\ seen[u] \in PlanRecord /\ r <= plans[k].revision
          /\ r = plans[k].revision => seen[u] = plans[k]
      BY <2>1 DEF SeenSound
    <3>2. r \in Nat
      BY <3>1 DEF PlanRecord
    <3> QED BY <2>3, <2>6, <3>1, <3>2
  <2>8. CheckedSound(u)'
    <3> SUFFICES ASSUME c.op \in Transitions, pc[u] \notin {"read", "history"}
                 PROVE  /\ Checked(u, seen[u])'
                        /\ SameBindings(plans'[k].content, seen[u].content)
                        /\ \A i \in 1..r : plans'[k].history[i] = seen[u].history[i]
      BY <1>1 DEF CheckedSound
    <3>1. /\ Checked(u, seen[u])
          /\ SameBindings(plans[k].content, seen[u].content)
          /\ \A i \in 1..r : plans[k].history[i] = seen[u].history[i]
      BY <2>1 DEF CheckedSound
    <3>2. Checked(u, seen[u])'
      BY <1>1, <3>1 DEF Checked, G!Granted
    <3>3. SameBindings(plans'[k].content, seen[u].content)
      BY <2>3, <2>6, <3>1 DEF SameBindings
    <3>4. \A i \in 1..r : plans'[k].history[i] = seen[u].history[i]
      <4>1. r \in Nat /\ r <= plans[k].revision /\ plans[k].revision \in Nat
        BY <2>1, <2>3, <2>6 DEF SeenSound, PlanRecord
      <4>2. \A i \in 1..r : i \in 1..plans[k].revision
        BY <4>1
      <4> QED BY <2>3, <2>6, <3>1, <4>2
    <3> QED BY <3>2, <3>3, <3>4
  <2>9. DecisionSound(u)'
    <3>1. CASE c.op = "review" /\ pc[u] \in {"foreign_key", "lock", "commit"}
      <4>1. pending[u] = DecisionOf(u) /\ ~ AlreadyDecided(u)
        BY <2>1, <3>1 DEF DecisionSound
      <4>2. DecisionOf(u)' = DecisionOf(u)
        BY <1>1 DEF DecisionOf
      <4>3. pending[u] # NoDecision
        <5>1. DecisionOf(u) \in G!Decision
          <6>1. seen[u].revision \in Nat \ {0}
            BY <2>1, <3>1 DEF SeenSound, PlanRecord, Transitions
          <6> QED BY <2>2, <3>1, <6>1, CommandType, SameSets DEF DecisionOf, G!Decision
        <5> QED BY <4>1, <5>1, SessionAssumption DEF SessionAssumption
      <4>4. ~ AlreadyDecided(u)'
        BY <4>1, <4>2, <4>3 DEF AlreadyDecided, Untouched
      <4> QED BY <1>1, <3>1, <4>1, <4>2, <4>4 DEF DecisionSound
    <3>2. CASE ~ (c.op = "review" /\ pc[u] \in {"foreign_key", "lock", "commit"})
      BY <1>1, <2>1, <3>2 DEF DecisionSound
    <3> QED BY <3>1, <3>2
  <2>10. EvidenceSound(u)'
    <3> SUFFICES ASSUME pc[u] \in {"lock", "commit"}
                 PROVE  /\ c.op = "approve" /\ plans'[k].revision = r
                             => GatePassed(seen[u].content, EvidenceFor(u)')
                        /\ c.op = "freeze" =>
                             \E ds \in SUBSET EvidenceFor(u)' :
                               GatePassed(seen[u].content, ds) /\ c.actor \notin Approvers(ds)
      BY <1>1 DEF EvidenceSound
    <3>1. EvidenceFor(u) \subseteq EvidenceFor(u)' /\ EvidenceFor(u)' \subseteq decisions'
      BY <1>1 DEF EvidenceFor, G!DecisionsAt, Untouched
    <3>2. ASSUME c.op = "approve", plans'[k].revision = r
          PROVE  GatePassed(seen[u].content, EvidenceFor(u)')
      <4>1. /\ G!Exists(k) /\ seen[u] \in PlanRecord /\ r <= plans[k].revision
        BY <2>1, <2>6, <3>2 DEF SeenSound, Transitions
      <4>2. r \in Nat /\ seen[u].content \in Contents
        BY <4>1 DEF PlanRecord
      <4>3. plans[k].revision = r
        BY <2>3, <3>2, <4>1, <4>2
      <4>4. GatePassed(seen[u].content, EvidenceFor(u))
        BY <2>1, <3>2, <4>3 DEF EvidenceSound
      <4>5. \A d \in EvidenceFor(u)' \ EvidenceFor(u) : d.verdict = "APPROVE"
        <5> SUFFICES ASSUME NEW d \in decisions' \ decisions, d.plan = k, d.revision = r
                     PROVE  d.verdict = "APPROVE"
          BY <1>1, <3>2 DEF EvidenceFor, G!DecisionsAt
        <5>1. ~ (d.revision < plans'[d.plan].revision)
          BY <3>2, <4>2
        <5> QED BY <5>1 DEF Untouched
      <4>6. EvidenceFor(u)' \subseteq G!Decision
        BY <3>1 DEF TypeOK, G!TypeOK
      <4> QED BY <3>1, <4>2, <4>4, <4>5, <4>6, GatePersists
    <3>3. ASSUME c.op = "freeze"
          PROVE  \E ds \in SUBSET EvidenceFor(u)' :
                   GatePassed(seen[u].content, ds) /\ c.actor \notin Approvers(ds)
      BY <2>1, <3>1, <3>3 DEF EvidenceSound
    <3> QED BY <3>2, <3>3
  <2>11. CreateSound(u)'
    BY <1>1, <2>1 DEF CreateSound, InsertAllowed, G!Granted, Untouched
  <2>12. WriteSound(u)'
    <3> SUFFICES ASSUME c.op # "generate", pc[u] = "commit",
                        ~ (c.op = "review" /\ c.arg = "APPROVE")
                 PROVE  /\ rowLock'[k] = u
                        /\ plans'[k].revision < MaxRevision
                        /\ CanWrite(u, plans[k])'
                        /\ nextRec[u] = Written(c, plans'[k])
      BY <1>1, <2>1 DEF WriteSound
    <3>1. /\ rowLock[k] = u /\ plans[k].revision < MaxRevision
          /\ CanWrite(u, plans[k])
          /\ nextRec[u] = Written(c, plans[k])
      BY <2>1 DEF WriteSound
    <3>2. rowLock'[k] = u /\ plans'[k] = plans[k]
      BY <2>1, <2>2, <3>1 DEF Untouched, Begun
    <3>3. CanWrite(u, plans[k])'
      BY <1>1, <3>1, <3>2 DEF CanWrite
    <3> QED BY <3>1, <3>2, <3>3
  <2> QED BY <1>1, <1>3, <2>4, <2>5, <2>7, <2>8, <2>9, <2>10, <2>11, <2>12 DEF Inv, Sound
<1> QED BY <1>2, <1>3

-----------------------------------------------------------------------------
(* The steps that commit nothing.                                          *)

\* The types of what is not committed.
WorkTypeOK ==
  /\ pc \in [Sessions -> PCs]
  /\ cmd \in [Sessions -> Command \union {NoCommand}]
  /\ seen \in [Sessions -> PlanRecord \union {NoPlan}]
  /\ nextRec \in [Sessions -> PlanRecord \union {NoPlan}]
  /\ pending \in [Sessions -> G!Decision \union {NoDecision}]
  /\ rowLock \in [Plans -> Sessions \union {Nobody}]
  /\ keyShare \in [Plans -> SUBSET Sessions]

\* A step of s leaves the work and the locks of the other sessions alone.
Leaves(s) ==
  \A u \in Sessions \ {s} :
    /\ pc'[u] = pc[u] /\ cmd'[u] = cmd[u] /\ seen'[u] = seen[u]
    /\ nextRec'[u] = nextRec[u] /\ pending'[u] = pending[u]
    /\ \A k \in Plans : rowLock[k] = u => rowLock'[k] = u

\* Every step of the service below keeps its invariant and only adds.
LEMMA StoreStep ==
  ASSUME Inv, [P!Next]_(P!vars)
  PROVE  P!IInv' /\ P!Grows /\ decisions \subseteq decisions' /\ Bounded'
<1>1. P!IInv' /\ P!Grows /\ decisions \subseteq decisions'
  BY Assumptions, P!StepPreserves, P!StepGrows DEF Inv
<1>2. UNCHANGED plans \/ \E k \in Plans : \E rec : P!Put(k, rec)
  <2>1. \A c \in Contents : PlanOf[c] \in Plans
    BY PlanAssumption DEF PlanAssumption
  <2> QED BY <2>1 DEF P!Next, P!vars, P!Create, P!Edit, P!Submit, P!ReviewApprove,
                      P!ReviewRequestChanges, P!Approve, P!Freeze, P!Move
<1>3. ASSUME NEW k \in Plans, NEW rec, P!Put(k, rec)
      PROVE  Bounded'
  <2>1. plans \in [Plans -> PlanRecord \union {NoPlan}]
    BY SameSets DEF Inv, P!IInv, P!TypeOK
  <2> QED BY <1>3, <2>1 DEF Inv, Bounded, G!Exists, P!Put
<1>4. ASSUME UNCHANGED plans
      PROVE  Bounded'
  BY <1>4 DEF Inv, Bounded, G!Exists
<1> QED BY <1>1, <1>2, <1>3, <1>4

\* A step that inserts nothing keeps what is inserted apart.
LEMMA UniqueStays ==
  ASSUME Inv, NEW s \in Sessions, Leaves(s),
         pending'[s] = pending[s] \/ pending'[s] = NoDecision,
         pc'[s] # "commit" \/ cmd'[s].op # "generate"
  PROVE  Unique'
<1> SUFFICES ASSUME NEW u \in Sessions, NEW v \in Sessions, u # v
             PROVE  /\ pending'[u] # NoDecision /\ pending'[v] # NoDecision
                         => ~ SameReview(pending'[u], pending'[v])
                    /\ pc'[u] = "commit" /\ pc'[v] = "commit"
                       /\ Inserting(u)' /\ Inserting(v)'
                         => cmd'[u].plan # cmd'[v].plan
  BY DEF Unique, SameReview
<1>1. pending'[u] # NoDecision /\ pending'[v] # NoDecision
        => ~ SameReview(pending'[u], pending'[v])
  BY DEF Inv, Unique, Leaves
<1>2. ASSUME pc'[u] = "commit", pc'[v] = "commit", Inserting(u)', Inserting(v)'
      PROVE  cmd'[u].plan # cmd'[v].plan
  <2>1. u # s /\ v # s
    BY <1>2 DEF Inserting
  <2>2. /\ pc[u] = "commit" /\ pc[v] = "commit" /\ Inserting(u) /\ Inserting(v)
        /\ cmd'[u] = cmd[u] /\ cmd'[v] = cmd[v]
    BY <1>2, <2>1 DEF Leaves, Inserting
  <2> QED BY <2>2 DEF Inv, Unique
<1> QED BY <1>1, <1>2

\* A step that commits nothing keeps the invariant if it leaves the others alone.
LEMMA QuietPreserves ==
  ASSUME Inv, NEW s \in Sessions, UNCHANGED committed, Leaves(s), WorkTypeOK',
         Sound(s)', Unique'
  PROVE  Inv'
<1>1. UNCHANGED <<plans, decisions>>
  BY DEF committed
<1>2. P!IInv' /\ P!Grows /\ Bounded'
  <2>1. [P!Next]_(P!vars)
    BY <1>1 DEF P!vars
  <2> QED BY <2>1, StoreStep
<1>3. TypeOK'
  <2>1. G!TypeOK'
    BY <1>1 DEF Inv, TypeOK, G!TypeOK
  <2> QED BY <2>1 DEF TypeOK, WorkTypeOK
<1>4. \A u \in Sessions : Sound(u)'
  <2> SUFFICES ASSUME NEW u \in Sessions \ {s} PROVE Sound(u)'
    OBVIOUS
  <2>1. Untouched(u)
    BY <1>1 DEF Leaves, Untouched, G!Exists
  <2> QED BY <1>2, <1>3, <2>1, UntouchedStaysSound
<1> QED BY <1>2, <1>3, <1>4 DEF Inv

\* The end of a transaction drops what it has done and frees only its own locks.
LEMMA ForgetLeaves ==
  ASSUME Inv, NEW s \in Sessions, Forget(s)
  PROVE  /\ seen' \in [Sessions -> PlanRecord \union {NoPlan}]
         /\ nextRec' \in [Sessions -> PlanRecord \union {NoPlan}]
         /\ pending' \in [Sessions -> G!Decision \union {NoDecision}]
         /\ rowLock' \in [Plans -> Sessions \union {Nobody}]
         /\ keyShare' \in [Plans -> SUBSET Sessions]
         /\ nextRec'[s] = NoPlan /\ pending'[s] = NoDecision
         /\ \A u \in Sessions \ {s} :
              /\ seen'[u] = seen[u] /\ nextRec'[u] = nextRec[u] /\ pending'[u] = pending[u]
              /\ \A k \in Plans : rowLock[k] = u => rowLock'[k] = u
<1>1. WorkTypeOK
  BY DEF Inv, TypeOK, WorkTypeOK
<1>2. /\ seen' = [seen EXCEPT ![s] = NoPlan]
      /\ nextRec' = [nextRec EXCEPT ![s] = NoPlan]
      /\ pending' = [pending EXCEPT ![s] = NoDecision]
      /\ rowLock' = [k \in Plans |-> IF rowLock[k] = s THEN Nobody ELSE rowLock[k]]
      /\ keyShare' = [k \in Plans |-> keyShare[k] \ {s}]
  BY DEF Forget
<1>3. /\ seen' \in [Sessions -> PlanRecord \union {NoPlan}]
      /\ nextRec' \in [Sessions -> PlanRecord \union {NoPlan}]
      /\ pending' \in [Sessions -> G!Decision \union {NoDecision}]
  BY <1>1, <1>2 DEF WorkTypeOK
<1>4. /\ rowLock' \in [Plans -> Sessions \union {Nobody}]
      /\ keyShare' \in [Plans -> SUBSET Sessions]
  BY <1>1, <1>2 DEF WorkTypeOK
<1>5. nextRec'[s] = NoPlan /\ pending'[s] = NoDecision
  BY <1>1, <1>2 DEF WorkTypeOK
<1>6. \A u \in Sessions \ {s} :
        /\ seen'[u] = seen[u] /\ nextRec'[u] = nextRec[u] /\ pending'[u] = pending[u]
        /\ \A k \in Plans : rowLock[k] = u => rowLock'[k] = u
  BY <1>1, <1>2 DEF WorkTypeOK
<1> QED BY <1>3, <1>4, <1>5, <1>6

\* The end of a session's work leaves the others alone.
LEMMA FinishLeaves ==
  ASSUME Inv, NEW s \in Sessions, Finish(s)
  PROVE  WorkTypeOK' /\ Leaves(s) /\ Sound(s)' /\ Unique'
<1>1. WorkTypeOK
  BY DEF Inv, TypeOK, WorkTypeOK
<1>2. /\ pc' = [pc EXCEPT ![s] = "idle"]
      /\ cmd' = [cmd EXCEPT ![s] = NoCommand]
      /\ Forget(s)
  BY DEF Finish, Goto
<1>3. pc' \in [Sessions -> PCs] /\ cmd' \in [Sessions -> Command \union {NoCommand}]
  BY <1>1, <1>2 DEF WorkTypeOK, PCs
<1>4. WorkTypeOK'
  BY <1>2, <1>3, ForgetLeaves DEF WorkTypeOK
<1>5. \A u \in Sessions \ {s} : pc'[u] = pc[u] /\ cmd'[u] = cmd[u]
  BY <1>1, <1>2 DEF WorkTypeOK
<1>6. Leaves(s)
  BY <1>2, <1>5, ForgetLeaves DEF Leaves
<1>7. pc'[s] = "idle" /\ nextRec'[s] = NoPlan /\ pending'[s] = NoDecision
  BY <1>1, <1>2, ForgetLeaves DEF WorkTypeOK
<1> QED BY <1>4, <1>6, <1>7, UniqueStays DEF Sound

\* Rollback keeps the invariant.
LEMMA RollbackPreserves ==
  ASSUME Inv, NEW s \in Sessions, Rollback(s)
  PROVE  Inv'
  BY FinishLeaves, QuietPreserves DEF Rollback

\* A command that begins names a plan and, but for a generate, one that exists.
LEMMA BeginPreserves ==
  ASSUME Inv, NEW s \in Sessions, NEW c \in Command,
         c.op = "generate" => c.plan = PlanOf[c.arg] /\ c.actor = CreatorOf[c.arg],
         c.op # "generate" => G!Exists(c.plan),
         c.op = "edit" =>
           /\ G!Granted(c.plan, c.actor, "PLAN_EDIT")
           /\ c.expected <= plans[c.plan].revision,
         NEW label,
         label = CASE c.op = "generate" -> "by_input"
                   [] c.op = "edit" -> "lock"
                   [] OTHER -> "read",
         Begin(s, c, label)
  PROVE  Inv'
<1>1. WorkTypeOK
  BY DEF Inv, TypeOK, WorkTypeOK
<1>2. /\ pc[s] = "idle"
      /\ cmd' = [cmd EXCEPT ![s] = c]
      /\ pc' = [pc EXCEPT ![s] = label]
      /\ UNCHANGED <<plans, decisions, seen, nextRec, pending, rowLock, keyShare>>
  BY DEF Begin, Goto, committed, locks
<1>3. /\ c.op \in {"generate", "edit", "review", "submit", "approve", "freeze"}
      /\ label \in {"by_input", "lock", "read"}
      /\ label = "by_input" <=> c.op = "generate"
      /\ label = "lock" <=> c.op = "edit"
  BY CommandType
<1>4. WorkTypeOK'
  BY <1>1, <1>2, <1>3 DEF WorkTypeOK, PCs
<1>5. Leaves(s)
  BY <1>1, <1>2 DEF Leaves, WorkTypeOK
<1>6. cmd'[s] = c /\ pc'[s] = label
  BY <1>1, <1>2 DEF WorkTypeOK
<1>7. nextRec[s] = NoPlan /\ pending[s] = NoDecision
  BY <1>2 DEF Inv, Sound
<1>8. Sound(s)'
  <2>1. OnPath(s)'
    BY <1>3, <1>6 DEF OnPath
  <2>2. Begun(s)'
    BY <1>2, <1>3, <1>6 DEF Begun, G!Granted, G!Exists
  <2>3. SeenSound(s)' /\ CheckedSound(s)'
    BY <1>3, <1>6 DEF SeenSound, CheckedSound, Transitions
  <2>4. DecisionSound(s)' /\ EvidenceSound(s)'
    BY <1>2, <1>3, <1>6, <1>7 DEF DecisionSound, EvidenceSound
  <2>5. CreateSound(s)' /\ WriteSound(s)'
    BY <1>3, <1>6 DEF CreateSound, WriteSound
  <2> QED BY <1>2, <1>3, <1>6, <1>7, <2>1, <2>2, <2>3, <2>4, <2>5 DEF Sound
<1>9. Unique'
  BY <1>2, <1>3, <1>5, <1>6, UniqueStays
<1> QED BY <1>2, <1>4, <1>5, <1>8, <1>9, QuietPreserves DEF committed

\* Call keeps the invariant.
LEMMA CallPreserves ==
  ASSUME Inv, NEW s \in Sessions, Call(s)
  PROVE  Inv'
<1>1. PICK t \in Times :
        \/ \E x \in Contents : CallGenerate(s, x, t)
        \/ \E k \in Plans, a \in Actors :
             \/ \E x \in Contents : CallEdit(s, k, a, x, t)
             \/ \E v \in G!Verdicts, x \in SUBSET Exemptions : CallReview(s, k, a, v, x, t)
             \/ \E op \in {"submit", "approve", "freeze"} : CallTransition(s, k, a, op, t)
  BY DEF Call
<1>2. ASSUME NEW x \in Contents, CallGenerate(s, x, t)
      PROVE  Inv'
  <2>1. PICK c : c = [op |-> "generate", plan |-> PlanOf[x], actor |-> CreatorOf[x],
                      arg |-> x, expected |-> 0, at |-> t]
    OBVIOUS
  <2>2. c \in Command
    BY <2>1, PlanAssumption DEF Command, PlanAssumption
  <2>3. Begin(s, c, "by_input")
    BY <1>2, <2>1 DEF CallGenerate
  <2> QED BY <2>1, <2>2, <2>3, BeginPreserves
<1>3. ASSUME NEW k \in Plans, NEW a \in Actors, NEW x \in Contents, CallEdit(s, k, a, x, t)
      PROVE  Inv'
  <2>1. PICK c : c = [op |-> "edit", plan |-> k, actor |-> a, arg |-> x,
                      expected |-> plans[k].revision, at |-> t]
    OBVIOUS
  <2>2. G!Exists(k) /\ G!Granted(k, a, "PLAN_EDIT") /\ Begin(s, c, "lock")
    BY <1>3, <2>1 DEF CallEdit
  <2>3. plans[k].revision \in Nat
    BY <2>2, StoredPlan
  <2>4. c \in Command
    BY <2>1, <2>3 DEF Command
  <2> QED BY <2>1, <2>2, <2>3, <2>4, BeginPreserves
<1>4. ASSUME NEW k \in Plans, NEW a \in Actors, NEW v \in G!Verdicts,
             NEW x \in SUBSET Exemptions, CallReview(s, k, a, v, x, t)
      PROVE  Inv'
  <2>1. PICK c : c = [op |-> "review", plan |-> k, actor |-> a, arg |-> v,
                      exempts |-> x, at |-> t]
    OBVIOUS
  <2>2. G!Exists(k) /\ Begin(s, c, "read")
    BY <1>4, <2>1 DEF CallReview
  <2>3. c \in Command
    BY <2>1 DEF Command
  <2> QED BY <2>1, <2>2, <2>3, BeginPreserves
<1>5. ASSUME NEW k \in Plans, NEW a \in Actors, NEW op \in {"submit", "approve", "freeze"},
             CallTransition(s, k, a, op, t)
      PROVE  Inv'
  <2>1. PICK c : c = [op |-> op, plan |-> k, actor |-> a, at |-> t]
    OBVIOUS
  <2>2. G!Exists(k) /\ Begin(s, c, "read")
    BY <1>5, <2>1 DEF CallTransition
  <2>3. c \in Command
    BY <2>1 DEF Command
  <2> QED BY <2>1, <2>2, <2>3, BeginPreserves
<1> QED BY <1>1, <1>2, <1>3, <1>4, <1>5

-----------------------------------------------------------------------------
(* The statements, one by one.                                             *)

\* What holds of a session between two statements.
LEMMA Running ==
  ASSUME Inv, NEW s \in Sessions, pc[s] # "idle"
  PROVE  /\ cmd[s] \in Command /\ cmd[s].plan \in Plans
         /\ OnPath(s) /\ Begun(s) /\ SeenSound(s) /\ CheckedSound(s)
         /\ DecisionSound(s) /\ EvidenceSound(s) /\ CreateSound(s) /\ WriteSound(s)
         /\ pc[s] # "commit" => nextRec[s] = NoPlan
         /\ WorkTypeOK
         /\ cmd[s].op # "generate" => G!Exists(cmd[s].plan)
<1>1. /\ OnPath(s) /\ Begun(s) /\ SeenSound(s) /\ CheckedSound(s)
      /\ DecisionSound(s) /\ EvidenceSound(s) /\ CreateSound(s) /\ WriteSound(s)
      /\ pc[s] # "commit" => nextRec[s] = NoPlan
  BY DEF Inv, Sound
<1>2. cmd[s] \in Command /\ (cmd[s].op # "generate" => G!Exists(cmd[s].plan))
  BY <1>1 DEF Begun
<1> QED BY <1>1, <1>2, CommandType DEF Inv, TypeOK, WorkTypeOK

\* A generate that has written nothing holds no decision and no evidence.
LEMMA GeneratingIsSound ==
  ASSUME Inv, NEW s \in Sessions, cmd[s].op = "generate", cmd'[s] = cmd[s],
         pc'[s] \in {"input_history", "insert", "retry", "retry_history"},
         nextRec'[s] = NoPlan, pending'[s] = NoDecision, Begun(s)'
  PROVE  Sound(s)'
  BY DEF Sound, OnPath, SeenSound, CheckedSound, DecisionSound, EvidenceSound,
         CreateSound, WriteSound, Transitions

\* Find keeps the invariant.
LEMMA FindPreserves ==
  ASSUME Inv, NEW s \in Sessions, FindByInput(s) \/ FindAgain(s)
  PROVE  Inv'
<1>1. PICK c, k : c = cmd[s] /\ k = c.plan
  OBVIOUS
<1>2. CASE Rollback(s)
  BY <1>2, RollbackPreserves
<1>3. CASE ~ Rollback(s)
  <2>1. PICK label \in {"input_history", "insert", "retry_history"} :
          /\ pc[s] \in {"by_input", "retry"}
          /\ label # "insert" => G!Exists(k)
          /\ seen' = [seen EXCEPT ![s] = plans[k]]
          /\ pc' = [pc EXCEPT ![s] = label]
          /\ UNCHANGED <<plans, decisions, cmd, nextRec, pending, rowLock, keyShare>>
    BY <1>1, <1>3 DEF FindByInput, FindAgain, Goto, committed, locks
  <2>2. /\ c \in Command /\ k \in Plans /\ OnPath(s) /\ Begun(s) /\ DecisionSound(s)
        /\ nextRec[s] = NoPlan /\ WorkTypeOK
    BY <1>1, <2>1, Running
  <2>3. c.op = "generate" /\ pending[s] = NoDecision
    BY <1>1, <2>1, <2>2 DEF OnPath, DecisionSound
  <2>4. plans[k] \in PlanRecord \union {NoPlan}
    BY <2>2, StoredPlan DEF G!Exists
  <2>5. WorkTypeOK'
    BY <2>1, <2>2, <2>4 DEF WorkTypeOK, PCs
  <2>6. Leaves(s)
    BY <2>1, <2>2 DEF Leaves, WorkTypeOK
  <2>7. pc'[s] = label
    BY <2>1, <2>2 DEF WorkTypeOK
  <2>8. Begun(s)'
    BY <1>1, <2>1, <2>2, <2>3, <2>7 DEF Begun
  <2>9. Sound(s)'
    BY <1>1, <2>1, <2>2, <2>3, <2>7, <2>8, GeneratingIsSound
  <2>10. Unique'
    BY <2>1, <2>6, <2>7, UniqueStays
  <2> QED BY <2>1, <2>5, <2>6, <2>9, <2>10, QuietPreserves DEF committed
<1> QED BY <1>2, <1>3

\* InsertPlan keeps the invariant.
LEMMA InsertPlanPreserves ==
  ASSUME Inv, NEW s \in Sessions, InsertPlan(s)
  PROVE  Inv'
<1>1. PICK c, k, new : c = cmd[s] /\ k = c.plan /\ new = CreatedPlan(c.arg, c.actor, c.at)
  OBVIOUS
<1>2. /\ pc[s] = "insert"
      /\ InsertAllowed(s) /\ Rivals(s) = {} /\ ~ G!Exists(k)
      /\ nextRec' = [nextRec EXCEPT ![s] = new]
      /\ pc' = [pc EXCEPT ![s] = "commit"]
      /\ UNCHANGED <<plans, decisions, cmd, seen, pending, rowLock, keyShare>>
  BY <1>1 DEF InsertPlan, Goto, committed, locks
<1>3. /\ c \in Command /\ k \in Plans /\ OnPath(s) /\ Begun(s) /\ DecisionSound(s)
      /\ WorkTypeOK
  BY <1>1, <1>2, Running
<1>4. c.op = "generate"
  BY <1>1, <1>2, <1>3 DEF OnPath
<1>5. new \in PlanRecord
  <2>1. P!CanCreate(c.arg, c.at)
    BY <1>1, <1>2, SameRecords DEF InsertAllowed
  <2>2. P!CreatedPlan(c.arg, c.actor, c.at) \in P!PlanRecord
    BY <1>3, <1>4, <2>1, CommandType, Assumptions, P!CreatedIsValid
  <2> QED BY <1>1, <2>2, SameSets, SameRecords
<1>6. WorkTypeOK'
  BY <1>2, <1>3, <1>5 DEF WorkTypeOK, PCs
<1>7. Leaves(s)
  BY <1>2, <1>3 DEF Leaves, WorkTypeOK
<1>8. pc'[s] = "commit" /\ nextRec'[s] = new
  BY <1>2, <1>3 DEF WorkTypeOK
<1>9. Sound(s)'
  <2>1. OnPath(s)' /\ Begun(s)'
    BY <1>1, <1>2, <1>3, <1>4, <1>8 DEF OnPath, Begun
  <2>2. SeenSound(s)' /\ CheckedSound(s)' /\ EvidenceSound(s)' /\ WriteSound(s)'
    BY <1>1, <1>2, <1>4, <1>8 DEF SeenSound, CheckedSound, EvidenceSound, WriteSound,
                                  Transitions
  <2>3. DecisionSound(s)'
    BY <1>1, <1>2, <1>3, <1>4, <1>8 DEF DecisionSound
  <2>4. CreateSound(s)'
    BY <1>1, <1>2, <1>8 DEF CreateSound, InsertAllowed, G!Granted, G!Exists
  <2> QED BY <1>8, <2>1, <2>2, <2>3, <2>4 DEF Sound
<1>10. Unique'
  <2>1. ASSUME NEW u \in Sessions \ {s}, pc[u] = "commit", Inserting(u)
        PROVE  cmd[u].plan # k
    <3>1. cmd[u] # NoCommand
      BY <2>1, Running, SessionAssumption DEF SessionAssumption
    <3> QED BY <1>1, <1>2, <2>1, <3>1 DEF Rivals, Inserting
  <2>2. ASSUME NEW u \in Sessions \ {s}, pc'[u] = "commit", Inserting(u)'
        PROVE  cmd'[u].plan # cmd'[s].plan
    BY <1>1, <1>2, <1>7, <2>1, <2>2 DEF Leaves, Inserting
  <2>3. ASSUME NEW u \in Sessions \ {s}, NEW v \in Sessions \ {s}, u # v,
               pc'[u] = "commit", pc'[v] = "commit", Inserting(u)', Inserting(v)'
        PROVE  cmd'[u].plan # cmd'[v].plan
    <3>1. pc[u] = "commit" /\ pc[v] = "commit" /\ Inserting(u) /\ Inserting(v)
      BY <1>7, <2>3 DEF Leaves, Inserting
    <3> QED BY <1>2, <2>3, <3>1 DEF Inv, Unique
  <2>4. \A u, v \in Sessions :
          u # v /\ pending'[u] # NoDecision /\ pending'[v] # NoDecision
            => ~ SameReview(pending'[u], pending'[v])
    BY <1>2 DEF Inv, Unique
  <2> QED BY <2>2, <2>3, <2>4 DEF Unique, SameReview
<1> QED BY <1>2, <1>6, <1>7, <1>9, <1>10, QuietPreserves DEF committed

\* A refused INSERT keeps the invariant: it has read that the plan exists.
LEMMA InsertDuplicatePreserves ==
  ASSUME Inv, NEW s \in Sessions, InsertDuplicate(s)
  PROVE  Inv'
<1>1. PICK c, k : c = cmd[s] /\ k = c.plan
  OBVIOUS
<1>2. /\ pc[s] = "insert" /\ G!Exists(k)
      /\ pc' = [pc EXCEPT ![s] = "retry"]
      /\ Forget(s)
      /\ UNCHANGED <<plans, decisions, cmd>>
  BY <1>1 DEF InsertDuplicate, Goto, committed
<1>3. /\ c \in Command /\ k \in Plans /\ OnPath(s) /\ Begun(s) /\ WorkTypeOK
  BY <1>1, <1>2, Running
<1>4. c.op = "generate"
  BY <1>1, <1>2, <1>3 DEF OnPath
<1>5. pc' \in [Sessions -> PCs]
  BY <1>2, <1>3 DEF WorkTypeOK, PCs
<1>6. WorkTypeOK'
  BY <1>2, <1>3, <1>5, ForgetLeaves DEF WorkTypeOK
<1>7. pc'[s] = "retry" /\ \A u \in Sessions \ {s} : pc'[u] = pc[u] /\ cmd'[u] = cmd[u]
  BY <1>2, <1>3 DEF WorkTypeOK
<1>8. Leaves(s)
  BY <1>2, <1>7, ForgetLeaves DEF Leaves
<1>9. Begun(s)'
  BY <1>1, <1>2, <1>3, <1>4, <1>7 DEF Begun, G!Exists
<1>10. nextRec'[s] = NoPlan /\ pending'[s] = NoDecision
  BY <1>2, ForgetLeaves
<1>11. Sound(s)'
  BY <1>1, <1>2, <1>4, <1>7, <1>9, <1>10, GeneratingIsSound
<1>12. Unique'
  BY <1>7, <1>8, <1>10, UniqueStays
<1> QED BY <1>2, <1>6, <1>8, <1>11, <1>12, QuietPreserves DEF committed

\* ReadRow keeps the invariant.
LEMMA ReadRowPreserves ==
  ASSUME Inv, NEW s \in Sessions, ReadRow(s)
  PROVE  Inv'
<1>1. PICK c, k : c = cmd[s] /\ k = c.plan
  OBVIOUS
<1>2. /\ pc[s] = "read"
      /\ seen' = [seen EXCEPT ![s] = plans[k]]
      /\ pc' = [pc EXCEPT ![s] = "history"]
      /\ UNCHANGED <<plans, decisions, cmd, nextRec, pending, rowLock, keyShare>>
  BY <1>1 DEF ReadRow, Goto, committed, locks
<1>3. /\ c \in Command /\ k \in Plans /\ OnPath(s) /\ Begun(s) /\ DecisionSound(s)
      /\ nextRec[s] = NoPlan /\ WorkTypeOK
  BY <1>1, <1>2, Running
<1>4. c.op # "generate" /\ c.op # "edit"
  BY <1>1, <1>2, <1>3 DEF OnPath
<1>5. plans[k] \in PlanRecord /\ plans[k].revision \in Nat
  BY <1>1, <1>3, <1>4, StoredPlan DEF Begun
<1>6. WorkTypeOK'
  BY <1>2, <1>3, <1>5 DEF WorkTypeOK, PCs
<1>7. Leaves(s)
  BY <1>2, <1>3 DEF Leaves, WorkTypeOK
<1>8. pc'[s] = "history" /\ seen'[s] = plans[k]
  BY <1>2, <1>3 DEF WorkTypeOK
<1>9. Sound(s)'
  <2>1. OnPath(s)' /\ Begun(s)'
    BY <1>1, <1>2, <1>3, <1>4, <1>8 DEF OnPath, Begun, G!Granted, G!Exists
  <2>2. SeenSound(s)' /\ CheckedSound(s)'
    BY <1>1, <1>2, <1>5, <1>8 DEF SeenSound, CheckedSound
  <2>3. DecisionSound(s)' /\ EvidenceSound(s)'
    BY <1>2, <1>3, <1>8 DEF DecisionSound, EvidenceSound
  <2>4. CreateSound(s)' /\ WriteSound(s)'
    BY <1>1, <1>2, <1>4, <1>8 DEF CreateSound, WriteSound
  <2> QED BY <1>2, <1>3, <1>8, <2>1, <2>2, <2>3, <2>4 DEF Sound
<1>10. Unique'
  BY <1>2, <1>7, <1>8, UniqueStays
<1> QED BY <1>2, <1>6, <1>7, <1>9, <1>10, QuietPreserves DEF committed

\* The row read before and the history read now make a valid plan only if
\* nothing was committed in between: the two snapshots are then one.
LEMMA HydratedIsStored ==
  ASSUME Inv, NEW s \in Sessions, pc[s] = "history",
         ValidPlan(cmd[s].plan, Hydrated(s))
  PROVE  /\ cmd[s].op \in Transitions
         /\ seen[s] = plans[cmd[s].plan]
         /\ Hydrated(s) = plans[cmd[s].plan]
<1>1. PICK k : k = cmd[s].plan
  OBVIOUS
<1>2. cmd[s].op \in Transitions /\ k \in Plans /\ G!Exists(k)
  <2>1. cmd[s] \in Command /\ OnPath(s) /\ Begun(s) /\ k \in Plans
    BY <1>1, Running
  <2> QED BY <1>1, <2>1, CommandType DEF OnPath, Begun, Transitions
<1>3. /\ seen[s] \in PlanRecord
      /\ seen[s].revision = plans[k].revision => seen[s] = plans[k]
  BY <1>1, <1>2, Running DEF SeenSound
<1>4. plans[k] \in PlanRecord /\ Len(plans[k].history) = plans[k].revision
  BY <1>2, StoredPlan
<1>5. Hydrated(s).revision = seen[s].revision /\ Hydrated(s).history = plans[k].history
  BY <1>1, <1>3 DEF Hydrated, PlanRecord
<1>6. seen[s] = plans[k]
  BY <1>1, <1>3, <1>4, <1>5 DEF ValidPlan
<1>7. Hydrated(s) = plans[k]
  BY <1>1, <1>4, <1>6 DEF Hydrated, PlanRecord
<1> QED BY <1>1, <1>2, <1>6, <1>7

\* ReadHistory keeps the invariant.
LEMMA ReadHistoryPreserves ==
  ASSUME Inv, NEW s \in Sessions, ReadHistory(s)
  PROVE  Inv'
<1>1. PICK c, k, label : c = cmd[s] /\ k = c.plan /\ label = AfterChecks(c.op)
  OBVIOUS
<1>2. /\ pc[s] = "history"
      /\ Checked(s, Hydrated(s))
      /\ seen' = [seen EXCEPT ![s] = Hydrated(s)]
      /\ pc' = [pc EXCEPT ![s] = label]
      /\ UNCHANGED <<plans, decisions, cmd, nextRec, pending, rowLock, keyShare>>
  BY <1>1 DEF ReadHistory, Goto, committed, locks
<1>3. /\ c \in Command /\ k \in Plans /\ OnPath(s) /\ Begun(s) /\ DecisionSound(s)
      /\ SeenSound(s) /\ nextRec[s] = NoPlan /\ WorkTypeOK
  BY <1>1, <1>2, Running
<1>4. /\ c.op \in {"submit", "review", "approve", "freeze"}
      /\ seen[s] = plans[k] /\ Hydrated(s) = plans[k]
  BY <1>1, <1>2, HydratedIsStored DEF Checked, Transitions
<1>5. plans[k] \in PlanRecord /\ plans[k].revision \in Nat
  BY <1>1, <1>3, <1>4, StoredPlan DEF Begun
<1>6. /\ label \in {"decision", "evidence", "lock"}
      /\ label = "decision" <=> c.op = "review"
      /\ label = "evidence" <=> c.op \in {"approve", "freeze"}
  BY <1>1, <1>4 DEF AfterChecks
<1>7. WorkTypeOK'
  BY <1>2, <1>3, <1>4, <1>5, <1>6 DEF WorkTypeOK, PCs
<1>8. Leaves(s)
  BY <1>2, <1>3 DEF Leaves, WorkTypeOK
<1>9. pc'[s] = label /\ seen'[s] = plans[k]
  BY <1>2, <1>3, <1>4 DEF WorkTypeOK
<1>10. Sound(s)'
  <2>1. OnPath(s)' /\ Begun(s)'
    BY <1>1, <1>2, <1>3, <1>4, <1>6, <1>9 DEF OnPath, Begun, G!Granted, G!Exists
  <2>2. SeenSound(s)'
    BY <1>1, <1>2, <1>5, <1>9 DEF SeenSound
  <2>3. CheckedSound(s)'
    <3>1. Checked(s, seen[s])'
      BY <1>1, <1>2, <1>4, <1>9 DEF Checked, G!Granted
    <3> QED BY <1>1, <1>2, <1>5, <1>9, <3>1 DEF CheckedSound, SameBindings
  <2>4. DecisionSound(s)' /\ EvidenceSound(s)'
    BY <1>1, <1>2, <1>3, <1>6, <1>9 DEF DecisionSound, EvidenceSound
  <2>5. CreateSound(s)' /\ WriteSound(s)'
    BY <1>1, <1>2, <1>4, <1>6, <1>9 DEF CreateSound, WriteSound
  <2> QED BY <1>2, <1>3, <1>6, <1>9, <2>1, <2>2, <2>3, <2>4, <2>5 DEF Sound
<1>11. Unique'
  BY <1>2, <1>6, <1>8, <1>9, UniqueStays
<1> QED BY <1>2, <1>7, <1>8, <1>10, <1>11, QuietPreserves DEF committed

\* What the session has seen has a revision.
LEMMA SeenPlan ==
  ASSUME Inv, NEW s \in Sessions, pc[s] \notin {"idle", "read"}, cmd[s].op \in Transitions
  PROVE  seen[s] \in PlanRecord /\ seen[s].revision \in Nat \ {0}
  BY Running DEF SeenSound, PlanRecord

\* InsertDecision keeps the invariant.
LEMMA InsertDecisionPreserves ==
  ASSUME Inv, NEW s \in Sessions, InsertDecision(s)
  PROVE  Inv'
<1>1. PICK c, k : c = cmd[s] /\ k = c.plan
  OBVIOUS
<1>2. /\ pc[s] = "decision"
      /\ ~ AlreadyDecided(s) /\ Twins(s) = {}
      /\ pending' = [pending EXCEPT ![s] = DecisionOf(s)]
      /\ pc' = [pc EXCEPT ![s] = "foreign_key"]
      /\ UNCHANGED <<plans, decisions, cmd, seen, nextRec, rowLock, keyShare>>
  BY DEF InsertDecision, Goto, committed, locks
<1>3. /\ c \in Command /\ k \in Plans /\ OnPath(s) /\ Begun(s)
      /\ SeenSound(s) /\ CheckedSound(s) /\ nextRec[s] = NoPlan /\ WorkTypeOK
  BY <1>1, <1>2, Running
<1>4. c.op = "review"
  BY <1>1, <1>2, <1>3 DEF OnPath
<1>5. DecisionOf(s) \in G!Decision
  <2>1. seen[s].revision \in Nat \ {0}
    BY <1>1, <1>2, <1>4, SeenPlan DEF Transitions
  <2> QED BY <1>1, <1>3, <1>4, <2>1, CommandType, SameSets DEF DecisionOf, G!Decision
<1>6. WorkTypeOK'
  BY <1>2, <1>3, <1>5 DEF WorkTypeOK, PCs
<1>7. Leaves(s)
  BY <1>2, <1>3 DEF Leaves, WorkTypeOK
<1>8. pc'[s] = "foreign_key" /\ pending'[s] = DecisionOf(s)
  BY <1>2, <1>3 DEF WorkTypeOK
<1>9. Sound(s)'
  <2>1. OnPath(s)' /\ Begun(s)'
    BY <1>1, <1>2, <1>3, <1>4, <1>8 DEF OnPath, Begun, G!Granted, G!Exists
  <2>2. SeenSound(s)'
    BY <1>1, <1>2, <1>3, <1>8 DEF SeenSound
  <2>3. CheckedSound(s)'
    BY <1>2, <1>3, <1>8 DEF CheckedSound, Checked, G!Granted
  <2>4. DecisionSound(s)'
    <3>1. DecisionOf(s)' = DecisionOf(s) /\ AlreadyDecided(s)' = AlreadyDecided(s)
      BY <1>2 DEF DecisionOf, AlreadyDecided
    <3> QED BY <1>1, <1>2, <1>4, <1>8, <3>1 DEF DecisionSound
  <2>5. EvidenceSound(s)' /\ CreateSound(s)' /\ WriteSound(s)'
    BY <1>1, <1>2, <1>4, <1>8 DEF EvidenceSound, CreateSound, WriteSound
  <2> QED BY <1>2, <1>3, <1>8, <2>1, <2>2, <2>3, <2>4, <2>5 DEF Sound
<1>10. Unique'
  <2>1. \A u \in Sessions \ {s} :
          pending'[u] # NoDecision =>
            ~ SameReview(pending'[u], pending'[s]) /\ ~ SameReview(pending'[s], pending'[u])
    BY <1>2, <1>7, <1>8 DEF Twins, SameReview, Leaves
  <2>2. \A u, v \in Sessions \ {s} :
          u # v /\ pending'[u] # NoDecision /\ pending'[v] # NoDecision
            => ~ SameReview(pending'[u], pending'[v])
    BY <1>7 DEF Inv, Unique, Leaves
  <2>3. \A u, v \in Sessions :
          u # v /\ pc'[u] = "commit" /\ pc'[v] = "commit" /\ Inserting(u)' /\ Inserting(v)'
            => cmd'[u].plan # cmd'[v].plan
    <3> SUFFICES ASSUME NEW u \in Sessions, NEW v \in Sessions, u # v, pc'[u] = "commit",
                        pc'[v] = "commit", Inserting(u)', Inserting(v)'
                 PROVE  cmd'[u].plan # cmd'[v].plan
      OBVIOUS
    <3>1. u # s /\ v # s
      BY <1>8
    <3>2. pc[u] = "commit" /\ pc[v] = "commit" /\ Inserting(u) /\ Inserting(v)
      BY <1>7, <3>1 DEF Leaves, Inserting
    <3> QED BY <1>2, <3>2 DEF Inv, Unique
  <2> QED BY <2>1, <2>2, <2>3 DEF Unique, SameReview
<1> QED BY <1>2, <1>6, <1>7, <1>9, <1>10, QuietPreserves DEF committed

\* ForeignKeyShare keeps the invariant.
LEMMA ForeignKeySharePreserves ==
  ASSUME Inv, NEW s \in Sessions, ForeignKeyShare(s)
  PROVE  Inv'
<1>1. PICK c, k, label :
        c = cmd[s] /\ k = c.plan /\ label = IF c.arg = "APPROVE" THEN "commit" ELSE "lock"
  OBVIOUS
<1>2. /\ pc[s] = "foreign_key"
      /\ keyShare' = [keyShare EXCEPT ![k] = @ \union {s}]
      /\ pc' = [pc EXCEPT ![s] = label]
      /\ UNCHANGED <<plans, decisions, cmd, seen, nextRec, pending, rowLock>>
  BY <1>1 DEF ForeignKeyShare, Goto, committed, work
<1>3. /\ c \in Command /\ k \in Plans /\ OnPath(s) /\ Begun(s)
      /\ SeenSound(s) /\ CheckedSound(s) /\ DecisionSound(s)
      /\ nextRec[s] = NoPlan /\ WorkTypeOK
  BY <1>1, <1>2, Running
<1>4. c.op = "review" /\ c.arg \in {"APPROVE", "REQUEST_CHANGES"}
  BY <1>1, <1>2, <1>3, CommandType DEF OnPath
<1>5. WorkTypeOK'
  BY <1>1, <1>2, <1>3 DEF WorkTypeOK, PCs
<1>6. Leaves(s)
  BY <1>2, <1>3 DEF Leaves, WorkTypeOK
<1>7. pc'[s] = label
  BY <1>2, <1>3 DEF WorkTypeOK
<1>8. Sound(s)'
  <2>1. OnPath(s)' /\ Begun(s)'
    BY <1>1, <1>2, <1>3, <1>4, <1>7 DEF OnPath, Begun, G!Granted, G!Exists
  <2>2. SeenSound(s)'
    BY <1>1, <1>2, <1>3, <1>7 DEF SeenSound
  <2>3. CheckedSound(s)'
    BY <1>1, <1>2, <1>3, <1>7 DEF CheckedSound, Checked, G!Granted
  <2>4. DecisionSound(s)'
    <3>1. DecisionOf(s)' = DecisionOf(s) /\ AlreadyDecided(s)' = AlreadyDecided(s)
      BY <1>2 DEF DecisionOf, AlreadyDecided
    <3> QED BY <1>1, <1>2, <1>3, <1>4, <1>7, <3>1 DEF DecisionSound
  <2>5. EvidenceSound(s)' /\ CreateSound(s)' /\ WriteSound(s)'
    BY <1>1, <1>2, <1>3, <1>4, <1>7 DEF EvidenceSound, CreateSound, WriteSound
  <2> QED BY <1>1, <1>2, <1>3, <1>7, <2>1, <2>2, <2>3, <2>4, <2>5 DEF Sound
<1>9. Unique'
  BY <1>1, <1>2, <1>4, <1>6, UniqueStays
<1> QED BY <1>2, <1>5, <1>6, <1>8, <1>9, QuietPreserves DEF committed

\* CollectEvidence keeps the invariant.
LEMMA CollectEvidencePreserves ==
  ASSUME Inv, NEW s \in Sessions, CollectEvidence(s)
  PROVE  Inv'
<1>1. PICK c, k : c = cmd[s] /\ k = c.plan
  OBVIOUS
<1>2. /\ pc[s] = "evidence"
      /\ GatePassed(seen[s].content, EvidenceFor(s))
      /\ c.op = "freeze" => c.actor \notin Approvers(EvidenceFor(s))
      /\ pc' = [pc EXCEPT ![s] = "lock"]
      /\ UNCHANGED <<plans, decisions, cmd, seen, nextRec, pending, rowLock, keyShare>>
  BY <1>1 DEF CollectEvidence, EvidenceAccepted, Goto, committed, work, locks
<1>3. /\ c \in Command /\ k \in Plans /\ OnPath(s) /\ Begun(s)
      /\ SeenSound(s) /\ CheckedSound(s) /\ DecisionSound(s)
      /\ nextRec[s] = NoPlan /\ WorkTypeOK
  BY <1>1, <1>2, Running
<1>4. c.op \in {"approve", "freeze"}
  BY <1>1, <1>2, <1>3 DEF OnPath
<1>5. WorkTypeOK'
  BY <1>2, <1>3 DEF WorkTypeOK, PCs
<1>6. Leaves(s)
  BY <1>2, <1>3 DEF Leaves, WorkTypeOK
<1>7. pc'[s] = "lock"
  BY <1>2, <1>3 DEF WorkTypeOK
<1>8. Sound(s)'
  <2>1. OnPath(s)' /\ Begun(s)'
    BY <1>1, <1>2, <1>3, <1>4, <1>7 DEF OnPath, Begun, G!Granted, G!Exists
  <2>2. SeenSound(s)'
    BY <1>2, <1>3, <1>7 DEF SeenSound
  <2>3. CheckedSound(s)'
    BY <1>2, <1>3, <1>7 DEF CheckedSound, Checked, G!Granted
  <2>4. DecisionSound(s)'
    BY <1>1, <1>2, <1>3, <1>4, <1>7 DEF DecisionSound
  <2>5. EvidenceSound(s)'
    <3>1. EvidenceFor(s)' = EvidenceFor(s)
      BY <1>2 DEF EvidenceFor, G!DecisionsAt
    <3> QED BY <1>1, <1>2, <3>1 DEF EvidenceSound
  <2>6. CreateSound(s)' /\ WriteSound(s)'
    BY <1>1, <1>2, <1>4, <1>7 DEF CreateSound, WriteSound
  <2> QED BY <1>2, <1>3, <1>7, <2>1, <2>2, <2>3, <2>4, <2>5, <2>6 DEF Sound
<1>9. Unique'
  BY <1>2, <1>6, <1>7, UniqueStays
<1> QED BY <1>2, <1>5, <1>6, <1>8, <1>9, QuietPreserves DEF committed

\* What a command that may write writes is a record.
LEMMA WrittenIsRecord ==
  ASSUME Inv, NEW s \in Sessions, cmd[s] \in Command, cmd[s].op # "generate",
         G!Exists(cmd[s].plan), CanWrite(s, plans[cmd[s].plan])
  PROVE  Written(cmd[s], plans[cmd[s].plan]) \in PlanRecord
<1>1. PICK c, k, rec : c = cmd[s] /\ k = c.plan /\ rec = plans[k]
  OBVIOUS
<1>2. k \in Plans /\ rec \in P!PlanRecord /\ P!ValidPlan(k, rec)
  BY <1>1, CommandType, StoredPlan, SameSets, SameRules
<1>3. c.actor \in Actors /\ c.at \in Times
  BY <1>1, CommandType
<1>4. CASE c.op = "edit"
  <2>1. c.arg \in Contents /\ P!CanReplace(rec, rec.revision, c.arg, c.at)
    BY <1>1, <1>4, CommandType, SameRecords DEF CanWrite, CanReplace, AtRevision
  <2>2. P!ReplacedPlan(rec, c.arg, c.actor, c.at) \in P!PlanRecord
    BY <1>2, <1>3, <2>1, Assumptions, P!ReplacedIsValid
  <2> QED BY <1>1, <1>4, <2>2, SameSets, SameRecords DEF Written
<1>5. CASE c.op # "edit"
  <2>1. P!CanMove(rec, rec.revision, Target(c), c.at)
    BY <1>1, <1>5, SameRecords DEF CanWrite, CanMove, AtRevision
  <2>2. P!MovedPlan(rec, Target(c), c.actor, c.at) \in P!PlanRecord
    BY <1>2, <1>3, <2>1, Assumptions, P!MovedIsValid
  <2> QED BY <1>1, <1>5, <2>2, SameSets, SameRecords DEF Written
<1> QED BY <1>4, <1>5

\* LockAndWrite keeps the invariant.
LEMMA LockAndWritePreserves ==
  ASSUME Inv, NEW s \in Sessions, LockAndWrite(s)
  PROVE  Inv'
<1>1. PICK c, k, new : c = cmd[s] /\ k = c.plan /\ new = Written(c, plans[k])
  OBVIOUS
<1>2. /\ pc[s] = "lock"
      /\ rowLock[k] = Nobody
      /\ plans[k].revision < MaxRevision
      /\ CanWrite(s, plans[k])
      /\ rowLock' = [rowLock EXCEPT ![k] = s]
      /\ nextRec' = [nextRec EXCEPT ![s] = new]
      /\ pc' = [pc EXCEPT ![s] = "commit"]
      /\ UNCHANGED <<plans, decisions, cmd, seen, pending, keyShare>>
  BY <1>1 DEF LockAndWrite, RowFree, Goto, committed
<1>3. /\ c \in Command /\ k \in Plans /\ OnPath(s) /\ Begun(s)
      /\ SeenSound(s) /\ CheckedSound(s) /\ DecisionSound(s) /\ EvidenceSound(s)
      /\ WorkTypeOK
  BY <1>1, <1>2, Running
<1>4. /\ c.op # "generate"
      /\ c.op = "review" => c.arg = "REQUEST_CHANGES"
  BY <1>1, <1>2, <1>3 DEF OnPath
<1>5. new \in PlanRecord
  BY <1>1, <1>2, <1>3, <1>4, WrittenIsRecord DEF Begun
<1>6. WorkTypeOK'
  BY <1>2, <1>3, <1>5 DEF WorkTypeOK, PCs
<1>7. Leaves(s)
  <2>1. Nobody \notin Sessions
    BY SessionAssumption DEF SessionAssumption
  <2> QED BY <1>2, <1>3, <2>1 DEF Leaves, WorkTypeOK
<1>8. pc'[s] = "commit" /\ nextRec'[s] = new /\ rowLock'[k] = s
  BY <1>2, <1>3 DEF WorkTypeOK
<1>9. Sound(s)'
  <2>1. OnPath(s)' /\ Begun(s)'
    BY <1>1, <1>2, <1>3, <1>4, <1>8 DEF OnPath, Begun, G!Granted, G!Exists
  <2>2. SeenSound(s)'
    BY <1>2, <1>3, <1>8 DEF SeenSound
  <2>3. CheckedSound(s)'
    BY <1>2, <1>3, <1>8 DEF CheckedSound, Checked, G!Granted
  <2>4. DecisionSound(s)'
    <3>1. DecisionOf(s)' = DecisionOf(s) /\ AlreadyDecided(s)' = AlreadyDecided(s)
      BY <1>2 DEF DecisionOf, AlreadyDecided
    <3> QED BY <1>2, <1>3, <1>8, <3>1 DEF DecisionSound
  <2>5. EvidenceSound(s)'
    <3>1. EvidenceFor(s)' = EvidenceFor(s)
      BY <1>2 DEF EvidenceFor, G!DecisionsAt
    <3> QED BY <1>2, <1>3, <3>1 DEF EvidenceSound
  <2>6. CreateSound(s)'
    BY <1>1, <1>2, <1>4 DEF CreateSound
  <2>7. WriteSound(s)'
    <3>1. CanWrite(s, plans[k])'
      BY <1>1, <1>2 DEF CanWrite
    <3> QED BY <1>1, <1>2, <1>4, <1>8, <3>1 DEF WriteSound
  <2> QED BY <1>8, <2>1, <2>2, <2>3, <2>4, <2>5, <2>6, <2>7 DEF Sound
<1>10. Unique'
  BY <1>1, <1>2, <1>4, <1>7, UniqueStays
<1> QED BY <1>2, <1>6, <1>7, <1>9, <1>10, QuietPreserves DEF committed

-----------------------------------------------------------------------------
(* COMMIT is one step of the atomic service.                               *)

\* What is committed is the decision the session inserted and the plan it wrote.
LEMMA CommitStores ==
  ASSUME Inv, NEW s \in Sessions, Commit(s)
  PROVE  /\ pc[s] = "commit"
         /\ nextRec[s] = NoPlan => UNCHANGED plans
         /\ nextRec[s] # NoPlan /\ nextRec[s].revision <= MaxRevision
              => P!Put(cmd[s].plan, nextRec[s])
         /\ pending[s] = NoDecision => UNCHANGED decisions
         /\ pending[s] # NoDecision => decisions' = decisions \union {pending[s]}
         /\ Finish(s)
  BY DEF Commit, P!Put

\* A command that writes a stored plan finds it as it read it or, for an edit,
\* at the revision the client saw.
LEMMA CommitWrites ==
  ASSUME Inv, NEW s \in Sessions, Commit(s), cmd[s].op # "generate",
         ~ (cmd[s].op = "review" /\ cmd[s].arg = "APPROVE")
  PROVE  LET c == cmd[s]  k == c.plan  rec == plans[k] IN
         /\ rowLock[k] = s
         /\ rec.revision \in Nat
         /\ nextRec[s] # NoPlan /\ nextRec[s].revision = rec.revision + 1
         /\ c.op = "edit" =>
              /\ P!CanReplace(rec, rec.revision, c.arg, c.at)
              /\ P!Put(k, P!ReplacedPlan(rec, c.arg, c.actor, c.at))
         /\ c.op # "edit" =>
              /\ seen[s] = rec /\ Checked(s, rec)
              /\ P!Move(k, Target(c), c.actor, c.at)
<1>1. PICK c, k, rec : c = cmd[s] /\ k = c.plan /\ rec = plans[k]
  OBVIOUS
<1>2. pc[s] = "commit"
  BY CommitStores
<1>3. /\ c \in Command /\ k \in Plans /\ Begun(s) /\ G!Exists(k)
      /\ SeenSound(s) /\ CheckedSound(s) /\ WriteSound(s)
  BY <1>1, <1>2, Running
<1>4. /\ rowLock[k] = s /\ rec.revision < MaxRevision
      /\ CanWrite(s, rec) /\ nextRec[s] = Written(c, rec)
  BY <1>1, <1>2, <1>3 DEF WriteSound
<1>5. rec \in PlanRecord /\ rec.revision \in Nat
  BY <1>1, <1>3, StoredPlan
<1>6. nextRec[s] # NoPlan /\ nextRec[s].revision = rec.revision + 1
  <2>1. nextRec[s] \in PlanRecord
    BY <1>1, <1>3, <1>4, WrittenIsRecord
  <2>2. nextRec[s] # NoPlan
    BY <2>1, StoreAssumption DEF StoreAssumption
  <2> QED BY <1>4, <2>2 DEF Written, ReplacedPlan, MovedPlan
<1>7. P!Put(k, Written(c, rec))
  <2>1. nextRec[s].revision <= MaxRevision
    BY <1>4, <1>5, <1>6, StoreAssumption DEF StoreAssumption
  <2> QED BY <1>1, <1>4, <1>6, <2>1, CommitStores
<1>8. c.op = "edit" =>
        /\ P!CanReplace(rec, rec.revision, c.arg, c.at)
        /\ P!Put(k, P!ReplacedPlan(rec, c.arg, c.actor, c.at))
  BY <1>1, <1>4, <1>7, SameRecords DEF CanWrite, CanReplace, AtRevision, Written
<1>9. ASSUME c.op # "edit"
      PROVE  /\ seen[s] = rec /\ Checked(s, rec)
             /\ P!Move(k, Target(c), c.actor, c.at)
  <2>1. c.op \in Transitions
    BY <1>1, <1>3, <1>9, CommandType DEF Transitions
  <2>2. rec.revision = seen[s].revision
    BY <1>1, <1>4, <1>9 DEF CanWrite, CanMove, AtRevision
  <2>3. seen[s] = rec /\ Checked(s, rec)
    BY <1>1, <1>2, <1>3, <2>1, <2>2 DEF SeenSound, CheckedSound
  <2>4. P!CanMove(rec, rec.revision, Target(c), c.at)
    BY <1>1, <1>4, <1>9, <2>2, SameRecords DEF CanWrite
  <2>5. P!Put(k, P!MovedPlan(rec, Target(c), c.actor, c.at))
    BY <1>7, <1>9, SameRecords DEF Written
  <2> QED BY <1>1, <2>3, <2>4, <2>5 DEF P!Move
<1> QED BY <1>1, <1>4, <1>5, <1>6, <1>8, <1>9

\* A commit is one step of the atomic service: what was read earlier in the
\* transaction is still enough to allow the command at the moment it commits.
LEMMA CommitImplements ==
  ASSUME Inv, NEW s \in Sessions, Commit(s)
  PROVE  P!Next
<1>1. PICK c, k, a, t : c = cmd[s] /\ k = c.plan /\ a = c.actor /\ t = c.at
  OBVIOUS
<1>2. pc[s] = "commit"
  BY CommitStores
<1>3. /\ c \in Command /\ OnPath(s) /\ Begun(s)
      /\ SeenSound(s) /\ CheckedSound(s) /\ DecisionSound(s) /\ EvidenceSound(s)
      /\ CreateSound(s) /\ WriteSound(s)
  BY <1>1, <1>2, Running
<1>4. /\ k \in Plans /\ a \in Actors /\ t \in Times
      /\ c.op \in {"generate", "edit", "review", "submit", "approve", "freeze"}
      /\ c.op \in {"generate", "edit"} => c.arg \in Contents
      /\ c.op = "review" => /\ c.arg \in {"APPROVE", "REQUEST_CHANGES"}
                            /\ c.exempts \in SUBSET Exemptions
  BY <1>1, <1>3, CommandType
<1>5. c.op # "review" => pending[s] = NoDecision /\ UNCHANGED decisions
  BY <1>1, <1>3, CommitStores DEF DecisionSound
<1>6. c.op # "generate" => P!Exists(k)
  BY <1>1, <1>3, SameStore DEF Begun
<1>7. CASE c.op = "generate"
  <2>1. /\ P!Granted(k, a, "PLAN_GENERATE") /\ P!CanCreate(c.arg, t) /\ ~ P!Exists(k)
        /\ nextRec[s] = P!CreatedPlan(c.arg, a, t) /\ k = PlanOf[c.arg]
    BY <1>1, <1>2, <1>3, <1>7, SameStore, SameRecords DEF CreateSound, InsertAllowed, Begun
  <2>2. nextRec[s].revision <= MaxRevision
    BY <2>1, StoreAssumption DEF P!CreatedPlan, StoreAssumption
  <2>3. nextRec[s] # NoPlan
    <3>1. nextRec[s] \in P!PlanRecord
      BY <1>4, <1>7, <2>1, Assumptions, P!CreatedIsValid
    <3> QED BY <3>1, SameSets, StoreAssumption DEF StoreAssumption
  <2>4. P!Put(k, P!CreatedPlan(c.arg, a, t))
    BY <1>1, <2>1, <2>2, <2>3, CommitStores
  <2>5. P!Create(c.arg, a, t)
    BY <1>5, <1>7, <2>1, <2>4 DEF P!Create
  <2> QED BY <1>4, <1>7, <2>5 DEF P!Next
<1>8. CASE c.op = "edit"
  <2>1. /\ P!CanReplace(plans[k], plans[k].revision, c.arg, t)
        /\ P!Put(k, P!ReplacedPlan(plans[k], c.arg, a, t))
    BY <1>1, <1>8, CommitWrites
  <2>2. P!Granted(k, a, "PLAN_EDIT")
    BY <1>1, <1>3, <1>8, SameStore DEF Begun
  <2>3. P!Edit(k, c.arg, a, t)
    BY <1>5, <1>6, <1>8, <2>1, <2>2 DEF P!Edit
  <2> QED BY <1>4, <1>8, <2>3 DEF P!Next
\* A transition found the plan as it had checked it.
<1>9. ASSUME c.op \in Transitions, ~ (c.op = "review" /\ c.arg = "APPROVE")
      PROVE  /\ seen[s] = plans[k] /\ plans[k].revision \in Nat
             /\ P!Granted(k, a, ActionOf[c.op])
             /\ P!Move(k, Target(c), a, t)
             /\ c.op = "submit" => a = P!CreatedBy(k)
             /\ c.op = "review" => plans[k].status \in P!Reviewable
             /\ c.op = "approve" => plans[k].status = "REVIEWING"
             /\ c.op = "freeze" => plans[k].status = "APPROVED"
             /\ c.op \in {"review", "approve"} => a # P!CreatedBy(k)
  <2>1. c.op # "generate" /\ c.op # "edit"
    BY <1>9 DEF Transitions
  <2>2. /\ seen[s] = plans[k] /\ plans[k].revision \in Nat /\ Checked(s, plans[k])
        /\ P!Move(k, Target(c), a, t)
    BY <1>1, <1>9, <2>1, CommitWrites
  <2> QED BY <1>1, <2>2, SameStore, SameSets DEF Checked, P!CreatedBy
<1>10. CASE c.op = "submit"
  <2>1. P!Submit(k, a, t)
    BY <1>5, <1>6, <1>9, <1>10 DEF P!Submit, ActionOf, Target, Transitions
  <2> QED BY <1>4, <2>1 DEF P!Next
<1>11. CASE c.op = "approve"
  <2>1. seen[s] = plans[k]
    BY <1>9, <1>11 DEF Transitions
  <2>2. P!GatePassed(plans[k].content, P!DecisionsAt(k, plans[k].revision))
    BY <1>1, <1>2, <1>3, <1>11, <2>1, SameRules, SameStore DEF EvidenceSound, EvidenceFor
  <2>3. P!Approve(k, a, t)
    BY <1>5, <1>6, <1>9, <1>11, <2>2 DEF P!Approve, ActionOf, Target, Transitions
  <2> QED BY <1>4, <2>3 DEF P!Next
<1>12. CASE c.op = "freeze"
  <2>1. seen[s] = plans[k]
    BY <1>9, <1>12 DEF Transitions
  <2>2. PICK ds \in SUBSET EvidenceFor(s) :
          P!GatePassed(plans[k].content, ds) /\ a \notin P!Approvers(ds)
    BY <1>1, <1>2, <1>3, <1>12, <2>1, SameRules DEF EvidenceSound
  <2>3. ds \subseteq P!DecisionsAt(k, plans[k].revision - 1)
    BY <1>1, <1>12, <2>1, SameStore DEF EvidenceFor
  <2>4. ds \in SUBSET decisions
    BY <2>3 DEF P!DecisionsAt
  <2>5. P!Freeze(k, a, t, ds)
    BY <1>5, <1>6, <1>9, <1>12, <2>2, <2>3 DEF P!Freeze, ActionOf, Target, Transitions
  <2> QED BY <1>4, <2>4, <2>5 DEF P!Next
<1>13. CASE c.op = "review"
  <2> DEFINE r == seen[s].revision
  <2>1. /\ pending[s] = DecisionOf(s) /\ ~ AlreadyDecided(s)
        /\ DecisionOf(s) = [plan |-> k, revision |-> r, verdict |-> c.arg,
                            reviewer |-> a, exempts |-> c.exempts]
    BY <1>1, <1>2, <1>3, <1>13 DEF DecisionSound, DecisionOf
  <2>2. seen[s] \in PlanRecord /\ r \in Nat \ {0} /\ r <= plans[k].revision
    BY <1>1, <1>2, <1>3, <1>13 DEF SeenSound, PlanRecord, Transitions
  <2>3. pending[s] # NoDecision
    <3>1. DecisionOf(s) \in G!Decision
      BY <1>4, <1>13, <2>1, <2>2, SameSets DEF G!Decision
    <3> QED BY <2>1, <3>1, SessionAssumption DEF SessionAssumption
  <2>4. P!Undecided(k, r, a)
    BY <2>1 DEF P!Undecided, P!DecisionsAt, AlreadyDecided, SameReview
  <2>5. P!Decide(k, r, c.arg, a, c.exempts)
    BY <2>1, <2>3, CommitStores DEF P!Decide
  <2>6. CASE c.arg = "APPROVE"
    <3>1. UNCHANGED plans
      BY <1>1, <1>2, <1>3, <1>13, <2>6, CommitStores DEF WriteSound
    <3>2. /\ plans[k].revision \in Nat /\ DOMAIN plans[k].history = 1..plans[k].revision
          /\ plans[k].revision <= MaxRevision
      <4>1. /\ plans[k].revision \in Nat /\ DOMAIN plans[k].history = 1..plans[k].revision
        BY <1>4, <1>6, <1>13, SameStore, StoredPlan
      <4>2. plans[k].revision <= MaxRevision
        BY <1>4, <1>6, <1>13, SameStore DEF Inv, Bounded
      <4> QED BY <4>1, <4>2
    <3>3. r \in DOMAIN plans[k].history /\ r \in 1..MaxRevision
      BY <2>2, <3>2, StoreAssumption DEF StoreAssumption
    <3>4. /\ ValidPlan(k, seen[s]) /\ P!Granted(k, a, "PLAN_REVIEW")
          /\ seen[s].status \in P!Reviewable /\ a # CreatorOf[seen[s].content]
          /\ SameBindings(plans[k].content, seen[s].content)
          /\ \A i \in 1..r : plans[k].history[i] = seen[s].history[i]
      BY <1>1, <1>2, <1>3, <1>13, SameSets, SameStore
         DEF CheckedSound, Checked, Transitions, ActionOf
    <3>5. plans[k].history[r].to \in P!Reviewable
      <4>1. seen[s].history[r].to = seen[s].status
        BY <3>4 DEF ValidPlan
      <4> QED BY <2>2, <3>4, <4>1
    <3>6. a # P!CreatedBy(k)
      BY <3>4 DEF P!CreatedBy, SameBindings
    <3>7. P!ReviewApprove(k, a, r, c.exempts)
      BY <1>6, <1>13, <2>4, <2>5, <2>6, <3>1, <3>3, <3>4, <3>5, <3>6 DEF P!ReviewApprove
    <3> QED BY <1>4, <1>13, <3>3, <3>7 DEF P!Next
  <2>7. CASE c.arg = "REQUEST_CHANGES"
    <3>1. /\ seen[s] = plans[k] /\ P!Granted(k, a, "PLAN_REVIEW")
          /\ P!Move(k, "DRAFT", a, t) /\ plans[k].status \in P!Reviewable
          /\ a # P!CreatedBy(k)
      BY <1>9, <1>13, <2>7 DEF Transitions, ActionOf, Target
    <3>2. P!ReviewRequestChanges(k, a, t, c.exempts)
      BY <1>6, <1>13, <2>4, <2>5, <2>7, <3>1 DEF P!ReviewRequestChanges
    <3> QED BY <1>4, <1>13, <3>2 DEF P!Next
  <2> QED BY <1>4, <1>13, <2>6, <2>7
<1> QED BY <1>4, <1>7, <1>8, <1>10, <1>11, <1>12, <1>13

\* A commit touches no row another session has locked, no plan another session
\* has inserted, and no decision another session waits to commit.
LEMMA CommitLeavesOthers ==
  ASSUME Inv, NEW s \in Sessions, Commit(s), Leaves(s), P!Grows,
         decisions \subseteq decisions', NEW u \in Sessions \ {s}
  PROVE  Untouched(u)
<1>1. PICK c, k : c = cmd[s] /\ k = c.plan
  OBVIOUS
<1>2. pc[s] = "commit"
  BY CommitStores
<1>3. /\ c \in Command /\ k \in Plans /\ Begun(s)
      /\ DecisionSound(s) /\ CreateSound(s) /\ WriteSound(s)
      /\ (c.op # "generate" => G!Exists(k))
      /\ WorkTypeOK
  BY <1>1, <1>2, Running
<1>4. plans \in [Plans -> PlanRecord \union {NoPlan}]
  BY SameSets DEF Inv, P!IInv, P!TypeOK
<1>5. \A j \in Plans \ {k} : plans'[j] = plans[j]
  BY <1>1, <1>4 DEF Commit
<1>6. ASSUME NEW j \in Plans, rowLock[j] = u
      PROVE  G!Exists(j) => plans'[j] = plans[j]
  <2>1. CASE j # k
    BY <1>5, <2>1
  <2>2. CASE j = k
    <3>1. CASE c.op = "generate"
      BY <1>1, <1>2, <1>3, <2>2, <3>1 DEF CreateSound
    <3>2. CASE c.op # "generate" /\ ~ (c.op = "review" /\ c.arg = "APPROVE")
      BY <1>1, <1>2, <1>3, <1>6, <2>2, <3>2 DEF WriteSound
    <3>3. CASE c.op = "review" /\ c.arg = "APPROVE"
      BY <1>1, <1>2, <1>3, <3>3, CommitStores DEF WriteSound
    <3> QED BY <3>1, <3>2, <3>3
  <2> QED BY <2>1, <2>2
<1>7. ASSUME pc[u] = "commit", cmd[u].op = "generate", G!Exists(cmd[u].plan)'
      PROVE  G!Exists(cmd[u].plan)
  <2>1. cmd[u].plan \in Plans /\ CreateSound(u) /\ cmd[u] \in Command
    BY <1>7, Running
  <2>2. cmd'[u] = cmd[u]
    BY DEF Leaves
  <2>3. CASE cmd[u].plan # k
    BY <1>5, <1>7, <2>1, <2>2, <2>3 DEF G!Exists
  <2>4. CASE cmd[u].plan = k /\ c.op # "generate"
    BY <1>3, <2>4
  <2>5. CASE cmd[u].plan = k /\ c.op = "generate"
    <3>1. ASSUME NEW v \in {s, u} PROVE Inserting(v)
      <4>1. /\ cmd[v].op = "generate" /\ pc[v] = "commit" /\ cmd[v] \in Command
            /\ CreateSound(v)
        BY <1>1, <1>2, <1>3, <1>7, <2>1, <2>5, <3>1
      <4>2. P!CanCreate(cmd[v].arg, cmd[v].at)
        BY <4>1, SameRecords DEF CreateSound, InsertAllowed
      <4>3. P!CreatedPlan(cmd[v].arg, cmd[v].actor, cmd[v].at) \in P!PlanRecord
        BY <4>1, <4>2, CommandType, Assumptions, P!CreatedIsValid
      <4>4. nextRec[v] \in PlanRecord
        BY <4>1, <4>3, SameSets, SameRecords DEF CreateSound
      <4> QED BY <4>1, <4>4, StoreAssumption DEF Inserting, StoreAssumption
    <3> QED BY <1>1, <1>2, <1>7, <2>5, <3>1 DEF Inv, Unique
  <2> QED BY <2>3, <2>4, <2>5
<1>8. ASSUME NEW d \in decisions' \ decisions
      PROVE  /\ pending[u] # NoDecision => ~ SameReview(d, pending[u])
             /\ d.verdict = "APPROVE" \/ d.revision < plans'[d.plan].revision
  <2>1. pending[s] # NoDecision /\ d = pending[s]
    BY CommitStores, <1>8
  <2>2. c.op = "review" /\ d = DecisionOf(s)
    BY <1>1, <1>3, <2>1 DEF DecisionSound
  <2>3. d.plan = k /\ d.verdict = c.arg /\ d.revision = seen[s].revision
    BY <1>1, <2>2 DEF DecisionOf
  <2>4. pending[u] # NoDecision => ~ SameReview(d, pending[u])
    BY <2>1 DEF Inv, Unique
  <2>5. CASE c.arg = "APPROVE"
    BY <2>3, <2>4, <2>5
  <2>6. CASE c.arg = "REQUEST_CHANGES"
    <3>1. /\ seen[s] = plans[k] /\ plans[k].revision \in Nat
          /\ nextRec[s] # NoPlan /\ nextRec[s].revision = plans[k].revision + 1
      BY <1>1, <2>2, <2>6, CommitWrites
    <3>2. plans'[k] = nextRec[s]
      BY <1>1, <1>3, <1>4, <3>1 DEF Commit
    <3> QED BY <2>3, <2>4, <3>1, <3>2
  <2> QED BY <1>3, <2>2, <2>5, <2>6, CommandType
<1>9. /\ pc'[u] = pc[u] /\ cmd'[u] = cmd[u] /\ seen'[u] = seen[u]
      /\ nextRec'[u] = nextRec[u] /\ pending'[u] = pending[u]
      /\ \A j \in Plans : rowLock[j] = u => rowLock'[j] = u
  BY DEF Leaves
<1> QED BY <1>6, <1>7, <1>8, <1>9 DEF Untouched

\* A commit keeps the invariant, because the service it takes a step of keeps its own.
LEMMA CommitPreserves ==
  ASSUME Inv, NEW s \in Sessions, Commit(s)
  PROVE  Inv'
<1>1. P!IInv' /\ P!Grows /\ decisions \subseteq decisions' /\ Bounded'
  BY CommitImplements, StoreStep
<1>2. WorkTypeOK' /\ Leaves(s) /\ Sound(s)' /\ Unique'
  BY CommitStores, FinishLeaves
<1>3. TypeOK'
  <2>1. P!TypeOK'
    BY <1>1 DEF P!IInv
  <2>2. G!PlanRecord = P!PlanRecord /\ G!Decision = P!Decision
    BY SameSets DEF P!PlanRecord, G!PlanRecord, P!Event, G!Event, P!EventTypes,
                    G!EventTypes, P!PlanStatuses, G!PlanStatuses
  <2>3. G!TypeOK'
    BY <2>1, <2>2 DEF P!TypeOK, G!TypeOK
  <2> QED BY <1>2, <2>3 DEF TypeOK, WorkTypeOK
<1>4. \A u \in Sessions \ {s} : Sound(u)'
  BY <1>1, <1>2, <1>3, CommitLeavesOthers, UntouchedStaysSound
<1> QED BY <1>1, <1>2, <1>3, <1>4 DEF Inv

-----------------------------------------------------------------------------
(* The theorems.                                                           *)

\* No session is at work and nothing is stored.
LEMMA InitEstablishes == Init => Inv
<1> SUFFICES ASSUME Init PROVE Inv
  OBVIOUS
<1>1. P!Init
  BY DEF Init, G!Init, P!Init
<1>2. P!IInv
  BY <1>1, Assumptions, P!InitEstablishes
<1>3. TypeOK
  <2>1. G!TypeOK
    BY <1>2, SameStore DEF P!IInv
  <2>2. WorkTypeOK
    BY DEF Init, WorkTypeOK, PCs
  <2> QED BY <2>1, <2>2 DEF TypeOK, WorkTypeOK
<1>4. \A s \in Sessions : Sound(s)
  BY DEF Init, Sound
<1>5. Unique /\ Bounded
  BY DEF Init, G!Init, Unique, Bounded, G!Exists
<1> QED BY <1>2, <1>3, <1>4, <1>5 DEF Inv

\* Only COMMIT changes the tables, and as the atomic service does.
LEMMA StepImplements == Inv /\ [Next]_vars => [P!Next]_(P!vars) /\ Inv'
<1> SUFFICES ASSUME Inv, [Next]_vars PROVE [P!Next]_(P!vars) /\ Inv'
  OBVIOUS
<1>1. ASSUME NEW s \in Sessions, Rollback(s)
      PROVE  UNCHANGED P!vars /\ Inv'
  BY <1>1, RollbackPreserves DEF Rollback, committed, P!vars
<1>2. CASE UNCHANGED vars
  <2>1. /\ UNCHANGED P!vars
        /\ UNCHANGED <<plans, decisions, pc, cmd, seen, nextRec, pending, rowLock, keyShare>>
    BY <1>2 DEF vars, committed, work, locks, P!vars
  <2>2. P!IInv' /\ Bounded'
    BY <2>1, StoreStep
  <2>3. TypeOK'
    BY <2>1 DEF Inv, TypeOK, G!TypeOK
  <2>4. Unique'
    BY <2>1 DEF Inv, Unique, Inserting
  <2>5. ASSUME NEW s \in Sessions PROVE Sound(s)'
    <3>1. Untouched(s) /\ P!Grows
      BY <2>1, StoreStep DEF Untouched, G!Exists
    <3> QED BY <2>2, <2>3, <3>1, UntouchedStaysSound
  <2> QED BY <2>1, <2>2, <2>3, <2>4, <2>5 DEF Inv
<1>3. ASSUME NEW s \in Sessions, Call(s)
      PROVE  UNCHANGED P!vars /\ Inv'
  BY <1>3, CallPreserves DEF Call, CallGenerate, CallEdit, CallReview, CallTransition,
                             Begin, committed, P!vars
<1>4. ASSUME NEW s \in Sessions,
             \/ FindByInput(s) \/ FindAgain(s) \/ InsertPlan(s) \/ InsertDuplicate(s)
      PROVE  UNCHANGED P!vars /\ Inv'
  BY <1>4, FindPreserves, InsertPlanPreserves, InsertDuplicatePreserves
     DEF FindByInput, FindAgain, InsertPlan, InsertDuplicate, Rollback, committed, P!vars
<1>5. ASSUME NEW s \in Sessions, ReadRow(s) \/ ReadHistory(s) \/ CollectEvidence(s)
      PROVE  UNCHANGED P!vars /\ Inv'
  BY <1>5, ReadRowPreserves, ReadHistoryPreserves, CollectEvidencePreserves
     DEF ReadRow, ReadHistory, CollectEvidence, committed, P!vars
<1>6. ASSUME NEW s \in Sessions, InsertDecision(s) \/ ForeignKeyShare(s) \/ LockAndWrite(s)
      PROVE  UNCHANGED P!vars /\ Inv'
  BY <1>6, InsertDecisionPreserves, ForeignKeySharePreserves, LockAndWritePreserves
     DEF InsertDecision, ForeignKeyShare, LockAndWrite, committed, P!vars
<1>7. ASSUME NEW s \in Sessions,
             \/ FoundByInput(s) \/ InsertRefused(s) \/ ReadRejected(s)
             \/ DecisionRejected(s) \/ EvidenceRejected(s) \/ WriteRejected(s)
             \/ ConnectionLost(s) \/ DeadlockVictim(s)
      PROVE  UNCHANGED P!vars /\ Inv'
  BY <1>1, <1>7 DEF FoundByInput, InsertRefused, ReadRejected, DecisionRejected,
                    EvidenceRejected, WriteRejected, ConnectionLost, DeadlockVictim
<1>8. ASSUME NEW s \in Sessions, Commit(s)
      PROVE  P!Next /\ Inv'
  BY <1>8, CommitPreserves, CommitImplements
<1> QED BY <1>2, <1>3, <1>4, <1>5, <1>6, <1>7, <1>8 DEF Next

\* G and P are two names of one specification.
LEMMA SameGate ==
  /\ \A ds : P!Approvers(ds) = G!Approvers(ds)
  /\ \A c, ds : P!GatePassed(c, ds) <=> G!GatePassed(c, ds)
<1>1. \A S : P!Cardinality(S) = G!Cardinality(S)
  BY DEF P!Cardinality, G!Cardinality
<1>2. \A ds : P!Approvals(ds) = G!Approvals(ds) /\ P!Approvers(ds) = G!Approvers(ds)
  BY DEF P!Approvals, G!Approvals, P!Approvers, G!Approvers
<1>3. P!RequiredApprovals = G!RequiredApprovals
  BY DEF P!RequiredApprovals, G!RequiredApprovals
<1> QED BY <1>1, <1>2, <1>3 DEF P!GatePassed, G!GatePassed

\* The steps of P are the steps of G.
LEMMA SameNext == [P!Next]_(P!vars) => [G!Next]_(G!vars)
<1>1. UNCHANGED P!vars => UNCHANGED G!vars
  BY DEF P!vars, G!vars
<1>2. /\ \A c, a, t : P!CreatedPlan(c, a, t) = G!CreatedPlan(c, a, t)
      /\ \A rec, c, a, t : P!ReplacedPlan(rec, c, a, t) = G!ReplacedPlan(rec, c, a, t)
      /\ \A rec, to, a, t : P!MovedPlan(rec, to, a, t) = G!MovedPlan(rec, to, a, t)
      /\ \A c, t : P!CanCreate(c, t) <=> G!CanCreate(c, t)
      /\ \A rec, e : P!AtRevision(rec, e) <=> G!AtRevision(rec, e)
      /\ \A rec, t : P!NotBefore(rec, t) <=> G!NotBefore(rec, t)
      /\ \A c, d : P!SameBindings(c, d) <=> G!SameBindings(c, d)
  BY DEF P!CreatedPlan, G!CreatedPlan, P!ReplacedPlan, G!ReplacedPlan, P!MovedPlan,
         G!MovedPlan, P!CanCreate, G!CanCreate, P!AtRevision, G!AtRevision,
         P!NotBefore, G!NotBefore, P!SameBindings, G!SameBindings
<1>3. /\ \A rec, e, c, t : P!CanReplace(rec, e, c, t) <=> G!CanReplace(rec, e, c, t)
      /\ \A rec, e, to, t : P!CanMove(rec, e, to, t) <=> G!CanMove(rec, e, to, t)
  <2>1. P!PlanTransitions = G!PlanTransitions
    BY DEF P!PlanTransitions, G!PlanTransitions
  <2> QED BY <1>2, <2>1 DEF P!CanReplace, G!CanReplace, P!CanMove, G!CanMove
<1>4. /\ \A ds : P!Approvers(ds) = G!Approvers(ds)
      /\ \A c, ds : P!GatePassed(c, ds) <=> G!GatePassed(c, ds)
  BY SameGate
<1>5. \A k, r, a : P!Undecided(k, r, a) <=> G!Undecided(k, r, a)
  BY SameStore DEF P!Undecided, G!Undecided
<1>6. /\ \A k, rec : P!Put(k, rec) <=> G!Put(k, rec)
      /\ \A k, r, v, a, x : P!Decide(k, r, v, a, x) <=> G!Decide(k, r, v, a, x)
  BY DEF P!Put, G!Put, P!Decide, G!Decide
<1>7. \A k, to, a, t : P!Move(k, to, a, t) <=> G!Move(k, to, a, t)
  BY <1>2, <1>3, <1>6 DEF P!Move, G!Move
<1>8. /\ \A c, a, t : P!Create(c, a, t) => G!Create(c, a, t)
      /\ \A k, c, a, t : P!Edit(k, c, a, t) => G!Edit(k, c, a, t)
  BY <1>2, <1>3, <1>6, SameStore DEF P!Create, G!Create, P!Edit, G!Edit
<1>9. /\ \A k, a, t : P!Submit(k, a, t) => G!Submit(k, a, t)
      /\ \A k, a, t : P!Approve(k, a, t) => G!Approve(k, a, t)
      /\ \A k, a, t, ds : P!Freeze(k, a, t, ds) => G!Freeze(k, a, t, ds)
  BY <1>4, <1>7, SameStore DEF P!Submit, G!Submit, P!Approve, G!Approve, P!Freeze, G!Freeze
<1>10. /\ \A k, a, r, x : P!ReviewApprove(k, a, r, x) => G!ReviewApprove(k, a, r, x)
       /\ \A k, a, t, x : P!ReviewRequestChanges(k, a, t, x)
                            => G!ReviewRequestChanges(k, a, t, x)
  BY <1>5, <1>6, <1>7, SameStore, SameSets
     DEF P!ReviewApprove, G!ReviewApprove, P!ReviewRequestChanges, G!ReviewRequestChanges
<1>11. P!Next => G!Next
  BY <1>8, <1>9, <1>10 DEF P!Next, G!Next
<1> QED BY <1>1, <1>11

\* Every reachable state satisfies the inductive invariant.
THEOREM Invariance == Spec => []Inv
<1>1. Inv /\ [Next]_vars => Inv'
  BY StepImplements
<1> QED BY <1>1, InitEstablishes, PTL DEF Spec

\* Type correctness of the tables, the sessions and the locks.
THEOREM TypeCorrect == Spec => []TypeOK
<1>1. Inv => TypeOK
  BY DEF Inv
<1> QED BY <1>1, Invariance, PTL

\* Planning over PostgreSQL, with every interleaving of its statements, lost
\* race, crash and deadlock victim, implements the atomic service
\* (service.js and postgres-unit-of-work.js of test-planning-orchestration).
THEOREM Implementation == Spec => PlanGovernanceImplemented
<1>1. Init => G!Init
  BY DEF Init
<1>2. Inv /\ [Next]_vars => [G!Next]_(G!vars)
  BY StepImplements, SameNext
<1> QED BY <1>1, <1>2, Invariance, PTL DEF Spec, PlanGovernanceImplemented, G!Spec

\* A generate that lost the race finds the plan of the winner (service.js:40).
THEOREM RetryAlwaysFinds == Spec => []RetryFindsPlan
<1>1. Inv => RetryFindsPlan
  BY DEF Inv, Sound, Begun, RetryFindsPlan
<1> QED BY <1>1, Invariance, PTL

\* Concurrent sessions freeze only what was reviewed and approved, under a gate
\* that still passes.
THEOREM FreezesWhatWasReviewed == Spec => []G!FrozenAsReviewed
<1>1. Inv => G!FrozenAsReviewed
  <2>1. P!IInv => P!FrozenAsReviewed
    BY Assumptions, P!InvariantImpliesFrozenAsReviewed
  <2>2. \A c, ds : P!GatePassed(c, ds) <=> G!GatePassed(c, ds)
    BY SameGate
  <2>3. \A k, i, status : P!MovedTo(k, i, status) <=> G!MovedTo(k, i, status)
    BY SameStore DEF P!MovedTo, G!MovedTo
  <2> QED BY <2>1, <2>2, <2>3, SameStore DEF Inv, P!FrozenAsReviewed, G!FrozenAsReviewed
<1> QED BY <1>1, Invariance, PTL

\* No interleaving stores a plan that validatePlanRecord would reject.
THEOREM PlansStayValid == Spec => []G!PlansValid
<1>1. Inv => G!PlansValid
  <2>1. \A k, rec : P!ValidPlan(k, rec) <=> G!ValidPlan(k, rec)
    BY DEF P!ValidPlan, G!ValidPlan, P!ValidStep, G!ValidStep, P!PlanTransitions,
           G!PlanTransitions
  <2> QED BY <2>1, SameStore DEF Inv, P!IInv, P!PlansValid, G!PlansValid
<1> QED BY <1>1, Invariance, PTL

\* Nothing the sessions commit rewrites a revision, an event or a decision.
THEOREM NothingIsRewritten == Spec => [][P!Grows /\ decisions \subseteq decisions']_vars
<1>1. Inv /\ [Next]_vars => [P!Grows /\ decisions \subseteq decisions']_vars
  BY StepImplements, StoreStep
<1> QED BY <1>1, Invariance, PTL DEF Spec

-----------------------------------------------------------------------------
(* Deadlocks.                                                              *)

\* Of the commands, only a REQUEST_CHANGES asks for a row it already shares.
DeadlocksOnlyAmongChangeRequests ==
  \A s \in Sessions :
    Deadlocked(s) => cmd[s].op = "review" /\ cmd[s].arg = "REQUEST_CHANGES"

\* A row is locked only by a session about to commit, and a key share is kept
\* only by a review.
HoldersKnown ==
  \A u \in Sessions : \A k \in Plans :
    /\ rowLock[k] = u => pc[u] = "commit"
    /\ u \in keyShare[k] => cmd[u].op = "review" /\ pc[u] \in {"lock", "commit"}

\* Whoever forgets what its transaction did holds no lock afterwards.
LEMMA ForgetFreesLocks ==
  ASSUME Inv, HoldersKnown, NEW s \in Sessions, Forget(s),
         \A u \in Sessions \ {s} : pc'[u] = pc[u] /\ cmd'[u] = cmd[u]
  PROVE  HoldersKnown'
<1>1. /\ rowLock' = [k \in Plans |-> IF rowLock[k] = s THEN Nobody ELSE rowLock[k]]
      /\ keyShare' = [k \in Plans |-> keyShare[k] \ {s}]
  BY DEF Forget
<1>2. Nobody \notin Sessions
  BY SessionAssumption DEF SessionAssumption
<1> SUFFICES ASSUME NEW u \in Sessions, NEW k \in Plans
             PROVE  /\ rowLock'[k] = u => pc'[u] = "commit"
                    /\ u \in keyShare'[k] => /\ cmd'[u].op = "review"
                                             /\ pc'[u] \in {"lock", "commit"}
  BY DEF HoldersKnown
<1>3. CASE u = s
  BY <1>1, <1>2, <1>3
<1>4. CASE u # s
  BY <1>1, <1>2, <1>4 DEF HoldersKnown
<1> QED BY <1>3, <1>4

\* A step by a session that holds nothing, and that takes no lock.
LEMMA LockFreeStep ==
  ASSUME Inv, HoldersKnown, NEW s \in Sessions, Leaves(s),
         pc[s] \notin {"lock", "commit"}, UNCHANGED <<rowLock, keyShare>>
  PROVE  HoldersKnown'
  BY DEF HoldersKnown, Leaves

\* Every step keeps the account of who may hold which lock.
LEMMA HoldersStayKnown == Inv /\ HoldersKnown /\ [Next]_vars => HoldersKnown'
<1> SUFFICES ASSUME Inv, HoldersKnown, [Next]_vars PROVE HoldersKnown'
  OBVIOUS
<1>1. WorkTypeOK /\ Nobody \notin Sessions
  BY SessionAssumption DEF Inv, TypeOK, WorkTypeOK, SessionAssumption
<1>2. CASE UNCHANGED vars
  BY <1>2 DEF vars, work, locks, HoldersKnown
<1>3. ASSUME NEW s \in Sessions, Finish(s)
      PROVE  HoldersKnown'
  <2>1. \A u \in Sessions \ {s} : pc'[u] = pc[u] /\ cmd'[u] = cmd[u]
    BY <1>1, <1>3 DEF Finish, Goto, WorkTypeOK
  <2> QED BY <1>3, <2>1, ForgetFreesLocks DEF Finish
<1>4. ASSUME NEW s \in Sessions, InsertDuplicate(s)
      PROVE  HoldersKnown'
  <2>1. \A u \in Sessions \ {s} : pc'[u] = pc[u] /\ cmd'[u] = cmd[u]
    BY <1>1, <1>4 DEF InsertDuplicate, Goto, WorkTypeOK
  <2> QED BY <1>4, <2>1, ForgetFreesLocks DEF InsertDuplicate
<1>5. ASSUME NEW s \in Sessions, NEW c, NEW label, Begin(s, c, label)
      PROVE  HoldersKnown'
  <2>1. /\ pc[s] = "idle" /\ UNCHANGED <<rowLock, keyShare>>
        /\ Leaves(s)
    BY <1>1, <1>5 DEF Begin, Goto, locks, Leaves, WorkTypeOK
  <2> QED BY <2>1, LockFreeStep
<1>6. ASSUME NEW s \in Sessions, Call(s)
      PROVE  HoldersKnown'
  <2>1. PICK t \in Times :
          \/ \E x \in Contents : CallGenerate(s, x, t)
          \/ \E k \in Plans, a \in Actors :
               \/ \E x \in Contents : CallEdit(s, k, a, x, t)
               \/ \E v \in G!Verdicts, x \in SUBSET Exemptions : CallReview(s, k, a, v, x, t)
               \/ \E op \in {"submit", "approve", "freeze"} : CallTransition(s, k, a, op, t)
    BY <1>6 DEF Call
  <2>2. ASSUME NEW x, CallGenerate(s, x, t) PROVE HoldersKnown'
    BY <1>5, <2>2 DEF CallGenerate
  <2>3. ASSUME NEW k, NEW a, NEW x, CallEdit(s, k, a, x, t) PROVE HoldersKnown'
    BY <1>5, <2>3 DEF CallEdit
  <2>4. ASSUME NEW k, NEW a, NEW v, NEW x, CallReview(s, k, a, v, x, t)
        PROVE  HoldersKnown'
    BY <1>5, <2>4 DEF CallReview
  <2>5. ASSUME NEW k, NEW a, NEW op, CallTransition(s, k, a, op, t)
        PROVE  HoldersKnown'
    BY <1>5, <2>5 DEF CallTransition
  <2> QED BY <2>1, <2>2, <2>3, <2>4, <2>5
<1>7. ASSUME NEW s \in Sessions,
             \/ FindByInput(s) \/ FindAgain(s) \/ InsertPlan(s) \/ ReadRow(s)
             \/ ReadHistory(s) \/ InsertDecision(s) \/ CollectEvidence(s)
      PROVE  HoldersKnown'
  <2>1. CASE Finish(s)
    BY <1>3, <2>1
  <2>2. CASE ~ Finish(s)
    <3>1. /\ pc[s] \notin {"lock", "commit"}
          /\ UNCHANGED <<rowLock, keyShare>>
      BY <1>7, <2>2 DEF FindByInput, FindAgain, InsertPlan, ReadRow, ReadHistory,
                        InsertDecision, CollectEvidence, locks, Rollback
    <3>2. Leaves(s)
      BY <1>1, <1>7, <2>2
         DEF FindByInput, FindAgain, InsertPlan, ReadRow, ReadHistory, InsertDecision,
             CollectEvidence, Goto, work, locks, Rollback, Leaves, WorkTypeOK
    <3> QED BY <3>1, <3>2, LockFreeStep
  <2> QED BY <2>1, <2>2
<1>8. ASSUME NEW s \in Sessions, ForeignKeyShare(s)
      PROVE  HoldersKnown'
  <2>1. PICK k, label :
          /\ k = cmd[s].plan /\ label = IF cmd[s].arg = "APPROVE" THEN "commit" ELSE "lock"
          /\ pc[s] = "foreign_key" /\ pc' = [pc EXCEPT ![s] = label]
          /\ keyShare' = [keyShare EXCEPT ![k] = @ \union {s}]
          /\ UNCHANGED <<cmd, rowLock>>
    BY <1>8 DEF ForeignKeyShare, Goto, work
  <2>2. cmd[s].op = "review" /\ k \in Plans
    BY <2>1, Running DEF OnPath
  <2> QED BY <1>1, <2>1, <2>2 DEF HoldersKnown, WorkTypeOK
<1>9. ASSUME NEW s \in Sessions, LockAndWrite(s)
      PROVE  HoldersKnown'
  <2>1. PICK k :
          /\ k = cmd[s].plan
          /\ pc[s] = "lock" /\ pc' = [pc EXCEPT ![s] = "commit"]
          /\ rowLock' = [rowLock EXCEPT ![k] = s]
          /\ UNCHANGED <<cmd, keyShare>>
    BY <1>9 DEF LockAndWrite, Goto
  <2> QED BY <1>1, <2>1 DEF HoldersKnown, WorkTypeOK
<1>10. ASSUME NEW s \in Sessions,
              \/ FoundByInput(s) \/ InsertRefused(s) \/ ReadRejected(s)
              \/ DecisionRejected(s) \/ EvidenceRejected(s) \/ WriteRejected(s)
              \/ ConnectionLost(s) \/ DeadlockVictim(s) \/ Commit(s)
       PROVE  HoldersKnown'
  BY <1>3, <1>10 DEF FoundByInput, InsertRefused, ReadRejected, DecisionRejected,
                     EvidenceRejected, WriteRejected, ConnectionLost, DeadlockVictim,
                     Commit, Rollback
<1> QED BY <1>2, <1>4, <1>6, <1>7, <1>8, <1>9, <1>10 DEF Next

\* Whoever holds what another waits for either waits for nobody or is a
\* REQUEST_CHANGES that asks for the row it shares.
LEMMA HolderWaitsAtTheRow ==
  ASSUME Inv, HoldersKnown, NEW s \in Sessions, NEW u \in Sessions, NEW v \in Sessions,
         NEW w \in Sessions, WaitsFor(s, u), WaitsFor(u, v), WaitsFor(v, w)
  PROVE  pc[u] = "lock" /\ cmd[u].op = "review" /\ cmd[u].arg = "REQUEST_CHANGES"
<1>1. PICK k : k = cmd[s].plan
  OBVIOUS
<1>2. k \in Plans
  <2>1. pc[s] # "idle"
    BY DEF WaitsFor
  <2> QED BY <1>1, <2>1, Running
<1>3. pc[u] \in {"lock", "foreign_key", "decision", "insert"}
  BY DEF WaitsFor
<1>4. rowLock[k] # u /\ u \notin Rivals(s)
  <2>1. nextRec[u] = NoPlan
    BY <1>3, Running
  <2> QED BY <1>2, <1>3, <2>1 DEF HoldersKnown, Rivals
<1>5. u \in keyShare[k] \/ u \in Twins(s)
  BY <1>1, <1>4 DEF WaitsFor
<1>6. pc[u] # "idle" /\ OnPath(u) /\ DecisionSound(u) /\ cmd[u].plan \in Plans
  BY <1>3, Running
<1>7. CASE pc[u] = "lock"
  <2>1. cmd[u].op = "review"
    BY <1>2, <1>5, <1>6, <1>7 DEF HoldersKnown, Twins, DecisionSound
  <2> QED BY <1>6, <1>7, <2>1 DEF OnPath
<1>8. CASE pc[u] = "foreign_key"
  <2>1. rowLock[cmd[u].plan] = v
    BY <1>8 DEF WaitsFor
  <2>2. pc[v] = "commit"
    BY <1>6, <2>1 DEF HoldersKnown
  <2> QED BY <2>2 DEF WaitsFor
<1>9. CASE pc[u] \in {"decision", "insert"}
  BY <1>2, <1>5, <1>6, <1>9 DEF HoldersKnown, Twins, DecisionSound
<1> QED BY <1>3, <1>7, <1>8, <1>9

\* In a set of sessions that wait for one another, those that somebody waits
\* for are REQUEST_CHANGES at the row, and they already wait for one another.
LEMMA DeadlocksAreChangeRequests ==
  ASSUME Inv, HoldersKnown
  PROVE  DeadlocksOnlyAmongChangeRequests
<1> SUFFICES ASSUME NEW s \in Sessions, Deadlocked(s)
             PROVE  cmd[s].op = "review" /\ cmd[s].arg = "REQUEST_CHANGES"
  BY DEF DeadlocksOnlyAmongChangeRequests
<1>1. PICK C \in SUBSET Sessions :
        s \in C /\ Waiting(C) /\ \A D \in SUBSET C : Waiting(D) => s \in D
  BY DEF Deadlocked
<1> DEFINE D == {u \in C : cmd[u].op = "review" /\ cmd[u].arg = "REQUEST_CHANGES"}
<1>2. ASSUME NEW u \in C
      PROVE  \E v \in D : WaitsFor(u, v)
  <2>1. PICK v \in C : WaitsFor(u, v)
    BY <1>1 DEF Waiting
  <2>2. PICK w \in C : WaitsFor(v, w)
    BY <1>1 DEF Waiting
  <2>3. PICK x \in C : WaitsFor(w, x)
    BY <1>1 DEF Waiting
  <2>4. cmd[v].op = "review" /\ cmd[v].arg = "REQUEST_CHANGES"
    BY <2>1, <2>2, <2>3, HolderWaitsAtTheRow
  <2> QED BY <2>1, <2>4
<1>3. Waiting(D)
  <2>1. D # {}
    BY <1>1, <1>2
  <2> QED BY <1>2, <2>1 DEF Waiting
<1>4. s \in D
  BY <1>1, <1>3
<1> QED BY <1>4

\* Two generates of one input never deadlock, nor does any command but a
\* REQUEST_CHANGES, although a generate waits for the unique index of the one
\* that inserted first (postgres-registry.js of test-plan-postgres).
THEOREM OnlyChangeRequestsDeadlock == Spec => []DeadlocksOnlyAmongChangeRequests
<1>1. Init => HoldersKnown
  <2>1. Nobody \notin Sessions
    BY SessionAssumption DEF SessionAssumption
  <2> QED BY <2>1 DEF Init, HoldersKnown
<1>2. Inv /\ HoldersKnown /\ [Next]_vars => HoldersKnown'
  BY HoldersStayKnown
<1>3. Inv /\ HoldersKnown => DeadlocksOnlyAmongChangeRequests
  BY DeadlocksAreChangeRequests
<1> QED BY <1>1, <1>2, <1>3, Invariance, PTL DEF Spec
=============================================================================
