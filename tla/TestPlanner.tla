---------------------------- MODULE TestPlanner ----------------------------
(***************************************************************************)
(* packages/test-planner: every policy entry, rule, target and capability  *)
(* that match make a candidate; a candidate whose capability can be used,  *)
(* whose fields can be derived and whose required dependencies are planned *)
(* becomes an intent.  The strategy is DeclarativePlanningStrategy: one    *)
(* intent for a candidate.                                                 *)
(***************************************************************************)
EXTENDS PlanContracts

-----------------------------------------------------------------------------
(* Candidates *)

MatchesValue(selector, value) == selector = {} \/ value \in selector

MatchesTags(selector, tags) == selector \subseteq tags

MatchesKnowledge(selectors, rule) ==
  /\ MatchesValue(selectors.knowledge, rule.id)
  /\ MatchesValue(selectors.boundaryKeys, rule.boundaryKey)
  /\ MatchesTags(selectors.knowledgeTags, rule.tags)

MatchesTarget(selectors, target) ==
  /\ MatchesValue(selectors.targets, target.id)
  /\ MatchesValue(selectors.kinds, target.kind)
  /\ MatchesTags(selectors.targetTags, target.tags)

\* Whether the rule is enabled is not asked.
EnumerateCandidates(request) ==
  { c \in [ entry : request.entries, rule : request.snapshot.rules,
            target : request.inventory.targets,
            ref : UNION { e.refs : e \in request.entries } ] :
      /\ c.ref \in c.entry.refs
      /\ MatchesKnowledge(c.entry.selectors, c.rule)
      /\ MatchesTarget(c.entry.selectors, c.target) }

FindExemption(exemptions, c) ==
  \E x \in exemptions : /\ x.knowledge = c.rule.id
                        /\ x.target = c.target.id
                        /\ x.capability = c.ref

-----------------------------------------------------------------------------
(* The declarative strategy.  An attribute of the target hides a field of   *)
(* the target itself, and both hide the rule's; a rule's value that is no  *)
(* object has no fields.  "mistyped" is in a value that has not the type   *)
(* its contract asks for, other items are for the later stages to refuse.  *)

FieldNames(value) == { path[1] : path \in DOMAIN value \ {<< >>} }

\* Everything in one field of a rule's value.
FieldItems(value, name) ==
  UNION { value[path] : path \in { p \in DOMAIN value \ {<< >>} : p[1] = name } }

Resolvable(name, c) ==
  \/ name \in DOMAIN c.target.attributes \cup DOMAIN c.target.own
  \/ name \in FieldNames(c.rule.value)

ResolveField(name, c) ==
  CASE name \in DOMAIN c.target.attributes -> c.target.attributes[name]
    [] name \in DOMAIN c.target.own \ DOMAIN c.target.attributes -> c.target.own[name]
    [] OTHER -> FieldItems(c.rule.value, name)

\* The contracts' fields in the order they are materialised in.
ContractFields(capability) ==
  capability.input \o capability.assertions \o capability.thresholds

InvalidFields(capability) ==
  { n \in DOMAIN ContractFields(capability) : ContractFields(capability)[n].name = "" }

UnderivableFields(capability, c) ==
  { n \in DOMAIN ContractFields(capability) \ InvalidFields(capability) :
      LET field == ContractFields(capability)[n]
      IN field.required /\ ~ Resolvable(field.name, c) }

\* The first field that cannot be materialised is one that is invalid.
InvalidContract(capability, c) ==
  \E n \in InvalidFields(capability) :
    \A m \in UnderivableFields(capability, c) : n < m

MaterializeContract(fields, c) ==
  [ name \in { f.name : f \in { g \in ToSet(fields) : Resolvable(g.name, c) } } |->
      ResolveField(name, c) ]

CreatableSpecs(capability, c) ==
  InvalidFields(capability) \cup UnderivableFields(capability, c) = {}

CreateIntentSpecs(capability, c) ==
  [ input |-> MaterializeContract(capability.input, c),
    assertions |-> MaterializeContract(capability.assertions, c),
    thresholds |-> MaterializeContract(capability.thresholds, c),
    tags |-> { IF c.entry.mandatory THEN "mandatory" ELSE "optional" } ]

\* validateContractPayload: every derived value has the type of its field.
ValidContractPayload(payload) == "mistyped" \notin Items(payload)

NormalizedIntentSpecs(spec) ==
  /\ Screened(spec.input) /\ Screened(spec.assertions) /\ Screened(spec.thresholds)
  /\ ValidContractPayload(spec.input)
  /\ ValidContractPayload(spec.assertions)
  /\ ValidContractPayload(spec.thresholds)

-----------------------------------------------------------------------------
(* What becomes of a candidate before dependencies are looked at *)

Unusable(request, c) ==
  ~Compatible(request.catalog, c.ref, c.target.kind)

Exempt(request, c) ==
  /\ ~Unusable(request, c)
  /\ FindExemption(request.exemptions, c)

\* The strategy is asked about the rest.
Asked(request, candidates) ==
  { c \in candidates : ~ (Unusable(request, c) \/ FindExemption(request.exemptions, c)) }

Prepared(request, candidates) ==
  { c \in Asked(request, candidates) :
      CreatableSpecs(Capability(request.catalog, c.ref), c) }

\* The handler turns a field that cannot be derived into an unsupported
\* obligation, and nothing else: an invalid contract passes through it, and
\* normalizeIntentSpecs is called outside it.
Preparable(request, candidates) ==
  /\ \A c \in Asked(request, candidates) :
       ~ InvalidContract(Capability(request.catalog, c.ref), c)
  /\ \A c \in Prepared(request, candidates) :
       NormalizedIntentSpecs(CreateIntentSpecs(Capability(request.catalog, c.ref), c))

Body(request, c) ==
  LET spec == CreateIntentSpecs(Capability(request.catalog, c.ref), c)
  IN [ target |-> c.target.id, capability |-> c.ref, source |-> KnowledgeRef(c.rule),
       entry |-> c.entry.id, input |-> spec.input, assertions |-> spec.assertions,
       thresholds |-> spec.thresholds, tags |-> spec.tags ]

-----------------------------------------------------------------------------
(* Dependencies *)

FindDependencyRecords(c, rule, active) ==
  { d \in active : /\ d.ref = rule.capability
                   /\ rule.scope = "any-target" \/ d.target = c.target }

DependencyRules(request, c) == Capability(request.catalog, c.ref).dependencies

Supported(request, c, active) ==
  \A rule \in DependencyRules(request, c) :
    /\ rule.scope \in {"same-target", "any-target"}
    /\ rule.required => FindDependencyRecords(c, rule, active) # {}

\* Wrong variant: one pass over the candidates.
ResolveOnce(request, prepared) ==
  { c \in prepared : Supported(request, c, prepared) }

\* A pass removes the candidates the last one left without support.
Passes(request, prepared) ==
  LET pass[n \in 0 .. Cardinality(prepared)] ==
        IF n = 0 THEN prepared
        ELSE { c \in pass[n - 1] : Supported(request, c, pass[n - 1]) }
  IN pass

ResolveRequiredDependencies(request, prepared) ==
  Passes(request, prepared)[Cardinality(prepared)]

DependenciesOf(request, c, active) ==
  UNION { FindDependencyRecords(c, rule, active) :
            rule \in DependencyRules(request, c) }

FinalizeIntents(request, active) ==
  { CreateTestIntent(Body(request, c),
                     { IntentId(Body(request, d)) : d \in DependenciesOf(request, c, active) },
                     Body(request, c).tags) : c \in active }

\* deduplicateIntents: what has one identity is one intent, in every field.
Unambiguous(intents) == \A i, j \in intents : i.id = j.id => i = j

\* What a topological order has taken in after some passes.
TopologicalPasses(intents) ==
  LET ordered[n \in 0 .. Cardinality(intents)] ==
        IF n = 0 THEN {}
        ELSE { i \in intents : i.dependencies \subseteq { j.id : j \in ordered[n - 1] } }
  IN ordered

\* Wrong variant: an order that leaves intents out is an order.
AcyclicSomewhere(intents) ==
  TopologicalPasses(intents)[Cardinality(intents)] # {} \/ intents = {}

\* createDependencyDag: the topological order takes in every intent.
Acyclic(intents) == TopologicalPasses(intents)[Cardinality(intents)] = intents

DependencyEdges(intents) ==
  UNION { { << d, i.id >> : d \in i.dependencies } : i \in intents }

-----------------------------------------------------------------------------
(* The planning result *)

StatusOf(request, c, active) ==
  CASE Exempt(request, c) -> "EXEMPT"
    [] c \in active -> "COVERED"
    [] OTHER -> "UNPLANNED"

CreateObligations(request, candidates, active) ==
  { CreateObligation(
      [ target |-> c.target.id, capability |-> c.ref,
        source |-> KnowledgeRef(c.rule), entry |-> c.entry.id ],
      c.entry.mandatory, StatusOf(request, c, active),
      IF c \in active THEN {IntentId(Body(request, c))} ELSE {}) : c \in candidates }

\* Why a candidate is not planned; the first reason in the order of the code.
UnsupportedCode(request, c, active) ==
  CASE Unusable(request, c) -> "CAPABILITY"
    [] ~CreatableSpecs(Capability(request.catalog, c.ref), c) -> "UNSUPPORTED_OBLIGATION"
    [] OTHER -> "DEPENDENCY"

CreateUnsupportedEvidence(request, candidates, active, obligations) ==
  { [ obligation |-> o.id,
      code |-> UnsupportedCode(request, CHOOSE c \in candidates :
                 o.id = [ target |-> c.target.id, capability |-> c.ref,
                          source |-> KnowledgeRef(c.rule), entry |-> c.entry.id ], active) ] :
      o \in { q \in obligations : q.status = "UNPLANNED" } }

ValidUnsupportedEvidence(evidence, plan) ==
  { e.obligation : e \in evidence }
    = { o.id : o \in { q \in plan.obligations : q.status = "UNPLANNED" } }

\* One cell for a target and a capability; PARTIAL where obligations differ.
CreateCoverageMatrix(obligations) ==
  LET cell(o) == << o.id.target, o.id.capability >>
      of(k) == { o \in obligations : cell(o) = k }
      statuses(k) == { o.status : o \in of(k) }
  IN [ k \in { cell(o) : o \in obligations } |->
         [ mandatory |-> \E o \in of(k) : o.mandatory,
           status |-> IF Cardinality(statuses(k)) = 1
                      THEN CHOOSE s \in statuses(k) : TRUE ELSE "PARTIAL",
           intents |-> UNION { o.intents : o \in of(k) } ] ]

CreateProvenanceGraph(plan) ==
  UNION { { << "TARGETS", i.id.target, i.id >>,
            << "USES_CAPABILITY", i.id.capability, i.id >>,
            << "SELECTED_BY_POLICY", i.id.entry, i.id >> }
          \cup { << "DERIVED_FROM_KNOWLEDGE", p.source, i.id >> :
                   p \in { q \in plan.provenance : q.intent = i.id } } :
          i \in plan.intents }

\* plan of the planner: the request names the catalog the planner has.
PlanTests(request, catalog) ==
  LET candidates == EnumerateCandidates(request)
      prepared == Prepared(request, candidates)
      active == ResolveRequiredDependencies(request, prepared)
      intents == FinalizeIntents(request, active)
      obligations == CreateObligations(request, candidates, active)
      provenance == { CreateProvenance(i) : i \in intents }
      plan == CreateTestPlan(request, intents, obligations, provenance)
  IN IF /\ ValidPlanningRequest(request)
        /\ ValidCatalog(catalog)
        /\ request.catalog = catalog
        /\ Preparable(request, candidates)
        /\ Unambiguous(intents)
        /\ Acyclic(intents)
        /\ ValidTestPlan(plan)
     THEN [ ok |-> TRUE, plan |-> plan,
            coverage |-> CreateCoverageMatrix(obligations),
            graph |-> CreateProvenanceGraph(plan),
            dag |-> DependencyEdges(intents),
            unsupported |->
              CreateUnsupportedEvidence(request, candidates, active, obligations) ]
     ELSE Refused

\* validatePlanningResult makes the derived parts again.
ValidPlanningResult(result) ==
  /\ ValidTestPlan(result.plan)
  /\ result.coverage = CreateCoverageMatrix(result.plan.obligations)
  /\ result.graph = CreateProvenanceGraph(result.plan)
  /\ Acyclic(result.plan.intents)
  /\ result.dag = DependencyEdges(result.plan.intents)
  /\ ValidUnsupportedEvidence(result.unsupported, result.plan)
=============================================================================
