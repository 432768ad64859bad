--------------------------- MODULE PlanContracts ---------------------------
(***************************************************************************)
(* packages/test-capability and packages/test-plan: the documents planning *)
(* reads and writes, and what their validators ask of them.                *)
(*                                                                         *)
(* A version is part of the name it belongs to.  An identity is the record *)
(* of the fields its hash covers: two documents have the same identity     *)
(* when they agree on those.  The fingerprint of a planning request covers *)
(* everything in it except who made it and when.                           *)
(***************************************************************************)
EXTENDS KnowledgeResolution

-----------------------------------------------------------------------------
(* Screening.  Of a value it matters what is in it: a text that is a       *)
(* secret ("secret"), or a field that has the name of one ("named") or of  *)
(* a script ("script").  Fields are a function to the sets of such items.  *)

SENSITIVE_KEYS == {"named"}
EXECUTOR_KEYS == {"script"}
SensitiveStrings == {"secret"}

Items(fields) == UNION { fields[name] : name \in DOMAIN fields }

\* The names in knowledge are not looked at: it may describe a password policy.
NoSensitivePlanningData(fields, inspectKeys) ==
  Items(fields) \cap (SensitiveStrings \cup IF inspectKeys THEN SENSITIVE_KEYS ELSE {}) = {}

NoExecutorCode(fields) == Items(fields) \cap EXECUTOR_KEYS = {}

Screened(fields) == NoSensitivePlanningData(fields, TRUE) /\ NoExecutorCode(fields)

-----------------------------------------------------------------------------
(* Capabilities: [id, kinds, input, assertions, thresholds, dependencies,  *)
(* enabled]; a contract is the list of its fields [name, required], a      *)
(* dependency is [capability, required, scope].  The name "" stands for    *)
(* that of a field that has none, or is no object; fields that are no list *)
(* are given as one such field.                                            *)

\* The rules of one capability may differ in scope only, or in being required.
\* What the fields of a contract look like is not asked.
ValidCapability(capability) == capability.kinds # {}

\* Capabilities may depend on each other in a circle: nothing asks.
ValidCatalog(catalog) ==
  /\ catalog # {}
  /\ \A c \in catalog : ValidCapability(c)
  /\ \A c, d \in catalog : c.id = d.id => c = d

CatalogResolves(catalog, ref) ==
  \E c \in catalog : c.id = ref /\ c.enabled

Capability(catalog, ref) == CHOOSE c \in catalog : c.id = ref

SupportsTargetKind(capability, kind) ==
  capability.kinds \cap {kind, "any"} # {}

\* assertCompatible.
Compatible(catalog, ref, kind) ==
  /\ CatalogResolves(catalog, ref)
  /\ SupportsTargetKind(Capability(catalog, ref), kind)

-----------------------------------------------------------------------------
(* The planning request: [context, snapshot, catalog, inventory, entries,  *)
(* exemptions]; an inventory is [context, targets], a target [id, kind,    *)
(* tags, attributes, own] where "own" has the items of its own fields, a   *)
(* policy entry is [id, mandatory, selectors, refs].                       *)

PlanContext(context) ==
  [level \in {"PROJECT", "ENVIRONMENT", "RELEASE"} |-> context[level]]

TARGET_FIELDS == {"targetId", "kind", "name", "locator", "tags", "attributes"}

\* The locator may be missing.  Its attributes are one of its own fields, and
\* the only one that could name a script.
ValidTarget(target) ==
  /\ TARGET_FIELDS \ {"locator"} \subseteq DOMAIN target.own
  /\ DOMAIN target.own \subseteq TARGET_FIELDS
  /\ Screened(target.attributes)
  /\ NoExecutorCode(target.own)

ValidInventory(inventory) ==
  /\ inventory.targets # {}
  /\ \A t \in inventory.targets : ValidTarget(t)
  /\ \A t, u \in inventory.targets : t.id = u.id => t = u

ValidPolicyEntry(entry) == entry.refs # {}

ExemptionId(exemption) ==
  [ knowledge |-> exemption.knowledge, target |-> exemption.target,
    capability |-> exemption.capability, owner |-> exemption.owner ]

ValidPlanningPolicy(entries, exemptions) ==
  /\ entries # {}
  /\ \A e \in entries : ValidPolicyEntry(e)
  /\ \A e, f \in entries : e.id = f.id => e = f
  /\ \A x, y \in exemptions : ExemptionId(x) = ExemptionId(y) => x = y

ValidSnapshotEnvelope(snapshot) == snapshot.rules # {}

ValidPlanningRequest(request) ==
  /\ ValidSnapshotEnvelope(request.snapshot)
  /\ \A rule \in request.snapshot.rules : NoSensitivePlanningData(rule.value, FALSE)
  /\ PlanContext(request.context) = PlanContext(request.snapshot.context)
  /\ ValidInventory(request.inventory)
  /\ PlanContext(request.context) = PlanContext(request.inventory.context)
  /\ \A t \in request.inventory.targets : NoSensitivePlanningData(t.own, TRUE)
  /\ ValidPlanningPolicy(request.entries, request.exemptions)

-----------------------------------------------------------------------------
(* Intents, obligations and provenance of one plan *)

KnowledgeRef(rule) == [knowledge |-> rule.id, boundaryKey |-> rule.boundaryKey]

\* The identity of an intent leaves out its dependencies and its tags.
IntentId(intent) ==
  [ target |-> intent.target, capability |-> intent.capability,
    source |-> intent.source, entry |-> intent.entry, input |-> intent.input,
    assertions |-> intent.assertions, thresholds |-> intent.thresholds ]

CreateTestIntent(body, dependencies, tags) ==
  [ id |-> IntentId(body), dependencies |-> dependencies, tags |-> tags ]

\* normalizeTestIntent: the names are looked at again, wherever they come from.
ValidTestIntent(intent) ==
  Screened(intent.id.input) /\ Screened(intent.id.assertions) /\ Screened(intent.id.thresholds)

ObligationId(obligation) ==
  [ target |-> obligation.target, capability |-> obligation.capability,
    source |-> obligation.source, entry |-> obligation.entry ]

CreateObligation(body, mandatory, status, intents) ==
  [ id |-> ObligationId(body), mandatory |-> mandatory, status |-> status,
    intents |-> intents ]

\* normalizeCoverageObligation: what each status says of the intents.
ValidObligation(obligation) ==
  /\ obligation.status \in {"COVERED", "PARTIAL", "UNPLANNED", "EXEMPT"}
  /\ obligation.status \in {"COVERED", "PARTIAL"} <=> obligation.intents # {}

CreateProvenance(intent) ==
  [ intent |-> intent.id, source |-> intent.id.source,
    capability |-> intent.id.capability, target |-> intent.id.target,
    entry |-> intent.id.entry ]

\* The key of a binding is its identity.
ProvenanceOfIntent(item, intent) ==
  /\ item.intent = intent.id
  /\ item.target = intent.id.target
  /\ item.capability = intent.id.capability
  /\ item.entry = intent.id.entry

CoverageSummary(obligations) ==
  [ status \in {"COVERED", "PARTIAL", "UNPLANNED", "EXEMPT"} |->
      Cardinality({ o \in obligations : o.status = status }) ]

\* validateKnowledgeRefsAgainstSnapshot.
KnownRef(request, ref) ==
  \E rule \in request.snapshot.rules : KnowledgeRef(rule) = ref

\* The bindings every part of a plan has to the request; what is missing
\* from the plan is not asked for here.
BoundToRequest(request, id) ==
  /\ \E t \in request.inventory.targets : t.id = id.target
  /\ \E e \in request.entries : e.id = id.entry
  /\ KnownRef(request, id.source)

ValidPlanBindings(request, intents, obligations, provenance) ==
  LET ids == { i.id : i \in intents }
  IN /\ \A i \in intents : /\ BoundToRequest(request, i.id)
                           /\ i.dependencies \subseteq ids \ {i.id}
     /\ \A o \in obligations :
          /\ BoundToRequest(request, o.id)
          /\ \A id \in o.intents : /\ id \in ids
                                   /\ id.target = o.id.target
                                   /\ id.capability = o.id.capability
     /\ \A p \in provenance :
          /\ \E i \in intents : ProvenanceOfIntent(p, i)
          /\ KnownRef(request, p.source)
     /\ \A i \in intents :
          \E p \in provenance : ProvenanceOfIntent(p, i) /\ p.source = i.id.source

\* createTestPlan: each collection has one document per identity.
CreatableTestPlan(request, intents, obligations, provenance) ==
  /\ ValidPlanningRequest(request)
  /\ \A i \in intents : ValidTestIntent(i)
  /\ \A i, j \in intents : i.id = j.id => i = j
  /\ \A o \in obligations : ValidObligation(o)
  /\ \A o, q \in obligations : o.id = q.id => o = q
  /\ ValidPlanBindings(request, intents, obligations, provenance)

CreateTestPlan(request, intents, obligations, provenance) ==
  [ request |-> request, intents |-> intents, obligations |-> obligations,
    summary |-> CoverageSummary(obligations), provenance |-> provenance ]

\* validateTestPlan makes the plan again from its parts.
ValidTestPlan(plan) ==
  /\ CreatableTestPlan(plan.request, plan.intents, plan.obligations, plan.provenance)
  /\ plan = CreateTestPlan(plan.request, plan.intents, plan.obligations, plan.provenance)
=============================================================================
