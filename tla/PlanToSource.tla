---------------------------- MODULE PlanToSource ----------------------------
(***************************************************************************)
(* The way from knowledge to a k6 script, over the packages whose          *)
(* functions the modules below model: layers are resolved, the snapshot is *)
(* built, tests are planned, the plan is frozen, its intents are compiled, *)
(* rendered and statically validated.  Each step is one call; "given" is   *)
(* what the last calls were given and "made" what the last one answered.   *)
(* A step forgets what its answer does not depend on.                      *)
(***************************************************************************)
EXTENDS K6Rendering

CONSTANTS Context,       \* of the knowledge and of the plan
          Layerings,     \* the sets of layers that may be resolved
          Requests(_),   \* for a snapshot: the [request, catalog] pairs
          Orders(_)      \* for intents: the ranks digests may give

\* The snapshots planning may be asked about.
Snapshots ==
  LET resolved == { ResolveKnowledge(layers, Context) : layers \in Layerings }
  IN { BuildKnowledgeSnapshot(r) : r \in { answer \in resolved : answer.ok } }

\* No leaf is below another.
ValueTyped(value) ==
  /\ DOMAIN value \subseteq Seq(STRING)
  /\ \A leaf \in DOMAIN value : ~ IsObject(value, leaf)

\* A rule has its fields and is of a known level, and there are finitely many.
LayersTyped(layers) ==
  /\ IsFiniteSet(Candidates(layers))
  /\ \A layer \in layers : layer.level \in DOMAIN SCOPE_PRECEDENCE
  /\ \A rule \in Candidates(layers) :
       /\ {"boundaryKey", "enabled", "enforcement", "overridePolicy", "value"}
            \subseteq DOMAIN rule
       /\ rule.enabled \in BOOLEAN
       /\ ValueTyped(rule.value)

\* A request carries the snapshot it is about, and lists are finite.
RequestTyped(request, snapshot) ==
  /\ request.snapshot = snapshot
  /\ IsFiniteSet(request.snapshot.rules)
  /\ IsFiniteSet(request.inventory.targets)
  /\ IsFiniteSet(request.entries)
  /\ IsFiniteSet(UNION { e.refs : e \in request.entries })

ASSUME LayeringAssumption == \A layers \in Layerings : LayersTyped(layers)

ASSUME RequestAssumption ==
  \A snapshot \in Snapshots : \A input \in Requests(snapshot) :
    RequestTyped(input.request, snapshot)

VARIABLES stage, given, made

vars == << stage, given, made >>

Nothing == << >>

Init == stage = "layers" /\ given = Nothing /\ made = Nothing

Resolve ==
  /\ stage = "layers"
  /\ \E layers \in Layerings : /\ given' = layers
                               /\ made' = ResolveKnowledge(layers, Context)
  /\ stage' = "resolved"

BuildSnapshot ==
  /\ stage = "resolved" /\ made.ok
  /\ given' = Nothing
  /\ made' = BuildKnowledgeSnapshot(made)
  /\ stage' = "snapshot"

Plan ==
  /\ stage = "snapshot"
  /\ \E input \in Requests(made) :
       /\ given' = input
       /\ made' = PlanTests(input.request, input.catalog)
  /\ stage' = "planned"

\* Governance freezes a plan as it is, which TestPlanGovernance is about.
Freeze ==
  /\ stage = "planned" /\ made.ok
  /\ given' = Nothing
  /\ made' = made.plan.intents
  /\ stage' = "frozen"

\* Digests differ.
Ranked(order, intents) ==
  /\ order.operations \in Injection({ i.id : i \in intents }, Int)
  /\ order.groups \in Injection({ i.id.target : i \in intents }, Int)

Compile ==
  /\ stage = "frozen"
  /\ \E order \in { o \in Orders(made) : Ranked(o, made) } :
       /\ given' = [intents |-> made, order |-> order]
       /\ made' = CompileK6ApiExecutionSpec(made, order)
  /\ stage' = "compiled"

Render ==
  /\ stage = "compiled" /\ made.ok
  /\ made' = RenderK6ApiSource(made)
  /\ stage' = "rendered"
  /\ UNCHANGED given

Validate ==
  /\ stage = "rendered" /\ made.ok
  /\ made' = ValidateK6ApiSourceStatically(made)
  /\ stage' = "validated"
  /\ UNCHANGED given

Next == \/ Resolve \/ BuildSnapshot \/ Plan \/ Freeze
        \/ Compile \/ Render \/ Validate

Spec == Init /\ [][Next]_vars

-----------------------------------------------------------------------------
(* Resolution *)

StrengthOf(rule) == PolicyStrength[rule.overridePolicy]

\* The rules of a boundary that had a say: up to the first that denies.
Heard(ordered) ==
  { i \in DOMAIN ordered : \A j \in 1 .. i - 1 : ordered[j].overridePolicy # "deny" }

HasField(value, path) == path \in DOMAIN value \/ IsObject(value, path)

\* A later rule that had a say put something that is no object above the path.
Overwritten(ordered, i, path) ==
  \E k \in Heard(ordered) : \E other \in DOMAIN ordered[k].value :
    /\ k > i
    /\ IsStrictPrefix(other, path)
    /\ "empty object" \notin ordered[k].value[other]

\* What LaterLayersDoNotWeaken says of one boundary and its effective rule.
NotWeakened(ordered, effective) ==
  /\ \A i \in Heard(ordered) :
       /\ EnforcementStrength[ordered[i].enforcement]
            <= EnforcementStrength[effective.enforcement]
       /\ StrengthOf(ordered[i]) <= StrengthOf(effective)
       /\ ordered[i].enforcement = "mandatory" /\ ordered[i].enabled => effective.enabled
       /\ ordered[i].overridePolicy # "allow" =>
            \A path \in DOMAIN ordered[i].value :
              HasField(effective.value, path) \/ Overwritten(ordered, i, path)
  /\ \A i \in DOMAIN ordered \ Heard(ordered) : NoEffectiveChange(effective, ordered[i])

(* Whatever the layers are, a boundary that resolves is at least as        *)
(* strongly enforced and protected as every rule that had a say in it, is  *)
(* enabled if a mandatory rule enabled it, and after a denying rule does   *)
(* not change; and of a rule that could only be strengthened it keeps      *)
(* every field, however deep, unless a later rule put something that is no *)
(* object in place of an object above it, which no policy forbids          *)
(* (resolveBoundary: the strongest so far is carried along the chain;      *)
(* deepMerge).                                                             *)
LaterLayersDoNotWeaken ==
  stage = "resolved" /\ made.ok =>
    \A effective \in made.rules :
      NotWeakened(Ordered(Candidates(given), effective.boundaryKey), effective)

-----------------------------------------------------------------------------
(* Planning *)

Usable(request) == Prepared(request, EnumerateCandidates(request))

SelfSupporting(request, candidates) ==
  \A c \in candidates : Supported(request, c, candidates)

ObligationOf(c) ==
  [ target |-> c.target.id, capability |-> c.ref, source |-> KnowledgeRef(c.rule),
    entry |-> c.entry.id ]

\* All candidates that some set of usable candidates supports.
Supportable(request) ==
  UNION { s \in SUBSET Usable(request) : SelfSupporting(request, s) }

(* What a plan covers is the largest set of usable candidates in which     *)
(* every required dependency is met within the set: removing candidates    *)
(* pass by pass (resolveRequiredDependencies) neither stops early nor      *)
(* takes one too many.                                                     *)
LargestSupportedPlan ==
  stage = "planned" /\ made.ok =>
    { o.id : o \in { q \in made.plan.obligations : q.status = "COVERED" } }
      = { ObligationOf(c) : c \in Supportable(given.request) }

WellFormed(input) ==
  /\ ValidPlanningRequest(input.request)
  /\ ValidCatalog(input.catalog)
  /\ input.request.catalog = input.catalog

\* Intents that wait for each other, or for themselves.
Circle(request) ==
  LET supportable == Supportable(request)
  IN \E s \in (SUBSET supportable) \ {{}} :
       \A c \in s : DependenciesOf(request, c, supportable) \cap s # {}

\* The fields a capability asks for.
Wanted(request, c) ==
  LET capability == Capability(request.catalog, c.ref)
  IN { f.name : f \in UNION { ToSet(capability.input), ToSet(capability.assertions),
                              ToSet(capability.thresholds) } }

DerivedMistyped(request) ==
  \E c \in Usable(request) : \E name \in Wanted(request, c) :
    Resolvable(name, c) /\ "mistyped" \in ResolveField(name, c)

\* A rule that describes secrets or scripts, as a rule may, in a field it has to
\* give to an intent.
DerivedDescription(request) ==
  \E c \in Usable(request) :
    \E name \in Wanted(request, c)
                   \ (DOMAIN c.target.own \cup DOMAIN c.target.attributes) :
      FieldItems(c.rule.value, name) \cap {"named", "script"} # {}

\* The strategy came upon a contract the catalog should not have accepted.
ContractMalformed(request) ==
  \E c \in Asked(request, EnumerateCandidates(request)) :
    InvalidContract(Capability(request.catalog, c.ref), c)

(* A request that is well-formed is refused for four causes only: intents  *)
(* in a circle, a contract with a field that has no name where nothing     *)
(* before it is missing (the catalog does not look at the fields), a       *)
(* derived value of another type than its contract says, or a rule with    *)
(* names in it that knowledge may hold and an intent may not.  Otherwise   *)
(* it gives a result that the validator of results, which every later      *)
(* reader calls, accepts.  A capability that is missing, a field that      *)
(* cannot be derived or a dependency that is not met never fails it.       *)
RefusedForCause ==
  stage = "planned" /\ WellFormed(given) =>
    /\ made.ok <=> /\ ~Circle(given.request)
                   /\ ~ContractMalformed(given.request)
                   /\ ~DerivedMistyped(given.request)
                   /\ ~DerivedDescription(given.request)
    /\ made.ok => ValidPlanningResult(made)

-----------------------------------------------------------------------------
(* Rendering *)

Calls == [i \in DOMAIN made.source.calls |-> made.source.calls[i].id]

(* A rendered script calls every intent of the frozen plan once, each      *)
(* after the intents it depends on, in its own group or an earlier one.    *)
DependenciesFirst ==
  stage = "rendered" /\ made.ok =>
    /\ Len(Calls) = Cardinality(given.intents)
    /\ \A i \in given.intents :
         \E n \in DOMAIN Calls : /\ Calls[n] = i.id
                                 /\ i.dependencies \subseteq { Calls[m] : m \in 1 .. n - 1 }

\* No digest order puts a dependency into a later group.
GroupsInOrder ==
  \A i \in given.intents : \A d \in i.dependencies :
    given.order.groups[d.target] <= given.order.groups[i.id.target]

Speakable(refused) ==
  \A i \in given.intents : Texts(i.id) \cap refused = {}

\* What the limits allow, of the intents themselves.
Bounded(intents) ==
  /\ Cardinality(intents) <= Limits.operations
  /\ Cardinality({ i.id.target : i \in intents }) <= Limits.groups
  /\ \A i \in intents : /\ Cardinality(DOMAIN i.id.assertions) <= Limits.assertions
                        /\ Cardinality(DOMAIN i.id.thresholds) <= Limits.thresholds

(* Of the intents a compiler accepted, exactly those are rendered that     *)
(* keep the limits, need no query parameter, hold no unsafe text and whose *)
(* groups the digests happened to put in order; and a rendered script      *)
(* passes the independent validator exactly if some intent asserts on      *)
(* JSON, some has a threshold, none has both rates, none holds a keyword.  *)
AcceptedExactly ==
  /\ stage = "rendered" =>
       (made.ok <=> /\ Bounded(given.intents)
                    /\ \A i \in given.intents : "queryParameters" \notin DOMAIN i.id.input
                    /\ Speakable({"unsafe"})
                    /\ GroupsInOrder)
  /\ stage = "validated" =>
       (made.ok <=>
          /\ \E i \in given.intents : DOMAIN i.id.assertions \ {"statusCodes"} # {}
          /\ \E i \in given.intents : DOMAIN i.id.thresholds # {}
          /\ \A i \in given.intents :
               ~({"maxFailureRate", "minChecksRate"} \subseteq DOMAIN i.id.thresholds)
          /\ Speakable({"keyword"}))
=============================================================================
