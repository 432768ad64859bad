--------------------------- MODULE MCPlanToSource ---------------------------
EXTENDS PlanToSource

MCContext ==
  [ GLOBAL |-> "g", domainPacks |-> {"pack"}, PROJECT |-> "p", ENVIRONMENT |-> "e",
    RELEASE |-> "r" ]

\* Five of the six operations, and two of the thresholds or assertions.
MCLimits == [groups |-> 2, operations |-> 5, assertions |-> 2, thresholds |-> 2]

-----------------------------------------------------------------------------
(* Layers *)

Good == {}

\* A rule's value with one field, which is a leaf.
Field(name) == << name >> :> Good

\* An object below that field, none, or one without fields, and a rule's value
\* that is no object itself, or one without fields.
Nested == << "maxDurationMs", "ms" >> :> Good
Hollow == << "maxDurationMs" >> :> {"empty object"}
Bare == << >> :> Good
Empty == << >> :> {"empty object"}

Rule(level, enforcement, policy, enabled, intent, merge, value) ==
  [ id |-> level, boundaryKey |-> "b", status |-> "PUBLISHED", tags |-> {},
    scope |-> [ level |-> level,
                key |-> IF level = "DOMAIN" THEN "pack" ELSE MCContext[level] ],
    enforcement |-> enforcement, overridePolicy |-> policy, enabled |-> enabled,
    overrideIntent |-> intent, mergeStrategy |-> merge, value |-> value ]

Plain(level) ==
  Rule(level, "default", "allow", TRUE, "none", "replace", Field("maxDurationMs"))

Rules(level, intents) ==
  { Rule(level, enforcement, policy, enabled, intent, "replace", Field(name)) :
      enforcement \in {"default", "mandatory"}, policy \in {"allow", "strengthen", "deny"},
      enabled \in BOOLEAN, intent \in intents, name \in {"maxDurationMs", "minChecksRate"} }

Merging(level) ==
  { Rule(level, "optional", policy, TRUE, "strengthen", merge, value) :
      policy \in {"allow", "strengthen"}, merge \in {"replace", "deep-merge"},
      value \in {Field("maxDurationMs"), Field("minChecksRate"), Nested, Hollow, Bare, Empty} }

\* The first rule of a boundary is not merged.
First == { r \in Merging("GLOBAL") : r.mergeStrategy = "replace" }

Strengthening(level) ==
  { r \in Merging(level) : r.overridePolicy = "strengthen" /\ r.mergeStrategy = "replace" }

Layer(rule) == [level |-> rule.scope.level, pack |-> "pack", rules |-> {rule}]

Chains ==
  { {Layer(g), Layer(d), Layer(p)} :
      g \in Rules("GLOBAL", {"none"}), d \in Rules("DOMAIN", {"none", "strengthen"}),
      p \in { r \in Rules("PROJECT", {"none", "strengthen"}) : r.enforcement = "default" } }
  \cup { {Layer(g), Layer(p), Layer(r)} :
           g \in First, p \in Merging("PROJECT"), r \in Merging("RELEASE") }
  \cup { {Layer(g), Layer(p), Layer(e), Layer(r)} :
           g \in First, p \in Strengthening("PROJECT"),
           e \in Strengthening("ENVIRONMENT"), r \in {Plain("RELEASE")} \cup Strengthening("RELEASE") }

\* Two boundaries, and what resolution refuses.
Others ==
  { {Layer(Plain("GLOBAL")),
     Layer([Plain("PROJECT") EXCEPT !.boundaryKey = "c", !.value = Field("operation")])},
    {Layer(Plain("GLOBAL")), Layer([Plain("PROJECT") EXCEPT !.id = "GLOBAL"])},
    {Layer(Plain("GLOBAL")), Layer([Plain("PROJECT") EXCEPT !.status = "DRAFT"])},
    {Layer(Plain("GLOBAL")), [Layer(Plain("PROJECT")) EXCEPT !.level = "RELEASE"]},
    {[Layer(Plain("DOMAIN")) EXCEPT !.pack = "unbound"]},
    {[Layer(Plain("GLOBAL")) EXCEPT !.rules = @ \cup {[Plain("GLOBAL") EXCEPT !.id = "h"]}]} }

\* One rule of the project with a field that would be screened in an intent.
Describing ==
  { {Layer([Plain("PROJECT") EXCEPT !.value = path :> {item}])} :
      path \in {<< "maxDurationMs" >>, << "maxDurationMs", "ms" >>, << >>},
      item \in {"named", "script", "secret", "mistyped"} }

MCLayerings == Chains \cup Others \cup Describing

-----------------------------------------------------------------------------
(* deepMerge as it is written, on JSON values with two field names and two *)
(* levels: what DeepMerge makes of their leaves is the leaves of its value.*)

Leaf(side) == [fields |-> << >>, leaf |-> side]
Object(fields) == [fields |-> fields, leaf |-> "none"]

Objects(values) ==
  { Object(fields) : fields \in UNION { [names -> values] : names \in SUBSET {"a", "b"} } }

\* Its leaves say which side they are from.
Values(side) ==
  {Leaf(side)} \cup Objects({Leaf(side)} \cup Objects({Leaf(side), Object(<< >>)}))

RECURSIVE Merged(_, _)
Merged(base, override) ==
  IF base.leaf # "none" \/ override.leaf # "none" THEN override
  ELSE Object([ name \in DOMAIN base.fields \cup DOMAIN override.fields |->
                  CASE name \notin DOMAIN override.fields -> base.fields[name]
                    [] name \notin DOMAIN base.fields -> override.fields[name]
                    [] OTHER -> Merged(base.fields[name], override.fields[name]) ])

RECURSIVE Leaves(_)
Leaves(value) ==
  IF value.fields = << >>
  THEN << >> :> {IF value.leaf = "none" THEN "empty object" ELSE value.leaf}
  ELSE LET below == [name \in DOMAIN value.fields |-> Leaves(value.fields[name])]
           paths == UNION { { << name >> \o path : path \in DOMAIN below[name] } :
                              name \in DOMAIN below }
       IN [path \in paths |-> below[path[1]][Tail(path)]]

ASSUME DeepMergeAsWritten ==
  \A base \in Values("base"), override \in Values("override") :
    /\ Leaves(Merged(base, override)) = DeepMerge(Leaves(base), Leaves(override))
    /\ ValueTyped(Leaves(base))

-----------------------------------------------------------------------------
(* Planning *)

None == << >>

Contract(required, optional) ==
  SetToSeq({ [name |-> n, required |-> TRUE] : n \in required })
    \o SetToSeq({ [name |-> n, required |-> FALSE] : n \in optional })

Cap(id, dependencies) ==
  [ id |-> id, kinds |-> {"api"}, enabled |-> TRUE, dependencies |-> dependencies,
    input |-> Contract({"operation"}, {"queryParameters", "requestBodyArtifact"}),
    assertions |-> Contract({}, {"statusCodes", "jsonPathExists"}),
    thresholds |-> Contract({}, ThresholdFields) ]

Dependencies(scopes) ==
  {{}} \cup { {[capability |-> c, required |-> q, scope |-> s]} :
                c \in {"A", "B", "C"}, q \in BOOLEAN, s \in scopes }

Target(id, attributes) ==
  [ id |-> id, kind |-> "api", tags |-> {}, attributes |-> attributes,
    own |-> [field \in TARGET_FIELDS \ {"locator"} |-> Good] ]

Entry(id, targets, refs) ==
  [ id |-> id, mandatory |-> id = "e1", refs |-> refs,
    selectors |-> [ knowledge |-> {}, boundaryKeys |-> {}, knowledgeTags |-> {},
                    targets |-> targets, kinds |-> {}, targetTags |-> {} ] ]

Request(snapshot, catalog, targets, entries, exemptions) ==
  [ context |-> MCContext, snapshot |-> snapshot, catalog |-> catalog,
    inventory |-> [context |-> MCContext, targets |-> targets],
    entries |-> entries, exemptions |-> exemptions ]

Input(request) == [request |-> request, catalog |-> request.catalog]

Asserting == [operation |-> Good, statusCodes |-> Good, jsonPathExists |-> Good]

\* Six candidates; capability C cannot be derived for the second target.
Structures(snapshot) ==
  { Input(Request(snapshot,
      {Cap("A", a), Cap("B", b),
       [Cap("C", c) EXCEPT !.input = Contract({"operation", "requestBodyArtifact"}, {})]},
      { Target("t1", Asserting @@ [requestBodyArtifact |-> Good]), Target("t2", Asserting) },
      { Entry("e1", {}, {"A", "B", "C"}) }, {})) :
      a \in Dependencies({"same-target", "any-target", "suite"}),
      b \in Dependencies({"same-target", "any-target"}),
      c \in Dependencies({"same-target", "any-target"}) }

\* What the first target says, the second only answers with a status.
Contracts(snapshot) ==
  LET optional == {"queryParameters", "requestBodyArtifact", "statusCodes", "jsonPathExists"}
                    \cup ThresholdFields
      good == { [n \in names \cup {"operation"} |-> Good] : names \in SUBSET optional }
      spoilt == { [Asserting @@ [maxFailureRate |-> Good] EXCEPT ![n] = {item}] :
                    n \in {"operation", "statusCodes", "maxFailureRate"},
                    item \in {"mistyped", "unusable", "unsafe", "keyword", "named", "script", "secret"} }
  IN { Input(Request(snapshot,
         {Cap("A", {}),
          Cap("B", {[capability |-> "A", required |-> FALSE, scope |-> "any-target"]})},
         { Target("t1", attributes),
           Target("t2", [operation |-> Good, statusCodes |-> Good]) },
         { Entry("e1", {"t1"}, {"A"}), Entry("e2", {"t2"}, {"B"}) }, {})) :
         attributes \in good \cup spoilt \cup {[statusCodes |-> Good]} }

Exemption(target, capability) ==
  [knowledge |-> "PROJECT", target |-> target, capability |-> capability, owner |-> "o"]

\* Exemptions, and capabilities that are disabled, for other targets, or gone.
Exemptions(snapshot) ==
  LET needs == {[capability |-> "A", required |-> TRUE, scope |-> "same-target"]}
      catalogs == { {Cap("A", {}), Cap("B", needs)},
                    {[Cap("A", {}) EXCEPT !.enabled = FALSE], Cap("B", needs)},
                    {[Cap("A", {}) EXCEPT !.kinds = {"web"}], Cap("B", needs)},
                    {[Cap("A", {}) EXCEPT !.kinds = {"any"}], Cap("B", {})},
                    {Cap("B", needs)} }
  IN { Input(Request(snapshot, catalog, {Target("t1", Asserting), Target("t2", Asserting)},
                     {Entry("e1", {}, {"A", "B"})}, exemptions)) :
         catalog \in catalogs,
         exemptions \in SUBSET { Exemption("t1", "A"), Exemption("t2", "B") } }

\* A rule's field that is derived, hidden by the target's, or of a candidate
\* that is not planned anyway.
Descriptions(snapshot) ==
  { Input(Request(snapshot, {Cap("A", {})}, {Target("t1", attributes)},
                  {Entry("e1", {}, {"A"})}, {})) :
      attributes \in {Asserting, Asserting @@ [maxDurationMs |-> Good], [statusCodes |-> Good]} }

\* Contracts with a field that has no name, before or after one that cannot be
\* derived or not at all, of capabilities that are planned or not; and a field
\* of the target itself, which is missing, of another type, or good.
Invalid(snapshot) ==
  LET nameless == [name |-> "", required |-> FALSE]
      missing == [name |-> "gone", required |-> TRUE]
      asked == << [name |-> "operation", required |-> TRUE] >>
      located == << [name |-> "locator", required |-> TRUE] >>
      spoil(capability) ==
        { capability, [capability EXCEPT !.input = << nameless >> \o @],
          [capability EXCEPT !.thresholds = @ \o << nameless, missing >>],
          [capability EXCEPT !.input = asked \o << missing, nameless >>],
          [capability EXCEPT !.input = @ \o << missing >>, !.thresholds = << nameless >>],
          [capability EXCEPT !.input = located \o @] }
      places == { Target("t1", Asserting) } \cup
        { [Target("t1", Asserting) EXCEPT !.own = @ @@ [locator |-> items]] :
            items \in {Good, {"mistyped"}, {"secret"}} }
  IN { Input(Request(snapshot, {a, Cap("B", {})}, {place},
                     {Entry("e1", {}, {"A", "B"})}, exemptions)) :
         a \in spoil(Cap("A", {})) \cup
                { [b EXCEPT !.enabled = FALSE] : b \in spoil(Cap("A", {})) },
         place \in places,
         exemptions \in {{}, {[ knowledge |-> "RELEASE", target |-> "t1",
                                capability |-> "A", owner |-> "o" ]}} }

\* Requests that are not well-formed.
Malformed(snapshot) ==
  LET request == Request(snapshot, {Cap("A", {})}, {Target("t1", Asserting)},
                         {Entry("e1", {}, {"A"})}, {})
  IN { Input([request EXCEPT !.context.RELEASE = "s"]),
       Input([request EXCEPT !.inventory.context.PROJECT = "q"]),
       Input([request EXCEPT !.inventory.targets = @ \cup {Target("t1", None)}]),
       Input([request EXCEPT !.entries = @ \cup {Entry("e1", {"t1"}, {"A"})}]),
       [request |-> request, catalog |-> {[Cap("A", {}) EXCEPT !.enabled = FALSE]}] }

\* One snapshot gets the structures, one of the project's rule the contracts.
MCRequests(snapshot) ==
  CASE Cardinality(snapshot.rules) > 1 -> Exemptions(snapshot)
    [] \A r \in snapshot.rules : r.id = "GLOBAL" /\ << "maxDurationMs" >> \in DOMAIN r.value ->
         Structures(snapshot)
    [] \E r \in snapshot.rules : Items(r.value) # {} -> Descriptions(snapshot)
    [] \A r \in snapshot.rules : r.id = "RELEASE" /\ r.value = Field("maxDurationMs") ->
         Invalid(snapshot)
    [] \A r \in snapshot.rules : r.id = "PROJECT" /\ r.value = Field("maxDurationMs") ->
         Contracts(snapshot) \cup Exemptions(snapshot)
    [] OTHER -> Malformed(snapshot)

-----------------------------------------------------------------------------
(* Digests: both directions for the operations, any order of the groups. *)

MCOrders(intents) ==
  LET ids == FoldSet(LAMBDA i, s : Append(s, i.id), << >>, intents)
      targets == { i.id.target : i \in intents }
      rank == AntiFunction(ids)
  IN [ operations : {rank, [id \in DOMAIN rank |-> - rank[id]]},
       groups : Injection(targets, 1 .. Cardinality(targets)) ]
=============================================================================
