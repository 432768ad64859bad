------------------------ MODULE KnowledgeResolution ------------------------
(***************************************************************************)
(* packages/knowledge-core: the rules of up to five layers are resolved to *)
(* one effective rule per boundary, and the effective rules of a project   *)
(* become an immutable snapshot.                                           *)
(*                                                                         *)
(* A layer is [level, pack, rules]; only a DOMAIN layer has a pack of its  *)
(* own.  An answer is [ok |-> FALSE] where the code throws.                *)
(*                                                                         *)
(* The value of a rule is any JSON value.  It is given by its leaves, the  *)
(* values in it that are no objects and the objects without a field: a     *)
(* function on their paths, whose items say what matters of the leaf.  A   *)
(* value that is itself a leaf has the one path << >>.                     *)
(***************************************************************************)
EXTENDS Naturals, Sequences, FiniteSets, SequencesExt, TLC

ScopeLevels == << "GLOBAL", "DOMAIN", "PROJECT", "ENVIRONMENT", "RELEASE" >>

SCOPE_PRECEDENCE ==
  [ level \in { ScopeLevels[i] : i \in 1 .. 5 } |->
      10 * ((CHOOSE i \in 1 .. 5 : ScopeLevels[i] = level) - 1) ]

EnforcementStrength == [optional |-> 0, default |-> 10, mandatory |-> 20]

PolicyStrength == [allow |-> 0, strengthen |-> 10, deny |-> 20]

Refused == [ok |-> FALSE]

-----------------------------------------------------------------------------
(* Merging and overriding *)

IsObject(value, path) == \E leaf \in DOMAIN value : IsStrictPrefix(path, leaf)

\* One leaf is in the other's place, or above or below it.
Meets(path, other) ==
  path = other \/ IsStrictPrefix(path, other) \/ IsStrictPrefix(other, path)

\* What the override puts in: all but an object without fields over an object.
Written(base, override) ==
  { path \in DOMAIN override :
      ~ ("empty object" \in override[path] /\ IsObject(base, path)) }

\* Objects are merged field by field; where either side is none, the override
\* replaces the base and all that is below it.
DeepMerge(base, override) ==
  LET written == Written(base, override)
      kept == { path \in DOMAIN base : \A w \in written : ~ Meets(path, w) }
  IN [ path \in kept \cup written |->
         IF path \in written THEN override[path] ELSE base[path] ]

Stronger(strength, current, incoming) ==
  IF strength[current] >= strength[incoming] THEN current ELSE incoming

\* Wrong variant: the policy is the incoming rule's.
ApplyOverrideOpenly(current, incoming, mergeStrategy) ==
  [incoming EXCEPT
     !.value = IF mergeStrategy = "deep-merge"
               THEN DeepMerge(current.value, @) ELSE @,
     !.enforcement = Stronger(EnforcementStrength, current.enforcement, @)]

ApplyOverride(current, incoming, mergeStrategy) ==
  [incoming EXCEPT
     !.value = IF mergeStrategy = "deep-merge"
               THEN DeepMerge(current.value, @) ELSE @,
     !.enforcement = Stronger(EnforcementStrength, current.enforcement, @),
     !.overridePolicy = Stronger(PolicyStrength, current.overridePolicy, @)]

-----------------------------------------------------------------------------
(* One boundary *)

NoEffectiveChange(effective, incoming) ==
  /\ effective.enabled = incoming.enabled
  /\ effective.value = incoming.value

\* The three refusals of the loop of resolveBoundary; deny is asked first.
OverrideRefused(effective, incoming) ==
  \/ /\ effective.overridePolicy = "deny"
     /\ ~NoEffectiveChange(effective, incoming)
  \/ /\ effective.overridePolicy # "deny"
     /\ effective.enforcement = "mandatory"
     /\ ~incoming.enabled
  \/ /\ effective.overridePolicy = "strengthen"
     /\ incoming.overrideIntent # "strengthen" \/ ~incoming.enabled

OverrideAction ==
  [deny |-> "NOOP_PROTECTED", strengthen |-> "STRENGTHEN", allow |-> "OVERRIDE"]

EffectiveAfter(effective, incoming) ==
  CASE OverrideAction[effective.overridePolicy] = "NOOP_PROTECTED" -> effective
    [] OverrideAction[effective.overridePolicy] = "STRENGTHEN" ->
         ApplyOverride(effective, incoming, "deep-merge")
    [] OverrideAction[effective.overridePolicy] = "OVERRIDE" ->
         ApplyOverride(effective, incoming, incoming.mergeStrategy)

\* The effective rule after each of the rules.
EffectiveRules(ordered) ==
  LET effective[i \in DOMAIN ordered] ==
        IF i = 1 THEN ordered[1] ELSE EffectiveAfter(effective[i - 1], ordered[i])
  IN effective

ResolveBoundary(ordered) ==
  LET effective == EffectiveRules(ordered)
  IN IF \E i \in 2 .. Len(ordered) : OverrideRefused(effective[i - 1], ordered[i])
     THEN Refused
     ELSE [ok |-> TRUE, rule |-> effective[Len(ordered)]]

-----------------------------------------------------------------------------
(* All layers *)

\* validateScopeBinding.
ScopeBound(scope, context) ==
  IF scope.level = "DOMAIN" THEN scope.key \in context.domainPacks
  ELSE scope.key = context[scope.level]

ValidRule(rule, context) ==
  /\ rule.status = "PUBLISHED"
  /\ rule.enforcement \in DOMAIN EnforcementStrength
  /\ rule.overridePolicy \in DOMAIN PolicyStrength
  /\ ScopeBound(rule.scope, context)

\* addRules: a rule is stored in the layer its scope names.
Stored(layer, rule, context) ==
  /\ ValidRule(rule, context)
  /\ rule.scope.level = layer.level
  /\ rule.scope.key = (IF layer.level = "DOMAIN" THEN layer.pack
                       ELSE context[layer.level])

\* collectCandidates.
Collected(layers, context) ==
  \A layer \in layers :
    /\ layer.level = "DOMAIN" => layer.pack \in context.domainPacks
    /\ \A rule \in layer.rules : Stored(layer, rule, context)

Candidates(layers) == UNION { layer.rules : layer \in layers }

UniqueRuleIds(candidates) ==
  \A r, s \in candidates : r.id = s.id => r = s

\* Two packs have the same precedence.
NoSameLayerConflicts(candidates) ==
  \A r, s \in candidates :
    r.boundaryKey = s.boundaryKey /\ r.scope.level = s.scope.level => r = s

\* The members of a set by a rank that no two of them share.
SortedBy(members, rank) ==
  LET before(x) == { y \in members : rank[y] < rank[x] }
  IN [n \in 1 .. Cardinality(members) |->
        CHOOSE x \in members : Cardinality(before(x)) = n - 1]

\* The candidates of a boundary by precedence.
Ordered(candidates, boundaryKey) ==
  LET at == { r \in candidates : r.boundaryKey = boundaryKey }
  IN SortedBy(at, [r \in at |-> SCOPE_PRECEDENCE[r.scope.level]])

ResolveKnowledge(layers, context) ==
  LET candidates == Candidates(layers)
      resolved == [b \in { r.boundaryKey : r \in candidates } |->
                     ResolveBoundary(Ordered(candidates, b))]
  IN IF /\ Collected(layers, context)
        /\ UniqueRuleIds(candidates)
        /\ NoSameLayerConflicts(candidates)
        /\ \A b \in DOMAIN resolved : resolved[b].ok
     THEN [ ok |-> TRUE, context |-> context,
            rules |-> { resolved[b].rule : b \in DOMAIN resolved } ]
     ELSE Refused

-----------------------------------------------------------------------------
(* The snapshot: what planning reads of a rule; its digest stands for it. *)

BuildKnowledgeSnapshot(resolved) ==
  [ context |-> resolved.context,
    rules |-> { [ id |-> r.id, boundaryKey |-> r.boundaryKey, tags |-> r.tags,
                  value |-> r.value ] : r \in resolved.rules } ]
=============================================================================
