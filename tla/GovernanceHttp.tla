--------------------------- MODULE GovernanceHttp ---------------------------
(***************************************************************************)
(* The HTTP boundary of the read-only API (governance-http, test-plan-http *)
(* and their handlers): the fixed-window rate limiter                      *)
(* (InMemoryFixedWindowRateLimiter) as an operator on its map, which call  *)
(* of which query service a request becomes, and what that call asks of    *)
(* authorization.                                                          *)
(*                                                                         *)
(* The map is a sequence: it keeps the order in which keys were first set, *)
(* by which the sort of evictIfNeeded resolves ties.  A request is a       *)
(* method, the handler its path belongs to ("none" for any other path),    *)
(* whether its path segments decode, its query parameters with the number  *)
(* of their values, and whether the service can use these values.          *)
(***************************************************************************)
EXTENDS Integers, Sequences, SequencesExt, FiniteSetsExt

CONSTANTS
  WindowMs,   \* length of a window
  Limit,      \* requests allowed per window
  MaxEntries  \* windows remembered

ASSUME LimiterAssumption == {WindowMs, Limit, MaxEntries} \subseteq Nat \ {0}

-----------------------------------------------------------------------------
(* The rate limiter                                                        *)

WindowStart(at) == (at \div WindowMs) * WindowMs

\* The state consume finds for a key, or makes when the key is unknown or its
\* window is over.
StateOf(windows, key, at) ==
  LET known == {i \in DOMAIN windows : windows[i].key = key
                                       /\ windows[i].windowStart = WindowStart(at)}
  IN  IF known = {} THEN [key |-> key, windowStart |-> WindowStart(at), count |-> 0, touchedAt |-> at]
      ELSE windows[CHOOSE i \in known : TRUE]

Allowed(windows, key, at) == StateOf(windows, key, at).count < Limit

\* The request is counted when it is allowed, and touches its window either way.
Touched(windows, key, at) ==
  LET state == StateOf(windows, key, at)
  IN  [state EXCEPT !.count = IF @ < Limit THEN @ + 1 ELSE @, !.touchedAt = at]

\* Map.set: an existing key keeps its place.
Set(windows, state) ==
  IF \E i \in DOMAIN windows : windows[i].key = state.key
  THEN [i \in DOMAIN windows |-> IF windows[i].key = state.key THEN state ELSE windows[i]]
  ELSE Append(windows, state)

\* Wrong variant: the window that was set first goes, however lately it was touched.
EvictFirst(windows) == IF Len(windows) <= MaxEntries THEN windows ELSE Tail(windows)

\* At most one key is over the limit, since every consume evicts: the one
\* touched longest ago, the earliest inserted among equals.
EvictIfNeeded(windows) ==
  IF Len(windows) <= MaxEntries THEN windows
  ELSE LET Older(i, j) == \/ windows[i].touchedAt < windows[j].touchedAt
                          \/ windows[i].touchedAt = windows[j].touchedAt /\ i < j
           oldest == CHOOSE i \in DOMAIN windows :
                       \A j \in DOMAIN windows \ {i} : Older(i, j)
       IN  RemoveAt(windows, oldest)

Consume(windows, key, at) == EvictIfNeeded(Set(windows, Touched(windows, key, at)))

-----------------------------------------------------------------------------
(* Routes                                                                  *)

PageParameters == {"sortBy", "direction", "limit", "cursor"}

KNOWLEDGE_QUERY_PARAMETERS ==
  {"status", "riskLevel", "id", "boundaryKey", "owner", "enabled", "search"} \union PageParameters
SNAPSHOT_QUERY_PARAMETERS == {"environmentId", "releaseId", "createdBy"} \union PageParameters
TEST_PLAN_QUERY_PARAMETERS ==
  {"status", "snapshotId", "catalogVersion", "environmentId", "releaseId"} \union PageParameters

\* ROUTES of each router: the parameters a handler's path may carry.
KnowledgeRoutes ==
  [ listKnowledge |-> KNOWLEDGE_QUERY_PARAMETERS, getReviewTimeline |-> {}, getKnowledge |-> {},
    listSnapshots |-> SNAPSHOT_QUERY_PARAMETERS, getSnapshot |-> {} ]
TestPlanRoutes ==
  [ getCoverage |-> {}, getProvenance |-> {}, getTimeline |-> {}, getPlan |-> {},
    listPlans |-> TEST_PLAN_QUERY_PARAMETERS ]

\* parseQuery: only parameters of the route, each with one value.
ParsedQuery(call, allowed) ==
  /\ DOMAIN call.query \subseteq allowed
  /\ \A parameter \in DOMAIN call.query : call.query[parameter] = 1

Matches(call, routes) ==
  /\ call.handler \in DOMAIN routes
  /\ call.method = "GET"
  /\ call.decodes
  /\ ParsedQuery(call, routes[call.handler])

MatchReadOnlyRoute(call) == Matches(call, KnowledgeRoutes)
MatchReadOnlyTestPlanRoute(call) == Matches(call, TestPlanRoutes)

\* Paths below /test-plans go to the one transport, all others to the other.
Routed(call) ==
  IF call.handler \in DOMAIN TestPlanRoutes THEN MatchReadOnlyTestPlanRoute(call)
  ELSE MatchReadOnlyRoute(call)

\* The action each handler's service call asks authorization for.
KnowledgeAction ==
  [ listKnowledge |-> "KNOWLEDGE_READ", getKnowledge |-> "KNOWLEDGE_READ",
    getReviewTimeline |-> "AUDIT_READ",
    listSnapshots |-> "SNAPSHOT_READ", getSnapshot |-> "SNAPSHOT_READ" ]
TestPlanAction ==
  [ listPlans |-> "PLAN_READ", getPlan |-> "PLAN_READ", getCoverage |-> "PLAN_READ",
    getProvenance |-> "PLAN_READ", getTimeline |-> "PLAN_AUDIT_READ" ]

ActionOf(call) ==
  IF call.handler \in DOMAIN TestPlanRoutes THEN TestPlanAction[call.handler]
  ELSE KnowledgeAction[call.handler]

\* The values of the query are looked at before authorization is asked only for
\* a list of snapshots, and after it everywhere else.
UnusableBefore(call) == call.handler = "listSnapshots" /\ ~call.usable
UnusableAfter(call) == call.handler # "listSnapshots" /\ ~call.usable
=============================================================================
