-------------------------- MODULE KnowledgeQueries --------------------------
(***************************************************************************)
(* The lists of the read-only governance API beside the commands that      *)
(* change what they list: a client pages through the knowledge or the      *)
(* snapshots of a project while governance goes on.  Every page is one     *)
(* REPEATABLE READ transaction.                                            *)
(***************************************************************************)
EXTENDS KnowledgeSnapshots, Paging

CONSTANTS
  KeyRank,       \* the order of the record keys' text
  SnapshotRank,  \* and of the snapshot ids' text
  Queries,       \* what clients ask for: filters, sort field and direction
  PageLimits     \* and the page limits they send; 0 is none

SnapshotIds == {s.snapshotId : s \in Snapshots}

ASSUME RankAssumption ==
  /\ KeyRank \in [Keys -> Nat]
  /\ \A j, k \in Keys : KeyRank[j] = KeyRank[k] => j = k
  /\ SnapshotRank \in [SnapshotIds -> Nat]
  /\ \A j, k \in SnapshotIds : SnapshotRank[j] = SnapshotRank[k] => j = k

ASSUME QueryAssumption ==
  \A q \in Queries :
    \/ q.list = "knowledge" /\ DOMAIN q = {"list", "project", "status", "riskLevel", "sortBy", "direction"}
    \/ q.list = "snapshots" /\ DOMAIN q = {"list", "project", "createdBy", "sortBy", "direction"}

VARIABLE walk  \* one client's walk through a list

queryVars == <<vars, snapshots, walk>>

QueriesInit == Init /\ snapshots = {} /\ walk = NoWalk

-----------------------------------------------------------------------------
(* Requests                                                                *)

KNOWLEDGE_SORT_FIELDS == {"updatedAt", "createdAt", "id", "version", "status", "riskLevel"}
SNAPSHOT_SORT_FIELDS == {"createdAt", "snapshotId", "releaseId"}
SORT_DIRECTIONS == {"asc", "desc"}

\* An absent or empty sort field or direction takes its default.
Defaulted(input, default) == IF input \in {Absent, ""} THEN default ELSE input

NormalizeKnowledgeListQuery(q) ==
  [q EXCEPT !.sortBy = Defaulted(@, "updatedAt"), !.direction = Defaulted(@, "desc")]

ValidKnowledgeListQuery(q) ==
  /\ q.status \in Statuses \union {Absent}
  /\ q.riskLevel \in RiskLevels \union {Absent}
  /\ q.sortBy \in KNOWLEDGE_SORT_FIELDS /\ q.direction \in SORT_DIRECTIONS

NormalizeSnapshotListQuery(q) ==
  [q EXCEPT !.sortBy = Defaulted(@, "createdAt"), !.direction = Defaulted(@, "desc")]

ValidSnapshotListQuery(q) ==
  q.sortBy \in SNAPSHOT_SORT_FIELDS /\ q.direction \in SORT_DIRECTIONS

Normalized(q) ==
  IF q.list = "knowledge" THEN NormalizeKnowledgeListQuery(q) ELSE NormalizeSnapshotListQuery(q)

Valid(q) == IF q.list = "knowledge" THEN ValidKnowledgeListQuery(q) ELSE ValidSnapshotListQuery(q)

-----------------------------------------------------------------------------
(* Lists                                                                   *)

RISK_ORDER == [low |-> 0, medium |-> 1, high |-> 2, critical |-> 3]
StatusOrder == [ARCHIVED |-> 0, DEPRECATED |-> 1, DRAFT |-> 2, PUBLISHED |-> 3, REVIEWING |-> 4]

KnowledgeSortValue(k, field) ==
  CASE field = "updatedAt" -> records[k].updatedAt
    [] field = "createdAt" -> records[k].history[1].at
    [] field = "version" -> k.version
    [] field = "status" -> StatusOrder[records[k].status]
    [] field = "riskLevel" -> RISK_ORDER[RiskOf[records[k].content]]
    [] field = "id" -> KeyRank[k]

\* Only what is scoped to the project is listed.
MatchesKnowledge(k, q) ==
  /\ Exists(k) /\ ScopeOf[records[k].content] = q.project
  /\ q.status \in {Absent, records[k].status}
  /\ q.riskLevel \in {Absent, RiskOf[records[k].content]}

\* Ties are broken by key; descending order is the ascending one reversed.
KnowledgeComparator(i, j, direction) ==
  LET ascending(x, y) ==
        \/ x.value < y.value
        \/ x.value = y.value /\ KeyRank[x.key] < KeyRank[y.key]
  IN  IF direction = "asc" THEN ascending(i, j) ELSE ascending(j, i)

ListKnowledge(q) ==
  LET items == {Item(k, KnowledgeSortValue(k, q.sortBy)) : k \in {k \in Keys : MatchesKnowledge(k, q)}}
  IN  Sorted(items, {p \in items \X items : KnowledgeComparator(p[1], p[2], q.direction)})

SnapshotSortValue(e, field) ==
  CASE field = "createdAt" -> e.createdAt
    [] field = "releaseId" -> e.releaseId
    [] field = "snapshotId" -> SnapshotRank[e.snapshotId]

SnapshotComparator(i, j, direction) ==
  LET ascending(x, y) ==
        \/ x.value < y.value
        \/ x.value = y.value /\ SnapshotRank[x.key] < SnapshotRank[y.key]
  IN  IF direction = "asc" THEN ascending(i, j) ELSE ascending(j, i)

ListSnapshots(q) ==
  LET items == {Item(e.snapshotId, SnapshotSortValue(e, q.sortBy)) :
                  e \in {e \in snapshots : e.projectId = q.project /\ q.createdBy \in {Absent, e.createdBy}}}
  IN  Sorted(items, {p \in items \X items : SnapshotComparator(p[1], p[2], q.direction)})

Listed(q) == IF q.list = "knowledge" THEN ListKnowledge(q) ELSE ListSnapshots(q)

-----------------------------------------------------------------------------
(* The client and the commands                                             *)

\* The first page of a list, or the refusal of a request out of shape.
FirstPage(q, limit) ==
  /\ walk.stage # "paging"
  /\ LET normalized == Normalized(q) IN
     walk' = IF ~ Valid(normalized) THEN [NoWalk EXCEPT !.stage = "refused"]
             ELSE LET items == Listed(normalized) IN
                  Walked([NoWalk EXCEPT !.list = q.list,
                                        !.steady = {items[i].key : i \in DOMAIN items}],
                         items, normalized, limit, NoCursor)
  /\ UNCHANGED <<vars, snapshots>>

\* The next page, of the list the cursor is of or of another one.
NextPage(q, limit) ==
  /\ walk.stage = "paging"
  /\ LET normalized == Normalized(q) IN
     walk' = IF ~ Valid(normalized) THEN [walk EXCEPT !.stage = "refused"]
             ELSE Walked(walk, Listed(normalized), normalized, limit, walk.cursor)
  /\ UNCHANGED <<vars, snapshots>>

Govern ==
  /\ Next
  /\ walk' = IF walk.list = "knowledge"
             THEN [walk EXCEPT !.steady = {k \in @ : records'[k] = records[k]}]
             ELSE walk
  /\ UNCHANGED snapshots

Persist ==
  /\ \E p \in Projects, s \in Snapshots, a \in Actors, t \in Times : PersistSnapshot(p, s, a, t)
  /\ UNCHANGED <<vars, walk>>

QueriesNext ==
  \/ Govern \/ Persist
  \/ \E q \in Queries, limit \in PageLimits : FirstPage(q, limit) \/ NextPage(q, limit)

QueriesSpec == QueriesInit /\ [][QueriesNext]_queryVars

-----------------------------------------------------------------------------
(* Properties                                                              *)

\* Behind cursor.js: a walk that was not refused or told that its cursor is
\* stale has shown every entry that stayed as it was exactly once, whatever
\* was created, edited or moved between its pages; and over snapshots, which
\* m1-e-read-only-query-api.md:49 recommends for repeatable results, no walk
\* ever goes stale.
PagesComplete ==
  /\ ShowsSteadyOnce(walk)
  /\ walk.list = "snapshots" => walk.stage # "stale"
=============================================================================
