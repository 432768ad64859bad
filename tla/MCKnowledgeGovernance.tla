----------------------- MODULE MCKnowledgeGovernance -----------------------
(* A small registry for TLC: one body of medium risk bound to one project   *)
(* and one critical body every project may handle; two snapshots of that    *)
(* project, one of them also with a digest that is not its own.             *)
EXTENDS KnowledgeQueries

CONSTANTS ann, bob, cyd, p1, p2, cMedium, cCritical, id1

MCActors == {ann, bob, cyd}
MCProjects == {p1, p2}
MCContents == {cMedium, cCritical}
MCRiskOf == [c \in MCContents |-> IF c = cCritical THEN "critical" ELSE "medium"]
MCScopeOf == [c \in MCContents |-> IF c = cCritical THEN Unbound ELSE p1]
MCKeyRank == [k \in Keys |-> k.version]
MCSnapshotRank == [i \in SnapshotIds |-> i.digest.rules]

\* Everybody may do everything: the rules alone keep the roles apart.
MCGrants ==
  [project : MCProjects, actor : MCActors, action : GovernanceActions]

MCPayload(n) == [project |-> p1, release |-> 1, rules |-> n]
MCSnapshot(n, digest) ==
  [snapshotId |-> SnapshotIdOf(MCPayload(digest)), digest |-> MCPayload(digest),
   payload |-> MCPayload(n)]
MCSnapshots == {MCSnapshot(1, 1), MCSnapshot(2, 2), MCSnapshot(2, 1)}

MCKnowledgeQuery(status, sortBy, direction) ==
  [list |-> "knowledge", project |-> p1, status |-> status, riskLevel |-> Absent,
   sortBy |-> sortBy, direction |-> direction]
MCQueries ==
  {MCKnowledgeQuery(Absent, Absent, ""), MCKnowledgeQuery("DRAFT", "updatedAt", "asc"),
   MCKnowledgeQuery("draft", Absent, Absent),
   [list |-> "snapshots", project |-> p1, createdBy |-> Absent, sortBy |-> Absent, direction |-> ""]}

\* Several records or snapshots, and walks, come with short histories of one
\* actor; the commands of several actors on one record with no walk.
MCRevisions(k) == IF Exists(k) THEN records[k].revision ELSE 0
MCOneActor ==
  /\ \A k \in {k \in Keys : Exists(k)} : \A i \in DOMAIN records[k].history : records[k].history[i].actor = ann
  /\ \A e \in snapshots : e.createdBy = ann
MCSmall ==
  \/ walk = NoWalk /\ snapshots = {} /\ \A k \in Keys : Exists(k) => k.version = 1
  \/ /\ decisions = {} /\ MCOneActor
     /\ FoldFunctionOnSet(+, Cardinality(snapshots), [k \in Keys |-> MCRevisions(k)], Keys) <= 3
=============================================================================
