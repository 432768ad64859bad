------------------------ MODULE MCGovernancePostgres ------------------------
(* Small instances of the service over PostgreSQL.                          *)
EXTENDS GovernancePostgres, TLC

CONSTANTS ann, bob, cyd, p1, cMedium, cCritical, id1, s1, s2, s3

MCActors == {ann, bob, cyd}
MCRiskOf == [c \in Contents |-> IF c = cCritical THEN "critical" ELSE "medium"]
MCScopeOf == [c \in Contents |-> IF c = cCritical THEN Unbound ELSE p1]

\* ann writes and edits, bob and cyd do everything else.
MCRoleGrants ==
  [project : Projects, actor : {ann},
   action : {"KNOWLEDGE_CREATE", "KNOWLEDGE_EDIT", "KNOWLEDGE_SUBMIT"}]
  \union
  [project : Projects, actor : {bob, cyd},
   action : {"KNOWLEDGE_REVIEW", "KNOWLEDGE_PUBLISH", "KNOWLEDGE_DEPRECATE",
             "KNOWLEDGE_ARCHIVE"}]

\* The bound of two versions at once: both stay below revision 2.
MCTwoVersions ==
  \A k, l \in G!Keys :
    k # l /\ G!Exists(k) /\ G!Exists(l) => records[k].revision = 1

MCSymmetry == Permutations({bob, cyd}) \union Permutations(Sessions)
=============================================================================
