-------------------------- MODULE MCPlanningPostgres --------------------------
(* Small instances of planning orchestration over PostgreSQL.                 *)
EXTENDS PlanningPostgres, TLC

CONSTANTS ann, bob, cyd, kLow, kHigh, x1, cFull, cExempt, cOther, cForeign, s1, s2, s3

\* Two results by ann, the second with an obligation to exempt, and one each
\* that bob and cyd request for the same input; cyd may not generate.
MCActors == {ann, bob, cyd}
MCRiskOf == [k \in Plans |-> IF k = kHigh THEN "high" ELSE "low"]
MCPlanOf == [c \in Contents |-> CHOOSE k \in Plans : TRUE]
MCCreatorOf ==
  [c \in Contents |-> CASE c = cOther -> bob [] c = cForeign -> cyd [] OTHER -> ann]
MCCreatedAtOf == [c \in Contents |-> 1]
MCObligationsOf ==
  [c \in Contents |->
     {[id |-> x1, mandatory |-> TRUE,
       status |-> IF c = cExempt THEN "EXEMPT" ELSE "COVERED"]}]

\* The authors but cyd generate, ann writes; bob and cyd review, bob approves,
\* cyd freezes.
MCGrants ==
  [plan : Plans, actor : {CreatorOf[c] : c \in Contents} \ {cyd},
   action : {"PLAN_GENERATE"}]
  \union [plan : Plans, actor : {ann}, action : {"PLAN_EDIT", "PLAN_SUBMIT"}]
  \union [plan : Plans, actor : {bob, cyd}, action : {"PLAN_REVIEW"}]
  \union [plan : Plans, actor : {bob}, action : {"PLAN_APPROVE"}]
  \union [plan : Plans, actor : {cyd}, action : {"PLAN_FREEZE"}]
MCSessionSymmetry == Permutations(Sessions)
=============================================================================
