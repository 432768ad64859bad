------------------------ MODULE MCTestPlanGovernance ------------------------
(* A small instance of test plan governance.                                *)
EXTENDS PlanQueries

CONSTANTS ann, bob, cyd, dan, kLow, kHigh, x1, cLow, cFull, cExempt, cOpen

\* One high-risk input with three results by ann: complete, with an obligation
\* to exempt, and with a mandatory obligation unplanned; one low-risk input.
MCActors == {ann, bob, cyd, dan}
MCRiskOf == [k \in Plans |-> IF k = kHigh THEN "high" ELSE "low"]
MCPlanOf == [c \in Contents |-> IF c = cLow THEN kLow ELSE kHigh]
MCCreatorOf == [c \in Contents |-> ann]
MCCreatedAtOf == [c \in Contents |-> 1]
MCObligationsOf ==
  [c \in Contents |->
     CASE c = cExempt -> {[id |-> x1, mandatory |-> TRUE, status |-> "EXEMPT"]}
       [] c = cOpen -> {[id |-> x1, mandatory |-> TRUE, status |-> "UNPLANNED"]}
       [] OTHER -> {[id |-> x1, mandatory |-> TRUE, status |-> "PARTIAL"]}]

\* ann writes; bob and cyd review, approve and freeze; dan only freezes.
WriterActions == {"PLAN_CREATE", "PLAN_GENERATE", "PLAN_EDIT", "PLAN_SUBMIT"}
MCGrants ==
  [plan : Plans, actor : {ann}, action : WriterActions]
  \union [plan : Plans, actor : {bob, cyd}, action : PlanActions \ WriterActions]
  \union [plan : Plans, actor : {dan}, action : {"PLAN_FREEZE"}]
MCSymmetry == Permutations({bob, cyd})

MCPlanRank == [k \in Plans |-> IF k = kLow THEN 1 ELSE 2]
MCQuery(status, sortBy, direction) == [status |-> status, sortBy |-> sortBy, direction |-> direction]
MCQueries ==
  {MCQuery("", Absent, Absent), MCQuery("DRAFT", "updatedAt", "asc"), MCQuery("", "status", "desc"),
   MCQuery(Absent, "", "asc")}

\* Two plans and walks come with short histories; a timeline is read while the
\* plan moves on by at most one revision, and nothing depends on it once shown.
MCSmall ==
  /\ Exists(kLow) \/ walk # NoWalk =>
       /\ decisions = {} /\ timeline = NoTimeline
       /\ \A k \in Plans : Exists(k) => plans[k].revision <= 3
  /\ timeline.stage = "record" =>
       /\ timeline.record.revision <= 4
       /\ plans[timeline.plan].revision <= timeline.record.revision + 1
  /\ timeline.stage # "shown"
=============================================================================
