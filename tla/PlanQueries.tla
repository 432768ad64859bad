----------------------------- MODULE PlanQueries -----------------------------
(***************************************************************************)
(* The read-only test plan queries beside the governance of the plans      *)
(* (packages/test-plan-query): a client pages through the plans of the     *)
(* project, another reads the timeline of one plan.  A page is one         *)
(* transaction; a timeline is two, the record first and its decisions      *)
(* later.  Plans here are those of one project.                            *)
(***************************************************************************)
EXTENDS TestPlanGovernance, Paging

CONSTANTS
  PlanRank,    \* the order of the plan ids' text
  Queries,     \* what clients ask for: status filter, sort field and direction
  PageLimits   \* and the page limits they send; 0 is none

ASSUME RankAssumption ==
  /\ PlanRank \in [Plans -> Nat]
  /\ \A j, k \in Plans : PlanRank[j] = PlanRank[k] => j = k

ASSUME QueryAssumption == \A q \in Queries : DOMAIN q = {"status", "sortBy", "direction"}

VARIABLES
  walk,      \* one client's walk through the list of plans
  timeline   \* one client's look at a timeline

queryVars == <<vars, walk, timeline>>

\* A timeline shows the events of a record as it was read, and decisions.
NoTimeline == [stage |-> "none", events |-> {}]

QueriesInit == Init /\ walk = NoWalk /\ timeline = NoTimeline

-----------------------------------------------------------------------------
(* The list of plans.                                                      *)

PLAN_QUERY_SORT_FIELDS == {"createdAt", "updatedAt", "planId", "status", "revision"}
PLAN_QUERY_DIRECTIONS == {"asc", "desc"}

\* An empty filter is none, an empty sort field or direction is an error.
NormalizePlanListQuery(q) ==
  [q EXCEPT !.status = IF @ = "" THEN Absent ELSE @,
            !.sortBy = IF @ = Absent THEN "createdAt" ELSE @,
            !.direction = IF @ = Absent THEN "desc" ELSE @]

ValidPlanListQuery(q) ==
  /\ q.status \in PlanStatuses \union {Absent}
  /\ q.sortBy \in PLAN_QUERY_SORT_FIELDS /\ q.direction \in PLAN_QUERY_DIRECTIONS

\* The alphabetical order of the statuses.
StatusOrder ==
  [APPROVED |-> 0, ARCHIVED |-> 1, DRAFT |-> 2, FROZEN |-> 3, REVIEWING |-> 4, SUPERSEDED |-> 5]

PlanSortValue(k, field) ==
  CASE field = "createdAt" -> CreatedAtOf[plans[k].content]
    [] field = "updatedAt" -> plans[k].updatedAt
    [] field = "planId" -> PlanRank[k]
    [] field = "status" -> StatusOrder[plans[k].status]
    [] field = "revision" -> plans[k].revision

\* Ties are broken by plan id, in ascending order whatever the direction.
PlanComparator(i, j, direction) ==
  \/ i.value # j.value /\ (direction = "asc" <=> i.value < j.value)
  \/ i.value = j.value /\ PlanRank[i.key] < PlanRank[j.key]

ListPlans(q) ==
  LET items == {Item(k, PlanSortValue(k, q.sortBy)) :
                  k \in {k \in Plans : Exists(k) /\ q.status \in {Absent, plans[k].status}}}
  IN  Sorted(items, {p \in items \X items : PlanComparator(p[1], p[2], q.direction)})

\* The page of a walk that asks for q, or the refusal of a request out of shape.
Page(w, q, limit) ==
  LET normalized == NormalizePlanListQuery(q) IN
  IF ValidPlanListQuery(normalized)
  THEN Walked(w, ListPlans(normalized), normalized, limit, w.cursor)
  ELSE [w EXCEPT !.stage = "refused"]

FirstPage(q, limit) ==
  /\ walk.stage # "paging"
  /\ walk' = Page([NoWalk EXCEPT !.list = "plans",
                                 !.steady = {k \in Plans : Exists(k) /\ q.status \in {"", Absent, plans[k].status}}],
                  q, limit)
  /\ UNCHANGED <<vars, timeline>>

NextPage(q, limit) ==
  /\ walk.stage = "paging"
  /\ walk' = Page(walk, q, limit)
  /\ UNCHANGED <<vars, timeline>>

-----------------------------------------------------------------------------
(* The timeline of a plan.                                                 *)

\* The record as it is, with every event up to its revision.
ReadTimelineRecord(k) ==
  /\ timeline.stage = "none"
  /\ Exists(k)
  /\ timeline' = [stage |-> "record", plan |-> k, record |-> plans[k], events |-> {}]
  /\ UNCHANGED <<vars, walk>>

\* toPlanTimeline: the events of the record and the decisions, side by side;
\* how they are sorted is left out.
PlanTimeline(record, reviews) ==
  {[kind |-> "PLAN_HISTORY", revision |-> i, event |-> record.history[i]] : i \in DOMAIN record.history}
    \union {[kind |-> "PLAN_REVIEW_DECISION", revision |-> d.revision, event |-> d] : d \in reviews}

Show(reviews) ==
  /\ timeline.stage = "record"
  /\ timeline' = [stage |-> "shown", events |-> PlanTimeline(timeline.record, reviews)]

\* Wrong variant: only the decisions on the revision that was read.
ListReviewDecisionsAt ==
  /\ Show(DecisionsAt(timeline.plan, timeline.record.revision))
  /\ UNCHANGED <<vars, walk>>

\* All decisions on the plan, as they are by now.
ListReviewDecisions ==
  /\ Show({d \in decisions : d.plan = timeline.plan})
  /\ UNCHANGED <<vars, walk>>

-----------------------------------------------------------------------------

Govern ==
  /\ Next
  /\ walk' = [walk EXCEPT !.steady = {k \in @ : plans'[k] = plans[k]}]
  /\ UNCHANGED timeline

QueriesNext ==
  \/ Govern
  \/ \E q \in Queries, limit \in PageLimits : FirstPage(q, limit) \/ NextPage(q, limit)
  \/ \E k \in Plans : ReadTimelineRecord(k)
  \/ ListReviewDecisions

QueriesSpec == QueriesInit /\ [][QueriesNext]_queryVars

-----------------------------------------------------------------------------
(* Properties                                                              *)

\* Behind cursor.js: a walk that was not refused or told that its cursor is
\* stale has shown every plan that stayed as it was exactly once, whatever was
\* created, edited or moved between its pages.
PagesComplete == ShowsSteadyOnce(walk)

\* Behind getTimeline: though record and decisions are read apart, a timeline
\* that shows an approval of the plan shows the decisions that passed its
\* gate, and one that shows a return to draft shows the changes requested.
TimelineShowsEvidence ==
  LET shown(kind) == {e \in timeline.events : e.kind = kind}
      reviewsAt(r) == {e.event : e \in {e \in shown("PLAN_REVIEW_DECISION") : e.revision = r}}
  IN  \A e \in shown("PLAN_HISTORY") :
        /\ e.event.to = "APPROVED" => GatePassed(e.event.content, reviewsAt(e.revision - 1))
        /\ e.event.to = "DRAFT" /\ e.event.from \notin {"NONE", "DRAFT"} =>
             \E d \in reviewsAt(e.revision - 1) :
               d.verdict = "REQUEST_CHANGES" /\ d.reviewer = e.event.actor
=============================================================================
