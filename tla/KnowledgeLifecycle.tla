------------------------- MODULE KnowledgeLifecycle -------------------------
(***************************************************************************)
(* The pure rules of a governed knowledge record: the record object and    *)
(* its audit history (packages/knowledge-registry/src/lifecycle.js), the   *)
(* lifecycle table (constants.js) and the governance policy over it        *)
(* (packages/knowledge-governance/src/policy.js).                          *)
(*                                                                         *)
(* A record carries its whole history, as the objects of the code do.  The *)
(* body of a knowledge object is a member of Contents; the rules look only *)
(* at its risk level and at the project its scope binds it to.  Every rule *)
(* is a guard (Can..., ...Allowed) or the object the code returns.         *)
(***************************************************************************)
EXTENDS Naturals, Sequences, FiniteSets

CONSTANTS
  Actors,     \* authenticated subjects
  Projects,   \* governance projects
  Contents,   \* bodies of knowledge objects
  RiskOf,     \* the risk level of each body
  ScopeOf,    \* the project of a PROJECT-scoped body, else Unbound
  Unbound,    \* a scope that names no project (GLOBAL, DOMAIN, ENVIRONMENT, RELEASE)
  Times       \* client-supplied audit timestamps

RiskLevels == {"low", "medium", "high", "critical"}

ASSUME ContentAssumption ==
  /\ RiskOf \in [Contents -> RiskLevels]
  /\ ScopeOf \in [Contents -> Projects \union {Unbound}]
  /\ Unbound \notin Projects

ASSUME TimeAssumption == Times \subseteq Nat

Statuses == {"DRAFT", "REVIEWING", "PUBLISHED", "DEPRECATED", "ARCHIVED"}

\* The statuses a record may move to from each status.
LifecycleTransitions ==
  [DRAFT      |-> {"REVIEWING"},
   REVIEWING  |-> {"DRAFT", "PUBLISHED"},
   PUBLISHED  |-> {"DEPRECATED"},
   DEPRECATED |-> {"ARCHIVED"},
   ARCHIVED   |-> {}]

EventTypes == {"CREATED", "DRAFT_REPLACED", "STATUS_TRANSITIONED"}

\* One audit event; the creation event comes from no status ("NONE").
Event == [type : EventTypes, from : Statuses \union {"NONE"}, to : Statuses,
          actor : Actors, at : Times]

\* A registry record: the row and its history.
Record == [revision : Nat \ {0}, status : Statuses, content : Contents,
           updatedAt : Times, history : Seq(Event)]

-----------------------------------------------------------------------------
(* Building and changing a record.                                         *)

CreatedRecord(c, a, t) ==
  [revision |-> 1, status |-> "DRAFT", content |-> c, updatedAt |-> t,
   history |-> << [type |-> "CREATED", from |-> "NONE", to |-> "DRAFT",
                   actor |-> a, at |-> t] >>]

CanReplaceDraft(rec, expected, t) ==
  /\ rec.revision = expected
  /\ rec.status = "DRAFT"
  /\ t >= rec.updatedAt

ReplacedRecord(rec, c, a, t) ==
  [revision |-> rec.revision + 1, status |-> rec.status, content |-> c,
   updatedAt |-> t,
   history |-> Append(rec.history,
     [type |-> "DRAFT_REPLACED", from |-> "DRAFT", to |-> "DRAFT",
      actor |-> a, at |-> t])]

CanTransition(rec, expected, to, t) ==
  /\ rec.revision = expected
  /\ to \in LifecycleTransitions[rec.status]
  /\ t >= rec.updatedAt

\* Wrong variant: forgets to move updatedAt along with the history.
TransitionedRecordStale(rec, to, a, t) ==
  [revision |-> rec.revision + 1, status |-> to, content |-> rec.content,
   updatedAt |-> rec.updatedAt,
   history |-> Append(rec.history,
     [type |-> "STATUS_TRANSITIONED", from |-> rec.status, to |-> to,
      actor |-> a, at |-> t])]

TransitionedRecord(rec, to, a, t) ==
  [revision |-> rec.revision + 1, status |-> to, content |-> rec.content,
   updatedAt |-> t,
   history |-> Append(rec.history,
     [type |-> "STATUS_TRANSITIONED", from |-> rec.status, to |-> to,
      actor |-> a, at |-> t])]

\* What every read and write of a record checks first: the history is as
\* long as the revision, starts with CREATED, is an unbroken chain of legal
\* moves, and ends in the row's status and time.
ValidStep(from, e) ==
  /\ e.from = from
  /\ \/ e.type = "DRAFT_REPLACED" /\ from = "DRAFT" /\ e.to = "DRAFT"
     \/ e.type = "STATUS_TRANSITIONED" /\ e.to \in LifecycleTransitions[from]

ValidRecord(rec) ==
  LET h == rec.history IN
  /\ Len(h) = rec.revision
  /\ Len(h) > 0
  /\ h[1].type = "CREATED" /\ h[1].from = "NONE" /\ h[1].to = "DRAFT"
  /\ \A i \in 2..Len(h) : ValidStep(h[i - 1].to, h[i])
  /\ rec.status = h[Len(h)].to
  /\ rec.updatedAt = h[Len(h)].at

-----------------------------------------------------------------------------
(* Governance policy, with its default options.                            *)

DefaultRequiredApprovals ==
  [low |-> 1, medium |-> 1, high |-> 1, critical |-> 2]

OriginalAuthor(rec) == rec.history[1].actor

SubmitAllowed(rec, a) == a = OriginalAuthor(rec)

ReviewerAllowed(rec, a) == a # OriginalAuthor(rec)

Reviewers(ds) == {d.reviewer : d \in ds}

\* Wrong variant: one approval is enough whatever the risk.
PublishAllowedByOne(rec, ds, a) ==
  /\ rec.status = "REVIEWING"
  /\ a # OriginalAuthor(rec)
  /\ \A d \in ds : d.verdict = "APPROVE"
  /\ \A d \in ds : d.reviewer # OriginalAuthor(rec)
  /\ ds # {}

\* evaluatePublish: ds are the decisions of the publishing project on this
\* key at this revision.
PublishAllowed(rec, ds, a) ==
  /\ rec.status = "REVIEWING"
  /\ a # OriginalAuthor(rec)
  /\ \A d \in ds : d.verdict = "APPROVE"
  /\ \A d \in ds : d.reviewer # OriginalAuthor(rec)
  /\ Cardinality(Reviewers(ds)) >= DefaultRequiredApprovals[RiskOf[rec.content]]

\* assertProjectBinding: a PROJECT-scoped body is only handled by its project.
BoundTo(c, p) == ScopeOf[c] \in {p, Unbound}
=============================================================================
