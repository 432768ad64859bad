------------------------ MODULE KnowledgeGovernance ------------------------
(***************************************************************************)
(* What the governance service promises of its knowledge registry: every   *)
(* command is one atomic step over the records and the review decisions.   *)
(* A command that fails changes nothing, so only the commands that succeed *)
(* are steps.  GovernancePostgres implements this module with sessions,    *)
(* statements, locks and commits.                                          *)
(*                                                                         *)
(* The service serialises a decision against a publication only through    *)
(* the registry row.  An APPROVE takes no row lock, so it can take effect  *)
(* after the review it belongs to has ended: Approve admits any revision   *)
(* that was once under review.                                             *)
(***************************************************************************)
EXTENDS KnowledgeLifecycle

CONSTANTS
  Ids,          \* knowledge identifiers
  Versions,     \* their semantic versions, as ordered numbers
  Grants,       \* what the authorization port allows
  MaxRevision,  \* bound: a record at this revision takes no further change
  NoRecord      \* the absence of a record

ASSUME VersionAssumption == Versions \subseteq Nat

ASSUME BoundAssumption == MaxRevision \in Nat

ASSUME NoRecordAssumption == NoRecord \notin Record

ASSUME ActorAssumption == IsFiniteSet(Actors)

Keys == [id : Ids, version : Versions]

Verdicts == {"APPROVE", "REQUEST_CHANGES"}

Decision == [project : Projects, key : Keys, revision : Nat \ {0},
             verdict : Verdicts, reviewer : Actors]

GovernanceActions ==
  {"KNOWLEDGE_CREATE", "KNOWLEDGE_EDIT", "KNOWLEDGE_SUBMIT",
   "KNOWLEDGE_REVIEW", "KNOWLEDGE_PUBLISH", "KNOWLEDGE_DEPRECATE",
   "KNOWLEDGE_ARCHIVE", "SNAPSHOT_PERSIST"}

ASSUME GrantAssumption ==
  Grants \subseteq [project : Projects, actor : Actors, action : GovernanceActions]

Granted(p, a, action) == [project |-> p, actor |-> a, action |-> action] \in Grants

VARIABLES
  records,    \* the registry: one record or NoRecord per key
  decisions,  \* the review decisions, append-only
  contentLog  \* auxiliary: the body the record held at each revision

vars == <<records, decisions, contentLog>>

Init ==
  /\ records = [k \in Keys |-> NoRecord]
  /\ decisions = {}
  /\ contentLog = [k \in Keys |-> << >>]

Exists(k) == records[k] # NoRecord

\* requireRecord: the record is there and its scope does not exclude p.
Handles(p, k) == Exists(k) /\ BoundTo(records[k].content, p)

\* Store a new revision of record k.
Put(k, rec) ==
  /\ rec.revision <= MaxRevision
  /\ records' = [records EXCEPT ![k] = rec]
  /\ contentLog' = [contentLog EXCEPT ![k] = Append(@, rec.content)]

DecisionsAt(p, k, r) ==
  {d \in decisions : d.project = p /\ d.key = k /\ d.revision = r}

\* The store keeps one decision per project, record, revision and reviewer.
Undecided(p, k, r, a) == \A d \in DecisionsAt(p, k, r) : d.reviewer # a

Decide(p, k, r, verdict, a) ==
  decisions' = decisions \union
    {[project |-> p, key |-> k, revision |-> r, verdict |-> verdict, reviewer |-> a]}

NewerThanAll(k) ==
  \A j \in Keys : j.id = k.id /\ Exists(j) => j.version < k.version

-----------------------------------------------------------------------------

CreateDraft(p, k, c, a, t) ==
  /\ BoundTo(c, p)
  /\ Granted(p, a, "KNOWLEDGE_CREATE")
  /\ NewerThanAll(k)
  /\ Put(k, CreatedRecord(c, a, t))
  /\ UNCHANGED decisions

ReplaceDraft(p, k, c, a, t) ==
  /\ Handles(p, k)
  /\ Granted(p, a, "KNOWLEDGE_EDIT")
  /\ BoundTo(c, p)
  /\ CanReplaceDraft(records[k], records[k].revision, t)
  /\ Put(k, ReplacedRecord(records[k], c, a, t))
  /\ UNCHANGED decisions

\* A transition of the record at its current revision.
Move(k, to, a, t) ==
  /\ CanTransition(records[k], records[k].revision, to, t)
  /\ Put(k, TransitionedRecord(records[k], to, a, t))

Submit(p, k, a, t) ==
  /\ Handles(p, k)
  /\ Granted(p, a, "KNOWLEDGE_SUBMIT")
  /\ SubmitAllowed(records[k], a)
  /\ Move(k, "REVIEWING", a, t)
  /\ UNCHANGED decisions

Approve(p, k, a, r) ==
  /\ Exists(k)
  /\ Granted(p, a, "KNOWLEDGE_REVIEW")
  /\ r \in DOMAIN contentLog[k]
  /\ records[k].history[r].to = "REVIEWING"
  /\ BoundTo(contentLog[k][r], p)
  /\ ReviewerAllowed(records[k], a)
  /\ Undecided(p, k, r, a)
  /\ Decide(p, k, r, "APPROVE", a)
  /\ UNCHANGED <<records, contentLog>>

RequestChanges(p, k, a, t) ==
  /\ Handles(p, k)
  /\ Granted(p, a, "KNOWLEDGE_REVIEW")
  /\ records[k].status = "REVIEWING"
  /\ ReviewerAllowed(records[k], a)
  /\ Undecided(p, k, records[k].revision, a)
  /\ Decide(p, k, records[k].revision, "REQUEST_CHANGES", a)
  /\ Move(k, "DRAFT", a, t)

Publish(p, k, a, t) ==
  /\ Handles(p, k)
  /\ Granted(p, a, "KNOWLEDGE_PUBLISH")
  /\ PublishAllowed(records[k], DecisionsAt(p, k, records[k].revision), a)
  /\ Move(k, "PUBLISHED", a, t)
  /\ UNCHANGED decisions

Deprecate(p, k, a, t) ==
  /\ Handles(p, k)
  /\ Granted(p, a, "KNOWLEDGE_DEPRECATE")
  /\ Move(k, "DEPRECATED", a, t)
  /\ UNCHANGED decisions

Archive(p, k, a, t) ==
  /\ Handles(p, k)
  /\ Granted(p, a, "KNOWLEDGE_ARCHIVE")
  /\ Move(k, "ARCHIVED", a, t)
  /\ UNCHANGED decisions

Next ==
  \E p \in Projects, k \in Keys, a \in Actors :
    \/ \E c \in Contents, t \in Times : CreateDraft(p, k, c, a, t)
    \/ \E c \in Contents, t \in Times : ReplaceDraft(p, k, c, a, t)
    \/ \E t \in Times : Submit(p, k, a, t)
    \/ \E r \in 1..MaxRevision : Approve(p, k, a, r)
    \/ \E t \in Times : RequestChanges(p, k, a, t)
    \/ \E t \in Times : Publish(p, k, a, t)
    \/ \E t \in Times : Deprecate(p, k, a, t)
    \/ \E t \in Times : Archive(p, k, a, t)

Spec == Init /\ [][Next]_vars

-----------------------------------------------------------------------------
(* Properties.                                                             *)

TypeOK ==
  /\ records \in [Keys -> Record \union {NoRecord}]
  /\ decisions \subseteq Decision
  /\ contentLog \in [Keys -> Seq(Contents)]

\* Every stored record passes validateRegistryRecord, the check each read
\* and each write makes first: a record that failed it could never again be
\* read or changed.
RecordsValid == \A k \in Keys : Exists(k) => ValidRecord(records[k])

\* The approvals behind the publication at event i of record k: some project
\* holds, for the revision before it, only approvals, none by the author and
\* as many distinct ones as the risk of the body under review requires.
ApprovedFor(k, i) ==
  \E p \in Projects :
    LET ds == DecisionsAt(p, k, i - 1) IN
    /\ \A d \in ds : d.verdict = "APPROVE"
    /\ \A d \in ds : d.reviewer # OriginalAuthor(records[k])
    /\ Cardinality(Reviewers(ds)) >=
         DefaultRequiredApprovals[RiskOf[contentLog[k][i - 1]]]

PublishedAt(k, i) ==
  /\ Exists(k)
  /\ i \in 2..Len(records[k].history)
  /\ records[k].history[i].to = "PUBLISHED"

\* Published knowledge is exactly the body that was reviewed, was published
\* by someone other than its author, and stays backed by enough approvals for
\* that body at that very revision whatever is decided or changed later.
PublishedOnApproval ==
  \A k \in Keys : \A i \in 2..MaxRevision :
    PublishedAt(k, i) =>
      /\ records[k].content = contentLog[k][i - 1]
      /\ records[k].history[i].actor # OriginalAuthor(records[k])
      /\ ApprovedFor(k, i)

\* A REQUEST_CHANGES decision and the return of the record to DRAFT are one
\* step (the unit of work): the next event of the record is that return, by
\* that reviewer, so no revision with such a decision is ever published.
ChangesReturnDraft ==
  \A d \in decisions :
    d.verdict = "REQUEST_CHANGES" =>
      /\ Exists(d.key)
      /\ d.revision < records[d.key].revision
      /\ LET e == records[d.key].history[d.revision + 1] IN
         e.to = "DRAFT" /\ e.from = "REVIEWING" /\ e.actor = d.reviewer

\* Decisions are evidence: each is about a revision that was under review, of
\* a body the deciding project may handle, by someone other than the author,
\* and nobody decides twice on the same revision for the same project.
DecisionsSound ==
  /\ \A d \in decisions :
       /\ Exists(d.key)
       /\ d.revision <= records[d.key].revision
       /\ records[d.key].history[d.revision].to = "REVIEWING"
       /\ d.reviewer # OriginalAuthor(records[d.key])
       /\ BoundTo(contentLog[d.key][d.revision], d.project)
  /\ \A d, e \in decisions :
       /\ d.project = e.project /\ d.key = e.key
       /\ d.revision = e.revision /\ d.reviewer = e.reviewer
       => d = e
=============================================================================
