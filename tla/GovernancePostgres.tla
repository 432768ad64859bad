------------------------- MODULE GovernancePostgres -------------------------
(***************************************************************************)
(* The governance service over PostgreSQL: concurrent commands, each a     *)
(* session that reads and authorises outside any transaction, then runs    *)
(* its unit of work in a READ COMMITTED transaction, one SQL statement at  *)
(* a time.  Between two statements other sessions commit.                  *)
(*                                                                         *)
(* records, decisions and contentLog are what is committed.  A session     *)
(* keeps what it has read (seen) and what it has written but not committed *)
(* (nextRec, pending).  The database is external: row locks, the foreign   *)
(* key's share lock, the unique index, the advisory lock and the deadlock  *)
(* detector are modelled as the statements in src/ rely on them.           *)
(***************************************************************************)
EXTENDS KnowledgeLifecycle

CONSTANTS
  Ids, Versions, Grants, MaxRevision, NoRecord,  \* as in KnowledgeGovernance
  Sessions,    \* concurrent commands
  Ops,         \* the commands the clients of a run issue
  NoCommand,   \* an idle session's command
  NoDecision,  \* no uncommitted decision
  Nobody       \* no lock holder

ASSUME StoreAssumption ==
  /\ Versions \subseteq Nat
  /\ MaxRevision \in Nat \ {0}
  /\ NoRecord \notin Record
  /\ IsFiniteSet(Actors)

VARIABLES
  records, decisions, contentLog,  \* the committed tables
  pc,        \* the statement each session executes next
  cmd,       \* its command
  seen,      \* the record its transaction has read
  nextRec,   \* the record it has written and not committed
  pending,   \* the decision it has inserted and not committed
  rowLock,   \* the holder of FOR UPDATE on each row
  keyShare,  \* the holders of FOR KEY SHARE, taken by the foreign key
  idLock     \* the holder of the advisory lock of each knowledge id

committed == <<records, decisions, contentLog>>
work == <<cmd, seen, nextRec, pending>>
locks == <<rowLock, keyShare, idLock>>
vars == <<committed, pc, work, locks>>

G == INSTANCE KnowledgeGovernance
       WITH records <- records, decisions <- decisions, contentLog <- contentLog

ASSUME SessionAssumption ==
  /\ Grants \subseteq [project : Projects, actor : Actors, action : G!GovernanceActions]
  /\ NoDecision \notin G!Decision
  /\ Nobody \notin Sessions

PCs == {"idle", "read", "history", "insert", "foreign_key", "evidence",
        "lock", "advisory", "versions", "commit"}

Command ==
  [op : {"create", "replace"}, project : Projects, key : G!Keys,
   actor : Actors, arg : Contents, expected : Nat, at : Times]
  \union
  [op : {"review"}, project : Projects, key : G!Keys,
   actor : Actors, arg : G!Verdicts, expected : Nat, at : Times]
  \union
  [op : {"submit", "publish", "deprecate", "archive"}, project : Projects,
   key : G!Keys, actor : Actors, expected : Nat, at : Times]

Init ==
  /\ G!Init
  /\ pc = [s \in Sessions |-> "idle"]
  /\ cmd = [s \in Sessions |-> NoCommand]
  /\ seen = [s \in Sessions |-> NoRecord]
  /\ nextRec = [s \in Sessions |-> NoRecord]
  /\ pending = [s \in Sessions |-> NoDecision]
  /\ rowLock = [k \in G!Keys |-> Nobody]
  /\ keyShare = [k \in G!Keys |-> {}]
  /\ idLock = [i \in Ids |-> Nobody]

Goto(s, label) == pc' = [pc EXCEPT ![s] = label]

\* COMMIT and ROLLBACK both end the session's transaction and free its locks.
Finish(s) ==
  /\ Goto(s, "idle")
  /\ cmd' = [cmd EXCEPT ![s] = NoCommand]
  /\ seen' = [seen EXCEPT ![s] = NoRecord]
  /\ nextRec' = [nextRec EXCEPT ![s] = NoRecord]
  /\ pending' = [pending EXCEPT ![s] = NoDecision]
  /\ rowLock' = [k \in G!Keys |-> IF rowLock[k] = s THEN Nobody ELSE rowLock[k]]
  /\ keyShare' = [k \in G!Keys |-> keyShare[k] \ {s}]
  /\ idLock' = [i \in Ids |-> IF idLock[i] = s THEN Nobody ELSE idLock[i]]

\* Wrong variant: the failed transaction is left open and keeps its locks.
RollbackKeepsLocks(s) ==
  /\ Goto(s, "idle")
  /\ cmd' = [cmd EXCEPT ![s] = NoCommand]
  /\ seen' = [seen EXCEPT ![s] = NoRecord]
  /\ nextRec' = [nextRec EXCEPT ![s] = NoRecord]
  /\ pending' = [pending EXCEPT ![s] = NoDecision]
  /\ UNCHANGED <<committed, locks>>

\* Anything thrown inside the unit of work rolls it back.
Rollback(s) == Finish(s) /\ UNCHANGED committed

-----------------------------------------------------------------------------
(* The part before the transaction: the visible record (one REPEATABLE     *)
(* READ snapshot), the project binding and the authorization.  The client  *)
(* sends the revision it last saw; an older one is rejected later and a    *)
(* command rejected here changes nothing.                                  *)

Authorize(s, c, action, label) ==
  /\ pc[s] = "idle"
  /\ c.op \in Ops
  /\ G!Granted(c.project, c.actor, action)
  /\ cmd' = [cmd EXCEPT ![s] = c]
  /\ Goto(s, label)
  /\ UNCHANGED <<committed, seen, nextRec, pending, locks>>

CallCreate(s, p, k, a, x, t) ==
  /\ BoundTo(x, p)
  /\ Authorize(s, [op |-> "create", project |-> p, key |-> k, actor |-> a,
                   arg |-> x, expected |-> 0, at |-> t],
               "KNOWLEDGE_CREATE", "advisory")

CallReplace(s, p, k, a, x, t) ==
  /\ G!Handles(p, k)
  /\ records[k].revision < MaxRevision
  /\ BoundTo(x, p)
  /\ Authorize(s, [op |-> "replace", project |-> p, key |-> k, actor |-> a, arg |-> x,
                   expected |-> records[k].revision, at |-> t],
               "KNOWLEDGE_EDIT", "read")

CallReview(s, p, k, a, verdict, t) ==
  /\ G!Handles(p, k)
  /\ records[k].revision < MaxRevision
  /\ Authorize(s, [op |-> "review", project |-> p, key |-> k, actor |-> a, arg |-> verdict,
                   expected |-> records[k].revision, at |-> t],
               "KNOWLEDGE_REVIEW", "read")

CallTransition(s, p, k, a, op, action, t) ==
  /\ G!Handles(p, k)
  /\ records[k].revision < MaxRevision
  /\ Authorize(s, [op |-> op, project |-> p, key |-> k, actor |-> a,
                   expected |-> records[k].revision, at |-> t],
               action, "read")

-----------------------------------------------------------------------------
(* registry.get inside the unit of work: two statements, two snapshots.    *)

ReadRow(s) ==
  /\ pc[s] = "read"
  /\ seen' = [seen EXCEPT ![s] = records[cmd[s].key]]
  /\ Goto(s, "history")
  /\ UNCHANGED <<committed, cmd, nextRec, pending, locks>>

\* The row read before with the history read now.
Hydrated(s) == [seen[s] EXCEPT !.history = records[cmd[s].key].history]

\* What the command checks of the record it has read, and its next statement.
Checked(s, rec) ==
  LET c == cmd[s] IN
  /\ ValidRecord(rec)
  /\ BoundTo(rec.content, c.project)
  /\ c.op \in {"replace", "review", "publish"} => rec.revision = c.expected
  /\ c.op = "submit" => SubmitAllowed(rec, c.actor)
  /\ c.op = "review" =>
       rec.status = "REVIEWING" /\ ReviewerAllowed(rec, c.actor)

AfterChecks(op) ==
  CASE op = "review"  -> "insert"
    [] op = "publish" -> "evidence"
    [] OTHER          -> "lock"

ReadHistory(s) ==
  /\ pc[s] = "history"
  /\ Checked(s, Hydrated(s))
  /\ seen' = [seen EXCEPT ![s] = Hydrated(s)]
  /\ Goto(s, AfterChecks(cmd[s].op))
  /\ UNCHANGED <<committed, cmd, nextRec, pending, locks>>

ReadRejected(s) ==
  /\ pc[s] = "history"
  /\ ~ Checked(s, Hydrated(s))
  /\ Rollback(s)

-----------------------------------------------------------------------------
(* reviewStore.append: the row is inserted, the unique index waits for an  *)
(* uncommitted twin, then the foreign key takes a share lock on the record *)
(* row.  An APPROVE is then ready to commit without looking at it again.   *)

DecisionOf(s) ==
  LET c == cmd[s] IN
  [project |-> c.project, key |-> c.key, revision |-> seen[s].revision,
   verdict |-> c.arg, reviewer |-> c.actor]

SameReview(d, e) ==
  /\ d.project = e.project /\ d.key = e.key
  /\ d.revision = e.revision /\ d.reviewer = e.reviewer

\* The sessions whose uncommitted decision the unique index waits for.
Twins(s) ==
  {u \in Sessions \ {s} : pending[u] # NoDecision /\ SameReview(pending[u], DecisionOf(s))}

AlreadyDecided(s) == \E d \in decisions : SameReview(d, DecisionOf(s))

InsertDecision(s) ==
  /\ pc[s] = "insert"
  /\ ~ AlreadyDecided(s)
  /\ Twins(s) = {}
  /\ pending' = [pending EXCEPT ![s] = DecisionOf(s)]
  /\ Goto(s, "foreign_key")
  /\ UNCHANGED <<committed, cmd, seen, nextRec, locks>>

InsertRejected(s) ==
  /\ pc[s] = "insert"
  /\ AlreadyDecided(s)
  /\ Rollback(s)

\* Wrong variant: an approval goes on to lock the row it shares.
ForeignKeyShareThenLock(s) ==
  LET k == cmd[s].key IN
  /\ pc[s] = "foreign_key"
  /\ rowLock[k] = Nobody
  /\ keyShare' = [keyShare EXCEPT ![k] = @ \union {s}]
  /\ Goto(s, "lock")
  /\ UNCHANGED <<committed, work, rowLock, idLock>>

ForeignKeyShare(s) ==
  LET k == cmd[s].key IN
  /\ pc[s] = "foreign_key"
  /\ rowLock[k] = Nobody
  /\ keyShare' = [keyShare EXCEPT ![k] = @ \union {s}]
  /\ Goto(s, IF cmd[s].arg = "APPROVE" THEN "commit" ELSE "lock")
  /\ UNCHANGED <<committed, work, rowLock, idLock>>

\* publish lists the decisions committed by now and judges them.
EvidenceFor(s) ==
  LET c == cmd[s] IN G!DecisionsAt(c.project, c.key, seen[s].revision)

CollectEvidence(s) ==
  /\ pc[s] = "evidence"
  /\ PublishAllowed(seen[s], EvidenceFor(s), cmd[s].actor)
  /\ Goto(s, "lock")
  /\ UNCHANGED <<committed, work, locks>>

EvidenceRejected(s) ==
  /\ pc[s] = "evidence"
  /\ ~ PublishAllowed(seen[s], EvidenceFor(s), cmd[s].actor)
  /\ Rollback(s)

-----------------------------------------------------------------------------
(* registry.replaceDraft and registry.transition: SELECT ... FOR UPDATE    *)
(* waits for every other lock on the row and returns its latest committed  *)
(* version, which is checked again; the UPDATE and the history INSERT then *)
(* stay uncommitted.                                                       *)

Target(c) ==
  CASE c.op = "submit"    -> "REVIEWING"
    [] c.op = "review"    -> "DRAFT"
    [] c.op = "publish"   -> "PUBLISHED"
    [] c.op = "deprecate" -> "DEPRECATED"
    [] c.op = "archive"   -> "ARCHIVED"

\* Wrong variant: writes on top of whatever revision it finds.
CanWriteAnyRevision(c, rec) ==
  IF c.op = "replace" THEN CanReplaceDraft(rec, rec.revision, c.at)
                      ELSE CanTransition(rec, rec.revision, Target(c), c.at)

CanWrite(c, rec) ==
  IF c.op = "replace" THEN CanReplaceDraft(rec, c.expected, c.at)
                      ELSE CanTransition(rec, c.expected, Target(c), c.at)

Written(c, rec) ==
  IF c.op = "replace" THEN ReplacedRecord(rec, c.arg, c.actor, c.at)
                      ELSE TransitionedRecord(rec, Target(c), c.actor, c.at)

RowFree(s, k) == rowLock[k] = Nobody /\ keyShare[k] \subseteq {s}

LockAndWrite(s) ==
  LET k == cmd[s].key IN
  /\ pc[s] = "lock"
  /\ RowFree(s, k)
  /\ CanWrite(cmd[s], records[k])
  /\ rowLock' = [rowLock EXCEPT ![k] = s]
  /\ nextRec' = [nextRec EXCEPT ![s] = Written(cmd[s], records[k])]
  /\ Goto(s, "commit")
  /\ UNCHANGED <<committed, cmd, seen, pending, keyShare, idLock>>

WriteRejected(s) ==
  /\ pc[s] = "lock"
  /\ RowFree(s, cmd[s].key)
  /\ ~ CanWrite(cmd[s], records[cmd[s].key])
  /\ Rollback(s)

\* Wrong variant: createDraft without the advisory lock.
LockIdUnchecked(s) ==
  /\ pc[s] = "advisory"
  /\ idLock' = [idLock EXCEPT ![cmd[s].key.id] = s]
  /\ Goto(s, "versions")
  /\ UNCHANGED <<committed, work, rowLock, keyShare>>

\* registry.createDraft: the advisory lock of the id, then the version checks.
LockId(s) ==
  /\ pc[s] = "advisory"
  /\ idLock[cmd[s].key.id] = Nobody
  /\ idLock' = [idLock EXCEPT ![cmd[s].key.id] = s]
  /\ Goto(s, "versions")
  /\ UNCHANGED <<committed, work, rowLock, keyShare>>

InsertRecord(s) ==
  LET c == cmd[s] IN
  /\ pc[s] = "versions"
  /\ G!NewerThanAll(c.key)
  /\ nextRec' = [nextRec EXCEPT ![s] = CreatedRecord(c.arg, c.actor, c.at)]
  /\ Goto(s, "commit")
  /\ UNCHANGED <<committed, cmd, seen, pending, locks>>

VersionRejected(s) ==
  /\ pc[s] = "versions"
  /\ ~ G!NewerThanAll(cmd[s].key)
  /\ Rollback(s)

-----------------------------------------------------------------------------

Commit(s) ==
  LET k == cmd[s].key IN
  /\ pc[s] = "commit"
  /\ IF nextRec[s] = NoRecord
     THEN UNCHANGED <<records, contentLog>>
     ELSE /\ records' = [records EXCEPT ![k] = nextRec[s]]
          /\ contentLog' = [contentLog EXCEPT ![k] = Append(@, nextRec[s].content)]
  /\ decisions' = decisions \union ({pending[s]} \ {NoDecision})
  /\ Finish(s)

\* The service process or its connection dies: the server rolls back.
ConnectionLost(s) == pc[s] # "idle" /\ Rollback(s)

\* s waits for a lock, or for the fate of a row, that u holds.
WaitsFor(s, u) ==
  LET k == cmd[s].key IN
  /\ s # u
  /\ \/ pc[s] = "lock" /\ (rowLock[k] = u \/ u \in keyShare[k])
     \/ pc[s] = "foreign_key" /\ rowLock[k] = u
     \/ pc[s] = "insert" /\ ~ AlreadyDecided(s) /\ u \in Twins(s)
     \/ pc[s] = "advisory" /\ idLock[cmd[s].key.id] = u

\* Sessions that wait for one another; a smallest such set is a cycle.
Waiting(C) == C # {} /\ \A s \in C : \E u \in C : WaitsFor(s, u)

Deadlocked(s) ==
  \E C \in SUBSET Sessions :
    /\ s \in C
    /\ Waiting(C)
    /\ \A D \in SUBSET C : Waiting(D) => s \in D

\* The deadlock detector aborts one session of a cycle (SQLSTATE 40P01).
DeadlockVictim(s) == Deadlocked(s) /\ Rollback(s)

-----------------------------------------------------------------------------

Call(s) ==
  \E p \in Projects, k \in G!Keys, a \in Actors, t \in Times :
    \/ \E x \in Contents : CallCreate(s, p, k, a, x, t)
    \/ \E x \in Contents : CallReplace(s, p, k, a, x, t)
    \/ \E v \in G!Verdicts : CallReview(s, p, k, a, v, t)
    \/ CallTransition(s, p, k, a, "submit", "KNOWLEDGE_SUBMIT", t)
    \/ CallTransition(s, p, k, a, "publish", "KNOWLEDGE_PUBLISH", t)
    \/ CallTransition(s, p, k, a, "deprecate", "KNOWLEDGE_DEPRECATE", t)
    \/ CallTransition(s, p, k, a, "archive", "KNOWLEDGE_ARCHIVE", t)

\* The statements of a session that wait for nobody.
Statement(s) ==
  \/ ReadRow(s) \/ ReadHistory(s) \/ ReadRejected(s)
  \/ InsertRejected(s) \/ CollectEvidence(s) \/ EvidenceRejected(s)
  \/ InsertRecord(s) \/ VersionRejected(s) \/ Commit(s)

Next ==
  \E s \in Sessions :
    \/ Call(s)
    \/ Statement(s)
    \/ InsertDecision(s)
    \/ ForeignKeyShare(s)
    \/ LockAndWrite(s) \/ WriteRejected(s)
    \/ LockId(s)
    \/ ConnectionLost(s)
    \/ DeadlockVictim(s)

Spec == Init /\ [][Next]_vars

\* A statement that need not wait runs; a lock that is free again and again
\* is granted (the server queues the waiters); a standing cycle is broken.
Fairness ==
  \A s \in Sessions :
    /\ WF_vars(Statement(s))
    /\ SF_vars(InsertDecision(s))
    /\ SF_vars(ForeignKeyShare(s))
    /\ SF_vars(LockAndWrite(s) \/ WriteRejected(s))
    /\ SF_vars(LockId(s))
    /\ WF_vars(DeadlockVictim(s))

FairSpec == Spec /\ Fairness

-----------------------------------------------------------------------------
(* Properties.                                                             *)

TypeOK ==
  /\ G!TypeOK
  /\ pc \in [Sessions -> PCs]
  /\ cmd \in [Sessions -> Command \union {NoCommand}]
  /\ seen \in [Sessions -> Record \union {NoRecord}]
  /\ nextRec \in [Sessions -> Record \union {NoRecord}]
  /\ pending \in [Sessions -> G!Decision \union {NoDecision}]
  /\ rowLock \in [G!Keys -> Sessions \union {Nobody}]
  /\ keyShare \in [G!Keys -> SUBSET Sessions]
  /\ idLock \in [Ids -> Sessions \union {Nobody}]

\* Whatever is read before a lock, decided without one or committed late, the
\* committed tables change only as the atomic governance service allows.
GovernanceImplemented == G!Spec

\* Only concurrent REQUEST_CHANGES decisions on one record, each holding the
\* foreign key's share lock while it asks for the row, can deadlock: an edit,
\* a submission, an approval or a publication is never the victim.
DeadlocksOnlyAmongChangeRequests ==
  \A s \in Sessions :
    Deadlocked(s) => cmd[s].op = "review" /\ cmd[s].arg = "REQUEST_CHANGES"

\* Every command ends: whatever it waits for, it commits or rolls back.
CommandsFinish ==
  \A s \in Sessions : pc[s] # "idle" ~> pc[s] = "idle"
=============================================================================
