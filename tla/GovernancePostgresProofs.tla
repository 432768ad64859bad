---------------------- MODULE GovernancePostgresProofs ----------------------
(***************************************************************************)
(* The service over PostgreSQL implements KnowledgeGovernance, for every   *)
(* set of sessions, actors, projects, bodies, keys and grants: whatever    *)
(* its concurrent statements interleave to, every commit is one step of    *)
(* the atomic service.  P is that service with its inductive invariant.    *)
(***************************************************************************)
EXTENDS GovernancePostgres, FiniteSetTheorems, TLAPS

P == INSTANCE KnowledgeGovernanceProofs

-----------------------------------------------------------------------------
(* The inductive invariant: what a session may rely on at each statement.  *)

\* The action the authorization port is asked about for each command.
ActionOf ==
  [create |-> "KNOWLEDGE_CREATE", replace |-> "KNOWLEDGE_EDIT",
   submit |-> "KNOWLEDGE_SUBMIT", review |-> "KNOWLEDGE_REVIEW",
   publish |-> "KNOWLEDGE_PUBLISH", deprecate |-> "KNOWLEDGE_DEPRECATE",
   archive |-> "KNOWLEDGE_ARCHIVE"]

\* The statements of the command s runs; only a REQUEST_CHANGES locks the row.
OnPath(s) ==
  LET c == cmd[s] IN
  /\ c.op = "create" => pc[s] \in {"advisory", "versions", "commit"}
  /\ pc[s] \in {"advisory", "versions"} => c.op = "create"
  /\ pc[s] \in {"insert", "foreign_key"} => c.op = "review"
  /\ pc[s] = "evidence" => c.op = "publish"
  /\ pc[s] = "lock" /\ c.op = "review" => c.arg = "REQUEST_CHANGES"

\* What was authorised before the transaction still holds: records stay, and
\* the revision the client last saw was a revision of its record.
Authorized(s) ==
  LET c == cmd[s] IN
  /\ c \in Command
  /\ G!Granted(c.project, c.actor, ActionOf[c.op])
  /\ c.op \in {"create", "replace"} => BoundTo(c.arg, c.project)
  /\ c.op # "create" =>
       /\ G!Exists(c.key)
       /\ c.expected < MaxRevision
       /\ c.expected <= records[c.key].revision

\* What was read is at least as new as what the client saw, and out of date
\* only if its revision is.
SeenSound(s) ==
  LET c == cmd[s]  rec == records[c.key] IN
  c.op # "create" /\ pc[s] # "read" =>
    /\ seen[s] \in Record
    /\ c.expected <= seen[s].revision
    /\ seen[s].revision <= rec.revision
    /\ seen[s].revision = rec.revision => seen[s] = rec

\* What was checked is what the record was at the revision that was read.
CheckedSound(s) ==
  LET k == cmd[s].key  r == seen[s].revision IN
  cmd[s].op # "create" /\ pc[s] \notin {"read", "history"} =>
    /\ Checked(s, seen[s])
    /\ \A i \in 1..r : records[k].history[i] = seen[s].history[i]
    /\ contentLog[k][r] = seen[s].content

\* An uncommitted decision is the session's own, and nobody has committed it.
DecisionSound(s) ==
  IF cmd[s].op = "review" /\ pc[s] \in {"foreign_key", "lock", "commit"}
  THEN pending[s] = DecisionOf(s) /\ ~ AlreadyDecided(s)
  ELSE pending[s] = NoDecision

\* The evidence a publication was judged on still allows it, unless the
\* record has moved on.
EvidenceSound(s) ==
  LET c == cmd[s] IN
  /\ c.op = "publish"
  /\ pc[s] \in {"lock", "commit"}
  /\ records[c.key].revision = seen[s].revision
  => PublishAllowed(seen[s], EvidenceFor(s), c.actor)

\* A new record is written under the lock of its id, newer than all others.
CreateSound(s) ==
  LET c == cmd[s] IN
  c.op = "create" =>
    /\ pc[s] # "advisory" => idLock[c.key.id] = s
    /\ pc[s] = "commit" =>
         /\ G!NewerThanAll(c.key)
         /\ nextRec[s] = CreatedRecord(c.arg, c.actor, c.at)

\* Any other is written under its row lock, from the record that is stored.
WriteSound(s) ==
  LET c == cmd[s]  rec == records[c.key] IN
  c.op # "create" /\ pc[s] = "commit" =>
    IF c.op = "review" /\ c.arg = "APPROVE"
    THEN nextRec[s] = NoRecord
    ELSE /\ rowLock[c.key] = s
         /\ CanWrite(c, rec)
         /\ nextRec[s] = Written(c, rec)

Sound(s) ==
  /\ pc[s] # "commit" => nextRec[s] = NoRecord
  /\ IF pc[s] = "idle"
     THEN pending[s] = NoDecision
     ELSE /\ OnPath(s) /\ Authorized(s)
          /\ SeenSound(s) /\ CheckedSound(s)
          /\ DecisionSound(s) /\ EvidenceSound(s)
          /\ CreateSound(s) /\ WriteSound(s)

\* The unique index: no two sessions hold the same decision uncommitted.
OneDecision ==
  \A s, u \in Sessions :
    s # u /\ pending[s] # NoDecision /\ pending[u] # NoDecision
      => ~ SameReview(pending[s], pending[u])

Inv ==
  /\ TypeOK
  /\ P!IInv
  /\ \A s \in Sessions : Sound(s)
  /\ OneDecision

-----------------------------------------------------------------------------
(* The sessions' rules are the rules of the service they implement.        *)

\* The finite sets of P, which has its own instance of FiniteSets, are ours.
LEMMA SameCounts ==
  ASSUME NEW S
  PROVE  /\ P!IsFiniteSet(S) <=> IsFiniteSet(S)
         /\ P!Cardinality(S) = Cardinality(S)
<1>1. P!IsFiniteSet(S) <=> IsFiniteSet(S)
  BY DEF P!IsFiniteSet, IsFiniteSet
<1>2. P!Cardinality(S) = Cardinality(S)
  BY DEF P!Cardinality, Cardinality
<1> QED BY <1>1, <1>2

\* The sets of records, events and decisions P declares are those of G.
LEMMA SameSets ==
  /\ P!Record = Record
  /\ P!Keys = G!Keys
  /\ P!Verdicts = {"APPROVE", "REQUEST_CHANGES"}
  /\ G!Verdicts = {"APPROVE", "REQUEST_CHANGES"}
  /\ P!Decision = G!Decision
<1>1. P!Record = Record
  BY DEF P!Record, Record, P!Event, Event, P!EventTypes, EventTypes, P!Statuses, Statuses
<1>2. P!Keys = G!Keys
  BY DEF P!Keys, G!Keys
<1>3. P!Verdicts = {"APPROVE", "REQUEST_CHANGES"} /\ G!Verdicts = {"APPROVE", "REQUEST_CHANGES"}
  BY DEF P!Verdicts, G!Verdicts
<1> QED BY <1>1, <1>2, <1>3 DEF P!Decision, G!Decision

\* The rules of the registry and of the policy are the ones of P.
LEMMA SameRules ==
  /\ \A rec : P!ValidRecord(rec) <=> ValidRecord(rec)
  /\ \A rec, a : P!SubmitAllowed(rec, a) <=> SubmitAllowed(rec, a)
  /\ \A rec, a : P!ReviewerAllowed(rec, a) <=> ReviewerAllowed(rec, a)
  /\ \A rec, ds, a : P!PublishAllowed(rec, ds, a) <=> PublishAllowed(rec, ds, a)
  /\ \A c, p : P!BoundTo(c, p) <=> BoundTo(c, p)
<1>1. \A rec : P!ValidRecord(rec) <=> ValidRecord(rec)
  BY DEF P!ValidRecord, ValidRecord, P!ValidStep, ValidStep, P!LifecycleTransitions,
         LifecycleTransitions
<1>2. /\ \A rec, a : P!SubmitAllowed(rec, a) <=> SubmitAllowed(rec, a)
      /\ \A rec, a : P!ReviewerAllowed(rec, a) <=> ReviewerAllowed(rec, a)
      /\ \A c, p : P!BoundTo(c, p) <=> BoundTo(c, p)
  BY DEF P!SubmitAllowed, SubmitAllowed, P!ReviewerAllowed, ReviewerAllowed,
         P!OriginalAuthor, OriginalAuthor, P!BoundTo, BoundTo
<1>3. \A rec, ds, a : P!PublishAllowed(rec, ds, a) <=> PublishAllowed(rec, ds, a)
  <2>1. \A ds : P!Reviewers(ds) = Reviewers(ds)
    BY DEF P!Reviewers, Reviewers
  <2>2. P!DefaultRequiredApprovals = DefaultRequiredApprovals
    BY DEF P!DefaultRequiredApprovals, DefaultRequiredApprovals
  <2>3. \A rec : P!OriginalAuthor(rec) = OriginalAuthor(rec)
    BY DEF P!OriginalAuthor, OriginalAuthor
  <2> QED BY <2>1, <2>2, <2>3, SameCounts DEF P!PublishAllowed, PublishAllowed
<1> QED BY <1>1, <1>2, <1>3

\* The records the commands store are the ones of P.
LEMMA SameRecords ==
  /\ \A c, a, t : P!CreatedRecord(c, a, t) = CreatedRecord(c, a, t)
  /\ \A rec, c, a, t : P!ReplacedRecord(rec, c, a, t) = ReplacedRecord(rec, c, a, t)
  /\ \A rec, to, a, t : P!TransitionedRecord(rec, to, a, t) = TransitionedRecord(rec, to, a, t)
  /\ \A rec, e, t : P!CanReplaceDraft(rec, e, t) <=> CanReplaceDraft(rec, e, t)
  /\ \A rec, e, to, t : P!CanTransition(rec, e, to, t) <=> CanTransition(rec, e, to, t)
  BY DEF P!CreatedRecord, CreatedRecord, P!ReplacedRecord, ReplacedRecord,
         P!TransitionedRecord, TransitionedRecord, P!CanReplaceDraft, CanReplaceDraft,
         P!CanTransition, CanTransition, P!LifecycleTransitions, LifecycleTransitions

\* P and G read the same store.
LEMMA SameStore ==
  /\ G!TypeOK <=> P!TypeOK
  /\ \A k : G!Exists(k) <=> P!Exists(k)
  /\ \A k : G!NewerThanAll(k) <=> P!NewerThanAll(k)
  /\ \A p, k, r : G!DecisionsAt(p, k, r) = P!DecisionsAt(p, k, r)
  /\ \A p, a, action : G!Granted(p, a, action) <=> P!Granted(p, a, action)
<1>1. G!TypeOK <=> P!TypeOK
  BY SameSets DEF G!TypeOK, P!TypeOK, P!Record, G!Record, P!Event, G!Event, P!EventTypes,
                  G!EventTypes, P!Statuses, G!Statuses
<1>2. \A k : G!Exists(k) <=> P!Exists(k)
  BY DEF G!Exists, P!Exists
<1>3. \A k : G!NewerThanAll(k) <=> P!NewerThanAll(k)
  BY <1>2, SameSets DEF G!NewerThanAll, P!NewerThanAll
<1> QED BY <1>1, <1>2, <1>3 DEF G!DecisionsAt, P!DecisionsAt, G!Granted, P!Granted

\* What P assumes of its constants follows from what this module assumes.
LEMMA Assumptions ==
  /\ P!ContentAssumption /\ P!TimeAssumption /\ P!VersionAssumption
  /\ P!BoundAssumption /\ P!NoRecordAssumption /\ P!ActorAssumption
  /\ P!GrantAssumption
<1>1. P!ContentAssumption
  BY ContentAssumption DEF P!ContentAssumption, ContentAssumption, P!RiskLevels, RiskLevels
<1>2. P!TimeAssumption
  BY TimeAssumption DEF P!TimeAssumption, TimeAssumption
<1>3. P!VersionAssumption /\ P!BoundAssumption
  BY StoreAssumption DEF P!VersionAssumption, P!BoundAssumption, StoreAssumption
<1>4. P!NoRecordAssumption
  BY StoreAssumption, SameSets DEF P!NoRecordAssumption, StoreAssumption
<1>5. P!GrantAssumption
  BY SessionAssumption DEF P!GrantAssumption, SessionAssumption, P!GovernanceActions,
                           G!GovernanceActions
<1>6. P!ActorAssumption
  BY StoreAssumption, SameCounts DEF P!ActorAssumption, StoreAssumption
<1> QED BY <1>1, <1>2, <1>3, <1>4, <1>5, <1>6

-----------------------------------------------------------------------------
(* What a step does to the sessions that do not take it.                   *)

\* The fields of a command.
LEMMA CommandType ==
  ASSUME NEW c \in Command
  PROVE  /\ c.op \in {"create", "replace", "review", "submit", "publish", "deprecate", "archive"}
         /\ c.project \in Projects /\ c.key \in G!Keys /\ c.actor \in Actors
         /\ c.at \in Times /\ c.expected \in Nat
         /\ c.op \in {"create", "replace"} => c.arg \in Contents
         /\ c.op = "review" => c.arg \in {"APPROVE", "REQUEST_CHANGES"}
  BY SameSets DEF Command

\* A stored record is a record, as long as its log and within its bound.
LEMMA StoredRecord ==
  ASSUME Inv, NEW k \in G!Keys, G!Exists(k)
  PROVE  /\ records[k] \in Record
         /\ ValidRecord(records[k])
         /\ records[k].revision \in Nat \ {0}
         /\ DOMAIN records[k].history = 1..records[k].revision
         /\ contentLog[k] \in Seq(Contents)
         /\ DOMAIN contentLog[k] = 1..records[k].revision
         /\ contentLog[k][records[k].revision] = records[k].content
         /\ records[k].revision <= MaxRevision
         /\ records[k].status = records[k].history[records[k].revision].to
<1>1. k \in P!Keys /\ P!Exists(k)
  BY SameSets, SameStore
<1>2. P!TypeOK /\ P!RecordsValid /\ P!LogMatches
  BY DEF Inv, P!IInv
<1>3. /\ records[k].revision \in Nat \ {0}
      /\ DOMAIN records[k].history = 1..records[k].revision
      /\ records[k].status = records[k].history[records[k].revision].to
  BY <1>1, <1>2, Assumptions, P!HistoryLength
<1>4. records[k] \in Record /\ ValidRecord(records[k])
  BY <1>1, <1>2, SameSets, SameRules DEF P!TypeOK, P!RecordsValid, P!Exists
<1>5. /\ contentLog[k] \in Seq(Contents)
      /\ Len(contentLog[k]) = records[k].revision
      /\ contentLog[k][records[k].revision] = records[k].content
      /\ records[k].revision <= MaxRevision
  BY <1>1, <1>2 DEF P!TypeOK, P!LogMatches
<1> QED BY <1>3, <1>4, <1>5

\* Grows, for one stored record.
LEMMA RecordGrows ==
  ASSUME Inv, P!IInv', P!Grows, NEW k \in G!Keys, G!Exists(k)
  PROVE  /\ records'[k] # NoRecord
         /\ records'[k] \in Record
         /\ records[k].revision \in Nat /\ records'[k].revision \in Nat
         /\ records[k].revision <= records'[k].revision
         /\ records[k].revision = records'[k].revision => records'[k] = records[k]
         /\ \A i \in 1..records[k].revision :
              /\ records'[k].history[i] = records[k].history[i]
              /\ contentLog'[k][i] = contentLog[k][i]
<1>1. P!Exists(k) /\ k \in P!Keys
  BY SameStore, SameSets
<1>2. /\ P!Exists(k)'
      /\ records[k].revision <= records'[k].revision
      /\ records[k].revision = records'[k].revision => records'[k] = records[k]
      /\ \A i \in 1..records[k].revision :
           /\ records'[k].history[i] = records[k].history[i]
           /\ contentLog'[k][i] = contentLog[k][i]
  BY <1>1 DEF P!Grows
<1>3. records[k].revision \in Nat
  BY StoredRecord
<1>4. records'[k] \in Record
  BY <1>1, <1>2, SameSets DEF P!IInv, P!TypeOK, P!Exists
<1>5. records'[k].revision \in Nat
  BY <1>4 DEF Record
<1> QED BY <1>2, <1>3, <1>4, <1>5 DEF P!Exists

\* What a session u may count on while another one takes a step: its own work
\* and locks stay, nobody changes the row it has locked or adds a version
\* under the id it has locked, nobody commits the decision it has inserted,
\* and a decision that is committed approves unless the record moves on.
Untouched(u) ==
  /\ pc'[u] = pc[u] /\ cmd'[u] = cmd[u] /\ seen'[u] = seen[u]
  /\ nextRec'[u] = nextRec[u] /\ pending'[u] = pending[u]
  /\ \A k \in G!Keys : rowLock[k] = u =>
       /\ rowLock'[k] = u
       /\ G!Exists(k) => records'[k] = records[k]
  /\ \A i \in Ids : idLock[i] = u =>
       /\ idLock'[i] = u
       /\ \A j \in G!Keys : j.id = i /\ G!Exists(j)' => G!Exists(j)
  /\ decisions \subseteq decisions'
  /\ \A d \in decisions' \ decisions :
       /\ pending[u] # NoDecision => ~ SameReview(d, pending[u])
       /\ \/ d.verdict = "APPROVE" /\ d.reviewer # OriginalAuthor(records[d.key])
          \/ d.revision < records'[d.key].revision

\* What a session has read, checked and collected outlives the steps of others:
\* the store only grows, and grows by what P allows.
LEMMA UntouchedStaysSound ==
  ASSUME Inv, TypeOK', P!IInv', P!Grows, NEW u \in Sessions, Untouched(u)
  PROVE  Sound(u)'
<1> DEFINE c == cmd[u]
           k == c.key
           r == seen[u].revision
<1>1. /\ pc'[u] = pc[u] /\ cmd'[u] = cmd[u] /\ seen'[u] = seen[u]
      /\ nextRec'[u] = nextRec[u] /\ pending'[u] = pending[u]
  BY DEF Untouched
<1>2. CASE pc[u] = "idle"
  BY <1>1, <1>2 DEF Inv, Sound
<1>3. CASE pc[u] # "idle"
  <2>1. /\ OnPath(u) /\ Authorized(u) /\ SeenSound(u) /\ CheckedSound(u)
        /\ DecisionSound(u) /\ EvidenceSound(u) /\ CreateSound(u) /\ WriteSound(u)
    BY <1>3 DEF Inv, Sound
  <2>2. /\ c \in Command /\ k \in G!Keys /\ c.expected \in Nat
        /\ c.op \in {"create", "replace", "review", "submit", "publish", "deprecate", "archive"}
    BY <2>1, CommandType DEF Authorized
  <2>3. ASSUME c.op # "create"
        PROVE  /\ G!Exists(k) /\ records'[k] # NoRecord
               /\ records[k].revision \in Nat /\ records'[k].revision \in Nat
               /\ records[k].revision <= records'[k].revision
               /\ records[k].revision = records'[k].revision => records'[k] = records[k]
               /\ \A i \in 1..records[k].revision :
                    /\ records'[k].history[i] = records[k].history[i]
                    /\ contentLog'[k][i] = contentLog[k][i]
    <3>1. G!Exists(k)
      BY <2>1, <2>3 DEF Authorized
    <3> QED BY <2>2, <3>1, RecordGrows
  <2>4. OnPath(u)'
    BY <1>1, <2>1 DEF OnPath
  <2>5. Authorized(u)'
    BY <1>1, <2>1, <2>2, <2>3 DEF Authorized, G!Granted, G!Exists
  <2>6. SeenSound(u)'
    <3> SUFFICES ASSUME c.op # "create", pc[u] # "read"
                 PROVE  /\ seen[u] \in Record
                        /\ c.expected <= r
                        /\ r <= records'[k].revision
                        /\ r = records'[k].revision => seen[u] = records'[k]
      BY <1>1 DEF SeenSound
    <3>1. /\ seen[u] \in Record /\ c.expected <= r /\ r <= records[k].revision
          /\ r = records[k].revision => seen[u] = records[k]
      BY <2>1 DEF SeenSound
    <3>2. r \in Nat
      BY <3>1 DEF Record
    <3> QED BY <2>3, <3>1, <3>2
  <2>7. CheckedSound(u)'
    <3> SUFFICES ASSUME c.op # "create", pc[u] \notin {"read", "history"}
                 PROVE  /\ Checked(u, seen[u])'
                        /\ \A i \in 1..r : records'[k].history[i] = seen[u].history[i]
                        /\ contentLog'[k][r] = seen[u].content
      BY <1>1 DEF CheckedSound
    <3>1. /\ Checked(u, seen[u])
          /\ \A i \in 1..r : records[k].history[i] = seen[u].history[i]
          /\ contentLog[k][r] = seen[u].content
      BY <2>1 DEF CheckedSound
    <3>2. r \in 1..records[k].revision
      BY <2>1, <2>3 DEF SeenSound, Record
    <3>3. Checked(u, seen[u])'
      BY <1>1, <3>1 DEF Checked
    <3> QED BY <2>3, <3>1, <3>2, <3>3
  <2>8. DecisionSound(u)'
    <3>1. CASE c.op = "review" /\ pc[u] \in {"foreign_key", "lock", "commit"}
      <4>1. pending[u] = DecisionOf(u) /\ ~ AlreadyDecided(u)
        BY <2>1, <3>1 DEF DecisionSound
      <4>2. DecisionOf(u)' = DecisionOf(u)
        BY <1>1 DEF DecisionOf
      <4>3. pending[u] # NoDecision
        <5>1. DecisionOf(u) \in G!Decision
          <6>1. seen[u].revision \in Nat \ {0}
            BY <2>1, <3>1 DEF SeenSound, Record
          <6> QED BY <2>2, <3>1, <6>1, CommandType, SameSets DEF DecisionOf, G!Decision
        <5> QED BY <4>1, <5>1, SessionAssumption DEF SessionAssumption
      <4>4. ~ AlreadyDecided(u)'
        BY <4>1, <4>2, <4>3 DEF AlreadyDecided, Untouched
      <4> QED BY <1>1, <3>1, <4>1, <4>2, <4>4 DEF DecisionSound
    <3>2. CASE ~ (c.op = "review" /\ pc[u] \in {"foreign_key", "lock", "commit"})
      BY <1>1, <2>1, <3>2 DEF DecisionSound
    <3> QED BY <3>1, <3>2
  <2>9. EvidenceSound(u)'
    <3> SUFFICES ASSUME c.op = "publish", pc[u] \in {"lock", "commit"},
                        records'[k].revision = r
                 PROVE  PublishAllowed(seen[u], EvidenceFor(u)', c.actor)
      BY <1>1 DEF EvidenceSound
    <3>1. records[k].revision = r
      <4>1. r \in Nat /\ r <= records[k].revision
        BY <2>1 DEF SeenSound, Record
      <4> QED BY <2>3, <4>1
    <3>2. PublishAllowed(seen[u], EvidenceFor(u), c.actor) /\ seen[u] = records[k]
      BY <2>1, <3>1 DEF EvidenceSound, SeenSound
    <3>3. \A d \in EvidenceFor(u)' \ EvidenceFor(u) :
            d.verdict = "APPROVE" /\ d.reviewer # OriginalAuthor(seen[u])
      <4> SUFFICES ASSUME NEW d \in decisions' \ decisions, d.key = k, d.revision = r
                   PROVE  d.verdict = "APPROVE" /\ d.reviewer # OriginalAuthor(seen[u])
        BY <1>1 DEF EvidenceFor, G!DecisionsAt
      <4>1. ~ (d.revision < records'[k].revision)
        BY <2>3, <3>1
      <4> QED BY <3>2, <4>1 DEF Untouched
    <3>4. /\ EvidenceFor(u) \subseteq EvidenceFor(u)'
          /\ Reviewers(EvidenceFor(u)') \subseteq Actors
      <4>1. EvidenceFor(u)' \subseteq decisions' /\ EvidenceFor(u) \subseteq EvidenceFor(u)'
        BY <1>1 DEF EvidenceFor, G!DecisionsAt, Untouched
      <4>2. decisions' \subseteq G!Decision
        BY DEF TypeOK, G!TypeOK
      <4> QED BY <4>1, <4>2 DEF Reviewers, G!Decision
    <3>5. Cardinality(Reviewers(EvidenceFor(u)')) >= Cardinality(Reviewers(EvidenceFor(u)))
      <4>1. IsFiniteSet(Reviewers(EvidenceFor(u)'))
        BY <3>4, StoreAssumption, FS_Subset DEF StoreAssumption
      <4>2. Reviewers(EvidenceFor(u)) \subseteq Reviewers(EvidenceFor(u)')
        BY <3>4 DEF Reviewers
      <4> QED BY <4>1, <4>2, FS_Subset
    <3>6. /\ Cardinality(Reviewers(EvidenceFor(u))) \in Nat
          /\ Cardinality(Reviewers(EvidenceFor(u)')) \in Nat
      <4>1. Reviewers(EvidenceFor(u)) \subseteq Reviewers(EvidenceFor(u)')
        BY <3>4 DEF Reviewers
      <4>2. /\ IsFiniteSet(Reviewers(EvidenceFor(u)'))
            /\ IsFiniteSet(Reviewers(EvidenceFor(u)))
        BY <3>4, <4>1, StoreAssumption, FS_Subset DEF StoreAssumption
      <4> QED BY <4>2, FS_CardinalityType
    <3>7. DefaultRequiredApprovals[RiskOf[seen[u].content]] \in Nat
      <4>1. seen[u].content \in Contents
        BY <2>1 DEF SeenSound, Record
      <4> QED BY <4>1, ContentAssumption DEF DefaultRequiredApprovals, RiskLevels, ContentAssumption
    <3> QED BY <3>2, <3>3, <3>5, <3>6, <3>7 DEF PublishAllowed
  <2>10. CreateSound(u)'
    <3> SUFFICES ASSUME c.op = "create"
                 PROVE  /\ pc[u] # "advisory" => idLock'[k.id] = u
                        /\ pc[u] = "commit" =>
                             /\ G!NewerThanAll(k)'
                             /\ nextRec[u] = CreatedRecord(c.arg, c.actor, c.at)
      BY <1>1 DEF CreateSound, G!NewerThanAll
    <3>1. k.id \in Ids
      BY <2>2 DEF G!Keys
    <3> QED BY <2>1, <3>1 DEF CreateSound, Untouched, G!NewerThanAll
  <2>11. WriteSound(u)'
    <3> SUFFICES ASSUME c.op # "create", pc[u] = "commit",
                        ~ (c.op = "review" /\ c.arg = "APPROVE")
                 PROVE  /\ rowLock'[k] = u
                        /\ CanWrite(c, records'[k])
                        /\ nextRec[u] = Written(c, records'[k])
      BY <1>1, <2>1 DEF WriteSound
    <3>1. /\ rowLock[k] = u /\ CanWrite(c, records[k])
          /\ nextRec[u] = Written(c, records[k])
      BY <2>1 DEF WriteSound
    <3>2. rowLock'[k] = u /\ records'[k] = records[k]
      BY <2>2, <2>3, <3>1 DEF Untouched
    <3> QED BY <3>1, <3>2
  <2> QED BY <1>1, <1>3, <2>4, <2>5, <2>6, <2>7, <2>8, <2>9, <2>10, <2>11 DEF Inv, Sound
<1> QED BY <1>2, <1>3

-----------------------------------------------------------------------------
(* The steps that commit nothing.                                          *)

\* The types of what is not committed.
WorkTypeOK ==
  /\ pc \in [Sessions -> PCs]
  /\ cmd \in [Sessions -> Command \union {NoCommand}]
  /\ seen \in [Sessions -> Record \union {NoRecord}]
  /\ nextRec \in [Sessions -> Record \union {NoRecord}]
  /\ pending \in [Sessions -> G!Decision \union {NoDecision}]
  /\ rowLock \in [G!Keys -> Sessions \union {Nobody}]
  /\ keyShare \in [G!Keys -> SUBSET Sessions]
  /\ idLock \in [Ids -> Sessions \union {Nobody}]

\* A step of s leaves the work and the locks of the other sessions alone.
Leaves(s) ==
  \A u \in Sessions \ {s} :
    /\ pc'[u] = pc[u] /\ cmd'[u] = cmd[u] /\ seen'[u] = seen[u]
    /\ nextRec'[u] = nextRec[u] /\ pending'[u] = pending[u]
    /\ \A k \in G!Keys : rowLock[k] = u => rowLock'[k] = u
    /\ \A i \in Ids : idLock[i] = u => idLock'[i] = u

\* Every step of the service below keeps its invariant and only adds.
LEMMA StoreStep ==
  ASSUME Inv, [P!Next]_(P!vars)
  PROVE  P!IInv' /\ P!Grows /\ decisions \subseteq decisions'
  BY Assumptions, P!StepPreserves, P!StepGrows DEF Inv

\* Dropping a decision, or keeping it, keeps the decisions apart.
LEMMA OneDecisionStays ==
  ASSUME Inv, NEW s \in Sessions, Leaves(s),
         pending'[s] = pending[s] \/ pending'[s] = NoDecision
  PROVE  OneDecision'
  BY DEF Inv, OneDecision, Leaves, SameReview

\* A step that commits nothing keeps the invariant if it leaves the others alone.
LEMMA QuietPreserves ==
  ASSUME Inv, NEW s \in Sessions, UNCHANGED committed, Leaves(s), WorkTypeOK',
         Sound(s)', OneDecision'
  PROVE  Inv'
<1>1. UNCHANGED <<records, decisions, contentLog>>
  BY DEF committed
<1>2. P!IInv' /\ P!Grows
  <2>1. [P!Next]_(P!vars)
    BY <1>1 DEF P!vars
  <2> QED BY <2>1, StoreStep
<1>3. TypeOK'
  <2>1. G!TypeOK'
    BY <1>1 DEF Inv, TypeOK, G!TypeOK
  <2> QED BY <2>1 DEF TypeOK, WorkTypeOK
<1>4. \A u \in Sessions : Sound(u)'
  <2> SUFFICES ASSUME NEW u \in Sessions \ {s} PROVE Sound(u)'
    OBVIOUS
  <2>1. Untouched(u)
    BY <1>1 DEF Leaves, Untouched, G!Exists
  <2> QED BY <1>2, <1>3, <2>1, UntouchedStaysSound
<1> QED BY <1>2, <1>3, <1>4 DEF Inv

\* COMMIT and ROLLBACK leave the session idle and free only its own locks.
LEMMA FinishLeaves ==
  ASSUME Inv, NEW s \in Sessions, Finish(s)
  PROVE  WorkTypeOK' /\ Leaves(s) /\ Sound(s)' /\ OneDecision'
<1>1. WorkTypeOK
  BY DEF Inv, TypeOK, WorkTypeOK
<1>2. /\ pc' = [pc EXCEPT ![s] = "idle"]
      /\ cmd' = [cmd EXCEPT ![s] = NoCommand]
      /\ seen' = [seen EXCEPT ![s] = NoRecord]
      /\ nextRec' = [nextRec EXCEPT ![s] = NoRecord]
      /\ pending' = [pending EXCEPT ![s] = NoDecision]
      /\ rowLock' = [k \in G!Keys |-> IF rowLock[k] = s THEN Nobody ELSE rowLock[k]]
      /\ keyShare' = [k \in G!Keys |-> keyShare[k] \ {s}]
      /\ idLock' = [i \in Ids |-> IF idLock[i] = s THEN Nobody ELSE idLock[i]]
  BY DEF Finish, Goto
<1>3. WorkTypeOK'
  <2>1. pc' \in [Sessions -> PCs] /\ cmd' \in [Sessions -> Command \union {NoCommand}]
    BY <1>1, <1>2 DEF WorkTypeOK, PCs
  <2>2. /\ seen' \in [Sessions -> Record \union {NoRecord}]
        /\ nextRec' \in [Sessions -> Record \union {NoRecord}]
        /\ pending' \in [Sessions -> G!Decision \union {NoDecision}]
    BY <1>1, <1>2 DEF WorkTypeOK
  <2>3. /\ rowLock' \in [G!Keys -> Sessions \union {Nobody}]
        /\ keyShare' \in [G!Keys -> SUBSET Sessions]
        /\ idLock' \in [Ids -> Sessions \union {Nobody}]
    BY <1>1, <1>2 DEF WorkTypeOK
  <2> QED BY <2>1, <2>2, <2>3 DEF WorkTypeOK
<1>4. Leaves(s)
  BY <1>1, <1>2 DEF Leaves, WorkTypeOK
<1>5. pc'[s] = "idle" /\ nextRec'[s] = NoRecord /\ pending'[s] = NoDecision
  BY <1>1, <1>2 DEF WorkTypeOK
<1> QED BY <1>3, <1>4, <1>5, OneDecisionStays DEF Sound

\* Rollback keeps the invariant.
LEMMA RollbackPreserves ==
  ASSUME Inv, NEW s \in Sessions, Rollback(s)
  PROVE  Inv'
  BY FinishLeaves, QuietPreserves DEF Rollback

\* A command that starts has been authorised for what it is about to do.
LEMMA AuthorizePreserves ==
  ASSUME Inv, NEW s \in Sessions, NEW c \in Command,
         c.op \in {"create", "replace"} => BoundTo(c.arg, c.project),
         c.op # "create" =>
           /\ G!Exists(c.key)
           /\ c.expected < MaxRevision
           /\ c.expected <= records[c.key].revision,
         Authorize(s, c, ActionOf[c.op], IF c.op = "create" THEN "advisory" ELSE "read")
  PROVE  Inv'
<1>1. WorkTypeOK
  BY DEF Inv, TypeOK, WorkTypeOK
<1>2. PICK label :
        /\ label = IF c.op = "create" THEN "advisory" ELSE "read"
        /\ pc[s] = "idle"
        /\ G!Granted(c.project, c.actor, ActionOf[c.op])
        /\ cmd' = [cmd EXCEPT ![s] = c]
        /\ pc' = [pc EXCEPT ![s] = label]
        /\ UNCHANGED <<committed, seen, nextRec, pending, locks>>
  BY DEF Authorize, Goto
<1>3. UNCHANGED <<records, decisions, contentLog, seen, nextRec, pending,
                  rowLock, keyShare, idLock>>
  BY <1>2 DEF committed, locks
<1>4. WorkTypeOK'
  BY <1>1, <1>2, <1>3 DEF WorkTypeOK, PCs
<1>5. Leaves(s)
  BY <1>1, <1>2, <1>3 DEF Leaves, WorkTypeOK
<1>6. cmd'[s] = c /\ pc'[s] = label
  BY <1>1, <1>2 DEF WorkTypeOK
<1>7. nextRec[s] = NoRecord /\ pending[s] = NoDecision
  BY <1>2 DEF Inv, Sound
<1>8. Sound(s)'
  <2>1. OnPath(s)'
    BY <1>2, <1>6 DEF OnPath
  <2>2. Authorized(s)'
    BY <1>2, <1>3, <1>6 DEF Authorized, G!Granted, G!Exists
  <2>3. SeenSound(s)' /\ CheckedSound(s)'
    BY <1>2, <1>6 DEF SeenSound, CheckedSound
  <2>4. DecisionSound(s)' /\ EvidenceSound(s)'
    BY <1>2, <1>3, <1>6, <1>7 DEF DecisionSound, EvidenceSound
  <2>5. CreateSound(s)' /\ WriteSound(s)'
    BY <1>2, <1>6 DEF CreateSound, WriteSound
  <2> QED BY <1>2, <1>3, <1>6, <1>7, <2>1, <2>2, <2>3, <2>4, <2>5 DEF Sound
<1>9. OneDecision'
  BY <1>3, <1>5, OneDecisionStays
<1> QED BY <1>3, <1>4, <1>5, <1>8, <1>9, QuietPreserves DEF committed

\* Call keeps the invariant.
LEMMA CallPreserves ==
  ASSUME Inv, NEW s \in Sessions, Call(s)
  PROVE  Inv'
<1>1. PICK p \in Projects, k \in G!Keys, a \in Actors, t \in Times :
        \/ \E x \in Contents : CallCreate(s, p, k, a, x, t)
        \/ \E x \in Contents : CallReplace(s, p, k, a, x, t)
        \/ \E v \in G!Verdicts : CallReview(s, p, k, a, v, t)
        \/ CallTransition(s, p, k, a, "submit", "KNOWLEDGE_SUBMIT", t)
        \/ CallTransition(s, p, k, a, "publish", "KNOWLEDGE_PUBLISH", t)
        \/ CallTransition(s, p, k, a, "deprecate", "KNOWLEDGE_DEPRECATE", t)
        \/ CallTransition(s, p, k, a, "archive", "KNOWLEDGE_ARCHIVE", t)
  BY DEF Call
<1>2. ASSUME G!Handles(p, k), records[k].revision < MaxRevision
      PROVE  /\ G!Exists(k) /\ records[k].revision \in Nat
             /\ records[k].revision <= records[k].revision
  <2>1. G!Exists(k)
    BY <1>2 DEF G!Handles
  <2>2. records[k].revision \in Nat
    BY <2>1, StoredRecord
  <2> QED BY <2>1, <2>2
<1>3. ASSUME NEW x \in Contents, CallCreate(s, p, k, a, x, t)
      PROVE  Inv'
  <2>1. PICK c : c = [op |-> "create", project |-> p, key |-> k, actor |-> a,
                      arg |-> x, expected |-> 0, at |-> t]
    OBVIOUS
  <2>2. c \in Command
    BY <2>1 DEF Command
  <2>3. BoundTo(x, p) /\ Authorize(s, c, ActionOf[c.op], "advisory")
    BY <1>3, <2>1 DEF CallCreate, ActionOf
  <2> QED BY <2>1, <2>2, <2>3, AuthorizePreserves
<1>4. ASSUME NEW x \in Contents, CallReplace(s, p, k, a, x, t)
      PROVE  Inv'
  <2>1. PICK c : c = [op |-> "replace", project |-> p, key |-> k, actor |-> a,
                      arg |-> x, expected |-> records[k].revision, at |-> t]
    OBVIOUS
  <2>2. G!Handles(p, k) /\ records[k].revision < MaxRevision /\ BoundTo(x, p)
    BY <1>4 DEF CallReplace
  <2>3. c \in Command
    BY <1>2, <2>1, <2>2 DEF Command
  <2>4. Authorize(s, c, ActionOf[c.op], "read")
    BY <1>4, <2>1 DEF CallReplace, ActionOf
  <2> QED BY <1>2, <2>1, <2>2, <2>3, <2>4, AuthorizePreserves
<1>5. ASSUME NEW v \in G!Verdicts, CallReview(s, p, k, a, v, t)
      PROVE  Inv'
  <2>1. PICK c : c = [op |-> "review", project |-> p, key |-> k, actor |-> a,
                      arg |-> v, expected |-> records[k].revision, at |-> t]
    OBVIOUS
  <2>2. G!Handles(p, k) /\ records[k].revision < MaxRevision
    BY <1>5 DEF CallReview
  <2>3. c \in Command
    BY <1>2, <2>1, <2>2 DEF Command
  <2>4. Authorize(s, c, ActionOf[c.op], "read")
    BY <1>5, <2>1 DEF CallReview, ActionOf
  <2> QED BY <1>2, <2>1, <2>2, <2>3, <2>4, AuthorizePreserves
<1>6. ASSUME NEW op \in {"submit", "publish", "deprecate", "archive"},
             CallTransition(s, p, k, a, op, ActionOf[op], t)
      PROVE  Inv'
  <2>1. PICK c : c = [op |-> op, project |-> p, key |-> k, actor |-> a,
                      expected |-> records[k].revision, at |-> t]
    OBVIOUS
  <2>2. G!Handles(p, k) /\ records[k].revision < MaxRevision
    BY <1>6 DEF CallTransition
  <2>3. c \in Command
    BY <1>2, <2>1, <2>2 DEF Command
  <2>4. Authorize(s, c, ActionOf[c.op], "read")
    BY <1>6, <2>1 DEF CallTransition
  <2> QED BY <1>2, <2>1, <2>2, <2>3, <2>4, AuthorizePreserves
<1>7. /\ ActionOf["submit"] = "KNOWLEDGE_SUBMIT" /\ ActionOf["publish"] = "KNOWLEDGE_PUBLISH"
      /\ ActionOf["deprecate"] = "KNOWLEDGE_DEPRECATE"
      /\ ActionOf["archive"] = "KNOWLEDGE_ARCHIVE"
  BY DEF ActionOf
<1> QED BY <1>1, <1>3, <1>4, <1>5, <1>6, <1>7

-----------------------------------------------------------------------------
(* The statements, one by one.                                             *)

\* What holds of a session between two statements.
LEMMA Running ==
  ASSUME Inv, NEW s \in Sessions, pc[s] # "idle"
  PROVE  /\ cmd[s] \in Command /\ cmd[s].key \in G!Keys
         /\ OnPath(s) /\ Authorized(s) /\ SeenSound(s) /\ CheckedSound(s)
         /\ DecisionSound(s) /\ EvidenceSound(s) /\ CreateSound(s) /\ WriteSound(s)
         /\ pc[s] # "commit" => nextRec[s] = NoRecord
         /\ WorkTypeOK
         /\ cmd[s].op # "create" => G!Exists(cmd[s].key)
<1>1. /\ OnPath(s) /\ Authorized(s) /\ SeenSound(s) /\ CheckedSound(s)
      /\ DecisionSound(s) /\ EvidenceSound(s) /\ CreateSound(s) /\ WriteSound(s)
      /\ pc[s] # "commit" => nextRec[s] = NoRecord
  BY DEF Inv, Sound
<1>2. cmd[s] \in Command /\ (cmd[s].op # "create" => G!Exists(cmd[s].key))
  BY <1>1 DEF Authorized
<1> QED BY <1>1, <1>2, CommandType DEF Inv, TypeOK, WorkTypeOK

\* ReadRow keeps the invariant.
LEMMA ReadRowPreserves ==
  ASSUME Inv, NEW s \in Sessions, ReadRow(s)
  PROVE  Inv'
<1>1. PICK c, k : c = cmd[s] /\ k = c.key
  OBVIOUS
<1>2. /\ pc[s] = "read"
      /\ seen' = [seen EXCEPT ![s] = records[k]]
      /\ pc' = [pc EXCEPT ![s] = "history"]
      /\ UNCHANGED <<records, decisions, contentLog, cmd, nextRec, pending,
                     rowLock, keyShare, idLock>>
  BY <1>1 DEF ReadRow, Goto, committed, locks
<1>3. /\ c \in Command /\ k \in G!Keys /\ OnPath(s) /\ Authorized(s) /\ DecisionSound(s)
      /\ nextRec[s] = NoRecord /\ WorkTypeOK
  BY <1>1, <1>2, Running
<1>4. c.op # "create"
  BY <1>1, <1>2, <1>3 DEF OnPath
<1>5. /\ records[k] \in Record /\ records[k].revision \in Nat
      /\ c.expected <= records[k].revision
  <2>1. G!Exists(k) /\ c.expected <= records[k].revision
    BY <1>1, <1>3, <1>4 DEF Authorized
  <2> QED BY <1>3, <2>1, StoredRecord
<1>6. WorkTypeOK'
  BY <1>2, <1>3, <1>5 DEF WorkTypeOK, PCs
<1>7. Leaves(s)
  BY <1>2, <1>3 DEF Leaves, WorkTypeOK
<1>8. pc'[s] = "history" /\ seen'[s] = records[k]
  BY <1>2, <1>3 DEF WorkTypeOK
<1>9. Sound(s)'
  <2>1. OnPath(s)' /\ Authorized(s)'
    BY <1>1, <1>2, <1>3, <1>4, <1>8 DEF OnPath, Authorized, G!Granted, G!Exists
  <2>2. SeenSound(s)' /\ CheckedSound(s)'
    BY <1>1, <1>2, <1>5, <1>8 DEF SeenSound, CheckedSound
  <2>3. DecisionSound(s)' /\ EvidenceSound(s)'
    BY <1>2, <1>3, <1>8 DEF DecisionSound, EvidenceSound
  <2>4. CreateSound(s)' /\ WriteSound(s)'
    BY <1>1, <1>2, <1>4, <1>8 DEF CreateSound, WriteSound
  <2> QED BY <1>2, <1>3, <1>8, <2>1, <2>2, <2>3, <2>4 DEF Sound
<1>10. OneDecision'
  BY <1>2, <1>7, OneDecisionStays
<1> QED BY <1>2, <1>6, <1>7, <1>9, <1>10, QuietPreserves DEF committed

\* The row read before and the history read now make a valid record only if
\* nothing was committed in between: the two snapshots are then one.
LEMMA HydratedIsStored ==
  ASSUME Inv, NEW s \in Sessions, pc[s] = "history", ValidRecord(Hydrated(s))
  PROVE  /\ cmd[s].op # "create"
         /\ seen[s] = records[cmd[s].key]
         /\ Hydrated(s) = records[cmd[s].key]
<1>1. PICK k : k = cmd[s].key
  OBVIOUS
<1>2. cmd[s].op # "create" /\ k \in G!Keys /\ G!Exists(k)
  BY <1>1, Running DEF OnPath
<1>3. /\ seen[s] \in Record
      /\ seen[s].revision = records[k].revision => seen[s] = records[k]
  BY <1>1, <1>2, Running DEF SeenSound
<1>4. records[k] \in Record /\ Len(records[k].history) = records[k].revision
  BY <1>2, StoredRecord DEF ValidRecord
<1>5. Hydrated(s).revision = seen[s].revision /\ Hydrated(s).history = records[k].history
  BY <1>1, <1>3 DEF Hydrated, Record
<1>6. seen[s] = records[k]
  BY <1>3, <1>4, <1>5 DEF ValidRecord
<1>7. Hydrated(s) = records[k]
  BY <1>1, <1>4, <1>6 DEF Hydrated, Record
<1> QED BY <1>1, <1>2, <1>6, <1>7

\* ReadHistory keeps the invariant.
LEMMA ReadHistoryPreserves ==
  ASSUME Inv, NEW s \in Sessions, ReadHistory(s)
  PROVE  Inv'
<1>1. PICK c, k, label : c = cmd[s] /\ k = c.key /\ label = AfterChecks(c.op)
  OBVIOUS
<1>2. /\ pc[s] = "history"
      /\ Checked(s, Hydrated(s))
      /\ seen' = [seen EXCEPT ![s] = Hydrated(s)]
      /\ pc' = [pc EXCEPT ![s] = label]
      /\ UNCHANGED <<records, decisions, contentLog, cmd, nextRec, pending,
                     rowLock, keyShare, idLock>>
  BY <1>1 DEF ReadHistory, Goto, committed, locks
<1>3. /\ c \in Command /\ k \in G!Keys /\ OnPath(s) /\ Authorized(s) /\ DecisionSound(s)
      /\ SeenSound(s) /\ nextRec[s] = NoRecord /\ WorkTypeOK
  BY <1>1, <1>2, Running
<1>4. c.op # "create" /\ seen[s] = records[k] /\ Hydrated(s) = records[k]
  BY <1>1, <1>2, HydratedIsStored DEF Checked
<1>5. /\ records[k] \in Record /\ records[k].revision \in Nat
      /\ c.expected <= records[k].revision
      /\ contentLog[k][records[k].revision] = records[k].content
  <2>1. G!Exists(k) /\ c.expected <= records[k].revision
    BY <1>1, <1>3, <1>4 DEF Authorized
  <2> QED BY <1>3, <2>1, StoredRecord
<1>6. /\ label \in {"insert", "evidence", "lock"}
      /\ label = "insert" <=> c.op = "review"
      /\ label = "evidence" <=> c.op = "publish"
  BY <1>1 DEF AfterChecks
<1>7. WorkTypeOK'
  BY <1>2, <1>3, <1>4, <1>5, <1>6 DEF WorkTypeOK, PCs
<1>8. Leaves(s)
  BY <1>2, <1>3 DEF Leaves, WorkTypeOK
<1>9. pc'[s] = label /\ seen'[s] = records[k]
  BY <1>2, <1>3, <1>4 DEF WorkTypeOK
<1>10. Sound(s)'
  <2>1. OnPath(s)' /\ Authorized(s)'
    BY <1>1, <1>2, <1>3, <1>4, <1>6, <1>9 DEF OnPath, Authorized, G!Granted, G!Exists
  <2>2. SeenSound(s)'
    BY <1>1, <1>2, <1>5, <1>9 DEF SeenSound
  <2>3. CheckedSound(s)'
    <3>1. Checked(s, seen[s])'
      BY <1>1, <1>2, <1>4, <1>9 DEF Checked
    <3> QED BY <1>1, <1>2, <1>5, <1>9, <3>1 DEF CheckedSound
  <2>4. DecisionSound(s)' /\ EvidenceSound(s)'
    BY <1>1, <1>2, <1>3, <1>6, <1>9 DEF DecisionSound, EvidenceSound
  <2>5. CreateSound(s)' /\ WriteSound(s)'
    BY <1>1, <1>2, <1>4, <1>6, <1>9 DEF CreateSound, WriteSound
  <2> QED BY <1>2, <1>3, <1>6, <1>9, <2>1, <2>2, <2>3, <2>4, <2>5 DEF Sound
<1>11. OneDecision'
  BY <1>2, <1>8, OneDecisionStays
<1> QED BY <1>2, <1>7, <1>8, <1>10, <1>11, QuietPreserves DEF committed

\* What the session has seen has a revision, a body and an author.
LEMMA SeenRecord ==
  ASSUME Inv, NEW s \in Sessions, pc[s] \notin {"idle", "read"}, cmd[s].op # "create"
  PROVE  seen[s] \in Record /\ seen[s].revision \in Nat \ {0}
  BY Running DEF SeenSound, Record

\* InsertDecision keeps the invariant.
LEMMA InsertDecisionPreserves ==
  ASSUME Inv, NEW s \in Sessions, InsertDecision(s)
  PROVE  Inv'
<1>1. PICK c, k : c = cmd[s] /\ k = c.key
  OBVIOUS
<1>2. /\ pc[s] = "insert"
      /\ ~ AlreadyDecided(s) /\ Twins(s) = {}
      /\ pending' = [pending EXCEPT ![s] = DecisionOf(s)]
      /\ pc' = [pc EXCEPT ![s] = "foreign_key"]
      /\ UNCHANGED <<records, decisions, contentLog, cmd, seen, nextRec,
                     rowLock, keyShare, idLock>>
  BY DEF InsertDecision, Goto, committed, locks
<1>3. /\ c \in Command /\ k \in G!Keys /\ OnPath(s) /\ Authorized(s)
      /\ SeenSound(s) /\ CheckedSound(s) /\ nextRec[s] = NoRecord /\ WorkTypeOK
  BY <1>1, <1>2, Running
<1>4. c.op = "review"
  BY <1>1, <1>2, <1>3 DEF OnPath
<1>5. DecisionOf(s) \in G!Decision
  <2>1. seen[s].revision \in Nat \ {0}
    BY <1>1, <1>2, <1>4, SeenRecord
  <2> QED BY <1>1, <1>3, <1>4, <2>1, CommandType, SameSets DEF DecisionOf, G!Decision
<1>6. WorkTypeOK'
  BY <1>2, <1>3, <1>5 DEF WorkTypeOK, PCs
<1>7. Leaves(s)
  BY <1>2, <1>3 DEF Leaves, WorkTypeOK
<1>8. pc'[s] = "foreign_key" /\ pending'[s] = DecisionOf(s)
  BY <1>2, <1>3 DEF WorkTypeOK
<1>9. Sound(s)'
  <2>1. OnPath(s)' /\ Authorized(s)'
    BY <1>1, <1>2, <1>3, <1>4, <1>8 DEF OnPath, Authorized, G!Granted, G!Exists
  <2>2. SeenSound(s)'
    BY <1>1, <1>2, <1>3, <1>8 DEF SeenSound
  <2>3. CheckedSound(s)'
    BY <1>2, <1>3, <1>8 DEF CheckedSound, Checked
  <2>4. DecisionSound(s)'
    <3>1. DecisionOf(s)' = DecisionOf(s) /\ AlreadyDecided(s)' = AlreadyDecided(s)
      BY <1>2 DEF DecisionOf, AlreadyDecided
    <3> QED BY <1>1, <1>2, <1>4, <1>8, <3>1 DEF DecisionSound
  <2>5. EvidenceSound(s)' /\ CreateSound(s)' /\ WriteSound(s)'
    BY <1>1, <1>2, <1>4, <1>8 DEF EvidenceSound, CreateSound, WriteSound
  <2> QED BY <1>2, <1>3, <1>8, <2>1, <2>2, <2>3, <2>4, <2>5 DEF Sound
<1>10. OneDecision'
  <2>1. \A u \in Sessions \ {s} :
          pending'[u] # NoDecision =>
            ~ SameReview(pending'[u], pending'[s]) /\ ~ SameReview(pending'[s], pending'[u])
    BY <1>2, <1>7, <1>8 DEF Twins, SameReview, Leaves
  <2>2. \A u, v \in Sessions \ {s} :
          u # v /\ pending'[u] # NoDecision /\ pending'[v] # NoDecision
            => ~ SameReview(pending'[u], pending'[v])
    BY <1>7 DEF Inv, OneDecision, Leaves
  <2> QED BY <2>1, <2>2 DEF OneDecision, SameReview
<1> QED BY <1>2, <1>6, <1>7, <1>9, <1>10, QuietPreserves DEF committed

\* ForeignKeyShare keeps the invariant.
LEMMA ForeignKeySharePreserves ==
  ASSUME Inv, NEW s \in Sessions, ForeignKeyShare(s)
  PROVE  Inv'
<1>1. PICK c, k, label :
        c = cmd[s] /\ k = c.key /\ label = IF c.arg = "APPROVE" THEN "commit" ELSE "lock"
  OBVIOUS
<1>2. /\ pc[s] = "foreign_key"
      /\ keyShare' = [keyShare EXCEPT ![k] = @ \union {s}]
      /\ pc' = [pc EXCEPT ![s] = label]
      /\ UNCHANGED <<records, decisions, contentLog, cmd, seen, nextRec, pending,
                     rowLock, idLock>>
  BY <1>1 DEF ForeignKeyShare, Goto, committed, work
<1>3. /\ c \in Command /\ k \in G!Keys /\ OnPath(s) /\ Authorized(s)
      /\ SeenSound(s) /\ CheckedSound(s) /\ DecisionSound(s)
      /\ nextRec[s] = NoRecord /\ WorkTypeOK
  BY <1>1, <1>2, Running
<1>4. c.op = "review" /\ c.arg \in {"APPROVE", "REQUEST_CHANGES"}
  BY <1>1, <1>2, <1>3, CommandType DEF OnPath
<1>5. WorkTypeOK'
  BY <1>1, <1>2, <1>3 DEF WorkTypeOK, PCs
<1>6. Leaves(s)
  BY <1>2, <1>3 DEF Leaves, WorkTypeOK
<1>7. pc'[s] = label
  BY <1>2, <1>3 DEF WorkTypeOK
<1>8. Sound(s)'
  <2>1. OnPath(s)' /\ Authorized(s)'
    BY <1>1, <1>2, <1>3, <1>4, <1>7 DEF OnPath, Authorized, G!Granted, G!Exists
  <2>2. SeenSound(s)'
    BY <1>1, <1>2, <1>3, <1>7 DEF SeenSound
  <2>3. CheckedSound(s)'
    BY <1>1, <1>2, <1>3, <1>7 DEF CheckedSound, Checked
  <2>4. DecisionSound(s)'
    <3>1. DecisionOf(s)' = DecisionOf(s) /\ AlreadyDecided(s)' = AlreadyDecided(s)
      BY <1>2 DEF DecisionOf, AlreadyDecided
    <3> QED BY <1>1, <1>2, <1>3, <1>4, <1>7, <3>1 DEF DecisionSound
  <2>5. EvidenceSound(s)' /\ CreateSound(s)' /\ WriteSound(s)'
    BY <1>1, <1>2, <1>3, <1>4, <1>7 DEF EvidenceSound, CreateSound, WriteSound
  <2> QED BY <1>1, <1>2, <1>3, <1>7, <2>1, <2>2, <2>3, <2>4, <2>5 DEF Sound
<1>9. OneDecision'
  BY <1>2, <1>6, OneDecisionStays
<1> QED BY <1>2, <1>5, <1>6, <1>8, <1>9, QuietPreserves DEF committed

\* CollectEvidence keeps the invariant.
LEMMA CollectEvidencePreserves ==
  ASSUME Inv, NEW s \in Sessions, CollectEvidence(s)
  PROVE  Inv'
<1>1. PICK c, k : c = cmd[s] /\ k = c.key
  OBVIOUS
<1>2. /\ pc[s] = "evidence"
      /\ PublishAllowed(seen[s], EvidenceFor(s), c.actor)
      /\ pc' = [pc EXCEPT ![s] = "lock"]
      /\ UNCHANGED <<records, decisions, contentLog, cmd, seen, nextRec, pending,
                     rowLock, keyShare, idLock>>
  BY <1>1 DEF CollectEvidence, Goto, committed, work, locks
<1>3. /\ c \in Command /\ k \in G!Keys /\ OnPath(s) /\ Authorized(s)
      /\ SeenSound(s) /\ CheckedSound(s) /\ DecisionSound(s)
      /\ nextRec[s] = NoRecord /\ WorkTypeOK
  BY <1>1, <1>2, Running
<1>4. c.op = "publish"
  BY <1>1, <1>2, <1>3 DEF OnPath
<1>5. WorkTypeOK'
  BY <1>2, <1>3 DEF WorkTypeOK, PCs
<1>6. Leaves(s)
  BY <1>2, <1>3 DEF Leaves, WorkTypeOK
<1>7. pc'[s] = "lock"
  BY <1>2, <1>3 DEF WorkTypeOK
<1>8. Sound(s)'
  <2>1. OnPath(s)' /\ Authorized(s)'
    BY <1>1, <1>2, <1>3, <1>4, <1>7 DEF OnPath, Authorized, G!Granted, G!Exists
  <2>2. SeenSound(s)'
    BY <1>2, <1>3, <1>7 DEF SeenSound
  <2>3. CheckedSound(s)'
    BY <1>2, <1>3, <1>7 DEF CheckedSound, Checked
  <2>4. DecisionSound(s)'
    BY <1>1, <1>2, <1>3, <1>4, <1>7 DEF DecisionSound
  <2>5. EvidenceSound(s)'
    <3>1. EvidenceFor(s)' = EvidenceFor(s)
      BY <1>2 DEF EvidenceFor, G!DecisionsAt
    <3> QED BY <1>1, <1>2, <3>1 DEF EvidenceSound
  <2>6. CreateSound(s)' /\ WriteSound(s)'
    BY <1>1, <1>2, <1>4, <1>7 DEF CreateSound, WriteSound
  <2> QED BY <1>2, <1>3, <1>7, <2>1, <2>2, <2>3, <2>4, <2>5, <2>6 DEF Sound
<1>9. OneDecision'
  BY <1>2, <1>6, OneDecisionStays
<1> QED BY <1>2, <1>5, <1>6, <1>8, <1>9, QuietPreserves DEF committed

\* What a command that may write writes is a valid record.
LEMMA WrittenIsRecord ==
  ASSUME Inv, NEW c \in Command, c.op # "create", G!Exists(c.key),
         CanWrite(c, records[c.key])
  PROVE  Written(c, records[c.key]) \in Record
<1>1. PICK rec : rec = records[c.key]
  OBVIOUS
<1>2. rec \in P!Record /\ P!ValidRecord(rec)
  BY <1>1, CommandType, StoredRecord, SameSets, SameRules
<1>3. c.actor \in Actors /\ c.at \in Times
  BY CommandType
<1>4. CASE c.op = "replace"
  <2>1. rec.status = "DRAFT" /\ c.arg \in Contents
    BY <1>1, <1>4, CommandType DEF CanWrite, CanReplaceDraft
  <2>2. P!ReplacedRecord(rec, c.arg, c.actor, c.at) \in P!Record
    BY <1>2, <1>3, <2>1, Assumptions, P!ReplacedIsValid
  <2> QED BY <1>1, <1>4, <2>2, SameSets, SameRecords DEF Written
<1>5. CASE c.op # "replace"
  <2>1. Target(c) \in P!LifecycleTransitions[rec.status]
    BY <1>1, <1>5 DEF CanWrite, CanTransition, P!LifecycleTransitions, LifecycleTransitions
  <2>2. P!TransitionedRecord(rec, Target(c), c.actor, c.at) \in P!Record
    BY <1>2, <1>3, <2>1, Assumptions, P!TransitionedIsValid
  <2> QED BY <1>1, <1>5, <2>2, SameSets, SameRecords DEF Written
<1> QED BY <1>4, <1>5

\* LockAndWrite keeps the invariant.
LEMMA LockAndWritePreserves ==
  ASSUME Inv, NEW s \in Sessions, LockAndWrite(s)
  PROVE  Inv'
<1>1. PICK c, k, new : c = cmd[s] /\ k = c.key /\ new = Written(c, records[k])
  OBVIOUS
<1>2. /\ pc[s] = "lock"
      /\ rowLock[k] = Nobody
      /\ CanWrite(c, records[k])
      /\ rowLock' = [rowLock EXCEPT ![k] = s]
      /\ nextRec' = [nextRec EXCEPT ![s] = new]
      /\ pc' = [pc EXCEPT ![s] = "commit"]
      /\ UNCHANGED <<records, decisions, contentLog, cmd, seen, pending, keyShare, idLock>>
  BY <1>1 DEF LockAndWrite, RowFree, Goto, committed
<1>3. /\ c \in Command /\ k \in G!Keys /\ OnPath(s) /\ Authorized(s)
      /\ SeenSound(s) /\ CheckedSound(s) /\ DecisionSound(s) /\ EvidenceSound(s)
      /\ WorkTypeOK
  BY <1>1, <1>2, Running
<1>4. /\ c.op # "create"
      /\ c.op = "review" => c.arg = "REQUEST_CHANGES"
  BY <1>1, <1>2, <1>3 DEF OnPath
<1>5. new \in Record
  BY <1>1, <1>2, <1>3, <1>4, WrittenIsRecord DEF Authorized
<1>6. WorkTypeOK'
  BY <1>2, <1>3, <1>5 DEF WorkTypeOK, PCs
<1>7. Leaves(s)
  <2>1. Nobody \notin Sessions
    BY SessionAssumption DEF SessionAssumption
  <2> QED BY <1>2, <1>3, <2>1 DEF Leaves, WorkTypeOK
<1>8. pc'[s] = "commit" /\ nextRec'[s] = new /\ rowLock'[k] = s
  BY <1>2, <1>3 DEF WorkTypeOK
<1>9. Sound(s)'
  <2>1. OnPath(s)' /\ Authorized(s)'
    BY <1>1, <1>2, <1>3, <1>4, <1>8 DEF OnPath, Authorized, G!Granted, G!Exists
  <2>2. SeenSound(s)'
    BY <1>2, <1>3, <1>8 DEF SeenSound
  <2>3. CheckedSound(s)'
    BY <1>2, <1>3, <1>8 DEF CheckedSound, Checked
  <2>4. DecisionSound(s)'
    <3>1. DecisionOf(s)' = DecisionOf(s) /\ AlreadyDecided(s)' = AlreadyDecided(s)
      BY <1>2 DEF DecisionOf, AlreadyDecided
    <3> QED BY <1>2, <1>3, <1>8, <3>1 DEF DecisionSound
  <2>5. EvidenceSound(s)'
    <3>1. EvidenceFor(s)' = EvidenceFor(s)
      BY <1>2 DEF EvidenceFor, G!DecisionsAt
    <3> QED BY <1>2, <1>3, <3>1 DEF EvidenceSound
  <2>6. CreateSound(s)' /\ WriteSound(s)'
    BY <1>1, <1>2, <1>4, <1>8 DEF CreateSound, WriteSound
  <2> QED BY <1>8, <2>1, <2>2, <2>3, <2>4, <2>5, <2>6 DEF Sound
<1>10. OneDecision'
  BY <1>2, <1>7, OneDecisionStays
<1> QED BY <1>2, <1>6, <1>7, <1>9, <1>10, QuietPreserves DEF committed

\* LockId keeps the invariant.
LEMMA LockIdPreserves ==
  ASSUME Inv, NEW s \in Sessions, LockId(s)
  PROVE  Inv'
<1>1. PICK c, i : c = cmd[s] /\ i = c.key.id
  OBVIOUS
<1>2. /\ pc[s] = "advisory"
      /\ idLock[i] = Nobody
      /\ idLock' = [idLock EXCEPT ![i] = s]
      /\ pc' = [pc EXCEPT ![s] = "versions"]
      /\ UNCHANGED <<records, decisions, contentLog, cmd, seen, nextRec, pending,
                     rowLock, keyShare>>
  BY <1>1 DEF LockId, Goto, committed, work
<1>3. /\ c \in Command /\ OnPath(s) /\ Authorized(s) /\ DecisionSound(s)
      /\ nextRec[s] = NoRecord /\ WorkTypeOK
  BY <1>1, <1>2, Running
<1>4. c.op = "create" /\ i \in Ids
  BY <1>1, <1>2, <1>3, CommandType DEF OnPath, G!Keys
<1>5. WorkTypeOK'
  BY <1>2, <1>3, <1>4 DEF WorkTypeOK, PCs
<1>6. Leaves(s)
  <2>1. Nobody \notin Sessions
    BY SessionAssumption DEF SessionAssumption
  <2> QED BY <1>2, <1>3, <2>1 DEF Leaves, WorkTypeOK
<1>7. pc'[s] = "versions" /\ idLock'[i] = s
  BY <1>2, <1>3, <1>4 DEF WorkTypeOK
<1>8. Sound(s)'
  <2>1. OnPath(s)' /\ Authorized(s)'
    BY <1>1, <1>2, <1>3, <1>4, <1>7 DEF OnPath, Authorized, G!Granted, G!Exists
  <2>2. SeenSound(s)' /\ CheckedSound(s)' /\ EvidenceSound(s)' /\ WriteSound(s)'
    BY <1>1, <1>2, <1>4, <1>7 DEF SeenSound, CheckedSound, EvidenceSound, WriteSound
  <2>3. DecisionSound(s)' /\ CreateSound(s)'
    BY <1>1, <1>2, <1>3, <1>4, <1>7 DEF DecisionSound, CreateSound
  <2> QED BY <1>2, <1>3, <1>7, <2>1, <2>2, <2>3 DEF Sound
<1>9. OneDecision'
  BY <1>2, <1>6, OneDecisionStays
<1> QED BY <1>2, <1>5, <1>6, <1>8, <1>9, QuietPreserves DEF committed

\* InsertRecord keeps the invariant.
LEMMA InsertRecordPreserves ==
  ASSUME Inv, NEW s \in Sessions, InsertRecord(s)
  PROVE  Inv'
<1>1. PICK c, new : c = cmd[s] /\ new = CreatedRecord(c.arg, c.actor, c.at)
  OBVIOUS
<1>2. /\ pc[s] = "versions"
      /\ G!NewerThanAll(c.key)
      /\ nextRec' = [nextRec EXCEPT ![s] = new]
      /\ pc' = [pc EXCEPT ![s] = "commit"]
      /\ UNCHANGED <<records, decisions, contentLog, cmd, seen, pending,
                     rowLock, keyShare, idLock>>
  BY <1>1 DEF InsertRecord, Goto, committed, locks
<1>3. /\ c \in Command /\ OnPath(s) /\ Authorized(s) /\ DecisionSound(s)
      /\ CreateSound(s) /\ WorkTypeOK
  BY <1>1, <1>2, Running
<1>4. c.op = "create"
  BY <1>1, <1>2, <1>3 DEF OnPath
<1>5. new \in Record
  <2>1. P!CreatedRecord(c.arg, c.actor, c.at) \in P!Record
    BY <1>3, <1>4, CommandType, Assumptions, P!CreatedIsValid
  <2> QED BY <1>1, <2>1, SameSets, SameRecords
<1>6. WorkTypeOK'
  BY <1>2, <1>3, <1>5 DEF WorkTypeOK, PCs
<1>7. Leaves(s)
  BY <1>2, <1>3 DEF Leaves, WorkTypeOK
<1>8. pc'[s] = "commit" /\ nextRec'[s] = new
  BY <1>2, <1>3 DEF WorkTypeOK
<1>9. Sound(s)'
  <2>1. OnPath(s)' /\ Authorized(s)'
    BY <1>1, <1>2, <1>3, <1>4, <1>8 DEF OnPath, Authorized, G!Granted, G!Exists
  <2>2. SeenSound(s)' /\ CheckedSound(s)' /\ EvidenceSound(s)' /\ WriteSound(s)'
    BY <1>1, <1>2, <1>4, <1>8 DEF SeenSound, CheckedSound, EvidenceSound, WriteSound
  <2>3. DecisionSound(s)'
    BY <1>1, <1>2, <1>3, <1>4, <1>8 DEF DecisionSound
  <2>4. CreateSound(s)'
    BY <1>1, <1>2, <1>3, <1>4, <1>8 DEF CreateSound, G!NewerThanAll, G!Exists
  <2> QED BY <1>8, <2>1, <2>2, <2>3, <2>4 DEF Sound
<1>10. OneDecision'
  BY <1>2, <1>7, OneDecisionStays
<1> QED BY <1>2, <1>6, <1>7, <1>9, <1>10, QuietPreserves DEF committed

-----------------------------------------------------------------------------
(* COMMIT is one step of the atomic service.                               *)

\* What is committed is the decision the session inserted and the record it wrote.
LEMMA CommitStores ==
  ASSUME Inv, NEW s \in Sessions, Commit(s)
  PROVE  /\ pc[s] = "commit"
         /\ nextRec[s] = NoRecord => UNCHANGED <<records, contentLog>>
         /\ nextRec[s] # NoRecord /\ nextRec[s].revision <= MaxRevision
              => P!Put(cmd[s].key, nextRec[s])
         /\ pending[s] = NoDecision => UNCHANGED decisions
         /\ pending[s] # NoDecision => decisions' = decisions \union {pending[s]}
         /\ Finish(s)
  BY DEF Commit, P!Put

\* A command that writes a stored record finds it as it read it.
LEMMA CommitWrites ==
  ASSUME Inv, NEW s \in Sessions, Commit(s), cmd[s].op # "create",
         ~ (cmd[s].op = "review" /\ cmd[s].arg = "APPROVE")
  PROVE  LET c == cmd[s]  k == c.key  rec == records[k] IN
         /\ rowLock[k] = s
         /\ seen[s] = rec /\ Checked(s, rec)
         /\ P!Handles(c.project, k)
         /\ rec.revision \in Nat /\ rec.revision = c.expected
         /\ nextRec[s] # NoRecord /\ nextRec[s].revision = rec.revision + 1
         /\ c.op = "replace" =>
              /\ P!CanReplaceDraft(rec, rec.revision, c.at)
              /\ P!Put(k, P!ReplacedRecord(rec, c.arg, c.actor, c.at))
         /\ c.op # "replace" => P!Move(k, Target(c), c.actor, c.at)
<1>1. PICK c, k, rec : c = cmd[s] /\ k = c.key /\ rec = records[k]
  OBVIOUS
<1>2. pc[s] = "commit"
  BY CommitStores
<1>3. /\ c \in Command /\ k \in G!Keys /\ Authorized(s) /\ G!Exists(k)
      /\ SeenSound(s) /\ CheckedSound(s) /\ WriteSound(s)
  BY <1>1, <1>2, Running
<1>4. rowLock[k] = s /\ CanWrite(c, rec) /\ nextRec[s] = Written(c, rec)
  BY <1>1, <1>2, <1>3 DEF WriteSound
<1>5. rec \in Record /\ rec.revision \in Nat
  BY <1>1, <1>3, StoredRecord
<1>6. rec.revision = c.expected
  BY <1>4 DEF CanWrite, CanReplaceDraft, CanTransition
<1>7. seen[s] = rec
  <2>1. /\ c.expected <= seen[s].revision /\ seen[s].revision <= rec.revision
        /\ seen[s].revision = rec.revision => seen[s] = rec
        /\ seen[s].revision \in Nat
    BY <1>1, <1>2, <1>3 DEF SeenSound, Record
  <2> QED BY <1>5, <1>6, <2>1
<1>8. Checked(s, rec)
  BY <1>1, <1>2, <1>3, <1>7 DEF CheckedSound
<1>9. P!Handles(c.project, k)
  BY <1>1, <1>3, <1>8, SameStore, SameRules DEF Checked, P!Handles
<1>10. nextRec[s] # NoRecord /\ nextRec[s].revision = rec.revision + 1
  <2>1. nextRec[s] \in Record
    BY <1>1, <1>3, <1>4, WrittenIsRecord
  <2>2. nextRec[s] # NoRecord
    BY <2>1, StoreAssumption DEF StoreAssumption
  <2> QED BY <1>4, <2>2 DEF Written, ReplacedRecord, TransitionedRecord
<1>11. P!Put(k, Written(c, rec))
  <2>1. c.expected < MaxRevision /\ MaxRevision \in Nat
    BY <1>1, <1>3, StoreAssumption DEF Authorized, StoreAssumption
  <2>2. nextRec[s].revision <= MaxRevision
    BY <1>5, <1>6, <1>10, <2>1
  <2> QED BY <1>1, <1>4, <1>10, <2>2, CommitStores
<1>12. c.op = "replace" =>
         /\ P!CanReplaceDraft(rec, rec.revision, c.at)
         /\ P!Put(k, P!ReplacedRecord(rec, c.arg, c.actor, c.at))
  BY <1>4, <1>6, <1>11, SameRecords DEF CanWrite, Written
<1>13. c.op # "replace" => P!Move(k, Target(c), c.actor, c.at)
  BY <1>1, <1>4, <1>6, <1>11, SameRecords DEF CanWrite, Written, P!Move
<1> QED BY <1>1, <1>4, <1>5, <1>6, <1>7, <1>8, <1>9, <1>10, <1>12, <1>13

\* A commit is one step of the atomic service: what was read earlier in the
\* transaction is still enough to allow the command at the moment it commits.
LEMMA CommitImplements ==
  ASSUME Inv, NEW s \in Sessions, Commit(s)
  PROVE  P!Next
<1>1. PICK c, p, k, a, t :
        c = cmd[s] /\ p = c.project /\ k = c.key /\ a = c.actor /\ t = c.at
  OBVIOUS
<1>2. pc[s] = "commit"
  BY CommitStores
<1>3. /\ c \in Command /\ OnPath(s) /\ Authorized(s)
      /\ SeenSound(s) /\ CheckedSound(s) /\ DecisionSound(s) /\ EvidenceSound(s)
      /\ CreateSound(s) /\ WriteSound(s)
  BY <1>1, <1>2, Running
<1>4. /\ p \in Projects /\ k \in P!Keys /\ k \in G!Keys /\ a \in Actors /\ t \in Times
      /\ c.op \in {"create", "replace", "review", "submit", "publish", "deprecate", "archive"}
      /\ c.op \in {"create", "replace"} => c.arg \in Contents
      /\ c.op = "review" => c.arg \in {"APPROVE", "REQUEST_CHANGES"}
  BY <1>1, <1>3, CommandType, SameSets
<1>5. /\ P!Granted(p, a, ActionOf[c.op])
      /\ c.op \in {"create", "replace"} => P!BoundTo(c.arg, p)
  BY <1>1, <1>3, SameStore, SameRules DEF Authorized
<1>6. c.op # "review" => pending[s] = NoDecision /\ UNCHANGED decisions
  BY <1>1, <1>3, CommitStores DEF DecisionSound
<1>7. CASE c.op = "create"
  <2>1. P!NewerThanAll(k) /\ nextRec[s] = P!CreatedRecord(c.arg, a, t)
    BY <1>1, <1>2, <1>3, <1>7, SameStore, SameRecords DEF CreateSound
  <2>2. nextRec[s].revision <= MaxRevision
    BY <2>1, StoreAssumption DEF P!CreatedRecord, StoreAssumption
  <2>3. nextRec[s] # NoRecord
    <3>1. nextRec[s] \in P!Record
      BY <1>4, <1>7, <2>1, Assumptions, P!CreatedIsValid
    <3> QED BY <3>1, SameSets, StoreAssumption DEF StoreAssumption
  <2>4. P!Put(k, P!CreatedRecord(c.arg, a, t))
    BY <1>1, <2>1, <2>2, <2>3, CommitStores
  <2>5. P!CreateDraft(p, k, c.arg, a, t)
    BY <1>5, <1>6, <1>7, <2>1, <2>4 DEF P!CreateDraft, ActionOf
  <2> QED BY <1>4, <1>7, <2>5 DEF P!Next
<1>8. CASE c.op = "replace"
  <2>1. P!ReplaceDraft(p, k, c.arg, a, t)
    BY <1>1, <1>5, <1>6, <1>8, CommitWrites DEF P!ReplaceDraft, ActionOf
  <2> QED BY <1>4, <1>8, <2>1 DEF P!Next
<1>9. CASE c.op = "submit"
  <2>1. /\ P!Handles(p, k) /\ P!Move(k, "REVIEWING", a, t)
        /\ P!SubmitAllowed(records[k], a)
    BY <1>1, <1>9, CommitWrites, SameRules DEF Target, Checked
  <2>2. P!Submit(p, k, a, t)
    BY <1>5, <1>6, <1>9, <2>1 DEF P!Submit, ActionOf
  <2> QED BY <1>4, <2>2 DEF P!Next
<1>10. CASE c.op = "publish"
  <2>1. /\ P!Handles(p, k) /\ P!Move(k, "PUBLISHED", a, t)
        /\ seen[s] = records[k]
    BY <1>1, <1>10, CommitWrites DEF Target
  <2>2. P!PublishAllowed(records[k], P!DecisionsAt(p, k, records[k].revision), a)
    <3>1. PublishAllowed(records[k], EvidenceFor(s), a)
      BY <1>1, <1>2, <1>3, <1>10, <2>1 DEF EvidenceSound
    <3>2. EvidenceFor(s) = P!DecisionsAt(p, k, records[k].revision)
      BY <1>1, <2>1, SameStore DEF EvidenceFor
    <3> QED BY <3>1, <3>2, SameRules
  <2>3. P!Publish(p, k, a, t)
    BY <1>5, <1>6, <1>10, <2>1, <2>2 DEF P!Publish, ActionOf
  <2> QED BY <1>4, <2>3 DEF P!Next
<1>11. CASE c.op = "deprecate"
  <2>1. P!Handles(p, k) /\ P!Move(k, "DEPRECATED", a, t)
    BY <1>1, <1>11, CommitWrites DEF Target
  <2>2. P!Deprecate(p, k, a, t)
    BY <1>5, <1>6, <1>11, <2>1 DEF P!Deprecate, ActionOf
  <2> QED BY <1>4, <2>2 DEF P!Next
<1>12. CASE c.op = "archive"
  <2>1. P!Handles(p, k) /\ P!Move(k, "ARCHIVED", a, t)
    BY <1>1, <1>12, CommitWrites DEF Target
  <2>2. P!Archive(p, k, a, t)
    BY <1>5, <1>6, <1>12, <2>1 DEF P!Archive, ActionOf
  <2> QED BY <1>4, <2>2 DEF P!Next
<1>13. CASE c.op = "review"
  <2> DEFINE r == seen[s].revision
  <2>1. /\ pending[s] = DecisionOf(s) /\ ~ AlreadyDecided(s)
        /\ DecisionOf(s) = [project |-> p, key |-> k, revision |-> r,
                            verdict |-> c.arg, reviewer |-> a]
    BY <1>1, <1>2, <1>3, <1>13 DEF DecisionSound, DecisionOf
  <2>2. P!Exists(k) /\ seen[s] \in Record /\ r \in Nat \ {0} /\ r <= records[k].revision
    BY <1>1, <1>2, <1>3, <1>13, SameStore DEF Authorized, SeenSound, Record
  <2>3. pending[s] # NoDecision
    <3>1. DecisionOf(s) \in G!Decision
      BY <1>4, <1>13, <2>1, <2>2, SameSets DEF G!Decision
    <3> QED BY <2>1, <3>1, SessionAssumption DEF SessionAssumption
  <2>4. P!Undecided(p, k, r, a)
    BY <2>1 DEF P!Undecided, P!DecisionsAt, AlreadyDecided, SameReview
  <2>5. P!Decide(p, k, r, c.arg, a)
    BY <2>1, <2>3, CommitStores DEF P!Decide
  <2>6. CASE c.arg = "APPROVE"
    <3>1. UNCHANGED <<records, contentLog>>
      BY <1>1, <1>2, <1>3, <1>13, <2>6, CommitStores DEF WriteSound
    <3>2. /\ records[k].revision \in Nat /\ records[k].revision <= MaxRevision
          /\ DOMAIN contentLog[k] = 1..records[k].revision
      BY <1>4, <2>2, StoredRecord, SameStore
    <3>3. r \in DOMAIN contentLog[k] /\ r \in 1..MaxRevision
      BY <2>2, <3>2, StoreAssumption DEF StoreAssumption
    <3>4. /\ ValidRecord(seen[s]) /\ BoundTo(seen[s].content, p)
          /\ seen[s].status = "REVIEWING" /\ ReviewerAllowed(seen[s], a)
          /\ \A i \in 1..r : records[k].history[i] = seen[s].history[i]
          /\ contentLog[k][r] = seen[s].content
      BY <1>1, <1>2, <1>3, <1>13 DEF CheckedSound, Checked
    <3>5. seen[s].history[r].to = "REVIEWING"
      BY <3>4 DEF ValidRecord
    <3>6. P!ReviewerAllowed(records[k], a)
      <4>1. records[k].history[1] = seen[s].history[1]
        BY <2>2, <3>4
      <4> QED BY <3>4, <4>1 DEF P!ReviewerAllowed, ReviewerAllowed, P!OriginalAuthor, OriginalAuthor
    <3>7. records[k].history[r].to = "REVIEWING" /\ P!BoundTo(contentLog[k][r], p)
      BY <2>2, <3>4, <3>5, SameRules
    <3>8. P!Approve(p, k, a, r)
      BY <1>5, <1>13, <2>2, <2>4, <2>5, <2>6, <3>1, <3>3, <3>6, <3>7 DEF P!Approve, ActionOf
    <3> QED BY <1>4, <3>3, <3>8 DEF P!Next
  <2>7. CASE c.arg = "REQUEST_CHANGES"
    <3>1. /\ P!Handles(p, k) /\ P!Move(k, "DRAFT", a, t)
          /\ seen[s] = records[k] /\ Checked(s, records[k])
      BY <1>1, <1>13, <2>7, CommitWrites DEF Target
    <3>2. records[k].status = "REVIEWING" /\ P!ReviewerAllowed(records[k], a)
      BY <1>1, <1>13, <3>1, SameRules DEF Checked
    <3>3. P!RequestChanges(p, k, a, t)
      BY <1>5, <1>13, <2>4, <2>5, <2>7, <3>1, <3>2 DEF P!RequestChanges, ActionOf
    <3> QED BY <1>4, <3>3 DEF P!Next
  <2> QED BY <1>4, <1>13, <2>6, <2>7
<1> QED BY <1>4, <1>7, <1>8, <1>9, <1>10, <1>11, <1>12, <1>13

\* A commit touches no row and no id another session has locked, and no
\* decision another session waits to commit.
LEMMA CommitLeavesOthers ==
  ASSUME Inv, NEW s \in Sessions, Commit(s), Leaves(s), P!Grows,
         decisions \subseteq decisions', NEW u \in Sessions \ {s}
  PROVE  Untouched(u)
<1>1. PICK c, k : c = cmd[s] /\ k = c.key
  OBVIOUS
<1>2. pc[s] = "commit"
  BY CommitStores
<1>3. /\ c \in Command /\ k \in G!Keys /\ Authorized(s)
      /\ SeenSound(s) /\ CheckedSound(s) /\ DecisionSound(s) /\ CreateSound(s)
      /\ WriteSound(s) /\ (c.op # "create" => G!Exists(k))
      /\ WorkTypeOK
  BY <1>1, <1>2, Running
<1>4. \A j \in G!Keys \ {k} : records'[j] = records[j]
  <2>1. records \in [G!Keys -> Record \union {NoRecord}]
    BY SameSets, SameStore DEF Inv, TypeOK, P!TypeOK
  <2> QED BY <1>1, <2>1 DEF Commit
<1>5. ASSUME c.op = "create"
      PROVE  ~ G!Exists(k) /\ k.id \in Ids /\ idLock[k.id] = s
  <2>1. k.version \in Nat /\ k.id \in Ids
    BY <1>3, StoreAssumption DEF G!Keys, StoreAssumption
  <2>2. G!NewerThanAll(k) /\ idLock[k.id] = s
    BY <1>1, <1>2, <1>3, <1>5 DEF CreateSound
  <2>3. ~ G!Exists(k)
    BY <1>3, <2>1, <2>2 DEF G!NewerThanAll
  <2> QED BY <2>1, <2>2, <2>3
<1>6. ASSUME NEW j \in G!Keys, rowLock[j] = u
      PROVE  G!Exists(j) => records'[j] = records[j]
  <2>1. CASE j # k
    BY <1>4, <2>1
  <2>2. CASE j = k
    <3>1. CASE c.op = "create"
      BY <1>5, <2>2, <3>1
    <3>2. CASE c.op # "create" /\ ~ (c.op = "review" /\ c.arg = "APPROVE")
      BY <1>1, <1>2, <1>3, <1>6, <2>2, <3>2 DEF WriteSound
    <3>3. CASE c.op = "review" /\ c.arg = "APPROVE"
      BY <1>1, <1>2, <1>3, <3>3, CommitStores DEF WriteSound
    <3> QED BY <3>1, <3>2, <3>3
  <2> QED BY <2>1, <2>2
<1>7. ASSUME NEW i \in Ids, idLock[i] = u, NEW j \in G!Keys, j.id = i, G!Exists(j)'
      PROVE  G!Exists(j)
  BY <1>3, <1>4, <1>5, <1>7 DEF G!Exists
<1>8. ASSUME NEW d \in decisions' \ decisions
      PROVE  /\ pending[u] # NoDecision => ~ SameReview(d, pending[u])
             /\ \/ d.verdict = "APPROVE" /\ d.reviewer # OriginalAuthor(records[d.key])
                \/ d.revision < records'[d.key].revision
  <2>1. pending[s] # NoDecision /\ d = pending[s]
    BY CommitStores, <1>8
  <2>2. c.op = "review" /\ d = DecisionOf(s)
    BY <1>1, <1>3, <2>1 DEF DecisionSound
  <2>3. d.key = k /\ d.verdict = c.arg /\ d.reviewer = c.actor /\ d.revision = seen[s].revision
    BY <1>1, <2>2 DEF DecisionOf
  <2>4. pending[u] # NoDecision => ~ SameReview(d, pending[u])
    BY <2>1 DEF Inv, OneDecision
  <2>5. CASE c.arg = "APPROVE"
    <3>1. /\ ReviewerAllowed(seen[s], c.actor)
          /\ \A i \in 1..seen[s].revision : records[k].history[i] = seen[s].history[i]
          /\ seen[s].revision \in Nat \ {0}
      BY <1>1, <1>2, <1>3, <2>2, SeenRecord DEF CheckedSound, Checked
    <3>2. records[k].history[1] = seen[s].history[1]
      BY <3>1
    <3> QED BY <2>3, <2>4, <2>5, <3>1, <3>2 DEF ReviewerAllowed, OriginalAuthor
  <2>6. CASE c.arg = "REQUEST_CHANGES"
    <3>1. /\ seen[s] = records[k] /\ records[k].revision \in Nat
          /\ nextRec[s] # NoRecord /\ nextRec[s].revision = records[k].revision + 1
      BY <1>1, <2>2, <2>6, CommitWrites
    <3>2. records'[k] = nextRec[s]
      <4>1. records \in [G!Keys -> Record \union {NoRecord}]
        BY SameSets, SameStore DEF Inv, TypeOK, P!TypeOK
      <4> QED BY <1>1, <1>3, <3>1, <4>1 DEF Commit
    <3> QED BY <2>3, <2>4, <3>1, <3>2
  <2> QED BY <1>3, <2>2, <2>5, <2>6, CommandType
<1>9. /\ pc'[u] = pc[u] /\ cmd'[u] = cmd[u] /\ seen'[u] = seen[u]
      /\ nextRec'[u] = nextRec[u] /\ pending'[u] = pending[u]
      /\ \A j \in G!Keys : rowLock[j] = u => rowLock'[j] = u
      /\ \A i \in Ids : idLock[i] = u => idLock'[i] = u
  BY DEF Leaves
<1> QED BY <1>6, <1>7, <1>8, <1>9 DEF Untouched

\* A commit keeps the invariant, because the service it takes a step of keeps its own.
LEMMA CommitPreserves ==
  ASSUME Inv, NEW s \in Sessions, Commit(s)
  PROVE  Inv'
<1>1. P!IInv' /\ P!Grows /\ decisions \subseteq decisions'
  BY CommitImplements, StoreStep
<1>2. WorkTypeOK' /\ Leaves(s) /\ Sound(s)' /\ OneDecision'
  BY CommitStores, FinishLeaves
<1>3. TypeOK'
  <2>1. P!TypeOK'
    BY <1>1 DEF P!IInv
  <2>2. G!Record = P!Record /\ G!Keys = P!Keys /\ G!Decision = P!Decision
    BY SameSets DEF P!Record, G!Record, P!Event, G!Event, P!EventTypes, G!EventTypes,
                    P!Statuses, G!Statuses
  <2>3. G!TypeOK'
    BY <2>1, <2>2 DEF P!TypeOK, G!TypeOK
  <2> QED BY <1>2, <2>3 DEF TypeOK, WorkTypeOK
<1>4. \A u \in Sessions \ {s} : Sound(u)'
  BY <1>1, <1>2, <1>3, CommitLeavesOthers, UntouchedStaysSound
<1> QED BY <1>1, <1>2, <1>3, <1>4 DEF Inv

-----------------------------------------------------------------------------
(* The theorems.                                                           *)

\* No session is at work and nothing is stored.
LEMMA InitEstablishes == Init => Inv
<1> SUFFICES ASSUME Init PROVE Inv
  OBVIOUS
<1>1. P!Init
  BY SameSets DEF Init, G!Init, P!Init
<1>2. P!IInv
  BY <1>1, Assumptions, P!InitEstablishes
<1>3. TypeOK
  <2>1. G!TypeOK
    BY <1>2, SameStore DEF P!IInv
  <2>2. WorkTypeOK
    BY DEF Init, WorkTypeOK, PCs
  <2> QED BY <2>1, <2>2 DEF TypeOK, WorkTypeOK
<1>4. \A s \in Sessions : Sound(s)
  BY DEF Init, Sound
<1>5. OneDecision
  BY DEF Init, OneDecision
<1> QED BY <1>2, <1>3, <1>4, <1>5 DEF Inv

\* Only COMMIT changes the tables, and as the atomic service does.
LEMMA StepImplements == Inv /\ [Next]_vars => [P!Next]_(P!vars) /\ Inv'
<1> SUFFICES ASSUME Inv, [Next]_vars PROVE [P!Next]_(P!vars) /\ Inv'
  OBVIOUS
<1>1. ASSUME NEW s \in Sessions, Rollback(s)
      PROVE  UNCHANGED P!vars /\ Inv'
  BY <1>1, RollbackPreserves DEF Rollback, committed, P!vars
<1>2. CASE UNCHANGED vars
  <2>1. /\ UNCHANGED P!vars
        /\ UNCHANGED <<records, decisions, contentLog, pc, cmd, seen, nextRec, pending,
                       rowLock, keyShare, idLock>>
    BY <1>2 DEF vars, committed, work, locks, P!vars
  <2>2. P!IInv'
    BY <2>1, StoreStep
  <2>3. TypeOK'
    BY <2>1 DEF Inv, TypeOK, G!TypeOK
  <2>4. OneDecision'
    BY <2>1 DEF Inv, OneDecision
  <2>5. ASSUME NEW s \in Sessions PROVE Sound(s)'
    <3>1. Untouched(s) /\ P!Grows
      BY <2>1, StoreStep DEF Untouched, G!Exists
    <3> QED BY <2>2, <2>3, <3>1, UntouchedStaysSound
  <2> QED BY <2>1, <2>2, <2>3, <2>4, <2>5 DEF Inv
<1>3. ASSUME NEW s \in Sessions, Call(s)
      PROVE  UNCHANGED P!vars /\ Inv'
  BY <1>3, CallPreserves DEF Call, CallCreate, CallReplace, CallReview, CallTransition,
                             Authorize, committed, P!vars
<1>4. ASSUME NEW s \in Sessions, Statement(s)
      PROVE  [P!Next]_(P!vars) /\ Inv'
  <2>1. CASE ReadRow(s)
    BY <2>1, ReadRowPreserves DEF ReadRow, committed, P!vars
  <2>2. CASE ReadHistory(s)
    BY <2>2, ReadHistoryPreserves DEF ReadHistory, committed, P!vars
  <2>3. CASE \/ ReadRejected(s) \/ InsertRejected(s) \/ EvidenceRejected(s)
             \/ VersionRejected(s)
    BY <1>1, <2>3 DEF ReadRejected, InsertRejected, EvidenceRejected, VersionRejected
  <2>4. CASE CollectEvidence(s)
    BY <2>4, CollectEvidencePreserves DEF CollectEvidence, committed, P!vars
  <2>5. CASE InsertRecord(s)
    BY <2>5, InsertRecordPreserves DEF InsertRecord, committed, P!vars
  <2>6. CASE Commit(s)
    BY <2>6, CommitPreserves, CommitImplements
  <2> QED BY <1>4, <2>1, <2>2, <2>3, <2>4, <2>5, <2>6 DEF Statement
<1>5. ASSUME NEW s \in Sessions,
             \/ InsertDecision(s) \/ ForeignKeyShare(s) \/ LockAndWrite(s) \/ LockId(s)
      PROVE  UNCHANGED P!vars /\ Inv'
  BY <1>5, InsertDecisionPreserves, ForeignKeySharePreserves, LockAndWritePreserves,
     LockIdPreserves
     DEF InsertDecision, ForeignKeyShare, LockAndWrite, LockId, committed, P!vars
<1>6. ASSUME NEW s \in Sessions,
             WriteRejected(s) \/ ConnectionLost(s) \/ DeadlockVictim(s)
      PROVE  UNCHANGED P!vars /\ Inv'
  BY <1>1, <1>6 DEF WriteRejected, ConnectionLost, DeadlockVictim
<1> QED BY <1>2, <1>3, <1>4, <1>5, <1>6 DEF Next

\* G and P are two names of one specification.
LEMMA SameNext == [P!Next]_(P!vars) => [G!Next]_(G!vars)
<1>1. UNCHANGED P!vars => UNCHANGED G!vars
  BY DEF P!vars, G!vars
<1>2. /\ \A c, a, t : P!CreatedRecord(c, a, t) = G!CreatedRecord(c, a, t)
      /\ \A rec, c, a, t : P!ReplacedRecord(rec, c, a, t) = G!ReplacedRecord(rec, c, a, t)
      /\ \A rec, to, a, t :
           P!TransitionedRecord(rec, to, a, t) = G!TransitionedRecord(rec, to, a, t)
      /\ \A rec, e, t : P!CanReplaceDraft(rec, e, t) <=> G!CanReplaceDraft(rec, e, t)
      /\ \A rec, e, to, t : P!CanTransition(rec, e, to, t) <=> G!CanTransition(rec, e, to, t)
  BY DEF P!CreatedRecord, G!CreatedRecord, P!ReplacedRecord, G!ReplacedRecord,
         P!TransitionedRecord, G!TransitionedRecord, P!CanReplaceDraft, G!CanReplaceDraft,
         P!CanTransition, G!CanTransition, P!LifecycleTransitions, G!LifecycleTransitions
<1>3. \A rec : P!OriginalAuthor(rec) = G!OriginalAuthor(rec)
  BY DEF P!OriginalAuthor, G!OriginalAuthor
<1>4. /\ \A rec, a : P!SubmitAllowed(rec, a) <=> G!SubmitAllowed(rec, a)
      /\ \A rec, a : P!ReviewerAllowed(rec, a) <=> G!ReviewerAllowed(rec, a)
      /\ \A c, p : P!BoundTo(c, p) <=> G!BoundTo(c, p)
  BY <1>3 DEF P!SubmitAllowed, G!SubmitAllowed, P!ReviewerAllowed, G!ReviewerAllowed,
              P!BoundTo, G!BoundTo
<1>5. \A rec, ds, a : P!PublishAllowed(rec, ds, a) <=> G!PublishAllowed(rec, ds, a)
  <2>1. \A S : P!Cardinality(S) = G!Cardinality(S)
    BY DEF P!Cardinality, G!Cardinality
  <2>2. \A ds : P!Reviewers(ds) = G!Reviewers(ds)
    BY DEF P!Reviewers, G!Reviewers
  <2>3. P!DefaultRequiredApprovals = G!DefaultRequiredApprovals
    BY DEF P!DefaultRequiredApprovals, G!DefaultRequiredApprovals
  <2> QED BY <1>3, <2>1, <2>2, <2>3 DEF P!PublishAllowed, G!PublishAllowed
<1>6. /\ \A k : P!Exists(k) <=> G!Exists(k)
      /\ \A p, a, action : P!Granted(p, a, action) <=> G!Granted(p, a, action)
      /\ \A p, k, r : P!DecisionsAt(p, k, r) = G!DecisionsAt(p, k, r)
      /\ \A k : P!NewerThanAll(k) <=> G!NewerThanAll(k)
  BY SameStore
<1>7. \A p, k : P!Handles(p, k) <=> G!Handles(p, k)
  BY <1>4, <1>6 DEF P!Handles, G!Handles
<1>8. \A p, k, r, a : P!Undecided(p, k, r, a) <=> G!Undecided(p, k, r, a)
  BY <1>6 DEF P!Undecided, G!Undecided
<1>9. /\ \A k, rec : P!Put(k, rec) <=> G!Put(k, rec)
      /\ \A p, k, r, v, a : P!Decide(p, k, r, v, a) <=> G!Decide(p, k, r, v, a)
  BY DEF P!Put, G!Put, P!Decide, G!Decide
<1>10. \A k, to, a, t : P!Move(k, to, a, t) <=> G!Move(k, to, a, t)
  BY <1>2, <1>9 DEF P!Move, G!Move
<1>11. /\ \A p, k, c, a, t : P!CreateDraft(p, k, c, a, t) => G!CreateDraft(p, k, c, a, t)
       /\ \A p, k, c, a, t : P!ReplaceDraft(p, k, c, a, t) => G!ReplaceDraft(p, k, c, a, t)
  BY <1>2, <1>4, <1>6, <1>7, <1>9 DEF P!CreateDraft, G!CreateDraft, P!ReplaceDraft,
                                      G!ReplaceDraft
<1>12. /\ \A p, k, a, t : P!Submit(p, k, a, t) => G!Submit(p, k, a, t)
       /\ \A p, k, a, t : P!Publish(p, k, a, t) => G!Publish(p, k, a, t)
       /\ \A p, k, a, t : P!Deprecate(p, k, a, t) => G!Deprecate(p, k, a, t)
       /\ \A p, k, a, t : P!Archive(p, k, a, t) => G!Archive(p, k, a, t)
  BY <1>4, <1>5, <1>6, <1>7, <1>10 DEF P!Submit, G!Submit, P!Publish, G!Publish,
                                       P!Deprecate, G!Deprecate, P!Archive, G!Archive
<1>13. \A p, k, a, t : P!RequestChanges(p, k, a, t) => G!RequestChanges(p, k, a, t)
  BY <1>4, <1>6, <1>7, <1>8, <1>9, <1>10 DEF P!RequestChanges, G!RequestChanges
<1>14. \A p, k, a, r : P!Approve(p, k, a, r) => G!Approve(p, k, a, r)
  BY <1>4, <1>6, <1>8, <1>9 DEF P!Approve, G!Approve
<1>15. P!Next => G!Next
  BY <1>11, <1>12, <1>13, <1>14, SameSets DEF P!Next, G!Next
<1> QED BY <1>1, <1>15

\* Every reachable state satisfies the inductive invariant.
THEOREM Invariance == Spec => []Inv
<1>1. Inv /\ [Next]_vars => Inv'
  BY StepImplements
<1> QED BY <1>1, InitEstablishes, PTL DEF Spec

\* Type correctness of the tables, the sessions and the locks.
THEOREM TypeCorrect == Spec => []TypeOK
<1>1. Inv => TypeOK
  BY DEF Inv
<1> QED BY <1>1, Invariance, PTL

\* The governance service over PostgreSQL, with every interleaving of its
\* statements, crash and deadlock victim, implements the atomic service
\* (service.js and postgres-unit-of-work.js, postgres-registry.js).
THEOREM Implementation == Spec => GovernanceImplemented
<1>1. Init => G!Init
  BY DEF Init
<1>2. Inv /\ [Next]_vars => [G!Next]_(G!vars)
  BY StepImplements, SameNext
<1> QED BY <1>1, <1>2, Invariance, PTL DEF Spec, GovernanceImplemented, G!Spec

\* Concurrent sessions never publish a body that was not approved as it is
\* by enough reviewers other than its author.
THEOREM PublicationIsApproved == Spec => []G!PublishedOnApproval
<1>1. Inv => G!PublishedOnApproval
  <2>1. \A S : P!Cardinality(S) = G!Cardinality(S)
    BY DEF P!Cardinality, G!Cardinality
  <2>2. \A rec : P!OriginalAuthor(rec) = G!OriginalAuthor(rec)
    BY DEF P!OriginalAuthor, G!OriginalAuthor
  <2>3. \A ds : P!Reviewers(ds) = G!Reviewers(ds)
    BY DEF P!Reviewers, G!Reviewers
  <2>4. P!DefaultRequiredApprovals = G!DefaultRequiredApprovals
    BY DEF P!DefaultRequiredApprovals, G!DefaultRequiredApprovals
  <2>5. \A k, i : P!ApprovedFor(k, i) <=> G!ApprovedFor(k, i)
    BY <2>1, <2>2, <2>3, <2>4, SameStore DEF P!ApprovedFor, G!ApprovedFor
  <2>6. \A k, i : P!PublishedAt(k, i) <=> G!PublishedAt(k, i)
    BY SameStore DEF P!PublishedAt, G!PublishedAt
  <2> QED BY <2>2, <2>5, <2>6, SameSets DEF Inv, P!IInv, P!PublishedOnApproval,
                                            G!PublishedOnApproval
<1> QED BY <1>1, Invariance, PTL

\* No interleaving stores a record that validateRegistryRecord would reject.
THEOREM RecordsStayValid == Spec => []G!RecordsValid
<1>1. Inv => G!RecordsValid
  <2>1. \A rec : P!ValidRecord(rec) <=> G!ValidRecord(rec)
    BY DEF P!ValidRecord, G!ValidRecord, P!ValidStep, G!ValidStep, P!LifecycleTransitions,
           G!LifecycleTransitions
  <2> QED BY <2>1, SameSets, SameStore DEF Inv, P!IInv, P!RecordsValid, G!RecordsValid
<1> QED BY <1>1, Invariance, PTL

\* Nothing the sessions commit rewrites a revision, an event or a decision.
THEOREM NothingIsRewritten == Spec => [][P!Grows /\ decisions \subseteq decisions']_vars
<1>1. Inv /\ [Next]_vars => [P!Grows /\ decisions \subseteq decisions']_vars
  BY StepImplements, StoreStep
<1> QED BY <1>1, Invariance, PTL DEF Spec

-----------------------------------------------------------------------------
(* Deadlocks.                                                              *)

\* A row is locked only by a session about to commit, an id only by one that
\* creates, and a key share is kept only by a review.
HoldersKnown ==
  \A u \in Sessions :
    /\ \A k \in G!Keys : rowLock[k] = u => pc[u] = "commit"
    /\ \A k \in G!Keys : u \in keyShare[k] =>
         cmd[u].op = "review" /\ pc[u] \in {"lock", "commit"}
    /\ \A i \in Ids : idLock[i] = u => pc[u] \in {"versions", "commit"}

\* The end of a transaction gives up every lock it holds.
LEMMA FinishFreesLocks ==
  ASSUME Inv, HoldersKnown, NEW s \in Sessions, Finish(s)
  PROVE  HoldersKnown'
<1>1. /\ pc' = [pc EXCEPT ![s] = "idle"]
      /\ cmd' = [cmd EXCEPT ![s] = NoCommand]
      /\ rowLock' = [k \in G!Keys |-> IF rowLock[k] = s THEN Nobody ELSE rowLock[k]]
      /\ keyShare' = [k \in G!Keys |-> keyShare[k] \ {s}]
      /\ idLock' = [i \in Ids |-> IF idLock[i] = s THEN Nobody ELSE idLock[i]]
  BY DEF Finish, Goto
<1>2. WorkTypeOK /\ Nobody \notin Sessions
  BY SessionAssumption DEF Inv, TypeOK, WorkTypeOK, SessionAssumption
<1> SUFFICES ASSUME NEW u \in Sessions
             PROVE  (/\ \A k \in G!Keys : rowLock[k] = u => pc[u] = "commit"
                     /\ \A k \in G!Keys : u \in keyShare[k] =>
                          cmd[u].op = "review" /\ pc[u] \in {"lock", "commit"}
                     /\ \A i \in Ids : idLock[i] = u => pc[u] \in {"versions", "commit"})'
  BY DEF HoldersKnown
<1>3. CASE u = s
  BY <1>1, <1>2, <1>3 DEF WorkTypeOK
<1>4. CASE u # s
  <2>1. pc'[u] = pc[u] /\ cmd'[u] = cmd[u]
    BY <1>1, <1>2, <1>4 DEF WorkTypeOK
  <2> QED BY <1>1, <1>2, <1>4, <2>1 DEF HoldersKnown
<1> QED BY <1>3, <1>4

\* Every step keeps the account of who may hold which lock.
LEMMA HoldersStayKnown == Inv /\ HoldersKnown /\ [Next]_vars => HoldersKnown'
<1> SUFFICES ASSUME Inv, HoldersKnown, [Next]_vars PROVE HoldersKnown'
  OBVIOUS
<1>1. WorkTypeOK /\ Nobody \notin Sessions
  BY SessionAssumption DEF Inv, TypeOK, WorkTypeOK, SessionAssumption
<1>2. CASE UNCHANGED vars
  BY <1>2 DEF vars, work, locks, HoldersKnown
<1>3. ASSUME NEW s \in Sessions, Finish(s)
      PROVE  HoldersKnown'
  BY <1>3, FinishFreesLocks
<1>4. ASSUME NEW s \in Sessions, NEW c, NEW action, NEW label, Authorize(s, c, action, label)
      PROVE  HoldersKnown'
  BY <1>1, <1>4 DEF Authorize, Goto, locks, HoldersKnown, WorkTypeOK
<1>5. ASSUME NEW s \in Sessions, ReadRow(s) \/ ReadHistory(s) \/ InsertDecision(s) \/ CollectEvidence(s)
      PROVE  HoldersKnown'
  BY <1>1, <1>5 DEF ReadRow, ReadHistory, InsertDecision, CollectEvidence, Goto, work, locks,
                    HoldersKnown, WorkTypeOK
<1>6. ASSUME NEW s \in Sessions, InsertRecord(s)
      PROVE  HoldersKnown'
  <2>1. /\ pc[s] = "versions" /\ pc' = [pc EXCEPT ![s] = "commit"]
        /\ UNCHANGED <<cmd, rowLock, keyShare, idLock>>
    BY <1>6 DEF InsertRecord, Goto, locks
  <2> QED BY <1>1, <2>1 DEF HoldersKnown, WorkTypeOK
<1>7. ASSUME NEW s \in Sessions, ForeignKeyShare(s)
      PROVE  HoldersKnown'
  <2>1. PICK k, label :
          /\ k = cmd[s].key /\ label = IF cmd[s].arg = "APPROVE" THEN "commit" ELSE "lock"
          /\ pc[s] = "foreign_key" /\ pc' = [pc EXCEPT ![s] = label]
          /\ keyShare' = [keyShare EXCEPT ![k] = @ \union {s}]
          /\ UNCHANGED <<cmd, rowLock, idLock>>
    BY <1>7 DEF ForeignKeyShare, Goto, work
  <2>2. cmd[s].op = "review" /\ k \in G!Keys
    BY <2>1, Running DEF OnPath
  <2> QED BY <1>1, <2>1, <2>2 DEF HoldersKnown, WorkTypeOK
<1>8. ASSUME NEW s \in Sessions, LockAndWrite(s)
      PROVE  HoldersKnown'
  <2>1. PICK k :
          /\ k = cmd[s].key
          /\ pc[s] = "lock" /\ pc' = [pc EXCEPT ![s] = "commit"]
          /\ rowLock' = [rowLock EXCEPT ![k] = s]
          /\ UNCHANGED <<cmd, keyShare, idLock>>
    BY <1>8 DEF LockAndWrite, Goto
  <2> QED BY <1>1, <2>1 DEF HoldersKnown, WorkTypeOK
<1>9. ASSUME NEW s \in Sessions, LockId(s)
      PROVE  HoldersKnown'
  <2>1. PICK i :
          /\ i = cmd[s].key.id
          /\ pc[s] = "advisory" /\ pc' = [pc EXCEPT ![s] = "versions"]
          /\ idLock' = [idLock EXCEPT ![i] = s]
          /\ UNCHANGED <<cmd, rowLock, keyShare>>
    BY <1>9 DEF LockId, Goto, work
  <2> QED BY <1>1, <2>1 DEF HoldersKnown, WorkTypeOK
<1>10. ASSUME NEW s \in Sessions, Call(s)
       PROVE  HoldersKnown'
  <2>1. PICK p \in Projects, k \in G!Keys, a \in Actors, t \in Times :
          \/ \E x \in Contents : CallCreate(s, p, k, a, x, t)
          \/ \E x \in Contents : CallReplace(s, p, k, a, x, t)
          \/ \E v \in G!Verdicts : CallReview(s, p, k, a, v, t)
          \/ \E op, action : CallTransition(s, p, k, a, op, action, t)
    BY <1>10 DEF Call
  <2>2. ASSUME NEW x, CallCreate(s, p, k, a, x, t) PROVE HoldersKnown'
    BY <1>4, <2>2 DEF CallCreate
  <2>3. ASSUME NEW x, CallReplace(s, p, k, a, x, t) PROVE HoldersKnown'
    BY <1>4, <2>3 DEF CallReplace
  <2>4. ASSUME NEW v, CallReview(s, p, k, a, v, t) PROVE HoldersKnown'
    BY <1>4, <2>4 DEF CallReview
  <2>5. ASSUME NEW op, NEW action, CallTransition(s, p, k, a, op, action, t)
        PROVE  HoldersKnown'
    BY <1>4, <2>5 DEF CallTransition
  <2> QED BY <2>1, <2>2, <2>3, <2>4, <2>5
<1>11. ASSUME NEW s \in Sessions, Statement(s)
       PROVE  HoldersKnown'
  BY <1>3, <1>5, <1>6, <1>11 DEF Statement, ReadRejected, InsertRejected, EvidenceRejected,
                                VersionRejected, Commit, Rollback
<1>12. ASSUME NEW s \in Sessions, WriteRejected(s) \/ ConnectionLost(s) \/ DeadlockVictim(s)
       PROVE  HoldersKnown'
  BY <1>3, <1>12 DEF WriteRejected, ConnectionLost, DeadlockVictim, Rollback
<1> QED BY <1>2, <1>5, <1>7, <1>8, <1>9, <1>10, <1>11, <1>12 DEF Next

\* Whoever holds what another waits for either waits for nobody or is a
\* REQUEST_CHANGES that asks for the row it shares.
LEMMA HolderWaitsAtTheRow ==
  ASSUME Inv, HoldersKnown, NEW s \in Sessions, NEW u \in Sessions, NEW v \in Sessions,
         NEW w \in Sessions, WaitsFor(s, u), WaitsFor(u, v), WaitsFor(v, w)
  PROVE  pc[u] = "lock" /\ cmd[u].op = "review" /\ cmd[u].arg = "REQUEST_CHANGES"
<1>1. PICK k, i : k = cmd[s].key /\ i = cmd[s].key.id
  OBVIOUS
<1>2. pc[s] # "idle" /\ k \in G!Keys /\ i \in Ids
  <2>1. pc[s] # "idle"
    BY DEF WaitsFor
  <2>2. k \in G!Keys
    BY <1>1, <2>1, Running
  <2> QED BY <1>1, <2>1, <2>2 DEF G!Keys
<1>3. pc[u] \in {"lock", "foreign_key", "insert", "advisory"}
  BY DEF WaitsFor
<1>4. rowLock[k] # u /\ idLock[i] # u
  BY <1>2, <1>3 DEF HoldersKnown
<1>5. u \in keyShare[k] \/ u \in Twins(s)
  BY <1>1, <1>4 DEF WaitsFor
<1>6. pc[u] # "idle" /\ OnPath(u) /\ DecisionSound(u) /\ cmd[u].key \in G!Keys
  BY <1>3, Running
<1>7. CASE pc[u] = "lock"
  <2>1. cmd[u].op = "review"
    BY <1>2, <1>5, <1>6, <1>7 DEF HoldersKnown, Twins, DecisionSound
  <2> QED BY <1>6, <1>7, <2>1 DEF OnPath
<1>8. CASE pc[u] = "foreign_key"
  <2>1. rowLock[cmd[u].key] = v
    BY <1>8 DEF WaitsFor
  <2>2. pc[v] = "commit"
    BY <1>6, <2>1 DEF HoldersKnown
  <2> QED BY <2>2 DEF WaitsFor
<1>9. CASE pc[u] \in {"insert", "advisory"}
  BY <1>2, <1>5, <1>6, <1>9 DEF HoldersKnown, Twins, DecisionSound
<1> QED BY <1>3, <1>7, <1>8, <1>9

\* In a set of sessions that wait for one another, those that somebody waits
\* for are REQUEST_CHANGES at the row, and they already wait for one another.
LEMMA DeadlocksAreChangeRequests ==
  ASSUME Inv, HoldersKnown
  PROVE  DeadlocksOnlyAmongChangeRequests
<1> SUFFICES ASSUME NEW s \in Sessions, Deadlocked(s)
             PROVE  cmd[s].op = "review" /\ cmd[s].arg = "REQUEST_CHANGES"
  BY DEF DeadlocksOnlyAmongChangeRequests
<1>1. PICK C \in SUBSET Sessions :
        s \in C /\ Waiting(C) /\ \A D \in SUBSET C : Waiting(D) => s \in D
  BY DEF Deadlocked
<1> DEFINE D == {u \in C : cmd[u].op = "review" /\ cmd[u].arg = "REQUEST_CHANGES"}
<1>2. ASSUME NEW u \in C
      PROVE  \E v \in D : WaitsFor(u, v)
  <2>1. PICK v \in C : WaitsFor(u, v)
    BY <1>1 DEF Waiting
  <2>2. PICK w \in C : WaitsFor(v, w)
    BY <1>1 DEF Waiting
  <2>3. PICK x \in C : WaitsFor(w, x)
    BY <1>1 DEF Waiting
  <2>4. cmd[v].op = "review" /\ cmd[v].arg = "REQUEST_CHANGES"
    BY <2>1, <2>2, <2>3, HolderWaitsAtTheRow
  <2> QED BY <2>1, <2>4
<1>3. Waiting(D)
  <2>1. D # {}
    BY <1>1, <1>2
  <2> QED BY <1>2, <2>1 DEF Waiting
<1>4. s \in D
  BY <1>1, <1>3
<1> QED BY <1>4

\* An edit, a submission, an approval or a publication is never chosen as the
\* victim of a deadlock (postgres-registry.js locks one row, once).
THEOREM OnlyChangeRequestsDeadlock == Spec => []DeadlocksOnlyAmongChangeRequests
<1>1. Init => HoldersKnown
  <2>1. Nobody \notin Sessions
    BY SessionAssumption DEF SessionAssumption
  <2> QED BY <2>1 DEF Init, HoldersKnown
<1>2. Inv /\ HoldersKnown /\ [Next]_vars => HoldersKnown'
  BY HoldersStayKnown
<1>3. Inv /\ HoldersKnown => DeadlocksOnlyAmongChangeRequests
  BY DeadlocksAreChangeRequests
<1> QED BY <1>1, <1>2, <1>3, Invariance, PTL DEF Spec
=============================================================================
