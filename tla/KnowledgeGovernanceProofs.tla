--------------------- MODULE KnowledgeGovernanceProofs ---------------------
(***************************************************************************)
(* Proofs about KnowledgeGovernance for every set of actors, projects,     *)
(* bodies, keys and grants.                                                *)
(***************************************************************************)
EXTENDS KnowledgeGovernance, FiniteSetTheorems, TLAPS

-----------------------------------------------------------------------------
(* The inductive invariant.                                                *)

\* The auxiliary log holds one body per revision, the last one the record's;
\* a key without a record has an empty log.
LogMatches ==
  \A k \in Keys :
    IF Exists(k)
    THEN /\ Len(contentLog[k]) = records[k].revision
         /\ contentLog[k][records[k].revision] = records[k].content
         /\ records[k].revision <= MaxRevision
    ELSE contentLog[k] = << >>

\* A published record never returns to a status its body can change in.
PublishedIsFinal ==
  \A k \in Keys : \A i \in 2..MaxRevision :
    PublishedAt(k, i) => records[k].status \in {"PUBLISHED", "DEPRECATED", "ARCHIVED"}

IInv ==
  /\ TypeOK
  /\ RecordsValid
  /\ LogMatches
  /\ PublishedIsFinal
  /\ PublishedOnApproval
  /\ ChangesReturnDraft
  /\ DecisionsSound

-----------------------------------------------------------------------------
(* The records the rules build are records, and valid ones.                *)

\* A new record passes the check every later read and write makes of it.
LEMMA CreatedIsValid ==
  ASSUME NEW c \in Contents, NEW a \in Actors, NEW t \in Times
  PROVE  /\ CreatedRecord(c, a, t) \in Record
         /\ ValidRecord(CreatedRecord(c, a, t))
  BY DEF CreatedRecord, Record, ValidRecord, Event, EventTypes, Statuses

\* Appending one legal event to a valid history keeps it valid.
LEMMA ExtendedIsValid ==
  ASSUME NEW rec \in Record, ValidRecord(rec), NEW e \in Event,
         ValidStep(rec.status, e), NEW c \in Contents
  PROVE  LET new == [revision |-> rec.revision + 1, status |-> e.to, content |-> c,
                     updatedAt |-> e.at, history |-> Append(rec.history, e)]
         IN  new \in Record /\ ValidRecord(new)
<1> DEFINE h == rec.history
           g == Append(h, e)
           new == [revision |-> rec.revision + 1, status |-> e.to, content |-> c,
                   updatedAt |-> e.at, history |-> g]
<1>1. h \in Seq(Event) /\ Len(h) \in Nat \ {0} /\ rec.revision = Len(h)
  BY DEF Record, ValidRecord
<1>2. g \in Seq(Event) /\ Len(g) = Len(h) + 1 /\ g[Len(h) + 1] = e
      /\ \A i \in 1..Len(h) : g[i] = h[i]
  BY <1>1
<1>3. new \in Record
  BY <1>1, <1>2 DEF Record, Event
<1>4. \A i \in 2..Len(g) : ValidStep(g[i - 1].to, g[i])
  <2> SUFFICES ASSUME NEW i \in 2..Len(g) PROVE ValidStep(g[i - 1].to, g[i])
    OBVIOUS
  <2>1. CASE i = Len(h) + 1
    <3>1. g[i - 1] = h[Len(h)] /\ g[i] = e
      BY <1>1, <1>2, <2>1
    <3>2. h[Len(h)].to = rec.status
      BY DEF ValidRecord
    <3> QED BY <3>1, <3>2
  <2>2. CASE i \in 2..Len(h)
    <3>1. g[i - 1] = h[i - 1] /\ g[i] = h[i]
      BY <1>1, <1>2, <2>2
    <3> QED BY <3>1, <2>2 DEF ValidRecord
  <2> QED BY <1>1, <1>2, <2>1, <2>2
<1>5. ValidRecord(new)
  <2>1. g[1] = h[1]
    BY <1>1, <1>2
  <2> QED BY <1>1, <1>2, <1>4, <2>1 DEF ValidRecord
<1> QED BY <1>3, <1>5

\* A legal transition of a valid record gives a valid record.
LEMMA TransitionedIsValid ==
  ASSUME NEW rec \in Record, ValidRecord(rec), NEW a \in Actors, NEW t \in Times,
         NEW to \in LifecycleTransitions[rec.status]
  PROVE  /\ TransitionedRecord(rec, to, a, t) \in Record
         /\ ValidRecord(TransitionedRecord(rec, to, a, t))
<1> DEFINE e == [type |-> "STATUS_TRANSITIONED", from |-> rec.status, to |-> to,
                 actor |-> a, at |-> t]
<1>1. rec.status \in Statuses /\ rec.content \in Contents
  BY DEF Record
<1>2. to \in Statuses
  BY <1>1 DEF LifecycleTransitions, Statuses
<1>3. e \in Event /\ ValidStep(rec.status, e)
  BY <1>1, <1>2 DEF Event, EventTypes, ValidStep
<1> HIDE DEF e
<1>4. e.to = to /\ e.at = t
  BY DEF e
<1> QED BY <1>1, <1>3, <1>4, ExtendedIsValid DEF TransitionedRecord, e

\* Replacing the draft of a valid record gives a valid record.
LEMMA ReplacedIsValid ==
  ASSUME NEW rec \in Record, ValidRecord(rec), NEW a \in Actors, NEW t \in Times,
         NEW c \in Contents, rec.status = "DRAFT"
  PROVE  /\ ReplacedRecord(rec, c, a, t) \in Record
         /\ ValidRecord(ReplacedRecord(rec, c, a, t))
<1> DEFINE e == [type |-> "DRAFT_REPLACED", from |-> "DRAFT", to |-> "DRAFT",
                 actor |-> a, at |-> t]
<1>1. e \in Event /\ ValidStep(rec.status, e)
  BY DEF Event, EventTypes, Statuses, ValidStep
<1> HIDE DEF e
<1>2. e.to = "DRAFT" /\ e.at = t
  BY DEF e
<1> QED BY <1>1, <1>2, ExtendedIsValid DEF ReplacedRecord, e
-----------------------------------------------------------------------------
(* What a step does to the records it does not replace.                    *)

\* Registry, history and log only grow: nothing recorded is ever rewritten, and
\* a record does not change without a new revision.
Grows ==
  \A k \in Keys :
    Exists(k) =>
      /\ Exists(k)'
      /\ records[k].revision <= records'[k].revision
      /\ records[k].revision = records'[k].revision => records'[k] = records[k]
      /\ \A i \in 1..records[k].revision :
           /\ records'[k].history[i] = records[k].history[i]
           /\ contentLog'[k][i] = contentLog[k][i]

\* What a record that extends the one at k, if there is one, looks like.
Succeeds(new, k) ==
  /\ new \in Record
  /\ ValidRecord(new)
  /\ IF Exists(k)
     THEN /\ new.revision = records[k].revision + 1
          /\ \A i \in 1..records[k].revision : new.history[i] = records[k].history[i]
     ELSE new.revision = 1

\* Storing a successor keeps the registry typed, valid and append-only.
LEMMA PutSucceeds ==
  ASSUME TypeOK, RecordsValid, LogMatches, NEW k \in Keys, NEW new,
         Succeeds(new, k), Put(k, new)
  PROVE  /\ records' \in [Keys -> Record \union {NoRecord}]
         /\ contentLog' \in [Keys -> Seq(Contents)]
         /\ RecordsValid'
         /\ LogMatches'
         /\ Grows
         /\ records'[k] = new
         /\ \A j \in Keys \ {k} : records'[j] = records[j]
<1>1. new \in Record /\ ValidRecord(new) /\ new.revision <= MaxRevision
  BY DEF Succeeds, Put
<1>2. new # NoRecord /\ new.content \in Contents /\ new.revision \in Nat \ {0}
  BY <1>1, NoRecordAssumption DEF Record
<1>3. /\ records' \in [Keys -> Record \union {NoRecord}]
      /\ records'[k] = new
      /\ \A j \in Keys \ {k} : records'[j] = records[j]
  BY <1>1 DEF TypeOK, Put
<1>4. /\ contentLog' \in [Keys -> Seq(Contents)]
      /\ contentLog'[k] = Append(contentLog[k], new.content)
      /\ \A j \in Keys \ {k} : contentLog'[j] = contentLog[j]
  <2>1. contentLog[k] \in Seq(Contents)
    BY DEF TypeOK
  <2>2. Append(contentLog[k], new.content) \in Seq(Contents)
    BY <2>1, <1>2
  <2> QED BY <2>2 DEF TypeOK, Put
<1>5. RecordsValid'
  BY <1>1, <1>3 DEF RecordsValid, Exists
<1>6. Len(contentLog[k]) = new.revision - 1
  <2>1. CASE Exists(k)
    <3>1. records[k] \in Record
      BY <2>1 DEF TypeOK, Exists
    <3> QED BY <2>1, <3>1 DEF LogMatches, Succeeds, Record
  <2>2. CASE ~ Exists(k)
    BY <2>2 DEF LogMatches, Succeeds
  <2> QED BY <2>1, <2>2
<1>7. /\ Len(contentLog'[k]) = new.revision
      /\ contentLog'[k][new.revision] = new.content
      /\ \A i \in 1..(new.revision - 1) : contentLog'[k][i] = contentLog[k][i]
  <2>1. contentLog[k] \in Seq(Contents)
    BY DEF TypeOK
  <2> QED BY <2>1, <1>2, <1>4, <1>6
<1>8. LogMatches'
  <2> SUFFICES ASSUME NEW j \in Keys
               PROVE (IF Exists(j)
                      THEN /\ Len(contentLog[j]) = records[j].revision
                           /\ contentLog[j][records[j].revision] = records[j].content
                           /\ records[j].revision <= MaxRevision
                      ELSE contentLog[j] = << >>)'
    BY DEF LogMatches
  <2>1. CASE j = k
    BY <2>1, <1>1, <1>2, <1>3, <1>7 DEF Exists
  <2>2. CASE j # k
    BY <2>2, <1>3, <1>4 DEF LogMatches, Exists
  <2> QED BY <2>1, <2>2
<1>9. Grows
  <2> SUFFICES ASSUME NEW j \in Keys, Exists(j)
               PROVE /\ Exists(j)'
                     /\ records[j].revision <= records'[j].revision
                     /\ records[j].revision = records'[j].revision => records'[j] = records[j]
                     /\ \A i \in 1..records[j].revision :
                          /\ records'[j].history[i] = records[j].history[i]
                          /\ contentLog'[j][i] = contentLog[j][i]
    BY DEF Grows
  <2>0. records[j].revision \in Nat
    BY DEF TypeOK, Exists, Record
  <2>1. CASE j = k
    BY <2>0, <2>1, <1>2, <1>3, <1>7 DEF Succeeds, Exists
  <2>2. CASE j # k
    BY <2>0, <2>2, <1>3, <1>4 DEF Exists
  <2> QED BY <2>1, <2>2
<1> QED BY <1>3, <1>4, <1>5, <1>8, <1>9
\* In a valid registry the history of a record has one event per revision.
LEMMA HistoryLength ==
  ASSUME TypeOK, RecordsValid, NEW k \in Keys, Exists(k)
  PROVE  /\ records[k] \in Record
         /\ records[k].revision \in Nat \ {0}
         /\ Len(records[k].history) = records[k].revision
         /\ DOMAIN records[k].history = 1..records[k].revision
         /\ records[k].status = records[k].history[records[k].revision].to
<1>1. records[k] \in Record /\ ValidRecord(records[k])
  BY DEF TypeOK, RecordsValid, Exists
<1>2. records[k].history \in Seq(Event) /\ records[k].revision \in Nat \ {0}
  BY <1>1 DEF Record
<1> QED BY <1>1, <1>2 DEF ValidRecord

\* The author of a record never changes.
LEMMA AuthorPersists ==
  ASSUME TypeOK, RecordsValid, Grows, NEW k \in Keys, Exists(k)
  PROVE  OriginalAuthor(records'[k]) = OriginalAuthor(records[k])
  BY HistoryLength DEF Grows, OriginalAuthor

\* Decisions keep meaning what they meant when records only grow.
LEMMA DecisionsPersist ==
  ASSUME IInv, Grows, TypeOK', RecordsValid', UNCHANGED decisions
  PROVE  ChangesReturnDraft' /\ DecisionsSound'
<1>1. ASSUME NEW d \in decisions
      PROVE  /\ d.key \in Keys /\ d.revision \in Nat \ {0}
             /\ Exists(d.key) /\ Exists(d.key)'
             /\ d.revision \in 1..records[d.key].revision
             /\ records[d.key].revision \in Nat \ {0}
             /\ records'[d.key].revision \in Nat \ {0}
             /\ records[d.key].revision <= records'[d.key].revision
             /\ OriginalAuthor(records'[d.key]) = OriginalAuthor(records[d.key])
             /\ records'[d.key].history[d.revision] = records[d.key].history[d.revision]
             /\ contentLog'[d.key][d.revision] = contentLog[d.key][d.revision]
  <2>1. d.key \in Keys /\ d.revision \in Nat \ {0}
    BY DEF IInv, TypeOK, Decision
  <2>2. Exists(d.key) /\ d.revision <= records[d.key].revision
    BY DEF IInv, DecisionsSound
  <2>3. records[d.key].revision \in Nat \ {0}
    BY <2>1, <2>2, HistoryLength DEF IInv
  <2>4. Exists(d.key)'
    BY <2>1, <2>2 DEF Grows
  <2>5. records'[d.key].revision \in Nat \ {0}
    BY <2>1, <2>4 DEF TypeOK, Exists, Record
  <2> QED BY <2>1, <2>2, <2>3, <2>4, <2>5, AuthorPersists DEF IInv, Grows
<1>2. ChangesReturnDraft'
  <2> SUFFICES ASSUME NEW d \in decisions, d.verdict = "REQUEST_CHANGES"
               PROVE (/\ Exists(d.key)
                      /\ d.revision < records[d.key].revision
                      /\ LET e == records[d.key].history[d.revision + 1] IN
                         e.to = "DRAFT" /\ e.from = "REVIEWING" /\ e.actor = d.reviewer)'
    BY DEF ChangesReturnDraft
  <2>1. /\ d.revision < records[d.key].revision
        /\ records[d.key].history[d.revision + 1].to = "DRAFT"
        /\ records[d.key].history[d.revision + 1].from = "REVIEWING"
        /\ records[d.key].history[d.revision + 1].actor = d.reviewer
    BY DEF IInv, ChangesReturnDraft
  <2>2. d.revision + 1 \in 1..records[d.key].revision
    BY <1>1, <2>1
  <2>3. records'[d.key].history[d.revision + 1] = records[d.key].history[d.revision + 1]
    BY <1>1, <2>2 DEF Grows
  <2> QED BY <1>1, <2>1, <2>3
<1>3. DecisionsSound'
  <2>1. ASSUME NEW d \in decisions
        PROVE (/\ Exists(d.key)
               /\ d.revision <= records[d.key].revision
               /\ records[d.key].history[d.revision].to = "REVIEWING"
               /\ d.reviewer # OriginalAuthor(records[d.key])
               /\ BoundTo(contentLog[d.key][d.revision], d.project))'
    BY <1>1 DEF IInv, DecisionsSound, BoundTo
  <2>2. \A d, e \in decisions :
          /\ d.project = e.project /\ d.key = e.key
          /\ d.revision = e.revision /\ d.reviewer = e.reviewer
          => d = e
    BY DEF IInv, DecisionsSound
  <2> QED BY <2>1, <2>2 DEF DecisionsSound
<1> QED BY <1>2, <1>3

\* The approvals behind a publication stay sufficient when records only grow
\* and new decisions on its revision are approvals by others than the author.
LEMMA ApprovalsPersist ==
  ASSUME IInv, Grows, TypeOK', RecordsValid', decisions \subseteq decisions',
         NEW k \in Keys, NEW i \in 2..MaxRevision, PublishedAt(k, i),
         \A d \in decisions' \ decisions :
           d.key = k /\ d.revision = i - 1 =>
             d.verdict = "APPROVE" /\ d.reviewer # OriginalAuthor(records[k])
  PROVE  ApprovedFor(k, i)'
<1>1. ApprovedFor(k, i)
  BY DEF IInv, PublishedOnApproval
<1>2. PICK p \in Projects :
        LET ds == DecisionsAt(p, k, i - 1) IN
        /\ \A d \in ds : d.verdict = "APPROVE"
        /\ \A d \in ds : d.reviewer # OriginalAuthor(records[k])
        /\ Cardinality(Reviewers(ds)) >=
             DefaultRequiredApprovals[RiskOf[contentLog[k][i - 1]]]
  BY <1>1 DEF ApprovedFor
<1> DEFINE old == DecisionsAt(p, k, i - 1)
           new == {d \in decisions' : d.project = p /\ d.key = k /\ d.revision = i - 1}
<1>3. Exists(k) /\ i - 1 \in 1..records[k].revision
  <2>1. Exists(k) /\ i \in 2..Len(records[k].history)
    BY DEF PublishedAt
  <2> QED BY <2>1, HistoryLength DEF IInv
<1>4. /\ OriginalAuthor(records'[k]) = OriginalAuthor(records[k])
      /\ contentLog'[k][i - 1] = contentLog[k][i - 1]
  BY <1>3, AuthorPersists DEF IInv, Grows
<1>5. /\ \A d \in new : d.verdict = "APPROVE"
      /\ \A d \in new : d.reviewer # OriginalAuthor(records'[k])
  <2> SUFFICES ASSUME NEW d \in new
               PROVE  d.verdict = "APPROVE" /\ d.reviewer # OriginalAuthor(records'[k])
    OBVIOUS
  <2>1. CASE d \in decisions
    <3>1. d \in old
      BY <2>1 DEF DecisionsAt
    <3> QED BY <3>1, <1>2, <1>4
  <2>2. CASE d \notin decisions
    BY <2>2, <1>4
  <2> QED BY <2>1, <2>2
<1>6. Reviewers(old) \subseteq Reviewers(new) /\ Reviewers(new) \subseteq Actors
  <2>1. old \subseteq new
    BY DEF DecisionsAt
  <2>2. \A d \in new : d.reviewer \in Actors
    BY DEF TypeOK, Decision
  <2> QED BY <2>1, <2>2 DEF Reviewers
<1>7. Cardinality(Reviewers(new)) >= Cardinality(Reviewers(old))
  <2>1. IsFiniteSet(Reviewers(new))
    BY <1>6, ActorAssumption, FS_Subset
  <2> QED BY <2>1, <1>6, FS_Subset
<1>8. Cardinality(Reviewers(new)) >=
        DefaultRequiredApprovals[RiskOf[contentLog'[k][i - 1]]]
  <2>1. IsFiniteSet(Reviewers(new)) /\ IsFiniteSet(Reviewers(old))
    BY <1>6, ActorAssumption, FS_Subset
  <2>2. Cardinality(Reviewers(new)) \in Nat /\ Cardinality(Reviewers(old)) \in Nat
    BY <2>1, FS_CardinalityType
  <2>3. contentLog[k][i - 1] \in Contents
    <3>1. contentLog[k] \in Seq(Contents) /\ Len(contentLog[k]) = records[k].revision
      BY <1>3 DEF IInv, TypeOK, LogMatches
    <3> QED BY <3>1, <1>3
  <2>4. DefaultRequiredApprovals[RiskOf[contentLog[k][i - 1]]] \in Nat
    BY <2>3, ContentAssumption DEF DefaultRequiredApprovals, RiskLevels
  <2> QED BY <2>2, <2>4, <1>2, <1>4, <1>7
<1> QED BY <1>5, <1>8 DEF ApprovedFor, DecisionsAt
FinalStatuses == {"PUBLISHED", "DEPRECATED", "ARCHIVED"}

\* Storing a successor keeps every publication approved, provided it leaves a
\* published body alone and, if it publishes, has the approvals to do so.
LEMMA PublicationsPersist ==
  ASSUME IInv, NEW k \in Keys, NEW new, Succeeds(new, k), Put(k, new),
         TypeOK', decisions \subseteq decisions',
         \A d \in decisions' \ decisions :
           d.key = k /\ Exists(k) /\ d.revision = records[k].revision,
         Exists(k) /\ records[k].status \in FinalStatuses =>
           new.content = records[k].content /\ new.status \in FinalStatuses,
         new.status = "PUBLISHED" =>
           /\ new.content = contentLog'[k][new.revision - 1]
           /\ new.history[new.revision].actor # OriginalAuthor(new)
           /\ ApprovedFor(k, new.revision)'
  PROVE  PublishedIsFinal' /\ PublishedOnApproval'
<1>1. /\ RecordsValid' /\ Grows /\ records'[k] = new
      /\ \A j \in Keys \ {k} : records'[j] = records[j]
  BY PutSucceeds DEF IInv
<1> SUFFICES ASSUME NEW j \in Keys, NEW i \in 2..MaxRevision, PublishedAt(j, i)'
             PROVE  /\ records'[j].status \in FinalStatuses
                    /\ records'[j].content = contentLog'[j][i - 1]
                    /\ records'[j].history[i].actor # OriginalAuthor(records'[j])
                    /\ ApprovedFor(j, i)'
  BY DEF PublishedIsFinal, PublishedOnApproval, FinalStatuses
<1>2. /\ records'[j].revision \in Nat \ {0}
      /\ Len(records'[j].history) = records'[j].revision
      /\ i \in 2..records'[j].revision
      /\ records'[j].history[i].to = "PUBLISHED"
      /\ records'[j].status = records'[j].history[records'[j].revision].to
  <2>1. records'[j] \in Record /\ ValidRecord(records'[j])
    BY <1>1 DEF PublishedAt, TypeOK, RecordsValid, Exists
  <2>2. records'[j].history \in Seq(Event) /\ records'[j].revision \in Nat \ {0}
    BY <2>1 DEF Record
  <2> QED BY <2>1, <2>2 DEF PublishedAt, ValidRecord
<1>3. ASSUME PublishedAt(j, i),
             records'[j].content = records[j].content,
             records'[j].status \in FinalStatuses,
             \A d \in decisions' \ decisions :
               d.key = j /\ d.revision = i - 1 =>
                 d.verdict = "APPROVE" /\ d.reviewer # OriginalAuthor(records[j])
      PROVE  /\ records'[j].status \in FinalStatuses
             /\ records'[j].content = contentLog'[j][i - 1]
             /\ records'[j].history[i].actor # OriginalAuthor(records'[j])
             /\ ApprovedFor(j, i)'
  <2>1. Exists(j) /\ i \in 2..records[j].revision
    <3>1. Exists(j) /\ i \in 2..Len(records[j].history)
      BY <1>3 DEF PublishedAt
    <3> QED BY <3>1, HistoryLength DEF IInv
  <2>2. records[j].revision \in Nat
    BY <2>1, HistoryLength DEF IInv
  <2>3. /\ records'[j].history[i] = records[j].history[i]
        /\ contentLog'[j][i - 1] = contentLog[j][i - 1]
    BY <1>1, <2>1, <2>2 DEF Grows
  <2>4. OriginalAuthor(records'[j]) = OriginalAuthor(records[j])
    BY <1>1, <2>1, AuthorPersists DEF IInv
  <2>5. /\ records[j].content = contentLog[j][i - 1]
        /\ records[j].history[i].actor # OriginalAuthor(records[j])
    BY <1>3 DEF IInv, PublishedOnApproval
  <2>6. ApprovedFor(j, i)'
    BY <1>1, <1>3, ApprovalsPersist
  <2> QED BY <1>3, <2>3, <2>4, <2>5, <2>6
<1>4. CASE j # k
  <2>1. PublishedAt(j, i)
    BY <1>1, <1>4 DEF PublishedAt, Exists
  <2>2. records[j].status \in FinalStatuses
    BY <2>1 DEF IInv, PublishedIsFinal, FinalStatuses
  <2> QED BY <1>1, <1>3, <1>4, <2>1, <2>2
<1>5. CASE j = k /\ ~ Exists(k)
  BY <1>1, <1>2, <1>5 DEF Succeeds
<1>6. CASE j = k /\ Exists(k) /\ i # new.revision
  <2>1. records[k].revision \in Nat \ {0} /\ Len(records[k].history) = records[k].revision
    BY <1>6, HistoryLength DEF IInv
  <2>2. i \in 2..records[k].revision
    BY <1>1, <1>2, <1>6, <2>1 DEF Succeeds
  <2>3. records[k].history[i].to = "PUBLISHED"
    <3>1. i \in 1..records[k].revision
      BY <2>1, <2>2
    <3>2. records'[k].history[i] = records[k].history[i]
      BY <1>1, <1>6, <3>1 DEF Grows
    <3> QED BY <1>2, <1>6, <3>2
  <2>4. PublishedAt(k, i)
    BY <1>6, <2>1, <2>2, <2>3 DEF PublishedAt
  <2>5. records[k].status \in FinalStatuses
    BY <2>4 DEF IInv, PublishedIsFinal, FinalStatuses
  <2>6. \A d \in decisions' \ decisions : d.revision # i - 1
    BY <2>1, <2>2
  <2> QED BY <1>1, <1>3, <1>6, <2>4, <2>5, <2>6
<1>7. CASE j = k /\ Exists(k) /\ i = new.revision
  BY <1>1, <1>2, <1>7 DEF FinalStatuses
<1> QED BY <1>4, <1>5, <1>6, <1>7
-----------------------------------------------------------------------------
(* The records the actions store succeed the ones they replace.            *)

\* A status transition stores a valid successor, with the same content.
LEMMA TransitionedSucceeds ==
  ASSUME TypeOK, RecordsValid, NEW k \in Keys, Exists(k),
         NEW a \in Actors, NEW t \in Times,
         NEW to, to \in LifecycleTransitions[records[k].status],
         NEW new, new = TransitionedRecord(records[k], to, a, t)
  PROVE  /\ Succeeds(new, k)
         /\ new.content = records[k].content
         /\ new.status = to
         /\ new.revision = records[k].revision + 1
         /\ new.history[new.revision].actor = a
         /\ new.history[new.revision].from = records[k].status
         /\ new.history[new.revision].to = to
<1>1. records[k] \in Record /\ ValidRecord(records[k])
  BY HistoryLength DEF RecordsValid
<1>2. records[k].history \in Seq(Event) /\ Len(records[k].history) = records[k].revision
      /\ records[k].revision \in Nat \ {0}
  BY <1>1, HistoryLength DEF Record
<1>3. /\ TransitionedRecord(records[k], to, a, t) \in Record
      /\ ValidRecord(TransitionedRecord(records[k], to, a, t))
  BY <1>1, TransitionedIsValid
<1> QED BY <1>2, <1>3 DEF Succeeds, TransitionedRecord

\* A replaced draft is a valid successor, still in DRAFT.
LEMMA ReplacedSucceeds ==
  ASSUME TypeOK, RecordsValid, NEW k \in Keys, Exists(k),
         NEW a \in Actors, NEW t \in Times, NEW c \in Contents,
         records[k].status = "DRAFT"
  PROVE  LET new == ReplacedRecord(records[k], c, a, t) IN
         /\ Succeeds(new, k)
         /\ new.status = "DRAFT"
<1>1. records[k] \in Record /\ ValidRecord(records[k])
  BY HistoryLength DEF RecordsValid
<1>2. records[k].history \in Seq(Event) /\ Len(records[k].history) = records[k].revision
      /\ records[k].revision \in Nat \ {0}
  BY <1>1, HistoryLength DEF Record
<1>3. /\ ReplacedRecord(records[k], c, a, t) \in Record
      /\ ValidRecord(ReplacedRecord(records[k], c, a, t))
  BY <1>1, ReplacedIsValid
<1> QED BY <1>2, <1>3 DEF Succeeds, ReplacedRecord

-----------------------------------------------------------------------------
(* Every action preserves the invariant.                                   *)

\* The part of the invariant common to the actions that store a record and
\* decide nothing.
LEMMA StorePreserves ==
  ASSUME IInv, NEW k \in Keys, NEW new, Succeeds(new, k), Put(k, new),
         UNCHANGED decisions,
         Exists(k) /\ records[k].status \in FinalStatuses =>
           new.content = records[k].content /\ new.status \in FinalStatuses,
         new.status = "PUBLISHED" =>
           /\ new.content = contentLog'[k][new.revision - 1]
           /\ new.history[new.revision].actor # OriginalAuthor(new)
           /\ ApprovedFor(k, new.revision)'
  PROVE  IInv'
<1>1. /\ records' \in [Keys -> Record \union {NoRecord}]
      /\ contentLog' \in [Keys -> Seq(Contents)]
      /\ RecordsValid' /\ LogMatches' /\ Grows
  BY PutSucceeds DEF IInv
<1>2. TypeOK'
  BY <1>1 DEF IInv, TypeOK
<1>3. PublishedIsFinal' /\ PublishedOnApproval'
  BY <1>2, PublicationsPersist
<1>4. ChangesReturnDraft' /\ DecisionsSound'
  BY <1>1, <1>2, DecisionsPersist
<1> QED BY <1>1, <1>2, <1>3, <1>4 DEF IInv

\* CreateDraft keeps the invariant.
LEMMA CreateDraftPreserves ==
  ASSUME IInv, NEW p \in Projects, NEW k \in Keys, NEW c \in Contents,
         NEW a \in Actors, NEW t \in Times, CreateDraft(p, k, c, a, t)
  PROVE  IInv'
<1>1. ~ Exists(k)
  <2>1. k.version \in Nat
    BY VersionAssumption DEF Keys
  <2> QED BY <2>1 DEF CreateDraft, NewerThanAll
<1>2. Succeeds(CreatedRecord(c, a, t), k) /\ CreatedRecord(c, a, t).status = "DRAFT"
  <2>1. CreatedRecord(c, a, t).revision = 1 /\ CreatedRecord(c, a, t).status = "DRAFT"
    BY DEF CreatedRecord
  <2> QED BY <1>1, <2>1, CreatedIsValid DEF Succeeds
<1> QED BY <1>1, <1>2, StorePreserves DEF CreateDraft

\* ReplaceDraft keeps the invariant.
LEMMA ReplaceDraftPreserves ==
  ASSUME IInv, NEW p \in Projects, NEW k \in Keys, NEW c \in Contents,
         NEW a \in Actors, NEW t \in Times, ReplaceDraft(p, k, c, a, t)
  PROVE  IInv'
<1>1. Exists(k) /\ records[k].status = "DRAFT"
  BY DEF ReplaceDraft, Handles, CanReplaceDraft
<1>2. /\ Succeeds(ReplacedRecord(records[k], c, a, t), k)
      /\ ReplacedRecord(records[k], c, a, t).status = "DRAFT"
  BY <1>1, ReplacedSucceeds DEF IInv
<1> QED BY <1>1, <1>2, StorePreserves DEF ReplaceDraft, FinalStatuses

\* Submit, Deprecate and Archive: a move to anything but PUBLISHED or DRAFT.
LEMMA MovePreserves ==
  ASSUME IInv, NEW k \in Keys, NEW a \in Actors, NEW t \in Times,
         NEW to \in {"REVIEWING", "DEPRECATED", "ARCHIVED"},
         Exists(k), Move(k, to, a, t), UNCHANGED decisions
  PROVE  IInv'
<1>1. to \in LifecycleTransitions[records[k].status]
      /\ Put(k, TransitionedRecord(records[k], to, a, t))
  BY DEF Move, CanTransition
<1>2. PICK new : new = TransitionedRecord(records[k], to, a, t)
  OBVIOUS
<1>3. Succeeds(new, k) /\ new.content = records[k].content /\ new.status = to
  <2>1. TypeOK /\ RecordsValid
    BY DEF IInv
  <2> QED BY <1>1, <1>2, <2>1, TransitionedSucceeds
<1>4. records[k].status \in FinalStatuses => to \in FinalStatuses
  BY <1>1 DEF LifecycleTransitions, FinalStatuses
<1> QED BY <1>1, <1>2, <1>3, <1>4, StorePreserves

\* Publish keeps the invariant.
LEMMA PublishPreserves ==
  ASSUME IInv, NEW p \in Projects, NEW k \in Keys, NEW a \in Actors,
         NEW t \in Times, Publish(p, k, a, t)
  PROVE  IInv'
<1>1. PICK r, ds, new :
        /\ r = records[k].revision
        /\ ds = DecisionsAt(p, k, r)
        /\ new = TransitionedRecord(records[k], "PUBLISHED", a, t)
  OBVIOUS
<1>2. /\ Exists(k) /\ PublishAllowed(records[k], ds, a)
      /\ Put(k, new) /\ UNCHANGED decisions
      /\ "PUBLISHED" \in LifecycleTransitions[records[k].status]
  BY <1>1 DEF Publish, Handles, Move, CanTransition
<1>3. /\ Succeeds(new, k) /\ new.content = records[k].content
      /\ new.status = "PUBLISHED" /\ new.revision = r + 1
      /\ new.history[new.revision].actor = a
  <2>1. TypeOK /\ RecordsValid
    BY DEF IInv
  <2> QED BY <1>1, <1>2, <2>1, TransitionedSucceeds
<1>4. r \in Nat \ {0} /\ contentLog[k][r] = records[k].content
  BY <1>1, <1>2, HistoryLength DEF IInv, LogMatches
<1>5. /\ RecordsValid' /\ Grows /\ records'[k] = new
      /\ OriginalAuthor(new) = OriginalAuthor(records[k])
      /\ contentLog'[k][r] = contentLog[k][r]
  <2>1. RecordsValid' /\ Grows /\ records'[k] = new
    BY <1>2, <1>3, PutSucceeds DEF IInv
  <2> QED BY <1>1, <1>2, <1>4, <2>1, AuthorPersists DEF IInv, Grows
<1>6. records[k].status = "REVIEWING" /\ a # OriginalAuthor(records[k])
  BY <1>2 DEF PublishAllowed
<1>7. ApprovedFor(k, new.revision)'
  <2>1. new.revision - 1 = r
    BY <1>3, <1>4
  <2>2. DecisionsAt(p, k, r)' = ds
    BY <1>1, <1>2 DEF DecisionsAt
  <2>3. /\ \A d \in ds : d.verdict = "APPROVE"
        /\ \A d \in ds : d.reviewer # OriginalAuthor(records'[k])
        /\ Cardinality(Reviewers(ds)) >=
             DefaultRequiredApprovals[RiskOf[contentLog'[k][r]]]
    BY <1>2, <1>4, <1>5 DEF PublishAllowed
  <2> QED BY <2>1, <2>2, <2>3 DEF ApprovedFor
<1>8. /\ new.content = contentLog'[k][new.revision - 1]
      /\ new.history[new.revision].actor # OriginalAuthor(new)
  BY <1>3, <1>4, <1>5, <1>6
<1> QED BY <1>2, <1>3, <1>6, <1>7, <1>8, StorePreserves DEF FinalStatuses
\* A decision on revision r of record k, taken once.
LEMMA DecisionIsSound ==
  ASSUME IInv, NEW p \in Projects, NEW k \in Keys, NEW a \in Actors,
         NEW r, r \in 1..records[k].revision, NEW verdict \in Verdicts,
         Exists(k), records[k].history[r].to = "REVIEWING",
         BoundTo(contentLog[k][r], p), ReviewerAllowed(records[k], a),
         Undecided(p, k, r, a), Decide(p, k, r, verdict, a),
         Grows, RecordsValid',
         records' \in [Keys -> Record \union {NoRecord}],
         contentLog' \in [Keys -> Seq(Contents)]
  PROVE  TypeOK' /\ DecisionsSound'
<1>1. PICK new : new = [project |-> p, key |-> k, revision |-> r,
                        verdict |-> verdict, reviewer |-> a]
  OBVIOUS
<1>2. decisions' = decisions \union {new}
  BY <1>1 DEF Decide
<1>3. records[k].revision \in Nat \ {0} /\ r \in Nat \ {0}
  BY HistoryLength DEF IInv
<1>4. TypeOK'
  BY <1>1, <1>2, <1>3 DEF IInv, TypeOK, Decision
<1>5. ASSUME NEW d \in decisions'
      PROVE (/\ Exists(d.key)
             /\ d.revision <= records[d.key].revision
             /\ records[d.key].history[d.revision].to = "REVIEWING"
             /\ d.reviewer # OriginalAuthor(records[d.key])
             /\ BoundTo(contentLog[d.key][d.revision], d.project))'
  <2>1. /\ d.key \in Keys /\ d.revision \in Nat \ {0}
        /\ Exists(d.key)
        /\ d.revision \in 1..records[d.key].revision
        /\ records[d.key].history[d.revision].to = "REVIEWING"
        /\ d.reviewer # OriginalAuthor(records[d.key])
        /\ BoundTo(contentLog[d.key][d.revision], d.project)
    <3>1. CASE d = new
      BY <1>1, <1>3, <3>1 DEF ReviewerAllowed
    <3>2. CASE d \in decisions
      <4>1. /\ d.key \in Keys /\ d.revision \in Nat \ {0}
            /\ Exists(d.key) /\ d.revision <= records[d.key].revision
        BY <3>2 DEF IInv, TypeOK, Decision, DecisionsSound
      <4>2. records[d.key].revision \in Nat
        BY <4>1, HistoryLength DEF IInv
      <4> QED BY <3>2, <4>1, <4>2 DEF IInv, DecisionsSound
    <3> QED BY <1>2, <3>1, <3>2
  <2>2. /\ Exists(d.key)'
        /\ records[d.key].revision <= records'[d.key].revision
        /\ records'[d.key].history[d.revision] = records[d.key].history[d.revision]
        /\ contentLog'[d.key][d.revision] = contentLog[d.key][d.revision]
    BY <2>1 DEF Grows
  <2>3. OriginalAuthor(records'[d.key]) = OriginalAuthor(records[d.key])
    BY <2>1, AuthorPersists DEF IInv
  <2>4. records[d.key].revision \in Nat /\ records'[d.key].revision \in Nat
    <3>1. records'[d.key] \in Record
      BY <2>1, <2>2 DEF Exists
    <3> QED BY <2>1, <3>1, HistoryLength DEF IInv, Record
  <2> QED BY <2>1, <2>2, <2>3, <2>4 DEF BoundTo
<1>6. ASSUME NEW d \in decisions', NEW e \in decisions',
             d.project = e.project, d.key = e.key,
             d.revision = e.revision, d.reviewer = e.reviewer
      PROVE  d = e
  <2>1. \A f \in decisions :
          f.project = p /\ f.key = k /\ f.revision = r => f.reviewer # a
    BY DEF Undecided, DecisionsAt
  <2>2. CASE d \in decisions /\ e \in decisions
    BY <1>6, <2>2 DEF IInv, DecisionsSound
  <2>3. CASE d = new \/ e = new
    BY <1>1, <1>2, <1>6, <2>1, <2>3
  <2> QED BY <1>2, <2>2, <2>3
<1> QED BY <1>4, <1>5, <1>6 DEF DecisionsSound

\* Approve keeps the invariant.
LEMMA ApprovePreserves ==
  ASSUME IInv, NEW p \in Projects, NEW k \in Keys, NEW a \in Actors,
         NEW r \in 1..MaxRevision, Approve(p, k, a, r)
  PROVE  IInv'
<1>1. UNCHANGED <<records, contentLog>> /\ Exists(k) /\ Decide(p, k, r, "APPROVE", a)
  BY DEF Approve
<1>2. Grows
  <2> SUFFICES ASSUME NEW j \in Keys, Exists(j)
               PROVE  records[j].revision <= records[j].revision
    BY <1>1 DEF Grows, Exists
  <2>1. records[j].revision \in Nat
    BY HistoryLength DEF IInv
  <2> QED BY <2>1
<1>3. RecordsValid' /\ LogMatches'
  BY <1>1 DEF IInv, RecordsValid, LogMatches, Exists
<1>4. r \in 1..records[k].revision
  <2>1. contentLog[k] \in Seq(Contents) /\ Len(contentLog[k]) = records[k].revision
    BY <1>1 DEF IInv, TypeOK, LogMatches
  <2> QED BY <2>1 DEF Approve
<1>5. TypeOK' /\ DecisionsSound'
  <2>1. /\ records' \in [Keys -> Record \union {NoRecord}]
        /\ contentLog' \in [Keys -> Seq(Contents)]
    BY <1>1 DEF IInv, TypeOK
  <2>2. "APPROVE" \in Verdicts
    BY DEF Verdicts
  <2> QED BY <1>1, <1>2, <1>3, <1>4, <2>1, <2>2, DecisionIsSound DEF Approve
<1>6. PICK new : new = [project |-> p, key |-> k, revision |-> r,
                        verdict |-> "APPROVE", reviewer |-> a]
  OBVIOUS
<1>7. decisions' = decisions \union {new}
  BY <1>1, <1>6 DEF Decide
<1>8. ChangesReturnDraft'
  BY <1>1, <1>6, <1>7 DEF IInv, ChangesReturnDraft, Exists
<1>9. PublishedIsFinal' /\ PublishedOnApproval'
  <2> SUFFICES ASSUME NEW j \in Keys, NEW i \in 2..MaxRevision, PublishedAt(j, i)
               PROVE  ApprovedFor(j, i)'
    BY <1>1 DEF IInv, PublishedIsFinal, PublishedOnApproval, PublishedAt, Exists
  <2>1. \A d \in decisions' \ decisions :
          d.key = j /\ d.revision = i - 1 =>
            d.verdict = "APPROVE" /\ d.reviewer # OriginalAuthor(records[j])
    BY <1>6, <1>7 DEF Approve, ReviewerAllowed
  <2> QED BY <1>2, <1>3, <1>5, <1>7, <2>1, ApprovalsPersist
<1> QED BY <1>3, <1>5, <1>8, <1>9 DEF IInv

\* RequestChanges keeps the invariant.
LEMMA RequestChangesPreserves ==
  ASSUME IInv, NEW p \in Projects, NEW k \in Keys, NEW a \in Actors,
         NEW t \in Times, RequestChanges(p, k, a, t)
  PROVE  IInv'
<1>1. PICK r, new :
        /\ r = records[k].revision
        /\ new = TransitionedRecord(records[k], "DRAFT", a, t)
  OBVIOUS
<1>2. /\ Exists(k) /\ BoundTo(records[k].content, p)
      /\ records[k].status = "REVIEWING"
      /\ ReviewerAllowed(records[k], a)
      /\ Undecided(p, k, r, a)
      /\ Decide(p, k, r, "REQUEST_CHANGES", a)
      /\ "DRAFT" \in LifecycleTransitions[records[k].status]
      /\ Put(k, new)
  BY <1>1 DEF RequestChanges, Handles, Move, CanTransition
<1>3. /\ Succeeds(new, k) /\ new.status = "DRAFT" /\ new.revision = r + 1
      /\ new.history[new.revision].actor = a
      /\ new.history[new.revision].from = "REVIEWING"
      /\ new.history[new.revision].to = "DRAFT"
  <2>1. TypeOK /\ RecordsValid
    BY DEF IInv
  <2> QED BY <1>1, <1>2, <2>1, TransitionedSucceeds
<1>4. /\ records' \in [Keys -> Record \union {NoRecord}]
      /\ contentLog' \in [Keys -> Seq(Contents)]
      /\ RecordsValid' /\ LogMatches' /\ Grows /\ records'[k] = new
  BY <1>2, <1>3, PutSucceeds DEF IInv
<1>5. /\ r \in Nat \ {0} /\ r \in 1..records[k].revision
      /\ records[k].history[r].to = "REVIEWING"
      /\ contentLog[k][r] = records[k].content
  BY <1>1, <1>2, HistoryLength DEF IInv, LogMatches
<1>6. TypeOK' /\ DecisionsSound'
  <2>1. "REQUEST_CHANGES" \in Verdicts
    BY DEF Verdicts
  <2>2. BoundTo(contentLog[k][r], p)
    BY <1>2, <1>5
  <2> QED BY <1>2, <1>4, <1>5, <2>1, <2>2, DecisionIsSound
<1>7. PICK d : d = [project |-> p, key |-> k, revision |-> r,
                    verdict |-> "REQUEST_CHANGES", reviewer |-> a]
  OBVIOUS
<1>8. decisions' = decisions \union {d}
  BY <1>2, <1>7 DEF Decide
<1>9. ChangesReturnDraft'
  <2> SUFFICES ASSUME NEW e \in decisions', e.verdict = "REQUEST_CHANGES"
               PROVE (/\ Exists(e.key)
                      /\ e.revision < records[e.key].revision
                      /\ LET f == records[e.key].history[e.revision + 1] IN
                         f.to = "DRAFT" /\ f.from = "REVIEWING" /\ f.actor = e.reviewer)'
    BY DEF ChangesReturnDraft
  <2>1. CASE e = d
    <3>1. Exists(k)'
      BY <1>2, <1>4 DEF Grows
    <3> QED BY <1>3, <1>4, <1>5, <1>7, <2>1, <3>1
  <2>2. CASE e \in decisions
    <3>1. /\ e.key \in Keys /\ e.revision \in Nat \ {0} /\ Exists(e.key)
          /\ e.revision < records[e.key].revision
          /\ LET f == records[e.key].history[e.revision + 1] IN
             f.to = "DRAFT" /\ f.from = "REVIEWING" /\ f.actor = e.reviewer
      BY <2>2 DEF IInv, TypeOK, Decision, ChangesReturnDraft
    <3>2. records[e.key].revision \in Nat
      BY <3>1, HistoryLength DEF IInv
    <3>3. e.revision + 1 \in 1..records[e.key].revision
      BY <3>1, <3>2
    <3>4. /\ Exists(e.key)'
          /\ records[e.key].revision <= records'[e.key].revision
          /\ records'[e.key].history[e.revision + 1] = records[e.key].history[e.revision + 1]
      BY <1>4, <3>1, <3>3 DEF Grows
    <3>5. records'[e.key].revision \in Nat
      BY <1>4, <3>1, <3>4 DEF Exists, Record
    <3> QED BY <3>1, <3>2, <3>4, <3>5
  <2> QED BY <1>8, <2>1, <2>2
<1>10. PublishedIsFinal' /\ PublishedOnApproval'
  <2>1. \A e \in decisions' \ decisions :
          e.key = k /\ Exists(k) /\ e.revision = records[k].revision
    BY <1>1, <1>2, <1>7, <1>8
  <2> QED BY <1>2, <1>3, <1>6, <1>8, <2>1, PublicationsPersist DEF FinalStatuses
<1> QED BY <1>4, <1>6, <1>9, <1>10 DEF IInv

-----------------------------------------------------------------------------
(* The theorems.                                                           *)

\* An empty registry satisfies the invariant.
LEMMA InitEstablishes == Init => IInv
<1> SUFFICES ASSUME Init PROVE IInv
  OBVIOUS
<1>1. \A k \in Keys : ~ Exists(k) /\ contentLog[k] = << >>
  BY DEF Init, Exists
<1>2. decisions = {}
  BY DEF Init
<1>3. TypeOK
  BY DEF Init, TypeOK
<1>4. RecordsValid /\ LogMatches
  BY <1>1 DEF RecordsValid, LogMatches
<1>5. PublishedIsFinal /\ PublishedOnApproval
  BY <1>1 DEF PublishedIsFinal, PublishedOnApproval, PublishedAt
<1>6. ChangesReturnDraft /\ DecisionsSound
  BY <1>2 DEF ChangesReturnDraft, DecisionsSound
<1> QED BY <1>3, <1>4, <1>5, <1>6 DEF IInv

\* Every command keeps the invariant.
LEMMA StepPreserves == IInv /\ [Next]_vars => IInv'
<1> SUFFICES ASSUME IInv, [Next]_vars PROVE IInv'
  OBVIOUS
<1>1. CASE UNCHANGED vars
  BY <1>1 DEF vars, IInv, TypeOK, RecordsValid, LogMatches, PublishedIsFinal,
              PublishedOnApproval, ChangesReturnDraft, DecisionsSound, Exists,
              PublishedAt, ApprovedFor, DecisionsAt
<1>2. CASE Next
  <2> SUFFICES ASSUME NEW p \in Projects, NEW k \in Keys, NEW a \in Actors,
                      \/ \E c \in Contents, t \in Times : CreateDraft(p, k, c, a, t)
                      \/ \E c \in Contents, t \in Times : ReplaceDraft(p, k, c, a, t)
                      \/ \E t \in Times : Submit(p, k, a, t)
                      \/ \E r \in 1..MaxRevision : Approve(p, k, a, r)
                      \/ \E t \in Times : RequestChanges(p, k, a, t)
                      \/ \E t \in Times : Publish(p, k, a, t)
                      \/ \E t \in Times : Deprecate(p, k, a, t)
                      \/ \E t \in Times : Archive(p, k, a, t)
               PROVE  IInv'
    BY <1>2 DEF Next
  <2>1. CASE \E c \in Contents, t \in Times : CreateDraft(p, k, c, a, t)
    BY <2>1, CreateDraftPreserves
  <2>2. CASE \E c \in Contents, t \in Times : ReplaceDraft(p, k, c, a, t)
    BY <2>2, ReplaceDraftPreserves
  <2>3. CASE \E t \in Times : Submit(p, k, a, t)
    BY <2>3, MovePreserves DEF Submit, Handles
  <2>4. CASE \E r \in 1..MaxRevision : Approve(p, k, a, r)
    BY <2>4, ApprovePreserves
  <2>5. CASE \E t \in Times : RequestChanges(p, k, a, t)
    BY <2>5, RequestChangesPreserves
  <2>6. CASE \E t \in Times : Publish(p, k, a, t)
    BY <2>6, PublishPreserves
  <2>7. CASE \E t \in Times : Deprecate(p, k, a, t)
    BY <2>7, MovePreserves DEF Deprecate, Handles
  <2>8. CASE \E t \in Times : Archive(p, k, a, t)
    BY <2>8, MovePreserves DEF Archive, Handles
  <2> QED BY <2>1, <2>2, <2>3, <2>4, <2>5, <2>6, <2>7, <2>8
<1> QED BY <1>1, <1>2

\* No step rewrites what was recorded or decided.
LEMMA StepGrows == IInv /\ [Next]_vars => Grows /\ decisions \subseteq decisions'
<1> SUFFICES ASSUME IInv, [Next]_vars PROVE Grows /\ decisions \subseteq decisions'
  OBVIOUS
<1>1. ASSUME UNCHANGED <<records, contentLog>>
      PROVE  Grows
  <2> SUFFICES ASSUME NEW j \in Keys, Exists(j)
               PROVE  records[j].revision <= records[j].revision
    BY <1>1 DEF Grows, Exists
  <2>1. records[j].revision \in Nat
    BY HistoryLength DEF IInv
  <2> QED BY <2>1
<1>2. ASSUME NEW k \in Keys, NEW a \in Actors, NEW t \in Times, NEW to, Exists(k),
             Move(k, to, a, t)
      PROVE  Grows
  <2>1. PICK new : new = TransitionedRecord(records[k], to, a, t)
    OBVIOUS
  <2>2. Succeeds(new, k) /\ Put(k, new)
    BY <1>2, <2>1, TransitionedSucceeds DEF IInv, Move, CanTransition
  <2> QED BY <2>2, PutSucceeds DEF IInv
<1>3. CASE UNCHANGED vars
  BY <1>1, <1>3 DEF vars
<1>4. ASSUME NEW p \in Projects, NEW k \in Keys, NEW a \in Actors, NEW c \in Contents,
             NEW t \in Times, CreateDraft(p, k, c, a, t)
      PROVE  Grows /\ UNCHANGED decisions
  <2>1. ~ Exists(k)
    <3>1. k.version \in Nat
      BY VersionAssumption DEF Keys
    <3> QED BY <1>4, <3>1 DEF CreateDraft, NewerThanAll
  <2>2. CreatedRecord(c, a, t).revision = 1
    BY DEF CreatedRecord
  <2>3. Succeeds(CreatedRecord(c, a, t), k)
    BY <2>1, <2>2, CreatedIsValid DEF Succeeds
  <2> QED BY <1>4, <2>3, PutSucceeds DEF IInv, CreateDraft
<1>5. ASSUME NEW p \in Projects, NEW k \in Keys, NEW a \in Actors, NEW c \in Contents,
             NEW t \in Times, ReplaceDraft(p, k, c, a, t)
      PROVE  Grows /\ UNCHANGED decisions
  <2>1. Exists(k) /\ records[k].status = "DRAFT"
    BY <1>5 DEF ReplaceDraft, Handles, CanReplaceDraft
  <2>2. Succeeds(ReplacedRecord(records[k], c, a, t), k)
    BY <2>1, ReplacedSucceeds DEF IInv
  <2> QED BY <1>5, <2>2, PutSucceeds DEF IInv, ReplaceDraft
<1>6. ASSUME NEW p \in Projects, NEW k \in Keys, NEW a \in Actors, NEW r \in 1..MaxRevision,
             Approve(p, k, a, r)
      PROVE  Grows /\ decisions \subseteq decisions'
  BY <1>1, <1>6 DEF Approve, Decide
<1>7. ASSUME NEW p \in Projects, NEW k \in Keys, NEW a \in Actors, NEW t \in Times,
             \/ Submit(p, k, a, t) \/ RequestChanges(p, k, a, t) \/ Publish(p, k, a, t)
             \/ Deprecate(p, k, a, t) \/ Archive(p, k, a, t)
      PROVE  Grows /\ decisions \subseteq decisions'
  BY <1>2, <1>7 DEF Submit, RequestChanges, Publish, Deprecate, Archive, Handles, Decide
<1> QED BY <1>3, <1>4, <1>5, <1>6, <1>7 DEF Next

\* The registry and its evidence are an audit trail: no command, in whatever
\* order with others, removes or rewrites a revision, an event or a decision.
AppendOnly == [][Grows /\ decisions \subseteq decisions']_vars

\* Every reachable state satisfies the inductive invariant.
THEOREM Invariance == Spec => []IInv
  BY InitEstablishes, StepPreserves, PTL DEF Spec

\* Type correctness of the registry and its evidence.
THEOREM TypeCorrect == Spec => []TypeOK
<1>1. IInv => TypeOK
  BY DEF IInv
<1> QED BY <1>1, Invariance, PTL

\* No command ever stores a record that validateRegistryRecord would reject,
\* so no record becomes unreadable.
THEOREM RecordsStayValid == Spec => []RecordsValid
<1>1. IInv => RecordsValid
  BY DEF IInv
<1> QED BY <1>1, Invariance, PTL

\* Whatever is published was reviewed as published and approved by enough
\* reviewers other than its author, and stays so (evaluatePublish).
THEOREM PublicationIsApproved == Spec => []PublishedOnApproval
<1>1. IInv => PublishedOnApproval
  BY DEF IInv
<1> QED BY <1>1, Invariance, PTL

\* A request for changes always takes the record back to DRAFT (review).
THEOREM RequestedChangesReturnDraft == Spec => []ChangesReturnDraft
<1>1. IInv => ChangesReturnDraft
  BY DEF IInv
<1> QED BY <1>1, Invariance, PTL

\* Review decisions are single, impartial and about revisions under review
\* of bodies their project may handle.
THEOREM DecisionsAreSound == Spec => []DecisionsSound
<1>1. IInv => DecisionsSound
  BY DEF IInv
<1> QED BY <1>1, Invariance, PTL

\* What was recorded and decided stays (replaceDraft, transition, append).
THEOREM NothingIsRewritten == Spec => AppendOnly
<1>1. IInv /\ [Next]_vars => [Grows /\ decisions \subseteq decisions']_vars
  BY StepGrows
<1> QED BY <1>1, Invariance, PTL DEF Spec, AppendOnly
====
