------------------------- MODULE KnowledgeSnapshots -------------------------
(***************************************************************************)
(* Knowledge snapshots as evidence: what may be stored, and the store that *)
(* never replaces an envelope (knowledge-governance persistSnapshot; the   *)
(* stores in memory and on PostgreSQL, whose INSERT ... ON CONFLICT DO     *)
(* NOTHING and FOR SHARE re-read make each save one atomic step).          *)
(***************************************************************************)
EXTENDS KnowledgeGovernance

CONSTANT Snapshots  \* snapshots callers hand in: [snapshotId, digest, payload]

\* Releases are ordered numbers, as versions are.
ASSUME SnapshotAssumption == \A s \in Snapshots : s.payload.release \in Nat

VARIABLE snapshots  \* the stored envelopes

\* A digest stands for what was digested, an id for project and digest.
SnapshotIdOf(payload) == [project |-> payload.project, digest |-> payload]

ValidSnapshot(snapshot) ==
  /\ snapshot.digest = snapshot.payload
  /\ snapshot.snapshotId = SnapshotIdOf(snapshot.payload)

CreateSnapshotEnvelope(snapshot, a, t) ==
  [snapshotId |-> snapshot.snapshotId, projectId |-> snapshot.payload.project,
   releaseId |-> snapshot.payload.release, createdBy |-> a, createdAt |-> t,
   snapshot |-> snapshot]

Stored(snapshot) == {e \in snapshots : e.snapshotId = snapshot.snapshotId}

\* save: a stored envelope that differs in anything, author and time included,
\* is an immutability conflict.
Save(envelope) ==
  /\ Stored(envelope) \subseteq {envelope}
  /\ snapshots' = snapshots \union {envelope}

PersistSnapshot(p, snapshot, a, t) ==
  /\ ValidSnapshot(snapshot)
  /\ snapshot.payload.project = p
  /\ Granted(p, a, "SNAPSHOT_PERSIST")
  /\ Save(CreateSnapshotEnvelope(snapshot, a, t))
=============================================================================
