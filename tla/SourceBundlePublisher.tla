----------------------- MODULE SourceBundlePublisher -----------------------
(***************************************************************************)
(* Publication of one source bundle into the local content-addressed store *)
(* (k6-api-adapter/src/source-bundle-publisher.js).  Several processes may *)
(* publish the same bundle; each works by file-system calls that interleave *)
(* at every await: it writes into .staging-<digest> and renames that to     *)
(* <digest>.  The content of a file follows from its path and the bundle,   *)
(* so a directory is the set of files it has as the bundle has them, and    *)
(* whose receipt.                                                           *)
(***************************************************************************)
CONSTANTS
  Publishers,  \* the processes; a receipt is named by who wrote it
  Files,       \* the bundle's files with its manifest and provenance
  NoDir,       \* the absence of a directory
  NoReceipt    \* the absence of a receipt.json

ASSUME FileAssumption == Files # {}

Dir == [files : SUBSET Files, receipt : Publishers \union {NoReceipt}]
Errors == {"BUSY", "EXISTS", "FAILED", "DRIFT", "REFUSED", "CRASHED"}

ASSUME NoneAssumption == NoDir \notin Dir /\ NoReceipt \notin Publishers
ASSUME NameAssumption == Publishers \intersect (Errors \union {"none"}) = {}

VARIABLES
  target,   \* the directory <digest>
  staging,  \* the directory .staging-<digest>
  pc,       \* the call each publisher awaits next
  left,     \* the files it has still to write
  answer,   \* what its last call returned or threw
  intact,   \* auxiliary: the bundle was published, whole, when the call began
  faulty    \* auxiliary: something crashed, or the file system refused a call

storeVars == <<target, staging, pc, left, answer, intact, faulty>>

EmptyDir == [files |-> {}, receipt |-> NoReceipt]
Whole(dir) == dir # NoDir /\ dir.files = Files /\ dir.receipt # NoReceipt

PCs == {"idle", "stat_target", "stat_staging", "mkdir", "write", "receipt",
        "rename", "cleanup", "verify"}

StoreInit ==
  /\ target = NoDir /\ staging = NoDir
  /\ pc = [p \in Publishers |-> "idle"]
  /\ left = [p \in Publishers |-> {}]
  /\ answer = [p \in Publishers |-> "none"]
  /\ intact = [p \in Publishers |-> FALSE]
  /\ faulty = FALSE

Goto(p, label) == pc' = [pc EXCEPT ![p] = label]
End(p, result) == Goto(p, "idle") /\ answer' = [answer EXCEPT ![p] = result]

-----------------------------------------------------------------------------

Publish(p) ==
  /\ pc[p] = "idle"
  /\ Goto(p, "stat_target")
  /\ answer' = [answer EXCEPT ![p] = "none"]
  /\ intact' = [intact EXCEPT ![p] = Whole(target)]
  /\ UNCHANGED <<target, staging, left, faulty>>

\* Wrong variant: looks for a publication in progress before a finished one.
StagingFirst(p) ==
  /\ pc[p] = "stat_target"
  /\ IF staging # NoDir THEN End(p, "BUSY")
     ELSE UNCHANGED answer /\ Goto(p, IF target # NoDir THEN "verify" ELSE "stat_staging")
  /\ UNCHANGED <<target, staging, left, intact, faulty>>

StatTarget(p) ==
  /\ pc[p] = "stat_target"
  /\ Goto(p, IF target # NoDir THEN "verify" ELSE "stat_staging")
  /\ UNCHANGED <<target, staging, left, answer, intact, faulty>>

StatStaging(p) ==
  /\ pc[p] = "stat_staging"
  /\ IF staging # NoDir THEN End(p, "BUSY") ELSE Goto(p, "mkdir") /\ UNCHANGED answer
  /\ UNCHANGED <<target, staging, left, intact, faulty>>

\* Wrong variant: mkdir with { recursive: true }, which accepts what is there.
MakeStagingShared(p) ==
  /\ pc[p] = "mkdir"
  /\ staging' = IF staging = NoDir THEN EmptyDir ELSE staging
  /\ left' = [left EXCEPT ![p] = Files]
  /\ Goto(p, "write")
  /\ UNCHANGED <<target, answer, intact, faulty>>

\* Wrong variant: mkdir inside the try, whose catch removes the directory.
MakeStagingGuarded(p) ==
  /\ pc[p] = "mkdir"
  /\ IF staging # NoDir
     THEN Goto(p, "cleanup") /\ UNCHANGED <<staging, left>>
     ELSE /\ staging' = EmptyDir
          /\ left' = [left EXCEPT ![p] = Files]
          /\ Goto(p, "write")
  /\ UNCHANGED <<target, answer, intact, faulty>>

\* mkdir(staging) is exclusive; its EEXIST is thrown before the try.
MakeStaging(p) ==
  /\ pc[p] = "mkdir"
  /\ IF staging # NoDir
     THEN End(p, "EXISTS") /\ UNCHANGED <<staging, left>>
     ELSE /\ staging' = EmptyDir
          /\ left' = [left EXCEPT ![p] = Files]
          /\ Goto(p, "write")
          /\ UNCHANGED answer
  /\ UNCHANGED <<target, intact, faulty>>

\* The parent directories are made again if need be, { recursive: true }, the
\* file itself is created exclusively, 'wx'.
WriteFile(p) ==
  LET dir == IF staging = NoDir THEN EmptyDir ELSE staging IN
  \E f \in left[p] \ dir.files :
    /\ pc[p] = "write"
    /\ staging' = [dir EXCEPT !.files = @ \union {f}]
    /\ left' = [left EXCEPT ![p] = @ \ {f}]
    /\ Goto(p, IF left[p] = {f} THEN "receipt" ELSE "write")
    /\ UNCHANGED <<target, answer, intact, faulty>>

WriteReceipt(p) ==
  /\ pc[p] = "receipt"
  /\ staging # NoDir /\ staging.receipt = NoReceipt
  /\ staging' = [staging EXCEPT !.receipt = p]
  /\ Goto(p, "rename")
  /\ UNCHANGED <<target, left, answer, intact, faulty>>

\* Wrong variant: removes a finished publication to make way for its own.
RenameOver(p) ==
  /\ pc[p] = "rename"
  /\ staging # NoDir
  /\ target' = staging /\ staging' = NoDir
  /\ Goto(p, "verify")
  /\ UNCHANGED <<left, answer, intact, faulty>>

\* rename() replaces no directory that has files (ENOTEMPTY).
Rename(p) ==
  /\ pc[p] = "rename"
  /\ IF staging = NoDir \/ target # NoDir
     THEN Goto(p, "cleanup") /\ UNCHANGED <<target, staging>>
     ELSE /\ target' = staging /\ staging' = NoDir
          /\ Goto(p, "verify")
  /\ UNCHANGED <<left, answer, intact, faulty>>

\* rm(staging, { recursive: true, force: true }), then the error is rethrown.
CleanUp(p) ==
  /\ pc[p] = "cleanup"
  /\ staging' = NoDir
  /\ End(p, "FAILED")
  /\ UNCHANGED <<target, left, intact, faulty>>

\* verifyPublishedK6ApiSourceBundle.  Files only ever drift away, so its reads
\* accept exactly what was whole at the first of them.
Verify(p) ==
  /\ pc[p] = "verify"
  /\ End(p, IF Whole(target) THEN target.receipt ELSE "DRIFT")
  /\ UNCHANGED <<target, staging, left, intact, faulty>>

-----------------------------------------------------------------------------
(* What the file system and the operating system may do.                   *)

\* A write, or the rename, fails: the disk is full, an I/O error.
Fails(p) ==
  /\ pc[p] \in {"write", "receipt", "rename"}
  /\ Goto(p, "cleanup")
  /\ faulty' = TRUE
  /\ UNCHANGED <<target, staging, left, answer, intact>>

\* Looking, or making the staging directory, fails: outside the try.
Refused(p) ==
  /\ pc[p] \in {"stat_target", "stat_staging", "mkdir", "verify"}
  /\ End(p, "REFUSED")
  /\ faulty' = TRUE
  /\ UNCHANGED <<target, staging, left, intact>>

\* The removal fails half-way, and its error replaces the first.
CleanUpFails(p) ==
  /\ pc[p] = "cleanup"
  /\ staging # NoDir
  /\ \E kept \in SUBSET staging.files : staging' = [staging EXCEPT !.files = kept]
  /\ End(p, "FAILED")
  /\ faulty' = TRUE
  /\ UNCHANGED <<target, left, intact>>

\* The process dies; another call of p is made by its successor.
Crash(p) ==
  /\ pc[p] # "idle"
  /\ End(p, "CRASHED")
  /\ faulty' = TRUE
  /\ UNCHANGED <<target, staging, left, intact>>

\* A published file is changed or lost behind the store's back.
Drift ==
  /\ target # NoDir
  /\ \E f \in target.files : target' = [target EXCEPT !.files = @ \ {f}]
  /\ UNCHANGED <<staging, pc, left, answer, intact, faulty>>

Step(p) ==
  \/ StatTarget(p) \/ StatStaging(p) \/ MakeStaging(p)
  \/ WriteFile(p) \/ WriteReceipt(p) \/ Rename(p) \/ CleanUp(p)
  \/ Verify(p)

StoreNext ==
  \/ \E p \in Publishers :
       Publish(p) \/ Step(p) \/ Refused(p) \/ Fails(p) \/ CleanUpFails(p) \/ Crash(p)
  \/ Drift

StoreSpec == StoreInit /\ [][StoreNext]_storeVars

\* Every file-system call a publisher awaits returns; nobody has to publish.
FairStoreSpec == StoreSpec /\ \A p \in Publishers : WF_storeVars(Step(p))

-----------------------------------------------------------------------------
(* Properties.                                                             *)

StoreTypeOK ==
  /\ target \in Dir \union {NoDir}
  /\ staging \in Dir \union {NoDir}
  /\ pc \in [Publishers -> PCs]
  /\ left \in [Publishers -> SUBSET Files]
  /\ answer \in [Publishers -> Publishers \union Errors \union {"none"}]
  /\ intact \in [Publishers -> BOOLEAN]
  /\ faulty \in BOOLEAN

\* The publishers between mkdir(staging) and the end of the try.
Writing(p) == pc[p] \in {"write", "receipt", "rename", "cleanup"}

\* m3-r2-p4-source-bundle-threat-model.md:15, "Partial publication": whatever
\* fails, dies or runs beside it, what appears at <digest> is the whole bundle
\* with the receipt of one publisher.
PublishedWhole == [][target = NoDir /\ target' # NoDir => Whole(target')]_storeVars

\* Concurrent and later publishers are all given the same, first receipt.
OneReceipt ==
  \A p, q \in Publishers :
    answer[p] \in Publishers /\ answer[q] \in Publishers => answer[p] = answer[q]

\* m3-r2-p4 acceptance matrix:10, "Republishing an identical digest returns the
\* first receipt": a call on a published bundle fails only if it dies, cannot read
\* or finds it drifted, whatever a crashed publisher has left beside it.
RepublishReturnsReceipt ==
  \A p \in Publishers :
    intact[p] => answer[p] \in Publishers \union {"none", "CRASHED", "DRIFT", "REFUSED"}

\* Nobody is locked out by a publication that ended: unless something broke,
\* the staging directory belongs to a publisher that is at work, and to one only.
StagingOwned ==
  /\ staging # NoDir /\ ~ faulty => \E p \in Publishers : Writing(p)
  /\ \A p, q \in Publishers : Writing(p) /\ Writing(q) => p = q

\* Publishers that get in each other's way do not all fail: once somebody
\* publishes, the bundle is published, unless something broke.
SomebodyPublishes ==
  (\E p \in Publishers : pc[p] # "idle") ~> (target # NoDir \/ faulty)
=============================================================================
