------------------------------ MODULE Documents ------------------------------
(***************************************************************************)
(* The documents that lead from a frozen test plan to the outcome of a k6  *)
(* process, and what packages/execution-contract and                       *)
(* packages/k6-api-adapter do to all of them: a document names the         *)
(* documents it was made from by their digests and is identified by its    *)
(* own.                                                                    *)
(*                                                                         *)
(* Two executions are told apart: an earlier one, of which every document  *)
(* is at hand, and the current one, which makes each document once.  A     *)
(* digest is "earlier" when the content is that of the earlier document of *)
(* the kind, and "current" otherwise.  A caller who keeps the documents of *)
(* both may hand a mixture of them to any operation, one of them damaged:  *)
(* its content is then the earlier one and its digest field the current    *)
(* one.                                                                    *)
(*                                                                         *)
(* Documents with one legal content (runtime policy, port, Node adapter    *)
(* and generator descriptors) are the same everywhere and left out.        *)
(* Identifiers are prefixes of digests and left out as well, and so are    *)
(* the fields that are constants of a document's schema.                   *)
(***************************************************************************)
EXTENDS Naturals, FiniteSets, Sequences, SequencesExt

CONSTANTS
  MaxDifferences,   \* in how many inputs the two executions may differ
  MaxStrays         \* how many documents of a mixture are of the other execution

ASSUME BoundsAssumption == MaxDifferences \in Nat /\ MaxStrays \in Nat

VARIABLES
  differs,   \* the kinds whose own content the current execution changes
  docs       \* the documents made by the current execution, by kind

documents == <<differs, docs>>

\* The kinds of documents and, for each, the kinds whose digests it stores.
Binds ==
  [ descriptor        |-> {},
    environment       |-> {},
    snapshot          |-> {},
    plan              |-> {"snapshot"},
    request           |-> {"descriptor", "plan", "snapshot", "environment"},
    result            |-> {"request", "descriptor"},
    executionEvidence |-> {"request", "result", "descriptor", "plan", "snapshot",
                           "environment"},
    spec              |-> {"descriptor", "request", "plan", "snapshot", "environment"},
    package           |-> {"spec"},
    compilation       |-> {"descriptor", "request", "plan", "snapshot", "environment",
                           "spec", "package"},
    sourceRequest     |-> {"spec", "package", "compilation", "plan", "snapshot",
                           "environment"},
    source            |-> {"sourceRequest", "spec", "package", "compilation"},
    p2                |-> {"source", "sourceRequest"},
    artifact          |-> {"source", "p2", "sourceRequest", "spec", "package", "compilation"},
    validation        |-> {"artifact", "p2"},
    p3                |-> {"artifact", "validation"},
    anchor            |-> {"p3", "artifact", "validation"},
    bundle            |-> {"artifact", "validation", "p3", "source", "p2", "sourceRequest",
                           "spec", "package", "compilation"},
    receipt           |-> {"bundle", "artifact", "validation", "p3"},
    publication       |-> {"bundle", "receipt", "artifact", "validation", "p3"},
    admission         |-> {"request", "environment", "plan", "snapshot", "descriptor",
                           "bundle", "artifact", "receipt", "publication", "spec",
                           "compilation"},
    invocation        |-> {"admission", "bundle"},
    admissionEvidence |-> {"admission", "invocation", "request", "bundle"},
    launch            |-> {"admission", "invocation", "admissionEvidence"},
    decision          |-> {"launch"},
    boundary          |-> {"admission", "invocation", "admissionEvidence", "launch",
                           "decision"},
    command           |-> {"admission", "invocation", "admissionEvidence", "launch",
                           "decision", "boundary", "bundle"},
    lifecycle         |-> {"command"},
    observation       |-> {"command", "lifecycle"},
    outcome           |-> {"command", "lifecycle", "observation"},
    runtimeEvidence   |-> {"admission", "invocation", "admissionEvidence", "launch",
                           "decision", "boundary", "command", "lifecycle", "observation",
                           "outcome"} ]

\* The kinds, each after those its documents are made from.
Order ==
  << "descriptor", "environment", "snapshot", "plan", "request", "result",
     "executionEvidence", "spec", "package", "compilation", "sourceRequest", "source",
     "p2", "artifact", "validation", "p3", "anchor", "bundle", "receipt", "publication",
     "admission", "invocation", "admissionEvidence", "launch", "decision", "boundary",
     "command", "lifecycle", "observation", "outcome", "runtimeEvidence" >>

Kinds == DOMAIN Binds

\* The kinds a document of a kind is made from, at any distance, kind by kind.
WithAncestors(of, k) == [of EXCEPT ![k] = Binds[k] \cup UNION {of[j] : j \in Binds[k]}]

AncestorsUpTo[n \in 0..Len(Order)] ==
  IF n = 0 THEN [k \in Kinds |-> {}] ELSE WithAncestors(AncestorsUpTo[n - 1], Order[n])

Ancestors == AncestorsUpTo[Len(Order)]

\* The kinds with content a caller chooses, besides the digests; the descriptor,
\* the environment, the snapshot and the plan come from other packages.
Given == {"environment", "snapshot", "plan"}
Inputs == Given \cup {"descriptor", "request", "sourceRequest", "receipt", "admission"}

-----------------------------------------------------------------------------
(* Digests and mixtures of documents. *)

EarlierResources ==
  [vus |-> 1, iterations |-> 1, duration |-> 1000, grace |-> 0, environment |-> {}, outputs |-> {}]

EarlierInvocation ==
  [ argv |-> [vus |-> 1, iterations |-> 1, duration |-> 1, grace |-> 0, summary |-> FALSE],
    environment |-> {} ]

EarlierCommand ==
  [timeout |-> 6000, grace |-> 0,
   argv |-> EarlierInvocation.argv, environment |-> EarlierInvocation.environment]

EarlierRun ==
  [ terminalState |-> "EXITED",
    events |-> <<"COMMAND_ACCEPTED", "PROCESS_SPAWNED", "PROCESS_EXITED">>,
    observations |-> {"processStartAttempted", "k6InvocationAttempted", "processStarted",
                      "processIdCreated", "exitObserved", "processTerminationConfirmed"} ]

EarlierResult == [state |-> "SUCCEEDED", history |-> <<"PENDING", "VALIDATED", "RUNNING", "SUCCEEDED">>]

EarlierOwn(k) ==
  CASE k = "admission" -> EarlierResources
    [] k \in {"invocation", "launch"} -> EarlierInvocation
    [] k = "command" -> EarlierCommand
    [] k = "lifecycle" -> EarlierRun
    [] k = "observation" -> "zero"
    [] k = "outcome" -> "SUCCEEDED"
    [] k = "result" -> EarlierResult
    [] k \in Inputs \ {"admission"} -> "earlier"
    [] OTHER -> "none"

Earlier(k) == [refs |-> [j \in Binds[k] |-> "earlier"], own |-> EarlierOwn(k)]

Made == DOMAIN docs

\* sha256 of a document without its digest field.
Digest(k, doc) == IF doc = Earlier(k) THEN "earlier" ELSE "current"

\* A document of a mixture: its content and the digest it claims.
Document(k, ofCurrent, damaged) ==
  LET doc == IF k \in ofCurrent \ {damaged} THEN docs[k] ELSE Earlier(k)
  IN [ refs |-> doc.refs, own |-> doc.own,
       digest |-> IF k \in ofCurrent THEN Digest(k, docs[k]) ELSE "earlier" ]

\* All documents of one execution but MaxStrays at most, a bound of the model, and
\* some of the current one: without any, the earlier execution would be repeated.
Mixed(kinds) ==
  {ofCurrent \in (SUBSET (kinds \cap Made)) \ {{}} :
      \/ Cardinality(ofCurrent) <= MaxStrays
      \/ Cardinality(kinds \ ofCurrent) <= MaxStrays}

\* Every mixture of documents of these kinds a caller may present.
Presented(kinds) ==
  {[k \in kinds |-> Document(k, ofCurrent, damaged)] :
      ofCurrent \in Mixed(kinds), damaged \in kinds \cup {"none"}}

\* The documents are what their digests say.
Intact(p, kinds) ==
  \A k \in kinds : p[k].digest = Digest(k, [refs |-> p[k].refs, own |-> p[k].own])

\* The document of kind k names the presented documents of the kinds js.
Names(p, k, js) == \A j \in js : p[k].refs[j] = p[j].digest

\* Two presented documents name the same documents of the kinds js.
Agree(p, k, i, js) == \A j \in js : p[k].refs[j] = p[i].refs[j]

\* Two functions as one; the first counts where both are defined.
Merged(f, g) == [x \in DOMAIN f \cup DOMAIN g |-> IF x \in DOMAIN f THEN f[x] ELSE g[x]]

\* References of a new document: to presented ones, and copied out of one.
To(p, js) == [j \in js |-> p[j].digest]
From(p, k, js) == [j \in js |-> p[k].refs[j]]
ToAndFrom(p, js, k, is) == Merged(To(p, js), From(p, k, is))

Content(refs, own) == [refs |-> refs, own |-> own]

\* A document that repeats the earlier one although it could differ: it is at hand
\* anyway, and making it again is left out as a bound of the model.
Repeats(k, doc) == doc = Earlier(k) /\ differs \cap ({k} \cup Ancestors[k]) # {}

\* The current execution makes these documents.
Add(new) == (\A k \in DOMAIN new : ~Repeats(k, new[k])) /\ docs' = Merged(new, docs)

Make(k, refs, own) == Add([j \in {k} |-> Content(refs, own)])

Own(k) == IF k \in differs THEN "current" ELSE EarlierOwn(k)

\* Each document is made once, after those it names: a bound of the model.
Due(k) == k \notin Made /\ Binds[k] \subseteq Made

\* The inputs of an execution are at hand when it starts.
InitDocuments ==
  /\ differs \in {S \in SUBSET Inputs : Cardinality(S) <= MaxDifferences}
  /\ docs = [ environment |-> Content(<<>>, Own("environment")),
              snapshot |-> Content(<<>>, Own("snapshot")),
              plan |-> Content([snapshot |-> IF "snapshot" \in differs THEN "current"
                                             ELSE "earlier"],
                               Own("plan")) ]

-----------------------------------------------------------------------------
(* What a document descends from. *)

\* The documents a digest stored for the kind j stands for, with their ancestors.
Stored(of, j, digest) ==
  IF digest = "current" THEN of[j] ELSE {<<i, "earlier">> : i \in {j} \cup Ancestors[j]}

WithLineage(of, k) ==
  IF k \notin Made THEN of
  ELSE [of EXCEPT ![k] = {<<k, Digest(k, docs[k])>>}
                           \cup UNION {Stored(of, j, docs[k].refs[j]) : j \in Binds[k]}]

LineageUpTo[n \in 0..Len(Order)] ==
  IF n = 0 THEN [k \in Kinds |-> {}] ELSE WithLineage(LineageUpTo[n - 1], Order[n])

\* For each document made, the documents it descends from, with itself.
Lineage == LineageUpTo[Len(Order)]
=============================================================================
