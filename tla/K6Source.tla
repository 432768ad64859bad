------------------------------ MODULE K6Source ------------------------------
(***************************************************************************)
(* The half of packages/k6-api-adapter that leads from an execution        *)
(* request to the published source of a k6 script: compiler, source        *)
(* contract, renderer, artifact, static validation and publication.  What  *)
(* the documents say is in the module PlanToSource; here it is which       *)
(* documents they are made from.                                           *)
(***************************************************************************)
EXTENDS ExecutionContract

\* Wrong variant: the snapshot of the request is taken on trust.
PlanBoundOnly(p) == Names(p, "request", {"plan"})

\* validateCompilerBindings: the request is about this frozen plan.
CompilerBindings(p) ==
  /\ Names(p, "request", {"plan"})
  /\ Agree(p, "plan", "request", {"snapshot"})

\* compileK6ApiExecutionSpec returns three documents at once.
Compile ==
  /\ Due("spec")
  /\ "result" \notin Made
  /\ \E p \in Presented({"descriptor", "request", "plan"}) :
       LET inputs == ToAndFrom(p, {"descriptor", "request", "plan"},
                               "request", {"snapshot", "environment"})
           spec == Content(inputs, "none")
           specDigest == Digest("spec", spec)
           package == Content([spec |-> specDigest], "none")
           compiled == [spec |-> specDigest, package |-> Digest("package", package)]
       IN /\ ValidRequest(p)
          /\ Intact(p, {"plan"})
          /\ CompilerBindings(p)
          /\ Add([ spec |-> spec, package |-> package,
                   compilation |-> Content(Merged(inputs, compiled), "none") ])

\* validateCompilationBindings: one compilation made all three; its contract
\* digest covers descriptor and request.
OneCompilation(p) ==
  /\ Intact(p, {"spec", "package", "compilation"})
  /\ Names(p, "package", {"spec"})
  /\ Names(p, "compilation", {"spec", "package"})
  /\ Agree(p, "compilation", "spec", Binds["spec"])

CreateSourceRequest ==
  /\ Due("sourceRequest")
  /\ \E p \in Presented({"spec", "package", "compilation"}) :
       /\ OneCompilation(p)
       /\ Make("sourceRequest",
               ToAndFrom(p, {"spec", "package", "compilation"},
                         "spec", {"plan", "snapshot", "environment"}),
               Own("sourceRequest"))

\* validateK6ApiSourceGenerationRequest.
ValidSourceRequest(p) ==
  /\ OneCompilation(p)
  /\ Intact(p, {"sourceRequest"})
  /\ Names(p, "sourceRequest", {"spec", "package", "compilation"})
  /\ Agree(p, "sourceRequest", "spec", {"plan", "snapshot", "environment"})

RenderSource ==
  /\ Due("source")
  /\ \E p \in Presented({"sourceRequest", "spec", "package", "compilation"}) :
       /\ ValidSourceRequest(p)
       /\ Make("source", To(p, Binds["source"]), "none")

\* The acceptance tooling records the source result, and later the artifact.
RecordP2 ==
  /\ Due("p2")
  /\ LET p == [source |-> Document("source", {"source"}, "none")]
     IN Make("p2", ToAndFrom(p, {"source"}, "source", {"sourceRequest"}), "none")

\* validateP2Evidence and the integrity of the source result.
AcceptedSource(p) ==
  /\ Intact(p, {"p2", "source"})
  /\ Names(p, "p2", {"source"})
  /\ Agree(p, "p2", "source", {"sourceRequest"})

CreateArtifact ==
  /\ Due("artifact")
  /\ \E p \in Presented({"source", "p2"}) :
       /\ AcceptedSource(p)
       /\ Make("artifact", ToAndFrom(p, {"source", "p2"}, "source", Binds["source"]), "none")

\* validateK6ApiSourceArtifact.
ValidArtifact(p) ==
  /\ AcceptedSource(p)
  /\ Intact(p, {"artifact"})
  /\ Names(p, "artifact", {"source", "p2"})
  /\ Agree(p, "artifact", "source", Binds["source"])

CreateValidation ==
  /\ Due("validation")
  /\ \E p \in Presented({"artifact", "source", "p2"}) :
       /\ ValidArtifact(p)
       /\ Make("validation", ToAndFrom(p, {"artifact"}, "artifact", {"p2"}), "none")

\* The acceptance tooling records a validation with the artifact it is about, and
\* anchors the record.
RecordP3 ==
  /\ Due("p3")
  /\ LET p == [validation |-> Document("validation", {"validation"}, "none")]
         p3 == Content(ToAndFrom(p, {"validation"}, "validation", {"artifact"}), "none")
     IN Add([ p3 |-> p3,
              anchor |-> Content(Merged(p3.refs, [p3 |-> Digest("p3", p3)]), "none") ])

\* validateAcceptedP3Bindings: the objects are those the trust anchor names.
AcceptedP3(p) ==
  /\ Intact(p, {"p3", "artifact", "validation"})
  /\ Names(p, "validation", {"artifact"})
  /\ Names(p, "p3", {"artifact", "validation"})
  /\ Names(p, "anchor", {"p3", "artifact", "validation"})

\* createProvenance: the digests a bundle repeats, of its own files and of what
\* its artifact was made from.
Provenance(p) ==
  ToAndFrom(p, {"artifact", "validation", "p3"}, "artifact", Binds["artifact"])

CreateBundle ==
  /\ Due("bundle")
  /\ \E p \in Presented({"artifact", "validation", "p3", "anchor"}) :
       /\ AcceptedP3(p)
       /\ Make("bundle", Provenance(p), "none")

\* validateBundleIntegrity: manifest and bundle are what their digests say, and
\* the files what the manifest says.
BundleIntegrity(p) == Intact(p, {"bundle"})

\* validateK6ApiSourcePublicationBundleIntegrity: the bundle carries its
\* artifact, validation and P3 evidence as files, and the anchor names them.
ValidBundle(p) ==
  /\ BundleIntegrity(p)
  /\ Agree(p, "anchor", "bundle", {"p3", "artifact", "validation"})

PublishBundle ==
  /\ Due("receipt")
  /\ \E p \in Presented({"bundle", "anchor"}) :
       /\ ValidBundle(p)
       /\ Make("receipt",
               ToAndFrom(p, {"bundle"}, "bundle", {"artifact", "validation", "p3"}),
               Own("receipt"))

\* validateK6ApiSourcePublicationReceipt.
ValidReceipt(p) ==
  /\ ValidBundle(p)
  /\ Intact(p, {"receipt"})
  /\ Names(p, "receipt", {"bundle"})
  /\ Agree(p, "receipt", "bundle", {"artifact", "validation", "p3"})

CreatePublication ==
  /\ Due("publication")
  /\ \E p \in Presented({"bundle", "receipt", "anchor"}) :
       /\ ValidReceipt(p)
       /\ Make("publication",
               ToAndFrom(p, {"bundle", "receipt"},
                         "bundle", {"artifact", "validation", "p3"}),
               "none")

\* validateK6ApiSourcePublicationEvidence.
ValidPublication(p) ==
  /\ ValidReceipt(p)
  /\ Intact(p, {"publication"})
  /\ Names(p, "publication", {"bundle", "receipt"})
  /\ Agree(p, "publication", "bundle", {"artifact", "validation", "p3"})

SourceNext ==
  \/ Compile
  \/ CreateSourceRequest \/ RenderSource \/ RecordP2
  \/ CreateArtifact \/ CreateValidation \/ RecordP3
  \/ CreateBundle \/ PublishBundle \/ CreatePublication
=============================================================================
