------------------------------ MODULE K6Runtime ------------------------------
(***************************************************************************)
(* The half of packages/k6-api-adapter that leads from published source to *)
(* the command of a k6 process: runtime-admission.js,                      *)
(* local-process-boundary.js and process-execution-contracts.js.           *)
(***************************************************************************)
EXTENDS K6Source

CONSTANT
  Resources   \* the resources an admission may ask for

\* createK6ApiRuntimePolicy: the one policy; durations in milliseconds.
Policy ==
  [ maxVus |-> 50, maxIterations |-> 10000, maxDuration |-> 900000, maxGrace |-> 30000,
    environment |-> {"K6_LOG_FORMAT", "K6_NO_COLOR"},
    outputs |-> {"k6-run-summary-json"} ]

\* boundedMilliseconds: only whole seconds can be written on k6's command line.
WholeSeconds(ms, least, most) == ms \in least..most /\ ms % 1000 = 0

\* normalizeAllowList, for lists without duplicates.
AllowListed(names, allowed) == names \subseteq allowed

\* normalizeResources.
Admissible(r) ==
  /\ r.vus \in 1..Policy.maxVus
  /\ r.iterations \in 1..Policy.maxIterations
  /\ WholeSeconds(r.duration, 1000, Policy.maxDuration)
  /\ WholeSeconds(r.grace, 0, Policy.maxGrace)
  /\ r.grace <= r.duration
  /\ AllowListed(r.environment, Policy.environment)
  /\ AllowListed(r.outputs, Policy.outputs)

\* The command line a plan is made of, its durations in seconds.
Argv(r) ==
  [ vus |-> r.vus, iterations |-> r.iterations,
    duration |-> r.duration \div 1000, grace |-> r.grace \div 1000,
    summary |-> "k6-run-summary-json" \in r.outputs ]

Invocation(r) == [argv |-> Argv(r), environment |-> r.environment]

\* fixedEnvironmentValues: the adapter owns a value for each of these names.
FixedValues == [K6_LOG_FORMAT |-> "json", K6_NO_COLOR |-> "true"]

StartupAllowance == 5000

\* createK6ProcessExecutionCommand: the launch's command line and names, with the
\* times of the admission it was launched for.
CommandOf(launch, resources) ==
  [ argv |-> launch.argv, environment |-> launch.environment,
    timeout |-> resources.duration + resources.grace + StartupAllowance,
    grace |-> resources.grace ]

\* validateFixedInvocationArgv: the numbers are read back from the command line,
\* which does not say again that the grace period is within the duration.
ReadableArgv(argv) ==
  /\ argv.vus \in 1..Policy.maxVus
  /\ argv.iterations \in 1..Policy.maxIterations
  /\ argv.duration \in 1..(Policy.maxDuration \div 1000)
  /\ argv.grace \in 0..(Policy.maxGrace \div 1000)

\* validateCommandSelfConsistency: the times are those of the command line.
CommandConsistent(own) ==
  /\ ReadableArgv(own.argv)
  /\ own.timeout = own.argv.duration * 1000 + own.argv.grace * 1000 + StartupAllowance
  /\ own.grace = own.argv.grace * 1000
  /\ own.environment \subseteq DOMAIN FixedValues

\* Wrong variant: only the compilation is held against the request.
RequestOfCompilation(p) == Names(p, "compilation", {"request", "spec"})

\* validateExecutionSourceBindings: request, spec, compilation and bundle
\* belong together.
SourceOfRequest(p) ==
  LET context == {"environment", "plan", "snapshot", "descriptor"}
  IN /\ Agree(p, "spec", "request", context)
     /\ Names(p, "compilation", {"request", "spec"})
     /\ Agree(p, "compilation", "request", context)
     /\ Names(p, "bundle", {"spec", "compilation"})

CreateAdmission ==
  /\ Due("admission")
  /\ \E p \in Presented({"request", "spec", "compilation", "bundle", "receipt",
                         "publication", "anchor"}) :
     \E resources \in IF "admission" \in differs THEN Resources ELSE {EarlierResources} :
       /\ Intact(p, {"spec", "compilation"})
       /\ ValidPublication(p)
       /\ SourceOfRequest(p)
       /\ Admissible(resources)
       /\ Make("admission",
               Merged(
                 ToAndFrom(p, {"request", "bundle", "receipt", "publication", "spec",
                               "compilation"},
                           "request", {"environment", "plan", "snapshot", "descriptor"}),
                 From(p, "bundle", {"artifact"})),
               resources)

CreateInvocation ==
  /\ Due("invocation")
  /\ \E p \in Presented({"admission"}) :
       /\ Intact(p, {"admission"})
       /\ Make("invocation", ToAndFrom(p, {"admission"}, "admission", {"bundle"}),
               Invocation(p["admission"].own))

\* validatePlanSelfConsistency: an invocation is what its digest says; its command
\* line is only held against the resources once it is launched.
PlanIntact(p) == Intact(p, {"invocation"})

CreateAdmissionEvidence ==
  /\ Due("admissionEvidence")
  /\ \E p \in Presented({"admission", "invocation"}) :
       /\ Intact(p, {"admission"})
       /\ PlanIntact(p)
       /\ Names(p, "invocation", {"admission"})
       /\ Make("admissionEvidence",
               ToAndFrom(p, {"admission", "invocation"}, "admission", {"request", "bundle"}),
               "none")

RuntimeKinds == {"admission", "invocation", "admissionEvidence"}

\* validateAcceptedRuntimeBindings.
AcceptedRuntime(p) ==
  /\ Intact(p, RuntimeKinds)
  /\ Names(p, "invocation", {"admission"})
  /\ Agree(p, "invocation", "admission", {"bundle"})
  /\ p["invocation"].own = Invocation(p["admission"].own)
  /\ Names(p, "admissionEvidence", {"admission", "invocation"})
  /\ Agree(p, "admissionEvidence", "admission", {"request", "bundle"})

\* Of a launch specification itself only the names of its variables are checked.
LaunchConsistent(own) == own.environment \subseteq Policy.environment

ValidLaunch(p) ==
  /\ AcceptedRuntime(p)
  /\ Intact(p, {"launch"})
  /\ LaunchConsistent(p["launch"].own)
  /\ Names(p, "launch", RuntimeKinds)
  /\ p["launch"].own = p["invocation"].own

\* Wrong variant: a decision is accepted for any launch.
DecisionIntact(p) == Intact(p, {"decision"})

ValidDecision(p) == Intact(p, {"decision"}) /\ Names(p, "decision", {"launch"})

\* prepareK6LocalProcessLaunch makes three documents in one call: the launch, the
\* port's decision about it and the boundary evidence.  A port that throws or
\* answers for another launch leaves none.
PrepareLaunch ==
  /\ Due("launch")
  /\ \E p \in Presented(RuntimeKinds) :
       LET launch == Content(To(p, RuntimeKinds), p["invocation"].own)
           launchDigest == Digest("launch", launch)
           decision == Content([launch |-> launchDigest], "none")
           decided == [launch |-> launchDigest, decision |-> Digest("decision", decision)]
       IN /\ AcceptedRuntime(p)
          /\ LaunchConsistent(launch.own)
          /\ Add([ launch |-> launch, decision |-> decision,
                   boundary |-> Content(Merged(launch.refs, decided), "none") ])

LaunchKinds == Binds["boundary"] \cup {"boundary"}

\* validateAcceptedP1Bindings.
AcceptedBoundary(p) ==
  /\ ValidLaunch(p)
  /\ ValidDecision(p)
  /\ Intact(p, {"boundary"})
  /\ Names(p, "boundary", Binds["boundary"])

CreateCommand ==
  /\ Due("command")
  /\ \E p \in Presented(LaunchKinds) :
       LET own == CommandOf(p["launch"].own, p["admission"].own)
       IN /\ AcceptedBoundary(p)
          /\ CommandConsistent(own)
          /\ Make("command", ToAndFrom(p, LaunchKinds, "admission", {"bundle"}), own)

\* validateK6ProcessExecutionCommand.
ValidCommand(p) ==
  /\ AcceptedBoundary(p)
  /\ Intact(p, {"command"})
  /\ Names(p, "command", LaunchKinds)
  /\ Agree(p, "command", "admission", {"bundle"})
  /\ CommandConsistent(p["command"].own)
  /\ p["command"].own = CommandOf(p["launch"].own, p["admission"].own)

RuntimeNext ==
  CreateAdmission \/ CreateInvocation \/ CreateAdmissionEvidence \/ PrepareLaunch \/ CreateCommand
=============================================================================
