# A TLA+ verification of the knowledge-driven test platform

This directory holds TLA+ models of the platform, the TLC configurations that
check them and TLAPS proofs about them.  The code is the reference: every
definition names, in `PROJECT.json` under `map`, the lines it was translated from.
`packages/` and `apps/` below are relative to `src/`.

- [The system](#the-system)
- [Modules and how they correspond to the code](#modules-and-how-they-correspond-to-the-code)
- [Runs](#runs), [bounds](#bounds-and-why-they-are-enough), [fairness](#fairness)
- [Proofs](#proofs)
- [Where the code and its documents disagree](#where-the-code-and-its-documents-disagree)
- [Not modelled](#not-modelled) and [plan](#plan)

## The system

The platform keeps *knowledge* (business and test rules) under governance,
resolves it into snapshots, plans tests from them, keeps the *test plans* under
governance too, turns plans into k6 scripts and runs these.  It is a JavaScript
monorepo; nothing runs in parallel inside a process, but calls interleave at every
`await`, and several processes share one PostgreSQL database.

| Component | Packages | State | Operations | Hard behaviour |
|---|---|---|---|---|
| Knowledge registry and governance rules | `knowledge-registry`, `knowledge-governance` | records with revision, status, audit history; review decisions; snapshots | create, replace, submit, review, publish, deprecate, archive, persist a snapshot | an approval must count for the body that is published; separation of duties over edits and new reviews |
| Durable governance | `knowledge-registry-postgres`, `knowledge-governance-postgres` | the same in tables | the same as transactions; migrations | reads without locks, foreign-key locks, unique indexes, deadlocks, lost connections, two-query reads |
| Test plan registry and governance | `test-plan-registry`, `test-plan-governance` | plan records, decisions, exemptions | generate, edit, submit, review, approve, freeze | gates that look back one and two revisions |
| Durable planning orchestration | `test-planning-orchestration`, `test-plan-postgres` | the same in tables | idempotent generate and every governance command; migrations | concurrent generation of one input, retry after a duplicate |
| Read-only governance service | `apps/read-only-governance-service` | environment, schema, HTTP server, readiness, pool | configure, migrate, start, probe, stop | several processes migrating at once, signals at any moment of start, a drain with a deadline, checks in flight |
| HTTP boundary | `governance-http`, `governance-auth-oidc` | rate-limit windows, key cache, fetch in flight | limit, authenticate, refresh | eviction, shared and forced refresh, expiry while waiting |
| Project access | `project-membership(-postgres)` | projects, memberships | create, update, replace, authorize | rows and clock read apart, revocation between check and use |
| Queries | `governance-query`, `test-plan-query`, `test-plan-http` | none of their own | pages, details, coverage, timelines | lists that change between pages, records and decisions read in two transactions |
| Knowledge resolution | `knowledge-core` | none | resolve, build a snapshot | protections carried along a chain of layers |
| Planning | `test-capability`, `test-plan`, `test-planner` | none | match, derive, plan, validate | removing unmet dependencies pass by pass, cycles |
| k6 compilation | `k6-api-adapter`, `execution-contract` | none; documents that name each other by digest | request, compile, render, validate | the order of groups and operations; mixing documents of two executions |
| k6 execution | `k6-api-adapter` | one child process, four timers, event log | admit, command, spawn, cancel, time out, kill, settle, report | nested callbacks, late acknowledgements, kills that fail, documents validated before and after a wait |
| Source publication | `k6-api-adapter` | `<digest>` and `.staging-<digest>` under the store's root | publish, verify | concurrent publishers, a crash or an error between any two file-system calls |
| CLIs, scripts | `apps/*-cli`, `scripts` | files | read, print | none |

**Interactions.**  The governance service talks to a registry port, a decision
store port and an authorization port; a *unit of work* gives it both stores
inside one transaction.  The in-memory unit of work runs the callback without a
transaction; the PostgreSQL one runs it in a READ COMMITTED transaction on one
client.  Planning orchestration does the same for plans, with authorization
inside the transaction.  The read-only service migrates four schemas, warms the key
cache, and composes routing, rate limiting, authentication, authorization and queries
behind one HTTP server; all of these share one pool, which the service ends when it
stops.  The planner reads a snapshot and a capability catalog; its result is
what a plan record keeps; a frozen plan is bound by an execution request to an
environment and compiled to an operation program, a script and a published source
bundle; an admission lets one local process run it, whose lifecycle, outcome and
evidence are documents again.

**What makes each component correct.**

- Knowledge: what is published is exactly the body that was reviewed, not
  published by its author, backed for good by as many distinct approvals as its
  risk asks for; a request for changes always sends the record back; decisions
  are single, impartial and about a revision under review; nothing is stored that
  a later read would reject; snapshots are never replaced.
- Durable governance: whatever transactions read before they lock, the committed
  tables change only as the atomic rules allow, no update is lost, versions of an
  id only grow, only concurrent change requests deadlock, and every command ends.
- Plans: approved and frozen plans are the reviewed results under a gate that
  keeps passing; one plan per input however many requests race for it.
- Service: migrations of concurrent processes settle; no database is migrated for an
  environment that is refused; a handled signal ends in a closed server and an
  ended pool; the pool outlives connections; no port stays open after a failed start.
- Requests: served only to whom project and membership allow it during the request,
  with a key and a token that are current up to stated delays; newly published keys
  are accepted in time, without a fetch per request; limits hold; all are answered.
- Queries: a walk over pages misses and repeats nothing that stayed as it was.
- Resolution: later layers do not weaken earlier ones, except below a place where one
  of them puts something that is no object.
- Planning: the largest set of intents whose dependencies are met; a well-formed
  request is refused only for a cycle, for a malformed contract of a capability, or for
  a derived value that is of the wrong type or may not stand in an intent.
- Compilation: a script calls everything once, dependencies first, and which plans
  become a validated script is exactly known.
- Execution: every order of callbacks yields one record that its own evidence
  contract accepts, names the first cause, and is produced in the end; success is
  reported only of a process that ended by itself with code 0; no evidence joins
  documents of two executions.
- Source publication: a published directory is whole from the moment it appears, every
  publisher gets the first receipt, and publishers do not undo each other's work.

## Modules and how they correspond to the code

```
KnowledgeLifecycle            records, validation, policy (operators)
  KnowledgeGovernance         the service's commands, atomic         <- abstract specification
    KnowledgeGovernanceProofs
    KnowledgeSnapshots        snapshots beside them
      KnowledgeQueries        lists of both, a page at a time        (with Paging)
  GovernancePostgres          the commands, one SQL statement a step (refines KnowledgeGovernance)
    GovernancePostgresProofs
PlanLifecycle                 plan records, coverage gate (operators)
  TestPlanGovernance          plan commands, atomic                  <- abstract specification
    TestPlanGovernanceProofs
    PlanQueries               lists and timelines of plans           (with Paging)
      QueriesProofs           (of KnowledgeQueries too)
  PlanningPostgres            orchestrated commands as transactions  (refines TestPlanGovernance)
    PlanningPostgresProofs
Paging                        cursors over sorted lists (operators)
ServiceLifecycle, Migrations, ServiceConfig
  ServiceStart                the three composed: one service beside others
    ServiceProofs             (of ReadRequests too)
OidcAuthentication, ProjectAccess, GovernanceHttp
  ReadRequests                the three composed: a request through the read-only API
KnowledgeResolution <- PlanContracts <- TestPlanner <- K6Rendering
  PlanToSource                from layers of rules to a validated script
    PlanToSourceProofs
Documents <- ExecutionContract <- K6Source <- K6Runtime
ProcessLifecycle              one k6 process under the Node adapter
  K6Execution                 both: from a request to the evidence of a run
    K6ExecutionProofs         (of SourceBundlePublisher too)
SourceBundlePublisher         publication of a source bundle by renaming a staging directory
MC*.tla, *.cfg                small instances
```

**KnowledgeLifecycle** translates `lifecycle.js` and `policy.js` as operators on
records: what `createKnowledgeRecord`, `replaceDraftRecord` and
`transitionKnowledgeRecord` require and return, what `validateRegistryRecord`
checks, and who may submit, review and publish.  A body is a model value with a
risk (`RiskOf`) and the project it is bound to (`ScopeOf`, or `Unbound`); content
digests and schema validation are abstracted into that.  An audit event carries
type, statuses, actor and time.

**KnowledgeGovernance** has one action per command of
`KnowledgeGovernanceService`, with its authorization, project binding, policy and
the store's checks as guards; a command that fails changes nothing and is no
step.  `contentLog` is a ghost: the body each revision had, which the records do
not keep.  Clients send the revision they see as `expectedRevision`, since any
other value is rejected by the first comparison; `decisionId` is omitted because a
decision is already identified by project, key, revision and reviewer, for which
the store keeps its own uniqueness.

**GovernancePostgres** runs each command as a session: the visible read and the
authorization outside the transaction, then its statements in order
(`ReadRow`, `ReadHistory`, `InsertDecision`, `ForeignKeyShare`, `CollectEvidence`,
`LockAndWrite`, `LockId`, `InsertRecord`, `Commit`).  The session keeps what it has
read and what it has written and not committed; locks, the unique index a second
insert waits on, the deadlock detector and a lost connection are external and
modelled as the statements rely on them.  The refinement mapping is the identity on
the committed tables: every `Commit` is one command of `KnowledgeGovernance`, every
other step stutters.

**KnowledgeSnapshots** and **KnowledgeQueries** put `persistSnapshot` and the two
lists of `governance-query` beside the commands.  A list is sorted, cut behind the
cursor's item and filtered as `cursor.js` does; **Paging** keeps for each walk what
it has shown and which entries stayed as they were, which is what `PagesComplete`
speaks of.  **PlanQueries** does the same for plans, and reads a timeline as the code
does: the record in one transaction, its decisions in a second.

**PlanLifecycle**, **TestPlanGovernance** and **PlanningPostgres** correspond to the
plan packages as the knowledge modules to theirs.  A plan is named by its input
fingerprint; a planning result (`Contents`) has an author, a creation time and
coverage obligations.  `Freeze` takes the set of decisions it has seen as a
parameter, because the code lists them without a lock: it may miss decisions that are
recorded late, never ones the approval rested on.  `generate` is modelled with its
look-up, its insert that waits for a twin, its duplicate error and its second
transaction.

**ServiceConfig** translates `config.js` variable by variable (a blank number reads
as 0, as `Number` does) and, separately, what the constructors the service is
composed of ask of the result: `Composable` is stronger, since only they measure the
length of URLs.  **Migrations** has one action per statement of a runner: take the
advisory lock, create the schema, compare a file's checksum, apply it, commit, lose the
connection.  The four runners are copies of one procedure, told apart by a record.
**ServiceLifecycle** follows `main.js`, `service.js` and `readiness.js` between their
`await`s: `main`'s progress, the phases of `performStop`, the shared readiness check
in flight, open connections, the pool and one probe.  `HostIsName` says whether
`listen()` has to resolve a name first, which is when a signal can be handled before
`listening`.  **ServiceStart** composes the three: the service may listen only after its
environment is loaded, its schemas are migrated and its parts constructed, while
processes of other releases migrate the same schemas, die and are replaced.

**OidcAuthentication** has `RemoteJwksProvider`: the cache, the one fetch in flight, its
deadline and its failures, against an identity provider that publishes and withdraws
keys; and it says which tokens `oidc-authentication.js`, `jwt.js` and the subject mapper
accept before and after the key is known.  **ProjectAccess** has the administrators'
commands on a project and a membership and the decision of
`evaluateProjectAuthorization`.  **GovernanceHttp** has the limiter's `consume` as an
operator on its map, a sequence because ties of `evictIfNeeded` are resolved by
insertion, and what a routed request asks for.  **ReadRequests** composes
them: an action is what runs without waiting, and requests wait for the shared fetch,
for one of the pool's clients and for PostgreSQL.  The authorization statement sees
project and membership at once and compares them with a clock read before; `granted`
is auxiliary and says whether both allowed the request at some moment since it came.

**KnowledgeResolution** (`resolver.js`, `snapshot.js`), **PlanContracts**
(`test-capability`, the validators and constructors of `test-plan`), **TestPlanner**
(`planner.js`, `strategy.js`, `graphs.js`) and **K6Rendering** (compiler, renderer,
static validator of `k6-api-adapter`) are operators; an answer is a record with
`ok`.  An identity is the record of the fields its hash covers, so equal digests mean
equal fields.  The value of a rule, which may be any JSON value, is given by its leaves: a
function on the paths (tuples of field names) of the values in it that are no objects and
of the objects without a field; a value that is itself no object has the one path
`<< >>`.  `deepMerge` merges objects field by field and replaces everything else, at
the top as deep down: `Written` are the leaves the override puts in, and what they meet of
the base is gone.  `MCPlanToSource` writes `deepMerge` once more, recursive as it is in the
code, and `DeepMergeAsWritten` compares the two on all pairs of its values.  What a leaf
holds is a set of items: a text that is a secret, a field named like one, a field named
like a script, something of a type the contract does not ask for, an empty object; which
document is looked at for which of them is as in the code.  A contract is the list of its
fields, whose names may be missing: the catalog does not look at them, the strategy does.
A target has its own fields (`own`, the locator among them) besides its attributes, and a
field is derived from the attributes, the target, the rule, in this order.
**PlanToSource** chains them: each step is one call, and what one answers is what the
next is given.

**Documents** gives every kind of document of an execution its lineage: which documents
it names and which of these names are compared with which.  **ExecutionContract**,
**K6Source** and **K6Runtime** say, operation by operation, what is compared and what is
not; **K6Execution** prepares the documents in order while mixtures with those of an
earlier execution, one of them damaged, are presented to every operation, runs
**ProcessLifecycle**, and then makes observation, outcome and evidence from what the
caller's objects hold *after* the run.

**ProcessLifecycle** keeps the closure variables of `runNodeProcessLifecycle` in one
record and each callback as an operator on it, because `child.kill` may emit
`'error'` synchronously and run `onError` inside `sendForceKill`.  Timers fire in any
order.  A child whose start was never announced exits only after SIGKILL was
requested, as Node announces a start before anything else and as the repository's
tests drive it.  `ValidEvidence` translates the validation of
`process-lifecycle-evidence.js`.

**SourceBundlePublisher** has one action per awaited file-system call of
`publishK6ApiSourceBundle` and any number of publishers of one bundle.  What a file
holds follows from its path, so a directory is the set of files it has and whose
receipt.  `mkdir` without `recursive` and the `wx` writes are exclusive, `rename` does
not replace a directory with files; a failing call goes to the code's `catch` (`Fails`)
or past it (`Refused`), a process dies anywhere (`Crash`), published files get lost
(`Drift`).  `Verify` stands for all reads of the verification: since files only get
lost, it can only accept what was whole when it began.  `intact` and `faulty` are
auxiliary, for the properties.

Definitions commented *Wrong variant* are plausible bugs; no specification uses
them.  `PROJECT.json` says which definition each replaces and which property then
fails.

## Runs

| Run | Asks | Result |
|---|---|---|
| `governance_rules` | do the atomic rules keep publications approved and records valid, and are walks over the lists of knowledge and snapshots complete? | holds |
| `governance_postgres` | do two concurrent sessions with every command implement the atomic rules, and what can deadlock? | holds; only REQUEST_CHANGES decisions deadlock |
| `commands_finish` | does every command commit or roll back? | holds |
| `plan_rules` | are approved and frozen plans the reviewed ones under a lasting gate, walks complete, and timelines backed by the decisions they imply? | holds |
| `plan_postgres` | do concurrent orchestrated commands implement plan governance, and does the loser of a race to generate find the plan? | holds |
| `service_lifecycle` | environment, migrations of several releases at once, start and shutdown with a numeric host | holds |
| `read_requests` | who is served and refused while keys, tokens, memberships and time move on, is everyone answered, and is a client ever admitted too often because others' requests evict its window? | holds |
| `plan_to_source` | what do resolution, planning and rendering keep, and what do they refuse? | holds |
| `k6_execution` | are documents of two executions ever mixed, does what is reported agree with itself and the exit code, and does the call end? | holds |
| `source_publication` | is what appears in the store whole, and does one of several publishers succeed? | holds |
| `reviewer_freezes`, `stop_while_binding` | a statement of the documents or of a message | violated, see below |

`CHECK_DEADLOCK FALSE` is set, except for `source_publication`, because these systems
stop in every instance: records reach `MaxRevision` or a terminal status, a service
has stopped, a process has ended, time is at its bound, a chain of calls is done.
That no *session* or *request* waits forever is checked by `CommandsFinish`,
`DeadlocksOnlyAmongChangeRequests` and `RequestsAnswered` instead.

`plan_to_source` has no interleaving: it is exhaustive over its inputs, and its
properties relate the answers to definitions that share nothing with the algorithm (the
union of all self-supporting sets instead of passes, the absence of circles instead of a
depth-first search).

## Bounds and why they are enough

- `MaxRevision` bounds the revisions of a record.  5 lets knowledge go create,
  submit, back to draft or edit, submit, publish, or up to archive in the
  PostgreSQL run; 6 lets a plan be edited or returned and go through review,
  approval and freeze again, with decisions of two reviews; 4 is just enough to freeze
  a plan, statement by statement.
- Three actors: an author and two reviewers, the most any risk needs
  (`DEFAULT_REQUIRED_APPROVALS`); a fourth only freezes plans.
- Two projects and a body bound to none let decisions of one project meet
  publications of another; two times let an audit timestamp be equal or later.  In the
  PostgreSQL runs one time is enough since time orders nothing there.
- Two sessions are enough for every pairwise interleaving and for a deadlock.
  `MCTwoVersions` lets them create two versions at once, and explores one version's
  whole life otherwise.
- `MCSmall` in the two rules runs keeps several records, snapshots and walks to short
  histories, and long histories of several actors to one record without a walk: a
  list sees an entry only by its sort fields.  States beyond a constraint are checked
  but not expanded.
- `Grants` gives everybody everything in `governance_rules`, so the rules alone keep
  the roles apart, and roles of author and reviewers in the larger runs, where the
  policy is not the question.
- `service_lifecycle` has two processes and four releases (the current one, one with a
  further file, one with an edited file, one with a misnamed one), and environments
  that differ from a good one in one value: every number at and next to its bounds, at
  0 and not a number, each URL short, long, with a query and malformed, each list
  empty or with a duplicate.  `MaxConnections` is 2: one connection ends within the
  drain, one does not.
- `read_requests` has one pool client, two windows remembered with one request admitted
  in each, two keys, one rotation and a clock of six units: time to live 4, minimum
  interval 2, fetch deadline 1, window 3.  The smallest values for which a cache expires, a
  key is withdrawn while cached, a second refresh is refused as too early and a window of
  the limiter ends while a request waits.  `Comes` bounds who sends requests: either two
  clients send two, which meet everything that may happen meanwhile; or three others send
  up to five, in every order, over two windows of the limiter (`MCQuiet`: keys and records
  stay as they are, and these requests are refused as soon as the limiter admitted them,
  since only what it counts matters).  Three clients are one more than the windows
  remembered, and five requests the fewest with which the windows of one period are
  evicted in the next by a client that is new, one that came early or late, and one that
  comes again before and after the eviction.
- `plan_to_source`: chains of up to four of the five levels with every enforcement,
  policy and intent that meet there (27,000 of them), merges along chains of three and
  four rules of values that are objects in objects, lists or texts in place of them,
  empty and no objects at all, and what resolution refuses; 3,211 dependency structures
  over six candidates, one of which cannot be derived; contracts with every subset of
  the optional fields and every kind of spoilt value from the rule, the attributes and
  the target itself; contracts with a nameless field in each place, behind and before a
  field that is missing, of capabilities that are disabled, exempted or not asked for;
  exemptions against five catalogs; requests that are malformed; both orders of
  operations and all orders of groups. `Limits` are the code's limits made small, so
  that they are met and exceeded.
- `k6_execution`: one earlier execution, at most one document that differs and one that
  is damaged at a time (`MaxDifferences`, `MaxStrays`); a second difference would have
  to be missed by a comparison that the first does not meet.  A run of the process
  itself is finite and explored whole.
- Two publishers and two files: one publisher is overtaken at every call, and a
  directory can be partly written.  They call again and again, so a third is one of
  the two in a later call; the proofs cover any number.
- Symmetry permutes reviewers with the same grants, and sessions; runs with a liveness
  property use none.

## Fairness

- `GovernancePostgres!Fairness`: a statement that waits for nobody runs (weak: the
  database answers or the connection fails); a lock or unique-index wait is granted if
  it becomes free again and again (strong: PostgreSQL queues waiters); a standing
  cycle is broken (weak: the deadlock detector).  Clients need not call, connections
  need not fail.
- `ServiceStart!StartSpec`: the event loop runs what is due, including the drain and
  check timeouts (`settleWithin`).  Requests need not end, signals need not come, other
  processes may stop anywhere.
- `ReadRequests!Fairness`: this process goes on and time passes: a pending fetch is
  aborted at its deadline (`AbortSignal.timeout`), a wait for a client ends by
  `connectionTimeoutMillis`, PostgreSQL answers a statement.  The identity provider,
  administrators and clients owe nothing.
- `K6Execution!FairnessExecution`: an armed timer fires and a settled promise resumes
  its call.  The process and the caller owe nothing.
- `SourceBundlePublisher!FairStoreSpec`: a file-system call that is awaited returns.
  Nobody has to publish, and nothing has to fail.

Timers fire on time (a tick does not pass a fetch's deadline), and recording an event
takes no time.  The second is an assumption about the caller: `safeRecord` awaits the
event sink without a deadline, and a sink that never answers would keep a refresh in
flight for good.

## Proofs

Eight modules prove theorems for every value of the constants, from the named
assumptions only.

| Module | Theorem | States |
|---|---|---|
| `KnowledgeGovernanceProofs` | `Invariance`, `TypeCorrect` | `Spec => []IInv`, `[]TypeOK` |
| | `RecordsStayValid`, `PublicationIsApproved` | `[]RecordsValid`, `[]PublishedOnApproval` |
| | `RequestedChangesReturnDraft`, `DecisionsAreSound` | `[]ChangesReturnDraft`, `[]DecisionsSound` |
| | `NothingIsRewritten` | `AppendOnly`: no step loses or changes a decision, an event or a revision |
| `GovernancePostgresProofs` | `Invariance`, `TypeCorrect` | `Spec => []Inv`, `[]TypeOK` |
| | `Implementation` | `GovernanceImplemented`: sessions implement `KnowledgeGovernance` |
| | `PublicationIsApproved`, `RecordsStayValid`, `NothingIsRewritten` | the promises of the atomic service, of the tables |
| | `OnlyChangeRequestsDeadlock` | `[]DeadlocksOnlyAmongChangeRequests` |
| `TestPlanGovernanceProofs` | `Invariance`, `TypeCorrect` | `Spec => []IInv`, `[]TypeOK` |
| | `PlansStayValid`, `ApprovalsHaveEvidence`, `FreezesWhatWasReviewed` | `[]PlansValid`, `[]ApprovedOnEvidence`, `[]FrozenAsReviewed` |
| | `DecisionsAreSound`, `NothingIsRewritten` | `[]DecisionsSound`, `AppendOnly` |
| `QueriesProofs` | `PlanPagesComplete`, `TimelinesShowEvidence` | `QueriesSpec => []PagesComplete` of the plans, `[]TimelineShowsEvidence` |
| | `KnowledgePagesComplete` | `K!QueriesSpec => []K!PagesComplete` of the knowledge and the snapshots |
| `PlanningPostgresProofs` | `Invariance`, `TypeCorrect` | `Spec => []Inv`, `[]TypeOK` |
| | `Implementation` | `PlanGovernanceImplemented`: sessions implement `TestPlanGovernance` |
| | `RetryAlwaysFinds`, `OnlyChangeRequestsDeadlock` | `[]RetryFindsPlan`; deadlocks as above |
| | `FreezesWhatWasReviewed`, `PlansStayValid`, `NothingIsRewritten` | the promises of the atomic service, of the tables |
| `ServiceProofs` | `LifecycleInvariance`, `NoPortIsLeftOpen`, `PoolOutlivesRequests`, `RevokedForGood` | with a numeric host: `[]LifecycleInv`, `[]NoOpenPortAfterFailure`, `[]PoolOutlivesConnections`, `StoppingIsFinal` |
| | `MigrationsInvariance`, `MigrationsAreSettled` | `[]StartInv`, `[]MigrationsSettle` |
| | `StartIsLifecycle` | `StartSpec => ServiceSpec`: a start is a life of the service |
| | `Invariance`, `GrantsAreRecent` | `[]Inv`, `[]GrantedDuringRequest` |
| | `FetchesAreSpaced`, `KeysAreCurrent`, `NewKeysAreAccepted` | `RefreshesSpaced`, `KeysCurrent`, `NewKeysAccepted` |
| | `LimiterInvariance`, `LimitsAreKept` | `[]LimitsInv`, `[]RateLimited` |
| `PlanToSourceProofs` | `PathAnswers` | `Spec => []PathInv` |
| | `ResolutionDoesNotWeaken`, `PlansAreLargest`, `RefusalsHaveCauses` | `[]LaterLayersDoNotWeaken`, `[]LargestSupportedPlan`, `[]RefusedForCause` |
| | `ScriptsCallInTurn`, `AcceptanceIsExact` | `[]DependenciesFirst`, `[]AcceptedExactly` |
| `K6ExecutionProofs` | `Invariance`, `TypeCorrect` | of a run alone: `Spec => []Inv`, `[]TypeOK` |
| | `EvidenceIsValid`, `NamesTheFirstCause`, `SettlesOnce` | `[]EvidenceValid`, `[]FirstCauseNamed`, `SettledOnce` |
| | `CallRunsTheLifecycle`, `CallsSettleOnce` | `SpecExecution => Spec`, and so these three of a call |
| | `ExecutionInvariance` | of a whole execution: `SpecExecution => []ExecutionInv` |
| | `ReportsAsRun`, `SucceedsCleanly`, `LineagesAreOne` | `[]ReportedAsRun`, `[]SuccessIsClean`, `[]OneLineage` |
| | `StoreInvariance`, `StoreTypeCorrect` | of the store: `StoreSpec => []StoreInv`, `[]StoreTypeOK` |
| | `StagingIsOwned`, `ReceiptsAgree`, `RepublicationIsIdempotent`, `PublicationIsAtomic` | `[]StagingOwned`, `[]OneReceipt`, `[]RepublishReturnsReceipt`, `PublishedWhole` |

### The atomic services

None of the properties is inductive alone.  For knowledge the invariant is

    IInv == TypeOK /\ RecordsValid /\ LogMatches /\ PublishedIsFinal
            /\ PublishedOnApproval /\ ChangesReturnDraft /\ DecisionsSound

`LogMatches` ties the ghost log to the record (as long as the history, last entry the
current body): without it an approval could not be related to the body it was given
for.  `PublishedIsFinal` says that a published body is never edited again; without it a
publication could be falsified by a later edit.  `PublishedOnApproval` then survives
later decisions because a decision is only added for the *current* revision of a record
in REVIEWING, while the approvals of a publication belong to an earlier one.

For plans it is `TypeOK /\ PlansValid /\ FrozenIsLast /\ ApprovedOnEvidence /\
DecisionsSound`.  An event of a plan keeps the content it was written with, so no ghost
is needed; `FrozenIsLast` says that nothing follows FROZEN.  `ApprovedOnEvidence` is kept
because the gate, once passed, is passed by more decisions too.  `FrozenAsReviewed`
follows: what a status may come from leaves one history before FROZEN, and the evidence of
its approval is that of the revision reviewed.

`AppendOnly` says what a reader of the audit trail relies on: records, histories and
decisions only grow, and a record does not change without a new revision.

### Queries beside them

A list is read anew for every page, and `WalkInv` says what the client may rely on
meanwhile: a plan that has stayed as it was since the walk began has been shown once if
it sorts no later than the last plan shown, and has not been shown otherwise (`Due`).
Governance cannot disturb this, for such a plan has not moved; a page keeps it because
the last plan shown is found where it was sorted or the walk is over, and because the
list holds every stored plan once, in a total order: ties are broken by plan id
(`PlansOrdered`, for every sort field and direction).  That a list that puts every plan
where its number of predecessors says *is* such a list is `RankedLists`, by counting.

The same lemmas about lists and pages serve the lists of knowledge and of snapshots.  The
plans' queries and theirs declare the same names, so the proofs see `KnowledgeQueries`
through an instance `K`, over constants and variables of their own; what that module
assumes of its constants is the hypothesis `Assumptions` of the theorem.  `ReadingInv` is
`WalkInv` for both lists.  It adds that the last snapshot shown is listed as it was, since
an envelope is stored once and never replaced (`SnapshotsSound`): its cursor cannot go
stale.  What the lists need of the records, that each has the event that created it, is
shown on the way (`RecordsSound`).

A timeline is read in two transactions, the record first.  `TimelineInv` says that the
record that was read is a past of the stored one, and adds to the invariant of governance
that whoever returned a plan to draft left the decision (`ReturnsDecided`).  Decisions are
never taken back, so those read later hold the evidence of every event of that past.

### The PostgreSQL transactions implement them

`P == INSTANCE KnowledgeGovernanceProofs` on the committed tables gives the invariant
and the lemmas of the atomic service; lemmas named `Same...` state that the rules a
session evaluates, the rules of `P` and the rules of the abstract specification `G` are
the same.  A command takes effect when it commits.  What has to be shown is that what it
was judged on *earlier*, without a lock, still allows it *then*:

    Inv == TypeOK /\ P!IInv /\ (\A s \in Sessions : Sound(s)) /\ OneDecision

`Sound(s)` says, statement by statement, what session `s` may still rely on: the record
it has read is the stored one or an older revision of it (`SeenSound`), whose history and
content are still in the stored history and log (`CheckedSound`); the evidence it was
judged on suffices unless the record has moved on (`EvidenceSound`), in which case the
write will be refused; its uncommitted decision is nobody else's
(`DecisionSound`, and `OneDecision` for the unique index); from the lock on it holds the
row or the id (`CreateSound`, `WriteSound`).  `UntouchedStaysSound` is the one argument
about interference: a session keeps all this through any step of others that the atomic
service allows, because the store only grows (`P!Grows`) and nobody touches its locks.
`CommitImplements` shows that a commit is one action of the service, and all other
statements leave the tables alone.  The properties of the atomic service then hold of
the tables.

For planning, `Sound` also says that a `generate` in its second transaction is about a
plan that exists, which is `RetryFindsPlan`; `Unique` is the unique index on plans.

Deadlocks: `HoldersKnown` says who may hold what (a row lock only a session about to
commit, an id only one that creates, a foreign-key share only a review between its
insert and its end).  So whoever is waited for *and* waits itself
(`HolderWaitsAtTheRow`) waits for a row lock while it holds a share: a REQUEST_CHANGES
decision.  In a minimal set of sessions that all wait for each other, of any size, every
session is one.

### Start, stop and migrations

`LifecycleInv` says where `main`, the server and the stop may stand together, and that
requests are in progress only on a started server and before the pool ends.  It is
inductive under `~ HostIsName`; with a host name it is false, as the run
`stop_while_binding` shows, so the three theorems have that hypothesis.

Migrations interfere through the tables.  `MigrationsInv` says what a process that
stands at a statement has recorded (`ProcessSound`), and that one transaction at a time
holds a schema's lock (`LockHeldOnce`).  `OthersKeep` is again the argument about
interference: rows are only added, and those of a schema only under its lock, so what a
process has seen within its transaction stays true until it commits, and the causes of a
failure stay causes.

### Requests

The invariant says of the key cache that it is the provider's answer to a fetch that
began at most `Timeout` before `lastRefreshAt`, and of a request at work that every
moment since its arrival at which project and membership allowed it has been noted in
`granted`; and that a request that waits for a fetch waits for one that began no later
than a fetch's length after the request looked its key up.  The bounds of `KeysCurrent`
and `NewKeysAccepted` are sums of these delays.  `NewKeysAreAccepted` assumes
`MinInterval > 0`: `minimumRefreshIntervalMs` may be 0 (the default is 1000), and a
request that joins a fetch at its deadline then meets the strict bound exactly.

`LimitsInv` says that the map has one state per credential, that every state belongs to a
credential that called in its window, and that a window in which no more credentials
called than are remembered has, for each of these, a state that counts its admitted
requests.  Such a window's states are never evicted: `evictIfNeeded` takes the state
untouched longest, so those of earlier windows go first, and by counting (the states of
the window are as many as its callers at most) one of those is left whenever the map is
too long.

### From knowledge to a plan

The path has no interleaving, so its invariant `PathInv` says what each stage holds: the
answer of its call for some layers or request that the constants allow, and from `Freeze`
on that the intents are finitely many, told apart, depend on each other only and do not
wait for each other (`Frozen`).  The work is in what the calls compute, for layers and
requests of any size.

Resolution, the passes over unmet dependencies, the topological order of the test plan,
the renderer's rounds and its sums are recursive functions.  They are reasoned about
without a theorem that takes a predicate: a set of numbers that holds 0 and with each
number the next is all of `Nat` (`Induction`, from the well-foundedness of `<` alone), and
a function that iterates a step exists (`RecursionExists`).

- `SoundUpTo` is the loop invariant of `resolveBoundary`: the rule in force upholds every
  rule heard so far, keeps the fields of those that may only be strengthened, or a later
  one is `Covered` by something that is no object (`MergeKeeps`, from what a merge does to
  one path), and after a denying rule nothing has changed it.  That the rules of a
  boundary stand in the order of their levels is again counting (`PlacesTaken`).
- A pass takes at least one candidate away or changes nothing, so as many passes as there
  are candidates reach a fixed point (`Settles`).  Support grows with the candidates
  (`SupportGrows`), so every self-supporting set survives every pass: the fixed point is
  the union of these sets (`LargestSupported`).
- The topological order leaves intents out exactly if some wait for each other
  (`AcyclicUnlessWaiting`, by the same counting), which for the planned intents is
  `Circle`.
- What planning refuses follows through the screening of an intent: a value it would not
  admit is a derived one of the wrong type, or stands in a field a rule describes
  (`SpecsPass`, `SpoiltByRule`); before that, a malformed contract ends it
  (`PreparableUnlessDerived`).  The validator of results recreates a plan from its own
  obligations; `PlanAccepted` shows that it finds the same plan.

### From a plan to a script

The operations of a script are a *list* of a set: each member once (`Lists`).

- Sorting a finite set by a rank lists it (`Sorted`, by counting the members before each);
  that an identifier or digest ranks is that no two are equal (`Ranked`).
- A round of `orderOperations` adds one operation that waits for none of the others left.
  As the group's operations do not wait for each other there is one in every round
  (`SomeReady`), so as many rounds as operations place them all (`OperationsOrdered`).
- `Forward` says that no operation waits for one of a later group; `validateDependencyGraph`
  accepts exactly that (`GraphByRank`).  Then group after group, the flattened lists stay in
  turn (`FlattenedLists`, by induction over the groups).
- The renderer adds thresholds up and the validator counts lines: an operation has as many
  lines as thresholds unless it bounds both rates (`NormalizedSays`), lines of different
  operations differ, and sums of such counts agree only if each count does
  (`AllowanceUsed`).

### An execution: the process, the documents

The k6 lifecycle's callbacks nest (`child.kill` may emit `'error'` within
`sendForceKill`), so its invariant is one on the *record* of the closure variables,
`RunSound`, which every operator keeps wherever it is called from: each event is logged
once and matches the observations; the reason is the first cause among the events; before
the run is settled no ending is logged, and a timer is armed only where its callback is
sound; a settled run's evidence is its log, in a terminal state that fits the reason.
Under a call the process takes the same steps (`CallRunsTheLifecycle`), so all this holds
of a call's run.

The invariant of an execution is

    ExecutionInv == Inv /\ call.state \in CallStates /\ Sound(docs)
                    /\ CallAtHand /\ ExitTied /\ RunLeft /\ HistoryKept

`OneLineage` speaks of the ancestors of a document, which no operation computes: each
compares a few digests of what it is handed.  `Sound(docs)` says instead that for each
document there is a set of documents, of either execution, that is *closed* under the
digests its members store and has *one version* of each kind.  Such sets can be built from
what an operation sees: a document that passes its integrity check is the one its digest
says (`Handed`); if two presented documents name a common one, or one names the other,
their sets may be followed from one to the other (`Within`, `NamedWithin`); and what is
made of documents within one closed set joins it (`Extended`).  For each of the operations
there is a lemma that what it validates puts everything it names within one such set.
The request, the result and the evidence of the contract are exempt for the snapshot
only: that the request's snapshot is the plan's is first asked by the compiler.  A
descent of 31 kinds is a recursive function with as many steps, which are taken one by
one, without induction; `Lineage` is then contained in every closed set
(`LineagesAreOne`).

`RunLeft` keeps what an answered call has made of its run, and of which bindings;
`ExitTied` ties the exit code to the way the process ended, from which `SuccessIsClean`
follows.  `MaxStrays`, `MaxDifferences` and the resources of the runs are arbitrary here.

### The store

Its invariant says who is at work on the staging directory (one publisher at
most, and the directory exists while it is), what that directory has, and that a receipt,
once published, stays the one all calls returned.

### Assumptions

They name what the code or PostgreSQL guarantees of the constants, and TLC evaluates
them in the runs: `StoreAssumption` and `SessionAssumption` (versions are numbers; the
values that stand for "none" are no values; finitely many actors), `RankAssumption`, `QueryAssumption` and `SnapshotAssumption` (no two
identifiers sort alike, queries have the fields of their list, releases are ordered),
`RunnerAssumption`
(the service migrates a schema after those it requires), `LayeringAssumption` and
`RequestAssumption` (lists are finite, a rule has the fields and a level of the schema, no leaf of its
value is below another, and a request carries the snapshot it is about), `DirectoryAssumption` (a
directory holds a file name once), `EnvironmentAssumption` (the kinds of values an
environment has), `PresentedAssumption` (a token that parses has a key id and a date,
`jwt.js:154`), `ClockAssumption`, `LimiterAssumption` and `ConfigurationAssumption` (the
constructors' range checks).

### Only model-checked

- Liveness: `CommandsFinish`, `ShutdownCompletes`, `RequestsAnswered`,
  `ExecutionAnswers`, `SomebodyPublishes`.  Temporal fairness and `ENABLED` are outside
  the prover.
- The parts of an invariant that a run would only repeat (`TypeOK`,
  `ChangesReturnDraft`, `DecisionsSound`, `StagingOwned`, `AppendOnly`) are proved and
  not spent a run on.

## Where the code and its documents disagree

Two are runs that end in a counterexample; `PROJECT.json` quotes the line.

- `reviewer_freezes`: an approver of the reviewed revision may freeze the plan, if the
  approval commits after the freeze has listed the decisions.
- `stop_while_binding`: with a host name, a signal before `listening` leaves the port
  open on an ended pool.

The models also contain the following behaviours, which no run is spent on.

*Governance*

- High-risk knowledge needs one approval in `policy.js` and its tests, two in
  `docs/04-governance/knowledge-governance.md:25`.
- Inside the unit of work the two queries of `get` (`ReadRow`, `ReadHistory`) are not
  one snapshot, as `docs/03-roadmap/m1-b-durable-registry.md:78` asks: a correct record
  may be rejected as invalid, and the command fails.
- Freezing excludes the approvers of the reviewed revision only; that the author does
  not freeze (`docs/05-adr/ADR-0019-revision-bound-plan-governance.md:15`) is left to
  the grants.
- `review` reads without a lock, so an APPROVE can be committed after the review it
  belongs to has ended (`governance-service.js:101` says "Only REVIEWING knowledge can
  receive a review decision").  It never lends a later revision an approval
  (`GovernanceImplemented` holds): it is evidence about a closed review.

*Queries*

- The timeline of a plan reads record and decisions in two transactions
  (`packages/test-plan-query/src/query-service.js:87`), while
  `docs/05-adr/ADR-0021-read-only-test-plan-queries.md:20` asks for one revision: it may show decisions of a
  later revision than the record's.
- The knowledge timeline orders the events of one instant by the text of their
  sequence numbers, so event 10 comes before event 9
  (`docs/03-roadmap/m1-e-read-only-query-api.md:85` asks for a stable order in time).
- A walk whose last entry was edited or moved must start again (`CURSOR_STALE`); walks
  over snapshots never do.

*Service*

- A readiness check in flight when stopping begins still answers its probes ready.
- A numeric variable of blanks reads as 0 instead of its default; where 0 is in range
  it is taken.  A URL of more than 2,048 characters is accepted by `loadServiceConfig`
  and refused by a constructor, after the database was migrated.
- An older release starts on a newer schema without a word, and a file numbered before
  applied ones is applied out of order.
- While the identity provider fails, every request with an unknown key starts a fetch:
  only successful ones are spaced.
- The claims of a token are compared with the clock before its key is awaited, and the
  clock of an authorization is read before its rows: both answers may be late by the
  wait, which `KeysCurrent` bounds for the first.
- The limiter counts per address and credential: a client with several credentials has
  as many windows.

*Resolution and planning*

- `enabled` says whether a rule is in force
  (`docs/01-architecture/knowledge-layering-and-resolution.md:19`); the planner plans
  for disabled rules as well.
- Two rules of one layer on one boundary are refused even with equal values, although
  the same document's section on conflicts within a layer speaks of different ones.
- Knowledge may describe a password policy: the names in its values are not looked at
  (`packages/test-plan/src/json.js:74`).  A field of such a rule that is derived into an
  intent is looked at (`planner.js:244`), outside the `try` that would make an
  unsupported obligation of it: the whole planning fails, as for a mistyped value.
- An exemption does not help where the capability is missing, disabled or incompatible:
  `assertCompatible` comes before `findExemption` (`planner.js:101`), while
  `docs/03-roadmap/m2-c-deterministic-planner.md:43` calls an obligation unplanned only
  if it has no exemption.
- A cycle of capabilities or a derived value of the wrong type fails the whole planning,
  not the intent.
- The catalog accepts a contract whose `fields` are no list or have no names
  (`packages/test-capability/src/validation.js:86`).  The strategy throws
  `INVALID_CAPABILITY_CONTRACT` when a candidate comes to such a field, which the handler
  at `planner.js:127` passes on: the whole planning fails.  Where a required field before
  it is missing, the candidate is an unsupported obligation instead and the contract goes
  unnoticed.
- A rule with the policy `strengthen` can lose fields: an override that says `strengthen` and holds null, a number, a text or a
  list where the rule has an object replaces it whole (`merge.js:9`).
  Nothing asks whether the new value is stronger.
- A planning result edited to drop an obligation, with its digest computed anew, is valid.

*k6*

- Whether a dependency between two groups can be rendered depends on the order of their
  digests, and dependencies both ways never can.
- The static validator refuses scripts the renderer makes: without a JSON assertion or
  without a threshold, with both rates, or with a keyword such as `async` within a path;
  `source-static-validator.test.js:24` calls its input the exact source result.
- An admission takes an execution request that is only compared through its compilation
  evidence, and does not compare the request's limits with the admitted resources; a
  request may name a snapshot or environment that only the compiler refuses.
- A SIGINT that fails with an `'error'` event settles a cancelled run as PROCESS_ERROR
  without SIGKILL, with the process still running.
- A publisher that loses the race to `mkdir` or `rename` gets the file system's error,
  not the receipt; it gets the receipt when it calls again.
- A publisher that dies leaves the staging directory, and every first publication of
  that bundle is BUSY until somebody removes it.

## Not modelled

- Text: canonical JSON, hashing, the characters a name may have, which texts look like a
  secret, the wording of a script.  What a text leads to is kept as a class (good,
  mistyped, unusable, unsafe, keyword, secret).  The
  screening of capabilities, of policies and of the evidence of reviews is left out; in
  the documents of an execution it is one of the ways to be damaged.
- Amounts of data: in `K6Rendering` a field that is present holds one item (an empty list
  of status codes or paths, which `mapping.js` accepts, is not distinguished from it), and
  the limits of `source-contract.js` on bytes are left out; those on numbers of
  operations, groups, assertions and thresholds are kept.
- Names that are no fields of an object: `resolveField` finds `length` or an index in a
  rule's value that is a list or a text; a rule's value that is no object has no fields
  here.
- Cryptography: a signature is valid if its key signed the token.
- The layout of views, headers, log lines and events.
- The coverage report and the knowledge timeline: reads that return what the records say.
- Statuses no service command reaches: SUPERSEDED and ARCHIVED of plans.
- Command line tools: they call the modelled packages one after the other on files.
- `scripts/`, evidence, release and deployment files: build tooling, a third of the
  repository's lines.

## Plan

Proofs, in this order:

1. `K6Runtime`: an admitted command is accepted by the validator of commands, for all
   resources an admission may ask for (arithmetic on durations).
2. `KnowledgeSnapshots`: envelopes are never replaced, whoever hands in what.
