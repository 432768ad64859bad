----------------------------- MODULE Migrations -----------------------------
(***************************************************************************)
(* The schema migrations every process of the service runs when it starts: *)
(* one runner per schema, one after another, each in one READ COMMITTED    *)
(* transaction under an advisory lock.  The four runners are copies of one *)
(* procedure; what is a runner's own is in its record below.  Several      *)
(* processes, of several releases, may start against one database.         *)
(***************************************************************************)
EXTENDS Naturals, Sequences

CONSTANTS
  Runners,     \* the runners, in the order they are called
  Processes,   \* processes that start against one database
  Builds,      \* releases of the service
  DirectoryOf  \* the migration files of each build, for each runner's schema

\* What the runners differ in: the schema, and the schema that must be there.
applyPostgresMigrations == [schema |-> "kdtp_registry", requires |-> {}]
applyGovernancePostgresMigrations ==
  [schema |-> "kdtp_governance", requires |-> {"kdtp_registry"}]
applyProjectAccessPostgresMigrations == [schema |-> "kdtp_access", requires |-> {}]
applyTestPlanMigrations == [schema |-> "kdtp_test_plan", requires |-> {}]

Forms == {"good", "misnamed", "empty"}

\* The composition calls a runner after those whose schema it requires.
ASSUME RunnerAssumption ==
  /\ Runners \in Seq({applyPostgresMigrations, applyGovernancePostgresMigrations,
                      applyProjectAccessPostgresMigrations, applyTestPlanMigrations})
  /\ Runners # << >>
  /\ \A i \in DOMAIN Runners : \A s \in Runners[i].requires :
       \E j \in 1..(i - 1) : Runners[j].schema = s

\* The version is the file's name, so a directory holds it once.
ASSUME DirectoryAssumption ==
  \A b \in Builds : \A i \in DOMAIN Runners :
    LET dir == DirectoryOf[b][Runners[i].schema] IN
    /\ \A f \in dir : f.version \in Nat /\ f.form \in Forms
    /\ \A f, g \in dir : f.version = g.version => f = g

VARIABLES
  applied,   \* the committed rows of the schema_migrations tables, which stand
             \* for the objects their SQL creates too
  migrating  \* each process: its build, runner, place in it, the files seen to,
             \* uncommitted rows, and whether it lost a connection

migrationVars == <<applied, migrating>>

Row(schema, f) == [schema |-> schema, version |-> f.version, checksum |-> f.checksum]

Starting(b) ==
  [build |-> b, runner |-> 1, at |-> "load", seen |-> {}, rows |-> {}, lost |-> FALSE]

MigrationsInit ==
  /\ applied = {}
  /\ \E builds \in [Processes -> Builds] :
       migrating = [p \in Processes |-> Starting(builds[p])]

-----------------------------------------------------------------------------

Runner(p) == Runners[migrating[p].runner]
Directory(p) == DirectoryOf[migrating[p].build][Runner(p).schema]

\* A directory is refused as a whole for one file.
Loadable(dir) == dir # {} /\ \A f \in dir : f.form = "good"

\* The files are taken in the order of their names.
Left(p) == Directory(p) \ migrating[p].seen
IsNext(p, f) == f \in Left(p) /\ \A g \in Left(p) : f.version <= g.version

\* A transaction that ends without a commit leaves nothing behind.
Fail(p) == migrating' = [migrating EXCEPT ![p].at = "failed", ![p].rows = {}]

LoadMigrations(p) ==
  /\ migrating[p].at = "load"
  /\ IF Loadable(Directory(p))
     THEN migrating' = [migrating EXCEPT ![p].at = "lock", ![p].seen = {}]
     ELSE Fail(p)
  /\ UNCHANGED applied

InTransaction(p) == migrating[p].at \in {"look", "apply", "commit"}

\* Wrong variant: BEGIN is not followed by the advisory lock.
LockFreeAlways(p) == TRUE

\* pg_advisory_xact_lock: one key per schema, held to the end of the transaction.
LockFree(p) ==
  \A q \in Processes \ {p} : InTransaction(q) => Runner(q) # Runner(p)

\* The lock is taken and the table of migrations created when it is missing;
\* the governance schema wants the registry's.
LockAndBootstrap(p) ==
  /\ migrating[p].at = "lock"
  /\ LockFree(p)
  /\ IF \A s \in Runner(p).requires : \E row \in applied : row.schema = s
     THEN migrating' = [migrating EXCEPT ![p].at = "look"]
     ELSE Fail(p)
  /\ UNCHANGED applied

RecordedAs(p, f) ==
  {row \in applied : row.schema = Runner(p).schema /\ row.version = f.version}

\* Is the next migration recorded, and with the checksum this build ships?
Look(p) ==
  /\ migrating[p].at = "look"
  /\ \/ Left(p) = {} /\ migrating' = [migrating EXCEPT ![p].at = "commit"]
     \/ \E f \in Left(p) :
          /\ IsNext(p, f)
          /\ IF RecordedAs(p, f) = {}
             THEN migrating' = [migrating EXCEPT ![p].at = "apply"]
             ELSE IF Row(Runner(p).schema, f) \in applied
             THEN migrating' = [migrating EXCEPT ![p].seen = @ \union {f}]
             ELSE Fail(p)
  /\ UNCHANGED applied

\* The migration's SQL and its row.  What another transaction is creating is
\* waited for; what exists by then makes the statement fail.
Apply(p) ==
  /\ migrating[p].at = "apply"
  /\ \E f \in Left(p) :
       /\ IsNext(p, f)
       /\ \A q \in Processes \ {p} : \A row \in migrating[q].rows :
            ~ (row.schema = Runner(p).schema /\ row.version = f.version)
       /\ IF RecordedAs(p, f) # {}
          THEN Fail(p)
          ELSE migrating' =
                 [migrating EXCEPT ![p].at = "look", ![p].seen = @ \union {f},
                    ![p].rows = @ \union {Row(Runner(p).schema, f)}]
  /\ UNCHANGED applied

Commit(p) ==
  /\ migrating[p].at = "commit"
  /\ applied' = applied \union migrating[p].rows
  /\ migrating' =
       [migrating EXCEPT ![p].rows = {}, ![p].seen = {},
          ![p].runner = IF @ = Len(Runners) THEN @ ELSE @ + 1,
          ![p].at = IF migrating[p].runner = Len(Runners) THEN "done" ELSE "load"]

\* The process dies or loses its connection, a commit on its way included.
ConnectionLost(p) ==
  /\ migrating[p].at = "lock" \/ InTransaction(p)
  /\ \/ UNCHANGED applied
     \/ migrating[p].at = "commit" /\ applied' = applied \union migrating[p].rows
  /\ migrating' = [migrating EXCEPT ![p].at = "failed", ![p].rows = {}, ![p].lost = TRUE]

Migrated(p) == migrating[p].at = "done"
MigrationFailed(p) == migrating[p].at = "failed"

\* A process of another release takes the place of one that has started or failed.
Restart(p) ==
  /\ Migrated(p) \/ MigrationFailed(p)
  /\ \E b \in Builds : migrating' = [migrating EXCEPT ![p] = Starting(b)]
  /\ UNCHANGED applied

Migrate(p) ==
  \/ LoadMigrations(p) \/ LockAndBootstrap(p) \/ Look(p) \/ Apply(p) \/ Commit(p)
  \/ ConnectionLost(p)
=============================================================================
