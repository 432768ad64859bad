---------------------------- MODULE ServiceStart ----------------------------
(***************************************************************************)
(* The read-only service beside others on one database: it is composed,    *)
(* and may listen, only after its own schema migrations, while processes   *)
(* of other releases migrate the same schemas, die and are replaced.       *)
(***************************************************************************)
EXTENDS ServiceLifecycle, Migrations, ServiceConfig

CONSTANTS
  Self,         \* the process whose life cycle is followed
  Environments  \* the environments it may be given

VARIABLE config \* what became of the environment, and which of its URLs are long

ASSUME SelfAssumption == Self \in Processes

\* The values ServiceConfig.tla reads an environment's texts and numbers as.
ASSUME EnvironmentAssumption ==
  \A env \in Environments :
    /\ \A name \in DOMAIN env.urls : env.urls[name] \in {"good", "query", "long", "bad"}
    /\ \A name \in DOMAIN env.numbers : env.numbers[name] \in Int

startVars == <<serviceVars, migrationVars, config>>

StartInit == ServiceInit /\ MigrationsInit /\ config = [status |-> "unread", long |-> {}]

LongUrls(env) == {name \in DOMAIN env.urls : env.urls[name] = "long"}

\* main: a refused environment fails before there is a pool or a migration.
LoadConfig ==
  /\ main = "composing" /\ config.status = "unread"
  /\ \E env \in Environments :
       IF AcceptedEnvironment(env)
       THEN /\ config' = [status |-> IF Composable(LoadServiceConfig(env)) THEN "composable"
                                    ELSE "loaded",
                          long |-> LongUrls(env)]
            /\ UNCHANGED serviceVars
       ELSE config' = [config EXCEPT !.status = "refused"] /\ ComposeFails
  /\ UNCHANGED migrationVars

Loaded == config.status \in {"loaded", "composable"}

\* createReadOnlyServiceComposition: the runners in turn, the warm-up of the
\* signing keys and the constructors; a failure of any of them fails main.
Compose ==
  /\ main = "composing" /\ Loaded
  /\ \/ Migrate(Self) /\ UNCHANGED serviceVars
     \/ ComposeFails /\ (Migrated(Self) \/ MigrationFailed(Self)) /\ UNCHANGED migrationVars
     \/ Listen /\ Migrated(Self) /\ config.status = "composable" /\ UNCHANGED migrationVars
  /\ UNCHANGED config

Others ==
  /\ \E p \in Processes \ {Self} : Migrate(p) \/ Restart(p)
  /\ UNCHANGED <<serviceVars, config>>

StartNext ==
  LoadConfig \/ Compose \/ Others \/ (Running /\ UNCHANGED <<migrationVars, config>>)

\* The fairness of the event loop; the other processes may stop anywhere.
StartSpec == StartInit /\ [][StartNext]_startVars /\ ServiceFairness

-----------------------------------------------------------------------------
(* Properties                                                              *)

EditedSince(schema, f) ==
  \E row \in applied :
    row.schema = schema /\ row.version = f.version /\ row.checksum # f.checksum

\* Behind the runners' lock and single transaction: a process whose
\* migrations succeed, and so every service that listens, finds each file it
\* ships recorded with its own checksum; one whose migrations fail lost its
\* connection, ships a refused directory, or met a file edited since it was
\* applied.  That others start at the same moment is never the reason.  Nor
\* does a process migrate for an environment no service can be composed from,
\* unless one of its URLs is too long, which only the constructors measure.
MigrationsSettle ==
  \A p \in Processes :
    LET Files(i) == DirectoryOf[migrating[p].build][Runners[i].schema] IN
    /\ Migrated(p) =>
         \A i \in DOMAIN Runners : \A f \in Files(i) : Row(Runners[i].schema, f) \in applied
    /\ MigrationFailed(p) =>
         \/ migrating[p].lost
         \/ \E i \in DOMAIN Runners :
              \/ ~ Loadable(Files(i))
              \/ \E f \in Files(i) : EditedSince(Runners[i].schema, f)
    /\ p = Self /\ server # "new" => Migrated(p)
    /\ p = Self /\ config.status \in {"unread", "refused"} => ~ Migrated(p)
    /\ config.status = "loaded" => config.long # {}
=============================================================================
