--------------------------- MODULE ProjectAccess ---------------------------
(***************************************************************************)
(* One project and one subject's membership in it (project-membership and  *)
(* its PostgreSQL adapter): the records, the administrators' commands that *)
(* change them, and the evaluation that allows or refuses an action.       *)
(***************************************************************************)
EXTENDS Integers

CONSTANTS
  Validities,  \* validity intervals [from, until] an administrator may set
  RoleSets,    \* role sets an administrator may assign
  MaxRevision, \* bound: revisions of the two records together
  Forever      \* validUntil = null

ASSUME ValidityAssumption ==
  \A v \in Validities : v.from \in Nat /\ v.until \in Nat /\ v.from < v.until /\ v.until <= Forever
ASSUME RevisionAssumption == MaxRevision \in Nat \ {0}

VARIABLES
  project,   \* the row of projects
  membership \* the row of project_memberships for this subject

access == <<project, membership>>

Roles == {"VIEWER", "AUTHOR", "REVIEWER", "PUBLISHER", "AUDITOR", "AUTOMATION", "PROJECT_ADMIN"}
ViewActions == {"KNOWLEDGE_READ", "SNAPSHOT_READ", "PLAN_READ"}
AuditActions == {"AUDIT_READ", "PLAN_AUDIT_READ"}

\* The read actions each role grants (DEFAULT_ROLE_ACTIONS).
RoleActions ==
  [role \in Roles |->
     IF role \in {"REVIEWER", "PUBLISHER", "AUDITOR", "PROJECT_ADMIN"}
     THEN ViewActions \union AuditActions ELSE ViewActions]

PROJECT_STATUS_TRANSITIONS ==
  [ACTIVE |-> {"SUSPENDED", "ARCHIVED"}, SUSPENDED |-> {"ACTIVE", "ARCHIVED"}, ARCHIVED |-> {}]
MEMBERSHIP_STATUS_TRANSITIONS ==
  [ACTIVE |-> {"SUSPENDED", "REVOKED"}, SUSPENDED |-> {"ACTIVE", "REVOKED"}, REVOKED |-> {}]

\* A row that does not exist has revision 0.
NoProject == [status |-> "NONE", revision |-> 0]
NoMembership == [status |-> "NONE", roles |-> {}, from |-> 0, until |-> Forever, revision |-> 0]

ProjectAccessTypeOK ==
  /\ project \in [status : {"NONE", "ACTIVE", "SUSPENDED", "ARCHIVED"}, revision : 0..MaxRevision]
  /\ membership.status \in {"NONE", "ACTIVE", "SUSPENDED", "REVOKED"}
  /\ membership.roles \subseteq Roles
  /\ membership.from < membership.until
  /\ membership.revision \in 0..MaxRevision
  /\ membership.status # "NONE" => project.status # "NONE"

-----------------------------------------------------------------------------
(* The administrators' commands.  A stale expectedRevision, a transition    *)
(* that is not allowed or a row that already exists changes nothing.        *)

Administrable == project.revision + membership.revision < MaxRevision

CreateProject ==
  /\ project = NoProject /\ Administrable
  /\ project' = [status |-> "ACTIVE", revision |-> 1]
  /\ UNCHANGED membership

UpdateProject(toStatus) ==
  /\ project # NoProject /\ Administrable
  /\ toStatus \in PROJECT_STATUS_TRANSITIONS[project.status]
  /\ project' = [status |-> toStatus, revision |-> project.revision + 1]
  /\ UNCHANGED membership

\* The foreign key requires the project, whatever its status.
CreateMembership(roles, validity) ==
  /\ project # NoProject /\ membership = NoMembership /\ Administrable
  /\ membership' = [status |-> "ACTIVE", roles |-> roles, from |-> validity.from,
                    until |-> validity.until, revision |-> 1]
  /\ UNCHANGED project

\* status, roles and validity are each kept when the command leaves them out.
ReplaceMembership(status, roles, validity) ==
  /\ membership # NoMembership /\ Administrable
  /\ IF status = membership.status THEN status # "REVOKED"
     ELSE status \in MEMBERSHIP_STATUS_TRANSITIONS[membership.status]
  /\ membership' = [status |-> status, roles |-> roles, from |-> validity.from,
                    until |-> validity.until, revision |-> membership.revision + 1]
  /\ UNCHANGED project

\* PostgresProjectDirectory: each command is one transaction on the locked row.
ChangeProject ==
  \/ CreateProject
  \/ \E toStatus \in {"ACTIVE", "SUSPENDED", "ARCHIVED"} : UpdateProject(toStatus)

\* PostgresProjectMembershipStore, likewise.
ChangeMembership ==
  \/ \E roles \in RoleSets, validity \in Validities : CreateMembership(roles, validity)
  \/ \E status \in {"ACTIVE", "SUSPENDED", "REVOKED"}, roles \in RoleSets \union {membership.roles},
        validity \in Validities \union {[from |-> membership.from, until |-> membership.until]} :
       ReplaceMembership(status, roles, validity)

Administer == ChangeProject \/ ChangeMembership

-----------------------------------------------------------------------------
(* evaluateProjectAuthorization                                            *)

InForce(p, m) == p.status = "ACTIVE" /\ m.status = "ACTIVE"

Covers(m, at) == m.from <= at /\ at < m.until

Grants(m, action) == \E role \in m.roles : action \in RoleActions[role]

\* Wrong variant: the membership is still good at the moment it expires.
EvaluateInclusive(action, at) ==
  /\ InForce(project, membership)
  /\ membership.from <= at /\ at <= membership.until
  /\ Grants(membership, action)

Evaluate(action, at) ==
  /\ InForce(project, membership)
  /\ Covers(membership, at)
  /\ Grants(membership, action)

=============================================================================
