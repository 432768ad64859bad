-------------------------- MODULE MCServiceStart ---------------------------
(* The service and one other process on one database, with four releases:  *)
(* the current one, one with a further migration, one with an edited file, *)
(* one with a file out of place.                                           *)
EXTENDS ServiceStart

CONSTANTS service, other

MCRunners ==
  <<applyPostgresMigrations, applyGovernancePostgresMigrations,
    applyProjectAccessPostgresMigrations, applyTestPlanMigrations>>

File(n, checksum) == [version |-> n, checksum |-> checksum, form |-> "good"]
Stray == [version |-> 3, checksum |-> "c", form |-> "misnamed"]

MCBuilds == {"current", "next", "edited", "broken"}
MCDirectoryOf ==
  [b \in MCBuilds |->
    [kdtp_registry |->
       {File(1, IF b = "edited" THEN "b" ELSE "a")}
         \union (IF b = "next" THEN {File(2, "a")} ELSE {}),
     kdtp_governance |->
       {File(1, "a")} \union (IF b = "broken" THEN {Stray} ELSE {}),
     kdtp_access |-> {File(1, "a")},
     kdtp_test_plan |-> {File(1, "a")}]]

Good ==
  [ numbers |-> <<>>, names |-> [SERVICE_NAME |-> "good"],
    urls |-> [DATABASE_URL |-> "good", OIDC_ISSUER |-> "good", OIDC_JWKS_URI |-> "query"],
    audiences |-> <<"governance", "plans">>,
    mappings |-> <<[subject |-> "a", actor |-> "good", attributes |-> "absent"],
                   [subject |-> "b", actor |-> "good", attributes |-> "object"]>> ]
One(name, value) == [n \in {name} |-> value]

\* One number left to its default, at a bound, just outside, blank or no number.
MCNumbers ==
  {<<>>} \union
  UNION { { One(name, value) : value \in
              {NotANumber, 0, Numbers[name].least - 1, Numbers[name].least,
               Numbers[name].most, Numbers[name].most + 1} } : name \in DOMAIN Numbers }

MCEnvironments ==
  { [Good EXCEPT !.numbers = numbers] : numbers \in MCNumbers } \union
  { [Good EXCEPT !.names["SERVICE_NAME"] = "bad"],
    [Good EXCEPT !.urls = One("DATABASE_URL", "good")],
    [Good EXCEPT !.audiences = <<>>],
    [Good EXCEPT !.audiences = <<"governance", "governance">>],
    [Good EXCEPT !.audiences[1] = "long"],
    [Good EXCEPT !.mappings = <<>>],
    [Good EXCEPT !.mappings[1].subject = "b"],
    [Good EXCEPT !.mappings[1].subject = ""],
    [Good EXCEPT !.mappings[1].actor = "blank"],
    [Good EXCEPT !.mappings[2].attributes = "other"] } \union
  { [Good EXCEPT !.urls[name] = url] :
      name \in DOMAIN Good.urls, url \in {"good", "query", "long", "bad"} }
=============================================================================
