--------------------------- MODULE MCReadRequests ---------------------------
(* A small instance of ReadRequests. *)
EXTENDS ReadRequests

Listing ==
  [ method |-> "GET", handler |-> "listKnowledge", decodes |-> TRUE, usable |-> TRUE,
    query |-> [status |-> 1, limit |-> 1] ]
Timeline == [Listing EXCEPT !.handler = "getTimeline", !.query = [x \in {} |-> 1]]

\* One client's token under the old key, and one under the new key, which
\* expires during the run.
OldKey ==
  [ credential |-> "c1", kid |-> "k1", call |-> Listing, compact |-> TRUE,
    alg |-> "RS256", references |-> {}, issuer |-> "idp", audiences |-> {"governance"},
    subject |-> "reader", iat |-> 0, nbf |-> Unset, exp |-> 9, signed |-> TRUE ]

NewKey ==
  [ OldKey EXCEPT !.credential = "c2", !.kid = "k2", !.call = Timeline,
                  !.nbf = 1, !.exp = 5 ]

\* And one that names the new key, which has not signed it, and a former reader.
Forged == [NewKey EXCEPT !.signed = FALSE, !.subject = "former"]

\* Calls that are not routed: a parameter twice, and one the route does not have.
Unroutables ==
  { [Listing EXCEPT !.query.limit = 2], [Timeline EXCEPT !.query = [limit |-> 1]] }

\* And, late, a list of snapshots in a sort order the service does not know.
Unsorted ==
  [Listing EXCEPT !.handler = "listSnapshots", !.usable = FALSE, !.query = [sortBy |-> 1]]

\* Three further clients, whose tokens have not the signature they need.
Crowd == {"d1", "d2", "d3"}
CrowdTokens == {[OldKey EXCEPT !.credential = c, !.signed = FALSE] : c \in Crowd}

MCPresented ==
  {OldKey, NewKey, Forged, [NewKey EXCEPT !.kid = "k1", !.call = Unsorted, !.nbf = 4]}
    \union {[OldKey EXCEPT !.call = c] : c \in Unroutables} \union CrowdTokens

\* Either two requests meet everything that may happen meanwhile, or the crowd comes,
\* in every order, while nothing else happens but that a window of the limiter ends.
MCComes(credential, earlier) ==
  IF credential \in Crowd THEN \A i \in DOMAIN earlier : earlier[i] \in Crowd \union {"none"}
  ELSE /\ Len(earlier) < 2
       /\ credential # "none" => \A i \in DOMAIN earlier : earlier[i] \notin Crowd

MCQuiet ==
  \/ \A r \in Requests : req[r].token.credential \notin Crowd
  \/ /\ now <= WindowMs /\ fetch = NoFetch /\ project = NoProject
     /\ \A k \in KeyIds : published[k].until = Never /\ (published[k].from = Never <=> k \notin Warmed)

MCSubjects == [reader |-> [disabled |-> FALSE], former |-> [disabled |-> TRUE]]

MCValidities == {[from |-> 1, until |-> 3]}
MCRoleSets == {{"AUDITOR"}}
=============================================================================
