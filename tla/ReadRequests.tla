--------------------------- MODULE ReadRequests ----------------------------
(***************************************************************************)
(* A request through the read-only API: transport, rate limiter, bearer    *)
(* authentication against the cached signing keys, authorization by        *)
(* membership, and the read.  What runs without waiting for I/O is one     *)
(* action; requests interleave where they wait for the identity provider,  *)
(* for a pool client or for PostgreSQL, and administrators, key rotation   *)
(* and the clock move in between.                                          *)
(***************************************************************************)
EXTENDS OidcAuthentication, ProjectAccess, GovernanceHttp, FiniteSets

CONSTANTS
  MaxRequests, \* bound: requests, numbered in the order they arrive
  LastArrival, \* bound: no request arrives later
  Presented,   \* the tokens clients send, each with the credential it is and the
               \* call it is sent with
  Comes(_, _), \* bound: whether a request with this credential may follow these, the
               \* credentials of the requests that came before it
  PoolSize     \* clients of the PostgreSQL pool

ASSUME RequestAssumption == MaxRequests \in Nat /\ PoolSize \in Nat \ {0}

\* numericDate: a token whose expiry is not a date is refused like any other that
\* does not parse, so none is presented here.
ASSUME PresentedAssumption ==
  \A token \in Presented : token.kid \in KeyIds /\ token.exp \in Nat

VARIABLES
  windows, \* the rate limiter's map
  req      \* every request: what it carries, where it stands

vars == <<now, keyVars, access, windows, req>>

Requests == 1..MaxRequests

\* `at` is the clock authentication or authorization read for this request;
\* `granted` records for the properties whether the records allowed the
\* request at some moment since it arrived.
Unused ==
  [stage |-> "unused", token |-> [credential |-> "none"], arrived |-> 0, at |-> 0, granted |-> FALSE]

Waiting == {"refresh", "force"}                 \* for the identity provider
Queued == {"authorizing", "permitted", "found"} \* for a pool client
Holding == {"deciding", "reading", "listing"}   \* a client of the pool
Answers ==
  {"refused", "limited", "unauthenticated", "unusable", "forbidden", "not_found", "served", "failed"}

TypeOK ==
  /\ SigningKeysTypeOK /\ ProjectAccessTypeOK
  /\ Len(windows) <= MaxEntries
  /\ \A r \in Requests :
       /\ req[r].stage \in {"unused"} \union Waiting \union Queued \union Holding \union Answers
       /\ req[r].arrived \in 0..MaxTime /\ req[r].at \in 0..MaxTime
       /\ req[r].granted \in BOOLEAN
  /\ Cardinality({r \in Requests : req[r].stage \in Holding}) <= PoolSize

Init ==
  /\ SigningKeysInit
  /\ \/ project = NoProject /\ membership = NoMembership
     \/ /\ project = [status |-> "ACTIVE", revision |-> 1]
        /\ membership \in {[status |-> "ACTIVE", roles |-> roles, from |-> v.from,
                           until |-> v.until, revision |-> 1] : roles \in RoleSets, v \in Validities}
  /\ windows = <<>>
  /\ req = [r \in Requests |-> Unused]

-----------------------------------------------------------------------------
(* The records allow the request now, by a clock value since it arrived.   *)

AllowedSince(q, p, m, until) ==
  /\ InForce(p, m) /\ Grants(m, ActionOf(q.token.call))
  /\ \E at \in q.arrived..until : Covers(m, at)

Active(q) == q.stage \in Waiting \union Queued \union Holding

\* An answered request forgets what only its way through needed.
Answer(q, answer) ==
  [q EXCEPT !.stage = answer, !.at = 0, !.arrived = WindowStart(@),
            !.token = [credential |-> @.credential],
            !.granted = @ /\ answer = "served"]

-----------------------------------------------------------------------------
(* dispatch, up to the first wait                                          *)

\* The handler's call begins.
Handled(q) ==
  IF UnusableBefore(q.token.call) THEN Answer(q, "unusable") ELSE [q EXCEPT !.stage = "authorizing"]

\* A found key must have signed the token, and its subject must be registered.
Identified(q) ==
  IF AcceptedWithKey(q.token) THEN Handled(q) ELSE Answer(q, "unauthenticated")

\* authenticate, up to the wait for a refresh of the keys.  The claims are held
\* against the clock before that wait and not again.
Authenticate(q) ==
  LET found == LookUp(q.token.kid)
  IN  CASE ~AcceptedBeforeKey(q.token, q.at) -> Answer(q, "unauthenticated")
        [] AcceptedBeforeKey(q.token, q.at) /\ found = "found" -> Identified(q)
        [] AcceptedBeforeKey(q.token, q.at) /\ found = "missing" -> Answer(q, "unauthenticated")
        [] OTHER -> [q EXCEPT !.stage = found]

\* Both transports, for knowledge and for test plans, share the limiter.
Dispatched(q) ==
  IF Allowed(windows, q.token.credential, q.at) THEN Authenticate(q) ELSE Answer(q, "limited")

\* Each request takes the next number; one that is refused before its credential is
\* looked at comes with the one of Unused.
NextNumber(r, credential) ==
  /\ req[r].stage = "unused" /\ \A earlier \in 1..(r - 1) : req[earlier].stage # "unused"
  /\ Comes(credential, [earlier \in 1..(r - 1) |-> req[earlier].token.credential])

\* Headers, body or credential are not acceptable; the rate limiter is not asked.
Malformed(r) ==
  /\ now <= LastArrival /\ NextNumber(r, Unused.token.credential)
  /\ req' = [req EXCEPT ![r] = [Unused EXCEPT !.stage = "refused"]]
  /\ UNCHANGED <<now, keyVars, access, windows>>

\* A call that matches no route is refused before the rate limiter is asked, too.
Unroutable(r, token) ==
  /\ now <= LastArrival /\ NextNumber(r, Unused.token.credential) /\ ~Routed(token.call)
  /\ req' = [req EXCEPT ![r] = [Unused EXCEPT !.stage = "refused"]]
  /\ UNCHANGED <<now, keyVars, access, windows>>

Arrive(r, token) ==
  LET next == Dispatched([stage |-> "new", token |-> token, arrived |-> now, at |-> now,
                          granted |-> /\ InForce(project, membership) /\ Covers(membership, now)
                                      /\ Grants(membership, ActionOf(token.call))])
  IN  /\ now <= LastArrival /\ NextNumber(r, token.credential) /\ Routed(token.call)
      /\ windows' = Consume(windows, token.credential, now)
      /\ req' = [req EXCEPT ![r] = next]
      /\ fetch' = IF next.stage \in Waiting THEN Refreshed(fetch) ELSE fetch
      /\ UNCHANGED <<now, published, cache, lastRefreshAt, access>>

\* The readiness check refreshes an expired cache too, and waits for it.
ReadinessRefresh ==
  /\ CacheExpired /\ fetch = NoFetch /\ now <= LastArrival
  /\ fetch' = Refreshed(fetch)
  /\ UNCHANGED <<now, published, cache, lastRefreshAt, access, windows, req>>

-----------------------------------------------------------------------------
(* The shared refresh settles: everyone who waited goes on at once         *)

Resumed(q) ==
  LET found == LookUpAgain(q.token.kid, q.at, q.stage = "force")
  IN  CASE q.stage \notin Waiting -> q
        [] q.stage \in Waiting /\ found = "found" -> [Identified(q) EXCEPT !.at = now]
        [] q.stage \in Waiting /\ found = "force" -> [q EXCEPT !.stage = "force"]
        [] OTHER -> Answer(q, "unauthenticated")

RefreshSucceeds ==
  /\ fetch.stage = "recording"
  /\ req' = [r \in Requests |-> Resumed(req[r])]
  /\ fetch' = IF \E r \in Requests : req'[r].stage = "force" THEN Refreshed(NoFetch) ELSE NoFetch
  /\ UNCHANGED <<now, published, cache, lastRefreshAt, access, windows>>

\* Wrong variant: when the provider cannot be reached, the keys it once sent
\* serve on.
ServeStale ==
  req' = [r \in Requests |-> Resumed(req[r])]

\* A refresh that fails fails everyone who waited for it.
FailWaiting ==
  req' = [r \in Requests |-> IF req[r].stage \in Waiting THEN Answer(req[r], "failed") ELSE req[r]]

RefreshAborted == FetchAborted /\ FailWaiting /\ UNCHANGED <<now, access, windows>>
RefreshFails == FetchFails /\ FailWaiting /\ UNCHANGED <<now, access, windows>>

-----------------------------------------------------------------------------
(* Authorization and the read: a transaction on a pool client each         *)

FreeClient == Cardinality({r \in Requests : req[r].stage \in Holding}) < PoolSize

Connect(r) ==
  /\ req[r].stage \in Queued /\ FreeClient
  /\ req' = [req EXCEPT ![r].stage = CASE @ = "authorizing" -> "deciding"
                                         [] @ = "permitted" -> "reading"
                                         [] @ = "found" -> "listing"]
  /\ UNCHANGED <<now, keyVars, access, windows>>

\* pool.connect gives up after connectionTimeoutMillis.
ConnectTimesOut(r) ==
  /\ req[r].stage \in Queued /\ ~FreeClient
  /\ req' = [req EXCEPT ![r] = Answer(@, "failed")]
  /\ UNCHANGED <<now, keyVars, access, windows>>

\* One statement reads the project and the membership; the client is released.
Decide(r) ==
  /\ req[r].stage = "deciding"
  /\ req' = [req EXCEPT ![r] = IF ~Evaluate(ActionOf(@.token.call), @.at) THEN Answer(@, "forbidden")
                               ELSE IF UnusableAfter(@.token.call) THEN Answer(@, "unusable")
                               ELSE [@ EXCEPT !.stage = "permitted"]]
  /\ UNCHANGED <<now, keyVars, access, windows>>

\* A list, a record or a snapshot is one transaction, its page or its detail
\* computed from what that read; a record of another project is not found.
Read(r) ==
  /\ req[r].stage = "reading" /\ ActionOf(req[r].token.call) \in ViewActions
  /\ \E answer \in {"served", "not_found"} : req' = [req EXCEPT ![r] = Answer(@, answer)]
  /\ UNCHANGED <<now, keyVars, access, windows>>

\* A timeline reads the record in one transaction and the review decisions in
\* the next, without the client in between.
ReadTimeline(r) ==
  /\ req[r].stage \in Holding /\ ActionOf(req[r].token.call) \in AuditActions
  /\ \/ /\ req[r].stage = "reading"
        /\ \/ req' = [req EXCEPT ![r].stage = "found"]
           \/ req' = [req EXCEPT ![r] = Answer(@, "not_found")]
     \/ /\ req[r].stage = "listing"
        /\ req' = [req EXCEPT ![r] = Answer(@, "served")]
  /\ UNCHANGED <<now, keyVars, access, windows>>

\* A statement fails; the transaction rolls back and releases the client.
StatementFails(r) ==
  /\ req[r].stage \in Holding
  /\ req' = [req EXCEPT ![r] = Answer(@, "failed")]
  /\ UNCHANGED <<now, keyVars, access, windows>>

-----------------------------------------------------------------------------
(* The surroundings                                                        *)

Rotate ==
  /\ \E k \in KeyIds : Publish(k) \/ Withdraw(k)
  /\ UNCHANGED <<now, access, windows, req>>

\* The properties' record of what the administrators granted meanwhile.
Remember(p, m, until) ==
  [r \in Requests |-> IF Active(req[r])
                      THEN [req[r] EXCEPT !.granted = @ \/ AllowedSince(req[r], p, m, until)]
                      ELSE req[r]]

AdministratorActs ==
  /\ Administer
  /\ req' = Remember(project', membership', now)
  /\ UNCHANGED <<now, keyVars, windows>>

TimePasses ==
  /\ Tick
  /\ req' = Remember(project, membership, now')
  /\ UNCHANGED <<access, windows>>

Progress ==
  \/ RefreshSucceeds \/ RefreshAborted
  \/ \E r \in Requests : Connect(r) \/ ConnectTimesOut(r) \/ Decide(r) \/ Read(r) \/ ReadTimeline(r)

Next ==
  \/ \E r \in Requests : Malformed(r) \/ \E token \in Presented : Unroutable(r, token) \/ Arrive(r, token)
  \/ ReadinessRefresh
  \/ Progress
  \/ (FetchAnswered \/ FetchStored) /\ UNCHANGED <<now, access, windows, req>>
  \/ RefreshFails
  \/ \E r \in Requests : StatementFails(r)
  \/ Rotate \/ AdministratorActs \/ TimePasses

Spec == Init /\ [][Next]_vars

\* What this process and its timers do goes on; the identity provider, the
\* administrators and the clients need not do anything.
Fairness == WF_vars(Progress) /\ WF_vars(TimePasses)

FairSpec == Spec /\ Fairness

-----------------------------------------------------------------------------
(* Properties                                                              *)

\* Behind in-memory-rate-limiter.js: no credential is admitted more than
\* Limit times in a window, however its requests interleave with others',
\* unless more credentials than the limiter remembers called in that window.
RateLimited ==
  \A w \in {WindowStart(t) : t \in 0..MaxTime} :
    LET came == {r \in Requests : req[r].stage \notin {"unused", "refused"} /\ WindowStart(req[r].arrived) = w}
        CameWith(c) == {r \in came : req[r].token.credential = c}
    IN  Cardinality({req[r].token.credential : r \in came}) <= MaxEntries =>
          \A c \in {req[r].token.credential : r \in came} :
            Cardinality({r \in CameWith(c) : req[r].stage # "limited"}) <= Limit

\* A request passes authorization, and is served, only if project and
\* membership allowed it together at some moment since it arrived: what was
\* revoked, suspended, expired or archived before never counts.
GrantedDuringRequest ==
  \A r \in Requests : req[r].stage \in {"permitted", "reading", "found", "listing", "served"} => req[r].granted

\* The clock by which a request looked its key up.
LookUpClock(r) == IF req[r].stage = "unused" THEN now ELSE req[r].at

Authenticates(r) == req[r].stage \notin {"authorizing"} /\ req'[r].stage = "authorizing"
Refuses(r, token) ==
  /\ req[r].stage # "unauthenticated" /\ req'[r].stage = "unauthenticated"
  /\ IF req[r].stage = "unused" THEN Arrive(r, token) ELSE req[r].token = token
  /\ AcceptedBeforeKey(token, LookUpClock(r)) /\ AcceptedWithKey(token)

\* A token is accepted only by a key that was still published less than the
\* cache's lifetime and one fetch before: a withdrawn key cannot outlive that,
\* not even while the identity provider is unreachable.  Nor is one accepted that
\* has been expired for longer than the skew and the two fetches it may wait for.
KeysCurrent ==
  [][\A r \in Requests : Authenticates(r) =>
       /\ published[req'[r].token.kid].until > LookUpClock(r) - TTL - Timeout
       /\ req'[r].token.exp > now - Skew - 2 * Timeout]_vars

\* An acceptable token is refused for its key only if the key was withdrawn, or was
\* published less than the refresh interval and one fetch before: a stale
\* cache does not lock a new key's users out for its whole lifetime.
NewKeysAccepted ==
  [][\A r \in Requests, token \in Presented : Refuses(r, token) =>
       \/ published[token.kid].until # Never
       \/ published[token.kid].from > LookUpClock(r) - MinInterval - Timeout]_vars

\* A burst of unknown keys does not become a burst of fetches: successful
\* fetches are an interval apart, or the whole lifetime of what they replace.
RefreshesSpaced ==
  [][lastRefreshAt' # lastRefreshAt =>
       \/ lastRefreshAt' >= lastRefreshAt + MinInterval
       \/ lastRefreshAt' >= lastRefreshAt + TTL]_vars

\* Every request is answered (of boundedly many: in the end none waits any more): the
\* fetch it waits for ends by its deadline, and no request keeps a pool client while
\* it waits for another.
RequestsAnswered == <>[](\A r \in Requests : ~Active(req[r]))
=============================================================================
