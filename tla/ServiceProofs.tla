---------------------------- MODULE ServiceProofs ----------------------------
(***************************************************************************)
(* What the read-only service promises.  Of its requests (ReadRequests),   *)
(* however they interleave with each other, with the provider's key        *)
(* rotation, with the administrators and with the clock: authorization     *)
(* reflects a grant made during the request, and the keys a token is held  *)
(* against are recent.  Of its start (ServiceStart), for every number of   *)
(* processes, releases, migration files and environments: the port, the    *)
(* pool and the readiness when its host is a number, and the outcome of    *)
(* every process's migrations, whatever the host is.                       *)
(***************************************************************************)
EXTENDS ReadRequests, ServiceStart, FiniteSetTheorems, SequenceTheorems,
        WellFoundedInduction, TLAPS

Stages == {"unused"} \union Waiting \union Queued \union Holding \union Answers

\* The token of a request, or what is kept of it once the request is answered.
Carried ==
  Presented \union {[credential |-> t.credential] : t \in Presented \union {Unused.token}}

\* The record of a request, and one that is being dispatched.
Records ==
  [stage : Stages, token : Carried, arrived : 0..MaxTime, at : 0..MaxTime, granted : BOOLEAN]
Drafts ==
  [stage : Stages \union {"new"}, token : Carried, arrived : 0..MaxTime, at : 0..MaxTime,
   granted : BOOLEAN]

\* The stages after the membership allowed the request.
Passed == {"permitted", "reading", "found", "listing", "served"}

TypeInv ==
  /\ SigningKeysTypeOK
  /\ req \in [Requests -> Records]

\* The keys k the provider had published at some moment from t on, and the others.
PublishedSince(k, t) == published[k].until >= t
MissingSince(k, t) == published[k].until # Never \/ published[k].from >= t

\* The cache is the provider's answer to a fetch of bounded length, and a fetch
\* is in flight only if the cache was old enough to ask again.
KeysInv ==
  /\ lastRefreshAt <= now
  /\ cache.expiresAt = lastRefreshAt + TTL
  /\ \A k \in cache.keys : PublishedSince(k, lastRefreshAt - Timeout)
  /\ \A k \in KeyIds \ cache.keys : MissingSince(k, lastRefreshAt - Timeout)
  /\ fetch.stage # "none" => fetch.began <= now /\ now <= fetch.began + Timeout
  /\ Awaited => now >= lastRefreshAt + MinInterval \/ now >= lastRefreshAt + TTL
  /\ fetch.stage = "answered" =>
       /\ \A k \in fetch.keys : PublishedSince(k, fetch.began)
       /\ \A k \in KeyIds \ fetch.keys : MissingSince(k, fetch.began)
  /\ fetch.stage = "recording" => lastRefreshAt = now

\* What is known of a request q at time t, with the fetch f, the project p and
\* the membership m: a grant since it arrived has been noted, and the fetch it
\* waits for began soon after it looked its key up.
RequestSound(q, t, f, p, m) ==
  /\ Active(q) => /\ q.token \in Presented
                  /\ q.arrived <= q.at /\ q.at <= t
                  /\ AllowedSince(q, p, m, t) => q.granted
  /\ q.stage \in Passed => q.granted
  /\ q.stage \in Waiting =>
       /\ AcceptedBeforeKey(q.token, q.at)
       /\ f.stage # "none"
       /\ f.began <= q.at + (IF q.stage = "force" THEN Timeout ELSE 0)

RequestsInv == \A r \in Requests : RequestSound(req[r], now, fetch, project, membership)

Inv == TypeInv /\ KeysInv /\ RequestsInv

-----------------------------------------------------------------------------
(* The operators of a request                                                *)

\* A window starts within the time it covers.
LEMMA WindowStarts ==
  ASSUME NEW at \in Nat
  PROVE  WindowStart(at) \in 0..at
BY LimiterAssumption DEF WindowStart

\* Nothing more is known of a request that is over, or has not begun.
LEMMA OverSound ==
  ASSUME NEW q, q.stage \in Answers \union {"unused"}, q.stage = "served" => q.granted
  PROVE  \A t, f, p, m : RequestSound(q, t, f, p, m)
<1>1. ~ Active(q) /\ q.stage \notin Waiting /\ (q.stage \in Passed => q.granted)
  BY DEF Active, Waiting, Queued, Holding, Answers, Passed
<1> QED BY <1>1 DEF RequestSound

\* What an answer leaves of a request.
LEMMA Answered ==
  ASSUME NEW q \in Drafts, q.token \in Presented, NEW answer \in Answers,
         answer = "served" => q.granted
  PROVE  /\ Answer(q, answer) \in Records
         /\ Answer(q, answer).stage = answer
         /\ \A t, f, p, m : RequestSound(Answer(q, answer), t, f, p, m)
<1> PICK a : a = Answer(q, answer) OBVIOUS
<1>1. WindowStart(q.arrived) \in 0..MaxTime
  <2>1. q.arrived \in 0..MaxTime /\ q.arrived \in Nat BY DEF Drafts
  <2>2. WindowStart(q.arrived) \in 0..q.arrived BY <2>1, WindowStarts
  <2> QED BY <2>1, <2>2, ClockAssumption
<1>2. 0 \in 0..MaxTime BY ClockAssumption
<1>3. [credential |-> q.token.credential] \in Carried BY DEF Carried
<1>4. (q.granted /\ answer = "served") \in BOOLEAN OBVIOUS
<1>5. a = [q EXCEPT !.stage = answer, !.at = 0, !.arrived = WindowStart(q.arrived),
                    !.token = [credential |-> q.token.credential],
                    !.granted = q.granted /\ answer = "served"]
  BY DEF Answer
<1>6. answer \in Stages BY DEF Stages
<1>7. /\ a \in Records /\ a.stage = answer
      /\ answer = "served" => a.granted
  BY <1>1, <1>2, <1>3, <1>4, <1>5, <1>6 DEF Records, Drafts
<1>8. \A t, f, p, m : RequestSound(a, t, f, p, m) BY <1>7, OverSound
<1> QED BY <1>7, <1>8

\* A request that does not wait, or whose fetch goes on, is not disturbed by what
\* happens to the fetch.
LEMMA Undisturbed ==
  ASSUME NEW q, NEW t, NEW f, NEW g, NEW p, NEW m, RequestSound(q, t, f, p, m),
         q.stage \in Waiting => g.stage # "none" /\ g.began = f.began
  PROVE  RequestSound(q, t, g, p, m)
BY DEF RequestSound

\* A request moves on, past the decision only with its grant.
LEMMA MovedSound ==
  ASSUME NEW q \in Records, NEW t, NEW f, NEW p, NEW m, RequestSound(q, t, f, p, m), Active(q),
         NEW stage \in Queued \union Holding, stage \in Passed => q.granted
  PROVE  /\ [q EXCEPT !.stage = stage] \in Records
         /\ RequestSound([q EXCEPT !.stage = stage], t, f, p, m)
<1> PICK d : d = [q EXCEPT !.stage = stage] OBVIOUS
<1>1. stage \in Stages /\ stage \notin Waiting BY DEF Stages, Queued, Holding, Waiting
<1>2. /\ d \in Records /\ d.stage = stage /\ d.token = q.token /\ d.arrived = q.arrived
      /\ d.at = q.at /\ d.granted = q.granted
  BY <1>1 DEF Records
<1> QED BY <1>1, <1>2 DEF RequestSound, AllowedSince

\* A key was found: the handler's call begins, or the request is answered.
LEMMA IdentifiedSound ==
  ASSUME NEW q
  PROVE  \/ /\ AcceptedWithKey(q.token)
            /\ Identified(q) = [q EXCEPT !.stage = "authorizing"]
         \/ /\ AcceptedWithKey(q.token)
            /\ Identified(q) = Answer(q, "unusable")
         \/ /\ ~ AcceptedWithKey(q.token)
            /\ Identified(q) = Answer(q, "unauthenticated")
BY DEF Identified, Handled

\* What becomes of a new request before its first wait.
LEMMA DispatchedSound ==
  ASSUME TypeInv, NEW q \in Drafts, q.token \in Presented, q.arrived = now, q.at = now,
         q.granted <=> AllowedSince(q, project, membership, now)
  PROVE  LET d == Dispatched(q) IN
         /\ d \in Records
         /\ \/ /\ d.stage \in {"limited", "unusable", "unauthenticated"}
               /\ d.stage = "unauthenticated" /\ AcceptedBeforeKey(q.token, now)
                    /\ AcceptedWithKey(q.token) =>
                      q.token.kid \notin cache.keys /\ ~ MayForce(now)
            \/ /\ d = [q EXCEPT !.stage = d.stage]
               /\ AcceptedBeforeKey(q.token, now)
               /\ \/ /\ d.stage = "authorizing" /\ q.token.kid \in cache.keys
                     /\ ~ CacheExpired
                  \/ d.stage = "refresh" /\ CacheExpired
                  \/ d.stage = "force" /\ MayForce(now)
<1> PICK d : d = Dispatched(q) OBVIOUS
<1>1. ASSUME NEW stage \in {"authorizing", "refresh", "force"}
      PROVE  [q EXCEPT !.stage = stage] \in Records /\ [q EXCEPT !.stage = stage].stage = stage
  <2>1. stage \in Stages BY DEF Stages, Waiting, Queued
  <2> QED BY <2>1 DEF Records, Drafts
<1>2. ASSUME NEW answer \in {"limited", "unusable", "unauthenticated"}
      PROVE  Answer(q, answer) \in Records /\ Answer(q, answer).stage = answer
  <2>1. answer \in Answers /\ answer # "served" BY DEF Answers
  <2> QED BY <2>1, Answered
<1>3. CASE ~ Allowed(windows, q.token.credential, q.at)
  BY <1>2, <1>3 DEF Dispatched
<1>4. CASE Allowed(windows, q.token.credential, q.at) /\ ~ AcceptedBeforeKey(q.token, now)
  <2>1. d = Answer(q, "unauthenticated") BY <1>4 DEF Dispatched, Authenticate
  <2> QED BY <1>2, <1>4, <2>1
<1>5. CASE Allowed(windows, q.token.credential, q.at) /\ AcceptedBeforeKey(q.token, now)
  <2>1. CASE LookUp(q.token.kid) = "found"
    <3>1. d = Identified(q) BY <1>5, <2>1 DEF Dispatched, Authenticate
    <3>2. q.token.kid \in cache.keys /\ ~ CacheExpired BY <2>1 DEF LookUp
    <3>3. CASE AcceptedWithKey(q.token) /\ d = [q EXCEPT !.stage = "authorizing"]
      BY <1>1, <1>5, <3>2, <3>3
    <3>4. CASE d = Answer(q, "unusable") BY <1>2, <3>4
    <3>5. CASE ~ AcceptedWithKey(q.token) /\ d = Answer(q, "unauthenticated") BY <1>2, <3>5
    <3> QED BY <3>1, <3>3, <3>4, <3>5, IdentifiedSound
  <2>2. CASE LookUp(q.token.kid) = "missing"
    <3>1. d = Answer(q, "unauthenticated") BY <1>5, <2>2 DEF Dispatched, Authenticate
    <3>2. q.token.kid \notin cache.keys /\ ~ MayForce(now) BY <2>2 DEF LookUp
    <3> QED BY <1>2, <3>1, <3>2
  <2>3. CASE LookUp(q.token.kid) = "refresh"
    <3>1. d = [q EXCEPT !.stage = "refresh"] BY <1>5, <2>3 DEF Dispatched, Authenticate
    <3>2. CacheExpired BY <2>3 DEF LookUp
    <3> QED BY <1>1, <1>5, <3>1, <3>2
  <2>4. CASE LookUp(q.token.kid) = "force"
    <3>1. d = [q EXCEPT !.stage = "force"] BY <1>5, <2>4 DEF Dispatched, Authenticate
    <3>2. MayForce(now) BY <2>4 DEF LookUp
    <3> QED BY <1>1, <1>5, <3>1, <3>2
  <2> QED BY <2>1, <2>2, <2>3, <2>4 DEF LookUp
<1> QED BY <1>3, <1>4, <1>5

\* What becomes of a request when the refresh it waited for has succeeded.
LEMMA ResumedSound ==
  ASSUME TypeInv, NEW q \in Records, q.token \in Presented, q.stage \in Waiting
  PROVE  LET d == Resumed(q) IN
         /\ d \in Records
         /\ \/ /\ d.stage \in {"unusable", "unauthenticated"}
               /\ d.stage = "unauthenticated" /\ AcceptedWithKey(q.token) =>
                    /\ q.token.kid \notin cache.keys
                    /\ q.stage = "force" \/ ~ MayForce(q.at)
            \/ /\ d.stage = "authorizing" /\ d = [q EXCEPT !.stage = "authorizing", !.at = now]
               /\ q.token.kid \in cache.keys
            \/ /\ d.stage = "force" /\ d = [q EXCEPT !.stage = "force"]
               /\ q.stage = "refresh" /\ MayForce(q.at)
<1> PICK d : d = Resumed(q) OBVIOUS
<1> PICK found : found = LookUpAgain(q.token.kid, q.at, q.stage = "force") OBVIOUS
<1>0. q \in Drafts /\ now \in 0..MaxTime BY DEF Records, Drafts, TypeInv, SigningKeysTypeOK
<1>1. ASSUME NEW answer \in {"unusable", "unauthenticated"}
      PROVE  /\ Answer(q, answer) \in Records /\ Answer(q, answer).stage = answer
             /\ [Answer(q, answer) EXCEPT !.at = now] \in Records
             /\ [Answer(q, answer) EXCEPT !.at = now].stage = answer
  <2>1. answer \in Answers /\ answer # "served" BY DEF Answers
  <2>2. Answer(q, answer) \in Records /\ Answer(q, answer).stage = answer
    BY <1>0, <2>1, Answered
  <2> QED BY <1>0, <2>2 DEF Records
<1>2. CASE found = "found"
  <2>1. d = [Identified(q) EXCEPT !.at = now] BY <1>2 DEF Resumed
  <2>2. q.token.kid \in cache.keys BY <1>2 DEF LookUpAgain
  <2>3. CASE Identified(q) = [q EXCEPT !.stage = "authorizing"]
    <3>1. "authorizing" \in Stages BY DEF Stages, Queued
    <3>2. d = [q EXCEPT !.stage = "authorizing", !.at = now] BY <2>1, <2>3 DEF Records
    <3>3. d \in Records /\ d.stage = "authorizing" BY <1>0, <3>1, <3>2 DEF Records
    <3> QED BY <2>2, <3>2, <3>3
  <2>4. CASE Identified(q) = Answer(q, "unusable") BY <1>1, <2>1, <2>4
  <2>5. CASE ~ AcceptedWithKey(q.token) /\ Identified(q) = Answer(q, "unauthenticated")
    BY <1>1, <2>1, <2>5
  <2> QED BY <2>3, <2>4, <2>5, IdentifiedSound
<1>3. CASE found = "force"
  <2>1. d = [q EXCEPT !.stage = "force"] BY <1>3 DEF Resumed
  <2>2. q.stage # "force" /\ MayForce(q.at) BY <1>3 DEF LookUpAgain
  <2>3. "force" \in Stages BY DEF Stages, Waiting
  <2>4. d \in Records /\ d.stage = "force" BY <2>1, <2>3 DEF Records
  <2> QED BY <2>1, <2>2, <2>4 DEF Waiting
<1>4. CASE found = "missing"
  <2>1. d = Answer(q, "unauthenticated") BY <1>4 DEF Resumed
  <2>2. q.token.kid \notin cache.keys /\ (q.stage = "force" \/ ~ MayForce(q.at))
    BY <1>4 DEF LookUpAgain
  <2> QED BY <1>1, <2>1, <2>2
<1> QED BY <1>2, <1>3, <1>4 DEF LookUpAgain
-----------------------------------------------------------------------------
(* The keys                                                                  *)

\* How old the cache must be before the provider is asked again.
OldEnough == now >= lastRefreshAt + MinInterval \/ now >= lastRefreshAt + TTL

\* The provider is asked again only by a step that found the cache old enough.
AskedAgain ==
  /\ UNCHANGED <<now, published, cache, lastRefreshAt>>
  /\ OldEnough
  /\ fetch' = [stage |-> "asked", began |-> now, keys |-> {}]

KeyStep ==
  \/ UNCHANGED <<now, keyVars>>
  \/ AskedAgain
  \/ UNCHANGED <<now, published, cache, lastRefreshAt>> /\ fetch' = NoFetch
  \/ FetchAnswered /\ UNCHANGED now
  \/ FetchStored /\ UNCHANGED now
  \/ \E k \in KeyIds : (Publish(k) \/ Withdraw(k)) /\ UNCHANGED now
  \/ Tick

\* A lookup that waits found the cache old enough.
LEMMA LookUpsAreSpaced ==
  ASSUME TypeInv, KeysInv
  PROVE  /\ CacheExpired => OldEnough
         /\ \A at \in 0..MaxTime : at <= now /\ MayForce(at) => OldEnough
<1>1. now \in 0..MaxTime /\ lastRefreshAt \in 0..MaxTime /\ TTL \in Nat /\ MinInterval \in Nat
      /\ MaxTime \in Nat
  BY ClockAssumption DEF TypeInv, SigningKeysTypeOK
<1>2. CacheExpired => OldEnough BY <1>1 DEF KeysInv, CacheExpired, OldEnough
<1>3. ASSUME NEW at \in 0..MaxTime, at <= now, MayForce(at) PROVE OldEnough
  BY <1>1, <1>3 DEF MayForce, OldEnough
<1> QED BY <1>2, <1>3

\* What is known of the keys survives each step of theirs.
LEMMA KeysKept ==
  ASSUME TypeInv, KeysInv, KeyStep
  PROVE  SigningKeysTypeOK' /\ KeysInv'
<1>1. /\ now \in 0..MaxTime /\ lastRefreshAt \in 0..MaxTime /\ MaxTime \in Nat
      /\ TTL \in Nat /\ TTL > 0 /\ MinInterval \in Nat /\ Timeout \in Nat /\ Timeout > 0
      /\ Never = MaxTime + 1
      /\ cache.keys \subseteq KeyIds /\ cache.expiresAt \in Nat
      /\ cache = [keys |-> cache.keys, expiresAt |-> cache.expiresAt]
      /\ fetch = [stage |-> fetch.stage, began |-> fetch.began, keys |-> fetch.keys]
      /\ fetch.stage \in {"none", "asked", "answered", "recording"}
      /\ fetch.began \in 0..MaxTime /\ fetch.keys \subseteq KeyIds
      /\ \A k \in KeyIds : published[k].from \in 0..Never /\ published[k].until \in 0..Never
  BY ClockAssumption DEF TypeInv, SigningKeysTypeOK, Never
<1>2. CASE UNCHANGED <<now, keyVars>>
  BY <1>2 DEF TypeInv, SigningKeysTypeOK, KeysInv, keyVars, PublishedSince, MissingSince, Awaited
<1>3. CASE AskedAgain
  <2>1. /\ UNCHANGED <<now, published, cache, lastRefreshAt>>
        /\ fetch' = [stage |-> "asked", began |-> now, keys |-> {}]
        /\ fetch'.stage = "asked" /\ fetch'.began = now
    BY <1>3 DEF AskedAgain
  <2>2. SigningKeysTypeOK' BY <1>1, <2>1 DEF TypeInv, SigningKeysTypeOK
  <2>3. KeysInv'
    BY <1>1, <1>3, <2>1 DEF AskedAgain, OldEnough, KeysInv, PublishedSince, MissingSince, Awaited
  <2> QED BY <2>2, <2>3
<1>4. CASE UNCHANGED <<now, published, cache, lastRefreshAt>> /\ fetch' = NoFetch
  <2>1. fetch'.stage = "none" BY <1>4 DEF NoFetch
  <2>2. fetch' \in [stage : {"none", "asked", "answered", "recording"},
                    began : 0..MaxTime, keys : SUBSET KeyIds]
    BY <1>1, <1>4 DEF NoFetch
  <2>3. SigningKeysTypeOK' BY <1>4, <2>2 DEF TypeInv, SigningKeysTypeOK
  <2>4. KeysInv' BY <1>4, <2>1 DEF KeysInv, PublishedSince, MissingSince, Awaited
  <2> QED BY <2>3, <2>4
<1>5. CASE FetchAnswered /\ UNCHANGED now
  <2>1. /\ UNCHANGED <<now, published, cache, lastRefreshAt>> /\ fetch.stage = "asked"
        /\ fetch' = [stage |-> "answered", began |-> fetch.began, keys |-> PublishedNow]
        /\ fetch'.stage = "answered" /\ fetch'.began = fetch.began
        /\ fetch'.keys = PublishedNow
    BY <1>1, <1>5 DEF FetchAnswered
  <2>2. PublishedNow \subseteq KeyIds BY DEF PublishedNow
  <2>3. SigningKeysTypeOK' BY <1>1, <2>1, <2>2 DEF TypeInv, SigningKeysTypeOK
  <2>4. /\ \A k \in fetch'.keys : published[k].until >= fetch.began
        /\ \A k \in KeyIds \ fetch'.keys :
             published[k].until # Never \/ published[k].from >= fetch.began
    BY <1>1, <2>1 DEF KeysInv, PublishedNow
  <2>5. KeysInv' BY <2>1, <2>4 DEF KeysInv, PublishedSince, MissingSince, Awaited
  <2> QED BY <2>3, <2>5
<1>6. CASE FetchStored /\ UNCHANGED now
  <2>1. /\ UNCHANGED <<now, published>> /\ fetch.stage = "answered" /\ lastRefreshAt' = now
        /\ cache' = [keys |-> fetch.keys, expiresAt |-> now + TTL]
        /\ cache'.keys = fetch.keys /\ cache'.expiresAt = now + TTL
        /\ fetch' = [stage |-> "recording", began |-> fetch.began, keys |-> {}]
        /\ fetch'.stage = "recording" /\ fetch'.began = fetch.began
    BY <1>1, <1>6 DEF FetchStored, ExpiresAt
  <2>2. SigningKeysTypeOK' BY <1>1, <2>1 DEF TypeInv, SigningKeysTypeOK
  <2>3. /\ \A k \in fetch.keys : published[k].until >= now - Timeout
        /\ \A k \in KeyIds \ fetch.keys :
             published[k].until # Never \/ published[k].from >= now - Timeout
    BY <1>1, <2>1 DEF KeysInv, PublishedSince, MissingSince
  <2>4. KeysInv' BY <1>1, <2>1, <2>3 DEF KeysInv, PublishedSince, MissingSince, Awaited
  <2> QED BY <2>2, <2>4
<1>7. CASE \E k \in KeyIds : (Publish(k) \/ Withdraw(k)) /\ UNCHANGED now
  <2>1. PICK k \in KeyIds : Publish(k) \/ Withdraw(k) BY <1>7
  <2>2. UNCHANGED <<now, cache, lastRefreshAt, fetch>> BY <1>7, <2>1 DEF Publish, Withdraw
  <2>3. /\ published' \in [KeyIds -> [from : 0..Never, until : 0..Never]]
        /\ \A j \in KeyIds \ {k} : published'[j] = published[j]
        /\ \/ /\ published'[k].until = published[k].until /\ published'[k].from = now
              /\ published[k].from = Never
           \/ /\ published'[k].until = now /\ published'[k].from = published[k].from
              /\ published[k].until = Never
    <3>1. published \in [KeyIds -> [from : 0..Never, until : 0..Never]] /\ now \in 0..Never
      BY <1>1 DEF TypeInv, SigningKeysTypeOK
    <3>2. CASE Publish(k)
      <4>1. published' = [published EXCEPT ![k].from = now] /\ published[k].from = Never
        BY <3>2 DEF Publish
      <4> QED BY <3>1, <4>1
    <3>3. CASE Withdraw(k)
      <4>1. published' = [published EXCEPT ![k].until = now] /\ published[k].until = Never
        BY <3>3 DEF Withdraw
      <4> QED BY <3>1, <4>1
    <3> QED BY <2>1, <3>2, <3>3
  <2>4. SigningKeysTypeOK' BY <2>2, <2>3 DEF TypeInv, SigningKeysTypeOK
  <2>5. ASSUME NEW t \in Int, t <= now, NEW j \in KeyIds
        PROVE  /\ published[j].until >= t => published'[j].until >= t
               /\ published[j].until # Never \/ published[j].from >= t =>
                    published'[j].until # Never \/ published'[j].from >= t
    BY <1>1, <2>3, <2>5
  <2>6. lastRefreshAt - Timeout \in Int /\ lastRefreshAt - Timeout <= now
    BY <1>1 DEF KeysInv
  <2>7. fetch.stage # "none" => fetch.began \in Int /\ fetch.began <= now
    BY <1>1 DEF KeysInv
  <2>8. KeysInv'
    BY <1>1, <2>2, <2>5, <2>6, <2>7 DEF KeysInv, PublishedSince, MissingSince, Awaited
  <2> QED BY <2>4, <2>8
<1>8. CASE Tick
  <2>1. /\ UNCHANGED keyVars /\ now' = now + 1 /\ now < MaxTime /\ fetch.stage # "recording"
        /\ Awaited => now < fetch.began + Timeout
    BY <1>8 DEF Tick
  <2>2. SigningKeysTypeOK' BY <1>1, <2>1 DEF TypeInv, SigningKeysTypeOK, keyVars
  <2>3. KeysInv'
    BY <1>1, <2>1 DEF KeysInv, PublishedSince, MissingSince, Awaited, keyVars
  <2> QED BY <2>2, <2>3
<1> QED BY <1>2, <1>3, <1>4, <1>5, <1>6, <1>7, <1>8 DEF KeyStep

-----------------------------------------------------------------------------
(* The requests                                                              *)

RequestsType == req \in [Requests -> Records]

\* One request takes a step; the clock and the records of access stand still.
LEMMA OneRequest ==
  ASSUME TypeInv, RequestsInv, NEW r \in Requests, NEW d \in Records,
         req' = [req EXCEPT ![r] = d], UNCHANGED <<now, access>>,
         fetch.stage # "none" => fetch'.stage # "none" /\ fetch'.began = fetch.began,
         RequestSound(d, now, fetch', project, membership)
  PROVE  RequestsType' /\ RequestsInv'
<1>1. req \in [Requests -> Records] BY DEF TypeInv
<1>2. req' \in [Requests -> Records] BY <1>1
<1>3. ASSUME NEW q \in Requests
      PROVE  RequestSound(req'[q], now', fetch', project', membership')
  <2>1. CASE q = r BY <1>1, <2>1 DEF access
  <2>2. CASE q # r
    <3>1. req'[q] = req[q] BY <1>1, <2>2
    <3>2. RequestSound(req[q], now, fetch, project, membership) BY DEF RequestsInv
    <3>3. req[q].stage \in Waiting => fetch'.stage # "none" /\ fetch'.began = fetch.began
      BY <3>2 DEF RequestSound
    <3>4. RequestSound(req[q], now, fetch', project, membership) BY <3>2, <3>3, Undisturbed
    <3> QED BY <3>1, <3>4 DEF access
  <2> QED BY <2>1, <2>2
<1> QED BY <1>2, <1>3 DEF RequestsType, RequestsInv

\* A request is answered, or moves on, on its own.
LEMMA OneMoves ==
  ASSUME TypeInv, RequestsInv, NEW r \in Requests, Active(req[r]),
         UNCHANGED <<now, access, fetch>>,
         \/ \E answer \in Answers :
              /\ req' = [req EXCEPT ![r] = Answer(req[r], answer)]
              /\ answer = "served" => req[r].granted
         \/ \E stage \in Queued \union Holding :
              /\ req' = [req EXCEPT ![r] = [req[r] EXCEPT !.stage = stage]]
              /\ stage \in Passed => req[r].granted
  PROVE  RequestsType' /\ RequestsInv'
<1> PICK q : q = req[r] OBVIOUS
<1>1. q \in Records /\ q \in Drafts BY DEF TypeInv, Records, Drafts
<1>2. RequestSound(q, now, fetch, project, membership) BY DEF RequestsInv
<1>3. q.token \in Presented BY <1>2 DEF RequestSound
<1>0. fetch' = fetch /\ UNCHANGED <<now, access>> /\ Active(q) OBVIOUS
<1>4. CASE \E answer \in Answers :
             /\ req' = [req EXCEPT ![r] = Answer(req[r], answer)]
             /\ answer = "served" => req[r].granted
  <2>1. PICK answer \in Answers :
          /\ req' = [req EXCEPT ![r] = Answer(q, answer)]
          /\ answer = "served" => q.granted
    BY <1>4
  <2> PICK d : d = Answer(q, answer) OBVIOUS
  <2>2. d \in Records /\ \A t, f, p, m : RequestSound(d, t, f, p, m)
    BY <1>1, <1>3, <2>1, Answered
  <2>3. RequestSound(d, now, fetch', project, membership) BY <2>2
  <2>4. req' = [req EXCEPT ![r] = d] BY <2>1
  <2> QED BY <1>0, <2>2, <2>3, <2>4, OneRequest
<1>5. CASE \E stage \in Queued \union Holding :
             /\ req' = [req EXCEPT ![r] = [req[r] EXCEPT !.stage = stage]]
             /\ stage \in Passed => req[r].granted
  <2>1. PICK stage \in Queued \union Holding :
          /\ req' = [req EXCEPT ![r] = [q EXCEPT !.stage = stage]]
          /\ stage \in Passed => q.granted
    BY <1>5
  <2> PICK d : d = [q EXCEPT !.stage = stage] OBVIOUS
  <2>2. d \in Records /\ RequestSound(d, now, fetch, project, membership)
    BY <1>0, <1>1, <1>2, <2>1, MovedSound
  <2>3. RequestSound(d, now, fetch', project, membership) BY <1>0, <2>2
  <2>4. req' = [req EXCEPT ![r] = d] BY <2>1
  <2> QED BY <1>0, <2>2, <2>3, <2>4, OneRequest
<1> QED BY <1>4, <1>5

\* A refresh fails: whoever waited is answered, and no fetch is in flight.
LEMMA WaitersFail ==
  ASSUME TypeInv, RequestsInv, FailWaiting, UNCHANGED <<now, access>>
  PROVE  RequestsType' /\ RequestsInv'
<1>1. req \in [Requests -> Records] BY DEF TypeInv
<1>2. ASSUME NEW r \in Requests
      PROVE  req'[r] \in Records /\ RequestSound(req'[r], now', fetch', project', membership')
  <2> PICK q : q = req[r] OBVIOUS
  <2>1. q \in Records /\ q \in Drafts BY <1>1 DEF Records, Drafts
  <2>2. RequestSound(q, now, fetch, project, membership) BY DEF RequestsInv
  <2>3. CASE q.stage \in Waiting
    <3>1. q.token \in Presented BY <2>2, <2>3 DEF RequestSound, Active
    <3>2. "failed" \in Answers BY DEF Answers
    <3>3. req'[r] = Answer(q, "failed") BY <2>3 DEF FailWaiting
    <3> QED BY <2>1, <3>1, <3>2, <3>3, Answered
  <2>4. CASE q.stage \notin Waiting
    <3>1. req'[r] = q BY <2>4 DEF FailWaiting
    <3>2. RequestSound(q, now, fetch', project, membership) BY <2>2, <2>4, Undisturbed
    <3> QED BY <2>1, <3>1, <3>2 DEF access
  <2> QED BY <2>3, <2>4
<1>3. req' \in [Requests -> Records] BY <1>2 DEF FailWaiting
<1> QED BY <1>2, <1>3 DEF RequestsType, RequestsInv

\* Arrivals: the request is answered, asks for authorization, or waits for a
\* fetch that is in flight now.
LEMMA ArrivalSound ==
  ASSUME TypeInv, KeysInv, RequestsInv, NEW r \in Requests, NEW token \in Presented,
         Arrive(r, token)
  PROVE  RequestsType' /\ RequestsInv' /\ KeyStep
<1> PICK q : q = [stage |-> "new", token |-> token, arrived |-> now, at |-> now,
                  granted |-> /\ InForce(project, membership) /\ Covers(membership, now)
                              /\ Grants(membership, ActionOf(token.call))]
  OBVIOUS
<1> PICK d : d = Dispatched(q) OBVIOUS
<1>1. /\ req' = [req EXCEPT ![r] = d] /\ UNCHANGED <<now, published, cache, lastRefreshAt, access>>
      /\ fetch' = IF d.stage \in Waiting THEN Refreshed(fetch) ELSE fetch
  BY DEF Arrive
<1>2. now \in 0..MaxTime /\ MaxTime \in Nat /\ Timeout \in Nat
  BY ClockAssumption DEF TypeInv, SigningKeysTypeOK
<1>3. /\ q.stage = "new" /\ q.token = token /\ q.arrived = now /\ q.at = now
      /\ q.granted = (/\ InForce(project, membership) /\ Covers(membership, now)
                      /\ Grants(membership, ActionOf(token.call)))
  OBVIOUS
<1>4. q.granted \in BOOLEAN BY <1>3 DEF InForce
<1>5. q \in Drafts BY <1>2, <1>4 DEF Drafts, Carried
<1>6. q.granted <=> AllowedSince(q, project, membership, now)
  <2>1. \A at : at \in q.arrived..now <=> at = now BY <1>2, <1>3
  <2> QED BY <1>3, <2>1 DEF AllowedSince
<1>7. /\ d \in Records
      /\ \/ d.stage \in {"limited", "unusable", "unauthenticated"}
         \/ /\ d = [q EXCEPT !.stage = d.stage] /\ AcceptedBeforeKey(token, now)
            /\ \/ d.stage = "authorizing"
               \/ d.stage = "refresh" /\ CacheExpired
               \/ d.stage = "force" /\ MayForce(now)
  BY <1>3, <1>5, <1>6, DispatchedSound
<1>8. RequestSound(d, now, fetch', project, membership)
  <2>1. CASE d.stage \in {"limited", "unusable", "unauthenticated"}
    <3>1. d.stage \in Answers /\ d.stage # "served" BY <2>1 DEF Answers
    <3> QED BY <3>1, OverSound
  <2>2. CASE /\ d = [q EXCEPT !.stage = d.stage] /\ AcceptedBeforeKey(token, now)
             /\ d.stage \in {"authorizing", "refresh", "force"}
    <3>1. /\ d.token = token /\ d.arrived = now /\ d.at = now /\ d.granted = q.granted
      BY <1>3, <2>2
    <3>2. AllowedSince(d, project, membership, now) => d.granted
      BY <1>3, <1>6, <3>1 DEF AllowedSince
    <3>3. d.stage \in Waiting => fetch'.stage # "none" /\ fetch'.began <= now
      <4> SUFFICES ASSUME d.stage \in Waiting
                   PROVE  fetch'.stage # "none" /\ fetch'.began <= now
        OBVIOUS
      <4>1. fetch' = Refreshed(fetch) BY <1>1
      <4>2. CASE fetch.stage = "none" BY <1>2, <4>1, <4>2 DEF Refreshed
      <4>3. CASE fetch.stage # "none" BY <4>1, <4>3 DEF Refreshed, KeysInv
      <4> QED BY <4>2, <4>3
    <3>4. d.stage \in Waiting =>
            fetch'.began <= d.at + (IF d.stage = "force" THEN Timeout ELSE 0)
      <4>1. fetch' \in [stage : {"none", "asked", "answered", "recording"},
                        began : 0..MaxTime, keys : SUBSET KeyIds]
        BY <1>1, <1>2 DEF Refreshed, TypeInv, SigningKeysTypeOK
      <4> QED BY <1>2, <3>1, <3>3, <4>1
    <3>5. d.stage \notin Passed BY <2>2 DEF Passed
    <3> QED BY <1>2, <2>2, <3>1, <3>2, <3>3, <3>4, <3>5 DEF RequestSound
  <2> QED BY <1>7, <2>1, <2>2
<1>9. fetch.stage # "none" => fetch'.stage # "none" /\ fetch'.began = fetch.began
  BY <1>1 DEF Refreshed
<1>10. RequestsType' /\ RequestsInv' BY <1>1, <1>7, <1>8, <1>9, OneRequest
<1>11. KeyStep
  <2>1. CASE fetch' = fetch BY <1>1, <2>1 DEF KeyStep, keyVars
  <2>2. CASE fetch' # fetch
    <3>1. d.stage \in Waiting /\ fetch' = [stage |-> "asked", began |-> now, keys |-> {}]
      BY <1>1, <2>2 DEF Refreshed
    <3>2. d.stage \in {"refresh", "force"} BY <3>1 DEF Waiting
    <3>3. CacheExpired \/ MayForce(now) BY <1>7, <3>2
    <3>4. OldEnough BY <1>2, <3>3, LookUpsAreSpaced
    <3> QED BY <1>1, <3>1, <3>4 DEF KeyStep, AskedAgain
  <2> QED BY <2>1, <2>2
<1> QED BY <1>10, <1>11

\* The refresh settles: whoever waited goes on, is answered, or asks once more.
LEMMA RefreshSound ==
  ASSUME TypeInv, KeysInv, RequestsInv, RefreshSucceeds
  PROVE  RequestsType' /\ RequestsInv' /\ KeyStep
<1>1. /\ fetch.stage = "recording" /\ UNCHANGED <<now, published, cache, lastRefreshAt, access>>
      /\ req' = [r \in Requests |-> Resumed(req[r])]
      /\ fetch' = IF \E r \in Requests : req'[r].stage = "force" THEN Refreshed(NoFetch) ELSE NoFetch
  BY DEF RefreshSucceeds
<1>2. /\ req \in [Requests -> Records] /\ now \in 0..MaxTime /\ MaxTime \in Nat /\ Timeout \in Nat
      /\ fetch.began \in 0..MaxTime
  BY ClockAssumption DEF TypeInv, SigningKeysTypeOK
<1>3. Refreshed(NoFetch) = [stage |-> "asked", began |-> now, keys |-> {}]
  BY DEF Refreshed, NoFetch
<1>4. now <= fetch.began + Timeout BY <1>1 DEF KeysInv
<1>5. ASSUME NEW r \in Requests
      PROVE  /\ req'[r] \in Records /\ RequestSound(req'[r], now, fetch', project, membership)
             /\ req'[r].stage = "force" => OldEnough
  <2> PICK q : q = req[r] OBVIOUS
  <2> PICK d : d = Resumed(q) OBVIOUS
  <2>1. q \in Records /\ req'[r] = d BY <1>1, <1>2
  <2>2. RequestSound(q, now, fetch, project, membership) BY DEF RequestsInv
  <2>3. CASE q.stage \notin Waiting
    <3>1. d = q BY <2>3 DEF Resumed
    <3>2. RequestSound(q, now, fetch', project, membership) BY <2>2, <2>3, Undisturbed
    <3>3. q.stage # "force" BY <2>3 DEF Waiting
    <3> QED BY <2>1, <3>1, <3>2, <3>3
  <2>4. CASE q.stage \in Waiting
    <3>1. /\ q.token \in Presented /\ q.arrived <= q.at /\ q.at <= now
          /\ AllowedSince(q, project, membership, now) => q.granted
          /\ AcceptedBeforeKey(q.token, q.at)
          /\ fetch.began <= q.at + (IF q.stage = "force" THEN Timeout ELSE 0)
      BY <2>2, <2>4 DEF RequestSound, Active
    <3>2. /\ d \in Records
          /\ \/ d.stage \in {"unusable", "unauthenticated"}
             \/ d.stage = "authorizing" /\ d = [q EXCEPT !.stage = "authorizing", !.at = now]
             \/ /\ d.stage = "force" /\ d = [q EXCEPT !.stage = "force"]
                /\ q.stage = "refresh" /\ MayForce(q.at)
      <4>1. q.token \in Presented BY <3>1
      <4>2. q \in Records BY <2>1
      <4> QED BY <2>4, <4>1, <4>2, ResumedSound
    <3>3. q.at \in 0..MaxTime /\ q.arrived \in 0..MaxTime BY <2>1 DEF Records
    <3>4. CASE d.stage \in {"unusable", "unauthenticated"}
      <4>1. d.stage \in Answers /\ d.stage # "served" /\ d.stage # "force" BY <3>4 DEF Answers
      <4>2. \A t, f, p, m : RequestSound(d, t, f, p, m) BY <4>1, OverSound
      <4> QED BY <2>1, <3>2, <4>1, <4>2
    <3>5. CASE d.stage = "authorizing" /\ d = [q EXCEPT !.stage = "authorizing", !.at = now]
      <4>1. /\ d.token = q.token /\ d.arrived = q.arrived /\ d.at = now /\ d.granted = q.granted
        BY <2>1, <3>5 DEF Records
      <4>2. AllowedSince(d, project, membership, now) => d.granted
        BY <3>1, <4>1 DEF AllowedSince
      <4>3. d.stage \notin Passed /\ d.stage \notin Waiting BY <3>5 DEF Passed, Waiting
      <4>4. d.arrived <= d.at /\ d.at <= now BY <1>2, <3>1, <3>3, <4>1
      <4>5. RequestSound(d, now, fetch', project, membership)
        BY <3>1, <4>1, <4>2, <4>3, <4>4 DEF RequestSound
      <4> QED BY <2>1, <3>2, <3>5, <4>5
    <3>6. CASE /\ d.stage = "force" /\ d = [q EXCEPT !.stage = "force"]
               /\ q.stage = "refresh" /\ MayForce(q.at)
      <4>1. /\ d.token = q.token /\ d.arrived = q.arrived /\ d.at = q.at /\ d.granted = q.granted
        BY <2>1, <3>6 DEF Records
      <4>2. AllowedSince(d, project, membership, now) => d.granted
        BY <3>1, <4>1 DEF AllowedSince
      <4>3. fetch'.stage # "none" /\ fetch'.began = now
        <5>1. \E x \in Requests : req'[x].stage = "force" BY <2>1, <3>6
        <5>2. fetch' = [stage |-> "asked", began |-> now, keys |-> {}] BY <1>1, <1>3, <5>1
        <5> QED BY <5>2
      <4>4. now <= q.at + Timeout BY <1>2, <1>4, <3>1, <3>3, <3>6
      <4>5. d.stage \notin Passed BY <3>6 DEF Passed
      <4>6. RequestSound(d, now, fetch', project, membership)
        BY <3>1, <3>6, <4>1, <4>2, <4>3, <4>4, <4>5 DEF RequestSound
      <4>7. OldEnough BY <3>1, <3>3, <3>6, LookUpsAreSpaced
      <4> QED BY <2>1, <3>2, <4>6, <4>7
    <3> QED BY <3>2, <3>4, <3>5, <3>6
  <2> QED BY <2>3, <2>4
<1>6. req' \in [Requests -> Records] BY <1>1, <1>5
<1>7. KeyStep
  <2>1. CASE fetch' = NoFetch BY <1>1, <2>1 DEF KeyStep
  <2>2. CASE fetch' # NoFetch
    <3>1. fetch' = [stage |-> "asked", began |-> now, keys |-> {}] /\ OldEnough
      BY <1>1, <1>3, <1>5, <2>2
    <3> QED BY <1>1, <3>1 DEF KeyStep, AskedAgain
  <2> QED BY <2>1, <2>2
<1>8. RequestsInv'
  <2>1. UNCHANGED <<now, project, membership>> BY <1>1 DEF access
  <2> QED BY <1>5, <2>1 DEF RequestsInv
<1> QED BY <1>6, <1>7, <1>8 DEF RequestsType

\* The records change, or time passes: what they now grant is noted.
LEMMA RememberedSound ==
  ASSUME TypeInv, RequestsInv, now \in Nat, now' \in Nat, now <= now', UNCHANGED fetch,
         req' = Remember(project', membership', now')
  PROVE  RequestsType' /\ RequestsInv'
<1>1. req \in [Requests -> Records] BY DEF TypeInv
<1>2. ASSUME NEW r \in Requests
      PROVE  req'[r] \in Records /\ RequestSound(req'[r], now', fetch', project', membership')
  <2> PICK q : q = req[r] OBVIOUS
  <2>1. q \in Records BY <1>1
  <2>2. RequestSound(q, now, fetch, project, membership) BY DEF RequestsInv
  <2> PICK d : d = req'[r] OBVIOUS
  <2>3. CASE ~ Active(q)
    <3>1. d = q BY <2>3 DEF Remember
    <3>2. q.stage \notin Waiting BY <2>3 DEF Active
    <3> QED BY <2>1, <2>2, <2>3, <3>1, <3>2 DEF RequestSound
  <2>4. CASE Active(q)
    <3> PICK granted \in BOOLEAN :
          granted = (q.granted \/ AllowedSince(q, project', membership', now'))
      OBVIOUS
    <3>1. d = [q EXCEPT !.granted = granted] BY <2>4 DEF Remember
    <3>2. /\ d \in Records /\ d.stage = q.stage /\ d.token = q.token /\ d.at = q.at
          /\ d.arrived = q.arrived /\ d.granted = granted
      BY <2>1, <3>1 DEF Records
    <3>3. AllowedSince(d, project', membership', now') => d.granted
      BY <3>2 DEF AllowedSince
    <3>4. q.granted => d.granted BY <3>2
    <3>5. q.at \in Nat /\ q.at <= now' BY <2>1, <2>2, <2>4 DEF RequestSound, Records
    <3>6. RequestSound(d, now', fetch', project', membership')
      BY <2>2, <2>4, <3>2, <3>3, <3>4, <3>5 DEF RequestSound, Active
    <3> QED BY <3>2, <3>6
  <2> QED BY <2>3, <2>4
<1>3. req' \in [Requests -> Records] BY <1>2 DEF Remember
<1> QED BY <1>2, <1>3 DEF RequestsType, RequestsInv

\* Steps in which no request moves.
LEMMA NoneMoves ==
  ASSUME TypeInv, RequestsInv, UNCHANGED <<now, access, req>>,
         fetch.stage # "none" => fetch'.stage # "none" /\ fetch'.began = fetch.began
  PROVE  RequestsType' /\ RequestsInv'
<1>1. ASSUME NEW r \in Requests
      PROVE  RequestSound(req[r], now, fetch', project, membership)
  <2>1. RequestSound(req[r], now, fetch, project, membership) BY DEF RequestsInv
  <2>2. req[r].stage \in Waiting => fetch'.stage # "none" /\ fetch'.began = fetch.began
    BY <2>1 DEF RequestSound
  <2> QED BY <2>1, <2>2, Undisturbed
<1>2. UNCHANGED <<now, project, membership, req>> BY DEF access
<1> QED BY <1>1, <1>2 DEF TypeInv, RequestsType, RequestsInv

\* A process that has warmed its cache and has served nobody.
LEMMA Begun ==
  ASSUME Init
  PROVE  Inv
<1>1. /\ MaxTime \in Nat /\ TTL \in Nat /\ Timeout \in Nat /\ Never = MaxTime + 1
      /\ Warmed \subseteq KeyIds
  BY ClockAssumption, WarmedAssumption DEF Never
<1>2. /\ now = 0 /\ lastRefreshAt = 0 /\ cache = [keys |-> Warmed, expiresAt |-> TTL]
      /\ fetch = NoFetch /\ fetch.stage = "none"
      /\ \A k \in KeyIds : /\ published[k].until = Never
                           /\ published[k].from = IF k \in Warmed THEN 0 ELSE Never
  BY DEF Init, SigningKeysInit, NoFetch
<1>3. SigningKeysTypeOK
  <2>1. published \in [KeyIds -> [from : 0..Never, until : 0..Never]]
    BY <1>1 DEF Init, SigningKeysInit
  <2>2. cache \in [keys : SUBSET KeyIds, expiresAt : Nat] BY <1>1, <1>2
  <2>3. fetch \in [stage : {"none", "asked", "answered", "recording"},
                   began : 0..MaxTime, keys : SUBSET KeyIds]
    BY <1>1, <1>2 DEF NoFetch
  <2> QED BY <1>1, <1>2, <2>1, <2>2, <2>3 DEF SigningKeysTypeOK
<1>4. KeysInv BY <1>1, <1>2 DEF KeysInv, PublishedSince, MissingSince, Awaited
<1>5. ASSUME NEW r \in Requests PROVE req[r] = Unused BY DEF Init
<1>6. Unused \in Records /\ Unused.stage = "unused"
  BY <1>1 DEF Unused, Records, Stages, Carried
<1>7. req \in [Requests -> Records] BY <1>6 DEF Init
<1>8. RequestsInv BY <1>5, <1>6, OverSound DEF RequestsInv
<1> QED BY <1>3, <1>4, <1>7, <1>8 DEF Inv, TypeInv

\* Every step keeps what is known of the requests, and treats the keys as one of
\* the steps of KeyStep.
LEMMA EachStep ==
  ASSUME Inv, [Next]_vars
  PROVE  RequestsType' /\ RequestsInv' /\ KeyStep
<1>0. /\ TypeInv /\ KeysInv /\ RequestsInv /\ req \in [Requests -> Records]
      /\ now \in 0..MaxTime /\ MaxTime \in Nat
  BY ClockAssumption DEF Inv, TypeInv, SigningKeysTypeOK
<1>1. CASE \E r \in Requests : Malformed(r) \/ \E token \in Presented : Unroutable(r, token)
  <2> PICK d : d = [Unused EXCEPT !.stage = "refused"] OBVIOUS
  <2>1. PICK r \in Requests : req' = [req EXCEPT ![r] = d] /\ UNCHANGED <<now, keyVars, access>>
    BY <1>1 DEF Malformed, Unroutable
  <2>2. d \in Records /\ d.stage = "refused"
    <3>1. Unused \in Records BY <1>0 DEF Unused, Records, Stages, Carried
    <3>2. "refused" \in Stages BY DEF Stages, Answers
    <3> QED BY <3>1, <3>2 DEF Records
  <2>3. RequestSound(d, now, fetch', project, membership) BY <2>2, OverSound DEF Answers
  <2>4. fetch' = fetch BY <2>1 DEF keyVars
  <2>5. RequestsType' /\ RequestsInv' BY <1>0, <2>1, <2>2, <2>3, <2>4, OneRequest
  <2> QED BY <2>1, <2>5 DEF KeyStep
<1>2. CASE \E r \in Requests, token \in Presented : Arrive(r, token)
  BY <1>0, <1>2, ArrivalSound
<1>3. CASE ReadinessRefresh
  <2>1. /\ fetch.stage = "none" /\ fetch' = [stage |-> "asked", began |-> now, keys |-> {}]
        /\ CacheExpired /\ UNCHANGED <<now, published, cache, lastRefreshAt, access, req>>
    BY <1>3 DEF ReadinessRefresh, NoFetch, Refreshed
  <2>2. OldEnough BY <1>0, <2>1, LookUpsAreSpaced
  <2>3. RequestsType' /\ RequestsInv' BY <1>0, <2>1, NoneMoves
  <2> QED BY <2>1, <2>2, <2>3 DEF KeyStep, AskedAgain
<1>4. CASE RefreshSucceeds BY <1>0, <1>4, RefreshSound
<1>5. CASE RefreshAborted \/ RefreshFails
  <2>1. /\ FailWaiting /\ UNCHANGED <<now, access>> /\ fetch' = NoFetch
        /\ UNCHANGED <<published, cache, lastRefreshAt>>
    BY <1>5 DEF RefreshAborted, RefreshFails, FetchAborted, FetchFails
  <2> QED BY <1>0, <2>1, WaitersFail DEF KeyStep
<1>6. CASE \E r \in Requests : \/ Connect(r) \/ ConnectTimesOut(r) \/ Decide(r)
                               \/ Read(r) \/ ReadTimeline(r) \/ StatementFails(r)
  <2>1. PICK r \in Requests : \/ Connect(r) \/ ConnectTimesOut(r) \/ Decide(r)
                             \/ Read(r) \/ ReadTimeline(r) \/ StatementFails(r)
    BY <1>6
  <2> PICK q : q = req[r] OBVIOUS
  <2>2. UNCHANGED <<now, keyVars, access>>
    BY <2>1 DEF Connect, ConnectTimesOut, Decide, Read, ReadTimeline, StatementFails
  <2>3. q \in Records /\ RequestSound(q, now, fetch, project, membership)
    BY <1>0 DEF RequestsInv
  <2>4. q.stage \in Queued \union Holding
    BY <2>1 DEF Connect, ConnectTimesOut, Decide, Read, ReadTimeline, StatementFails, Holding
  <2>5. Active(q) BY <2>4 DEF Active
  <2>6. q.stage \in Passed => q.granted BY <2>3 DEF RequestSound
  <2>7. \/ \E answer \in Answers :
             /\ req' = [req EXCEPT ![r] = Answer(req[r], answer)]
             /\ answer = "served" => req[r].granted
        \/ \E stage \in Queued \union Holding :
             /\ req' = [req EXCEPT ![r] = [req[r] EXCEPT !.stage = stage]]
             /\ stage \in Passed => req[r].granted
    <3>1. {"failed", "forbidden", "unusable", "served", "not_found"} \subseteq Answers
      BY DEF Answers
    <3>2. CASE Connect(r)
      <4>1. CASE q.stage = "authorizing"
        <5>1. req' = [req EXCEPT ![r] = [req[r] EXCEPT !.stage = "deciding"]]
          BY <3>2, <4>1 DEF Connect
        <5>2. "deciding" \in Queued \union Holding /\ "deciding" \notin Passed
          BY DEF Holding, Passed
        <5> QED BY <5>1, <5>2, Zenon
      <4>2. CASE q.stage = "permitted"
        <5>1. req' = [req EXCEPT ![r] = [req[r] EXCEPT !.stage = "reading"]]
          BY <3>2, <4>2 DEF Connect
        <5> QED BY <2>6, <4>2, <5>1 DEF Holding, Passed
      <4>3. CASE q.stage = "found"
        <5>1. req' = [req EXCEPT ![r] = [req[r] EXCEPT !.stage = "listing"]]
          BY <3>2, <4>3 DEF Connect
        <5> QED BY <2>6, <4>3, <5>1 DEF Holding, Passed
      <4> QED BY <3>2, <4>1, <4>2, <4>3 DEF Connect, Queued
    <3>3. CASE ConnectTimesOut(r) \/ StatementFails(r)
      BY <3>1, <3>3 DEF ConnectTimesOut, StatementFails
    <3>4. CASE Decide(r)
      <4>1. CASE ~ Evaluate(ActionOf(q.token.call), q.at) \/ UnusableAfter(q.token.call)
        <5>1. /\ "forbidden" \in Answers /\ "forbidden" # "served"
              /\ "unusable" \in Answers /\ "unusable" # "served"
          BY <3>1
        <5>2. CASE req' = [req EXCEPT ![r] = Answer(req[r], "forbidden")]
          BY <5>1, <5>2, Zenon
        <5>3. CASE req' = [req EXCEPT ![r] = Answer(req[r], "unusable")]
          BY <5>1, <5>3, Zenon
        <5> QED BY <3>4, <4>1, <5>2, <5>3 DEF Decide
      <4>2. CASE Evaluate(ActionOf(q.token.call), q.at) /\ ~ UnusableAfter(q.token.call)
        <5>1. req' = [req EXCEPT ![r] = [req[r] EXCEPT !.stage = "permitted"]]
          BY <3>4, <4>2 DEF Decide
        <5>2. q.at \in q.arrived..now BY <1>0, <2>3, <2>5 DEF RequestSound, Records
        <5>3. AllowedSince(q, project, membership, now)
          BY <4>2, <5>2 DEF Evaluate, AllowedSince
        <5>4. q.granted BY <2>3, <2>5, <5>3 DEF RequestSound
        <5> QED BY <5>1, <5>4 DEF Queued
      <4> QED BY <4>1, <4>2
    <3>5. CASE Read(r)
      <4>1. q.granted BY <2>6, <3>5 DEF Read, Passed
      <4>2. \E answer \in {"served", "not_found"} :
              req' = [req EXCEPT ![r] = Answer(req[r], answer)]
        BY <3>5 DEF Read
      <4> QED BY <3>1, <4>1, <4>2
    <3>6. CASE ReadTimeline(r)
      <4>1. CASE req' = [req EXCEPT ![r] = Answer(req[r], "not_found")] BY <3>1, <4>1
      <4>2. CASE /\ q.stage = "reading"
                 /\ req' = [req EXCEPT ![r] = [req[r] EXCEPT !.stage = "found"]]
        BY <2>6, <4>2 DEF Passed, Queued
      <4>3. CASE /\ q.stage = "listing"
                 /\ req' = [req EXCEPT ![r] = Answer(req[r], "served")]
        BY <2>6, <3>1, <4>3 DEF Passed
      <4> QED BY <3>6, <4>1, <4>2, <4>3 DEF ReadTimeline
    <3> QED BY <2>1, <3>2, <3>3, <3>4, <3>5, <3>6
  <2>8. UNCHANGED <<now, access, fetch>> BY <2>2 DEF keyVars
  <2>9. RequestsType' /\ RequestsInv' BY <1>0, <2>5, <2>7, <2>8, OneMoves
  <2> QED BY <2>2, <2>9 DEF KeyStep
<1>7. CASE (FetchAnswered \/ FetchStored) /\ UNCHANGED <<now, access, windows, req>>
  <2>1. fetch'.stage # "none" /\ fetch'.began = fetch.began
    BY <1>0, <1>7 DEF FetchAnswered, FetchStored, TypeInv, SigningKeysTypeOK
  <2>2. RequestsType' /\ RequestsInv' BY <1>0, <1>7, <2>1, NoneMoves
  <2> QED BY <1>7, <2>2 DEF KeyStep
<1>8. CASE Rotate
  <2>1. fetch' = fetch /\ UNCHANGED <<now, access, req>> BY <1>8 DEF Rotate, Publish, Withdraw
  <2>2. RequestsType' /\ RequestsInv' BY <1>0, <2>1, NoneMoves
  <2> QED BY <1>8, <2>1, <2>2 DEF Rotate, KeyStep
<1>9. CASE AdministratorActs
  <2>1. /\ UNCHANGED <<now, keyVars>> /\ now' = now /\ fetch' = fetch
        /\ req' = Remember(project', membership', now)
    BY <1>9 DEF AdministratorActs, keyVars
  <2>2. req' = Remember(project', membership', now') BY <2>1
  <2>3. RequestsType' /\ RequestsInv' BY <1>0, <2>1, <2>2, RememberedSound
  <2> QED BY <2>1, <2>3 DEF KeyStep
<1>10. CASE TimePasses
  <2>1. /\ Tick /\ UNCHANGED access /\ now' = now + 1 /\ fetch' = fetch
        /\ req' = Remember(project, membership, now')
    BY <1>10 DEF TimePasses, Tick, keyVars
  <2>2. req' = Remember(project', membership', now') BY <2>1 DEF access
  <2>3. now \in Nat /\ now' \in Nat /\ now <= now' BY <1>0, <2>1
  <2>4. RequestsType' /\ RequestsInv' BY <1>0, <2>1, <2>2, <2>3, RememberedSound
  <2> QED BY <2>1, <2>4 DEF KeyStep
<1>11. CASE UNCHANGED vars
  <2>1. UNCHANGED <<now, access, req>> /\ UNCHANGED <<now, keyVars>> /\ fetch' = fetch
    BY <1>11 DEF vars, keyVars
  <2>2. RequestsType' /\ RequestsInv' BY <1>0, <2>1, NoneMoves
  <2> QED BY <2>1, <2>2 DEF KeyStep
<1> QED
  BY <1>1, <1>2, <1>3, <1>4, <1>5, <1>6, <1>7, <1>8, <1>9, <1>10, <1>11 DEF Next, Progress

\* Every step keeps the invariant.
LEMMA Stepped ==
  ASSUME Inv, [Next]_vars
  PROVE  Inv'
<1>1. RequestsType' /\ RequestsInv' /\ KeyStep BY EachStep
<1>2. SigningKeysTypeOK' /\ KeysInv' BY <1>1, KeysKept DEF Inv
<1> QED BY <1>1, <1>2 DEF Inv, TypeInv, RequestsType

\* In every reachable state the cache is the provider's answer to a fetch of bounded
\* length (remote-jwks-provider.js), and of every request at work it is known which
\* grants and which fetch it may rely on.
THEOREM Invariance == Spec => []Inv
<1>1. Init => Inv BY Begun
<1>2. Inv /\ [Next]_vars => Inv' BY Stepped
<1> QED BY <1>1, <1>2, PTL DEF Spec

-----------------------------------------------------------------------------
(* What follows for the properties                                           *)

\* A request passes authorization, and is served, only on a grant of some moment
\* since it arrived: the decision reads the records once, under a client it may
\* have waited for, and nothing about the request is decided before.
THEOREM GrantsAreRecent == Spec => []GrantedDuringRequest
<1>1. Inv => GrantedDuringRequest
  BY DEF Inv, RequestsInv, RequestSound, GrantedDuringRequest, Passed
<1> QED BY <1>1, Invariance, PTL

\* Successful fetches are the minimum interval apart, or the lifetime of the keys
\* they replace, however many requests ask for unknown keys at once.
THEOREM FetchesAreSpaced == Spec => RefreshesSpaced
<1>1. ASSUME Inv, [Next]_vars, lastRefreshAt' # lastRefreshAt
      PROVE  \/ lastRefreshAt' >= lastRefreshAt + MinInterval
             \/ lastRefreshAt' >= lastRefreshAt + TTL
  <2>1. KeyStep BY <1>1, EachStep
  <2>2. FetchStored
    BY <1>1, <2>1 DEF KeyStep, keyVars, AskedAgain, FetchAnswered, Publish, Withdraw, Tick
  <2>3. fetch.stage = "answered" /\ lastRefreshAt' = now BY <2>2 DEF FetchStored
  <2> QED BY <1>1, <2>3 DEF Inv, KeysInv, Awaited
<1> QED BY <1>1, Invariance, PTL DEF Spec, RefreshesSpaced

\* Authentication decides at two points only: when the request arrives, or when
\* the refresh it waited for has succeeded.
LEMMA Turn ==
  ASSUME Inv, [Next]_vars, NEW r \in Requests, NEW stage \in {"authorizing", "unauthenticated"},
         req[r].stage # stage, req'[r].stage = stage
  PROVE  \/ req[r].stage = "unused" /\ \E token \in Presented : Arrive(r, token)
         \/ RefreshSucceeds /\ req[r].stage \in Waiting
<1> PICK q : q = req[r] OBVIOUS
<1>1. req \in [Requests -> Records] /\ q \in Records BY DEF Inv, TypeInv
<1>2. ASSUME NEW x \in Requests, NEW d, req' = [req EXCEPT ![x] = d]
      PROVE  x = r /\ d.stage = stage
  BY <1>1, <1>2
<1>3. ASSUME NEW answer PROVE Answer(q, answer).stage = answer
  BY <1>1 DEF Answer, Records
<1>4. ASSUME NEW s PROVE [q EXCEPT !.stage = s].stage = s BY <1>1 DEF Records
<1>5. CASE \E x \in Requests : Malformed(x) \/ \E token \in Presented : Unroutable(x, token)
  <2> PICK d : d = [Unused EXCEPT !.stage = "refused"] OBVIOUS
  <2>1. PICK x \in Requests : req' = [req EXCEPT ![x] = d]
    BY <1>5 DEF Malformed, Unroutable
  <2>2. d.stage = "refused" BY DEF Unused
  <2> QED BY <1>2, <2>1, <2>2
<1>6. CASE \E x \in Requests, token \in Presented : Arrive(x, token)
  <2>1. PICK x \in Requests, token \in Presented : Arrive(x, token) BY <1>6
  <2>2. x = r BY <1>2, <2>1 DEF Arrive
  <2> QED BY <2>1, <2>2 DEF Arrive, NextNumber
<1>7. CASE ReadinessRefresh BY <1>7 DEF ReadinessRefresh
<1>8. CASE RefreshSucceeds
  <2>1. req'[r] = Resumed(q) BY <1>8 DEF RefreshSucceeds
  <2>2. q.stage \in Waiting BY <2>1 DEF Resumed
  <2> QED BY <1>8, <2>2
<1>9. CASE RefreshAborted \/ RefreshFails
  <2>1. req'[r] = q \/ req'[r] = Answer(q, "failed")
    BY <1>9 DEF RefreshAborted, RefreshFails, FailWaiting
  <2> QED BY <1>3, <2>1
<1>10. CASE \E x \in Requests :
              \/ Connect(x) \/ ConnectTimesOut(x) \/ Decide(x)
              \/ Read(x) \/ ReadTimeline(x) \/ StatementFails(x)
  <2>1. PICK x \in Requests : \/ Connect(x) \/ ConnectTimesOut(x) \/ Decide(x)
                             \/ Read(x) \/ ReadTimeline(x) \/ StatementFails(x)
    BY <1>10
  <2>2. x = r
    BY <1>2, <2>1 DEF Connect, ConnectTimesOut, Decide, Read, ReadTimeline, StatementFails
  <2>3. CASE Connect(r)
    <3>1. req'[r].stage \in {"deciding", "reading", "listing"}
      BY <1>1, <2>3 DEF Connect, Queued, Records
    <3> QED BY <3>1
  <2>4. CASE ConnectTimesOut(r) \/ StatementFails(r)
    <3>1. req'[r] = Answer(q, "failed") BY <1>1, <2>4 DEF ConnectTimesOut, StatementFails
    <3> QED BY <1>3, <3>1
  <2>5. CASE Decide(r)
    <3>1. \/ req'[r] = Answer(q, "forbidden") \/ req'[r] = Answer(q, "unusable")
          \/ req'[r] = [q EXCEPT !.stage = "permitted"]
      BY <1>1, <2>5 DEF Decide
    <3> QED BY <1>3, <1>4, <3>1
  <2>6. CASE Read(r) \/ ReadTimeline(r)
    <3>1. \/ req'[r] = Answer(q, "served") \/ req'[r] = Answer(q, "not_found")
          \/ req'[r] = [q EXCEPT !.stage = "found"]
      BY <1>1, <2>6 DEF Read, ReadTimeline
    <3> QED BY <1>3, <1>4, <3>1
  <2> QED BY <2>1, <2>2, <2>3, <2>4, <2>5, <2>6
<1>11. CASE \/ (FetchAnswered \/ FetchStored) /\ UNCHANGED <<now, access, windows, req>>
            \/ Rotate \/ UNCHANGED vars
  BY <1>11 DEF Rotate, vars
<1>12. CASE AdministratorActs \/ TimePasses
  <2>1. PICK p, m, t : req' = Remember(p, m, t) BY <1>12 DEF AdministratorActs, TimePasses
  <2> PICK granted : granted = (q.granted \/ AllowedSince(q, p, m, t)) OBVIOUS
  <2>2. req'[r] = q \/ req'[r] = [q EXCEPT !.granted = granted] BY <2>1 DEF Remember
  <2>3. req'[r].stage = q.stage BY <1>1, <2>2 DEF Records
  <2> QED BY <2>3
<1> QED
  BY <1>5, <1>6, <1>7, <1>8, <1>9, <1>10, <1>11, <1>12 DEF Next, Progress

\* The decision at arrival: by the cache, which has not expired.
LEMMA DecidedAtArrival ==
  ASSUME Inv, NEW r \in Requests, NEW token \in Presented, Arrive(r, token),
         req'[r].stage \in {"authorizing", "unauthenticated"}
  PROVE  /\ req'[r].stage = "authorizing" =>
              /\ req'[r].token = token /\ AcceptedBeforeKey(token, now)
              /\ token.kid \in cache.keys /\ now < lastRefreshAt + TTL
         /\ /\ req'[r].stage = "unauthenticated"
            /\ AcceptedBeforeKey(token, now) /\ AcceptedWithKey(token)
            => token.kid \notin cache.keys /\ ~ MayForce(now)
<1> PICK granted \in BOOLEAN :
      granted = (/\ InForce(project, membership) /\ Covers(membership, now)
                 /\ Grants(membership, ActionOf(token.call)))
  OBVIOUS
<1> PICK q : q = [stage |-> "new", token |-> token, arrived |-> now, at |-> now, granted |-> granted]
  OBVIOUS
<1> PICK d : d = Dispatched(q) OBVIOUS
<1>1. now \in 0..MaxTime /\ req \in [Requests -> Records]
  BY DEF Inv, TypeInv, SigningKeysTypeOK
<1>2. q \in Drafts
  <2>1. token \in Carried /\ "new" \in Stages \union {"new"} BY DEF Carried
  <2> QED BY <1>1, <2>1 DEF Drafts
<1>3. q.token = token /\ q.arrived = now /\ q.at = now /\ q.granted = granted OBVIOUS
<1>4. q.granted <=> AllowedSince(q, project, membership, now)
  <2>1. \A at : at \in q.arrived..now <=> at = now BY <1>1, <1>3
  <2> QED BY <1>3, <2>1 DEF AllowedSince
<1>5. req'[r] = d BY <1>1 DEF Arrive
<1>6. \/ /\ d.stage \in {"limited", "unusable", "unauthenticated"}
         /\ d.stage = "unauthenticated" /\ AcceptedBeforeKey(token, now)
              /\ AcceptedWithKey(token) => token.kid \notin cache.keys /\ ~ MayForce(now)
      \/ /\ d = [q EXCEPT !.stage = d.stage] /\ AcceptedBeforeKey(token, now)
         /\ \/ d.stage = "authorizing" /\ token.kid \in cache.keys /\ ~ CacheExpired
            \/ d.stage \in {"refresh", "force"}
  <2>1. TypeInv BY DEF Inv
  <2>2. q.token \in Presented BY <1>3
  <2> QED BY <1>2, <1>3, <1>4, <2>1, <2>2, DispatchedSound
<1>7. ~ CacheExpired => now < lastRefreshAt + TTL
  <2>1. lastRefreshAt \in 0..MaxTime /\ TTL \in Nat /\ cache.expiresAt = lastRefreshAt + TTL
    BY ClockAssumption DEF Inv, TypeInv, SigningKeysTypeOK, KeysInv
  <2> QED BY <1>1, <2>1 DEF CacheExpired
<1> QED BY <1>3, <1>5, <1>6, <1>7

\* The decision after a refresh: by the keys fetched this moment.
LEMMA DecidedAfterRefresh ==
  ASSUME Inv, NEW r \in Requests, RefreshSucceeds, req[r].stage \in Waiting,
         req'[r].stage \in {"authorizing", "unauthenticated"}
  PROVE  LET q == req[r] IN
         /\ lastRefreshAt = now /\ q.at \in 0..MaxTime /\ q.at <= now /\ now <= q.at + 2 * Timeout
         /\ q.token \in Presented /\ AcceptedBeforeKey(q.token, q.at)
         /\ req'[r].stage = "authorizing" =>
              req'[r].token = q.token /\ q.token.kid \in cache.keys
         /\ req'[r].stage = "unauthenticated" /\ AcceptedWithKey(q.token) =>
              q.token.kid \notin cache.keys
<1> PICK q : q = req[r] OBVIOUS
<1>1. /\ req \in [Requests -> Records] /\ q \in Records /\ q.at \in 0..MaxTime
      /\ now \in 0..MaxTime /\ fetch.began \in 0..MaxTime /\ Timeout \in Nat
  BY ClockAssumption DEF Inv, TypeInv, SigningKeysTypeOK, Records
<1>2. req'[r] = Resumed(q) /\ fetch.stage = "recording" BY DEF RefreshSucceeds
<1>3. /\ q.token \in Presented /\ q.at <= now /\ AcceptedBeforeKey(q.token, q.at)
      /\ fetch.began <= q.at + (IF q.stage = "force" THEN Timeout ELSE 0)
  <2>1. RequestSound(q, now, fetch, project, membership) BY DEF Inv, RequestsInv
  <2> QED BY <2>1 DEF RequestSound, Active
<1>4. lastRefreshAt = now /\ now <= fetch.began + Timeout BY <1>2 DEF Inv, KeysInv
<1>5. now <= q.at + 2 * Timeout BY <1>1, <1>3, <1>4
<1>6. /\ Resumed(q).stage = "authorizing" =>
           Resumed(q) = [q EXCEPT !.stage = "authorizing", !.at = now] /\ q.token.kid \in cache.keys
      /\ Resumed(q).stage = "unauthenticated" /\ AcceptedWithKey(q.token) =>
           q.token.kid \notin cache.keys
  <2>1. TypeInv /\ q.token \in Presented /\ q.stage \in Waiting BY <1>3 DEF Inv
  <2> QED BY <1>1, <2>1, ResumedSound
<1>7. [q EXCEPT !.stage = "authorizing", !.at = now].token = q.token BY <1>1 DEF Records
<1> QED BY <1>1, <1>2, <1>3, <1>4, <1>5, <1>6, <1>7

\* The constants of the clock and the times of a key are numbers.
LEMMA Times ==
  ASSUME Inv
  PROVE  /\ now \in Nat /\ lastRefreshAt \in Nat /\ lastRefreshAt <= now
         /\ TTL \in Nat /\ TTL > 0 /\ Timeout \in Nat /\ MinInterval \in Nat /\ Skew \in Nat
         /\ \A k \in KeyIds : published[k].from \in Int /\ published[k].until \in Int
<1>1. /\ now \in 0..MaxTime /\ lastRefreshAt \in 0..MaxTime /\ lastRefreshAt <= now
      /\ MaxTime \in Nat /\ TTL \in Nat /\ TTL > 0 /\ Timeout \in Nat /\ MinInterval \in Nat
  BY ClockAssumption DEF Inv, TypeInv, SigningKeysTypeOK, KeysInv
<1>2. Skew \in Nat BY ConfigurationAssumption DEF ConfigurationAccepted
<1>3. published \in [KeyIds -> [from : 0..Never, until : 0..Never]] /\ 0..Never \subseteq Int
  BY DEF Inv, TypeInv, SigningKeysTypeOK
<1>4. \A k \in KeyIds : published[k].from \in Int /\ published[k].until \in Int BY <1>3
<1> QED BY <1>1, <1>2, <1>4

\* No request is authenticated by a key withdrawn longer ago than the cache's
\* lifetime and one fetch, nor with a token expired for longer than the skew and
\* two fetches, even if the provider stops answering.
THEOREM KeysAreCurrent == Spec => KeysCurrent
<1>1. ASSUME Inv, [Next]_vars, NEW r \in Requests, Authenticates(r)
      PROVE  /\ published[req'[r].token.kid].until > LookUpClock(r) - TTL - Timeout
             /\ req'[r].token.exp > now - Skew - 2 * Timeout
  <2>1. req[r].stage # "authorizing" /\ req'[r].stage = "authorizing" BY <1>1 DEF Authenticates
  <2>2. "unused" \notin Waiting BY DEF Waiting
  <2>3. CASE req[r].stage = "unused" /\ \E token \in Presented : Arrive(r, token)
    <3>1. PICK token \in Presented : Arrive(r, token) BY <2>3
    <3>2. /\ req'[r].token = token /\ AcceptedBeforeKey(token, now)
          /\ token.kid \in cache.keys /\ now < lastRefreshAt + TTL
      BY <1>1, <2>1, <3>1, DecidedAtArrival
    <3>3. published[token.kid].until >= lastRefreshAt - Timeout
      BY <1>1, <3>2 DEF Inv, KeysInv, PublishedSince
    <3>4. token.exp > now - Skew BY <3>2 DEF AcceptedBeforeKey, ValidClaims
    <3>5. token.kid \in KeyIds /\ token.exp \in Int BY PresentedAssumption
    <3>6. LookUpClock(r) = now BY <2>3 DEF LookUpClock
    <3> QED BY <1>1, <3>2, <3>3, <3>4, <3>5, <3>6, Times
  <2>4. CASE RefreshSucceeds /\ req[r].stage \in Waiting
    <3> PICK q : q = req[r] OBVIOUS
    <3>1. /\ lastRefreshAt = now /\ q.at \in 0..MaxTime /\ q.at <= now
          /\ now <= q.at + 2 * Timeout /\ q.token \in Presented
          /\ AcceptedBeforeKey(q.token, q.at)
          /\ req'[r].token = q.token /\ q.token.kid \in cache.keys
      BY <1>1, <2>1, <2>4, DecidedAfterRefresh
    <3>2. published[q.token.kid].until >= lastRefreshAt - Timeout
      BY <1>1, <3>1 DEF Inv, KeysInv, PublishedSince
    <3>3. q.token.exp > q.at - Skew BY <3>1 DEF AcceptedBeforeKey, ValidClaims
    <3>4. q.token.kid \in KeyIds /\ q.token.exp \in Int BY <3>1, PresentedAssumption
    <3>5. LookUpClock(r) = q.at BY <2>2, <2>4 DEF LookUpClock
    <3> QED BY <1>1, <3>1, <3>2, <3>3, <3>4, <3>5, Times
  <2> QED BY <1>1, <2>1, <2>3, <2>4, Turn
<1>2. Inv /\ [Next]_vars =>
        \A r \in Requests : Authenticates(r) =>
          /\ published[req'[r].token.kid].until > LookUpClock(r) - TTL - Timeout
          /\ req'[r].token.exp > now - Skew - 2 * Timeout
  BY <1>1
<1> QED BY <1>2, Invariance, PTL DEF Spec, KeysCurrent

\* An acceptable token is refused for its key only if the key was withdrawn or is
\* younger than the refresh interval and one fetch.  With no interval at all the
\* bound is met exactly by a request that joins a fetch at its deadline.
THEOREM NewKeysAreAccepted ==
  ASSUME MinInterval > 0
  PROVE  Spec => NewKeysAccepted
<1>1. ASSUME Inv, [Next]_vars, NEW r \in Requests, NEW token \in Presented, Refuses(r, token)
      PROVE  \/ published[token.kid].until # Never
             \/ published[token.kid].from > LookUpClock(r) - MinInterval - Timeout
  <2>1. /\ req[r].stage # "unauthenticated" /\ req'[r].stage = "unauthenticated"
        /\ IF req[r].stage = "unused" THEN Arrive(r, token) ELSE req[r].token = token
        /\ AcceptedBeforeKey(token, LookUpClock(r)) /\ AcceptedWithKey(token)
    BY <1>1 DEF Refuses
  <2>2. token.kid \in KeyIds BY PresentedAssumption
  <2>3. token.kid \notin cache.keys =>
          \/ published[token.kid].until # Never
          \/ published[token.kid].from >= lastRefreshAt - Timeout
    BY <1>1, <2>2 DEF Inv, KeysInv, MissingSince
  <2>4. CASE req[r].stage = "unused"
    <3>1. LookUpClock(r) = now /\ Arrive(r, token) BY <2>1, <2>4 DEF LookUpClock
    <3>2. token.kid \notin cache.keys /\ ~ MayForce(now)
      BY <1>1, <2>1, <3>1, DecidedAtArrival
    <3>3. now - lastRefreshAt < MinInterval BY <1>1, <3>2, Times DEF MayForce
    <3> QED BY <1>1, <2>2, <2>3, <3>1, <3>2, <3>3, Times
  <2>5. CASE req[r].stage # "unused"
    <3> PICK q : q = req[r] OBVIOUS
    <3>1. RefreshSucceeds /\ q.stage \in Waiting BY <1>1, <2>1, <2>5, Turn
    <3>2. /\ lastRefreshAt = now /\ q.at \in 0..MaxTime /\ q.at <= now
          /\ token.kid \notin cache.keys
      BY <1>1, <2>1, <2>5, <3>1, DecidedAfterRefresh
    <3>3. LookUpClock(r) = q.at BY <2>5 DEF LookUpClock
    <3> QED BY <1>1, <2>2, <2>3, <3>2, <3>3, Times
  <2> QED BY <2>4, <2>5
<1>2. Inv /\ [Next]_vars =>
        \A r \in Requests, token \in Presented : Refuses(r, token) =>
          \/ published[token.kid].until # Never
          \/ published[token.kid].from > LookUpClock(r) - MinInterval - Timeout
  BY <1>1
<1> QED BY <1>2, Invariance, PTL DEF Spec, NewKeysAccepted

-----------------------------------------------------------------------------
(* The rate limiter's map                                                    *)

\* The windows the map remembers, and what is known of the map at time t: one
\* window a key, each touched in the window it counts for.
Credentials == {token.credential : token \in Presented}
Entries == [key : Credentials, windowStart : Nat, count : Nat, touchedAt : Nat]

OnePerKey(ws) == \A i, j \in DOMAIN ws : ws[i].key = ws[j].key => i = j

\* An entry e, and a map ws, at time t.
EntrySound(e, t) == e.touchedAt <= t /\ e.windowStart = WindowStart(e.touchedAt)
MapSound(ws, t) ==
  /\ ws \in Seq(Entries) /\ OnePerKey(ws)
  /\ \A i \in DOMAIN ws : EntrySound(ws[i], t)

\* Windows partition time.
LEMMA WindowLaws ==
  ASSUME NEW a \in Nat, NEW b \in Nat, a <= b
  PROVE  /\ WindowStart(a) \in Nat /\ WindowStart(a) <= a
         /\ WindowStart(WindowStart(a)) = WindowStart(a)
         /\ WindowStart(a) <= WindowStart(b)
         /\ WindowStart(b) <= a => WindowStart(a) = WindowStart(b)
<1> PICK n \in Nat : n = WindowMs /\ n > 0 BY LimiterAssumption
<1> PICK x \in Nat, y \in Nat : x = a \div n /\ y = b \div n OBVIOUS
<1>1. x * n <= a /\ a < x * n + n /\ y * n <= b /\ b < y * n + n OBVIOUS
<1>2. WindowStart(a) = x * n /\ WindowStart(b) = y * n /\ x * n \in Nat /\ y * n \in Nat
  BY DEF WindowStart
<1>3. (x * n) \div n = x OBVIOUS
<1>4. x <= y BY <1>1
<1>5. x * n <= y * n BY <1>4
<1>6. ASSUME y * n <= a PROVE x = y
  <2>1. y <= x BY <1>1, <1>6
  <2> QED BY <1>4, <2>1
<1> QED BY <1>1, <1>2, <1>3, <1>5, <1>6 DEF WindowStart

\* What is left of a sequence without its i-th element.
LEMMA Removed ==
  ASSUME NEW S, NEW ws \in Seq(S), NEW i \in DOMAIN ws
  PROVE  /\ RemoveAt(ws, i) \in Seq(S) /\ Len(RemoveAt(ws, i)) = Len(ws) - 1
         /\ \A j \in 1..(Len(ws) - 1) : RemoveAt(ws, i)[j] = IF j < i THEN ws[j] ELSE ws[j + 1]
<1> PICK n \in Nat : n = Len(ws) OBVIOUS
<1> PICK a, b : a = SubSeq(ws, 1, i - 1) /\ b = SubSeq(ws, i + 1, n) OBVIOUS
<1>1. i \in 1..n /\ DOMAIN ws = 1..n OBVIOUS
<1>2. a \in Seq(S) /\ Len(a) = i - 1 /\ \A j \in 1..(i - 1) : a[j] = ws[j] BY <1>1
<1>3. b \in Seq(S) /\ Len(b) = n - i /\ \A j \in 1..(n - i) : b[j] = ws[i + j] BY <1>1
<1>4. RemoveAt(ws, i) = a \o b BY DEF RemoveAt
<1>5. a \o b \in Seq(S) /\ Len(a \o b) = n - 1 BY <1>1, <1>2, <1>3
<1>6. ASSUME NEW j \in 1..(n - 1)
      PROVE  (a \o b)[j] = IF j < i THEN ws[j] ELSE ws[j + 1]
  <2>1. CASE j < i
    <3>1. (a \o b)[j] = a[j] BY <1>1, <1>2, <1>3, <2>1
    <3> QED BY <1>1, <1>2, <2>1, <3>1
  <2>2. CASE ~ (j < i)
    <3>1. (a \o b)[j] = b[j - (i - 1)]
      <4>1. ~ (j <= Len(a)) /\ j \in 1..(Len(a) + Len(b)) BY <1>1, <1>2, <1>3, <2>2
      <4>2. \A k \in 1..(Len(a) + Len(b)) :
              (a \o b)[k] = IF k <= Len(a) THEN a[k] ELSE b[k - Len(a)]
        <5>1. a \in Seq(S) /\ b \in Seq(S) BY <1>2, <1>3
        <5> QED BY <5>1, ConcatProperties, Zenon
      <4> QED BY <1>2, <4>1, <4>2
    <3>2. j - (i - 1) \in 1..(n - i) /\ i + (j - (i - 1)) = j + 1 BY <1>1, <2>2
    <3> QED BY <1>3, <2>2, <3>1, <3>2
  <2> QED BY <2>1, <2>2
<1> QED BY <1>4, <1>5, <1>6

\* Of a map with windows there is one touched longest ago, first among equals.
LEMMA OldestExists ==
  ASSUME NEW ws \in Seq(Entries), Len(ws) > 0
  PROVE  \E i \in DOMAIN ws : \A j \in DOMAIN ws \ {i} :
           \/ ws[i].touchedAt < ws[j].touchedAt
           \/ ws[i].touchedAt = ws[j].touchedAt /\ i < j
<1> DEFINE R == OpToRel(<, Nat)
           T == {ws[i].touchedAt : i \in DOMAIN ws}
<1>1. \A i \in DOMAIN ws : ws[i] \in Entries /\ ws[i].touchedAt \in Nat /\ i \in Nat
  <2>1. DOMAIN ws = 1..Len(ws) /\ Len(ws) \in Nat OBVIOUS
  <2>2. \A i \in DOMAIN ws : ws[i] \in Entries OBVIOUS
  <2>3. \A e \in Entries : e.touchedAt \in Nat BY DEF Entries
  <2> QED BY <2>1, <2>2, <2>3
<1>2. 1 \in DOMAIN ws OBVIOUS
<1>3. IsWellFoundedOn(R, Nat) BY NatLessThanWellFounded
<1>4. \A x, y \in Nat : <<x, y>> \in R <=> x < y BY DEF OpToRel
<1>5. PICK t \in T : \A u \in T : ~ (<<u, t>> \in R)
  <2>1. T \subseteq Nat /\ T # {} BY <1>1, <1>2
  <2> HIDE DEF R, T
  <2> QED BY <1>3, <2>1, WFMin
<1> DEFINE I == {i \in DOMAIN ws : ws[i].touchedAt = t}
<1>6. PICK i \in I : \A j \in I : ~ (<<j, i>> \in R)
  <2>1. I \subseteq Nat /\ I # {} BY <1>1, <1>5
  <2> HIDE DEF R, I
  <2> QED BY <1>3, <2>1, WFMin
<1>7. i \in DOMAIN ws /\ i \in Nat /\ ws[i].touchedAt = t /\ t \in Nat BY <1>1, <1>6
<1>8. ASSUME NEW j \in DOMAIN ws \ {i}
      PROVE  \/ ws[i].touchedAt < ws[j].touchedAt
             \/ ws[i].touchedAt = ws[j].touchedAt /\ i < j
  <2>1. j \in Nat /\ ws[j].touchedAt \in Nat BY <1>1
  <2>2. ~ (ws[j].touchedAt < t) BY <1>4, <1>5, <1>7, <2>1
  <2>3. CASE ws[j].touchedAt = t
    <3>1. j \in I BY <2>3
    <3>2. ~ (j < i) BY <1>4, <1>6, <1>7, <2>1, <3>1
    <3> QED BY <1>7, <2>1, <2>3, <3>2
  <2> QED BY <1>7, <2>1, <2>2, <2>3
<1> QED BY <1>7, <1>8

\* The states the map holds.
Held(ws) == {ws[i] : i \in DOMAIN ws}

\* The entries of a sound map, whatever their order.
LEMMA HeldSound ==
  ASSUME NEW t \in Nat, NEW ws, MapSound(ws, t)
  PROVE  /\ Len(ws) \in Nat /\ DOMAIN ws = 1..Len(ws)
         /\ \A e \in Held(ws) : /\ e \in Entries /\ EntrySound(e, t)
                                /\ e.touchedAt \in Nat /\ e.windowStart \in Nat
                                /\ e.count \in Nat /\ e.key \in Credentials
<1>1. ws \in Seq(Entries) BY DEF MapSound
<1>2. \A e \in Held(ws) : e \in Entries /\ EntrySound(e, t) BY <1>1 DEF Held, MapSound
<1> QED BY <1>1, <1>2 DEF Entries

\* What consume finds for a key, and what it makes of it.
LEMMA FoundState ==
  ASSUME NEW t \in Nat, NEW ws, MapSound(ws, t), NEW k \in Credentials
  PROVE  LET found == StateOf(ws, k, t)
             e == Touched(ws, k, t)
         IN  /\ \A x \in Held(ws) : x.key = k /\ x.windowStart = WindowStart(t) => found = x
             /\ (\A x \in Held(ws) : ~ (x.key = k /\ x.windowStart = WindowStart(t))) =>
                  found.count = 0
             /\ found.count \in Nat
             /\ e \in Entries /\ EntrySound(e, t) /\ e.key = k /\ e.windowStart = WindowStart(t)
             /\ e.count = IF found.count < Limit THEN found.count + 1 ELSE found.count
<1> PICK found, e : found = StateOf(ws, k, t) /\ e = Touched(ws, k, t) OBVIOUS
<1> PICK w \in Nat : w = WindowStart(t) BY WindowLaws
<1> DEFINE known == {i \in DOMAIN ws : ws[i].key = k /\ ws[i].windowStart = w}
<1>1. \A i, j \in known : i = j BY DEF MapSound, OnePerKey
<1>2. found = IF known = {}
              THEN [key |-> k, windowStart |-> w, count |-> 0, touchedAt |-> t]
              ELSE ws[CHOOSE i \in known : TRUE]
  BY DEF StateOf
<1>3. ASSUME known = {}
      PROVE  /\ found \in Entries /\ found.key = k /\ found.windowStart = w /\ found.count = 0
             /\ \A x \in Held(ws) : ~ (x.key = k /\ x.windowStart = w)
  <2>1. found = [key |-> k, windowStart |-> w, count |-> 0, touchedAt |-> t] BY <1>2, <1>3
  <2>2. found \in Entries /\ found.key = k /\ found.windowStart = w /\ found.count = 0
    BY <2>1 DEF Entries
  <2>3. \A x \in Held(ws) : ~ (x.key = k /\ x.windowStart = w) BY <1>3 DEF Held
  <2> QED BY <2>2, <2>3
<1>4. ASSUME known # {}
      PROVE  /\ found \in Entries /\ found \in Held(ws)
             /\ found.key = k /\ found.windowStart = w
             /\ \A x \in Held(ws) : x.key = k /\ x.windowStart = w => found = x
  <2>1. PICK i \in known : i = (CHOOSE x \in known : TRUE) BY <1>4
  <2>2. found = ws[i] BY <1>2, <1>4, <2>1
  <2>3. found \in Held(ws) /\ found.key = k /\ found.windowStart = w BY <2>1, <2>2 DEF Held
  <2>4. \A x \in Held(ws) : x.key = k /\ x.windowStart = w => found = x
    BY <1>1, <2>1, <2>2 DEF Held
  <2> QED BY <2>3, <2>4, HeldSound
<1>5. /\ found \in Entries /\ found.key = k /\ found.windowStart = w /\ found.count \in Nat
      /\ \A x \in Held(ws) : x.key = k /\ x.windowStart = w => found = x
      /\ (\A x \in Held(ws) : ~ (x.key = k /\ x.windowStart = w)) => found.count = 0
  <2>1. \A x \in Entries : x.count \in Nat BY DEF Entries
  <2> HIDE DEF known
  <2> QED BY <1>3, <1>4, <2>1
<1> PICK n : n = (IF found.count < Limit THEN found.count + 1 ELSE found.count) OBVIOUS
<1>6. n \in Nat BY <1>5, LimiterAssumption
<1>7. e = [found EXCEPT !.count = n, !.touchedAt = t] BY DEF Touched
<1>8. e \in Entries /\ e.key = k /\ e.windowStart = w /\ e.touchedAt = t /\ e.count = n
  BY <1>5, <1>6, <1>7 DEF Entries
<1>9. EntrySound(e, t) BY <1>8 DEF EntrySound
<1> QED BY <1>5, <1>8, <1>9

\* Map.set replaces the state of a key, or adds it.
LEMMA SetSound ==
  ASSUME NEW t \in Nat, NEW ws, MapSound(ws, t), NEW e \in Entries, EntrySound(e, t)
  PROVE  /\ MapSound(Set(ws, e), t) /\ Len(Set(ws, e)) <= Len(ws) + 1
         /\ e \in Held(Set(ws, e))
         /\ \A x \in Held(Set(ws, e)) : x = e \/ (x \in Held(ws) /\ x.key # e.key)
         /\ \A x \in Held(ws) : x.key # e.key => x \in Held(Set(ws, e))
<1> PICK v : v = Set(ws, e) OBVIOUS
<1> PICK n \in Nat : n = Len(ws) BY HeldSound
<1>1. ws \in Seq(Entries) /\ DOMAIN ws = 1..n /\ \A i \in 1..n : ws[i] \in Entries
  BY DEF MapSound
<1>2. \A i, j \in 1..n : ws[i].key = ws[j].key => i = j BY <1>1 DEF MapSound, OnePerKey
<1>3. \A i \in 1..n : EntrySound(ws[i], t) BY <1>1 DEF MapSound
<1>4. CASE \E i \in DOMAIN ws : ws[i].key = e.key
  <2>1. v = [i \in 1..n |-> IF ws[i].key = e.key THEN e ELSE ws[i]] BY <1>1, <1>4 DEF Set
  <2>2. v \in Seq(Entries) /\ DOMAIN v = 1..n /\ Len(v) = n BY <1>1, <2>1
  <2>3. \A i \in 1..n : v[i] = IF ws[i].key = e.key THEN e ELSE ws[i] BY <2>1
  <2>4. OnePerKey(v) BY <1>2, <2>2, <2>3 DEF OnePerKey
  <2>5. \A i \in 1..n : EntrySound(v[i], t) BY <1>3, <2>3
  <2>6. MapSound(v, t) BY <2>2, <2>4, <2>5 DEF MapSound
  <2>7. e \in Held(v) BY <1>1, <1>4, <2>2, <2>3 DEF Held
  <2>8. \A x \in Held(v) : x = e \/ (x \in Held(ws) /\ x.key # e.key)
    BY <1>1, <2>2, <2>3 DEF Held
  <2>9. \A x \in Held(ws) : x.key # e.key => x \in Held(v) BY <1>1, <2>2, <2>3 DEF Held
  <2> QED BY <2>2, <2>6, <2>7, <2>8, <2>9
<1>5. CASE ~ \E i \in DOMAIN ws : ws[i].key = e.key
  <2>1. v = Append(ws, e) BY <1>5 DEF Set
  <2>2. v \in Seq(Entries) /\ DOMAIN v = 1..(n + 1) /\ Len(v) = n + 1 BY <1>1, <2>1
  <2>3. \A i \in 1..(n + 1) : v[i] = IF i = n + 1 THEN e ELSE ws[i] BY <1>1, <2>1
  <2>4. OnePerKey(v) BY <1>1, <1>2, <1>5, <2>2, <2>3 DEF OnePerKey
  <2>5. \A i \in 1..(n + 1) : EntrySound(v[i], t) BY <1>3, <2>3
  <2>6. MapSound(v, t) BY <2>2, <2>4, <2>5 DEF MapSound
  <2>7. e \in Held(v) BY <2>2, <2>3 DEF Held
  <2>8. \A x \in Held(v) : x = e \/ (x \in Held(ws) /\ x.key # e.key)
    BY <1>1, <1>5, <2>2, <2>3 DEF Held
  <2>9. \A x \in Held(ws) : x \in Held(v)
    <3>1. \A i \in 1..n : i \in 1..(n + 1) /\ i # n + 1 OBVIOUS
    <3> QED BY <1>1, <2>2, <2>3, <3>1 DEF Held
  <2> QED BY <2>2, <2>6, <2>7, <2>8, <2>9
<1> QED BY <1>4, <1>5

\* Only the state touched longest ago makes room, and only in a map that is full.
LEMMA EvictedSound ==
  ASSUME NEW t \in Nat, NEW ws, MapSound(ws, t), Len(ws) <= MaxEntries + 1
  PROVE  LET v == EvictIfNeeded(ws) IN
         /\ MapSound(v, t) /\ Len(v) <= MaxEntries /\ Held(v) \subseteq Held(ws)
         /\ \A x \in Held(ws) \ Held(v) :
              Len(ws) = MaxEntries + 1 /\ \A y \in Held(ws) : x.touchedAt <= y.touchedAt
<1> PICK v : v = EvictIfNeeded(ws) OBVIOUS
<1> PICK n \in Nat : n = Len(ws) BY HeldSound
<1>1. ws \in Seq(Entries) /\ DOMAIN ws = 1..n /\ MaxEntries \in Nat
  BY LimiterAssumption DEF MapSound
<1>2. CASE n <= MaxEntries
  <2>1. v = ws BY <1>2 DEF EvictIfNeeded
  <2> QED BY <1>2, <2>1
<1>3. CASE ~ (n <= MaxEntries)
  <2> DEFINE Older(i, j) == \/ ws[i].touchedAt < ws[j].touchedAt
                            \/ ws[i].touchedAt = ws[j].touchedAt /\ i < j
  <2>1. n = MaxEntries + 1 /\ n > 0 BY <1>1, <1>3
  <2>2. \E i \in DOMAIN ws : \A j \in DOMAIN ws \ {i} : Older(i, j)
    BY <1>1, <2>1, OldestExists
  <2>3. PICK o \in DOMAIN ws : /\ \A j \in DOMAIN ws \ {o} : Older(o, j)
                               /\ o = CHOOSE i \in DOMAIN ws :
                                        \A j \in DOMAIN ws \ {i} : Older(i, j)
    BY <2>2
  <2>4. v = RemoveAt(ws, o) BY <1>3, <2>3 DEF EvictIfNeeded
  <2>5. /\ v \in Seq(Entries) /\ Len(v) = n - 1
        /\ \A j \in 1..(n - 1) : v[j] = IF j < o THEN ws[j] ELSE ws[j + 1]
    BY <1>1, <2>4, Removed
  <2>6. DOMAIN v = 1..(n - 1) BY <2>5
  <2> DEFINE from(j) == IF j < o THEN j ELSE j + 1
  <2>7. /\ \A j \in 1..(n - 1) : from(j) \in 1..n /\ v[j] = ws[from(j)]
        /\ \A i, j \in 1..(n - 1) : from(i) = from(j) => i = j
    BY <1>1, <2>5
  <2>8. OnePerKey(v) /\ \A j \in 1..(n - 1) : EntrySound(v[j], t)
    <3> HIDE DEF from
    <3> QED BY <1>1, <2>6, <2>7 DEF MapSound, OnePerKey
  <2>9. MapSound(v, t) BY <2>5, <2>6, <2>8 DEF MapSound
  <2>10. Held(v) \subseteq Held(ws)
    <3> HIDE DEF from
    <3> QED BY <1>1, <2>6, <2>7 DEF Held
  <2>11. ASSUME NEW x \in Held(ws) \ Held(v), NEW y \in Held(ws)
         PROVE  x.touchedAt <= y.touchedAt
    <3>1. PICK i \in 1..n, j \in 1..n : x = ws[i] /\ y = ws[j] BY <1>1, <2>11 DEF Held
    <3>2. i = o
      <4>1. CASE i < o
        <5>1. i \in 1..(n - 1) /\ v[i] = ws[i] BY <1>1, <2>5, <4>1
        <5> QED BY <2>6, <2>11, <3>1, <5>1 DEF Held
      <4>2. CASE i > o
        <5>1. i - 1 \in 1..(n - 1) /\ v[i - 1] = ws[i] BY <1>1, <2>5, <4>2
        <5> QED BY <2>6, <2>11, <3>1, <5>1 DEF Held
      <4> QED BY <1>1, <4>1, <4>2
    <3>3. x.touchedAt \in Nat /\ y.touchedAt \in Nat BY HeldSound
    <3>4. CASE j = o BY <3>1, <3>2, <3>3, <3>4
    <3>5. CASE j # o
      <4>1. Older(o, j) BY <1>1, <2>3, <3>5
      <4> QED BY <3>1, <3>2, <3>3, <4>1
    <3> QED BY <3>4, <3>5
  <2> QED BY <1>1, <2>1, <2>5, <2>9, <2>10, <2>11
<1> QED BY <1>2, <1>3

\* While no more than MaxEntries keys called in this window, none of their states
\* makes room for another.
LEMMA CurrentStays ==
  ASSUME NEW t \in Nat, NEW ws, MapSound(ws, t), Len(ws) <= MaxEntries + 1,
         NEW called, IsFiniteSet(called), Cardinality(called) <= MaxEntries,
         \A x \in Held(ws) : x.windowStart = WindowStart(t) => x.key \in called,
         NEW x \in Held(ws), x.windowStart = WindowStart(t)
  PROVE  x \in Held(EvictIfNeeded(ws))
<1> SUFFICES ASSUME x \notin Held(EvictIfNeeded(ws)) PROVE FALSE OBVIOUS
<1>1. Len(ws) = MaxEntries + 1 /\ \A y \in Held(ws) : x.touchedAt <= y.touchedAt
  BY EvictedSound
<1>2. DOMAIN ws = 1..Len(ws) /\ Len(ws) \in Nat /\ MaxEntries \in Nat
  BY HeldSound, LimiterAssumption
<1>3. PICK y \in Held(ws) : y.windowStart # WindowStart(t)
  <2> SUFFICES ASSUME \A y \in Held(ws) : y.windowStart = WindowStart(t) PROVE FALSE
    OBVIOUS
  <2> DEFINE f == [i \in 1..Len(ws) |-> ws[i].key]
  <2>1. f \in [1..Len(ws) -> called] BY <1>2 DEF Held
  <2>2. IsFiniteSet(1..Len(ws)) /\ Cardinality(1..Len(ws)) = Len(ws)
    <3>1. 1 \in Int /\ Len(ws) \in Int /\ Len(ws) > 0 BY <1>1, <1>2
    <3>2. /\ IsFiniteSet(1..Len(ws))
          /\ Cardinality(1..Len(ws)) = IF 1 > Len(ws) THEN 0 ELSE Len(ws) - 1 + 1
      BY <3>1, FS_Interval, Zenon
    <3> QED BY <3>1, <3>2
  <2>3. Cardinality(called) \in Nat BY FS_CardinalityType
  <2>4. Cardinality(called) < Cardinality(1..Len(ws)) BY <1>1, <1>2, <2>2, <2>3
  <2>5. \E i, j \in 1..Len(ws) : i # j /\ f[i] = f[j]
    <3> HIDE DEF f
    <3> PICK places : places = 1..Len(ws) OBVIOUS
    <3>1. IsFiniteSet(places) /\ f \in [places -> called] BY <2>1, <2>2
    <3>2. Cardinality(called) < Cardinality(places) BY <2>4
    <3>3. \E i, j \in places : i # j /\ f[i] = f[j] BY <3>1, <3>2, FS_PigeonHole
    <3> QED BY <3>3
  <2> QED BY <1>2, <2>5 DEF MapSound, OnePerKey
<1>4. /\ EntrySound(x, t) /\ EntrySound(y, t) /\ x.touchedAt \in Nat /\ y.touchedAt \in Nat
      /\ x.touchedAt <= y.touchedAt
  BY <1>1, HeldSound
<1>5. WindowStart(t) <= x.touchedAt
  <2>1. WindowStart(x.touchedAt) <= x.touchedAt BY <1>4, WindowLaws
  <2> QED BY <1>4, <2>1 DEF EntrySound
<1>6. WindowStart(t) <= y.touchedAt /\ y.touchedAt <= t
  <2>1. WindowStart(t) \in Nat BY WindowLaws
  <2> QED BY <1>4, <1>5, <2>1 DEF EntrySound
<1>7. WindowStart(y.touchedAt) = WindowStart(t) BY <1>4, <1>6, WindowLaws
<1> QED BY <1>3, <1>4, <1>7 DEF EntrySound

\* A consume: the state of the key is counted, and those of the others in this
\* window stay, unless too many called in it.
LEMMA ConsumeSound ==
  ASSUME NEW t \in Nat, NEW ws, MapSound(ws, t), Len(ws) <= MaxEntries, NEW k \in Credentials,
         NEW called, k \in called, IsFiniteSet(called),
         \A x \in Held(ws) : x.windowStart = WindowStart(t) => x.key \in called
  PROVE  LET v == Consume(ws, k, t)
             e == Touched(ws, k, t)
         IN  /\ MapSound(v, t) /\ Len(v) <= MaxEntries
             /\ \A x \in Held(v) : x = e \/ x \in Held(ws)
             /\ Cardinality(called) <= MaxEntries =>
                  /\ e \in Held(v)
                  /\ \A x \in Held(ws) :
                       x.windowStart = WindowStart(t) /\ x.key # k => x \in Held(v)
<1> PICK e : e = Touched(ws, k, t) OBVIOUS
<1> PICK s : s = Set(ws, e) OBVIOUS
<1> PICK v : v = EvictIfNeeded(s) OBVIOUS
<1>1. e \in Entries /\ EntrySound(e, t) /\ e.key = k /\ e.windowStart = WindowStart(t)
  BY FoundState
<1>2. /\ MapSound(s, t) /\ Len(s) <= Len(ws) + 1 /\ e \in Held(s)
      /\ \A x \in Held(s) : x = e \/ (x \in Held(ws) /\ x.key # e.key)
      /\ \A x \in Held(ws) : x.key # e.key => x \in Held(s)
  BY <1>1, SetSound
<1>3. Len(s) <= MaxEntries + 1
  <2>1. Len(s) \in Nat /\ Len(ws) \in Nat /\ MaxEntries \in Nat
    BY <1>2, HeldSound, LimiterAssumption
  <2> QED BY <1>2, <2>1
<1>4. MapSound(v, t) /\ Len(v) <= MaxEntries /\ Held(v) \subseteq Held(s)
  BY <1>2, <1>3, EvictedSound
<1>5. \A x \in Held(s) : x.windowStart = WindowStart(t) => x.key \in called BY <1>1, <1>2
<1>6. Cardinality(called) <= MaxEntries =>
        \A x \in Held(s) : x.windowStart = WindowStart(t) => x \in Held(v)
  BY <1>2, <1>3, <1>5, CurrentStays
<1>7. Consume(ws, k, t) = v BY DEF Consume
<1> QED BY <1>1, <1>2, <1>4, <1>6, <1>7

-----------------------------------------------------------------------------
(* The requests the limiter counted                                          *)

\* A request q that asked the rate limiter in the window w.
Asked(q, w) == q.stage \notin {"unused", "refused"} /\ WindowStart(q.arrived) = w

Came(w) == {r \in Requests : Asked(req[r], w)}
Callers(w) == {req[r].token.credential : r \in Came(w)}
Admitted(c, w) == {r \in Came(w) : req[r].token.credential = c /\ req[r].stage # "limited"}

\* A window is counted while no more credentials called in it than are remembered.
Counted(w) == Cardinality(Callers(w)) <= MaxEntries

\* The map counts the requests admitted in this window, and no window, past or
\* present, admitted too many.
LimitsInv ==
  /\ MapSound(windows, now) /\ Len(windows) <= MaxEntries
  /\ \A e \in Held(windows) : e.key \in Callers(e.windowStart)
  /\ \A r \in Requests : req[r].arrived <= now
  /\ \A w \in Nat : Counted(w) =>
       \A c \in Callers(w) :
         /\ Cardinality(Admitted(c, w)) <= Limit
         /\ w = WindowStart(now) =>
              \E e \in Held(windows) : /\ e.key = c /\ e.windowStart = w
                                       /\ e.count = Cardinality(Admitted(c, w))

\* Two records of a request that the limiter counts alike.
CountedAlike(q, d) ==
  \/ q.stage \in {"unused", "refused"} /\ d.stage \in {"unused", "refused"}
  \/ /\ q.stage \notin {"unused", "refused"} /\ d.stage \notin {"unused", "refused"}
     /\ WindowStart(d.arrived) = WindowStart(q.arrived)
     /\ d.token.credential = q.token.credential
     /\ d.stage = "limited" <=> q.stage = "limited"

\* Steps that only move requests on, and let time pass.
LEMMA QuietKeeps ==
  ASSUME LimitsInv, now \in Nat, now' \in Nat, now <= now', UNCHANGED windows,
         \A r \in Requests : /\ req[r].arrived \in Nat
                             /\ CountedAlike(req[r], req'[r]) /\ req'[r].arrived <= now'
  PROVE  LimitsInv'
<1>1. ASSUME NEW w
      PROVE  /\ Came(w)' = Came(w) /\ Callers(w)' = Callers(w)
             /\ \A c : Admitted(c, w)' = Admitted(c, w)
  <2>1. \A r \in Requests : Asked(req'[r], w) <=> Asked(req[r], w) BY DEF Asked, CountedAlike
  <2>2. Came(w)' = Came(w) BY <2>1 DEF Came
  <2>3. \A r \in Came(w) : /\ req'[r].token.credential = req[r].token.credential
                           /\ req'[r].stage = "limited" <=> req[r].stage = "limited"
    BY DEF Came, Asked, CountedAlike
  <2> QED BY <2>2, <2>3 DEF Callers, Admitted
<1>2. MapSound(windows, now')
  <2>1. MapSound(windows, now) BY DEF LimitsInv
  <2>2. \A e \in Entries : e.touchedAt \in Nat BY DEF Entries
  <2>3. \A i \in DOMAIN windows : windows[i] \in Entries BY <2>1 DEF MapSound
  <2>4. \A i \in DOMAIN windows : EntrySound(windows[i], now')
    BY <2>1, <2>2, <2>3 DEF MapSound, EntrySound
  <2> QED BY <2>1, <2>4 DEF MapSound
<1>3. ASSUME NEW w \in Nat, NEW c \in Callers(w), w = WindowStart(now')
      PROVE  w = WindowStart(now)
  <2>1. PICK r \in Requests : Asked(req[r], w) BY DEF Callers, Came
  <2>2. req[r].arrived \in Nat /\ req[r].arrived <= now BY DEF LimitsInv
  <2>3. WindowStart(req[r].arrived) <= WindowStart(now) /\ WindowStart(now) <= WindowStart(now')
    BY <2>2, WindowLaws
  <2>4. WindowStart(now) \in Nat /\ WindowStart(now') \in Nat BY WindowLaws
  <2> QED BY <1>3, <2>1, <2>3, <2>4 DEF Asked
<1>4. windows' = windows /\ Held(windows)' = Held(windows) BY DEF Held
<1>5. /\ \A e \in Held(windows) : e.key \in Callers(e.windowStart)
      /\ Len(windows) <= MaxEntries
      /\ \A w \in Nat : Counted(w) =>
           \A c \in Callers(w) :
             /\ Cardinality(Admitted(c, w)) <= Limit
             /\ w = WindowStart(now) =>
                  \E e \in Held(windows) : /\ e.key = c /\ e.windowStart = w
                                           /\ e.count = Cardinality(Admitted(c, w))
  BY DEF LimitsInv
<1>6. \A w : Counted(w)' <=> Counted(w) BY <1>1 DEF Counted
<1>7. \A e \in Held(windows)' : e.key \in Callers(e.windowStart)' BY <1>1, <1>4, <1>5
<1>8. ASSUME NEW w \in Nat, Counted(w)', NEW c \in Callers(w)'
      PROVE  /\ Cardinality(Admitted(c, w)') <= Limit
             /\ w = WindowStart(now') =>
                  \E e \in Held(windows)' : /\ e.key = c /\ e.windowStart = w
                                            /\ e.count = Cardinality(Admitted(c, w)')
  <2>1. c \in Callers(w) /\ Counted(w) /\ Admitted(c, w)' = Admitted(c, w) BY <1>1, <1>6, <1>8
  <2>2. w = WindowStart(now') => w = WindowStart(now) BY <1>3, <2>1
  <2> QED BY <1>4, <1>5, <2>1, <2>2
<1> QED BY <1>2, <1>4, <1>5, <1>7, <1>8 DEF LimitsInv

\* An answer keeps what the limiter counted.
LEMMA AnswerCounted ==
  ASSUME NEW q \in Drafts, NEW answer
  PROVE  LET d == Answer(q, answer) IN
         /\ d.stage = answer /\ d.token.credential = q.token.credential
         /\ WindowStart(d.arrived) = WindowStart(q.arrived)
         /\ d.arrived \in Nat /\ d.arrived <= q.arrived
<1> PICK d : d = Answer(q, answer) OBVIOUS
<1>1. d.stage = answer /\ d.token.credential = q.token.credential /\ d.arrived = WindowStart(q.arrived)
  BY DEF Answer, Drafts
<1>2. q.arrived \in Nat BY ClockAssumption DEF Drafts
<1>3. /\ WindowStart(WindowStart(q.arrived)) = WindowStart(q.arrived)
      /\ WindowStart(q.arrived) \in Nat /\ WindowStart(q.arrived) <= q.arrived
  BY <1>2, WindowLaws
<1> QED BY <1>1, <1>3

\* The limiter decides a request as it arrives, on the credential it came with.
LEMMA DispatchCounted ==
  ASSUME NEW q \in Drafts, q.at = now
  PROVE  LET d == Dispatched(q) IN
         /\ d.stage \notin {"unused", "refused"}
         /\ d.stage = "limited" <=> ~ Allowed(windows, q.token.credential, now)
         /\ d.token.credential = q.token.credential
         /\ WindowStart(d.arrived) = WindowStart(q.arrived) /\ d.arrived <= q.arrived
<1> PICK d : d = Dispatched(q) OBVIOUS
<1>1. ASSUME NEW answer PROVE LET a == Answer(q, answer) IN
        /\ a.stage = answer /\ a.token.credential = q.token.credential
        /\ WindowStart(a.arrived) = WindowStart(q.arrived) /\ a.arrived <= q.arrived
  BY AnswerCounted
<1>2. ASSUME NEW stage PROVE LET a == [q EXCEPT !.stage = stage] IN
        /\ a.stage = stage /\ a.token.credential = q.token.credential
        /\ WindowStart(a.arrived) = WindowStart(q.arrived) /\ a.arrived <= q.arrived
  <2>1. q.arrived \in Nat BY ClockAssumption DEF Drafts
  <2> QED BY <2>1 DEF Drafts
<1>3. CASE ~ Allowed(windows, q.token.credential, now)
  <2>1. d = Answer(q, "limited") BY <1>3 DEF Dispatched
  <2> QED BY <1>1, <1>3, <2>1
<1>4. CASE Allowed(windows, q.token.credential, now)
  <2>1. \/ \E answer \in {"unauthenticated", "unusable"} : d = Answer(q, answer)
        \/ \E stage \in {"authorizing", "refresh", "force"} : d = [q EXCEPT !.stage = stage]
    BY <1>4, IdentifiedSound DEF Dispatched, Authenticate, LookUp
  <2> QED BY <1>1, <1>2, <1>4, <2>1
<1> QED BY <1>3, <1>4

\* The callers of a window are finitely many, and so are the requests of each.
LEMMA CallersFinite ==
  ASSUME NEW w
  PROVE  /\ IsFiniteSet(Callers(w)) /\ \A c : IsFiniteSet(Admitted(c, w))
         /\ IsFiniteSet(Callers(w)') /\ \A c : IsFiniteSet(Admitted(c, w)')
<1>1. IsFiniteSet(Requests)
  <2>1. 1 \in Int /\ MaxRequests \in Int BY RequestAssumption
  <2> QED BY <2>1, FS_Interval, Zenon DEF Requests
<1>2. ASSUME NEW came \in SUBSET Requests, NEW f
      PROVE  IsFiniteSet({f[r].token.credential : r \in came})
  <2> DEFINE g == [r \in came |-> f[r].token.credential]
             T == {f[r].token.credential : r \in came}
  <2>1. IsFiniteSet(came) BY <1>1, FS_Subset
  <2>2. g \in Surjection(came, T) BY DEF Surjection
  <2> HIDE DEF g, T
  <2>3. IsFiniteSet(T) BY <2>1, <2>2, FS_Surjection
  <2> QED BY <2>3 DEF T
<1>3. Came(w) \in SUBSET Requests /\ Came(w)' \in SUBSET Requests BY DEF Came
<1>4. IsFiniteSet(Callers(w)) /\ IsFiniteSet(Callers(w)') BY <1>2, <1>3 DEF Callers
<1>5. ASSUME NEW c PROVE IsFiniteSet(Admitted(c, w)) /\ IsFiniteSet(Admitted(c, w)')
  <2>1. Admitted(c, w) \in SUBSET Requests /\ Admitted(c, w)' \in SUBSET Requests
    BY <1>3 DEF Admitted
  <2> QED BY <1>1, <2>1, FS_Subset
<1> QED BY <1>4, <1>5

\* A request that asks is counted in the window of its arrival, when it is admitted.
LEMMA ArrivalKeeps ==
  ASSUME TypeInv, LimitsInv, NEW r \in Requests, NEW token \in Presented, Arrive(r, token)
  PROVE  LimitsInv'
<1> PICK granted \in BOOLEAN :
      granted = (/\ InForce(project, membership) /\ Covers(membership, now)
                 /\ Grants(membership, ActionOf(token.call)))
  OBVIOUS
<1> PICK q : q = [stage |-> "new", token |-> token, arrived |-> now, at |-> now, granted |-> granted]
  OBVIOUS
<1> PICK d : d = Dispatched(q) OBVIOUS
<1> PICK k \in Credentials : k = token.credential BY DEF Credentials
<1> PICK t \in Nat : t = now BY ClockAssumption DEF TypeInv, SigningKeysTypeOK
<1> PICK v \in Nat : v = WindowStart(t) BY WindowLaws
<1>1. now \in 0..MaxTime /\ req \in [Requests -> Records]
  BY DEF TypeInv, SigningKeysTypeOK
<1>2. q \in Drafts /\ q.at = now /\ q.arrived = now /\ q.token = token
  <2>1. token \in Carried /\ "new" \in Stages \union {"new"} BY DEF Carried
  <2> QED BY <1>1, <2>1 DEF Drafts
<1>3. /\ req' = [req EXCEPT ![r] = d] /\ windows' = Consume(windows, k, t) /\ now' = now
      /\ req[r].stage = "unused"
  BY DEF Arrive, NextNumber
<1>4. /\ d.stage \notin {"unused", "refused"}
      /\ d.stage = "limited" <=> ~ Allowed(windows, k, t)
      /\ d.token.credential = k /\ WindowStart(d.arrived) = v /\ d.arrived <= t
  BY <1>2, DispatchCounted
<1>5. MapSound(windows, t) /\ Len(windows) <= MaxEntries
  BY DEF LimitsInv
<1>6. /\ \A e \in Held(windows) : e.key \in Callers(e.windowStart)
      /\ \A w \in Nat : Counted(w) =>
           \A c \in Callers(w) :
             /\ Cardinality(Admitted(c, w)) <= Limit
             /\ w = v => \E e \in Held(windows) :
                           /\ e.key = c /\ e.windowStart = w
                           /\ e.count = Cardinality(Admitted(c, w))
  BY DEF LimitsInv
<1>7. ASSUME NEW w
      PROVE  /\ Came(w)' = IF w = v THEN Came(w) \union {r} ELSE Came(w)
             /\ r \notin Came(w)
  <2>1. ASSUME NEW x \in Requests
        PROVE  Asked(req'[x], w) <=> IF x = r THEN w = v ELSE Asked(req[x], w)
    BY <1>1, <1>3, <1>4 DEF Asked
  <2>2. ~ Asked(req[r], w) BY <1>3 DEF Asked
  <2> QED BY <2>1, <2>2 DEF Came
<1>8. ASSUME NEW w
      PROVE  /\ Callers(w)' = IF w = v THEN Callers(w) \union {k} ELSE Callers(w)
             /\ \A c : Admitted(c, w)' = IF w = v /\ c = k /\ d.stage # "limited"
                                         THEN Admitted(c, w) \union {r} ELSE Admitted(c, w)
             /\ \A c : r \notin Admitted(c, w)
  <2>1. \A x \in Came(w) : req'[x] = req[x] BY <1>1, <1>3, <1>7 DEF Came
  <2>2. req'[r] = d BY <1>1, <1>3
  <2> QED BY <1>4, <1>7, <2>1, <2>2 DEF Callers, Admitted
<1>9. k \in Callers(v)' /\ IsFiniteSet(Callers(v)') /\ Callers(v) \subseteq Callers(v)'
  BY <1>8, CallersFinite
<1> PICK found, e : found = StateOf(windows, k, t) /\ e = Touched(windows, k, t) OBVIOUS
<1>10. /\ \A x \in Held(windows) : x.key = k /\ x.windowStart = v => found = x
       /\ (\A x \in Held(windows) : ~ (x.key = k /\ x.windowStart = v)) => found.count = 0
       /\ found.count \in Nat
       /\ e.key = k /\ e.windowStart = v
       /\ e.count = IF found.count < Limit THEN found.count + 1 ELSE found.count
  BY <1>5, FoundState
<1> PICK called : called = Callers(v)' OBVIOUS
<1>11. /\ MapSound(windows', t) /\ Len(windows') <= MaxEntries
       /\ \A x \in Held(windows') : x = e \/ x \in Held(windows)
       /\ Cardinality(called) <= MaxEntries =>
            /\ e \in Held(windows')
            /\ \A x \in Held(windows) : x.windowStart = v /\ x.key # k => x \in Held(windows')
  <2>1. /\ k \in called /\ IsFiniteSet(called)
        /\ \A x \in Held(windows) : x.windowStart = WindowStart(t) => x.key \in called
    BY <1>6, <1>9
  <2> QED BY <1>3, <1>5, <2>1, ConsumeSound
<1>12. \A x \in Held(windows') : x.key \in Callers(x.windowStart)'
  BY <1>6, <1>8, <1>9, <1>10, <1>11
<1>13. \A x \in Requests : req'[x].arrived <= now' BY <1>1, <1>3, <1>4 DEF LimitsInv
<1>14. ASSUME NEW w \in Nat, Counted(w)', NEW c \in Callers(w)'
       PROVE  /\ Cardinality(Admitted(c, w)') <= Limit
              /\ w = v => \E x \in Held(windows') :
                            /\ x.key = c /\ x.windowStart = w
                            /\ x.count = Cardinality(Admitted(c, w)')
  <2>1. CASE w # v
    <3>1. Callers(w)' = Callers(w) /\ Admitted(c, w)' = Admitted(c, w) BY <1>8, <2>1
    <3>2. Counted(w) /\ c \in Callers(w) BY <1>14, <3>1 DEF Counted
    <3> QED BY <1>6, <2>1, <3>1, <3>2
  <2>2. CASE w = v
    <3>1. Cardinality(called) <= MaxEntries BY <1>14, <2>2 DEF Counted
    <3>2. Counted(v)
      <4>1. Cardinality(Callers(v)) <= Cardinality(called) BY <1>9, FS_Subset
      <4>2. Cardinality(Callers(v)) \in Nat /\ Cardinality(called) \in Nat /\ MaxEntries \in Nat
        BY <1>9, CallersFinite, FS_CardinalityType, LimiterAssumption
      <4> QED BY <3>1, <4>1, <4>2 DEF Counted
    <3>3. CASE c # k
      <4>1. c \in Callers(v) /\ Admitted(c, v)' = Admitted(c, v) BY <1>8, <1>14, <2>2, <3>3
      <4>2. PICK x \in Held(windows) : /\ x.key = c /\ x.windowStart = v
                                       /\ x.count = Cardinality(Admitted(c, v))
        BY <1>6, <3>2, <4>1
      <4>3. x \in Held(windows') BY <1>11, <3>1, <3>3, <4>2
      <4>4. Cardinality(Admitted(c, v)) <= Limit BY <1>6, <3>2, <4>1
      <4> QED BY <2>2, <4>1, <4>2, <4>3, <4>4
    <3>4. CASE c = k
      <4>1. found.count = Cardinality(Admitted(k, v)) /\ found.count <= Limit
        <5>1. CASE k \in Callers(v)
          <6>1. PICK x \in Held(windows) : /\ x.key = k /\ x.windowStart = v
                                           /\ x.count = Cardinality(Admitted(k, v))
            BY <1>6, <3>2, <5>1
          <6>2. Cardinality(Admitted(k, v)) <= Limit BY <1>6, <3>2, <5>1
          <6> QED BY <1>10, <6>1, <6>2
        <5>2. CASE k \notin Callers(v)
          <6>1. found.count = 0 BY <1>6, <1>10, <5>2
          <6>2. Admitted(k, v) = {} BY <5>2 DEF Admitted, Callers
          <6> QED BY <6>1, <6>2, FS_EmptySet, LimiterAssumption
        <5> QED BY <5>1, <5>2
      <4>2. Allowed(windows, k, t) <=> found.count < Limit BY DEF Allowed
      <4>3. e.count = Cardinality(Admitted(k, v)') /\ e.count <= Limit
        <5>1. CASE found.count < Limit
          <6>1. Admitted(k, v)' = Admitted(k, v) \union {r} /\ r \notin Admitted(k, v)
            BY <1>4, <1>8, <4>2, <5>1
          <6>2. IsFiniteSet(Admitted(k, v)) BY CallersFinite
          <6>3. Cardinality(Admitted(k, v) \union {r}) = Cardinality(Admitted(k, v)) + 1
            BY <6>1, <6>2, FS_AddElement
          <6> QED BY <1>10, <4>1, <5>1, <6>1, <6>3, LimiterAssumption
        <5>2. CASE ~ (found.count < Limit)
          <6>1. Admitted(k, v)' = Admitted(k, v) BY <1>4, <1>8, <4>2, <5>2
          <6> QED BY <1>10, <4>1, <5>2, <6>1
        <5> QED BY <5>1, <5>2
      <4>4. e \in Held(windows') BY <1>11, <3>1
      <4> QED BY <1>10, <2>2, <3>4, <4>3, <4>4
    <3> QED BY <3>3, <3>4
  <2> QED BY <2>1, <2>2
<1>15. Held(windows)' = Held(windows') BY DEF Held
<1> QED BY <1>3, <1>11, <1>12, <1>13, <1>14, <1>15 DEF LimitsInv

\* Every other step leaves the map alone, and the requests counted as they were.
LEMMA OthersCountAlike ==
  ASSUME Inv, LimitsInv, [Next]_vars, ~ \E r \in Requests, token \in Presented : Arrive(r, token)
  PROVE  /\ UNCHANGED windows /\ now <= now'
         /\ \A r \in Requests : CountedAlike(req[r], req'[r]) /\ req'[r].arrived <= now'
<1>0. /\ now \in Nat /\ req \in [Requests -> Records]
      /\ \A r \in Requests : req[r].arrived \in Nat /\ req[r].arrived <= now
  <2>1. \A q \in Records : q.arrived \in Nat BY ClockAssumption DEF Records
  <2> QED BY <2>1 DEF Inv, TypeInv, SigningKeysTypeOK, LimitsInv
<1>1. ASSUME NEW q \in Records
      PROVE  /\ CountedAlike(q, q)
             /\ \A stage : /\ q.stage \notin {"unused", "refused", "limited"}
                           /\ stage \notin {"unused", "refused", "limited"}
                           => LET d == [q EXCEPT !.stage = stage]
                              IN  CountedAlike(q, d) /\ d.arrived = q.arrived
  BY DEF CountedAlike, Records
<1>2. ASSUME NEW q \in Records, q.stage \notin {"unused", "refused", "limited"},
             NEW answer \in Answers \ {"refused", "limited"}
      PROVE  /\ CountedAlike(q, Answer(q, answer))
             /\ Answer(q, answer).arrived \in Nat /\ Answer(q, answer).arrived <= q.arrived
  <2>1. q \in Drafts BY DEF Records, Drafts
  <2>2. answer \notin {"unused", "refused", "limited"} BY DEF Answers
  <2> QED BY <1>2, <2>1, <2>2, AnswerCounted DEF CountedAlike
<1>3. CASE \E x \in Requests : Malformed(x) \/ \E token \in Presented : Unroutable(x, token)
  <2> PICK d : d = [Unused EXCEPT !.stage = "refused"] OBVIOUS
  <2>1. PICK x \in Requests : /\ req' = [req EXCEPT ![x] = d] /\ req[x].stage = "unused"
                              /\ UNCHANGED <<now, windows>>
    BY <1>3 DEF Malformed, Unroutable, NextNumber
  <2>2. d.stage = "refused" /\ d.arrived = 0 BY DEF Unused
  <2>3. ASSUME NEW r \in Requests PROVE CountedAlike(req[r], req'[r]) /\ req'[r].arrived <= now'
    <3>1. CASE r = x BY <1>0, <2>1, <2>2, <3>1 DEF CountedAlike
    <3>2. CASE r # x BY <1>0, <1>1, <2>1, <3>2
    <3> QED BY <3>1, <3>2
  <2> QED BY <1>0, <2>1, <2>3
<1>4. CASE \/ ReadinessRefresh \/ Rotate \/ UNCHANGED vars
           \/ (FetchAnswered \/ FetchStored) /\ UNCHANGED <<now, access, windows, req>>
  BY <1>0, <1>1, <1>4 DEF ReadinessRefresh, Rotate, vars
<1>5. CASE RefreshSucceeds
  <2>1. UNCHANGED <<now, windows>> /\ req' = [r \in Requests |-> Resumed(req[r])]
    BY <1>5 DEF RefreshSucceeds
  <2>2. ASSUME NEW r \in Requests PROVE CountedAlike(req[r], req'[r]) /\ req'[r].arrived <= now'
    <3> PICK q : q = req[r] OBVIOUS
    <3>1. q \in Records /\ req'[r] = Resumed(q) /\ q.arrived \in Nat /\ q.arrived <= now
      BY <1>0, <2>1
    <3>2. CASE q.stage \notin Waiting BY <1>1, <2>1, <3>1, <3>2 DEF Resumed
    <3>3. CASE q.stage \in Waiting
      <4>1. q.stage \notin {"unused", "refused", "limited"} BY <3>3 DEF Waiting
      <4>2. q \in Drafts BY <3>1 DEF Records, Drafts
      <4> DEFINE Kept(d) == /\ d.stage \notin {"unused", "refused", "limited"}
                            /\ d.token.credential = q.token.credential
                            /\ WindowStart(d.arrived) = WindowStart(q.arrived)
                            /\ d.arrived \in Nat /\ d.arrived <= q.arrived
      <4>3. ASSUME NEW answer \in {"unauthenticated", "unusable"}
            PROVE  Kept(Answer(q, answer)) /\ Kept([Answer(q, answer) EXCEPT !.at = now])
        <5>1. Kept(Answer(q, answer)) BY <4>2, AnswerCounted
        <5> QED BY <5>1, <4>2 DEF Answer, Drafts
      <4>4. ASSUME NEW stage \in {"authorizing", "force"}
            PROVE  /\ Kept([q EXCEPT !.stage = stage])
                   /\ Kept([[q EXCEPT !.stage = stage] EXCEPT !.at = now])
        BY <3>1 DEF Records
      <4>5. Kept(Resumed(q))
        <5> HIDE DEF Kept
        <5> QED BY <3>3, <4>3, <4>4, IdentifiedSound DEF Resumed
      <4>6. Resumed(q).arrived <= now BY <1>0, <3>1, <4>5
      <4> QED BY <2>1, <3>1, <4>1, <4>5, <4>6 DEF CountedAlike
    <3> QED BY <3>2, <3>3
  <2> QED BY <1>0, <2>1, <2>2
<1>6. CASE RefreshAborted \/ RefreshFails
  <2>1. UNCHANGED <<now, windows>> /\ FailWaiting BY <1>6 DEF RefreshAborted, RefreshFails
  <2>2. ASSUME NEW r \in Requests PROVE CountedAlike(req[r], req'[r]) /\ req'[r].arrived <= now'
    <3> PICK q : q = req[r] OBVIOUS
    <3>1. q \in Records /\ q.arrived \in Nat /\ q.arrived <= now BY <1>0
    <3>2. CASE q.stage \notin Waiting BY <1>1, <2>1, <3>1, <3>2 DEF FailWaiting
    <3>3. CASE q.stage \in Waiting
      <4>1. req'[r] = Answer(q, "failed") BY <2>1, <3>3 DEF FailWaiting
      <4>2. q.stage \notin {"unused", "refused", "limited"} BY <3>3 DEF Waiting
      <4>3. "failed" \in Answers \ {"refused", "limited"} BY DEF Answers
      <4>4. /\ CountedAlike(q, Answer(q, "failed"))
            /\ Answer(q, "failed").arrived \in Nat /\ Answer(q, "failed").arrived <= q.arrived
        BY <1>2, <3>1, <4>2, <4>3
      <4> QED BY <1>0, <2>1, <3>1, <4>1, <4>4
    <3> QED BY <3>2, <3>3
  <2> QED BY <1>0, <2>1, <2>2
<1>7. CASE \E x \in Requests :
             \/ Connect(x) \/ ConnectTimesOut(x) \/ Decide(x)
             \/ Read(x) \/ ReadTimeline(x) \/ StatementFails(x)
  <2>1. PICK x \in Requests : \/ Connect(x) \/ ConnectTimesOut(x) \/ Decide(x)
                             \/ Read(x) \/ ReadTimeline(x) \/ StatementFails(x)
    BY <1>7
  <2> PICK q : q = req[x] OBVIOUS
  <2>2. q \in Records /\ q.arrived \in Nat /\ q.arrived <= now BY <1>0
  <2>3. UNCHANGED <<now, windows>> /\ q.stage \in Queued \union Holding
    BY <2>1 DEF Connect, ConnectTimesOut, Decide, Read, ReadTimeline, StatementFails, Holding
  <2>4. q.stage \notin {"unused", "refused", "limited"} BY <2>3 DEF Queued, Holding
  <2>5. \/ \E answer \in {"failed", "forbidden", "unusable", "served", "not_found"} :
             req' = [req EXCEPT ![x] = Answer(q, answer)]
        \/ \E stage \in {"deciding", "reading", "listing", "permitted", "found"} :
             req' = [req EXCEPT ![x] = [q EXCEPT !.stage = stage]]
    <3>1. CASE Connect(x)
      <4>1. \/ q.stage = "authorizing" \/ q.stage = "permitted" \/ q.stage = "found"
        BY <3>1 DEF Connect, Queued
      <4> QED BY <3>1, <4>1 DEF Connect
    <3>2. CASE ConnectTimesOut(x) \/ StatementFails(x)
      BY <3>2 DEF ConnectTimesOut, StatementFails
    <3>3. CASE Decide(x) BY <3>3 DEF Decide
    <3>4. CASE Read(x) BY <3>4 DEF Read
    <3>5. CASE ReadTimeline(x) BY <3>5 DEF ReadTimeline
    <3> QED BY <2>1, <3>1, <3>2, <3>3, <3>4, <3>5
  <2>6. PICK d : /\ req' = [req EXCEPT ![x] = d] /\ CountedAlike(q, d)
                 /\ d.arrived \in Nat /\ d.arrived <= q.arrived
    <3>1. ASSUME NEW answer \in {"failed", "forbidden", "unusable", "served", "not_found"},
                 req' = [req EXCEPT ![x] = Answer(q, answer)]
          PROVE  \E d : /\ req' = [req EXCEPT ![x] = d] /\ CountedAlike(q, d)
                        /\ d.arrived \in Nat /\ d.arrived <= q.arrived
      <4>1. answer \in Answers \ {"refused", "limited"} BY DEF Answers
      <4>2. /\ CountedAlike(q, Answer(q, answer))
            /\ Answer(q, answer).arrived \in Nat /\ Answer(q, answer).arrived <= q.arrived
        BY <1>2, <2>2, <2>4, <4>1
      <4> QED BY <3>1, <4>2, Zenon
    <3>2. ASSUME NEW stage \in {"deciding", "reading", "listing", "permitted", "found"},
                 req' = [req EXCEPT ![x] = [q EXCEPT !.stage = stage]]
          PROVE  \E d : /\ req' = [req EXCEPT ![x] = d] /\ CountedAlike(q, d)
                        /\ d.arrived \in Nat /\ d.arrived <= q.arrived
      <4>1. stage \notin {"unused", "refused", "limited"} OBVIOUS
      <4> PICK d : d = [q EXCEPT !.stage = stage] OBVIOUS
      <4>2. CountedAlike(q, d) /\ d.arrived = q.arrived BY <1>1, <2>2, <2>4, <4>1
      <4>3. d.arrived \in Nat /\ d.arrived <= q.arrived BY <2>2, <4>2
      <4> QED BY <3>2, <4>2, <4>3
    <3> QED BY <2>5, <3>1, <3>2
  <2>7. ASSUME NEW r \in Requests PROVE CountedAlike(req[r], req'[r]) /\ req'[r].arrived <= now'
    <3>1. CASE r = x BY <1>0, <2>2, <2>3, <2>6, <3>1
    <3>2. CASE r # x BY <1>0, <1>1, <2>3, <2>6, <3>2
    <3> QED BY <3>1, <3>2
  <2> QED BY <1>0, <2>3, <2>7
<1>8. CASE AdministratorActs \/ TimePasses
  <2>1. PICK p, m, t : req' = Remember(p, m, t)
    BY <1>8 DEF AdministratorActs, TimePasses
  <2>2. UNCHANGED windows /\ now <= now' /\ now' \in Nat
    BY <1>0, <1>8 DEF AdministratorActs, TimePasses, Tick
  <2>3. ASSUME NEW r \in Requests PROVE CountedAlike(req[r], req'[r]) /\ req'[r].arrived <= now'
    <3> PICK q : q = req[r] OBVIOUS
    <3> PICK granted : granted = (q.granted \/ AllowedSince(q, p, m, t)) OBVIOUS
    <3>1. q \in Records /\ q.arrived \in Nat /\ q.arrived <= now BY <1>0
    <3>2. req'[r] = q \/ req'[r] = [q EXCEPT !.granted = granted] BY <2>1 DEF Remember
    <3>3. /\ req'[r].stage = q.stage /\ req'[r].token = q.token /\ req'[r].arrived = q.arrived
      BY <3>1, <3>2 DEF Records
    <3> QED BY <1>0, <2>2, <3>1, <3>3 DEF CountedAlike
  <2> QED BY <2>2, <2>3
<1> QED
  BY <1>3, <1>4, <1>5, <1>6, <1>7, <1>8 DEF Next, Progress

\* An empty map counts no requests.
LEMMA LimiterBegun ==
  ASSUME Init
  PROVE  LimitsInv
<1>1. windows = <<>> /\ \A r \in Requests : req[r].stage = "unused" /\ req[r].arrived = 0
  BY DEF Init, Unused
<1>2. now = 0 /\ MaxEntries \in Nat BY LimiterAssumption DEF Init, SigningKeysInit
<1>3. Held(windows) = {} /\ windows \in Seq(Entries) /\ Len(windows) = 0 BY <1>1 DEF Held
<1>4. MapSound(windows, now) BY <1>1, <1>3 DEF MapSound, OnePerKey
<1>5. \A w : Callers(w) = {} BY <1>1 DEF Callers, Came, Asked
<1> QED BY <1>1, <1>2, <1>3, <1>4, <1>5 DEF LimitsInv

\* In every reachable state the limiter's map (in-memory-rate-limiter.js) holds one
\* state per credential, and for every credential that called in the current window
\* the number of its admitted requests, unless more called than are remembered.
THEOREM LimiterInvariance == Spec => []LimitsInv
<1>1. Init => LimitsInv BY LimiterBegun
<1>2. ASSUME Inv, Inv', LimitsInv, [Next]_vars PROVE LimitsInv'
  <2>1. CASE \E r \in Requests, token \in Presented : Arrive(r, token)
    BY <1>2, <2>1, ArrivalKeeps DEF Inv
  <2>2. CASE ~ \E r \in Requests, token \in Presented : Arrive(r, token)
    <3>1. /\ UNCHANGED windows /\ now <= now'
          /\ \A r \in Requests : CountedAlike(req[r], req'[r]) /\ req'[r].arrived <= now'
      BY <1>2, <2>2, OthersCountAlike
    <3>2. now \in Nat /\ now' \in Nat BY <1>2, ClockAssumption DEF Inv, TypeInv, SigningKeysTypeOK
    <3>3. \A q \in Records : q.arrived \in Nat BY ClockAssumption DEF Records
    <3>4. \A r \in Requests : req[r].arrived \in Nat BY <1>2, <3>3 DEF Inv, TypeInv
    <3> QED BY <1>2, <3>1, <3>2, <3>4, QuietKeeps
  <2> QED BY <2>1, <2>2
<1> QED BY <1>1, <1>2, Invariance, PTL DEF Spec

\* No credential is admitted more than Limit times in a window, for any number of
\* requests, however they interleave, unless more credentials than the map holds
\* called in that window: a state is evicted only for having been touched longest
\* ago, so those of the current window go last.
THEOREM LimitsAreKept == Spec => []RateLimited
<1>1. ASSUME LimitsInv PROVE RateLimited
  <2> DEFINE came(w) == {r \in Requests : /\ req[r].stage \notin {"unused", "refused"}
                                          /\ WindowStart(req[r].arrived) = w}
             admitted(c, w) == {r \in {x \in came(w) : req[x].token.credential = c} :
                                  req[r].stage # "limited"}
  <2>1. \A w : /\ came(w) = Came(w) /\ {req[r].token.credential : r \in came(w)} = Callers(w)
               /\ \A c : admitted(c, w) = Admitted(c, w)
    BY DEF Came, Asked, Admitted, Callers
  <2>2. ASSUME NEW w \in {WindowStart(t) : t \in 0..MaxTime},
               Cardinality({req[r].token.credential : r \in came(w)}) <= MaxEntries,
               NEW c \in {req[r].token.credential : r \in came(w)}
        PROVE  Cardinality(admitted(c, w)) <= Limit
    <3>1. w \in Nat BY ClockAssumption, WindowLaws
    <3>2. Counted(w) /\ c \in Callers(w) BY <2>1, <2>2 DEF Counted
    <3>3. Cardinality(Admitted(c, w)) <= Limit BY <1>1, <3>1, <3>2 DEF LimitsInv
    <3> HIDE DEF came, admitted
    <3> QED BY <2>1, <3>3
  <2> QED BY <2>2 DEF RateLimited
<1> QED BY <1>1, LimiterInvariance, PTL

-----------------------------------------------------------------------------
(***************************************************************************)
(* The life cycle.  What the callbacks of start() and performStop may      *)
(* assume of each other when no signal can arrive between listen() and the *)
(* 'listening' event, which is what a numeric host gives.                  *)
(***************************************************************************)

\* Where main stands tells what the server can be doing.
MainSound ==
  /\ main = "composing" => server = "new"
  /\ server = "new" => main \in {"composing", "catch", "failed"}
  /\ main = "binding" <=> server = "binding"
  /\ main \in {"catch", "failed"} => server \notin {"binding", "listening"}
  /\ main = "stopping" => stop # "none"

\* A stop has begun only on a server that is past its 'listening' event, and
\* has closed it before it goes on.
StopSound ==
  /\ stopping => stop # "none"
  /\ stop # "none" => server \notin {"new", "binding"}
  /\ stop \notin {"none", "announce"} => server # "listening"
  /\ server = "listening" => started

\* Requests are in progress on a started server only, and never once performStop
\* has gone on to the pool or start-up has failed.
ConnectionsSound ==
  /\ connections # 0 => started /\ server \in {"listening", "draining"}
  /\ stop \in {"destroyed", "pool", "record", "done", "rejected"} => connections = 0
  /\ main \in {"catch", "failed"} => connections = 0
  /\ pool = "ended" => connections = 0
  /\ pool = "ended" => main # "composing" /\ server \notin {"binding", "listening"}

Flags ==
  /\ started \in BOOLEAN /\ stopping \in BOOLEAN
  /\ startedAt \in BOOLEAN /\ signalled \in BOOLEAN

LifecycleInv ==
  ServiceTypeOK /\ MainSound /\ StopSound /\ ConnectionsSound

\* A service that has not begun to listen.
LEMMA LifecycleInit == ServiceInit => LifecycleInv
<1> SUFFICES ASSUME ServiceInit PROVE LifecycleInv OBVIOUS
<1> USE DEF ServiceInit
<1>1. ServiceTypeOK
  <2>1. Flags BY Zenon DEF Flags
  <2> QED BY <2>1, ConnectionAssumption DEF Flags, ServiceTypeOK
<1>2. MainSound BY DEF MainSound
<1>3. StopSound BY DEF StopSound
<1>4. ConnectionsSound BY DEF ConnectionsSound
<1> QED BY <1>1, <1>2, <1>3, <1>4 DEF LifecycleInv

\* Every step of the service keeps the invariant, where binding is synchronous.
LEMMA LifecycleStep ==
  ASSUME ~ HostIsName, LifecycleInv, [ServiceNext]_serviceVars
  PROVE  LifecycleInv'
<1> USE HostAssumption, ConnectionAssumption
      DEF LifecycleInv, ServiceTypeOK, MainSound, StopSound, ConnectionsSound, readiness
<1>1. CASE ComposeFails BY <1>1 DEF ComposeFails
<1>2. CASE Listen BY <1>2 DEF Listen
<1>3. CASE Listening
  <2>1. Flags' BY <1>3, Zenon DEF Listening, Flags
  <2> QED BY <1>3, <2>1 DEF Listening, Flags
<1>4. CASE ListenFails BY <1>4 DEF ListenFails
<1>5. CASE FirstCheck BY <1>5 DEF FirstCheck, CallStop, SharedCheck
<1>6. CASE StartRejects BY <1>6 DEF StartRejects
<1>7. CASE Catch BY <1>7 DEF Catch
<1>8. ASSUME NEW ok \in BOOLEAN, CheckSettles(ok) PROVE LifecycleInv'
  <2>1. Flags' BY <1>8, Zenon DEF CheckSettles, CallStop, Flags
  <2> QED BY <1>8, <2>1 DEF CheckSettles, CallStop, Flags
<1>9. CASE CloseServer BY <1>9 DEF CloseServer
<1>10. CASE ServerCloses BY <1>10 DEF ServerCloses
<1>11. CASE Drained BY <1>11 DEF Drained
<1>12. CASE DrainTimesOut BY <1>12 DEF DrainTimesOut
<1>13. CASE Destroyed BY <1>13 DEF Destroyed
<1>14. CASE EndPool BY <1>14 DEF EndPool
<1>15. CASE Stopped BY <1>15 DEF Stopped
<1>16. CASE Signal
  <2>1. Flags' BY <1>16, Zenon DEF Signal, CallStop, Flags
  <2> QED BY <1>16, <2>1 DEF Signal, CallStop, Flags
<1>17. CASE OpenRequest BY <1>17 DEF OpenRequest
<1>18. CASE Respond BY <1>18 DEF Respond
<1>19. CASE Probe BY <1>19 DEF Probe, SharedCheck
<1>20. CASE UNCHANGED serviceVars BY <1>20 DEF serviceVars
<1> QED
  BY <1>1, <1>2, <1>3, <1>4, <1>5, <1>6, <1>7, <1>8, <1>9, <1>10, <1>11, <1>12,
     <1>13, <1>14, <1>15, <1>16, <1>17, <1>18, <1>19, <1>20
  DEF ServiceNext, Running, Main, Checks, PerformStop

-----------------------------------------------------------------------------
(* The composition, for which the life cycle's steps are some of its own.    *)

\* Every step of the service beside the others is a step of the service alone,
\* or changes nothing of it.
LEMMA StartStepIsLifecycleStep == [StartNext]_startVars => [ServiceNext]_serviceVars
  BY DEF StartNext, LoadConfig, Compose, Others, ServiceNext, startVars

\* Composed behind its migrations and its configuration, the service still
\* behaves as the life cycle says.
THEOREM StartIsLifecycle == StartSpec => ServiceSpec
<1>1. StartInit => ServiceInit BY DEF StartInit
<1> QED BY <1>1, StartStepIsLifecycleStep, PTL DEF StartSpec, ServiceSpec

\* The invariant of the life cycle, for a host that needs no lookup.
THEOREM LifecycleInvariance ==
  ASSUME ~ HostIsName PROVE StartSpec => []LifecycleInv
<1>1. ServiceInit => LifecycleInv BY LifecycleInit
<1>2. LifecycleInv /\ [ServiceNext]_serviceVars => LifecycleInv' BY LifecycleStep
<1> QED BY <1>1, <1>2, StartIsLifecycle, PTL DEF ServiceSpec

\* Start-up that has failed leaves no open port behind.
THEOREM NoPortIsLeftOpen ==
  ASSUME ~ HostIsName PROVE StartSpec => []NoOpenPortAfterFailure
<1>1. LifecycleInv => NoOpenPortAfterFailure
  BY DEF LifecycleInv, MainSound, NoOpenPortAfterFailure
<1> QED BY <1>1, LifecycleInvariance, PTL

\* The database is taken away after the last request, never under one.
THEOREM PoolOutlivesRequests ==
  ASSUME ~ HostIsName PROVE StartSpec => []PoolOutlivesConnections
<1>1. LifecycleInv => PoolOutlivesConnections
  BY DEF LifecycleInv, ConnectionsSound, PoolOutlivesConnections
<1> QED BY <1>1, LifecycleInvariance, PTL

\* Readiness that a stop has revoked never comes back: no step clears
\* `stopping', because none that could runs once a stop has begun.
THEOREM RevokedForGood ==
  ASSUME ~ HostIsName PROVE StartSpec => StoppingIsFinal
<1>1. LifecycleInv /\ [ServiceNext]_serviceVars => [stopping => stopping']_serviceVars
  <2> SUFFICES ASSUME LifecycleInv, ServiceNext, stopping PROVE stopping'
    OBVIOUS
  <2> QED
    BY Zenon
    DEF LifecycleInv, StopSound, ServiceNext, Running, Main, Checks, PerformStop,
        ComposeFails, Listen, Listening, ListenFails, FirstCheck, StartRejects, Catch,
        CheckSettles, CallStop, CloseServer, ServerCloses, Drained, DrainTimesOut,
        Destroyed, EndPool, Stopped, Signal, OpenRequest, Respond, Probe, readiness
<1> QED BY <1>1, LifecycleInvariance, StartIsLifecycle, PTL DEF ServiceSpec, StoppingIsFinal

(***************************************************************************)
(* The migrations.  A process is followed through its runners; between two *)
(* of its steps any other process may apply, commit, fail or be replaced.  *)
(***************************************************************************)

FilesOf(m, i) == DirectoryOf[m.build][Runners[i].schema]

Places == {"load", "lock", "look", "apply", "commit", "done", "failed"}

Files == UNION {DirectoryOf[b][Runners[i].schema] : b \in Builds, i \in DOMAIN Runners}
SchemaRows == {Row(Runners[i].schema, f) : i \in DOMAIN Runners, f \in Files}

MigrationRecords ==
  [build : Builds, runner : DOMAIN Runners, at : Places, seen : SUBSET Files,
   rows : SUBSET SchemaRows, lost : BOOLEAN]

MigrationsTyped ==
  applied \subseteq SchemaRows /\ migrating \in [Processes -> MigrationRecords]

\* The runner's files are recorded, with the checksums of this build.
Recorded(m, i) ==
  /\ Loadable(FilesOf(m, i))
  /\ \A f \in FilesOf(m, i) : Row(Runners[i].schema, f) \in applied

\* What a process has seen to is recorded, or will be when it commits.
SeenRecorded(m) ==
  \A f \in m.seen : Row(Runners[m.runner].schema, f) \in applied \union m.rows

CauseOfFailure(m) ==
  \/ m.lost
  \/ \E i \in DOMAIN Runners :
       \/ ~ Loadable(FilesOf(m, i))
       \/ \E f \in FilesOf(m, i) : EditedSince(Runners[i].schema, f)

\* Where a process stands tells what it has recorded.
ProcessSound(p) ==
  LET m == migrating[p] IN
  /\ \A i \in 1..(m.runner - 1) : Recorded(m, i)
  /\ m.at = "done" => \A i \in DOMAIN Runners : Recorded(m, i)
  /\ m.at \in {"lock", "look", "apply", "commit"} =>
       Loadable(FilesOf(m, m.runner)) /\ SeenRecorded(m)
  /\ m.at \notin {"look", "apply", "commit"} => m.rows = {}
  /\ \A row \in m.rows : row.schema = Runners[m.runner].schema
  /\ m.at = "commit" => Left(p) = {}
  /\ m.at = "apply" => \A f \in Left(p) : IsNext(p, f) => RecordedAs(p, f) = {}
  /\ m.at = "failed" => CauseOfFailure(m)

\* One transaction at a time holds a runner's lock.
LockHeldOnce ==
  \A p \in Processes : \A q \in Processes \ {p} :
    InTransaction(p) /\ InTransaction(q) => Runner(p) # Runner(q)

\* The service and its own migrations.
SelfSound ==
  /\ server # "new" => Migrated(Self)
  /\ config.status \in {"unread", "refused"} => migrating[Self].at = "load"
  /\ config.status = "loaded" => config.long # {}
  /\ config = [status |-> config.status, long |-> config.long]

MigrationsInv ==
  MigrationsTyped /\ (\A p \in Processes : ProcessSound(p)) /\ LockHeldOnce

\* Before listen() nothing has touched the server, and nothing can stop it.
NotListening ==
  /\ main = "composing" => server = "new"
  /\ server = "new" => main \in {"composing", "catch", "failed"} /\ stop = "none"

StartInv == MigrationsInv /\ SelfSound /\ NotListening

-----------------------------------------------------------------------------
(* The steps of one process and what the others keep through them            *)

\* A process that is not in a transaction, or whose runner's rows stay as they
\* are, keeps what it knows while the others commit.
LEMMA OthersKeep ==
  ASSUME NEW q \in Processes, ProcessSound(q),
         applied \subseteq applied', migrating'[q] = migrating[q],
         InTransaction(q) =>
           \A row \in applied' : row \in applied \/ row.schema # Runner(q).schema
  PROVE  ProcessSound(q)'
<1> PICK m : m = migrating[q] OBVIOUS
<1> USE DEF FilesOf
<1>1. migrating'[q] = m OBVIOUS
<1>2. ASSUME NEW i, Recorded(m, i) PROVE Recorded(m, i)'
  BY <1>2 DEF Recorded
<1>3. SeenRecorded(m) => SeenRecorded(m)' BY DEF SeenRecorded
<1>4. CauseOfFailure(m) => CauseOfFailure(m)' BY DEF CauseOfFailure, EditedSince
<1>5. (Left(q) = {}) => (Left(q) = {})' BY DEF Left, Directory, Runner
<1>6. ASSUME m.at = "apply", \A f \in Left(q) : IsNext(q, f) => RecordedAs(q, f) = {}
      PROVE (\A f \in Left(q) : IsNext(q, f) => RecordedAs(q, f) = {})'
  BY <1>6 DEF Left, Directory, Runner, IsNext, RecordedAs, InTransaction
<1> QED BY <1>1, <1>2, <1>3, <1>4, <1>5, <1>6 DEF ProcessSound

\* The runners' records differ in their schemas.
LEMMA SchemaNamesRunner ==
  ASSUME NEW i \in DOMAIN Runners, NEW j \in DOMAIN Runners,
         Runners[i].schema = Runners[j].schema
  PROVE  Runners[i] = Runners[j]
<1>1. \A k \in DOMAIN Runners :
        Runners[k] \in {applyPostgresMigrations, applyGovernancePostgresMigrations,
                       applyProjectAccessPostgresMigrations, applyTestPlanMigrations}
  BY RunnerAssumption
<1> QED
  BY <1>1
  DEF applyPostgresMigrations, applyGovernancePostgresMigrations,
      applyProjectAccessPostgresMigrations, applyTestPlanMigrations

\* A row that is recorded for a file is this build's row, or shows that the file
\* has been edited.
LEMMA RowOrEdited ==
  ASSUME MigrationsTyped, NEW schema, NEW f, NEW row \in applied,
         row.schema = schema, row.version = f.version
  PROVE  Row(schema, f) \in applied \/ EditedSince(schema, f)
<1>1. PICK i \in DOMAIN Runners, g \in Files : row = Row(Runners[i].schema, g)
  BY DEF MigrationsTyped, SchemaRows
<1>2. CASE row.checksum = f.checksum BY <1>1, <1>2 DEF Row
<1>3. CASE row.checksum # f.checksum BY <1>3 DEF EditedSince
<1> QED BY <1>2, <1>3

\* What a step of one process leaves of the others: their records, and every
\* row; what it adds are rows of its own runner's schema.
StepOf(p) ==
  /\ \A q \in Processes \ {p} : migrating'[q] = migrating[q]
  /\ applied \subseteq applied'
  /\ \A row \in applied' :
       row \in applied \/ (InTransaction(p) /\ row.schema = Runner(p).schema)

\* A process changes its own progress, and the rows of a schema only while it
\* holds that schema's lock.
LEMMA Steps ==
  ASSUME MigrationsInv, NEW p \in Processes, Migrate(p) \/ Restart(p)
  PROVE  MigrationsTyped' /\ StepOf(p)
<1>1. MigrationsTyped /\ ProcessSound(p) BY DEF MigrationsInv
<1>2. PICK m : m = migrating[p] OBVIOUS
<1>3. /\ m.runner \in DOMAIN Runners /\ m.build \in Builds
      /\ m.seen \in SUBSET Files /\ m.rows \in SUBSET SchemaRows
  BY <1>1, <1>2 DEF MigrationsTyped, MigrationRecords
<1>4. Directory(p) \subseteq Files /\ Runner(p) = Runners[m.runner]
  BY <1>2, <1>3 DEF Directory, Runner, Files
<1>5. \A row \in m.rows : row.schema = Runner(p).schema
  BY <1>1, <1>2, <1>4 DEF ProcessSound
<1>6. ASSUME NEW next \in MigrationRecords, migrating' = [migrating EXCEPT ![p] = next],
             UNCHANGED applied
      PROVE  MigrationsTyped' /\ StepOf(p)
  BY <1>1, <1>6 DEF MigrationsTyped, StepOf
<1>7. ASSUME NEW at \in Places, migrating' = [migrating EXCEPT ![p].at = at],
             UNCHANGED applied
      PROVE  MigrationsTyped' /\ StepOf(p)
  <2>1. [m EXCEPT !.at = at] \in MigrationRecords BY <1>1, <1>2 DEF MigrationsTyped, MigrationRecords
  <2>2. migrating' = [migrating EXCEPT ![p] = [m EXCEPT !.at = at]]
    BY <1>1, <1>2, <1>7 DEF MigrationsTyped
  <2> QED BY <1>6, <1>7, <2>1, <2>2
<1>8. CASE Fail(p) /\ UNCHANGED applied
  <2>1. [m EXCEPT !.at = "failed", !.rows = {}] \in MigrationRecords
    BY <1>1, <1>2 DEF MigrationsTyped, MigrationRecords, Places
  <2>2. migrating' = [migrating EXCEPT ![p] = [m EXCEPT !.at = "failed", !.rows = {}]]
    BY <1>1, <1>2, <1>8 DEF MigrationsTyped, Fail
  <2> QED BY <1>6, <1>8, <2>1, <2>2
<1>9. CASE LoadMigrations(p)
  <2>1. ASSUME migrating' = [migrating EXCEPT ![p].at = "lock", ![p].seen = {}]
        PROVE  MigrationsTyped' /\ StepOf(p)
    <3>1. [m EXCEPT !.at = "lock", !.seen = {}] \in MigrationRecords
      BY <1>1, <1>2 DEF MigrationsTyped, MigrationRecords, Places
    <3>2. migrating' = [migrating EXCEPT ![p] = [m EXCEPT !.at = "lock", !.seen = {}]]
      BY <1>1, <1>2, <2>1 DEF MigrationsTyped
    <3> QED BY <1>6, <1>9, <3>1, <3>2 DEF LoadMigrations
  <2> QED BY <1>8, <1>9, <2>1 DEF LoadMigrations
<1>10. CASE LockAndBootstrap(p)
  BY <1>7, <1>8, <1>10 DEF LockAndBootstrap, Places
<1>11. CASE Look(p)
  <2>1. ASSUME NEW f \in Left(p), migrating' = [migrating EXCEPT ![p].seen = @ \union {f}]
        PROVE  MigrationsTyped' /\ StepOf(p)
    <3>1. f \in Files BY <1>4, <2>1 DEF Left
    <3>2. [m EXCEPT !.seen = @ \union {f}] \in MigrationRecords
      BY <1>1, <1>2, <3>1 DEF MigrationsTyped, MigrationRecords
    <3>3. migrating' = [migrating EXCEPT ![p] = [m EXCEPT !.seen = @ \union {f}]]
      BY <1>1, <1>2, <2>1 DEF MigrationsTyped
    <3> QED BY <1>6, <1>11, <3>2, <3>3 DEF Look
  <2> QED BY <1>7, <1>8, <1>11, <2>1 DEF Look, Places
<1>12. CASE Apply(p)
  <2>1. ASSUME NEW f \in Left(p),
               migrating' = [migrating EXCEPT ![p].at = "look", ![p].seen = @ \union {f},
                               ![p].rows = @ \union {Row(Runner(p).schema, f)}]
        PROVE  MigrationsTyped' /\ StepOf(p)
    <3> DEFINE row == Row(Runners[m.runner].schema, f)
    <3>1. f \in Files BY <1>4, <2>1 DEF Left
    <3>2. row \in SchemaRows BY <1>3, <3>1 DEF SchemaRows
    <3> HIDE DEF row
    <3>3. [m EXCEPT !.at = "look", !.seen = @ \union {f}, !.rows = @ \union {row}] \in MigrationRecords
      BY <1>1, <1>2, <3>1, <3>2 DEF MigrationsTyped, MigrationRecords, Places
    <3>4. migrating' = [migrating EXCEPT ![p] =
             [m EXCEPT !.at = "look", !.seen = @ \union {f}, !.rows = @ \union {row}]]
      BY <1>1, <1>2, <1>4, <2>1 DEF MigrationsTyped, row
    <3> QED BY <1>6, <1>12, <3>3, <3>4 DEF Apply
  <2> QED BY <1>8, <1>12, <2>1 DEF Apply
<1>13. CASE Commit(p)
  <2>1. DOMAIN Runners = 1..Len(Runners) /\ Len(Runners) \in Nat BY RunnerAssumption
  <2>2. applied' \subseteq SchemaRows BY <1>1, <1>2, <1>3, <1>13 DEF Commit, MigrationsTyped
  <2> DEFINE runner == IF m.runner = Len(Runners) THEN m.runner ELSE m.runner + 1
             at == IF m.runner = Len(Runners) THEN "done" ELSE "load"
  <2>3. runner \in DOMAIN Runners /\ at \in Places BY <1>3, <2>1 DEF Places
  <2>4. migrating' = [migrating EXCEPT ![p].rows = {}, ![p].seen = {},
                                       ![p].runner = runner, ![p].at = at]
    BY <1>1, <1>2, <1>13 DEF Commit, MigrationsTyped
  <2> HIDE DEF runner, at
  <2>5. [m EXCEPT !.rows = {}, !.seen = {}, !.runner = runner, !.at = at] \in MigrationRecords
    BY <1>1, <1>2, <2>3 DEF MigrationsTyped, MigrationRecords
  <2>6. migrating' = [migrating EXCEPT ![p] =
          [m EXCEPT !.rows = {}, !.seen = {}, !.runner = runner, !.at = at]]
    BY <1>1, <1>2, <2>4 DEF MigrationsTyped
  <2>7. StepOf(p)
    BY <1>1, <1>2, <1>5, <1>13, <2>6 DEF Commit, StepOf, InTransaction, MigrationsTyped
  <2> QED BY <1>1, <2>2, <2>5, <2>6, <2>7 DEF MigrationsTyped
<1>14. CASE ConnectionLost(p)
  <2> DEFINE next == [m EXCEPT !.at = "failed", !.rows = {}, !.lost = TRUE]
  <2>1. next \in MigrationRecords BY <1>1, <1>2, Zenon DEF MigrationsTyped, MigrationRecords, Places
  <2>2. migrating' = [migrating EXCEPT ![p] = next]
    BY <1>1, <1>2, <1>14 DEF ConnectionLost, MigrationsTyped
  <2> HIDE DEF next
  <2>3. applied' \subseteq SchemaRows
    BY <1>1, <1>2, <1>3, <1>14 DEF ConnectionLost, MigrationsTyped
  <2>4. StepOf(p)
    BY <1>1, <1>2, <1>5, <1>14, <2>2 DEF ConnectionLost, StepOf, InTransaction, MigrationsTyped
  <2> QED BY <1>1, <2>1, <2>2, <2>3, <2>4 DEF MigrationsTyped
<1>15. CASE Restart(p)
  <2>1. 1 \in DOMAIN Runners BY RunnerAssumption
  <2>2. \A b \in Builds : Starting(b) \in MigrationRecords BY <2>1 DEF Starting, MigrationRecords, Places
  <2> QED BY <1>6, <1>15, <2>2 DEF Restart
<1> QED BY <1>9, <1>10, <1>11, <1>12, <1>13, <1>14, <1>15 DEF Migrate

\* The advisory lock: whoever enters a transaction found the lock free, and
\* whoever is in one keeps its runner until it leaves.
LEMMA LockKept ==
  ASSUME MigrationsInv, NEW p \in Processes, Migrate(p) \/ Restart(p)
  PROVE  LockHeldOnce'
<1>1. MigrationsTyped /\ LockHeldOnce BY DEF MigrationsInv
<1>2. StepOf(p) BY Steps
<1>3. ASSUME InTransaction(p)'
      PROVE  Runner(p)' = Runner(p) /\ (InTransaction(p) \/ LockFree(p))
  <2> USE <1>1, <1>3 DEF InTransaction, Runner, MigrationsTyped, MigrationRecords
  <2>1. CASE Fail(p) BY <2>1 DEF Fail
  <2>2. CASE LoadMigrations(p) BY <2>1, <2>2 DEF LoadMigrations
  <2>3. CASE LockAndBootstrap(p) BY <2>1, <2>3 DEF LockAndBootstrap
  <2>4. CASE Look(p) BY <2>1, <2>4 DEF Look
  <2>5. CASE Apply(p) BY <2>1, <2>5 DEF Apply
  <2>6. CASE Commit(p) BY <2>6 DEF Commit
  <2>7. CASE ConnectionLost(p) BY <2>7 DEF ConnectionLost
  <2>8. CASE Restart(p) BY <2>8 DEF Restart, Starting
  <2> QED BY <2>2, <2>3, <2>4, <2>5, <2>6, <2>7, <2>8 DEF Migrate
<1> QED
  BY <1>1, <1>2, <1>3 DEF LockHeldOnce, LockFree, StepOf, InTransaction, Runner

-----------------------------------------------------------------------------
(* The steps of one process and what it knows after them                     *)

\* A process that fails has a cause that lasts.
LEMMA FailedSound ==
  ASSUME NEW p \in Processes, MigrationsTyped, ProcessSound(p), applied \subseteq applied',
         Fail(p), CauseOfFailure(migrating[p])
  PROVE  ProcessSound(p)'
<1> PICK m : m = migrating[p] OBVIOUS
<1> PICK n : n = migrating'[p] OBVIOUS
<1>1. /\ n.build = m.build /\ n.runner = m.runner /\ n.lost = m.lost
      /\ n.at = "failed" /\ n.rows = {}
  BY DEF Fail, MigrationsTyped, MigrationRecords
<1>2. CauseOfFailure(n)' BY <1>1 DEF CauseOfFailure, EditedSince, FilesOf
<1>3. \A i \in 1..(n.runner - 1) : Recorded(n, i)' BY <1>1 DEF ProcessSound, Recorded, FilesOf
<1> QED BY <1>1, <1>2, <1>3 DEF ProcessSound

\* Reading the directory keeps the invariant.
LEMMA LoadSound ==
  ASSUME NEW p \in Processes, MigrationsTyped, ProcessSound(p), LoadMigrations(p)
  PROVE  ProcessSound(p)'
<1> PICK m : m = migrating[p] OBVIOUS
<1> PICK n : n = migrating'[p] OBVIOUS
<1>1. Directory(p) = FilesOf(m, m.runner) BY DEF Directory, Runner, FilesOf
<1>2. m \in MigrationRecords BY DEF MigrationsTyped
<1>3. CASE ~ Loadable(Directory(p))
  <2>1. CauseOfFailure(m) BY <1>1, <1>2, <1>3 DEF CauseOfFailure, MigrationRecords
  <2> QED BY <1>3, <2>1, FailedSound DEF LoadMigrations
<1>4. CASE Loadable(Directory(p))
  <2>1. /\ n.build = m.build /\ n.runner = m.runner /\ n.lost = m.lost
        /\ n.at = "lock" /\ n.rows = m.rows /\ n.seen = {}
    BY <1>4 DEF LoadMigrations, MigrationsTyped, MigrationRecords
  <2>2. \A i \in 1..(n.runner - 1) : Recorded(n, i)'
    BY <2>1 DEF ProcessSound, Recorded, FilesOf, LoadMigrations
  <2>3. Loadable(FilesOf(n, n.runner)) /\ SeenRecorded(n)'
    BY <1>1, <1>4, <2>1 DEF FilesOf, SeenRecorded
  <2>4. m.rows = {} BY DEF ProcessSound, LoadMigrations
  <2> QED BY <2>1, <2>2, <2>3, <2>4 DEF ProcessSound
<1> QED BY <1>3, <1>4

\* The schema a runner requires is there: the runner that creates it came before.
LEMMA LockSound ==
  ASSUME NEW p \in Processes, MigrationsTyped, ProcessSound(p), LockAndBootstrap(p)
  PROVE  ProcessSound(p)'
<1> PICK m : m = migrating[p] OBVIOUS
<1> PICK n : n = migrating'[p] OBVIOUS
<1>1. m \in MigrationRecords BY DEF MigrationsTyped
<1>2. \A s \in Runner(p).requires : \E row \in applied : row.schema = s
  <2> TAKE s \in Runner(p).requires
  <2>1. PICK j \in 1..(m.runner - 1) : Runners[j].schema = s
    BY <1>1, RunnerAssumption DEF Runner, MigrationRecords
  <2>2. Recorded(m, j) BY <2>1 DEF ProcessSound
  <2>3. PICK f \in FilesOf(m, j) : TRUE BY <2>2 DEF Recorded, Loadable
  <2>4. Row(Runners[j].schema, f) \in applied BY <2>2, <2>3 DEF Recorded
  <2> QED BY <2>1, <2>4 DEF Row
<1>3. /\ n.build = m.build /\ n.runner = m.runner /\ n.lost = m.lost
      /\ n.at = "look" /\ n.rows = m.rows /\ n.seen = m.seen
  BY <1>2 DEF LockAndBootstrap, MigrationsTyped, MigrationRecords
<1>4. \A i \in 1..(n.runner - 1) : Recorded(n, i)'
  BY <1>3 DEF ProcessSound, Recorded, FilesOf, LockAndBootstrap
<1>5. Loadable(FilesOf(n, n.runner)) /\ SeenRecorded(n)'
  BY <1>3 DEF FilesOf, SeenRecorded, ProcessSound, LockAndBootstrap
<1>6. m.rows = {} BY DEF ProcessSound, LockAndBootstrap
<1> QED BY <1>3, <1>4, <1>5, <1>6 DEF ProcessSound

\* Looking at one file keeps the invariant.
LEMMA LookSound ==
  ASSUME NEW p \in Processes, MigrationsTyped, ProcessSound(p), Look(p)
  PROVE  ProcessSound(p)'
<1> PICK m : m = migrating[p] OBVIOUS
<1> PICK n : n = migrating'[p] OBVIOUS
<1> USE DEF FilesOf
<1>1. m \in MigrationRecords /\ m.at = "look" /\ applied' = applied BY DEF MigrationsTyped, Look
<1>2. /\ Directory(p) = FilesOf(m, m.runner) /\ Left(p) = FilesOf(m, m.runner) \ m.seen
      /\ Runner(p) = Runners[m.runner]
  BY DEF Directory, Runner, Left
<1>3. CASE Left(p) = {} /\ migrating' = [migrating EXCEPT ![p].at = "commit"]
  <2>1. /\ n.build = m.build /\ n.runner = m.runner /\ n.lost = m.lost
        /\ n.at = "commit" /\ n.rows = m.rows /\ n.seen = m.seen
    BY <1>1, <1>3 DEF MigrationsTyped, MigrationRecords
  <2>2. Left(p)' = {} BY <1>2, <1>3, <2>1 DEF Left, Directory, Runner
  <2> QED BY <1>1, <2>1, <2>2 DEF ProcessSound, Recorded, SeenRecorded
<1>4. ASSUME NEW f \in Left(p), IsNext(p, f), RecordedAs(p, f) = {},
             migrating' = [migrating EXCEPT ![p].at = "apply"]
      PROVE  ProcessSound(p)'
  <2>1. /\ n.build = m.build /\ n.runner = m.runner /\ n.lost = m.lost
        /\ n.at = "apply" /\ n.rows = m.rows /\ n.seen = m.seen
    BY <1>1, <1>4 DEF MigrationsTyped, MigrationRecords
  <2>2. Left(p)' = Left(p) /\ Runner(p)' = Runner(p)
    BY <1>2, <2>1 DEF Left, Directory, Runner
  <2>3. \A g \in Left(p) : IsNext(p, g) => g.version = f.version
    <3>1. \A g \in Left(p) : g.version \in Nat
      BY <1>1, <1>2, DirectoryAssumption DEF MigrationRecords
    <3> QED BY <1>4, <3>1 DEF IsNext
  <2>4. (\A g \in Left(p) : IsNext(p, g) => RecordedAs(p, g) = {})'
    BY <1>1, <1>4, <2>2, <2>3 DEF IsNext, RecordedAs
  <2> QED BY <1>1, <2>1, <2>4 DEF ProcessSound, Recorded, SeenRecorded
<1>5. ASSUME NEW f \in Left(p), Row(Runner(p).schema, f) \in applied,
             migrating' = [migrating EXCEPT ![p].seen = @ \union {f}]
      PROVE  ProcessSound(p)'
  <2>1. /\ n.build = m.build /\ n.runner = m.runner /\ n.lost = m.lost
        /\ n.at = "look" /\ n.rows = m.rows /\ n.seen = m.seen \union {f}
    BY <1>1, <1>5 DEF MigrationsTyped, MigrationRecords
  <2>2. \A i : Recorded(m, i) => Recorded(n, i)' BY <1>1, <2>1 DEF Recorded
  <2>3. SeenRecorded(m) => SeenRecorded(n)'
    <3>1. Row(Runners[n.runner].schema, f) \in applied BY <1>2, <1>5, <2>1
    <3> QED BY <1>1, <2>1, <3>1 DEF SeenRecorded
  <2> QED BY <1>1, <2>1, <2>2, <2>3 DEF ProcessSound
<1>6. ASSUME NEW f \in Left(p), RecordedAs(p, f) # {}, Row(Runner(p).schema, f) \notin applied,
             Fail(p)
      PROVE  ProcessSound(p)'
  <2>1. PICK row \in applied : row.schema = Runner(p).schema /\ row.version = f.version
    BY <1>6 DEF RecordedAs
  <2>2. EditedSince(Runners[m.runner].schema, f) BY <1>2, <1>6, <2>1, RowOrEdited
  <2>3. CauseOfFailure(m) BY <1>1, <1>2, <1>6, <2>2 DEF CauseOfFailure, MigrationRecords
  <2> QED BY <1>1, <1>6, <2>3, FailedSound
<1> QED BY <1>3, <1>4, <1>5, <1>6 DEF Look

\* Nobody else can have applied the file since the process looked for it.
LEMMA ApplySound ==
  ASSUME NEW p \in Processes, MigrationsTyped, ProcessSound(p), Apply(p)
  PROVE  ProcessSound(p)'
<1> PICK m : m = migrating[p] OBVIOUS
<1> PICK n : n = migrating'[p] OBVIOUS
<1> USE DEF FilesOf
<1>1. m \in MigrationRecords /\ m.at = "apply" /\ applied' = applied BY DEF MigrationsTyped, Apply
<1>2. Runner(p) = Runners[m.runner] BY DEF Runner
<1>3. PICK f \in Left(p) :
        /\ IsNext(p, f)
        /\ IF RecordedAs(p, f) # {} THEN Fail(p)
           ELSE migrating' =
                  [migrating EXCEPT ![p].at = "look", ![p].seen = @ \union {f},
                     ![p].rows = @ \union {Row(Runner(p).schema, f)}]
  BY DEF Apply
<1>4. RecordedAs(p, f) = {} BY <1>1, <1>3 DEF ProcessSound
<1> PICK row : row = Row(Runners[m.runner].schema, f) OBVIOUS
<1>5. /\ n.build = m.build /\ n.runner = m.runner /\ n.lost = m.lost
      /\ n.at = "look" /\ n.rows = m.rows \union {row} /\ n.seen = m.seen \union {f}
  BY <1>1, <1>2, <1>3, <1>4 DEF MigrationsTyped, MigrationRecords
<1>6. SeenRecorded(n)' BY <1>1, <1>5 DEF SeenRecorded, ProcessSound
<1>7. row.schema = Runners[m.runner].schema BY DEF Row
<1> QED BY <1>1, <1>5, <1>6, <1>7 DEF ProcessSound, Recorded

\* A commit keeps the invariant: the schema's files are all recorded.
LEMMA CommitSound ==
  ASSUME NEW p \in Processes, MigrationsTyped, ProcessSound(p), Commit(p)
  PROVE  ProcessSound(p)'
<1> PICK m : m = migrating[p] OBVIOUS
<1> PICK n : n = migrating'[p] OBVIOUS
<1> USE DEF FilesOf
<1>1. m \in MigrationRecords /\ m.at = "commit" /\ applied' = applied \union m.rows
  BY DEF MigrationsTyped, Commit
<1>2. DOMAIN Runners = 1..Len(Runners) /\ Len(Runners) \in Nat BY RunnerAssumption
<1>3. /\ n.build = m.build /\ n.lost = m.lost /\ n.rows = {} /\ n.seen = {}
      /\ n.runner = IF m.runner = Len(Runners) THEN m.runner ELSE m.runner + 1
      /\ n.at = IF m.runner = Len(Runners) THEN "done" ELSE "load"
  BY <1>1 DEF MigrationsTyped, MigrationRecords, Commit
<1>4. FilesOf(m, m.runner) \subseteq m.seen
  BY <1>1 DEF ProcessSound, Left, Directory, Runner
<1>5. Recorded(n, m.runner)'
  BY <1>1, <1>3, <1>4 DEF ProcessSound, Recorded, SeenRecorded
<1>6. \A i \in 1..(m.runner - 1) : Recorded(n, i)'
  BY <1>1, <1>3 DEF ProcessSound, Recorded
<1>7. m.runner \in 1..Len(Runners) BY <1>1, <1>2 DEF MigrationRecords
<1> QED BY <1>2, <1>3, <1>5, <1>6, <1>7 DEF ProcessSound

\* A lost connection keeps the invariant: what was not committed is forgotten.
LEMMA LostSound ==
  ASSUME NEW p \in Processes, MigrationsTyped, ProcessSound(p), ConnectionLost(p)
  PROVE  ProcessSound(p)'
<1> PICK m : m = migrating[p] OBVIOUS
<1> PICK n : n = migrating'[p] OBVIOUS
<1>1. applied \subseteq applied' BY DEF ConnectionLost
<1>2. /\ n.build = m.build /\ n.runner = m.runner /\ n.lost = TRUE
      /\ n.at = "failed" /\ n.rows = {}
  BY DEF ConnectionLost, MigrationsTyped, MigrationRecords
<1> QED BY <1>1, <1>2 DEF ProcessSound, Recorded, CauseOfFailure, FilesOf

\* A restarted process knows nothing and begins with the first schema.
LEMMA RestartSound ==
  ASSUME NEW p \in Processes, MigrationsTyped, Restart(p)
  PROVE  ProcessSound(p)'
<1> PICK n : n = migrating'[p] OBVIOUS
<1>1. n.runner = 1 /\ n.at = "load" /\ n.rows = {}
  BY DEF Restart, Starting, MigrationsTyped
<1> QED BY <1>1 DEF ProcessSound

\* The migrations of all processes, whoever takes the next step.
LEMMA MigrationsStep ==
  ASSUME MigrationsInv, NEW p \in Processes, Migrate(p) \/ Restart(p)
  PROVE  MigrationsInv'
<1>1. MigrationsTyped /\ LockHeldOnce /\ \A q \in Processes : ProcessSound(q)
  BY DEF MigrationsInv
<1>2. MigrationsTyped' /\ StepOf(p) BY Steps
<1>3. LockHeldOnce' BY LockKept
<1>4. ProcessSound(p)'
  <2>1. CASE LoadMigrations(p) BY <1>1, <2>1, LoadSound
  <2>2. CASE LockAndBootstrap(p) BY <1>1, <2>2, LockSound
  <2>3. CASE Look(p) BY <1>1, <2>3, LookSound
  <2>4. CASE Apply(p) BY <1>1, <2>4, ApplySound
  <2>5. CASE Commit(p) BY <1>1, <2>5, CommitSound
  <2>6. CASE ConnectionLost(p) BY <1>1, <2>6, LostSound
  <2>7. CASE Restart(p) BY <1>1, <2>7, RestartSound
  <2> QED BY <2>1, <2>2, <2>3, <2>4, <2>5, <2>6, <2>7 DEF Migrate
<1>5. ASSUME NEW q \in Processes \ {p} PROVE ProcessSound(q)'
  <2>1. ASSUME InTransaction(q), NEW row \in applied', row \notin applied
        PROVE  row.schema # Runner(q).schema
    <3>1. InTransaction(p) /\ row.schema = Runner(p).schema BY <1>2, <2>1 DEF StepOf
    <3>2. Runner(p) # Runner(q) BY <1>1, <1>5, <2>1, <3>1 DEF LockHeldOnce
    <3>3. migrating[p].runner \in DOMAIN Runners /\ migrating[q].runner \in DOMAIN Runners
      BY <1>1, <1>5 DEF MigrationsTyped, MigrationRecords
    <3> QED BY <3>1, <3>2, <3>3, SchemaNamesRunner DEF Runner
  <2>2. applied \subseteq applied' /\ migrating'[q] = migrating[q] BY <1>2, <1>5 DEF StepOf
  <2> QED BY <1>1, <1>5, <2>1, <2>2, OthersKeep
<1> QED BY <1>2, <1>3, <1>4, <1>5 DEF MigrationsInv

\* Processes that have not begun.
LEMMA MigrationsStart == MigrationsInit => MigrationsInv
<1> SUFFICES ASSUME MigrationsInit PROVE MigrationsInv OBVIOUS
<1>1. 1 \in DOMAIN Runners BY RunnerAssumption
<1>2. PICK builds \in [Processes -> Builds] :
        migrating = [p \in Processes |-> Starting(builds[p])]
  BY DEF MigrationsInit
<1>3. ASSUME NEW b \in Builds PROVE Starting(b) \in MigrationRecords
  BY <1>1 DEF Starting, MigrationRecords, Places
<1>4. MigrationsTyped BY <1>2, <1>3 DEF MigrationsInit, MigrationsTyped
<1>5. ASSUME NEW p \in Processes
      PROVE  migrating[p].runner = 1 /\ migrating[p].at = "load" /\ migrating[p].rows = {}
  BY <1>2, <1>5 DEF Starting
<1>6. ASSUME NEW p \in Processes PROVE ProcessSound(p) BY <1>5, <1>6 DEF ProcessSound
<1>7. LockHeldOnce BY <1>5 DEF LockHeldOnce, InTransaction
<1> QED BY <1>4, <1>6, <1>7 DEF MigrationsInv

-----------------------------------------------------------------------------
(* The service itself                                                        *)

\* What config.js accepts and a constructor still refuses has a long URL.
LEMMA RefusedForItsUrl ==
  ASSUME NEW env \in Environments, AcceptedEnvironment(env),
         ~ Composable(LoadServiceConfig(env))
  PROVE  LongUrls(env) # {}
<1> SUFFICES ASSUME LongUrls(env) = {} PROVE Composable(LoadServiceConfig(env))
  OBVIOUS
<1> PICK config1 : config1 = LoadServiceConfig(env) OBVIOUS
<1>1. /\ config1.urls = env.urls /\ config1.audiences = env.audiences
      /\ config1.mappings = env.mappings
      /\ \A name \in DOMAIN Numbers : config1.numbers[name] = NumberOf(env.numbers, name)
  BY DEF LoadServiceConfig
<1>2. \A name \in {"OIDC_ISSUER", "OIDC_JWKS_URI"} :
        env.urls[name] \in {"good", "query"}
  BY EnvironmentAssumption DEF AcceptedEnvironment, ValidUrls, LongUrls
<1>3. env.urls["OIDC_ISSUER"] = "good"
  BY <1>2 DEF AcceptedEnvironment, ValidUrls
<1>4. \A name \in DOMAIN Numbers :
        \/ config1.numbers[name] = Numbers[name].fallback
        \/ config1.numbers[name] \in Numbers[name].least..Numbers[name].most
  BY <1>1 DEF AcceptedEnvironment, InRange, NumberOf
<1>5. SubjectMapperAccepts(config1)
  <2>1. ValidMappings(env.mappings) BY DEF AcceptedEnvironment
  <2>2. \A i \in DOMAIN env.mappings :
          env.mappings[i].subject # "" /\ env.mappings[i].actor = "good"
    BY <2>1, Zenon DEF ValidMappings
  <2> QED BY <1>1, <2>2 DEF SubjectMapperAccepts
<1>6. RemoteJwksProviderAccepts(config1)
  BY <1>1, <1>2, <1>4 DEF RemoteJwksProviderAccepts, UrlWithin2048, Numbers, Bounded
<1>7. OidcAuthenticationAccepts(config1)
  <2>1. ValidAudiences(config1.audiences) BY <1>1 DEF AcceptedEnvironment
  <2>2. config1.numbers["OIDC_CLOCK_SKEW_SECONDS"] \in 0..300
    <3>1. /\ "OIDC_CLOCK_SKEW_SECONDS" \in DOMAIN Numbers
          /\ Numbers["OIDC_CLOCK_SKEW_SECONDS"] = Bounded(60, 0, 300)
      BY DEF Numbers
    <3> QED BY <1>4, <3>1 DEF Bounded
  <2>3. config1.numbers["OIDC_MAX_TOKEN_AGE_SECONDS"] \in {Unbounded} \union 1..OneDay
    <3>1. /\ "OIDC_MAX_TOKEN_AGE_SECONDS" \in DOMAIN Numbers
          /\ Numbers["OIDC_MAX_TOKEN_AGE_SECONDS"] = Bounded(Unbounded, 1, OneDay)
      BY DEF Numbers
    <3> QED BY <1>4, <3>1 DEF Bounded
  <2> QED BY <1>1, <1>3, <2>1, <2>2, <2>3, Zenon DEF OidcAuthenticationAccepts
<1>8. RateLimiterAccepts(config1) BY <1>4 DEF RateLimiterAccepts, Numbers, Bounded
<1>9. TransportsAccept(config1) BY <1>4 DEF TransportsAccept, Numbers, Bounded
<1>10. ReadinessAccepts(config1) BY <1>4 DEF ReadinessAccepts, Numbers, Bounded
<1> QED BY <1>5, <1>6, <1>7, <1>8, <1>9, <1>10 DEF Composable

\* Only Listen opens the port.
LEMMA NotListeningStep == NotListening /\ [ServiceNext]_serviceVars => NotListening'
<1> SUFFICES ASSUME NotListening, [ServiceNext]_serviceVars PROVE NotListening'
  OBVIOUS
<1> USE DEF NotListening, readiness
<1>1. CASE ComposeFails BY <1>1 DEF ComposeFails
<1>2. CASE Listen BY <1>2 DEF Listen
<1>3. CASE Main BY <1>3 DEF Main, Listening, ListenFails, FirstCheck, CallStop, StartRejects, Catch
<1>4. CASE Checks BY <1>4 DEF Checks, CheckSettles, CallStop
<1>5. CASE PerformStop
  BY <1>5
  DEF PerformStop, CloseServer, ServerCloses, Drained, DrainTimesOut, Destroyed, EndPool, Stopped
<1>6. CASE Signal BY <1>6 DEF Signal, CallStop
<1>7. CASE OpenRequest \/ Respond \/ Probe BY <1>7 DEF OpenRequest, Respond, Probe
<1>8. CASE UNCHANGED serviceVars BY <1>8 DEF serviceVars
<1> QED BY <1>1, <1>2, <1>3, <1>4, <1>5, <1>6, <1>7, <1>8 DEF ServiceNext, Running

\* A process that has not migrated yet.
LEMMA StartInvInit == StartInit => StartInv
<1> SUFFICES ASSUME StartInit PROVE StartInv OBVIOUS
<1>1. MigrationsInv BY MigrationsStart DEF StartInit
<1>2. NotListening BY DEF StartInit, ServiceInit, NotListening
<1>3. migrating[Self].at = "load"
  BY SelfAssumption DEF StartInit, MigrationsInit, Starting
<1>4. SelfSound BY <1>3 DEF StartInit, ServiceInit, SelfSound
<1> QED BY <1>1, <1>2, <1>4 DEF StartInv

\* Every step of the start keeps the invariant.
LEMMA StartInvStep == StartInv /\ [StartNext]_startVars => StartInv'
<1> SUFFICES ASSUME StartInv, [StartNext]_startVars PROVE StartInv'
  OBVIOUS
<1>1. MigrationsInv /\ SelfSound /\ NotListening BY DEF StartInv
<1>2. NotListening' BY <1>1, NotListeningStep, StartStepIsLifecycleStep
<1>3. ASSUME UNCHANGED migrationVars PROVE MigrationsInv'
  BY <1>1, <1>3
  DEF migrationVars, MigrationsInv, MigrationsTyped, ProcessSound, LockHeldOnce, Recorded,
      SeenRecorded, CauseOfFailure, EditedSince, Left, Directory, Runner, IsNext,
      RecordedAs, InTransaction
<1>4. CASE LoadConfig
  <2>1. MigrationsInv' BY <1>3, <1>4 DEF LoadConfig
  <2>2. server' = server /\ migrating' = migrating /\ config.status = "unread"
    BY <1>4 DEF LoadConfig, ComposeFails, serviceVars, migrationVars
  <2>3. migrating[Self].at = "load" BY <1>1, <2>2 DEF SelfSound
  <2>4. PICK env \in Environments :
          IF AcceptedEnvironment(env)
          THEN config' = [status |-> IF Composable(LoadServiceConfig(env)) THEN "composable"
                                     ELSE "loaded",
                          long |-> LongUrls(env)]
          ELSE config' = [config EXCEPT !.status = "refused"]
    BY <1>4 DEF LoadConfig
  <2>5. CASE AcceptedEnvironment(env)
    <3>1. /\ config'.status \in {"loaded", "composable"} /\ config'.long = LongUrls(env)
          /\ config' = [status |-> config'.status, long |-> config'.long]
      BY <2>4, <2>5
    <3>2. config'.status = "loaded" => LongUrls(env) # {}
      BY <2>4, <2>5, RefusedForItsUrl
    <3>3. server' # "new" => migrating'[Self].at = "done"
      BY <1>1, <2>2 DEF SelfSound, Migrated
    <3>4. SelfSound' BY <3>1, <3>2, <3>3 DEF SelfSound, Migrated
    <3> QED BY <1>2, <2>1, <3>4 DEF StartInv
  <2>6. CASE ~ AcceptedEnvironment(env)
    <3>1. config' = [status |-> "refused", long |-> config.long]
      <4> PICK status, long : status = config.status /\ long = config.long OBVIOUS
      <4>1. config = [status |-> status, long |-> long] BY <1>1 DEF SelfSound
      <4> QED BY <2>4, <2>6, <4>1
    <3>2. SelfSound' BY <1>1, <2>2, <2>3, <3>1 DEF SelfSound, Migrated
    <3> QED BY <1>2, <2>1, <3>2 DEF StartInv
  <2> QED BY <2>5, <2>6
<1>5. CASE Compose
  <2>1. /\ main = "composing" /\ server = "new" /\ config' = config
        /\ config.status \in {"loaded", "composable"}
    BY <1>1, <1>5 DEF Compose, Loaded, NotListening
  <2>2. CASE Migrate(Self) /\ UNCHANGED serviceVars
    <3>1. MigrationsInv' BY <1>1, <2>2, SelfAssumption, MigrationsStep
    <3>2. SelfSound' BY <1>1, <2>1, <2>2 DEF SelfSound, serviceVars
    <3> QED BY <1>2, <3>1, <3>2 DEF StartInv
  <2>3. CASE ComposeFails /\ UNCHANGED migrationVars
    <3>1. SelfSound'
      BY <1>1, <2>1, <2>3 DEF SelfSound, ComposeFails, Migrated, migrationVars
    <3> QED BY <1>2, <1>3, <2>3, <3>1 DEF StartInv
  <2>4. CASE Listen /\ Migrated(Self) /\ UNCHANGED migrationVars
    <3>1. SelfSound' BY <1>1, <2>1, <2>4 DEF SelfSound, Listen, Migrated, migrationVars
    <3> QED BY <1>2, <1>3, <2>4, <3>1 DEF StartInv
  <2> QED BY <1>5, <2>2, <2>3, <2>4 DEF Compose
<1>6. CASE Others
  <2>1. PICK p \in Processes \ {Self} : Migrate(p) \/ Restart(p) BY <1>6 DEF Others
  <2>2. MigrationsInv' BY <1>1, <2>1, MigrationsStep
  <2>3. migrating'[Self] = migrating[Self] BY <1>1, <2>1, Steps, SelfAssumption DEF StepOf
  <2>4. server' = server /\ config' = config BY <1>6 DEF Others, serviceVars
  <2>5. SelfSound' BY <1>1, <2>3, <2>4 DEF SelfSound, Migrated
  <2> QED BY <1>2, <2>2, <2>5 DEF StartInv
<1>7. CASE Running /\ UNCHANGED <<migrationVars, config>>
  <2>1. server = "new" => server' = "new"
    BY <1>1, <1>7
    DEF NotListening, readiness, Running, Main, Checks, PerformStop, Listening, ListenFails,
        FirstCheck, StartRejects, Catch, CheckSettles, CloseServer, ServerCloses, Drained,
        DrainTimesOut, Destroyed, EndPool, Stopped, Signal, OpenRequest, Respond, Probe
  <2>2. SelfSound' BY <1>1, <1>7, <2>1 DEF SelfSound, Migrated, migrationVars
  <2> QED BY <1>2, <1>3, <1>7, <2>2 DEF StartInv
<1>8. CASE UNCHANGED startVars
  <2>1. SelfSound' BY <1>1, <1>8 DEF SelfSound, Migrated, startVars, serviceVars, migrationVars
  <2> QED BY <1>2, <1>3, <1>8, <2>1 DEF StartInv, startVars
<1> QED BY <1>4, <1>5, <1>6, <1>7, <1>8 DEF StartNext

\* The invariant of the migrations, for any number of processes and releases
\* and whether or not the host needs a lookup.
THEOREM MigrationsInvariance == StartSpec => []StartInv
  BY StartInvInit, StartInvStep, PTL DEF StartSpec

\* Migrations that succeed have recorded every file, migrations that fail have a
\* cause other than the other processes, and the service listens only after its
\* own have succeeded.
THEOREM MigrationsAreSettled == StartSpec => []MigrationsSettle
<1>1. StartInv => MigrationsSettle
  BY SelfAssumption
  DEF StartInv, SelfSound, MigrationsInv, ProcessSound, Recorded, CauseOfFailure, FilesOf,
      Migrated, MigrationFailed, MigrationsSettle
<1> QED BY <1>1, MigrationsInvariance, PTL
=============================================================================
