------------------------- MODULE OidcAuthentication -------------------------
(***************************************************************************)
(* Bearer authentication (governance-auth-oidc): which tokens are accepted *)
(* at which time (jwt.js, oidc-authentication.js,                          *)
(* static-subject-mapper.js), and the cache of the identity provider's     *)
(* signing keys (remote-jwks-provider.js) with one refresh in flight at a  *)
(* time, shared by everyone who needs it.  The identity provider, which    *)
(* signs tokens and publishes and withdraws keys while the service runs,   *)
(* and the clients who present tokens are external.                        *)
(*                                                                         *)
(* A token is the record of what the checks tell apart; its times are      *)
(* seconds, the clock's unit.                                              *)
(***************************************************************************)
EXTENDS Integers, FiniteSets

CONSTANTS
  Algorithms, \* allowedAlgorithms
  Issuer,     \* the configured issuer
  Audiences,  \* the configured audiences
  Skew,       \* clockSkewSeconds
  MaxAge,     \* maxTokenAgeSeconds, or Unlimited
  Subjects,   \* the registered subjects: whether each is disabled
  KeyIds,      \* key ids a token may name
  Warmed,      \* the keys published when the service starts
  TTL,         \* how long fetched keys are used
  MinInterval, \* minimumRefreshIntervalMs
  Timeout,     \* timeoutMs of one fetch
  MaxRotations,\* bound: keys the provider publishes or withdraws meanwhile
  MaxTime      \* bound: the clock stops here

ASSUME ClockAssumption ==
  /\ {TTL, MinInterval, Timeout, MaxTime} \subseteq Nat
  /\ TTL > 0 /\ Timeout > 0
ASSUME WarmedAssumption == Warmed \subseteq KeyIds

VARIABLES
  now,           \* Date.now(), in units of the bounds above
  published,     \* when each key was published and when it was withdrawn
  cache,         \* this.cache, with the provider's answer it came from
  lastRefreshAt, \* this.lastRefreshAt
  fetch          \* this.refreshPromise and the fetch behind it

keyVars == <<published, cache, lastRefreshAt, fetch>>

Never == MaxTime + 1

NoFetch == [stage |-> "none", began |-> 0, keys |-> {}]

\* The provider's answer: the keys published at this moment.
PublishedNow ==
  {k \in KeyIds : published[k].from <= now /\ published[k].until = Never}

SigningKeysTypeOK ==
  /\ now \in 0..MaxTime
  /\ published \in [KeyIds -> [from : 0..Never, until : 0..Never]]
  /\ cache \in [keys : SUBSET KeyIds, expiresAt : Nat]
  /\ lastRefreshAt \in 0..MaxTime
  /\ fetch \in [stage : {"none", "asked", "answered", "recording"},
                began : 0..MaxTime, keys : SUBSET KeyIds]

\* The composition warms the cache before the service listens.
SigningKeysInit ==
  /\ now = 0
  /\ published = [k \in KeyIds |-> [from |-> IF k \in Warmed THEN 0 ELSE Never,
                                    until |-> Never]]
  /\ cache = [keys |-> Warmed, expiresAt |-> TTL]
  /\ lastRefreshAt = 0
  /\ fetch = NoFetch

-----------------------------------------------------------------------------
(* Tokens                                                                  *)

Unlimited == -1
Unset == -1

\* The constructor of OidcJwksBearerAuthentication refuses anything else.
ConfigurationAccepted ==
  /\ Algorithms # {} /\ Algorithms \subseteq {"RS256"}
  /\ Audiences # {}
  /\ Skew \in 0..300
  /\ MaxAge = Unlimited \/ MaxAge \in 1..86400

ASSUME ConfigurationAssumption == ConfigurationAccepted

\* parseCompactJwt: three canonical base64url segments, two of them JSON objects.
Parsed(token) == token.compact

\* A key reference or a critical header in the token is refused, whatever it says.
ValidHeader(token) == token.alg \in Algorithms /\ token.references = {}

\* validateJwtClaims.
ValidClaims(token, at) ==
  /\ token.issuer = Issuer
  /\ token.audiences \cap Audiences # {}
  /\ token.exp > at - Skew
  /\ token.iat <= at + Skew /\ token.exp > token.iat
  /\ token.nbf # Unset => token.nbf <= at + Skew /\ token.exp > token.nbf
  /\ MaxAge # Unlimited => at - token.iat <= MaxAge + Skew

\* validateSigningJwk and verifyJwtSignature: the key is an RSA key for signatures
\* and this algorithm, and it signed this token.
Verified(token) == token.signed

\* StaticSubjectMapper.map.
Mapped(token) == token.subject \in DOMAIN Subjects /\ ~Subjects[token.subject].disabled

\* What is checked before the key is looked up, and after.
AcceptedBeforeKey(token, at) == Parsed(token) /\ ValidHeader(token) /\ ValidClaims(token, at)
AcceptedWithKey(token) == Verified(token) /\ Mapped(token)

-----------------------------------------------------------------------------
(* The identity provider rotates its keys                                  *)

MayRotate ==
  Cardinality({k \in KeyIds \ Warmed : published[k].from # Never})
    + Cardinality({k \in KeyIds : published[k].until # Never}) < MaxRotations

Publish(k) ==
  /\ MayRotate
  /\ published[k].from = Never
  /\ published' = [published EXCEPT ![k].from = now]
  /\ UNCHANGED <<cache, lastRefreshAt, fetch>>

Withdraw(k) ==
  /\ MayRotate
  /\ published[k].from # Never /\ published[k].until = Never
  /\ published' = [published EXCEPT ![k].until = now]
  /\ UNCHANGED <<cache, lastRefreshAt, fetch>>

-----------------------------------------------------------------------------
(* getSigningKey, from its start to the first await                        *)

CacheExpired == cache.expiresAt <= now

\* Wrong variant: an unknown key always asks the provider again.
AlwaysForce(at) == TRUE

\* Wrong variant: an unknown key waits for the cache to expire.
NeverForce(at) == FALSE

\* An unknown key asks the provider again, unless it was asked just now; `at`
\* is the clock as getSigningKey read it, before any wait.
MayForce(at) == at - lastRefreshAt >= MinInterval

\* What a lookup comes to before it waits for anything.
LookUp(k) ==
  IF CacheExpired THEN "refresh"
  ELSE IF k \in cache.keys THEN "found"
  ELSE IF MayForce(now) THEN "force" ELSE "missing"

\* What it comes to when the refresh it waited for has succeeded.
LookUpAgain(k, at, forced) ==
  IF k \in cache.keys THEN "found"
  ELSE IF ~forced /\ MayForce(at) THEN "force" ELSE "missing"

\* refresh: join the refresh in flight, or start one.
Refreshed(f) ==
  IF f.stage = "none" THEN [stage |-> "asked", began |-> now, keys |-> {}] ELSE f

-----------------------------------------------------------------------------
(* fetchJwks                                                               *)

\* The provider answers with the keys of this moment; its body is on the way.
FetchAnswered ==
  /\ fetch.stage = "asked"
  /\ fetch' = [fetch EXCEPT !.stage = "answered", !.keys = PublishedNow]
  /\ UNCHANGED <<published, cache, lastRefreshAt>>

\* A document without keys is refused; so is a malformed one (FetchFails).
ValidJwksDocument(keys) == keys # {}

\* resolveCacheTtl, for a provider that sends the same max-age every time.
ExpiresAt(at) == at + TTL

\* The body has arrived and is a valid key set; the refresh settles only when
\* its event has been recorded.
FetchStored ==
  /\ fetch.stage = "answered" /\ ValidJwksDocument(fetch.keys)
  /\ cache' = [keys |-> fetch.keys, expiresAt |-> ExpiresAt(now)]
  /\ lastRefreshAt' = now
  /\ fetch' = [fetch EXCEPT !.stage = "recording", !.keys = {}]
  /\ UNCHANGED published

Awaited == fetch.stage \in {"asked", "answered"}

\* Wrong variant: the timer is cleared when the response starts.
AbortedBeforeAnswer ==
  /\ fetch.stage = "asked"
  /\ now >= fetch.began + Timeout
  /\ fetch' = NoFetch
  /\ UNCHANGED <<published, cache, lastRefreshAt>>

\* The abort timer covers the response and its body.
FetchAborted ==
  /\ Awaited
  /\ now >= fetch.began + Timeout
  /\ fetch' = NoFetch
  /\ UNCHANGED <<published, cache, lastRefreshAt>>

\* A network or HTTP error, or a document that is refused.
FetchFails ==
  /\ Awaited
  /\ fetch' = NoFetch
  /\ UNCHANGED <<published, cache, lastRefreshAt>>

\* Timers fire on time: the clock does not pass the deadline of a fetch that
\* is still awaited.  The event is taken by the log at once: recording it has
\* no deadline of its own, and a log that blocks would keep the refresh open.
Tick ==
  /\ now < MaxTime /\ fetch.stage # "recording"
  /\ Awaited => now < fetch.began + Timeout
  /\ now' = now + 1
  /\ UNCHANGED keyVars
=============================================================================
