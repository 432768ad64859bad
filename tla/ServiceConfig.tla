--------------------------- MODULE ServiceConfig ---------------------------
(***************************************************************************)
(* apps/read-only-governance-service/src/config.js: what the service makes *)
(* of its environment, and what the constructors it is composed of ask of  *)
(* the result.  An environment gives some of its variables a value: a      *)
(* number as Number() reads it (0 for a blank text), a text as the class   *)
(* that matters here.                                                      *)
(***************************************************************************)
EXTENDS Integers, Sequences, Functions

NotANumber == -1
Unbounded == -1  \* KDTP_OIDC_MAX_TOKEN_AGE_SECONDS left out: null
OneDay == 86400  \* the longest KDTP_OIDC_MAX_TOKEN_AGE_SECONDS
MostSubjects == 10000

Bounded(fallback, least, most) == [fallback |-> fallback, least |-> least, most |-> most]

\* Every numeric variable, without the prefix KDTP_.
Numbers ==
  [ HTTP_PORT |-> Bounded(8080, 1, 65535),
    HTTP_MAX_BODY_BYTES |-> Bounded(0, 0, 1024),
    HTTP_MAX_URL_LENGTH |-> Bounded(4096, 256, 16384),
    HTTP_REQUEST_TIMEOUT_MS |-> Bounded(15000, 1000, 120000),
    HTTP_HEADERS_TIMEOUT_MS |-> Bounded(10000, 1000, 120000),
    HTTP_KEEP_ALIVE_TIMEOUT_MS |-> Bounded(5000, 1000, 60000),
    PG_MAX_POOL_SIZE |-> Bounded(10, 1, 100),
    PG_CONNECTION_TIMEOUT_MS |-> Bounded(5000, 500, 60000),
    PG_IDLE_TIMEOUT_MS |-> Bounded(30000, 1000, 300000),
    OIDC_CLOCK_SKEW_SECONDS |-> Bounded(60, 0, 300),
    OIDC_MAX_TOKEN_AGE_SECONDS |-> Bounded(Unbounded, 1, OneDay),
    OIDC_JWKS_TIMEOUT_MS |-> Bounded(3000, 250, 30000),
    OIDC_JWKS_CACHE_TTL_MS |-> Bounded(300000, 1000, 86400000),
    OIDC_JWKS_MAX_CACHE_TTL_MS |-> Bounded(3600000, 1000, 86400000),
    RATE_LIMIT_MAX_REQUESTS |-> Bounded(120, 1, 100000),
    RATE_LIMIT_WINDOW_MS |-> Bounded(60000, 1000, 3600000),
    RATE_LIMIT_MAX_ENTRIES |-> Bounded(10000, 100, 1000000),
    READINESS_TIMEOUT_MS |-> Bounded(3000, 100, 30000),
    SHUTDOWN_TIMEOUT_MS |-> Bounded(10000, 1000, 120000) ]

\* Wrong variant: only the upper bound is checked.
BelowMost(given, name) == name \in DOMAIN given => given[name] <= Numbers[name].most

\* integer and nullableInteger: a default is not held against the range.
InRange(given, name) ==
  name \in DOMAIN given => given[name] \in Numbers[name].least..Numbers[name].most

NumberOf(given, name) ==
  IF name \in DOMAIN given THEN given[name] ELSE Numbers[name].fallback

\* validateHttpsUrl and validateDatabaseUrl; the texts are "good", "query" with
\* a query string, "long" beyond 2048 characters, and "bad".
ValidUrls(urls) ==
  /\ {"DATABASE_URL", "OIDC_ISSUER", "OIDC_JWKS_URI"} \subseteq DOMAIN urls
  /\ \A name \in DOMAIN urls : urls[name] # "bad"
  /\ urls["OIDC_ISSUER"] # "query"

\* parseList of the audiences, trimmed and without empty items.
ValidAudiences(list) ==
  /\ Len(list) \in 1..16
  /\ \A i \in DOMAIN list : list[i] # "long"
  /\ IsInjective(list)

\* parseSubjectMappings; a text that is no JSON array is an empty list here.
ValidMappings(list) ==
  /\ Len(list) \in 1..MostSubjects
  /\ \A i \in DOMAIN list :
       list[i].subject \notin {"", "long"} /\ list[i].actor = "good"
         /\ list[i].attributes \in {"absent", "object"}
  /\ \A i, j \in DOMAIN list : list[i].subject = list[j].subject => i = j

\* loadServiceConfig, up to the result: names are the service's and the host's.
AcceptedEnvironment(env) ==
  /\ \A name \in DOMAIN env.names : env.names[name] = "good"
  /\ ValidUrls(env.urls)
  /\ ValidAudiences(env.audiences)
  /\ ValidMappings(env.mappings)
  /\ \A name \in DOMAIN Numbers : InRange(env.numbers, name)

LoadServiceConfig(env) ==
  [ numbers |-> [name \in DOMAIN Numbers |-> NumberOf(env.numbers, name)],
    urls |-> env.urls, audiences |-> env.audiences, mappings |-> env.mappings ]

-----------------------------------------------------------------------------
(* The constructors createReadOnlyServiceComposition calls after the migrations *)

UrlWithin2048(url) == url \in {"good", "query"}

RemoteJwksProviderAccepts(config) ==
  /\ UrlWithin2048(config.urls["OIDC_ISSUER"]) /\ UrlWithin2048(config.urls["OIDC_JWKS_URI"])
  /\ \A name \in {"OIDC_JWKS_TIMEOUT_MS", "OIDC_JWKS_CACHE_TTL_MS", "OIDC_JWKS_MAX_CACHE_TTL_MS"} :
       config.numbers[name] > 0

OidcAuthenticationAccepts(config) ==
  /\ config.urls["OIDC_ISSUER"] = "good"
  /\ ValidAudiences(config.audiences)
  /\ config.numbers["OIDC_CLOCK_SKEW_SECONDS"] \in 0..300
  /\ config.numbers["OIDC_MAX_TOKEN_AGE_SECONDS"] \in {Unbounded} \union 1..OneDay

SubjectMapperAccepts(config) ==
  \A i \in DOMAIN config.mappings :
    config.mappings[i].subject # "" /\ config.mappings[i].actor \notin {"", "blank"}

RateLimiterAccepts(config) ==
  \A name \in {"RATE_LIMIT_MAX_REQUESTS", "RATE_LIMIT_WINDOW_MS", "RATE_LIMIT_MAX_ENTRIES"} :
    config.numbers[name] > 0

TransportsAccept(config) ==
  config.numbers["HTTP_MAX_BODY_BYTES"] >= 0 /\ config.numbers["HTTP_MAX_URL_LENGTH"] > 0

ReadinessAccepts(config) == config.numbers["READINESS_TIMEOUT_MS"] > 0

Composable(config) ==
  /\ SubjectMapperAccepts(config) /\ RemoteJwksProviderAccepts(config)
  /\ OidcAuthenticationAccepts(config) /\ RateLimiterAccepts(config)
  /\ TransportsAccept(config) /\ ReadinessAccepts(config)
=============================================================================
