------------------------------ MODULE SessionInit ------------------------------
(***************************************************************************)
(* AvatarSession.Init and Prewarm (avatar_session.go, prewarm.go) over the *)
(* two caches of the process: the region that the bootstrap API answered   *)
(* last (bootstrap.go) and the session tokens that Prewarm fetched ahead   *)
(* of time (token_cache.go).                                               *)
(*                                                                         *)
(* Sessions and Prewarm calls run concurrently; a cache is read or written *)
(* under its mutex, and between two such steps the other calls run and     *)
(* time passes.  An endpoint URL is reduced to the region it is composed   *)
(* from (consoleEndpointURLForRegion is injective), or Own when the user   *)
(* configured it.  All calls use one API key and one app id.  TLS warm-up  *)
(* keeps no state of the SDK and is left out.                              *)
(***************************************************************************)
EXTENDS Naturals, Functions

CONSTANTS
    Sessions, Prewarms,  \* the sessions, and the callers of Prewarm
    Regions,             \* the concrete regions
    DefaultRegion,
    Answers,             \* what the bootstrap API may put in region.current
    Configs,             \* [region, console, ingress] given by the user
    Lifetimes,           \* how far ahead the user may set a token's expiry
    RegionTTL,           \* regionCacheTTL
    Margin,              \* tokenExpiryMargin
    MaxTime,             \* bound: the clock stops here
    MaxCalls             \* bound: Init calls of a session, calls of Prewarm

AutoRegion == "auto"    \* DefaultRegionRequest
Unset      == ""
Own        == "own"     \* an endpoint URL configured by the user
Calls      == Sessions \cup Prewarms

ASSUME RegionAssumption ==
    /\ DefaultRegion \in Regions
    /\ {AutoRegion, Unset, Own} \cap Regions = {}
    /\ Answers \subseteq Regions \cup {AutoRegion}
    /\ Configs \subseteq [region : Regions \cup {AutoRegion}, console : {Own, Unset}, ingress : {Own, Unset}]
    /\ Sessions \cap Prewarms = {}

ASSUME TimeAssumption ==
    /\ Lifetimes \subseteq Nat /\ RegionTTL \in Nat /\ Margin \in Nat
    /\ MaxTime \in Nat \ {0} /\ MaxCalls \in Nat

VARIABLES
    now,          \* the clock; 0 is Go's zero time
    regionCache,  \* bootstrapCache: region and cachedAt
    tokenCache,   \* sessionTokenCache.tokens, by console endpoint
    given,        \* per call: the configuration the user gave
    config,       \* per call: its SessionConfig
    token,        \* per session: s.sessionToken
    pc,           \* per call: where it is
    calls,        \* per call: Init or Prewarm calls so far
    result,       \* per call: what the last Init returned
    answered      \* per region: when the bootstrap API last answered it (0: never)

caches == <<regionCache, tokenCache, answered>>
vars == <<now, caches, given, config, token, pc, calls, result>>

Endpoint == Regions \cup {Own, Unset}
Config   == [region : Regions \cup {AutoRegion}, console : Endpoint, ingress : Endpoint, expireAt : Nat]
NoConfig == [region |-> AutoRegion, console |-> Unset, ingress |-> Unset, expireAt |-> 0]
NoToken  == [console |-> Unset, expireAt |-> 0]
Token    == [console : Endpoint, expireAt : Nat]

(* The one type invariant of the module. *)
TypeOK ==
    /\ now \in 1..MaxTime
    /\ regionCache \in [region : Regions \cup {AutoRegion, Unset}, cachedAt : 0..now]
    /\ DOMAIN tokenCache \subseteq Endpoint \ {Unset} /\ Range(tokenCache) \subseteq Token
    /\ config \in [Calls -> Config]
    /\ token \in [Sessions -> Token]
    /\ pc \in [Calls -> {"new", "idle", "resolve", "bootstrap", "token", "fetching", "started"}]
    /\ calls \in [Calls -> 0..MaxCalls]
    /\ result \in [Calls -> {"none", "ok", "noEndpoint", "fetchFailed"}]
    /\ answered \in [Regions \cup {AutoRegion} -> 0..now]

Init ==
    /\ now = 1
    /\ regionCache = [region |-> Unset, cachedAt |-> 0]
    /\ tokenCache = <<>>
    /\ given = [c \in Calls |-> NoConfig] /\ config = given
    /\ token = [s \in Sessions |-> NoToken]
    /\ pc = [c \in Calls |-> IF c \in Sessions THEN "new" ELSE "idle"]
    /\ calls = [c \in Calls |-> 0]
    /\ result = [c \in Calls |-> "none"]
    /\ answered = [r \in Regions \cup {AutoRegion} |-> 0]

--------------------------------------------------------------------------------
(* The configuration. *)

HasConcreteRegion(cfg) == cfg.region # AutoRegion

\* Mutation: explicit endpoints are replaced.
ApplyResolvedRegion_Overwrites(cfg, r) ==
    [cfg EXCEPT !.region = r, !.console = r, !.ingress = r]

(* A region completes the endpoints that are still missing. *)
ApplyResolvedRegion(cfg, r) ==
    LET Or(url) == IF url = Unset /\ r # AutoRegion THEN r ELSE url
    IN  [cfg EXCEPT !.region = r, !.console = Or(@), !.ingress = Or(@)]

ApplyEndpointDefaults(cfg) ==
    IF HasConcreteRegion(cfg) THEN ApplyResolvedRegion(cfg, cfg.region) ELSE cfg

NewConfig(g, expireAt) ==
    ApplyEndpointDefaults([region |-> g.region, console |-> g.console, ingress |-> g.ingress,
                           expireAt |-> expireAt])

Goto(c, place) == pc' = [pc EXCEPT ![c] = place]

Apply(c, r) ==
    /\ config' = [config EXCEPT ![c] = ApplyResolvedRegion(@, r)]
    /\ Goto(c, "token")

NewAvatarSession(s) ==
    /\ pc[s] = "new"
    /\ \E g \in Configs, life \in Lifetimes :
         /\ given' = [given EXCEPT ![s] = g]
         /\ config' = [config EXCEPT ![s] = NewConfig(g, now + life)]
    /\ Goto(s, "idle")
    /\ UNCHANGED <<now, caches, token, calls, result>>

(* Init is called: again after a failure, or for a session that has a token. *)
InitCall(s) ==
    /\ pc[s] = "idle" /\ calls[s] < MaxCalls
    /\ calls' = [calls EXCEPT ![s] = @ + 1]
    /\ Goto(s, "resolve")
    /\ UNCHANGED <<now, caches, given, config, token, result>>

(* Prewarm builds a SessionConfig of its own. *)
PrewarmCall(p) ==
    /\ pc[p] = "idle" /\ calls[p] < MaxCalls
    /\ calls' = [calls EXCEPT ![p] = @ + 1]
    /\ \E g \in Configs :
         /\ given' = [given EXCEPT ![p] = g]
         /\ config' = [config EXCEPT ![p] = NewConfig(g, 0)]
    /\ Goto(p, "resolve")
    /\ UNCHANGED <<now, caches, token, result>>

--------------------------------------------------------------------------------
(* The region: resolveSessionEndpoints. *)

Scheduled(c) ==
    /\ ~HasConcreteRegion(config[c])
    /\ config[c].console = Unset /\ config[c].ingress = Unset

RegionIsFresh == regionCache.cachedAt # 0 /\ now - regionCache.cachedAt < RegionTTL

CacheHit == regionCache.region # Unset /\ RegionIsFresh

(* Nothing to schedule: the endpoints are explicit, the region is concrete, *)
(* or the missing endpoint is composed from the default region.             *)
ResolveLocally(c) ==
    /\ pc[c] = "resolve" /\ ~Scheduled(c)
    /\ IF config[c].console # Unset /\ config[c].ingress # Unset
       THEN Goto(c, "token") /\ UNCHANGED config
       ELSE Apply(c, IF HasConcreteRegion(config[c]) THEN config[c].region ELSE DefaultRegion)
    /\ UNCHANGED <<now, caches, given, token, calls, result>>

ResolveFromCache(c) ==
    /\ pc[c] = "resolve" /\ Scheduled(c) /\ CacheHit
    /\ Apply(c, regionCache.region)
    /\ UNCHANGED <<now, caches, given, token, calls, result>>

CallBootstrap(c) ==
    /\ pc[c] = "resolve" /\ Scheduled(c) /\ ~CacheHit
    /\ Goto(c, "bootstrap")
    /\ UNCHANGED <<now, caches, given, config, token, calls, result>>

(* The answer is cached, whichever request it answers. *)
BootstrapAnswers(c) ==
    /\ pc[c] = "bootstrap"
    /\ \E r \in Answers :
         /\ regionCache' = [region |-> r, cachedAt |-> now]
         /\ answered' = [answered EXCEPT ![r] = now]
         /\ Apply(c, r)
    /\ UNCHANGED <<now, tokenCache, given, token, calls, result>>

\* Mutation: no default region.
Fallback_NoDefault == regionCache.region

Fallback == IF regionCache.region = Unset THEN DefaultRegion ELSE regionCache.region

\* Mutation: a failure renews the cache entry.
BootstrapFails_Refreshes(c) ==
    /\ pc[c] = "bootstrap"
    /\ Apply(c, Fallback)
    /\ regionCache' = [regionCache EXCEPT !.cachedAt = now]
    /\ UNCHANGED <<now, tokenCache, answered, given, token, calls, result>>

(* Timeout, transport error, a status other than 200, an unusable body. *)
BootstrapFails(c) ==
    /\ pc[c] = "bootstrap"
    /\ Apply(c, Fallback)
    /\ UNCHANGED <<now, caches, given, token, calls, result>>

--------------------------------------------------------------------------------
(* The token. *)

Usable(entry) == now + Margin < entry.expireAt

(* cachedSessionTokenFor: the cache key is the endpoint. *)
CachedTokens(url) == { tokenCache[k] : k \in {url} \cap DOMAIN tokenCache }

Return(c, res) ==
    /\ result' = [result EXCEPT ![c] = res]
    /\ Goto(c, "idle")

MissingEndpoint(s) ==
    /\ pc[s] = "token" /\ config[s].console = Unset
    /\ Return(s, "noEndpoint")
    /\ UNCHANGED <<now, caches, given, config, token, calls>>

TakeCachedToken(s) ==
    /\ pc[s] = "token" /\ config[s].console # Unset
    /\ \E entry \in CachedTokens(config[s].console) :
         /\ Usable(entry)
         /\ token' = [token EXCEPT ![s] = entry]
    /\ Return(s, "ok")
    /\ UNCHANGED <<now, caches, given, config, calls>>

(* None, or one near its expiry, which is dropped. *)
NoCachedToken(s) ==
    /\ pc[s] = "token" /\ config[s].console # Unset
    /\ \A entry \in CachedTokens(config[s].console) : ~Usable(entry)
    /\ tokenCache' = Restrict(tokenCache, DOMAIN tokenCache \ {config[s].console})
    /\ Goto(s, "fetching")
    /\ UNCHANGED <<now, regionCache, answered, given, config, token, calls, result>>

(* Prewarm fetches a token only when asked to, and looks in no cache. *)
PrewarmToken(p) ==
    /\ pc[p] = "token"
    /\ \/ \E life \in Lifetimes :
            /\ config' = [config EXCEPT ![p].expireAt = now + life]
            /\ Goto(p, "fetching")
            /\ UNCHANGED result
       \/ Return(p, "ok") /\ UNCHANGED config
    /\ UNCHANGED <<now, caches, given, token, calls>>

(* The console issues a token with the expiry it was asked for. *)
Issued(c) == [console |-> config[c].console, expireAt |-> config[c].expireAt]

\* Mutation: the stale entry is dropped when its replacement arrives.
FetchSucceeds_Drops(s) ==
    /\ pc[s] = "fetching"
    /\ token' = [token EXCEPT ![s] = Issued(s)]
    /\ tokenCache' = Restrict(tokenCache, DOMAIN tokenCache \ {config[s].console})
    /\ Return(s, "ok")
    /\ UNCHANGED <<now, regionCache, answered, given, config, calls>>

FetchSucceeds(s) ==
    /\ pc[s] = "fetching"
    /\ token' = [token EXCEPT ![s] = Issued(s)]
    /\ Return(s, "ok")
    /\ UNCHANGED <<now, caches, given, config, calls>>

StoreSessionToken(p) ==
    /\ pc[p] = "fetching" /\ config[p].console # Unset
    /\ tokenCache' = [k \in DOMAIN tokenCache \cup {config[p].console} |->
                         IF k = config[p].console THEN Issued(p) ELSE tokenCache[k]]
    /\ Return(p, "ok")
    /\ UNCHANGED <<now, regionCache, answered, given, config, token, calls>>

FetchFails(c) ==
    /\ pc[c] = "fetching"
    /\ Return(c, "fetchFailed")
    /\ UNCHANGED <<now, caches, given, config, token, calls>>

--------------------------------------------------------------------------------
(* What Start asks of the result; AvatarSession has the rest of it. *)
Start(s) ==
    /\ pc[s] = "idle" /\ token[s] # NoToken /\ config[s].ingress # Unset
    /\ Goto(s, "started")
    /\ UNCHANGED <<now, caches, given, config, token, calls, result>>

Close(s) ==
    /\ pc[s] = "started"
    /\ Goto(s, "idle")
    /\ UNCHANGED <<now, caches, given, config, token, calls, result>>

Tick == now < MaxTime /\ now' = now + 1
        /\ UNCHANGED <<caches, given, config, token, pc, calls, result>>

SessionNext(s) ==
    \/ NewAvatarSession(s) \/ InitCall(s) \/ MissingEndpoint(s) \/ TakeCachedToken(s)
    \/ NoCachedToken(s) \/ FetchSucceeds(s) \/ Start(s) \/ Close(s)

PrewarmNext(p) == PrewarmCall(p) \/ PrewarmToken(p) \/ StoreSessionToken(p)

Resolve(c) == ResolveLocally(c) \/ ResolveFromCache(c) \/ CallBootstrap(c)

CallNext(c) == Resolve(c) \/ BootstrapAnswers(c) \/ BootstrapFails(c) \/ FetchFails(c)

Next ==
    \/ \E s \in Sessions : SessionNext(s)
    \/ \E p \in Prewarms : PrewarmNext(p)
    \/ \E c \in Calls : CallNext(c)
    \/ Tick

Spec == Init /\ [][Next]_vars

--------------------------------------------------------------------------------
(* What Init and Prewarm promise. *)

(* The caches as their callers see them: what is usable, and who fetches.   *)
Tokens ==
    INSTANCE TokenCache WITH
        Endpoints <- Endpoint \ {Unset},
        Expiries  <- { t + life : t \in 1..MaxTime, life \in Lifetimes },
        live      <- Restrict(tokenCache, { url \in DOMAIN tokenCache : Usable(tokenCache[url]) }),
        endpoint  <- [s \in Sessions |-> config[s].console],
        fetching  <- { s \in Sessions : pc[s] = "fetching" }

(* Init and Prewarm use the token cache as TokenCache says, between all the *)
(* steps at which other calls run and time passes: a usable token is taken, *)
(* by the sessions of its endpoint only, and no lookup or failure loses it. *)
ImplementsTokenCache == Tokens!Spec

(* The endpoints of a resolved call are those the user gave; the rest agree *)
(* with its region, or are of the default one beside an explicit endpoint.  *)
EndpointsAgree ==
    \A c \in Calls : pc[c] \in {"token", "fetching", "started"} /\ config[c].console # Unset =>
        LET cfg == config[c]
            Same(url, mine) == url = IF mine = Own THEN Own ELSE cfg.region
        IN  /\ Same(cfg.console, given[c].console)
            /\ Same(cfg.ingress, given[c].ingress)
            /\ given[c].region # AutoRegion => cfg.region = given[c].region

(* Region scheduling never blocks a session: no Init fails for want of an    *)
(* endpoint.  bootstrap.go says so in its file comment, and that the region  *)
(* resolved is never "auto" (resolveRegionWithCacheInfo).  The code takes    *)
(* and caches an answer "auto" as it comes: session_init_auto refutes it.    *)
RegionNeverBlocks ==
    \A s \in Sessions : pc[s] = "idle" => result[s] # "noEndpoint"

(* A call that skips the bootstrap API uses a region which that API gave    *)
(* less than a TTL ago: failures and cache hits never prolong an entry.     *)
HitIsRecent(c) ==
    pc[c] = "resolve" /\ pc'[c] = "token" /\ Scheduled(c) =>
        /\ answered[config'[c].region] # 0
        /\ now - answered[config'[c].region] < RegionTTL

(* When bootstrap fails, a region it gave before is used, however old; the  *)
(* default region only when it never gave one.                              *)
FallbackIsKnown(c) ==
    pc[c] = "bootstrap" /\ pc'[c] = "token" =>
        \/ answered'[config'[c].region] # 0
        \/ config'[c].region = DefaultRegion /\ answered = [r \in DOMAIN answered |-> 0]

(* The region of a scheduled call is one that the bootstrap API has given,  *)
(* to whichever call: a recent one from the cache, any after a failure.     *)
RegionIsKnown == [][\A c \in Calls : HitIsRecent(c) /\ FallbackIsKnown(c)]_vars
================================================================================
