--------------------------- MODULE SessionInitProofs ---------------------------
(***************************************************************************)
(* Proofs about SessionInit, for any sessions, callers of Prewarm, regions *)
(* and times: its types, what endpoints and regions a call ends up with,   *)
(* and that it implements TokenCache, with what follows from that.         *)
(***************************************************************************)
EXTENDS SessionInit, TLAPS

Given == [region : Regions \cup {AutoRegion}, console : {Own, Unset}, ingress : {Own, Unset}]

Typing ==
    /\ TypeOK
    /\ given \in [Calls -> Given \cup {NoConfig}]

USE RegionAssumption, TimeAssumption

LEMMA Names ==
    /\ AutoRegion \notin Regions /\ Unset \notin Regions /\ Own \notin Regions
    /\ AutoRegion # Unset /\ AutoRegion # Own /\ Own # Unset
    /\ DefaultRegion \in Regions
  BY DEF AutoRegion, Unset, Own

LEMMA Resolved ==
  ASSUME NEW cfg \in Config, NEW r \in Regions \cup {AutoRegion}
  PROVE  LET new == ApplyResolvedRegion(cfg, r)
         IN  /\ new \in Config
             /\ new.region = r /\ new.expireAt = cfg.expireAt
             /\ new.console = IF cfg.console = Unset /\ r # AutoRegion THEN r ELSE cfg.console
             /\ new.ingress = IF cfg.ingress = Unset /\ r # AutoRegion THEN r ELSE cfg.ingress
  BY DEF ApplyResolvedRegion, Config, Endpoint

LEMMA Composed ==
  ASSUME NEW g \in Given, NEW e \in Nat
  PROVE  LET new == NewConfig(g, e)
         IN  /\ new \in Config
             /\ new.region = g.region /\ new.expireAt = e
             /\ new.console = IF g.console = Unset /\ g.region # AutoRegion THEN g.region ELSE g.console
             /\ new.ingress = IF g.ingress = Unset /\ g.region # AutoRegion THEN g.region ELSE g.ingress
<1> DEFINE cfg == [region |-> g.region, console |-> g.console, ingress |-> g.ingress, expireAt |-> e]
<1>1. cfg \in Config /\ g.region \in Regions \cup {AutoRegion}
  BY DEF Config, Endpoint, Given
<1>2. /\ cfg.region = g.region /\ cfg.expireAt = e
      /\ cfg.console = g.console /\ cfg.ingress = g.ingress
  OBVIOUS
<1>3. NewConfig(g, e) = IF cfg.region # AutoRegion THEN ApplyResolvedRegion(cfg, cfg.region) ELSE cfg
  BY DEF NewConfig, ApplyEndpointDefaults, HasConcreteRegion
<1> HIDE DEF cfg
<1> QED
  BY <1>1, <1>2, <1>3, Resolved

LEMMA TypingInit == Init => Typing
<1> SUFFICES ASSUME Init PROVE Typing
  OBVIOUS
<1>1. NoConfig \in Config
  BY DEF NoConfig, Config, Endpoint
<1>2. given \in [Calls -> Given \cup {NoConfig}]
  BY <1>1 DEF Init
<1>3. config \in [Calls -> Config]
  BY <1>1 DEF Init
<1>4. DOMAIN tokenCache \subseteq Endpoint \ {Unset} /\ Range(tokenCache) \subseteq Token
  BY DEF Init, Range
<1>5. now \in 1..MaxTime /\ regionCache \in [region : Regions \cup {AutoRegion, Unset}, cachedAt : 0..now]
      /\ answered \in [Regions \cup {AutoRegion} -> 0..now] /\ calls \in [Calls -> 0..MaxCalls]
  BY DEF Init
<1>6. token \in [Sessions -> Token]
  BY DEF Init, NoToken, Token, Endpoint
<1>7. /\ pc \in [Calls -> {"new", "idle", "resolve", "bootstrap", "token", "fetching", "started"}]
      /\ result \in [Calls -> {"none", "ok", "noEndpoint", "fetchFailed"}]
  BY DEF Init
<1> QED
  BY <1>2, <1>3, <1>4, <1>5, <1>6, <1>7 DEF Typing, TypeOK

Places  == {"new", "idle", "resolve", "bootstrap", "token", "fetching", "started"}
Results == {"none", "ok", "noEndpoint", "fetchFailed"}

LEMMA ApplyTypes ==
  ASSUME Typing, NEW c \in Calls, NEW r \in Regions \cup {AutoRegion}, Apply(c, r)
  PROVE  /\ config' \in [Calls -> Config] /\ pc' \in [Calls -> Places]
         /\ config' = [config EXCEPT ![c] = ApplyResolvedRegion(config[c], r)]
         /\ pc' = [pc EXCEPT ![c] = "token"]
<1>1. ApplyResolvedRegion(config[c], r) \in Config
  BY Resolved DEF Typing, TypeOK
<1> QED
  BY <1>1 DEF Typing, TypeOK, Apply, Goto, Places

(* A configuration that NewAvatarSession or Prewarm makes. *)
LEMMA MadeTypes ==
  ASSUME Typing, NEW c \in Calls, NEW g \in Configs, NEW e \in Nat,
         given' = [given EXCEPT ![c] = g], config' = [config EXCEPT ![c] = NewConfig(g, e)]
  PROVE  config' \in [Calls -> Config] /\ given' \in [Calls -> Given \cup {NoConfig}]
<1>1. g \in Given
  BY DEF Given
<1>2. NewConfig(g, e) \in Config
  BY <1>1, Composed
<1> QED
  BY <1>1, <1>2 DEF Typing, TypeOK

LEMMA CacheTypes ==
  Typing => /\ DOMAIN tokenCache \subseteq Endpoint \ {Unset}
            /\ \A k \in DOMAIN tokenCache : tokenCache[k] \in Token
  BY DEF Typing, TypeOK, Range

LEMMA FallbackType == Typing => Fallback \in Regions \cup {AutoRegion}
  BY DEF Typing, TypeOK, Fallback

LEMMA TypingStep == Typing /\ [Next]_vars => Typing'
<1> SUFFICES ASSUME Typing, [Next]_vars PROVE Typing'
  OBVIOUS
<1> USE DEF Calls
<1>1. ASSUME NEW s \in Sessions, NewAvatarSession(s) PROVE Typing'
  <2>1. PICK g \in Configs, life \in Lifetimes :
          given' = [given EXCEPT ![s] = g] /\ config' = [config EXCEPT ![s] = NewConfig(g, now + life)]
    BY <1>1 DEF NewAvatarSession
  <2>2. now + life \in Nat
    BY DEF Typing, TypeOK
  <2>3. config' \in [Calls -> Config] /\ given' \in [Calls -> Given \cup {NoConfig}]
    BY <2>1, <2>2, MadeTypes
  <2> QED
    BY <1>1, <2>3 DEF Typing, TypeOK, NewAvatarSession, Goto, caches, Token, Endpoint
<1>2. ASSUME NEW s \in Sessions, InitCall(s) PROVE Typing'
  BY <1>2 DEF Typing, TypeOK, InitCall, Goto, caches, Token, Endpoint
<1>3. ASSUME NEW s \in Sessions, MissingEndpoint(s) PROVE Typing'
  BY <1>3 DEF Typing, TypeOK, MissingEndpoint, Return, Goto, caches, Token, Endpoint
<1>4. ASSUME NEW s \in Sessions, TakeCachedToken(s) PROVE Typing'
  <2>1. token' \in [Sessions -> Token]
    BY <1>4 DEF Typing, TypeOK, TakeCachedToken, CachedTokens, Range
  <2> QED
    BY <1>4, <2>1 DEF Typing, TypeOK, TakeCachedToken, Return, Goto, caches, Token, Endpoint
<1>5. ASSUME NEW s \in Sessions, NoCachedToken(s) PROVE Typing'
  <2>1. DOMAIN tokenCache' \subseteq Endpoint \ {Unset} /\ Range(tokenCache') \subseteq Token
    <3>1. tokenCache' = [k \in DOMAIN tokenCache \ {config[s].console} |-> tokenCache[k]]
      BY <1>5 DEF NoCachedToken, Restrict
    <3> QED
      BY <3>1, CacheTypes DEF Range
  <2> QED
    BY <1>5, <2>1 DEF Typing, TypeOK, NoCachedToken, Goto
<1>6. ASSUME NEW s \in Sessions, FetchSucceeds(s) PROVE Typing'
  <2>1. Issued(s) \in Token
    BY DEF Typing, TypeOK, Issued, Config, Token
  <2> QED
    BY <1>6, <2>1 DEF Typing, TypeOK, FetchSucceeds, Return, Goto, caches
<1>7. ASSUME NEW s \in Sessions, Start(s) PROVE Typing'
  BY <1>7 DEF Typing, TypeOK, Start, Goto, caches
<1>8. ASSUME NEW s \in Sessions, Close(s) PROVE Typing'
  BY <1>8 DEF Typing, TypeOK, Close, Goto, caches
<1>9. ASSUME NEW p \in Prewarms, PrewarmCall(p) PROVE Typing'
  <2>1. PICK g \in Configs :
          given' = [given EXCEPT ![p] = g] /\ config' = [config EXCEPT ![p] = NewConfig(g, 0)]
    BY <1>9 DEF PrewarmCall
  <2>2. config' \in [Calls -> Config] /\ given' \in [Calls -> Given \cup {NoConfig}]
    BY <2>1, MadeTypes
  <2> QED
    BY <1>9, <2>2 DEF Typing, TypeOK, PrewarmCall, Goto, caches
<1>10. ASSUME NEW p \in Prewarms, PrewarmToken(p) PROVE Typing'
  <2>1. config' \in [Calls -> Config]
    BY <1>10 DEF Typing, TypeOK, PrewarmToken, Config
  <2> QED
    BY <1>10, <2>1 DEF Typing, TypeOK, PrewarmToken, Return, Goto, caches
<1>11. ASSUME NEW p \in Prewarms, StoreSessionToken(p) PROVE Typing'
  <2>1. Issued(p) \in Token /\ config[p].console \in Endpoint
    BY DEF Typing, TypeOK, Issued, Config, Token
  <2>2. DOMAIN tokenCache' \subseteq Endpoint \ {Unset} /\ Range(tokenCache') \subseteq Token
    <3>1. /\ config[p].console # Unset
          /\ tokenCache' = [k \in DOMAIN tokenCache \cup {config[p].console} |->
                              IF k = config[p].console THEN Issued(p) ELSE tokenCache[k]]
      BY <1>11 DEF StoreSessionToken
    <3> QED
      BY <2>1, <3>1, CacheTypes DEF Range
  <2> QED
    BY <1>11, <2>2 DEF Typing, TypeOK, StoreSessionToken, Return, Goto
<1>12. ASSUME NEW c \in Calls, ResolveLocally(c) PROVE Typing'
  <2>1. config[c].region \in Regions \cup {AutoRegion}
    BY DEF Typing, TypeOK, Config
  <2>2. config' \in [Calls -> Config] /\ pc' \in [Calls -> Places]
    BY <1>12, <2>1, ApplyTypes, Names DEF Typing, TypeOK, ResolveLocally, Goto, Places
  <2> QED
    BY <1>12, <2>2 DEF Typing, TypeOK, ResolveLocally, caches, Places
<1>13. ASSUME NEW c \in Calls, ResolveFromCache(c) PROVE Typing'
  <2>1. regionCache.region \in Regions \cup {AutoRegion}
    BY <1>13 DEF Typing, TypeOK, ResolveFromCache, CacheHit
  <2>2. config' \in [Calls -> Config] /\ pc' \in [Calls -> Places]
    BY <1>13, <2>1, ApplyTypes DEF ResolveFromCache
  <2> QED
    BY <1>13, <2>2 DEF Typing, TypeOK, ResolveFromCache, caches, Places
<1>14. ASSUME NEW c \in Calls, CallBootstrap(c) PROVE Typing'
  BY <1>14 DEF Typing, TypeOK, CallBootstrap, Goto, caches
<1>15. ASSUME NEW c \in Calls, BootstrapAnswers(c) PROVE Typing'
  <2>1. PICK r \in Answers : /\ regionCache' = [region |-> r, cachedAt |-> now]
                             /\ answered' = [answered EXCEPT ![r] = now]
                             /\ Apply(c, r)
    BY <1>15 DEF BootstrapAnswers
  <2>2. r \in Regions \cup {AutoRegion} /\ now \in Nat
    BY DEF Typing, TypeOK
  <2>3. config' \in [Calls -> Config] /\ pc' \in [Calls -> Places]
    BY <2>1, <2>2, ApplyTypes
  <2> QED
    BY <1>15, <2>1, <2>2, <2>3 DEF Typing, TypeOK, BootstrapAnswers, Places
<1>16. ASSUME NEW c \in Calls, BootstrapFails(c) PROVE Typing'
  <2>1. config' \in [Calls -> Config] /\ pc' \in [Calls -> Places]
    BY <1>16, FallbackType, ApplyTypes DEF BootstrapFails
  <2> QED
    BY <1>16, <2>1 DEF Typing, TypeOK, BootstrapFails, caches, Places
<1>17. ASSUME NEW c \in Calls, FetchFails(c) PROVE Typing'
  BY <1>17 DEF Typing, TypeOK, FetchFails, Return, Goto, caches
<1>18. CASE Tick
  BY <1>18 DEF Typing, TypeOK, Tick, caches
<1>19. CASE UNCHANGED vars
  BY <1>19 DEF Typing, TypeOK, vars, caches
<1> QED
  BY <1>1, <1>2, <1>3, <1>4, <1>5, <1>6, <1>7, <1>8, <1>9, <1>10, <1>11, <1>12, <1>13, <1>14,
     <1>15, <1>16, <1>17, <1>18, <1>19 DEF Next, SessionNext, PrewarmNext, CallNext, Resolve

\* Every variable keeps its type: the times of both caches are never ahead of the
\* clock, and no token is cached without an endpoint.
THEOREM TypeCorrect == Spec => []TypeOK
<1>1. Typing => TypeOK
  BY DEF Typing
<1> QED
  BY TypingInit, TypingStep, <1>1, PTL DEF Spec

--------------------------------------------------------------------------------
(* The endpoints: what a configuration is, from the one that the user gave. *)

(* A missing endpoint is composed from the region, as soon as it is concrete. *)
Agree(g, cfg) ==
    /\ IF g.console = Own THEN cfg.console = Own ELSE cfg.console \in {Unset, cfg.region}
    /\ IF g.ingress = Own THEN cfg.ingress = Own ELSE cfg.ingress \in {Unset, cfg.region}
    /\ g.region # AutoRegion => cfg.region = g.region
    /\ cfg.region # AutoRegion => cfg.console # Unset /\ cfg.ingress # Unset

(* Only an answer "auto" leaves an endpoint out, and then it leaves out both; *)
(* and only a call that has neither asks.                                     *)
Complete(place, cfg) ==
    /\ place \in {"token", "fetching", "started"} /\ cfg.console # Unset => cfg.ingress # Unset
    /\ place = "bootstrap" => cfg.region = AutoRegion /\ cfg.console = Unset

Endpoints == \A c \in Calls : Agree(given[c], config[c]) /\ Complete(pc[c], config[c])

LEMMA AgreeApplied ==
  ASSUME NEW g \in Given \cup {NoConfig}, NEW cfg \in Config, Agree(g, cfg),
         NEW r \in Regions \cup {AutoRegion}, cfg.region # AutoRegion => r = cfg.region
  PROVE  Agree(g, ApplyResolvedRegion(cfg, r))
<1>1. /\ cfg.console \in Endpoint /\ cfg.ingress \in Endpoint
      /\ cfg.region = AutoRegion => cfg.console \in {Unset, Own} /\ cfg.ingress \in {Unset, Own}
  BY Names DEF Agree, Config, Endpoint
<1>2. cfg.region = AutoRegion => g.region = AutoRegion
  BY DEF Agree
<1> DEFINE new == ApplyResolvedRegion(cfg, r)
<1>3. /\ new.region = r
      /\ new.console = IF cfg.console = Unset /\ r # AutoRegion THEN r ELSE cfg.console
      /\ new.ingress = IF cfg.ingress = Unset /\ r # AutoRegion THEN r ELSE cfg.ingress
  BY Resolved
<1> HIDE DEF new
<1>4. Agree(g, new)
  <2>1. CASE cfg.region = AutoRegion
    <3>1. /\ cfg.console = IF g.console = Own THEN Own ELSE Unset
          /\ cfg.ingress = IF g.ingress = Own THEN Own ELSE Unset
      BY <1>1, <2>1, Names DEF Agree
    <3> QED
      BY <1>2, <1>3, <2>1, <3>1, Names DEF Agree
  <2>2. CASE cfg.region # AutoRegion
    BY <1>1, <1>3, <2>2, Names DEF Agree
  <2> QED
    BY <2>1, <2>2
<1> QED
  BY <1>4 DEF new

LEMMA AgreeMade ==
  ASSUME NEW g \in Given, NEW e \in Nat
  PROVE  Agree(g, NewConfig(g, e))
<1> DEFINE new == NewConfig(g, e)
<1>1. /\ new.region = g.region
      /\ new.console = IF g.console = Unset /\ g.region # AutoRegion THEN g.region ELSE g.console
      /\ new.ingress = IF g.ingress = Unset /\ g.region # AutoRegion THEN g.region ELSE g.ingress
  BY Composed
<1>2. g.console \in {Own, Unset} /\ g.ingress \in {Own, Unset} /\ g.region \in Regions \cup {AutoRegion}
  BY DEF Given
<1> HIDE DEF new
<1>3. Agree(g, new)
  BY <1>1, <1>2, Names DEF Agree
<1> QED
  BY <1>3 DEF new

LEMMA EndpointsInit == Init => Endpoints
<1> SUFFICES ASSUME Init, NEW c \in Calls PROVE Agree(given[c], config[c]) /\ Complete(pc[c], config[c])
  BY DEF Endpoints
<1>1. given[c] = NoConfig /\ config[c] = NoConfig /\ pc[c] \in {"new", "idle"}
  BY DEF Init
<1>2. Agree(NoConfig, NoConfig) /\ Complete("new", NoConfig) /\ Complete("idle", NoConfig)
  BY Names DEF Agree, Complete, NoConfig
<1> QED
  BY <1>1, <1>2

(* A call applies a region that it may: its own, if it has one. *)
LEMMA EndpointsApplied ==
  ASSUME Typing, Endpoints, NEW c \in Calls, NEW r \in Regions \cup {AutoRegion}, Apply(c, r),
         config[c].region # AutoRegion => r = config[c].region,
         r # AutoRegion \/ config[c].console = Unset,
         UNCHANGED given
  PROVE  Endpoints'
<1>1. config' = [config EXCEPT ![c] = ApplyResolvedRegion(config[c], r)] /\ pc' = [pc EXCEPT ![c] = "token"]
  BY ApplyTypes
<1>2. config \in [Calls -> Config] /\ pc \in [Calls -> Places] /\ given \in [Calls -> Given \cup {NoConfig}]
  BY DEF Typing, TypeOK, Places
<1>3. Agree(given[c], ApplyResolvedRegion(config[c], r))
  BY <1>2, AgreeApplied DEF Endpoints
<1>4. Complete("token", ApplyResolvedRegion(config[c], r))
  <2> DEFINE new == ApplyResolvedRegion(config[c], r)
  <2>1. /\ new.console = IF config[c].console = Unset /\ r # AutoRegion THEN r ELSE config[c].console
        /\ new.ingress = IF config[c].ingress = Unset /\ r # AutoRegion THEN r ELSE config[c].ingress
    BY <1>2, Resolved
  <2> HIDE DEF new
  <2>2. Complete("token", new)
    BY <2>1, Names DEF Complete
  <2> QED
    BY <2>2 DEF new
<1>5. given' = given
  OBVIOUS
<1> QED
  BY <1>1, <1>2, <1>3, <1>4, <1>5 DEF Endpoints

(* A step that only moves a call, to a place where nothing more is promised. *)
LEMMA EndpointsMoved ==
  ASSUME Typing, Endpoints, NEW c \in Calls, NEW place, pc' = [pc EXCEPT ![c] = place],
         Complete(place, config[c]), UNCHANGED <<given, config>>
  PROVE  Endpoints'
<1>1. pc \in [Calls -> Places]
  BY DEF Typing, TypeOK, Places
<1> QED
  BY <1>1 DEF Endpoints

(* A call with a configuration that was just made. *)
LEMMA EndpointsMade ==
  ASSUME Typing, Endpoints, NEW c \in Calls, NEW g \in Configs, NEW e \in Nat, NEW place \in {"idle", "resolve"},
         given' = [given EXCEPT ![c] = g], config' = [config EXCEPT ![c] = NewConfig(g, e)],
         pc' = [pc EXCEPT ![c] = place]
  PROVE  Endpoints'
<1>1. config \in [Calls -> Config] /\ pc \in [Calls -> Places] /\ given \in [Calls -> Given \cup {NoConfig}]
  BY DEF Typing, TypeOK, Places
<1>2. Agree(g, NewConfig(g, e)) /\ Complete(place, NewConfig(g, e))
  BY AgreeMade DEF Given, Complete
<1> QED
  BY <1>1, <1>2 DEF Endpoints

LEMMA EndpointsStep == Typing /\ Endpoints /\ [Next]_vars => Endpoints'
<1> SUFFICES ASSUME Typing, Endpoints, [Next]_vars PROVE Endpoints'
  OBVIOUS
<1> USE DEF Calls
<1>1. ASSUME NEW s \in Sessions, NewAvatarSession(s) PROVE Endpoints'
  <2>1. PICK g \in Configs, life \in Lifetimes :
          given' = [given EXCEPT ![s] = g] /\ config' = [config EXCEPT ![s] = NewConfig(g, now + life)]
    BY <1>1 DEF NewAvatarSession
  <2>2. now + life \in Nat /\ pc' = [pc EXCEPT ![s] = "idle"]
    BY <1>1 DEF Typing, TypeOK, NewAvatarSession, Goto
  <2> QED
    BY <2>1, <2>2, EndpointsMade
<1>2. ASSUME NEW c \in Calls, NEW place \in {"idle", "resolve"},
             pc' = [pc EXCEPT ![c] = place], UNCHANGED <<given, config>>
      PROVE  Endpoints'
  BY <1>2, EndpointsMoved DEF Complete
<1>3. ASSUME NEW c \in Calls, InitCall(c) \/ MissingEndpoint(c) \/ TakeCachedToken(c)
             \/ FetchSucceeds(c) \/ Close(c) \/ StoreSessionToken(c) \/ FetchFails(c)
      PROVE  Endpoints'
  BY <1>2, <1>3 DEF InitCall, MissingEndpoint, TakeCachedToken, FetchSucceeds, Close,
         StoreSessionToken, FetchFails, Return, Goto
<1>4. ASSUME NEW s \in Sessions, NoCachedToken(s) PROVE Endpoints'
  <2>1. Complete("fetching", config[s]) /\ pc' = [pc EXCEPT ![s] = "fetching"] /\ UNCHANGED <<given, config>>
    BY <1>4 DEF Endpoints, Complete, NoCachedToken, Goto
  <2> QED
    BY <2>1, EndpointsMoved
<1>5. ASSUME NEW s \in Sessions, Start(s) PROVE Endpoints'
  <2>1. Complete("started", config[s]) /\ pc' = [pc EXCEPT ![s] = "started"] /\ UNCHANGED <<given, config>>
    BY <1>5 DEF Complete, Start, Goto
  <2> QED
    BY <2>1, EndpointsMoved
<1>6. ASSUME NEW p \in Prewarms, PrewarmCall(p) PROVE Endpoints'
  <2>1. PICK g \in Configs :
          given' = [given EXCEPT ![p] = g] /\ config' = [config EXCEPT ![p] = NewConfig(g, 0)]
    BY <1>6 DEF PrewarmCall
  <2>2. pc' = [pc EXCEPT ![p] = "resolve"]
    BY <1>6 DEF PrewarmCall, Goto
  <2> QED
    BY <2>1, <2>2, EndpointsMade
<1>7. ASSUME NEW p \in Prewarms, PrewarmToken(p) PROVE Endpoints'
  <2>1. CASE Return(p, "ok") /\ UNCHANGED config
    BY <1>2, <1>7, <2>1 DEF PrewarmToken, Return, Goto
  <2>2. CASE \E life \in Lifetimes : config' = [config EXCEPT ![p].expireAt = now + life] /\ Goto(p, "fetching")
    <3>1. PICK life \in Lifetimes : config' = [config EXCEPT ![p].expireAt = now + life]
      BY <2>2
    <3>2. pc[p] = "token" /\ pc' = [pc EXCEPT ![p] = "fetching"] /\ given' = given
      BY <1>7, <2>2 DEF PrewarmToken, Goto
    <3>3. config \in [Calls -> Config] /\ pc \in [Calls -> Places]
      BY DEF Typing, TypeOK, Places
    <3>4. \A c \in Calls : /\ config'[c].region = config[c].region
                           /\ config'[c].console = config[c].console
                           /\ config'[c].ingress = config[c].ingress
      BY <3>1, <3>3 DEF Config
    <3> QED
      BY <3>2, <3>3, <3>4 DEF Endpoints, Agree, Complete
  <2> QED
    BY <1>7, <2>1, <2>2 DEF PrewarmToken
<1>8. ASSUME NEW c \in Calls, ResolveLocally(c) PROVE Endpoints'
  <2>1. CASE config[c].console # Unset /\ config[c].ingress # Unset
    <3>1. Complete("token", config[c]) /\ pc' = [pc EXCEPT ![c] = "token"] /\ UNCHANGED <<given, config>>
      BY <1>8, <2>1 DEF Complete, ResolveLocally, Goto
    <3> QED
      BY <3>1, EndpointsMoved
  <2>2. CASE ~(config[c].console # Unset /\ config[c].ingress # Unset)
    <3> DEFINE r == IF HasConcreteRegion(config[c]) THEN config[c].region ELSE DefaultRegion
    <3>1. Apply(c, r) /\ given' = given
      BY <1>8, <2>2 DEF ResolveLocally
    <3>2. config[c].region \in Regions \cup {AutoRegion}
      BY DEF Typing, TypeOK, Config
    <3>3. r \in Regions /\ r # AutoRegion /\ (config[c].region # AutoRegion => r = config[c].region)
      BY <3>2, Names DEF HasConcreteRegion
    <3> HIDE DEF r
    <3> QED
      BY <3>1, <3>3, EndpointsApplied
  <2> QED
    BY <2>1, <2>2
<1>9. ASSUME NEW c \in Calls, ResolveFromCache(c) PROVE Endpoints'
  <2>1. /\ regionCache.region \in Regions \cup {AutoRegion} /\ Apply(c, regionCache.region) /\ given' = given
        /\ config[c].region = AutoRegion /\ config[c].console = Unset
    BY <1>9 DEF Typing, TypeOK, ResolveFromCache, CacheHit, Scheduled, HasConcreteRegion
  <2> QED
    BY <2>1, EndpointsApplied
<1>10. ASSUME NEW c \in Calls, CallBootstrap(c) PROVE Endpoints'
  <2>1. Complete("bootstrap", config[c]) /\ pc' = [pc EXCEPT ![c] = "bootstrap"] /\ UNCHANGED <<given, config>>
    BY <1>10 DEF Complete, CallBootstrap, Goto, Scheduled, HasConcreteRegion
  <2> QED
    BY <2>1, EndpointsMoved
<1>11. ASSUME NEW c \in Calls, NEW r \in Regions \cup {AutoRegion}, pc[c] = "bootstrap", Apply(c, r), given' = given
      PROVE  Endpoints'
  BY <1>11, EndpointsApplied DEF Endpoints, Complete
<1>12. ASSUME NEW c \in Calls, BootstrapAnswers(c) \/ BootstrapFails(c) PROVE Endpoints'
  BY <1>11, <1>12, FallbackType DEF BootstrapAnswers, BootstrapFails
<1>13. CASE Tick \/ UNCHANGED vars
  BY <1>13 DEF Endpoints, Tick, vars, caches
<1> QED
  BY <1>1, <1>3, <1>4, <1>5, <1>6, <1>7, <1>8, <1>9, <1>10, <1>12, <1>13
  DEF Next, SessionNext, PrewarmNext, CallNext, Resolve

\* Whatever a call found in the caches, or was answered, and however often Init ran:
\* the endpoints that the user gave are kept, and the others are of the call's region
\* (applyEndpointDefaults, applyResolvedRegion, resolveSessionEndpoints).
THEOREM EndpointsKept == Spec => []EndpointsAgree
<1>1. Endpoints => EndpointsAgree
  <2> SUFFICES ASSUME Endpoints, NEW c \in Calls, pc[c] \in {"token", "fetching", "started"},
                      config[c].console # Unset
               PROVE  /\ config[c].console = IF given[c].console = Own THEN Own ELSE config[c].region
                      /\ config[c].ingress = IF given[c].ingress = Own THEN Own ELSE config[c].region
                      /\ given[c].region # AutoRegion => config[c].region = given[c].region
    BY DEF EndpointsAgree
  <2>1. config[c].ingress # Unset
    BY DEF Endpoints, Complete
  <2> QED
    BY <2>1 DEF Endpoints, Agree
<1> QED
  BY TypingInit, TypingStep, EndpointsInit, EndpointsStep, <1>1, PTL DEF Spec

--------------------------------------------------------------------------------
(* The region cache holds what the bootstrap API answered last, and when.   *)

CacheAnswered ==
    IF regionCache.region = Unset
    THEN answered = [r \in Regions \cup {AutoRegion} |-> 0]
    ELSE regionCache.cachedAt # 0 /\ answered[regionCache.region] = regionCache.cachedAt

(* A session is left without an endpoint by an answer "auto" only. *)
AutoAnswered(s) == config[s].region = AutoRegion /\ answered[AutoRegion] # 0

Stranded ==
    \A s \in Sessions :
        /\ pc[s] = "new" => result[s] # "noEndpoint"
        /\ pc[s] = "token" /\ config[s].console = Unset => AutoAnswered(s)
        /\ pc[s] \in {"idle", "started"} /\ result[s] = "noEndpoint" => AutoAnswered(s)

Region == CacheAnswered /\ Stranded

LEMMA RegionInit == Init => Region
<1> SUFFICES ASSUME Init PROVE Region
  OBVIOUS
<1>1. CacheAnswered
  BY DEF Init, CacheAnswered
<1>2. \A s \in Sessions : pc[s] = "new" /\ result[s] = "none"
  BY DEF Init, Calls
<1> QED
  BY <1>1, <1>2 DEF Region, Stranded

LEMMA CacheStep == Typing /\ CacheAnswered /\ [Next]_vars => CacheAnswered'
<1> SUFFICES ASSUME Typing, CacheAnswered, [Next]_vars PROVE CacheAnswered'
  OBVIOUS
<1>1. ASSUME UNCHANGED <<regionCache, answered>> PROVE CacheAnswered'
  BY <1>1 DEF CacheAnswered
<1>2. ASSUME NEW c \in Calls, BootstrapAnswers(c) PROVE CacheAnswered'
  <2>1. PICK r \in Answers : /\ regionCache' = [region |-> r, cachedAt |-> now]
                             /\ answered' = [answered EXCEPT ![r] = now]
    BY <1>2 DEF BootstrapAnswers
  <2>2. r \in Regions \cup {AutoRegion} /\ r # Unset /\ now # 0 /\ answered \in [Regions \cup {AutoRegion} -> 0..now]
    BY Names DEF Typing, TypeOK
  <2> QED
    BY <2>1, <2>2 DEF CacheAnswered
<1> QED
  BY <1>1, <1>2 DEF Next, SessionNext, PrewarmNext, CallNext, Resolve, vars, caches, NewAvatarSession, InitCall,
     MissingEndpoint, TakeCachedToken, NoCachedToken, FetchSucceeds, Start, Close, PrewarmCall, PrewarmToken,
     StoreSessionToken, ResolveLocally, ResolveFromCache, CallBootstrap, BootstrapFails, FetchFails, Tick

LEMMA RegionApplied ==
  ASSUME Typing, NEW c \in Calls, NEW r \in Regions \cup {AutoRegion}, Apply(c, r)
  PROVE  config'[c].region = r
<1>1. config' = [config EXCEPT ![c] = ApplyResolvedRegion(config[c], r)] /\ config \in [Calls -> Config]
  BY ApplyTypes DEF Typing, TypeOK
<1> QED
  BY <1>1, Resolved

(* A region is applied: the session may only be left without an endpoint    *)
(* when that region is "auto", and then the API has answered it.            *)
LEMMA StrandedApplied ==
  ASSUME Typing, Stranded, NEW c \in Calls, NEW r \in Regions \cup {AutoRegion}, Apply(c, r),
         r = AutoRegion => answered'[AutoRegion] # 0,
         answered[AutoRegion] # 0 => answered'[AutoRegion] # 0,
         UNCHANGED result
  PROVE  Stranded'
<1>1. config' = [config EXCEPT ![c] = ApplyResolvedRegion(config[c], r)] /\ pc' = [pc EXCEPT ![c] = "token"]
  BY ApplyTypes
<1>2. config \in [Calls -> Config] /\ pc \in [Calls -> Places] /\ Sessions \subseteq Calls
  BY DEF Typing, TypeOK, Places, Calls
<1>3. /\ config'[c].region = r /\ pc'[c] = "token"
      /\ config'[c].console = Unset => r = AutoRegion
  <2> DEFINE new == ApplyResolvedRegion(config[c], r)
  <2>1. /\ new.console = IF config[c].console = Unset /\ r # AutoRegion THEN r ELSE config[c].console
        /\ new.region = r /\ config'[c] = new
    BY <1>1, <1>2, Resolved
  <2> HIDE DEF new
  <2> QED
    BY <1>1, <1>2, <2>1, Names
<1>4. \A s \in Sessions \ {c} : config'[s] = config[s] /\ pc'[s] = pc[s] /\ result'[s] = result[s]
  BY <1>1, <1>2
<1> QED
  BY <1>3, <1>4 DEF Stranded, AutoAnswered

(* A step that touches no session's region. *)
LEMMA StrandedMoved ==
  ASSUME Stranded, UNCHANGED answered,
         \A s \in Sessions :
            \/ config'[s] = config[s] /\ pc'[s] = pc[s] /\ result'[s] = result[s]
            \/ pc'[s] \in {"resolve", "bootstrap", "fetching"}
            \/ pc'[s] = "idle" /\ result'[s] # "noEndpoint"
            \/ pc'[s] \in {"idle", "started"} /\ result'[s] = "noEndpoint" /\ AutoAnswered(s)'
  PROVE  Stranded'
  BY DEF Stranded, AutoAnswered

LEMMA StrandedStep == Typing /\ Region /\ [Next]_vars => Stranded'
<1> SUFFICES ASSUME Typing, CacheAnswered, Stranded, [Next]_vars PROVE Stranded'
  BY DEF Region
<1> USE DEF Calls
<1>0. /\ pc \in [Calls -> Places] /\ result \in [Calls -> Results]
      /\ config \in [Calls -> Config] /\ answered \in [Regions \cup {AutoRegion} -> Nat]
  BY DEF Typing, TypeOK, Places, Results
<1>1. ASSUME NEW s \in Sessions, NewAvatarSession(s) PROVE Stranded'
  <2>1. pc' = [pc EXCEPT ![s] = "idle"] /\ result'[s] # "noEndpoint"
        /\ \A q \in Sessions \ {s} : config'[q] = config[q] /\ pc'[q] = pc[q] /\ result'[q] = result[q]
    BY <1>0, <1>1 DEF NewAvatarSession, Goto, Stranded
  <2> QED
    BY <1>0, <1>1, <2>1, StrandedMoved DEF NewAvatarSession, caches
<1>2. ASSUME NEW c \in Calls, NEW place \in {"resolve", "bootstrap", "fetching"}, pc' = [pc EXCEPT ![c] = place],
             \A d \in Calls \ {c} : config'[d] = config[d], result' = result, UNCHANGED answered
      PROVE  Stranded'
  BY <1>0, <1>2, StrandedMoved
<1>3. ASSUME NEW c \in Calls, InitCall(c) \/ NoCachedToken(c) \/ CallBootstrap(c) PROVE Stranded'
  BY <1>2, <1>3 DEF InitCall, NoCachedToken, CallBootstrap, Goto, caches
<1>4. ASSUME NEW p \in Prewarms, PrewarmCall(p) PROVE Stranded'
  <2>1. PICK g \in Configs : config' = [config EXCEPT ![p] = NewConfig(g, 0)]
    BY <1>4 DEF PrewarmCall
  <2> QED
    BY <1>0, <1>2, <1>4, <2>1 DEF PrewarmCall, Goto, caches
<1>5. ASSUME NEW c \in Calls, NEW res \in {"ok", "fetchFailed"}, Return(c, res), UNCHANGED <<config, answered>>
      PROVE  Stranded'
  BY <1>0, <1>5, StrandedMoved DEF Return, Goto
<1>6. ASSUME NEW c \in Calls, TakeCachedToken(c) \/ FetchSucceeds(c) \/ StoreSessionToken(c) \/ FetchFails(c)
      PROVE  Stranded'
  BY <1>5, <1>6 DEF TakeCachedToken, FetchSucceeds, StoreSessionToken, FetchFails, caches
<1>7. ASSUME NEW p \in Prewarms, PrewarmToken(p) PROVE Stranded'
  <2>1. CASE Return(p, "ok") /\ UNCHANGED config
    BY <1>5, <1>7, <2>1 DEF PrewarmToken, caches
  <2>2. CASE \E life \in Lifetimes : config' = [config EXCEPT ![p].expireAt = now + life]
                                     /\ Goto(p, "fetching") /\ UNCHANGED result
    BY <1>0, <1>2, <1>7, <2>2 DEF PrewarmToken, Goto, caches
  <2> QED
    BY <1>7, <2>1, <2>2 DEF PrewarmToken
<1>8. ASSUME NEW s \in Sessions, MissingEndpoint(s) PROVE Stranded'
  <2>1. AutoAnswered(s)' /\ pc' = [pc EXCEPT ![s] = "idle"] /\ result' = [result EXCEPT ![s] = "noEndpoint"]
        /\ UNCHANGED <<config, answered>>
    BY <1>8 DEF MissingEndpoint, Return, Goto, Stranded, AutoAnswered, caches
  <2> QED
    BY <1>0, <2>1, StrandedMoved
<1>9. ASSUME NEW s \in Sessions, Start(s) \/ Close(s) PROVE Stranded'
  BY <1>0, <1>9 DEF Start, Close, Goto, Stranded, AutoAnswered, caches
<1>10. ASSUME NEW c \in Calls, ResolveLocally(c) PROVE Stranded'
  <2>1. CASE config[c].console # Unset /\ config[c].ingress # Unset
    BY <1>0, <1>10, <2>1 DEF ResolveLocally, Goto, Stranded, AutoAnswered, caches
  <2>2. CASE ~(config[c].console # Unset /\ config[c].ingress # Unset)
    <3> DEFINE r == IF HasConcreteRegion(config[c]) THEN config[c].region ELSE DefaultRegion
    <3>1. Apply(c, r) /\ UNCHANGED <<answered, result>>
      BY <1>10, <2>2 DEF ResolveLocally, caches
    <3>2. config[c].region \in Regions \cup {AutoRegion}
      BY <1>0 DEF Config
    <3>3. r \in Regions /\ r # AutoRegion
      BY <3>2, Names DEF HasConcreteRegion
    <3> HIDE DEF r
    <3> QED
      BY <3>1, <3>3, StrandedApplied
  <2> QED
    BY <2>1, <2>2
<1>11. ASSUME NEW c \in Calls, ResolveFromCache(c) PROVE Stranded'
  <2>1. /\ regionCache.region \in Regions \cup {AutoRegion} /\ Apply(c, regionCache.region)
        /\ UNCHANGED <<answered, result>>
        /\ regionCache.region = AutoRegion => answered[AutoRegion] # 0
    BY <1>11, Names DEF Typing, TypeOK, ResolveFromCache, CacheHit, CacheAnswered, caches
  <2> QED
    BY <2>1, StrandedApplied
<1>12. ASSUME NEW c \in Calls, BootstrapAnswers(c) PROVE Stranded'
  <2>1. PICK r \in Answers : /\ answered' = [answered EXCEPT ![r] = now]
                             /\ Apply(c, r)
    BY <1>12 DEF BootstrapAnswers
  <2>2. r \in Regions \cup {AutoRegion} /\ now # 0 /\ result' = result
    BY <1>12 DEF Typing, TypeOK, BootstrapAnswers
  <2>3. (r = AutoRegion => answered'[AutoRegion] # 0) /\ (answered[AutoRegion] # 0 => answered'[AutoRegion] # 0)
    BY <1>0, <2>1, <2>2
  <2> QED
    BY <2>1, <2>2, <2>3, StrandedApplied
<1>13. ASSUME NEW c \in Calls, BootstrapFails(c) PROVE Stranded'
  <2>1. Apply(c, Fallback) /\ UNCHANGED <<answered, result>>
    BY <1>13 DEF BootstrapFails, caches
  <2>2. Fallback = AutoRegion => answered[AutoRegion] # 0
    BY Names DEF Fallback, CacheAnswered, Unset, AutoRegion
  <2> QED
    BY <2>1, <2>2, FallbackType, StrandedApplied
<1>14. CASE Tick \/ UNCHANGED vars
  BY <1>14 DEF Stranded, AutoAnswered, Tick, vars, caches
<1> QED
  BY <1>1, <1>3, <1>4, <1>6, <1>7, <1>8, <1>9, <1>10, <1>11, <1>12, <1>13, <1>14
  DEF Next, SessionNext, PrewarmNext, CallNext, Resolve

LEMMA RegionStep == Typing /\ Region /\ [Next]_vars => Region'
  BY CacheStep, StrandedStep DEF Region

(* Beside the counterexample to RegionNeverBlocks: what the code does keep. *)
OnlyAutoStrands ==
    \A s \in Sessions :
        pc[s] = "idle" /\ result[s] = "noEndpoint" => config[s].region = AutoRegion /\ answered[AutoRegion] # 0

\* An answer "auto" of the bootstrap API is the only way for Init to end without an
\* endpoint: no failure, timeout or stale entry does it (resolveRegionWithCacheInfo).
THEOREM AutoIsTheOnlyWay == Spec => []OnlyAutoStrands
<1>1. Region => OnlyAutoStrands
  BY DEF Region, Stranded, AutoAnswered, OnlyAutoStrands
<1> QED
  BY TypingInit, TypingStep, RegionInit, RegionStep, <1>1, PTL DEF Spec

\* The region of a call that the API was not asked for is one that it gave, less than
\* a TTL ago; after a failure it is one that it gave, or the default when it never did.
THEOREM RegionsKnown == Spec => RegionIsKnown
<1> DEFINE Known(c) == HitIsRecent(c) /\ FallbackIsKnown(c)
<1>1. ASSUME NEW c \in Calls, pc'[c] # "token" \/ pc[c] \notin {"resolve", "bootstrap"} PROVE Known(c)
  BY <1>1 DEF HitIsRecent, FallbackIsKnown
<1>2. ASSUME Typing, NEW d \in Calls, NEW place, pc' = [pc EXCEPT ![d] = place],
             place # "token" \/ pc[d] \notin {"resolve", "bootstrap"}
      PROVE  \A c \in Calls : Known(c)
  <2>1. pc \in [Calls -> Places]
    BY <1>2 DEF Typing, TypeOK, Places
  <2>2. \A c \in Calls : pc'[c] # "token" \/ pc[c] \notin {"resolve", "bootstrap"}
    BY <1>2, <2>1
  <2> QED
    BY <1>1, <2>2
<1>3. ASSUME Typing, NEW d \in Calls, pc' = [pc EXCEPT ![d] = "token"], Known(d) PROVE \A c \in Calls : Known(c)
  <2>1. \A c \in Calls \ {d} : pc'[c] # "token" \/ pc[c] \notin {"resolve", "bootstrap"}
    BY <1>3 DEF Typing, TypeOK
  <2> QED
    BY <1>1, <1>3, <2>1
<1>4. ASSUME Typing, CacheAnswered, NEW d \in Calls, ResolveLocally(d) PROVE \A c \in Calls : Known(c)
  <2>1. pc[d] = "resolve" /\ ~Scheduled(d) /\ pc' = [pc EXCEPT ![d] = "token"]
    BY <1>4 DEF ResolveLocally, Apply, Goto
  <2>2. Known(d)
    BY <2>1 DEF HitIsRecent, FallbackIsKnown
  <2> QED
    BY <1>3, <1>4, <2>1, <2>2
<1>5. ASSUME Typing, CacheAnswered, NEW d \in Calls, ResolveFromCache(d) PROVE \A c \in Calls : Known(c)
  <2>1. /\ pc[d] = "resolve" /\ regionCache.region \in Regions \cup {AutoRegion} /\ Apply(d, regionCache.region)
        /\ answered[regionCache.region] # 0 /\ now - answered[regionCache.region] < RegionTTL
    BY <1>5 DEF Typing, TypeOK, ResolveFromCache, CacheHit, RegionIsFresh, CacheAnswered
  <2>2. config'[d].region = regionCache.region /\ pc' = [pc EXCEPT ![d] = "token"]
    BY <1>5, <2>1, RegionApplied, ApplyTypes
  <2>3. Known(d)
    BY <2>1, <2>2 DEF HitIsRecent, FallbackIsKnown
  <2> QED
    BY <1>3, <1>5, <2>2, <2>3
<1>6. ASSUME Typing, CacheAnswered, NEW d \in Calls, BootstrapAnswers(d) PROVE \A c \in Calls : Known(c)
  <2>1. PICK r \in Answers : answered' = [answered EXCEPT ![r] = now] /\ Apply(d, r)
    BY <1>6 DEF BootstrapAnswers
  <2>2. r \in Regions \cup {AutoRegion} /\ now # 0 /\ answered'[r] = now
    BY <1>6, <2>1 DEF Typing, TypeOK
  <2>3. config'[d].region = r /\ pc' = [pc EXCEPT ![d] = "token"] /\ pc[d] = "bootstrap"
    BY <1>6, <2>1, <2>2, RegionApplied, ApplyTypes DEF BootstrapAnswers
  <2>4. Known(d)
    BY <2>2, <2>3 DEF HitIsRecent, FallbackIsKnown
  <2> QED
    BY <1>3, <1>6, <2>3, <2>4
<1>7. ASSUME Typing, CacheAnswered, NEW d \in Calls, BootstrapFails(d) PROVE \A c \in Calls : Known(c)
  <2>1. pc[d] = "bootstrap" /\ Apply(d, Fallback) /\ answered' = answered
    BY <1>7 DEF BootstrapFails, caches
  <2>2. config'[d].region = Fallback /\ pc' = [pc EXCEPT ![d] = "token"]
    BY <1>7, <2>1, FallbackType, RegionApplied, ApplyTypes
  <2>3. \/ Fallback = DefaultRegion /\ answered = [r \in Regions \cup {AutoRegion} |-> 0]
        \/ answered[Fallback] # 0
    BY <1>7 DEF Fallback, CacheAnswered
  <2>4. Known(d)
    BY <1>7, <2>1, <2>2, <2>3 DEF HitIsRecent, FallbackIsKnown, Typing, TypeOK
  <2> QED
    BY <1>3, <1>7, <2>2, <2>4
<1> HIDE DEF Known
<1>8. ASSUME Typing, NEW d \in Calls,
             \/ NewAvatarSession(d) \/ InitCall(d) \/ MissingEndpoint(d) \/ TakeCachedToken(d) \/ NoCachedToken(d)
             \/ FetchSucceeds(d) \/ Start(d) \/ Close(d) \/ PrewarmCall(d) \/ PrewarmToken(d)
             \/ StoreSessionToken(d) \/ CallBootstrap(d) \/ FetchFails(d)
      PROVE  \A c \in Calls : Known(c)
  BY <1>2, <1>8 DEF NewAvatarSession, InitCall, MissingEndpoint, TakeCachedToken, NoCachedToken, FetchSucceeds, Start,
     Close, PrewarmCall, PrewarmToken, StoreSessionToken, CallBootstrap, FetchFails, Return, Goto
<1>9. ASSUME Tick PROVE \A c \in Calls : Known(c)
  BY <1>1, <1>9 DEF Tick
<1>10. Typing /\ Region /\ [Next]_vars => [\A c \in Calls : Known(c)]_vars
  BY <1>4, <1>5, <1>6, <1>7, <1>8, <1>9
  DEF Region, Next, SessionNext, PrewarmNext, CallNext, Resolve, Calls
<1>11. Typing /\ Region /\ [Next]_vars => [\A c \in Calls : HitIsRecent(c) /\ FallbackIsKnown(c)]_vars
  BY <1>10 DEF Known
<1> QED
  BY TypingInit, TypingStep, RegionInit, RegionStep, <1>11, PTL DEF Spec, RegionIsKnown

--------------------------------------------------------------------------------
(* The token cache, as TokenCache has it. *)

Expiries == { t + life : t \in 1..MaxTime, life \in Lifetimes }
Live     == Restrict(tokenCache, { url \in DOMAIN tokenCache : Usable(tokenCache[url]) })
Consoles == [s \in Sessions |-> config[s].console]
Fetching == { s \in Sessions : pc[s] = "fetching" }

(* What a call fetches has an expiry that somebody asked for, and a session *)
(* fetches from an endpoint that it has.                                    *)
Asked ==
    /\ \A s \in Sessions :
         /\ pc[s] = "new" => config[s] = NoConfig
         /\ pc[s] # "new" => config[s].expireAt \in Expiries
         /\ pc[s] = "fetching" => config[s].console # Unset
    /\ \A p \in Prewarms : pc[p] = "fetching" => config[p].expireAt \in Expiries

LEMMA LiveFacts ==
    /\ DOMAIN Live = { url \in DOMAIN tokenCache : Usable(tokenCache[url]) }
    /\ \A url \in DOMAIN Live : Live[url] = tokenCache[url]
  BY DEF Live, Restrict

(* Live at another time, of another cache. *)
Fresh(at, entry)  == at + Margin < entry.expireAt
LiveOf(cache, at) == [k \in { url \in DOMAIN cache : Fresh(at, cache[url]) } |-> cache[k]]

LEMMA LiveIs == Live = LiveOf(tokenCache, now) /\ Live' = LiveOf(tokenCache', now')
  BY DEF Live, LiveOf, Fresh, Usable, Restrict

LEMMA LiveDropped ==
  ASSUME NEW cache, NEW at, NEW url, url \in DOMAIN cache => ~Fresh(at, cache[url])
  PROVE  LiveOf(Restrict(cache, DOMAIN cache \ {url}), at) = LiveOf(cache, at)
<1> DEFINE rest == Restrict(cache, DOMAIN cache \ {url})
<1>1. DOMAIN rest = DOMAIN cache \ {url} /\ \A k \in DOMAIN rest : rest[k] = cache[k]
  BY DEF Restrict
<1> HIDE DEF rest
<1>2. { k \in DOMAIN rest : Fresh(at, rest[k]) } = { k \in DOMAIN cache : Fresh(at, cache[k]) }
  BY <1>1
<1>3. LiveOf(rest, at) = LiveOf(cache, at)
  BY <1>1, <1>2 DEF LiveOf
<1> QED
  BY <1>3 DEF rest

(* The cache with t under url, and what is live of it. *)
Stored(cache, url, t) == [k \in DOMAIN cache \cup {url} |-> IF k = url THEN t ELSE cache[k]]
LiveWith(live, at, url, t) ==
    [k \in (DOMAIN live \ {url}) \cup { u \in {url} : Fresh(at, t) } |-> IF k = url THEN t ELSE live[k]]

LEMMA LiveStored ==
  ASSUME NEW cache, NEW at, NEW url, NEW t
  PROVE  LiveOf(Stored(cache, url, t), at) = LiveWith(LiveOf(cache, at), at, url, t)
<1> DEFINE more == Stored(cache, url, t)
           live == LiveOf(cache, at)
<1>1. DOMAIN more = DOMAIN cache \cup {url} /\ \A k \in DOMAIN more : more[k] = IF k = url THEN t ELSE cache[k]
  BY DEF Stored
<1>2. DOMAIN live = { k \in DOMAIN cache : Fresh(at, cache[k]) } /\ \A k \in DOMAIN live : live[k] = cache[k]
  BY DEF LiveOf
<1> HIDE DEF more, live
<1>3. { k \in DOMAIN more : Fresh(at, more[k]) } = (DOMAIN live \ {url}) \cup { u \in {url} : Fresh(at, t) }
  BY <1>1, <1>2
<1>4. LiveOf(more, at) = LiveWith(live, at, url, t)
  BY <1>1, <1>2, <1>3 DEF LiveOf, LiveWith
<1> QED
  BY <1>4 DEF more, live

LEMMA LiveAged ==
  ASSUME NEW cache, \A k \in DOMAIN cache : cache[k].expireAt \in Nat, NEW at \in Nat
  PROVE  LET live == LiveOf(cache, at)
         IN  LiveOf(cache, at + 1) = Restrict(live, { url \in DOMAIN live : Fresh(at + 1, live[url]) })
<1> DEFINE live == LiveOf(cache, at)
<1>1. DOMAIN live = { k \in DOMAIN cache : Fresh(at, cache[k]) } /\ \A k \in DOMAIN live : live[k] = cache[k]
  BY DEF LiveOf
<1>2. \A k \in DOMAIN cache : Fresh(at + 1, cache[k]) => Fresh(at, cache[k])
  BY DEF Fresh
<1> HIDE DEF live
<1>3. { k \in DOMAIN cache : Fresh(at + 1, cache[k]) } = { url \in DOMAIN live : Fresh(at + 1, live[url]) }
  BY <1>1, <1>2
<1>4. LiveOf(cache, at + 1) = Restrict(live, { url \in DOMAIN live : Fresh(at + 1, live[url]) })
  BY <1>1, <1>3 DEF LiveOf, Restrict
<1> QED
  BY <1>4 DEF live

LEMMA AskedInit == Init => Asked
<1> SUFFICES ASSUME Init PROVE Asked
  OBVIOUS
<1>1. \A s \in Sessions : pc[s] = "new" /\ config[s] = NoConfig
  BY DEF Init, Calls
<1>2. \A p \in Prewarms : pc[p] = "idle"
  BY DEF Init, Calls
<1> QED
  BY <1>1, <1>2 DEF Asked

LEMMA MappedInit == Init => Tokens!Init
<1> SUFFICES ASSUME Init PROVE Tokens!Init
  OBVIOUS
<1>1. Restrict(tokenCache, { url \in DOMAIN tokenCache : Usable(tokenCache[url]) }) = <<>>
  BY DEF Init, Restrict
<1>2. \A s \in Sessions : pc[s] = "new" /\ config[s].console = Unset
  BY DEF Init, Calls, NoConfig
<1>3. token = [s \in Sessions |-> Tokens!NoToken] /\ now \in Nat
  BY DEF Init, NoToken, Tokens!NoToken, Unset, Tokens!Unset
<1> QED
  BY <1>1, <1>2, <1>3 DEF Tokens!Init, Unset, Tokens!Unset

Mapped == [Tokens!Next]_(Tokens!vars)

LEMMA Stutters ==
  ASSUME UNCHANGED <<now, Live, Consoles, token, Fetching>>
  PROVE  Mapped
<1>1. UNCHANGED Tokens!vars
  BY DEF Live, Consoles, Fetching, Tokens!vars
<1> QED
  BY <1>1 DEF Mapped

LEMMA LiveKept == ASSUME UNCHANGED <<now, tokenCache>> PROVE UNCHANGED Live
  BY DEF Live, Usable

(* A call of one session goes on, or a call of Prewarm does. *)
LEMMA MapsConsole ==
  ASSUME Typing, Typing', NEW s \in Sessions,
         \A q \in Sessions \ {s} : config'[q].console = config[q].console,
         config[s].console = Unset \/ config'[s].console = config[s].console,
         UNCHANGED <<now, tokenCache, token, Fetching>>
  PROVE  Mapped
<1>1. UNCHANGED Live
  BY LiveKept
<1>2. CASE config'[s].console = config[s].console
  <2>1. UNCHANGED Consoles
    BY <1>2 DEF Consoles
  <2> QED
    BY <1>1, <2>1, Stutters
<1>3. CASE config[s].console = Unset /\ config'[s].console # Unset
  <2>1. config'[s].console \in Endpoint \ {Unset}
    BY <1>3 DEF Typing, TypeOK, Config, Calls
  <2>2. Consoles[s] = Unset /\ Consoles' = [Consoles EXCEPT ![s] = config'[s].console]
    <3> DEFINE url == config'[s].console
    <3>1. Consoles = [q \in Sessions |-> config[q].console] /\ Consoles[s] = Unset
      BY <1>3 DEF Consoles
    <3>2. Consoles' = [q \in Sessions |-> config'[q].console]
      BY DEF Consoles
    <3>3. \A q \in Sessions : config'[q].console = IF q = s THEN url ELSE Consoles[q]
      BY <3>1
    <3> HIDE DEF url
    <3>4. Consoles' = [q \in Sessions |-> IF q = s THEN url ELSE Consoles[q]]
      BY <3>2, <3>3
    <3>5. Consoles' = [Consoles EXCEPT ![s] = url]
      BY <3>1, <3>4
    <3> QED
      BY <3>1, <3>5 DEF url
  <2>3. Tokens!Resolve(s)
    BY <1>1, <2>1, <2>2 DEF Tokens!Resolve, Live, Consoles, Fetching, Unset, Tokens!Unset
  <2> QED
    BY <2>3 DEF Mapped, Tokens!Next
<1> QED
  BY <1>2, <1>3

LEMMA FetchingKept ==
  ASSUME Typing, NEW c \in Calls, pc[c] # "fetching" \/ c \notin Sessions, NEW place, place # "fetching" \/ c \notin Sessions,
         pc' = [pc EXCEPT ![c] = place]
  PROVE  UNCHANGED Fetching
  BY DEF Typing, TypeOK, Fetching

LEMMA MapsApply ==
  ASSUME Typing, Typing', NEW c \in Calls, NEW r \in Regions \cup {AutoRegion}, Apply(c, r), pc[c] # "fetching",
         UNCHANGED <<now, tokenCache, token>>
  PROVE  Mapped
<1>1. config' = [config EXCEPT ![c] = ApplyResolvedRegion(config[c], r)] /\ pc' = [pc EXCEPT ![c] = "token"]
      /\ config \in [Calls -> Config] /\ Sessions \subseteq Calls
  BY ApplyTypes DEF Typing, TypeOK, Calls
<1>2. UNCHANGED Fetching
  BY <1>1, FetchingKept
<1>3. config[c].console = Unset \/ config'[c].console = config[c].console
  BY <1>1, Resolved
<1>4. \A q \in Calls \ {c} : config'[q] = config[q]
  BY <1>1
<1>5. CASE c \in Sessions
  BY <1>1, <1>2, <1>3, <1>4, <1>5, MapsConsole
<1>6. CASE c \notin Sessions
  <2>1. UNCHANGED Consoles
    BY <1>1, <1>4, <1>6 DEF Consoles
  <2> QED
    BY <1>2, <2>1, LiveKept, Stutters
<1> QED
  BY <1>5, <1>6

LEMMA MapsMove ==
  ASSUME Typing, NEW c \in Calls, pc[c] # "fetching" \/ c \notin Sessions, NEW place, place # "fetching" \/ c \notin Sessions,
         pc' = [pc EXCEPT ![c] = place], \A s \in Sessions : config'[s] = config[s],
         UNCHANGED <<now, tokenCache, token>>
  PROVE  Mapped
<1>1. UNCHANGED Consoles
  BY DEF Consoles
<1> QED
  BY <1>1, FetchingKept, LiveKept, Stutters

LEMMA MapsTake == ASSUME Typing, NEW s \in Sessions, TakeCachedToken(s) PROVE Mapped
<1> DEFINE url == config[s].console
<1>1. /\ url \in DOMAIN tokenCache /\ Usable(tokenCache[url])
      /\ token' = [token EXCEPT ![s] = tokenCache[url]]
      /\ pc[s] = "token" /\ pc' = [pc EXCEPT ![s] = "idle"]
      /\ UNCHANGED <<now, tokenCache, config>>
  BY DEF TakeCachedToken, CachedTokens, Return, Goto, caches
<1>2. UNCHANGED <<Live, Consoles, Fetching>>
  BY <1>1, LiveKept, FetchingKept DEF Consoles, Calls
<1>3. Consoles[s] \in DOMAIN Live /\ token' = [token EXCEPT ![s] = Live[Consoles[s]]]
  BY <1>1, LiveFacts DEF Consoles
<1>4. Tokens!Take(s)
  BY <1>1, <1>2, <1>3 DEF Tokens!Take, Live, Consoles, Fetching
<1> QED
  BY <1>4 DEF Mapped, Tokens!Next

LEMMA MapsMiss == ASSUME Typing, NEW s \in Sessions, NoCachedToken(s) PROVE Mapped
<1> DEFINE url == config[s].console
<1>1. /\ url # Unset /\ (url \in DOMAIN tokenCache => ~Usable(tokenCache[url]))
      /\ tokenCache' = Restrict(tokenCache, DOMAIN tokenCache \ {url})
      /\ pc' = [pc EXCEPT ![s] = "fetching"]
      /\ UNCHANGED <<now, token, config>>
  BY DEF NoCachedToken, CachedTokens, Goto
<1>2. UNCHANGED Live
  <2>1. url \in DOMAIN tokenCache => ~Fresh(now, tokenCache[url])
    BY <1>1 DEF Usable, Fresh
  <2> QED
    BY <1>1, <2>1, LiveDropped, LiveIs
<1>3. UNCHANGED Consoles /\ Consoles[s] = url /\ url \notin DOMAIN Live
  BY <1>1, LiveFacts DEF Consoles
<1>4. Fetching' = Fetching \cup {s}
  BY <1>1 DEF Typing, TypeOK, Fetching, Calls
<1>5. Tokens!Miss(s)
  BY <1>1, <1>2, <1>3, <1>4 DEF Tokens!Miss, Live, Consoles, Fetching, Unset, Tokens!Unset
<1> QED
  BY <1>5 DEF Mapped, Tokens!Next

LEMMA TokenIs == Tokens!Token = [console : Endpoint \ {Unset}, expireAt : Expiries]
  BY DEF Tokens!Token, Expiries

LEMMA MapsFetch ==
  ASSUME Typing, Asked, NEW s \in Sessions, FetchSucceeds(s) \/ FetchFails(s)
  PROVE  Mapped
<1>1. /\ pc[s] = "fetching" /\ pc' = [pc EXCEPT ![s] = "idle"] /\ UNCHANGED <<now, tokenCache, config>>
      /\ token' = [token EXCEPT ![s] = Issued(s)] \/ token' = token
  BY DEF FetchSucceeds, FetchFails, Return, Goto, caches
<1>2. UNCHANGED Live /\ UNCHANGED Consoles
  BY <1>1, LiveKept DEF Consoles
<1>3. s \in Fetching /\ Fetching' = Fetching \ {s}
  BY <1>1 DEF Typing, TypeOK, Fetching, Calls
<1>4. Issued(s) \in Tokens!Token /\ Issued(s).console = Consoles[s]
  <2>1. config[s].console \in Endpoint \ {Unset} /\ config[s].expireAt \in Expiries
    BY <1>1 DEF Typing, TypeOK, Asked, Config, Calls
  <2> QED
    BY <2>1 DEF Issued, Tokens!Token, Consoles, Expiries
<1>5. Tokens!Fetch(s)
  BY <1>1, <1>2, <1>3, <1>4 DEF Tokens!Fetch, Live, Consoles, Fetching
<1> QED
  BY <1>5 DEF Mapped, Tokens!Next

LEMMA MapsStore == ASSUME Typing, Asked, NEW p \in Prewarms, StoreSessionToken(p) PROVE Mapped
<1> DEFINE t == Issued(p)
<1>1. t.console = config[p].console
  BY DEF Issued
<1>2. t \in Tokens!Token
  <2>1. config[p].console \in Endpoint \ {Unset} /\ config[p].expireAt \in Expiries
    BY DEF StoreSessionToken, Typing, TypeOK, Asked, Config, Calls
  <2> QED
    BY <2>1, TokenIs DEF Issued
<1>3. /\ tokenCache' = [k \in DOMAIN tokenCache \cup {t.console} |-> IF k = t.console THEN t ELSE tokenCache[k]]
      /\ pc' = [pc EXCEPT ![p] = "idle"] /\ UNCHANGED <<now, token, config>>
  BY <1>1 DEF StoreSessionToken, Return, Goto
<1>4. UNCHANGED Fetching /\ UNCHANGED Consoles
  BY <1>3, FetchingKept DEF Consoles, Calls
<1> HIDE DEF t
<1>5. Live' = LiveWith(Live, now, t.console, t)
  <2>1. Live' = LiveOf(Stored(tokenCache, t.console, t), now)
    BY <1>3, LiveIs DEF Stored
  <2>2. LiveOf(Stored(tokenCache, t.console, t), now) = LiveWith(LiveOf(tokenCache, now), now, t.console, t)
    BY LiveStored
  <2>3. Live = LiveOf(tokenCache, now)
    BY LiveIs
  <2> QED
    BY <2>1, <2>2, <2>3
<1>6. Tokens!Store(t)
  BY <1>3, <1>4, <1>5 DEF Tokens!Store, Live, LiveWith, Consoles, Fetching, Fresh, Tokens!Usable
<1> QED
  BY <1>2, <1>6 DEF Mapped, Tokens!Next

LEMMA MapsTick == ASSUME Typing, Tick PROVE Mapped
<1>1. now' = now + 1 /\ UNCHANGED <<tokenCache, config, token, pc>>
  BY DEF Tick, caches
<1>2. UNCHANGED Fetching /\ UNCHANGED Consoles
  BY <1>1 DEF Consoles, Fetching
<1>3. Live' = Restrict(Live, { url \in DOMAIN Live : Fresh(now', Live[url]) })
  <2>1. \A k \in DOMAIN tokenCache : tokenCache[k].expireAt \in Nat
    BY CacheTypes DEF Token
  <2>2. now \in Nat
    BY DEF Typing, TypeOK
  <2> QED
    BY <1>1, <2>1, <2>2, LiveAged, LiveIs
<1>4. Live' = Restrict(Live, { url \in DOMAIN Live : now' + Margin < Live[url].expireAt })
  BY <1>3 DEF Fresh
<1>5. Tokens!Tick
  BY <1>1, <1>2, <1>4 DEF Tokens!Tick, Tokens!Restrict, Restrict, Live, Consoles, Fetching
<1> QED
  BY <1>5 DEF Mapped, Tokens!Next

LEMMA NextMaps == Typing /\ Typing' /\ Asked /\ [Next]_vars => Mapped
<1> SUFFICES ASSUME Typing, Typing', Asked, [Next]_vars PROVE Mapped
  OBVIOUS
<1>0. pc \in [Calls -> Places] /\ config \in [Calls -> Config] /\ Sessions \subseteq Calls /\ Prewarms \subseteq Calls
      /\ Sessions \cap Prewarms = {}
  BY DEF Typing, TypeOK, Places, Calls
<1>1. ASSUME NEW s \in Sessions, NewAvatarSession(s) PROVE Mapped
  <2>1. PICK g \in Configs, life \in Lifetimes : config' = [config EXCEPT ![s] = NewConfig(g, now + life)]
    BY <1>1 DEF NewAvatarSession
  <2>2. config[s].console = Unset /\ \A q \in Sessions \ {s} : config'[q].console = config[q].console
    BY <1>0, <1>1, <2>1 DEF NewAvatarSession, Asked, NoConfig
  <2>3. UNCHANGED Fetching /\ UNCHANGED <<now, tokenCache, token>>
    BY <1>0, <1>1, FetchingKept DEF NewAvatarSession, Goto, caches
  <2> QED
    BY <2>2, <2>3, MapsConsole
<1>2. ASSUME NEW c \in Calls, InitCall(c) \/ MissingEndpoint(c) \/ Start(c) \/ Close(c) \/ CallBootstrap(c) PROVE Mapped
  BY <1>2, MapsMove DEF InitCall, MissingEndpoint, Start, Close, CallBootstrap, Return, Goto, caches
<1>3. ASSUME NEW s \in Sessions, TakeCachedToken(s) \/ NoCachedToken(s) \/ FetchSucceeds(s) \/ FetchFails(s) PROVE Mapped
  BY <1>3, MapsTake, MapsMiss, MapsFetch
<1>4. ASSUME NEW p \in Prewarms, PrewarmCall(p) PROVE Mapped
  <2>1. pc' = [pc EXCEPT ![p] = "resolve"] /\ UNCHANGED <<now, tokenCache, token>>
        /\ \E x : config' = [config EXCEPT ![p] = x]
    BY <1>4 DEF PrewarmCall, Goto, caches
  <2>2. \A s \in Sessions : config'[s] = config[s]
    BY <1>0, <2>1
  <2> QED
    BY <1>0, <2>1, <2>2, MapsMove
<1>5. ASSUME NEW p \in Prewarms, PrewarmToken(p) PROVE Mapped
  <2>1. UNCHANGED <<now, tokenCache, token>> /\ \A s \in Sessions : config'[s] = config[s]
    BY <1>0, <1>5 DEF PrewarmToken, caches
  <2>2. \E place : pc' = [pc EXCEPT ![p] = place]
    BY <1>5 DEF PrewarmToken, Return, Goto
  <2> QED
    BY <1>0, <2>1, <2>2, MapsMove
<1>6. ASSUME NEW p \in Prewarms, StoreSessionToken(p) PROVE Mapped
  BY <1>6, MapsStore
<1>7. ASSUME NEW p \in Prewarms, FetchFails(p) PROVE Mapped
  BY <1>0, <1>7, MapsMove DEF FetchFails, Return, Goto, caches
<1>8. ASSUME NEW c \in Calls, ResolveLocally(c) PROVE Mapped
  <2>1. pc[c] = "resolve" /\ UNCHANGED <<now, tokenCache, token>>
    BY <1>8 DEF ResolveLocally, caches
  <2>2. CASE Goto(c, "token") /\ UNCHANGED config
    BY <2>1, <2>2, MapsMove DEF Goto
  <2>3. CASE Apply(c, config[c].region) \/ Apply(c, DefaultRegion)
    <3>1. config[c].region \in Regions \cup {AutoRegion} /\ DefaultRegion \in Regions \cup {AutoRegion}
      BY <1>0 DEF Config
    <3> QED
      BY <2>1, <2>3, <3>1, MapsApply
  <2> QED
    BY <1>8, <2>2, <2>3 DEF ResolveLocally
<1>9. ASSUME NEW c \in Calls, ResolveFromCache(c) PROVE Mapped
  <2>1. /\ regionCache.region \in Regions \cup {AutoRegion} /\ Apply(c, regionCache.region)
        /\ pc[c] = "resolve" /\ UNCHANGED <<now, tokenCache, token>>
    BY <1>9 DEF Typing, TypeOK, ResolveFromCache, CacheHit, caches
  <2> QED
    BY <2>1, MapsApply
<1>10. ASSUME NEW c \in Calls, BootstrapAnswers(c) PROVE Mapped
  <2>1. /\ \E r \in Regions \cup {AutoRegion} : Apply(c, r)
        /\ pc[c] = "bootstrap" /\ UNCHANGED <<now, tokenCache, token>>
    BY <1>10 DEF BootstrapAnswers
  <2> QED
    BY <2>1, MapsApply
<1>11. ASSUME NEW c \in Calls, BootstrapFails(c) PROVE Mapped
  <2>1. Apply(c, Fallback) /\ pc[c] = "bootstrap" /\ UNCHANGED <<now, tokenCache, token>>
    BY <1>11 DEF BootstrapFails, caches
  <2> QED
    BY <2>1, FallbackType, MapsApply
<1>12. CASE Tick
  BY <1>12, MapsTick
<1>13. CASE UNCHANGED vars
  <2>1. UNCHANGED <<now, tokenCache, config, token, pc>>
    BY <1>13 DEF vars, caches
  <2>2. UNCHANGED Consoles /\ UNCHANGED Fetching
    BY <2>1 DEF Consoles, Fetching
  <2> QED
    BY <2>1, <2>2, LiveKept, Stutters
<1> QED
  BY <1>0, <1>1, <1>2, <1>3, <1>4, <1>5, <1>6, <1>7, <1>8, <1>9, <1>10, <1>11, <1>12, <1>13
  DEF Next, SessionNext, PrewarmNext, CallNext, Resolve, Calls

(* The calls that a step leaves alone, and the one that it takes on. *)
LEMMA AskedMoved ==
  ASSUME Asked, NEW c \in Calls,
         \A d \in Calls \ {c} : config'[d] = config[d] /\ pc'[d] = pc[d],
         c \in Sessions => /\ pc'[c] # "new" /\ config'[c].expireAt \in Expiries
                           /\ pc'[c] = "fetching" => config'[c].console # Unset,
         c \in Prewarms => (pc'[c] = "fetching" => config'[c].expireAt \in Expiries)
  PROVE  Asked'
<1>1. Sessions \subseteq Calls /\ Prewarms \subseteq Calls /\ Sessions \cap Prewarms = {}
  BY DEF Calls
<1>2. Expiries' = Expiries
  BY DEF Expiries
<1>3. ASSUME NEW s \in Sessions
      PROVE  /\ pc'[s] = "new" => config'[s] = NoConfig
             /\ pc'[s] # "new" => config'[s].expireAt \in Expiries
             /\ pc'[s] = "fetching" => config'[s].console # Unset
  <2>1. CASE s = c
    BY <2>1
  <2>2. CASE s # c
    BY <1>1, <2>2 DEF Asked
  <2> QED
    BY <2>1, <2>2
<1>4. ASSUME NEW p \in Prewarms PROVE pc'[p] = "fetching" => config'[p].expireAt \in Expiries
  <2>1. CASE p = c
    BY <2>1
  <2>2. CASE p # c
    BY <1>1, <2>2 DEF Asked
  <2> QED
    BY <2>1, <2>2
<1> QED
  BY <1>2, <1>3, <1>4 DEF Asked

LEMMA AskedApplied ==
  ASSUME Typing, Asked, NEW c \in Calls, NEW r \in Regions \cup {AutoRegion}, Apply(c, r),
         pc[c] \in {"resolve", "bootstrap"}
  PROVE  Asked'
<1>1. config' = [config EXCEPT ![c] = ApplyResolvedRegion(config[c], r)] /\ pc' = [pc EXCEPT ![c] = "token"]
      /\ config \in [Calls -> Config] /\ pc \in [Calls -> Places]
  BY ApplyTypes DEF Typing, TypeOK, Places
<1>2. config'[c].expireAt = config[c].expireAt /\ pc'[c] = "token"
  BY <1>1, Resolved
<1>3. c \in Sessions => config[c].expireAt \in Expiries
  BY DEF Asked
<1>4. \A d \in Calls \ {c} : config'[d] = config[d] /\ pc'[d] = pc[d]
  BY <1>1
<1> QED
  BY <1>2, <1>3, <1>4, AskedMoved

LEMMA AskedStep == Typing /\ Asked /\ [Next]_vars => Asked'
<1> SUFFICES ASSUME Typing, Asked, [Next]_vars PROVE Asked'
  OBVIOUS
<1>0. pc \in [Calls -> Places] /\ config \in [Calls -> Config] /\ Sessions \subseteq Calls /\ Prewarms \subseteq Calls
      /\ Sessions \cap Prewarms = {}
  BY DEF Typing, TypeOK, Places, Calls
<1>1. ASSUME NEW s \in Sessions, NewAvatarSession(s) PROVE Asked'
  <2>1. PICK g \in Configs, life \in Lifetimes : config' = [config EXCEPT ![s] = NewConfig(g, now + life)]
    BY <1>1 DEF NewAvatarSession
  <2>2. now + life \in Nat /\ now + life \in Expiries
    <3>1. now \in 1..MaxTime
      BY DEF Typing, TypeOK
    <3> QED
      BY <3>1 DEF Expiries
  <2>3. config'[s].expireAt = now + life
    BY <1>0, <2>1, <2>2, Composed DEF Given
  <2>4. pc' = [pc EXCEPT ![s] = "idle"]
    BY <1>1 DEF NewAvatarSession, Goto
  <2> QED
    BY <1>0, <2>1, <2>2, <2>3, <2>4, AskedMoved
<1>2. ASSUME NEW c \in Calls, NEW place, place \notin {"new", "fetching"}, pc[c] # "new",
             pc' = [pc EXCEPT ![c] = place], config' = config
      PROVE  Asked'
  <2>1. c \in Sessions => config[c].expireAt \in Expiries
    BY <1>2 DEF Asked
  <2> QED
    BY <1>0, <1>2, <2>1, AskedMoved
<1>3. ASSUME NEW c \in Calls, InitCall(c) \/ MissingEndpoint(c) \/ TakeCachedToken(c) \/ FetchSucceeds(c) \/ Start(c)
             \/ Close(c) \/ StoreSessionToken(c) \/ CallBootstrap(c) \/ FetchFails(c)
      PROVE  Asked'
  BY <1>2, <1>3 DEF InitCall, MissingEndpoint, TakeCachedToken, FetchSucceeds, Start, Close, StoreSessionToken,
     CallBootstrap, FetchFails, Return, Goto
<1>4. ASSUME NEW s \in Sessions, NoCachedToken(s) PROVE Asked'
  <2>1. config[s].expireAt \in Expiries /\ config[s].console # Unset /\ config' = config
        /\ pc' = [pc EXCEPT ![s] = "fetching"]
    BY <1>4 DEF NoCachedToken, Asked, Goto
  <2> QED
    BY <1>0, <2>1, AskedMoved
<1>5. ASSUME NEW p \in Prewarms, PrewarmCall(p) PROVE Asked'
  <2>1. pc' = [pc EXCEPT ![p] = "resolve"] /\ \E x : config' = [config EXCEPT ![p] = x]
    BY <1>5 DEF PrewarmCall, Goto
  <2> QED
    BY <1>0, <2>1, AskedMoved
<1>6. ASSUME NEW p \in Prewarms, PrewarmToken(p) PROVE Asked'
  <2>1. CASE Return(p, "ok") /\ UNCHANGED config
    <3>1. pc[p] = "token" /\ pc' = [pc EXCEPT ![p] = "idle"] /\ config' = config
      BY <1>6, <2>1 DEF PrewarmToken, Return, Goto
    <3> QED
      BY <1>0, <1>2, <3>1
  <2>2. CASE \E life \in Lifetimes : config' = [config EXCEPT ![p].expireAt = now + life] /\ Goto(p, "fetching")
    <3>1. PICK life \in Lifetimes : config' = [config EXCEPT ![p].expireAt = now + life]
      BY <2>2
    <3>2. config'[p].expireAt = now + life
      BY <1>0, <3>1 DEF Config
    <3>3. now + life \in Expiries
      BY DEF Typing, TypeOK, Expiries
    <3>4. pc' = [pc EXCEPT ![p] = "fetching"] /\ \A d \in Calls \ {p} : config'[d] = config[d]
      BY <1>0, <2>2, <3>1 DEF Goto
    <3> QED
      BY <1>0, <3>2, <3>3, <3>4, AskedMoved
  <2> QED
    BY <1>6, <2>1, <2>2 DEF PrewarmToken
<1>7. ASSUME NEW c \in Calls, ResolveLocally(c) PROVE Asked'
  <2>1. CASE Goto(c, "token") /\ UNCHANGED config
    BY <1>2, <1>7, <2>1 DEF ResolveLocally, Goto
  <2>2. CASE Apply(c, config[c].region) \/ Apply(c, DefaultRegion)
    <3>1. config[c].region \in Regions \cup {AutoRegion} /\ DefaultRegion \in Regions \cup {AutoRegion}
      BY <1>0 DEF Config
    <3> QED
      BY <1>7, <2>2, <3>1, AskedApplied DEF ResolveLocally
  <2> QED
    BY <1>7, <2>1, <2>2 DEF ResolveLocally
<1>8. ASSUME NEW c \in Calls, ResolveFromCache(c) \/ BootstrapAnswers(c) \/ BootstrapFails(c) PROVE Asked'
  <2>1. pc[c] \in {"resolve", "bootstrap"} /\ \E r \in Regions \cup {AutoRegion} : Apply(c, r)
    BY <1>8, FallbackType DEF Typing, TypeOK, ResolveFromCache, CacheHit, BootstrapAnswers, BootstrapFails
  <2> QED
    BY <2>1, AskedApplied
<1>9. CASE Tick \/ UNCHANGED vars
  <2>1. UNCHANGED <<config, pc>>
    BY <1>9 DEF Tick, vars
  <2> QED
    BY <2>1 DEF Asked, Expiries
<1> QED
  BY <1>0, <1>1, <1>3, <1>4, <1>5, <1>6, <1>7, <1>8, <1>9
  DEF Next, SessionNext, PrewarmNext, CallNext, Resolve

\* Init and Prewarm implement TokenCache, for any sessions, endpoints and times: what is
\* usable in the cache is taken by the sessions of its endpoint and by no other, a session
\* fetches only when there is none, and nothing but a newer token and time removes one
\* (cachedSessionTokenFor, storeSessionToken, init), between all the steps of other calls.
THEOREM TokenCacheRefined == Spec => ImplementsTokenCache
<1>1. Typing /\ Typing' /\ Asked /\ [Next]_vars => [Tokens!Next]_(Tokens!vars)
  BY NextMaps DEF Mapped
<1> QED
  BY TypingInit, TypingStep, AskedInit, AskedStep, MappedInit, <1>1, PTL DEF Spec, ImplementsTokenCache, Tokens!Spec

--------------------------------------------------------------------------------
(* What follows from TokenCache, in its own terms: Live, Consoles, Fetching. *)

(* A session that holds a token or fetches one has its endpoint for good,   *)
(* which is why the token it is given cannot be of another one.             *)
Bound ==
    /\ \A url \in DOMAIN Live :
          Live[url] \in Tokens!Token /\ Live[url].console = url /\ now + Margin < Live[url].expireAt
    /\ Consoles \in [Sessions -> Endpoint]
    /\ token \in [Sessions -> Tokens!Token \cup {NoToken}]
    /\ \A s \in Fetching : Consoles[s] # Unset
    /\ \A s \in Sessions : IF Consoles[s] = Unset THEN token[s] = NoToken
                           ELSE token[s] # NoToken => token[s].console = Consoles[s]

LEMMA BoundInit == Init => Bound
<1> SUFFICES ASSUME Init PROVE Bound
  OBVIOUS
<1>1. Live = <<>>
  BY DEF Init, Live, Restrict
<1>2. \A s \in Sessions : pc[s] = "new" /\ config[s].console = Unset
  BY DEF Init, Calls, NoConfig
<1>3. Consoles = [s \in Sessions |-> Unset] /\ Fetching = {}
  BY <1>2 DEF Consoles, Fetching
<1>4. token = [s \in Sessions |-> NoToken]
  BY DEF Init
<1> QED
  BY <1>1, <1>3, <1>4 DEF Bound, Endpoint

LEMMA ResolveBound ==
  ASSUME Bound, NEW s \in Sessions, Tokens!Resolve(s)
  PROVE  Bound'
<1>1. PICK url \in Endpoint \ {Unset} : Consoles' = [Consoles EXCEPT ![s] = url]
  BY DEF Tokens!Resolve, Consoles
<1>2. Consoles[s] = Unset /\ UNCHANGED <<now, Live, token, Fetching>>
  BY DEF Tokens!Resolve, Live, Consoles, Fetching, Unset, Tokens!Unset
<1> QED
  BY <1>1, <1>2 DEF Bound

LEMMA TakeBound ==
  ASSUME Bound, NEW s \in Sessions, Tokens!Take(s)
  PROVE  Bound'
<1>1. /\ Consoles[s] \in DOMAIN Live /\ token' = [token EXCEPT ![s] = Live[Consoles[s]]]
      /\ UNCHANGED <<now, Live, Consoles, Fetching>>
  BY DEF Tokens!Take, Live, Consoles, Fetching
<1>2. Live[Consoles[s]] \in Tokens!Token /\ Live[Consoles[s]].console = Consoles[s]
  BY <1>1 DEF Bound
<1>3. Consoles[s] # Unset
  BY <1>2, TokenIs
<1> QED
  BY <1>1, <1>2, <1>3 DEF Bound

LEMMA MissBound ==
  ASSUME Bound, NEW s \in Sessions, Tokens!Miss(s)
  PROVE  Bound'
<1>1. Consoles[s] # Unset /\ Fetching' = Fetching \cup {s} /\ UNCHANGED <<now, Live, Consoles, token>>
  BY DEF Tokens!Miss, Live, Consoles, Fetching, Unset, Tokens!Unset
<1> QED
  BY <1>1 DEF Bound

LEMMA FetchBound ==
  ASSUME Bound, NEW s \in Sessions, Tokens!Fetch(s)
  PROVE  Bound'
<1>1. s \in Fetching /\ Fetching' = Fetching \ {s} /\ UNCHANGED <<now, Live, Consoles>>
  BY DEF Tokens!Fetch, Live, Consoles, Fetching
<1>2. CASE UNCHANGED token
  BY <1>1, <1>2 DEF Bound
<1>3. CASE \E t \in Tokens!Token : t.console = Consoles[s] /\ token' = [token EXCEPT ![s] = t]
  BY <1>1, <1>3 DEF Bound
<1> QED
  BY <1>2, <1>3 DEF Tokens!Fetch, Consoles

LEMMA StoreBound ==
  ASSUME Bound, NEW t \in Tokens!Token, Tokens!Store(t)
  PROVE  Bound'
<1>1. Live' = LiveWith(Live, now, t.console, t) /\ UNCHANGED <<now, Consoles, token, Fetching>>
  BY DEF Tokens!Store, Tokens!Usable, Live, LiveWith, Fresh, Consoles, Fetching
<1>2. /\ DOMAIN Live' = (DOMAIN Live \ {t.console}) \cup { u \in {t.console} : Fresh(now, t) }
      /\ \A url \in DOMAIN Live' : Live'[url] = IF url = t.console THEN t ELSE Live[url]
  BY <1>1 DEF LiveWith
<1>3. \A url \in DOMAIN Live' :
         Live'[url] \in Tokens!Token /\ Live'[url].console = url /\ now + Margin < Live'[url].expireAt
  BY <1>2 DEF Bound, Fresh
<1> QED
  BY <1>1, <1>3 DEF Bound

LEMMA TickBound == Bound /\ Tokens!Tick => Bound'
<1> SUFFICES ASSUME Bound, Tokens!Tick PROVE Bound'
  OBVIOUS
<1>1. /\ Live' = Restrict(Live, { url \in DOMAIN Live : now' + Margin < Live[url].expireAt })
      /\ UNCHANGED <<Consoles, token, Fetching>>
  BY DEF Tokens!Tick, Tokens!Restrict, Restrict, Live, Consoles, Fetching
<1>2. \A url \in DOMAIN Live' :
         url \in DOMAIN Live /\ Live'[url] = Live[url] /\ now' + Margin < Live[url].expireAt
  BY <1>1 DEF Restrict
<1> QED
  BY <1>1, <1>2 DEF Bound

LEMMA BoundStep == Bound /\ Mapped => Bound'
<1> SUFFICES ASSUME Bound, Mapped PROVE Bound'
  OBVIOUS
<1>1. CASE UNCHANGED Tokens!vars
  <2>1. UNCHANGED <<now, Live, Consoles, token, Fetching>>
    BY <1>1 DEF Tokens!vars, Live, Consoles, Fetching
  <2> QED
    BY <2>1 DEF Bound
<1>2. CASE Tokens!Next
  BY <1>2, ResolveBound, TakeBound, MissBound, FetchBound, StoreBound, TickBound DEF Tokens!Next
<1> QED
  BY <1>1, <1>2 DEF Mapped

\* What the cache hands out is usable and of the endpoint it is kept under
\* (cachedSessionTokenFor), and a session holds only a token that its own endpoint
\* issued (init), for any sessions, endpoints and times.  Only TokenCache is used: the
\* same holds of everything that implements it.
THEOREM TokensSound == Spec => [](Tokens!CacheHolds /\ Tokens!TokensFit)
<1>1. Typing /\ Typing' /\ Asked /\ [Next]_vars => Mapped
  BY NextMaps
<1>2. Bound => Tokens!CacheHolds /\ Tokens!TokensFit
  <2> SUFFICES ASSUME Bound PROVE Tokens!CacheHolds /\ Tokens!TokensFit
    OBVIOUS
  <2>1. \A url \in DOMAIN Live :
           Live[url] \in Tokens!Token /\ Live[url].console = url /\ now + Margin < Live[url].expireAt
    BY DEF Bound
  <2>2. Tokens!CacheHolds
    BY <2>1 DEF Tokens!CacheHolds, Tokens!Usable, Live
  <2>3. \A s \in Sessions : token[s] # NoToken => token[s].console = Consoles[s]
    BY DEF Bound
  <2>4. Tokens!TokensFit
    BY <2>3 DEF Tokens!TokensFit, Tokens!NoToken, Tokens!Unset, NoToken, Unset, Consoles
  <2> QED
    BY <2>2, <2>4
<1> QED
  BY TypingInit, TypingStep, AskedInit, AskedStep, BoundInit, BoundStep, <1>1, <1>2, PTL DEF Spec
================================================================================
