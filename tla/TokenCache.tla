------------------------------- MODULE TokenCache -------------------------------
(***************************************************************************)
(* What the cache of prefetched session tokens promises (token_cache.go),  *)
(* whatever runs between its locked sections: a session takes the usable   *)
(* token of its endpoint when there is one and fetches one only when there *)
(* is none; a usable token is lost to nothing but a newer one and time.    *)
(* SessionInit implements it.                                              *)
(***************************************************************************)
EXTENDS Naturals, Functions

CONSTANTS
    Sessions,
    Endpoints,    \* console endpoints that issue tokens
    Expiries,     \* when tokens may expire
    Margin        \* a token is usable until Margin before its expiry

Unset   == ""     \* no endpoint: not in Endpoints
Token   == [console : Endpoints, expireAt : Expiries]
NoToken == [console |-> Unset, expireAt |-> 0]

VARIABLES
    now,
    live,        \* the usable tokens, by endpoint
    endpoint,    \* per session: where its tokens come from, once that is known
    token,       \* per session: the token it holds
    fetching     \* the sessions that found no token

vars == <<now, live, endpoint, token, fetching>>

Init ==
    /\ now \in Nat /\ live = <<>> /\ fetching = {}
    /\ endpoint = [s \in Sessions |-> Unset]
    /\ token = [s \in Sessions |-> NoToken]

Usable(t) == now + Margin < t.expireAt

(* A session that has no endpoint yet gets one, for good. *)
Resolve(s) ==
    /\ endpoint[s] = Unset
    /\ \E url \in Endpoints : endpoint' = [endpoint EXCEPT ![s] = url]
    /\ UNCHANGED <<now, live, token, fetching>>

(* The newest token of an endpoint replaces the one before it. *)
Store(t) ==
    /\ live' = [url \in (DOMAIN live \ {t.console}) \cup { u \in {t.console} : Usable(t) } |->
                   IF url = t.console THEN t ELSE live[url]]
    /\ UNCHANGED <<now, endpoint, token, fetching>>

Take(s) ==
    /\ endpoint[s] \in DOMAIN live
    /\ token' = [token EXCEPT ![s] = live[endpoint[s]]]
    /\ UNCHANGED <<now, live, endpoint, fetching>>

Miss(s) ==
    /\ endpoint[s] # Unset /\ endpoint[s] \notin DOMAIN live
    /\ fetching' = fetching \cup {s}
    /\ UNCHANGED <<now, live, endpoint, token>>

(* The endpoint issues a token, for this session alone, or none. *)
Fetch(s) ==
    /\ s \in fetching /\ fetching' = fetching \ {s}
    /\ \/ \E t \in Token : t.console = endpoint[s] /\ token' = [token EXCEPT ![s] = t]
       \/ UNCHANGED token
    /\ UNCHANGED <<now, live, endpoint>>

Tick ==
    /\ now' = now + 1
    /\ live' = Restrict(live, { url \in DOMAIN live : now' + Margin < live[url].expireAt })
    /\ UNCHANGED <<endpoint, token, fetching>>

Next ==
    \/ \E s \in Sessions : Resolve(s) \/ Take(s) \/ Miss(s) \/ Fetch(s)
    \/ \E t \in Token : Store(t)
    \/ Tick

Spec == Init /\ [][Next]_vars

--------------------------------------------------------------------------------
(* The cache hands out no token that is about to lapse, and none under the  *)
(* name of another endpoint.                                                *)
CacheHolds ==
    \A url \in DOMAIN live : live[url] \in Token /\ live[url].console = url /\ Usable(live[url])

(* A session holds only a token that its own endpoint issued.               *)
TokensFit == \A s \in Sessions : token[s] # NoToken => token[s].console = endpoint[s]
================================================================================
