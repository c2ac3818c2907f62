--------------------------- MODULE TelemetryProvider ---------------------------
(***************************************************************************)
(* The process-wide telemetry providers (telemetry.go): created lazily by  *)
(* the first span or metric, configured and shut down by the application,  *)
(* and used by every Init, Start and Prewarm call of the process.          *)
(*                                                                         *)
(* telemetryState is guarded by its mutex; a locked section is one step,   *)
(* except that recordMetric creates a histogram, which may fail, in a step *)
(* of its own with the mutex held.  startSpan and recordMetric copy the    *)
(* tracer or the histogram in one step and use the copy, without the       *)
(* mutex, in another.  A call is the list of its telemetry operations in   *)
(* their order.  The histograms are one histogram.                         *)
(***************************************************************************)
EXTENDS Naturals, Sequences

CONSTANTS
    Users,      \* goroutines that use the SDK
    Admins,     \* goroutines that configure, flush and shut telemetry down
    Apps,       \* app ids
    Endpoints,  \* OTLP endpoints; the first one is configured at first
    FirstEndpoint,
    MaxCalls,   \* bound: calls per user
    MaxAdmin,   \* bound: calls per admin
    MaxGen      \* bound: attempts to create the providers

ASSUME TelemetryAssumption ==
    /\ FirstEndpoint \in Endpoints
    /\ Users \cap Admins = {}
    /\ MaxCalls \in Nat /\ MaxAdmin \in Nat /\ MaxGen \in Nat

Off       == "off"       \* the empty endpoint
NoApp     == "no app"    \* no resource context was set
Endpoint  == Endpoints \cup {Off}
none      == 0
Threads   == Users \cup Admins
Kinds     == {"tracer", "meter"}

VARIABLES
    mutex,      \* holder of telemetryState's mutex between two steps, or none
    endpoint,
    resource,   \* resourceAppID (and with it resourceRegion)
    attempted,  \* initializationAttempted
    provider,   \* per kind: the current provider, named by its attempt, or none
    histogram,  \* the provider of the cached histogram, or none
    made,       \* per attempt: endpoint, resource and which kinds were created
    down,       \* the providers that were shut down
    todo,       \* per user: the operations left of its call
    copied,     \* per user: the tracer or histogram it has copied and not yet used
    span,       \* per user: its open span
    app,        \* per user: the app id of its call
    taken,      \* per admin: the providers it took to flush or shut down
    job,        \* per admin: "idle", "flush" or "shutdown"
    calls       \* per thread: calls so far

state == <<endpoint, resource, attempted, provider, histogram, made, down>>
local == <<todo, copied, span, app>>
admin == <<taken, job>>
vars  == <<mutex, state, local, admin, calls>>

Ops == {"resource", "init", "tracer", "start", "observe", "create", "record", "end"}

(* What a user holds without the mutex: something of an attempt's provider; *)
(* late (history): ShutdownTelemetry has taken the providers since.         *)
InHand  == [kind : Kinds, gen : 0..Len(made), late : BOOLEAN]
Nothing == [kind |-> "tracer", gen |-> none, late |-> FALSE]

(* The one type invariant of the module. *)
TypeOK ==
    /\ mutex \in Users \cup {none}
    /\ endpoint \in Endpoint
    /\ resource \in Apps \cup {NoApp}
    /\ attempted \in BOOLEAN
    /\ provider \in [Kinds -> 0..Len(made)]
    /\ histogram \in 0..Len(made)
    /\ made \in Seq([endpoint : Endpoint, app : Apps \cup {NoApp}, kinds : SUBSET Kinds])
    /\ Len(made) <= MaxGen
    /\ down \subseteq Kinds \X (1..Len(made))
    /\ todo \in [Users -> Seq(Ops)]
    /\ copied \in [Users -> InHand] /\ span \in [Users -> InHand]
    /\ app \in [Users -> Apps]
    /\ taken \in [Admins -> SUBSET (Kinds \X (1..Len(made)))]
    /\ job \in [Admins -> {"idle", "flush", "shutdown"}]
    /\ calls \in [Threads -> Nat]

Init ==
    /\ mutex = none
    /\ endpoint = FirstEndpoint /\ resource = NoApp /\ attempted = FALSE
    /\ provider = [k \in Kinds |-> none] /\ histogram = none
    /\ made = <<>> /\ down = {}
    /\ todo = [u \in Users |-> <<>>] 
    /\ copied = [u \in Users |-> Nothing] /\ span = [u \in Users |-> Nothing]
    /\ app \in [Users -> Apps]
    /\ taken = [a \in Admins |-> {}] /\ job = [a \in Admins |-> "idle"]
    /\ calls = [t \in Threads |-> 0]

--------------------------------------------------------------------------------
(* The calls, as the telemetry operations they perform. *)

Span   == <<"init", "tracer", "start">>      \* startSpan
Metric == <<"init", "observe", "record">>    \* recordMetric

(* fetchBootstrap: the metric is recorded by a deferred call, after the     *)
(* resource was set; a transport error sets no resource.                    *)
Bootstraps == { <<>>, <<"resource">> \o Metric, Metric }

SessionInit(b) == b \o <<"resource">> \o Span \o Metric \o Metric \o <<"end">>
SessionStart   == Span \o Metric \o <<"end">>
Prewarm(b)     == Span \o b \o <<"resource">> \o Metric \o <<"end">>

CallsOf == { SessionInit(b) : b \in Bootstraps } \cup { Prewarm(b) : b \in Bootstraps } \cup {SessionStart}

Call(u) ==
    /\ todo[u] = <<>> /\ calls[u] < MaxCalls
    /\ calls' = [calls EXCEPT ![u] = @ + 1]
    /\ \E c \in CallsOf : todo' = [todo EXCEPT ![u] = c]
    /\ UNCHANGED <<mutex, state, copied, span, app, admin>>

Doing(u, op) == todo[u] # <<>> /\ Head(todo[u]) = op

Done(u) == todo' = [todo EXCEPT ![u] = Tail(@)]

NoProviders == \A k \in Kinds : provider[k] = none

--------------------------------------------------------------------------------
(* The operations. *)

SetResourceContext(u) ==
    /\ Doing(u, "resource") /\ mutex = none
    /\ resource' = IF NoProviders THEN app[u] ELSE resource
    /\ Done(u)
    /\ UNCHANGED <<mutex, endpoint, attempted, provider, histogram, made, down, copied, span, app, admin, calls>>

\* Mutation: no memory of the first attempt.
MustInitialize_EveryTime == endpoint # Off

MustInitialize == endpoint # Off /\ ~attempted

(* Either exporter may fail to be created; there is no second attempt.      *)
EnsureTelemetryInitialized(u) ==
    /\ Doing(u, "init") /\ mutex = none
    /\ MustInitialize /\ Len(made) < MaxGen
    /\ attempted' = TRUE
    /\ \E ks \in SUBSET Kinds :
         /\ made' = Append(made, [endpoint |-> endpoint, app |-> resource, kinds |-> ks])
         /\ provider' = [k \in Kinds |-> IF k \in ks THEN Len(made') ELSE provider[k]]
    /\ Done(u)
    /\ UNCHANGED <<mutex, endpoint, resource, histogram, down, copied, span, app, admin, calls>>

AlreadyInitialized(u) ==
    /\ Doing(u, "init") /\ mutex = none /\ ~MustInitialize
    /\ Done(u)
    /\ UNCHANGED <<mutex, state, copied, span, app, admin, calls>>

(* Of what kind a nil tracer or histogram is, does not matter.              *)
Copy(u, k, g) ==
    copied' = [copied EXCEPT ![u] = IF g = none THEN Nothing ELSE [kind |-> k, gen |-> g, late |-> FALSE]]

Used(u) == copied' = [copied EXCEPT ![u] = Nothing]

(* The tracer may be nil: then startSpan returns without a span.            *)
CopyTracer(u) ==
    /\ Doing(u, "tracer") /\ mutex = none
    /\ Copy(u, "tracer", provider["tracer"]) /\ Done(u)
    /\ UNCHANGED <<mutex, state, span, app, admin, calls>>

(* tracer.Start, of whatever became of the tracer's provider.               *)
StartSpan(u) ==
    /\ Doing(u, "start")
    /\ span' = [span EXCEPT ![u] = copied[u]]
    /\ Used(u) /\ Done(u)
    /\ UNCHANGED <<mutex, state, app, admin, calls>>

FinishSpan(u) ==
    /\ Doing(u, "end")
    /\ span' = [span EXCEPT ![u] = Nothing]
    /\ Done(u)
    /\ UNCHANGED <<mutex, state, copied, app, admin, calls>>

(* The cached histogram; without a meter there is none, and recordMetric    *)
(* returns.                                                                 *)
CopyHistogram(u) ==
    /\ Doing(u, "observe") /\ mutex = none
    /\ provider["meter"] = none \/ histogram # none
    /\ Copy(u, "meter", histogram) /\ Done(u)
    /\ UNCHANGED <<mutex, state, span, app, admin, calls>>

NeedsHistogram(u) ==
    /\ Doing(u, "observe") /\ mutex = none
    /\ provider["meter"] # none /\ histogram = none
    /\ mutex' = u
    /\ todo' = [todo EXCEPT ![u] = <<"create">> \o Tail(@)]
    /\ UNCHANGED <<state, copied, span, app, admin, calls>>

CreateHistogram(u) ==
    /\ Doing(u, "create") /\ mutex = u
    /\ histogram' = provider["meter"]
    /\ Copy(u, "meter", provider["meter"]) /\ Done(u)
    /\ mutex' = none
    /\ UNCHANGED <<endpoint, resource, attempted, provider, made, down, span, app, admin, calls>>

CreateHistogramFails(u) ==
    /\ Doing(u, "create") /\ mutex = u
    /\ mutex' = none
    /\ Done(u)
    /\ UNCHANGED <<state, copied, span, app, admin, calls>>

(* histogram.Record, of whatever became of the meter's provider.            *)
RecordMetric(u) ==
    /\ Doing(u, "record")
    /\ Used(u) /\ Done(u)
    /\ UNCHANGED <<mutex, state, span, app, admin, calls>>

--------------------------------------------------------------------------------
(* The application. *)

Admitted(a) ==
    /\ job[a] = "idle" /\ mutex = none /\ calls[a] < MaxAdmin
    /\ calls' = [calls EXCEPT ![a] = @ + 1]

(* Refused, with an error, for another endpoint while providers exist.      *)
MayConfigure(e) == NoProviders \/ e = endpoint

ConfigureTelemetry(a) ==
    /\ Admitted(a)
    /\ \E e \in Endpoint : MayConfigure(e) /\ endpoint' = e
    /\ UNCHANGED <<mutex, resource, attempted, provider, histogram, made, down, local, admin>>

\* Mutation: nil providers are shut down as well.
Current_NilToo == { <<k, provider[k]>> : k \in Kinds }

Current == { <<k, provider[k]>> : k \in { x \in Kinds : provider[x] # none } }

ForceFlushTelemetry(a) ==
    /\ Admitted(a)
    /\ taken' = [taken EXCEPT ![a] = Current]
    /\ job' = [job EXCEPT ![a] = "flush"]
    /\ UNCHANGED <<mutex, state, local>>

\* Mutation: the histograms are not cleared.
Cleared_KeepsHistogram ==
    /\ provider' = [k \in Kinds |-> none]
    /\ resource' = NoApp
    /\ attempted' = FALSE
    /\ UNCHANGED histogram

(* telemetryState as ShutdownTelemetry leaves it. *)
Cleared ==
    /\ provider' = [k \in Kinds |-> none]
    /\ histogram' = none
    /\ resource' = NoApp
    /\ attempted' = FALSE

(* What is in hand now is late (history). *)
Overtaken(hands) == [u \in Users |-> [hands[u] EXCEPT !.late = hands[u].gen # none]]

ShutdownTelemetry(a) ==
    /\ Admitted(a)
    /\ taken' = [taken EXCEPT ![a] = Current]
    /\ job' = [job EXCEPT ![a] = "shutdown"]
    /\ Cleared
    /\ copied' = Overtaken(copied) /\ span' = Overtaken(span)
    /\ UNCHANGED <<mutex, endpoint, made, down, todo, app>>

(* Without the mutex, one provider after the other, within a timeout.       *)
ProviderDone(a) ==
    /\ \E p \in taken[a] :
         /\ taken' = [taken EXCEPT ![a] = @ \ {p}]
         /\ down' = IF job[a] = "shutdown" THEN down \cup {p} ELSE down
    /\ UNCHANGED <<mutex, endpoint, resource, attempted, provider, histogram, made, local, job, calls>>

AdminReturns(a) ==
    /\ job[a] # "idle" /\ taken[a] = {}
    /\ job' = [job EXCEPT ![a] = "idle"]
    /\ UNCHANGED <<mutex, state, local, taken, calls>>

Operation(u) ==
    \/ SetResourceContext(u) \/ EnsureTelemetryInitialized(u) \/ AlreadyInitialized(u)
    \/ CopyTracer(u) \/ StartSpan(u) \/ FinishSpan(u)
    \/ CopyHistogram(u) \/ NeedsHistogram(u) \/ CreateHistogram(u) \/ CreateHistogramFails(u) \/ RecordMetric(u)

AdminStep(a) == ProviderDone(a) \/ AdminReturns(a)

AdminCall(a) == ConfigureTelemetry(a) \/ ForceFlushTelemetry(a) \/ ShutdownTelemetry(a)

(* The model's bound, and not the code, stops the next initialization.      *)
AtBound == MustInitialize /\ Len(made) = MaxGen

(* Nobody has anything left to do.  No other state is without a step: every *)
(* call returns.                                                            *)
Rest ==
    /\ \A u \in Users : todo[u] = <<>> \/ AtBound
    /\ \A a \in Admins : job[a] = "idle"
    /\ UNCHANGED vars

Next ==
    \/ \E u \in Users : Call(u) \/ Operation(u)
    \/ \E a \in Admins : AdminCall(a) \/ AdminStep(a)
    \/ Rest

Spec == Init /\ [][Next]_vars

--------------------------------------------------------------------------------
(* What the providers promise. *)

(* The providers export to the configured endpoint, none exists while       *)
(* telemetry is off, and the resource context kept is the one they were     *)
(* made with.  That it was set by then is not so: it stays empty when       *)
(* Prewarm's span, or the metric of a failed bootstrap, comes first,        *)
(* although setResourceContext is said to come "before providers are        *)
(* initialized" (telemetry.go).                                             *)
ProvidersCurrent ==
    \A k \in Kinds : provider[k] # none =>
        /\ endpoint # Off
        /\ made[provider[k]].endpoint = endpoint
        /\ made[provider[k]].app = resource

(* No provider is forgotten while it runs its export loop: it is in use,    *)
(* shut down, or about to be.                                               *)
NoProviderLost ==
    \A g \in DOMAIN made : \A k \in made[g].kinds :
        \/ provider[k] = g
        \/ <<k, g>> \in down
        \/ \E a \in Admins : job[a] = "shutdown" /\ <<k, g>> \in taken[a]

(* A provider that telemetryState names is up, and the cached histogram     *)
(* belongs to the meter it names.                                           *)
StateIsUp ==
    /\ \A k \in Kinds : <<k, provider[k]>> \notin down
    /\ histogram # none => histogram = provider["meter"]

(* What a user holds without the mutex, a copied tracer or histogram or an  *)
(* open span, is of a current provider, unless a ShutdownTelemetry has come *)
(* since: then the span or metric may go to a provider that is down, and is *)
(* lost.  Nothing else loses one: no new initialization, no stale cache.    *)
OnlyLateIsLost ==
    \A u \in Users : \A h \in {copied[u], span[u]} :
        h.gen # none /\ ~h.late => h.gen = provider[h.kind] /\ <<h.kind, h.gen>> \notin down

(* What is recorded goes where it should, except across a shutdown.         *)
InUseIsCurrent == ProvidersCurrent /\ StateIsUp /\ OnlyLateIsLost
================================================================================
