------------------------ MODULE TelemetryProviderProofs ------------------------
(***************************************************************************)
(* Proofs about TelemetryProvider, for any users, administrators, apps and *)
(* endpoints, and any number of calls and generations of providers.        *)
(***************************************************************************)
EXTENDS TelemetryProvider, TLAPS

Attempt == [endpoint : Endpoint, app : Apps \cup {NoApp}, kinds : SUBSET Kinds]

Made == Kinds \X (1..Len(made))    \* every provider there was

(* TypeOK by parts: telemetryState, the users' variables, the others'.      *)
TypeState ==
    /\ mutex \in Users \cup {none}
    /\ endpoint \in Endpoint
    /\ resource \in Apps \cup {NoApp}
    /\ attempted \in BOOLEAN
    /\ provider \in [Kinds -> 0..Len(made)]
    /\ histogram \in 0..Len(made)
    /\ made \in Seq(Attempt)
    /\ Len(made) <= MaxGen
    /\ down \subseteq Made

TypeUsers ==
    /\ todo \in [Users -> Seq(Ops)]
    /\ copied \in [Users -> InHand] /\ span \in [Users -> InHand]
    /\ app \in [Users -> Apps]

TypeAdmins ==
    /\ taken \in [Admins -> SUBSET Made]
    /\ job \in [Admins -> {"idle", "flush", "shutdown"}]
    /\ calls \in [Threads -> Nat]

Typing == TypeState /\ TypeUsers /\ TypeAdmins

LEMMA TypeParts == TypeOK <=> Typing
BY DEF TypeOK, Typing, TypeState, TypeUsers, TypeAdmins, Attempt, Made

(* Before the first attempt after a shutdown there is nothing in use.       *)
Fresh == ~attempted => NoProviders /\ histogram = none

(* What an administrator is about to shut down is not in use any more.      *)
Apart ==
    \A a \in Admins : \A k \in Kinds :
        job[a] = "shutdown" => <<k, provider[k]>> \notin taken[a]

Inv == Typing /\ Fresh /\ Apart /\ InUseIsCurrent /\ NoProviderLost

--------------------------------------------------------------------------------
(* The calls are lists of operations. *)

LEMMA CallsAreOps == CallsOf \subseteq Seq(Ops)
<1>1. /\ Span \in Seq(Ops) /\ Metric \in Seq(Ops)
      /\ <<"resource">> \in Seq(Ops) /\ <<"end">> \in Seq(Ops)
  BY DEF Span, Metric, Ops
<1>2. \A s, t \in Seq(Ops) : s \o t \in Seq(Ops)
  OBVIOUS
<1>3. Bootstraps \subseteq Seq(Ops)
  <2>1. <<>> \in Seq(Ops)
    OBVIOUS
  <2> QED BY <1>1, <1>2, <2>1 DEF Bootstraps
<1>4. SessionStart \in Seq(Ops)
  BY <1>1, <1>2 DEF SessionStart
<1>5. ASSUME NEW b \in Bootstraps PROVE SessionInit(b) \in Seq(Ops)
  <2>1. b \in Seq(Ops)
    BY <1>3
  <2>2. b \o <<"resource">> \o Span \in Seq(Ops)
    BY <1>1, <1>2, <2>1
  <2>3. b \o <<"resource">> \o Span \o Metric \o Metric \in Seq(Ops)
    BY <1>1, <1>2, <2>2
  <2> QED BY <1>1, <1>2, <2>3 DEF SessionInit
<1>6. ASSUME NEW b \in Bootstraps PROVE Prewarm(b) \in Seq(Ops)
  <2>1. b \in Seq(Ops)
    BY <1>3
  <2>2. Span \o b \o <<"resource">> \in Seq(Ops)
    BY <1>1, <1>2, <2>1
  <2> QED BY <1>1, <1>2, <2>2 DEF Prewarm
<1> QED BY <1>4, <1>5, <1>6 DEF CallsOf

--------------------------------------------------------------------------------
(* Types. *)

LEMMA InitTyping == Init => Typing
<1> SUFFICES ASSUME Init PROVE Typing
  OBVIOUS
<1> USE DEF Init
<1>1. TypeState
  <2>1. made \in Seq(Attempt) /\ Len(made) = 0
    OBVIOUS
  <2>2. provider \in [Kinds -> 0..Len(made)] /\ histogram \in 0..Len(made)
    BY <2>1 DEF none
  <2>3. attempted \in BOOLEAN
    OBVIOUS
  <2> QED BY <2>1, <2>2, <2>3, TelemetryAssumption DEF TypeState, Endpoint
<1>2. TypeUsers
  <2>1. Len(made) = 0
    OBVIOUS
  <2>2. Nothing \in InHand
    BY <2>1 DEF Nothing, InHand, Kinds, none
  <2>3. <<>> \in Seq(Ops)
    OBVIOUS
  <2> QED BY <2>2, <2>3 DEF TypeUsers
<1>3. TypeAdmins
  BY DEF TypeAdmins
<1> QED BY <1>1, <1>2, <1>3 DEF Typing

(* What a list of operations keeps when its head is done. *)
LEMMA DoneTyping ==
    ASSUME NEW u \in Users, todo \in [Users -> Seq(Ops)], todo[u] # <<>>, Done(u)
    PROVE  todo' \in [Users -> Seq(Ops)]
<1>1. Tail(todo[u]) \in Seq(Ops)
  OBVIOUS
<1> QED BY <1>1 DEF Done

(* The new attempt is the last one, and the earlier ones stay. *)
LEMMA Appended ==
    ASSUME Typing, NEW r \in Attempt, made' = Append(made, r)
    PROVE  /\ made' \in Seq(Attempt) /\ Len(made') = Len(made) + 1 /\ Len(made) \in Nat
           /\ made'[Len(made')] = r
           /\ \A g \in 1..Len(made) : made'[g] = made[g]
           /\ Made \subseteq Made' /\ InHand \subseteq InHand'
BY DEF Typing, TypeState, Made, InHand

LEMMA InitializeTyping ==
    ASSUME Typing, NEW u \in Users, EnsureTelemetryInitialized(u) PROVE Typing'
<1> USE DEF EnsureTelemetryInitialized
<1>1. PICK ks \in SUBSET Kinds :
        /\ made' = Append(made, [endpoint |-> endpoint, app |-> resource, kinds |-> ks])
        /\ provider' = [k \in Kinds |-> IF k \in ks THEN Len(made') ELSE provider[k]]
  OBVIOUS
<1>2. [endpoint |-> endpoint, app |-> resource, kinds |-> ks] \in Attempt
  BY DEF Typing, TypeState, Attempt
<1>3. /\ made' \in Seq(Attempt) /\ Len(made') = Len(made) + 1 /\ Len(made) \in Nat
      /\ Made \subseteq Made' /\ InHand \subseteq InHand'
  BY <1>1, <1>2, Appended
<1>4. provider' \in [Kinds -> 0..Len(made')]
  BY <1>1, <1>3 DEF Typing, TypeState
<1>5. TypeState'
  BY <1>3, <1>4, TelemetryAssumption DEF Typing, TypeState
<1>6. TypeUsers'
  <2>1. todo' \in [Users -> Seq(Ops)]
    BY DoneTyping DEF Typing, TypeUsers, Doing
  <2> QED BY <1>3, <2>1 DEF Typing, TypeUsers
<1>7. TypeAdmins'
  BY <1>3 DEF Typing, TypeAdmins, admin
<1> QED BY <1>5, <1>6, <1>7 DEF Typing

LEMMA CopyTyping ==
    ASSUME Typing, NEW u \in Users, NEW k \in Kinds, NEW g \in 0..Len(made), Copy(u, k, g)
    PROVE  copied' \in [Users -> InHand]
<1>1. Len(made) \in Nat
  BY DEF Typing, TypeState
<1>2. Nothing \in InHand
  BY <1>1 DEF Nothing, InHand, Kinds, none
<1>3. [kind |-> k, gen |-> g, late |-> FALSE] \in InHand
  BY DEF InHand
<1> QED BY <1>2, <1>3 DEF Copy, Typing, TypeUsers

(* What the operations that leave `made` alone do to a user's hands.        *)
LEMMA HandsTyping ==
    ASSUME Typing, NEW u \in Users, Operation(u), made' = made
    PROVE  copied' \in [Users -> InHand] /\ span' \in [Users -> InHand] /\ app' = app
<1> USE DEF state
<1>1. Nothing \in InHand
  BY DEF Typing, TypeState, Nothing, InHand, Kinds, none
<1>2. CASE SetResourceContext(u) \/ EnsureTelemetryInitialized(u) \/ AlreadyInitialized(u)
  BY <1>2 DEF SetResourceContext, EnsureTelemetryInitialized, AlreadyInitialized, Typing, TypeUsers
<1>3. CASE CopyTracer(u)
  <2>1. "tracer" \in Kinds /\ provider["tracer"] \in 0..Len(made)
    BY DEF Typing, TypeState, Kinds
  <2> QED BY <1>3, <2>1, CopyTyping DEF CopyTracer, Typing, TypeUsers
<1>4. CASE CopyHistogram(u)
  <2>1. "meter" \in Kinds /\ histogram \in 0..Len(made)
    BY DEF Typing, TypeState, Kinds
  <2> QED BY <1>4, <2>1, CopyTyping DEF CopyHistogram, Typing, TypeUsers
<1>5. CASE CreateHistogram(u)
  <2>1. "meter" \in Kinds /\ provider["meter"] \in 0..Len(made)
    BY DEF Typing, TypeState, Kinds
  <2> QED BY <1>5, <2>1, CopyTyping DEF CreateHistogram, Typing, TypeUsers
<1>6. CASE StartSpan(u) \/ FinishSpan(u) \/ RecordMetric(u)
  BY <1>1, <1>6 DEF StartSpan, FinishSpan, RecordMetric, Used, Typing, TypeUsers
<1>7. CASE NeedsHistogram(u) \/ CreateHistogramFails(u)
  BY <1>7 DEF NeedsHistogram, CreateHistogramFails, Typing, TypeUsers
<1> QED BY <1>2, <1>3, <1>4, <1>5, <1>6, <1>7 DEF Operation

(* The other operations leave `made` alone. *)
LEMMA OperationTyping ==
    ASSUME Typing, NEW u \in Users, Operation(u), made' = made PROVE Typing'
<1> USE DEF state, admin
<1>1. TypeUsers'
  <2>1. todo[u] # <<>> /\ (Done(u) \/ NeedsHistogram(u))
    BY DEF Operation, Doing, SetResourceContext, EnsureTelemetryInitialized, AlreadyInitialized,
           CopyTracer, StartSpan, FinishSpan, CopyHistogram, RecordMetric, NeedsHistogram, CreateHistogram,
           CreateHistogramFails
  <2>2. todo' \in [Users -> Seq(Ops)]
    <3>1. CASE Done(u)
      BY <2>1, <3>1, DoneTyping DEF Typing, TypeUsers
    <3>2. CASE NeedsHistogram(u)
      <4>1. Tail(todo[u]) \in Seq(Ops) /\ <<"create">> \in Seq(Ops)
        BY <2>1 DEF Typing, TypeUsers, Ops
      <4>2. <<"create">> \o Tail(todo[u]) \in Seq(Ops)
        BY <4>1
      <4> QED BY <3>2, <4>2 DEF NeedsHistogram, Typing, TypeUsers
    <3> QED BY <2>1, <3>1, <3>2
  <2>3. InHand' = InHand
    BY DEF InHand
  <2> QED BY <2>2, <2>3, HandsTyping DEF Typing, TypeUsers
<1>2. TypeAdmins'
  <2>1. UNCHANGED <<taken, job, calls>>
    BY DEF Operation, SetResourceContext, EnsureTelemetryInitialized, AlreadyInitialized,
           CopyTracer, StartSpan, FinishSpan, CopyHistogram, RecordMetric, NeedsHistogram, CreateHistogram,
           CreateHistogramFails
  <2> QED BY <2>1 DEF Typing, TypeAdmins, Made
<1>3. TypeState'
  <2>1. CASE SetResourceContext(u)
    BY <2>1 DEF SetResourceContext, Typing, TypeState, TypeUsers, Made
  <2>2. CASE CreateHistogram(u)
    BY <2>2 DEF CreateHistogram, Typing, TypeState, Kinds, none, Made
  <2>3. CASE AlreadyInitialized(u) \/ CopyTracer(u) \/ StartSpan(u) \/ FinishSpan(u) \/ CopyHistogram(u) \/ RecordMetric(u)
    BY <2>3 DEF AlreadyInitialized, CopyTracer, StartSpan, FinishSpan, CopyHistogram, RecordMetric, Typing, TypeState, Made
  <2>4. CASE NeedsHistogram(u) \/ CreateHistogramFails(u)
    BY <2>4 DEF NeedsHistogram, CreateHistogramFails, Typing, TypeState, none, Made
  <2>5. CASE EnsureTelemetryInitialized(u)
    <3>1. PICK r : made' = Append(made, r)
      BY <2>5 DEF EnsureTelemetryInitialized
    <3>2. Len(made') = Len(made) + 1 /\ Len(made) \in Nat
      BY <3>1 DEF Typing, TypeState
    <3> QED BY <3>2
  <2> QED BY <2>1, <2>2, <2>3, <2>4, <2>5 DEF Operation
<1> QED BY <1>1, <1>2, <1>3 DEF Typing

LEMMA CurrentIsMade == ASSUME Typing PROVE Current \subseteq Made
BY DEF Current, Made, Typing, TypeState, none

LEMMA AdminTyping ==
    ASSUME Typing, NEW a \in Admins, AdminCall(a) \/ AdminStep(a) PROVE Typing'
<1> USE DEF local
<1>1. calls' \in [Threads -> Nat]
  <2>1. a \in Threads
    BY DEF Threads
  <2> QED BY <2>1 DEF AdminCall, AdminStep, ConfigureTelemetry, ForceFlushTelemetry, ShutdownTelemetry, Admitted,
             ProviderDone, AdminReturns, Typing, TypeAdmins
<1>2. CASE ConfigureTelemetry(a)
  BY <1>1, <1>2 DEF ConfigureTelemetry, Typing, TypeState, TypeUsers, TypeAdmins, Made, InHand, admin
<1>3. CASE ForceFlushTelemetry(a)
  BY <1>1, <1>3, CurrentIsMade DEF ForceFlushTelemetry, state, Typing, TypeState, TypeUsers, TypeAdmins, Made, InHand
<1>4. CASE ShutdownTelemetry(a)
  <2>1. TypeState'
    <3>1. Len(made) \in Nat
      BY DEF Typing, TypeState
    <3>2. provider' \in [Kinds -> 0..Len(made)] /\ histogram' \in 0..Len(made)
      BY <1>4, <3>1 DEF ShutdownTelemetry, Cleared, none
    <3>3. attempted' \in BOOLEAN /\ resource' \in Apps \cup {NoApp}
      BY <1>4 DEF ShutdownTelemetry, Cleared
    <3>4. UNCHANGED <<mutex, endpoint, made, down>>
      BY <1>4 DEF ShutdownTelemetry
    <3> QED BY <3>2, <3>3, <3>4 DEF Typing, TypeState, Made
  <2>2. TypeUsers'
    <3>1. \A h \in InHand : [h EXCEPT !.late = h.gen # none] \in InHand
      BY DEF InHand
    <3>2. Overtaken(copied) \in [Users -> InHand] /\ Overtaken(span) \in [Users -> InHand]
      BY <3>1 DEF Typing, TypeUsers, Overtaken
    <3>3. InHand' = InHand
      BY <1>4 DEF ShutdownTelemetry, InHand
    <3> QED BY <1>4, <3>2, <3>3 DEF ShutdownTelemetry, Typing, TypeUsers
  <2>3. TypeAdmins'
    BY <1>1, <1>4, CurrentIsMade DEF ShutdownTelemetry, Typing, TypeAdmins, Made
  <2> QED BY <2>1, <2>2, <2>3 DEF Typing
<1>5. CASE ProviderDone(a)
  <2>1. PICK p \in taken[a] :
          /\ taken' = [taken EXCEPT ![a] = @ \ {p}]
          /\ down' = IF job[a] = "shutdown" THEN down \cup {p} ELSE down
    BY <1>5 DEF ProviderDone
  <2>2. taken[a] \subseteq Made
    BY DEF Typing, TypeAdmins
  <2>3. TypeState'
    BY <1>5, <2>1, <2>2 DEF ProviderDone, Typing, TypeState, Made
  <2>4. TypeUsers' /\ TypeAdmins'
    BY <1>5, <2>1, <2>2 DEF ProviderDone, Typing, TypeUsers, TypeAdmins, Made, InHand
  <2> QED BY <2>3, <2>4 DEF Typing
<1>6. CASE AdminReturns(a)
  BY <1>6 DEF AdminReturns, state, Typing, TypeState, TypeUsers, TypeAdmins, Made, InHand
<1> QED BY <1>2, <1>3, <1>4, <1>5, <1>6 DEF AdminCall, AdminStep

LEMMA CallTyping == ASSUME Typing, NEW u \in Users, Call(u) PROVE Typing'
<1>1. u \in Threads
  BY DEF Threads
<1>2. calls' \in [Threads -> Nat]
  BY <1>1 DEF Call, Typing, TypeAdmins
<1>3. todo' \in [Users -> Seq(Ops)]
  BY CallsAreOps DEF Call, Typing, TypeUsers
<1> QED BY <1>2, <1>3 DEF Call, state, admin, Typing, TypeState, TypeUsers, TypeAdmins, Made, InHand

LEMMA StepTyping == ASSUME Typing, [Next]_vars PROVE Typing'
<1>1. CASE UNCHANGED vars
  BY <1>1 DEF vars, state, local, admin, Typing, TypeState, TypeUsers, TypeAdmins, Made, InHand
<1>2. ASSUME NEW u \in Users, Call(u) PROVE Typing'
  BY <1>2, CallTyping
<1>3. ASSUME NEW u \in Users, Operation(u) PROVE Typing'
  <2>1. CASE EnsureTelemetryInitialized(u)
    BY <2>1, InitializeTyping
  <2>2. CASE ~EnsureTelemetryInitialized(u)
    <3>1. made' = made
      BY <1>3, <2>2 DEF Operation, SetResourceContext, AlreadyInitialized, CopyTracer, StartSpan, FinishSpan,
                        CopyHistogram, RecordMetric, NeedsHistogram, CreateHistogram, CreateHistogramFails, state
    <3> QED BY <1>3, <3>1, OperationTyping
  <2> QED BY <2>1, <2>2
<1>4. ASSUME NEW a \in Admins, AdminCall(a) \/ AdminStep(a) PROVE Typing'
  BY <1>4, AdminTyping
<1> QED BY <1>1, <1>2, <1>3, <1>4 DEF Next, Rest

(* TypeOK is an invariant: every variable keeps its type, for any number of *)
(* users, administrators and generations of providers.                      *)
THEOREM TypeCorrect == Spec => []TypeOK
<1>1. Init => Typing
  BY InitTyping
<1>2. Typing /\ [Next]_vars => Typing'
  BY StepTyping
<1>3. Typing => TypeOK
  BY TypeParts
<1> QED BY <1>1, <1>2, <1>3, PTL DEF Spec

--------------------------------------------------------------------------------
(* What is in use. *)

LEMMA InitInv == Init => Inv
<1> SUFFICES ASSUME Init PROVE Inv
  OBVIOUS
<1> USE DEF Init
<1>1. Fresh /\ Apart /\ InUseIsCurrent
  BY DEF Fresh, NoProviders, Apart, InUseIsCurrent, ProvidersCurrent, StateIsUp, OnlyLateIsLost, Nothing
<1>2. NoProviderLost
  BY DEF NoProviderLost
<1> QED BY <1>1, <1>2, InitTyping DEF Inv

(* What only the operations below change, and what stays when they do not.  *)
inUse == <<endpoint, resource, attempted, provider, histogram, made, down, taken, job>>

LEMMA Untouched == ASSUME Inv, Typing', UNCHANGED inUse, OnlyLateIsLost' PROVE Inv'
<1>1. Fresh' /\ Apart' /\ InUseIsCurrent'
  BY DEF inUse, Inv, Fresh, NoProviders, Apart, InUseIsCurrent, ProvidersCurrent, StateIsUp
<1>2. NoProviderLost'
  BY DEF inUse, Inv, NoProviderLost
<1> QED BY <1>1, <1>2 DEF Inv

(* What a user may hold: it is late, or of a current provider.              *)
Sound(h) == h.gen # none /\ ~h.late => h.gen = provider[h.kind] /\ <<h.kind, h.gen>> \notin down

hands == <<copied, span>>

LEMMA SameHands == ASSUME Inv, UNCHANGED <<provider, down, hands>> PROVE OnlyLateIsLost'
BY DEF Inv, InUseIsCurrent, OnlyLateIsLost, hands

(* A step that gives its user nothing but sound hands leaves all sound.     *)
LEMMA SoundHands ==
    ASSUME Inv, NEW u \in Users, UNCHANGED <<provider, down>>,
           NEW c, NEW s, Sound(c), Sound(s),
           copied' = [copied EXCEPT ![u] = c], span' = [span EXCEPT ![u] = s]
    PROVE  OnlyLateIsLost'
<1>1. copied \in [Users -> InHand] /\ span \in [Users -> InHand]
  BY DEF Inv, Typing, TypeUsers
<1>2. copied'[u] = c /\ span'[u] = s
  BY <1>1
<1>3. \A v \in Users : v # u => copied'[v] = copied[v] /\ span'[v] = span[v]
  BY <1>1
<1>4. \A v \in Users : Sound(copied[v]) /\ Sound(span[v])
  BY DEF Inv, InUseIsCurrent, OnlyLateIsLost, Sound
<1>5. \A v \in Users : Sound(copied'[v]) /\ Sound(span'[v])
  BY <1>2, <1>3, <1>4
<1> QED BY <1>5 DEF OnlyLateIsLost, Sound

(* The provider that telemetryState names, or the histogram it caches, is   *)
(* sound when it is copied.                                                 *)
LEMMA CopySound ==
    ASSUME Inv, NEW u \in Users, NEW k \in Kinds, NEW g, g = none \/ g = provider[k], Copy(u, k, g),
           UNCHANGED <<provider, down, span>>
    PROVE  OnlyLateIsLost'
<1>1. <<k, provider[k]>> \notin down
  BY DEF Inv, InUseIsCurrent, StateIsUp
<1> DEFINE c == IF g = none THEN Nothing ELSE [kind |-> k, gen |-> g, late |-> FALSE]
<1>2. Sound(c)
  BY <1>1 DEF Sound, Nothing
<1>3. Sound(span[u])
  BY DEF Inv, InUseIsCurrent, OnlyLateIsLost, Sound
<1>4. span' = [span EXCEPT ![u] = span[u]]
  BY DEF Inv, Typing, TypeUsers
<1>5. copied' = [copied EXCEPT ![u] = c]
  BY DEF Copy
<1> HIDE DEF c
<1> QED BY <1>2, <1>3, <1>4, <1>5, SoundHands

(* The operations that take or use a tracer, a histogram or a span.         *)
LEMMA HandInv ==
    ASSUME Inv, Typing', NEW u \in Users,
           CopyTracer(u) \/ StartSpan(u) \/ FinishSpan(u) \/ CopyHistogram(u) \/ RecordMetric(u)
    PROVE  Inv'
<1> USE DEF state, admin
<1>1. UNCHANGED inUse
  BY DEF CopyTracer, StartSpan, FinishSpan, CopyHistogram, RecordMetric, inUse
<1>2. Sound(Nothing) /\ Sound(copied[u]) /\ Sound(span[u])
  BY DEF Inv, InUseIsCurrent, OnlyLateIsLost, Sound, Nothing
<1>3. copied = [copied EXCEPT ![u] = copied[u]] /\ span = [span EXCEPT ![u] = span[u]]
  BY DEF Inv, Typing, TypeUsers
<1>4. "tracer" \in Kinds /\ "meter" \in Kinds
  BY DEF Kinds
<1>5. CASE CopyTracer(u)
  <2>1. OnlyLateIsLost'
    BY <1>4, <1>5, CopySound DEF CopyTracer
  <2> QED BY <1>1, <2>1, Untouched
<1>6. CASE CopyHistogram(u)
  <2>1. histogram = none \/ histogram = provider["meter"]
    BY DEF Inv, InUseIsCurrent, StateIsUp
  <2>2. OnlyLateIsLost'
    BY <1>4, <1>6, <2>1, CopySound DEF CopyHistogram
  <2> QED BY <1>1, <2>2, Untouched
<1>7. CASE StartSpan(u)
  <2>1. OnlyLateIsLost'
    BY <1>2, <1>7, SoundHands DEF StartSpan, Used
  <2> QED BY <1>1, <2>1, Untouched
<1>8. CASE FinishSpan(u)
  <2>1. copied' = [copied EXCEPT ![u] = copied[u]] /\ span' = [span EXCEPT ![u] = Nothing]
    BY <1>3, <1>8 DEF FinishSpan
  <2>2. OnlyLateIsLost'
    BY <1>2, <1>8, <2>1, SoundHands DEF FinishSpan
  <2> QED BY <1>1, <2>2, Untouched
<1>9. CASE RecordMetric(u)
  <2>1. span' = [span EXCEPT ![u] = span[u]] /\ copied' = [copied EXCEPT ![u] = Nothing]
    BY <1>3, <1>9 DEF RecordMetric, Used
  <2>2. OnlyLateIsLost'
    BY <1>2, <1>9, <2>1, SoundHands DEF RecordMetric
  <2> QED BY <1>1, <2>2, Untouched
<1> QED BY <1>5, <1>6, <1>7, <1>8, <1>9

(* The first attempt creates the providers from the current endpoint and    *)
(* context, under a number that nobody has taken or shut down yet.          *)
LEMMA InitializeInv ==
    ASSUME Inv, NEW u \in Users, EnsureTelemetryInitialized(u) PROVE Inv'
<1> DEFINE N == Len(made) + 1
<1>1. PICK ks \in SUBSET Kinds :
        /\ made' = Append(made, [endpoint |-> endpoint, app |-> resource, kinds |-> ks])
        /\ provider' = [k \in Kinds |-> IF k \in ks THEN Len(made') ELSE provider[k]]
  BY DEF EnsureTelemetryInitialized
<1>2. Typing /\ Typing'
  BY InitializeTyping DEF Inv
<1>3. [endpoint |-> endpoint, app |-> resource, kinds |-> ks] \in Attempt
  BY <1>2 DEF Typing, TypeState, Attempt
<1>4. /\ Len(made') = N /\ N \in Nat \ {0} /\ Len(made) \in Nat
      /\ made'[N] = [endpoint |-> endpoint, app |-> resource, kinds |-> ks]
      /\ \A g \in 1..Len(made) : made'[g] = made[g]
  BY <1>1, <1>2, <1>3, Appended
<1>5. DOMAIN made = 1..Len(made) /\ DOMAIN made' = 1..N
  BY <1>2, <1>4 DEF Typing, TypeState
<1>6. /\ endpoint # Off /\ attempted' = TRUE
      /\ UNCHANGED <<endpoint, resource, histogram, down, taken, job, copied, span>>
  BY DEF EnsureTelemetryInitialized, MustInitialize, admin
<1>7. \A k \in Kinds : provider[k] = none
  BY DEF Inv, Fresh, NoProviders, EnsureTelemetryInitialized, MustInitialize
<1>8. histogram = none
  BY DEF Inv, Fresh, EnsureTelemetryInitialized, MustInitialize
<1>9. \A k \in Kinds : provider'[k] = IF k \in ks THEN N ELSE none
  BY <1>1, <1>4, <1>7
<1>10. \A k \in Kinds : <<k, N>> \notin Made /\ <<k, none>> \notin Made
  BY <1>4 DEF Made, none
<1>11. Fresh' /\ Apart'
  <2>1. Fresh'
    BY <1>6 DEF Fresh
  <2>2. \A a \in Admins : taken[a] \subseteq Made
    BY <1>2 DEF Typing, TypeAdmins
  <2>3. Apart'
    BY <1>6, <1>9, <1>10, <2>2 DEF Apart
  <2> QED BY <2>1, <2>3
<1>12. InUseIsCurrent'
  <2>1. ProvidersCurrent'
    BY <1>4, <1>6, <1>9 DEF ProvidersCurrent
  <2>2. down \subseteq Made
    BY <1>2 DEF Typing, TypeState
  <2>3. StateIsUp'
    BY <1>6, <1>8, <1>9, <1>10, <2>2 DEF StateIsUp
  <2>4. ASSUME NEW v \in Users, NEW h \in {copied[v], span[v]} PROVE h.gen = none \/ h.late
    <3>1. h \in InHand
      BY <1>2 DEF Typing, TypeUsers
    <3>2. h.kind \in Kinds
      BY <3>1 DEF InHand
    <3> QED BY <1>7, <3>2 DEF Inv, InUseIsCurrent, OnlyLateIsLost
  <2>5. OnlyLateIsLost'
    BY <1>6, <2>4 DEF OnlyLateIsLost
  <2> QED BY <2>1, <2>3, <2>5 DEF InUseIsCurrent
<1>13. NoProviderLost'
  <2> SUFFICES ASSUME NEW g \in 1..N, NEW k \in made'[g].kinds
               PROVE  \/ provider'[k] = g
                      \/ <<k, g>> \in down
                      \/ \E a \in Admins : job[a] = "shutdown" /\ <<k, g>> \in taken[a]
    BY <1>5, <1>6 DEF NoProviderLost
  <2>1. CASE g = N
    BY <1>4, <1>9, <2>1
  <2>2. CASE g # N
    <3>1. g \in 1..Len(made) /\ k \in made[g].kinds
      BY <1>4, <2>2
    <3>2. made[g] \in Attempt
      BY <1>2, <3>1 DEF Typing, TypeState
    <3>3. provider[k] # g
      BY <1>7, <3>1, <3>2 DEF Attempt, none
    <3> QED BY <1>5, <3>1, <3>3 DEF Inv, NoProviderLost
  <2> QED BY <2>1, <2>2
<1> QED BY <1>2, <1>11, <1>12, <1>13 DEF Inv

(* The context changes only while nothing is in use. *)
LEMMA ResourceInv ==
    ASSUME Inv, Typing', NEW u \in Users, SetResourceContext(u) PROVE Inv'
<1>1. /\ NoProviders \/ resource' = resource
      /\ UNCHANGED <<endpoint, attempted, provider, histogram, made, down, taken, job, copied, span>>
  BY DEF SetResourceContext, admin
<1>2. Fresh' /\ Apart'
  BY <1>1 DEF Inv, Fresh, NoProviders, Apart
<1>3. InUseIsCurrent'
  BY <1>1 DEF Inv, NoProviders, InUseIsCurrent, ProvidersCurrent, StateIsUp, OnlyLateIsLost
<1>4. NoProviderLost'
  BY <1>1 DEF Inv, NoProviderLost
<1> QED BY <1>2, <1>3, <1>4 DEF Inv

LEMMA ConfigureInv ==
    ASSUME Inv, Typing', NEW a \in Admins, ConfigureTelemetry(a) PROVE Inv'
<1>1. /\ NoProviders \/ endpoint' = endpoint
      /\ UNCHANGED <<resource, attempted, provider, histogram, made, down, taken, job, copied, span>>
  BY DEF ConfigureTelemetry, MayConfigure, admin, local
<1>2. Fresh' /\ Apart'
  BY <1>1 DEF Inv, Fresh, NoProviders, Apart
<1>3. InUseIsCurrent'
  BY <1>1 DEF Inv, NoProviders, InUseIsCurrent, ProvidersCurrent, StateIsUp, OnlyLateIsLost
<1>4. NoProviderLost'
  BY <1>1 DEF Inv, NoProviderLost
<1> QED BY <1>2, <1>3, <1>4 DEF Inv

(* The histogram that is cached is one of the meter in use. *)
LEMMA HistogramInv ==
    ASSUME Inv, Typing', NEW u \in Users, CreateHistogram(u) PROVE Inv'
<1>1. /\ histogram' = provider["meter"]
      /\ UNCHANGED <<endpoint, resource, attempted, provider, made, down, taken, job, span>>
      /\ Copy(u, "meter", provider["meter"])
  BY DEF CreateHistogram, admin
<1>2. "meter" \in Kinds
  BY DEF Kinds
<1>3. Fresh' /\ Apart'
  BY <1>1, <1>2 DEF Inv, Fresh, NoProviders, Apart
<1>4. InUseIsCurrent'
  <2>1. OnlyLateIsLost'
    BY <1>1, <1>2, CopySound
  <2> QED BY <1>1, <2>1 DEF Inv, InUseIsCurrent, ProvidersCurrent, StateIsUp
<1>5. NoProviderLost'
  BY <1>1 DEF Inv, NoProviderLost
<1> QED BY <1>3, <1>4, <1>5 DEF Inv

LEMMA FlushInv ==
    ASSUME Inv, Typing', NEW a \in Admins, ForceFlushTelemetry(a) PROVE Inv'
<1>1. /\ job[a] = "idle"
      /\ taken' = [taken EXCEPT ![a] = Current] /\ job' = [job EXCEPT ![a] = "flush"]
      /\ UNCHANGED <<endpoint, resource, attempted, provider, histogram, made, down, copied, span>>
  BY DEF ForceFlushTelemetry, Admitted, state, local
<1>2. taken \in [Admins -> SUBSET Made] /\ job \in [Admins -> {"idle", "flush", "shutdown"}]
  BY DEF Inv, Typing, TypeAdmins
<1>3. \A b \in Admins : job'[b] = "shutdown" => b # a /\ job[b] = "shutdown" /\ taken'[b] = taken[b]
  BY <1>1, <1>2
<1>4. \A b \in Admins : job[b] = "shutdown" => b # a /\ job'[b] = "shutdown" /\ taken'[b] = taken[b]
  BY <1>1, <1>2
<1>5. Fresh' /\ Apart'
  BY <1>1, <1>3 DEF Inv, Fresh, NoProviders, Apart
<1>6. InUseIsCurrent'
  BY <1>1 DEF Inv, InUseIsCurrent, ProvidersCurrent, StateIsUp, OnlyLateIsLost
<1>7. NoProviderLost'
  BY <1>1, <1>4 DEF Inv, NoProviderLost
<1> QED BY <1>5, <1>6, <1>7 DEF Inv

(* What was in use is with the administrator who shuts it down. *)
LEMMA ShutdownInv ==
    ASSUME Inv, Typing', NEW a \in Admins, ShutdownTelemetry(a) PROVE Inv'
<1>1. /\ job[a] = "idle"
      /\ taken' = [taken EXCEPT ![a] = Current] /\ job' = [job EXCEPT ![a] = "shutdown"]
      /\ provider' = [k \in Kinds |-> none] /\ histogram' = none /\ attempted' = FALSE
      /\ UNCHANGED <<endpoint, made, down>>
      /\ copied' = Overtaken(copied) /\ span' = Overtaken(span)
  BY DEF ShutdownTelemetry, Admitted, Cleared
<1>2. Typing
  BY DEF Inv
<1>3. taken'[a] = Current /\ job'[a] = "shutdown"
  BY <1>1, <1>2 DEF Typing, TypeAdmins
<1>4. \A b \in Admins : job[b] = "shutdown" => job'[b] = "shutdown" /\ taken'[b] = taken[b]
  BY <1>1, <1>2 DEF Typing, TypeAdmins
<1>5. \A k \in Kinds : <<k, none>> \notin Made /\ Made' = Made
  BY <1>1 DEF Made, none
<1>6. Fresh'
  BY <1>1 DEF Fresh, NoProviders
<1>7. Apart'
  <2>1. \A b \in Admins : taken'[b] \subseteq Made
    BY <1>1 DEF Typing, TypeAdmins, Made
  <2> QED BY <1>1, <1>5, <2>1 DEF Apart
<1>8. InUseIsCurrent'
  <2>1. down \subseteq Made
    BY <1>2 DEF Typing, TypeState
  <2>2. \A h \in InHand : LET o == [h EXCEPT !.late = h.gen # none] IN o.gen # none => o.late
    BY DEF InHand
  <2>3. ASSUME NEW v \in Users, NEW h \in {copied'[v], span'[v]} PROVE h.gen # none => h.late
    <3>1. copied[v] \in InHand /\ span[v] \in InHand
      BY <1>2 DEF Typing, TypeUsers
    <3>2. /\ copied'[v] = [copied[v] EXCEPT !.late = copied[v].gen # none]
          /\ span'[v] = [span[v] EXCEPT !.late = span[v].gen # none]
      BY <1>1 DEF Overtaken
    <3> QED BY <2>2, <3>1, <3>2
  <2>4. OnlyLateIsLost'
    BY <2>3 DEF OnlyLateIsLost
  <2> QED BY <1>1, <1>5, <2>1, <2>4 DEF InUseIsCurrent, ProvidersCurrent, StateIsUp
<1>9. NoProviderLost'
  <2> SUFFICES ASSUME NEW g \in DOMAIN made, NEW k \in made[g].kinds
               PROVE  \/ <<k, g>> \in down
                      \/ \E b \in Admins : job'[b] = "shutdown" /\ <<k, g>> \in taken'[b]
    BY <1>1 DEF NoProviderLost
  <2>1. CASE provider[k] = g
    <3>1. made[g] \in Attempt /\ g \in Nat \ {0}
      BY <1>2 DEF Typing, TypeState
    <3>2. <<k, g>> \in Current
      BY <2>1, <3>1 DEF Current, Attempt, none
    <3> QED BY <1>3, <3>2
  <2>2. CASE provider[k] # g
    BY <1>4, <2>2 DEF Inv, NoProviderLost
  <2> QED BY <2>1, <2>2
<1> QED BY <1>6, <1>7, <1>8, <1>9 DEF Inv

LEMMA ProviderDoneInv ==
    ASSUME Inv, Typing', NEW a \in Admins, ProviderDone(a) PROVE Inv'
<1>1. PICK p \in taken[a] :
        /\ taken' = [taken EXCEPT ![a] = @ \ {p}]
        /\ down' = IF job[a] = "shutdown" THEN down \cup {p} ELSE down
        /\ UNCHANGED <<endpoint, resource, attempted, provider, histogram, made, job, copied, span>>
  BY DEF ProviderDone, local
<1>2. taken \in [Admins -> SUBSET Made]
  BY DEF Inv, Typing, TypeAdmins
<1>3. taken'[a] = taken[a] \ {p} /\ \A b \in Admins : taken'[b] \subseteq taken[b]
  BY <1>1, <1>2
<1>4. \A b \in Admins : b # a => taken'[b] = taken[b]
  BY <1>1, <1>2
<1>5. Fresh' /\ Apart'
  BY <1>1, <1>3 DEF Inv, Fresh, NoProviders, Apart
<1>6. InUseIsCurrent'
  <2>1. ProvidersCurrent'
    BY <1>1 DEF Inv, InUseIsCurrent, ProvidersCurrent
  <2>2. \A k \in Kinds : <<k, provider[k]>> \notin down => <<k, provider[k]>> \notin down'
    <3>1. \A k \in Kinds : job[a] = "shutdown" => p # <<k, provider[k]>>
      BY <1>1 DEF Inv, Apart
    <3> QED BY <1>1, <3>1
  <2>3. StateIsUp'
    BY <1>1, <2>2 DEF Inv, InUseIsCurrent, StateIsUp
  <2>4. OnlyLateIsLost'
    <3>1. \A v \in Users : copied[v].kind \in Kinds /\ span[v].kind \in Kinds
      BY DEF Inv, Typing, TypeUsers, InHand
    <3> QED BY <1>1, <2>2, <3>1 DEF Inv, InUseIsCurrent, OnlyLateIsLost
  <2> QED BY <2>1, <2>3, <2>4 DEF InUseIsCurrent
<1>7. NoProviderLost'
  <2> SUFFICES ASSUME NEW g \in DOMAIN made, NEW k \in made[g].kinds
               PROVE  \/ provider[k] = g
                      \/ <<k, g>> \in down'
                      \/ \E b \in Admins : job[b] = "shutdown" /\ <<k, g>> \in taken'[b]
    BY <1>1 DEF NoProviderLost
  <2>1. CASE provider[k] = g \/ <<k, g>> \in down
    BY <1>1, <2>1
  <2>2. ASSUME NEW b \in Admins, job[b] = "shutdown", <<k, g>> \in taken[b]
        PROVE  \/ <<k, g>> \in down'
               \/ \E c \in Admins : job[c] = "shutdown" /\ <<k, g>> \in taken'[c]
    BY <1>1, <1>3, <1>4, <2>2
  <2> QED BY <2>1, <2>2 DEF Inv, NoProviderLost
<1> QED BY <1>5, <1>6, <1>7 DEF Inv

LEMMA ReturnInv ==
    ASSUME Inv, Typing', NEW a \in Admins, AdminReturns(a) PROVE Inv'
<1>1. /\ taken[a] = {} /\ job' = [job EXCEPT ![a] = "idle"]
      /\ UNCHANGED <<endpoint, resource, attempted, provider, histogram, made, down, taken, copied, span>>
  BY DEF AdminReturns, state, local
<1>2. job \in [Admins -> {"idle", "flush", "shutdown"}]
  BY DEF Inv, Typing, TypeAdmins
<1>3. \A b \in Admins : job'[b] = "shutdown" => job[b] = "shutdown"
  BY <1>1, <1>2
<1>4. \A b \in Admins : b # a => job'[b] = job[b]
  BY <1>1, <1>2
<1>5. Fresh' /\ Apart'
  BY <1>1, <1>3 DEF Inv, Fresh, NoProviders, Apart
<1>6. InUseIsCurrent'
  BY <1>1 DEF Inv, InUseIsCurrent, ProvidersCurrent, StateIsUp, OnlyLateIsLost
<1>7. NoProviderLost'
  <2> SUFFICES ASSUME NEW g \in DOMAIN made, NEW k \in made[g].kinds
               PROVE  \/ provider[k] = g
                      \/ <<k, g>> \in down
                      \/ \E b \in Admins : job'[b] = "shutdown" /\ <<k, g>> \in taken[b]
    BY <1>1 DEF NoProviderLost
  <2>1. ASSUME NEW b \in Admins, job[b] = "shutdown", <<k, g>> \in taken[b]
        PROVE  job'[b] = "shutdown"
    <3>1. b # a
      BY <1>1, <2>1
    <3> QED BY <1>4, <2>1, <3>1
  <2> QED BY <2>1 DEF Inv, NoProviderLost
<1> QED BY <1>5, <1>6, <1>7 DEF Inv

LEMMA StepInv == ASSUME Inv, [Next]_vars PROVE Inv'
<1>1. Typing /\ Typing'
  BY StepTyping DEF Inv
<1>2. ASSUME UNCHANGED <<inUse, hands>> PROVE Inv'
  <2>1. OnlyLateIsLost'
    BY <1>2, SameHands DEF inUse
  <2> QED BY <1>1, <1>2, <2>1, Untouched DEF inUse
<1>3. ASSUME UNCHANGED vars \/ \E u \in Users : Call(u) PROVE Inv'
  BY <1>2, <1>3 DEF Call, vars, state, local, admin, inUse, hands
<1>4. ASSUME NEW u \in Users, Operation(u) PROVE Inv'
  <2>1. CASE EnsureTelemetryInitialized(u)
    BY <2>1, InitializeInv
  <2>2. CASE SetResourceContext(u)
    BY <1>1, <2>2, ResourceInv
  <2>3. CASE CreateHistogram(u)
    BY <1>1, <2>3, HistogramInv
  <2>4. CASE CopyTracer(u) \/ StartSpan(u) \/ FinishSpan(u) \/ CopyHistogram(u) \/ RecordMetric(u)
    BY <1>1, <2>4, HandInv
  <2>5. CASE AlreadyInitialized(u) \/ NeedsHistogram(u) \/ CreateHistogramFails(u)
    BY <1>2, <2>5 DEF AlreadyInitialized, NeedsHistogram, CreateHistogramFails, state, admin, inUse, hands
  <2> QED BY <1>4, <2>1, <2>2, <2>3, <2>4, <2>5 DEF Operation
<1>5. ASSUME NEW a \in Admins, AdminCall(a) \/ AdminStep(a) PROVE Inv'
  BY <1>1, <1>5, ConfigureInv, FlushInv, ShutdownInv, ProviderDoneInv, ReturnInv DEF AdminCall, AdminStep
<1> QED BY <1>3, <1>4, <1>5 DEF Next, Rest

(* What telemetryState names is up and exports to the configured endpoint   *)
(* with the resource it was made with, and what a goroutine copied of it    *)
(* and uses after the unlock is current too, unless a ShutdownTelemetry     *)
(* came between: InUseIsCurrent, however initialization, configuration and  *)
(* shutdowns of several goroutines follow each other.                       *)
THEOREM UseIsCurrent == Spec => []InUseIsCurrent
<1>1. Init => Inv
  BY InitInv
<1>2. Inv /\ [Next]_vars => Inv'
  BY StepInv
<1>3. Inv => InUseIsCurrent
  BY DEF Inv
<1> QED BY <1>1, <1>2, <1>3, PTL DEF Spec

(* NoProviderLost is an invariant: two shutdowns at once, or one against a  *)
(* new initialization, leave no provider exporting for nobody.              *)
THEOREM ProvidersKept == Spec => []NoProviderLost
<1>1. Init => Inv
  BY InitInv
<1>2. Inv /\ [Next]_vars => Inv'
  BY StepInv
<1>3. Inv => NoProviderLost
  BY DEF Inv
<1> QED BY <1>1, <1>2, <1>3, PTL DEF Spec
================================================================================
