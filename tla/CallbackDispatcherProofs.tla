----------------------- MODULE CallbackDispatcherProofs ------------------------
(***************************************************************************)
(* Theorems about CallbackDispatcher, for any callers and any number of    *)
(* callbacks.                                                              *)
(***************************************************************************)
EXTENDS CallbackDispatcher, SequenceTheorems, TLAPS

\* A caller inside dispatch() has a callback to hand over.
HasCallback == \A p \in Callers : pc[p] \in {"wants", "in"} => sent[p] >= 1

\* The wait set holds the run goroutine exactly while it sleeps.
WaitSet == waiting <=> pc[Run] = "asleep"

Inv == TypeOK /\ HasCallback /\ WaitSet /\ NoLostWakeup

LEMMA ProcFacts ==
    /\ Run \in Procs /\ Stopper \in Procs /\ Callers \subseteq Procs /\ Run # Stopper
    /\ Run \notin Callers /\ Stopper \notin Callers
BY CallersAssumption DEF Procs, Run, Stopper

LEMMA InvInit == Init => Inv
<1> SUFFICES ASSUME Init
             PROVE  Inv
  OBVIOUS
<1>1. <<>> \in Seq(Callback)
  OBVIOUS
<1>2. TypeOK
  <2>1. queue \in Seq(Callback) /\ delivered \in Seq(Callback)
    BY <1>1 DEF Init
  <2>2. sent \in [Callers -> 0..MaxDispatch]
    BY CallersAssumption DEF Init
  <2>3. pc \in [Procs -> {"out", "wants", "in", "asleep", "calls", "gone"}]
    BY DEF Init
  <2>4. closed \in BOOLEAN /\ waiting \in BOOLEAN /\ mu \in Procs \cup {"free"}
    BY DEF Init
  <2> QED
    BY <2>1, <2>2, <2>3, <2>4 DEF TypeOK
<1>3. pc[Run] = "wants" /\ \A p \in Callers : pc[p] = "out"
  BY ProcFacts DEF Init
<1> QED
  BY <1>2, <1>3 DEF Init, Inv, HasCallback, WaitSet, NoLostWakeup

LEMMA InvStep == Inv /\ [Next]_vars => Inv'
<1> SUFFICES ASSUME Inv, [Next]_vars
             PROVE  Inv'
  OBVIOUS
<1> USE ProcFacts, CallersAssumption DEF Inv, TypeOK, HasCallback, WaitSet, NoLostWakeup, Goto
<1>1. ASSUME NEW p \in Procs, Lock(p)
      PROVE  Inv'
  BY <1>1 DEF Lock
<1>2. ASSUME NEW p \in Callers, CallDispatch(p)
      PROVE  Inv'
  BY <1>2 DEF CallDispatch
<1>3. ASSUME NEW p \in Callers, DispatchDrops(p)
      PROVE  Inv'
  BY <1>3 DEF DispatchDrops
<1>4. ASSUME NEW p \in Callers, DispatchAppends(p)
      PROVE  Inv'
  <2>1. <<p, sent[p]>> \in Callback
    BY <1>4 DEF DispatchAppends, Callback
  <2>2. queue' \in Seq(Callback)
    BY <1>4, <2>1 DEF DispatchAppends, Enqueue
  <2> QED
    BY <1>4, <2>2 DEF DispatchAppends, Signal
<1>5. CASE CallStop
  BY <1>5 DEF CallStop
<1>6. CASE StopBody
  BY <1>6 DEF StopBody, Signal
<1>7. CASE RunWaits
  BY <1>7 DEF RunWaits
<1>8. CASE RunLeaves
  BY <1>8 DEF RunLeaves
<1>9. CASE RunTakes
  <2>1. queue' \in Seq(Callback) /\ delivered' \in Seq(Callback)
    BY <1>9 DEF RunTakes
  <2> QED
    BY <1>9, <2>1 DEF RunTakes
<1>10. CASE CallbackReturns
  BY <1>10 DEF CallbackReturns
<1>11. CASE Idle \/ UNCHANGED vars
  BY <1>11 DEF Idle, vars
<1> QED
  BY <1>1, <1>2, <1>3, <1>4, <1>5, <1>6, <1>7, <1>8, <1>9, <1>10, <1>11
     DEF Next, CallerStep, StopStep, RunStep

LEMMA InvHolds == Spec => []Inv
BY InvInit, InvStep, PTL DEF Spec

\* Every variable keeps its type.
THEOREM TypeCorrect == Spec => []TypeOK
BY InvHolds, PTL DEF Inv

\* The run goroutine never sleeps through a callback or through stop(), for any
\* number of dispatching goroutines.
THEOREM WakeupsKept == Spec => []NoLostWakeup
BY InvHolds, PTL DEF Inv

--------------------------------------------------------------------------------
(* The dispatcher implements OrderedDelivery (its safety part).               *)

\* Taking the head of a queue and appending it to what came before.
LEMMA TakeHead ==
    ASSUME NEW S, NEW d \in Seq(S), NEW q \in Seq(S), q # <<>>
    PROVE  /\ Len(d) < Len(d \o q)
           /\ (d \o q)[Len(d) + 1] = Head(q)
           /\ Append(d, Head(q)) \o Tail(q) = d \o q
<1>1. Len(q) \in Nat /\ Len(q) >= 1 /\ Len(d) \in Nat
  BY EmptySeq
<1>2. d \o q \in Seq(S) /\ Len(d \o q) = Len(d) + Len(q)
  BY ConcatProperties
<1>3. (d \o q)[Len(d) + 1] = q[1]
  BY <1>1, ConcatProperties
<1>4. Append(d, Head(q)) \o Tail(q) = d \o q
  OBVIOUS
<1> QED
  BY <1>1, <1>2, <1>3, <1>4

LEMMA AppendLast ==
    ASSUME NEW S, NEW d \in Seq(S), NEW q \in Seq(S), NEW e \in S
    PROVE  d \o Append(q, e) = Append(d \o q, e)
OBVIOUS

\* Every behaviour of the dispatcher delivers in order, without loss before the
\* goroutine ends, and accepts nothing after stop().
THEOREM DispatcherRefines == Spec => ImplementsDelivery
<1>1. Init => Delivery!AInit
  BY ProcFacts DEF Init, Delivery!AInit
<1>2. Inv /\ [Next]_vars => [Delivery!ANext]_(Delivery!dvars)
  <2> SUFFICES ASSUME Inv, [Next]_vars
               PROVE  [Delivery!ANext]_(Delivery!dvars)
    OBVIOUS
  <2> USE ProcFacts, CallersAssumption
      DEF Inv, TypeOK, HasCallback, WaitSet, Goto, Delivery!dvars
  <2>1. ASSUME NEW p \in Callers, DispatchAppends(p)
        PROVE  Delivery!ANext
    <3>1. <<p, sent[p]>> \in Callback
      BY <2>1 DEF DispatchAppends, Callback
    <3>2. (delivered \o queue)' = Append(delivered \o queue, <<p, sent[p]>>)
      BY <2>1, <3>1, AppendLast DEF DispatchAppends, Enqueue
    <3>3. (pc[Run] = "gone") = (pc[Run] = "gone")'
      BY <2>1 DEF DispatchAppends, Signal
    <3> QED
      BY <2>1, <3>1, <3>2, <3>3 DEF DispatchAppends, Delivery!ANext, Delivery!Accept
  <2>2. CASE StopBody
    <3>1. (pc[Run] = "gone") = (pc[Run] = "gone")'
      BY <2>2 DEF StopBody, Signal
    <3> QED
      BY <2>2, <3>1 DEF StopBody, Delivery!ANext, Delivery!Finish
  <2>3. CASE RunTakes
    BY <2>3, TakeHead DEF RunTakes, Delivery!ANext, Delivery!Deliver
  <2>4. CASE RunLeaves
    <3>1. delivered = delivered \o queue
      BY <2>4 DEF RunLeaves
    <3> QED
      BY <2>4, <3>1 DEF RunLeaves, Delivery!ANext, Delivery!End
  <2>5. ASSUME NEW p \in Procs, Lock(p)
        PROVE  UNCHANGED Delivery!dvars
    BY <2>5 DEF Lock
  <2>6. ASSUME NEW p \in Callers, CallDispatch(p) \/ DispatchDrops(p)
        PROVE  UNCHANGED Delivery!dvars
    BY <2>6 DEF CallDispatch, DispatchDrops
  <2>7. CASE CallStop \/ RunWaits \/ CallbackReturns \/ Idle \/ UNCHANGED vars
    BY <2>7 DEF CallStop, RunWaits, CallbackReturns, Idle, vars
  <2> QED
    BY <2>1, <2>2, <2>3, <2>4, <2>5, <2>6, <2>7 DEF Next, CallerStep, StopStep, RunStep
<1> QED
  BY <1>1, <1>2, InvHolds, PTL DEF Spec, ImplementsDelivery, Delivery!ASpec
================================================================================
