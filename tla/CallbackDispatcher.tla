--------------------------- MODULE CallbackDispatcher --------------------------
(***************************************************************************)
(* The callbackDispatcher of a read loop (avatar_session.go): a queue      *)
(* guarded by a mutex and a condition variable, filled by dispatch(),      *)
(* ended by stop(), and emptied by one goroutine that runs the callbacks   *)
(* outside the lock.                                                       *)
(*                                                                         *)
(* Code between Lock and Unlock is one step; taking the lock is a step of  *)
(* its own.  Callers may dispatch from several goroutines and stop at any  *)
(* time (the read loop is one caller, and stops last).                     *)
(***************************************************************************)
EXTENDS Naturals, Sequences

CONSTANTS
    Callers,      \* goroutines that dispatch callbacks
    MaxDispatch   \* bound: callbacks dispatched by each caller

ASSUME CallersAssumption == MaxDispatch \in Nat /\ "run" \notin Callers /\ "stopper" \notin Callers

VARIABLES
    mu,         \* holder of d.mu, or "free"
    queue,      \* d.queue
    closed,     \* d.closed
    waiting,    \* the run goroutine is in the wait set of d.cond
    pc,         \* process -> control point
    sent,       \* caller -> dispatch calls begun
    delivered   \* callbacks invoked by the run goroutine, in order

vars == <<mu, queue, closed, waiting, pc, sent, delivered>>

Callback == Callers \X (1..MaxDispatch)
Run      == "run"
Stopper  == "stopper"
Procs    == Callers \cup {Run, Stopper}

TypeOK ==
    /\ mu \in Procs \cup {"free"}
    /\ queue \in Seq(Callback)
    /\ closed \in BOOLEAN
    /\ waiting \in BOOLEAN
    /\ pc \in [Procs -> {"out", "wants", "in", "asleep", "calls", "gone"}]
    /\ sent \in [Callers -> 0..MaxDispatch]
    /\ delivered \in Seq(Callback)

Init ==
    /\ mu = "free"
    /\ queue = <<>>
    /\ closed = FALSE
    /\ waiting = FALSE
    /\ pc = [p \in Procs |-> IF p = Run THEN "wants" ELSE "out"]
    /\ sent = [p \in Callers |-> 0]
    /\ delivered = <<>>

--------------------------------------------------------------------------------

Goto(p, label) == pc' = [pc EXCEPT ![p] = label]

\* d.mu.Lock() returns
Lock(p) ==
    /\ pc[p] = "wants"
    /\ mu = "free"
    /\ mu' = p
    /\ Goto(p, "in")
    /\ UNCHANGED <<queue, closed, waiting, sent, delivered>>

\* d.cond.Signal(): the run goroutine, if it waits, has to take the lock again.
Signal(others) ==
    IF waiting
      THEN waiting' = FALSE /\ pc' = [others EXCEPT ![Run] = "wants"]
      ELSE waiting' = FALSE /\ pc' = others

CallDispatch(p) ==
    /\ pc[p] = "out"
    /\ sent[p] < MaxDispatch
    /\ sent' = [sent EXCEPT ![p] = @ + 1]
    /\ Goto(p, "wants")
    /\ UNCHANGED <<mu, queue, closed, waiting, delivered>>

\* Mutation: the closure captures a variable of the loop, not the message.
Enqueue_Shared(cb) == queue' = Append(queue, <<cb[1], cb[2] + 1>>)

Enqueue(cb) == queue' = Append(queue, cb)

\* dispatch() under the lock: drop after stop, else append and signal.
DispatchDrops(p) ==
    /\ pc[p] = "in"
    /\ closed
    /\ mu' = "free"
    /\ Goto(p, "out")
    /\ UNCHANGED <<queue, closed, waiting, sent, delivered>>

\* Mutation: no signal.
DispatchAppends_Silent(p) ==
    /\ pc[p] = "in"
    /\ ~closed
    /\ Enqueue(<<p, sent[p]>>)
    /\ mu' = "free"
    /\ Goto(p, "out")
    /\ UNCHANGED <<closed, waiting, sent, delivered>>

DispatchAppends(p) ==
    /\ pc[p] = "in"
    /\ ~closed
    /\ Enqueue(<<p, sent[p]>>)
    /\ mu' = "free"
    /\ Signal([pc EXCEPT ![p] = "out"])
    /\ UNCHANGED <<closed, sent, delivered>>

CallStop ==
    /\ pc[Stopper] = "out"
    /\ Goto(Stopper, "wants")
    /\ UNCHANGED <<mu, queue, closed, waiting, sent, delivered>>

\* stop() under the lock
StopBody ==
    /\ pc[Stopper] = "in"
    /\ closed' = TRUE
    /\ mu' = "free"
    /\ Signal([pc EXCEPT ![Stopper] = "gone"])
    /\ UNCHANGED <<queue, sent, delivered>>

--------------------------------------------------------------------------------
(* run(): with the lock held, wait, leave, or take the next callback.         *)

\* d.cond.Wait() joins the wait set before it releases the lock.
RunWaits ==
    /\ pc[Run] = "in"
    /\ queue = <<>> /\ ~closed
    /\ waiting' = TRUE
    /\ mu' = "free"
    /\ Goto(Run, "asleep")
    /\ UNCHANGED <<queue, closed, sent, delivered>>

\* Mutation: leave as soon as closed, without draining.
RunLeaves_Early ==
    /\ pc[Run] = "in"
    /\ closed
    /\ mu' = "free"
    /\ Goto(Run, "gone")
    /\ UNCHANGED <<queue, closed, waiting, sent, delivered>>

RunLeaves ==
    /\ pc[Run] = "in"
    /\ queue = <<>> /\ closed
    /\ mu' = "free"
    /\ Goto(Run, "gone")
    /\ UNCHANGED <<queue, closed, waiting, sent, delivered>>

\* Mutation: the callback runs with the lock held.
RunTakes_Locked ==
    /\ pc[Run] = "in"
    /\ queue # <<>>
    /\ queue' = Tail(queue)
    /\ delivered' = Append(delivered, Head(queue))
    /\ Goto(Run, "calls")
    /\ UNCHANGED <<mu, closed, waiting, sent>>

\* Take the first callback, unlock, and call it.
RunTakes ==
    /\ pc[Run] = "in"
    /\ queue # <<>>
    /\ queue' = Tail(queue)
    /\ delivered' = Append(delivered, Head(queue))
    /\ mu' = "free"
    /\ Goto(Run, "calls")
    /\ UNCHANGED <<closed, waiting, sent>>

\* The callback returns.
CallbackReturns ==
    /\ pc[Run] = "calls"
    /\ Goto(Run, "wants")
    /\ UNCHANGED <<mu, queue, closed, waiting, sent, delivered>>

--------------------------------------------------------------------------------

RunStep    == Lock(Run) \/ RunWaits \/ RunLeaves \/ RunTakes \/ CallbackReturns
CallerStep(p) == Lock(p) \/ DispatchDrops(p) \/ DispatchAppends(p)
StopStep   == Lock(Stopper) \/ StopBody

\* Nothing left to do: every caller may stop calling for good.
Idle == (\A p \in Callers : pc[p] = "out") /\ UNCHANGED vars

Next ==
    \/ \E p \in Callers : CallDispatch(p) \/ CallerStep(p)
    \/ CallStop \/ StopStep
    \/ RunStep
    \/ Idle

Spec == Init /\ [][Next]_vars

\* Goroutines are scheduled and Go's mutex does not starve a waiter.  Nobody has
\* to dispatch or stop, and a callback may never return.
Scheduling ==
    /\ WF_vars(RunWaits \/ RunLeaves \/ RunTakes) /\ SF_vars(Lock(Run))
    /\ WF_vars(StopBody) /\ SF_vars(Lock(Stopper))
    /\ \A p \in Callers : WF_vars(DispatchDrops(p) \/ DispatchAppends(p)) /\ SF_vars(Lock(p))

FairSpec == Spec /\ Scheduling

--------------------------------------------------------------------------------
(* Properties.                                                                *)

\* No wake-up is lost: the run goroutine sleeps only while there is nothing to
\* run and the dispatcher is open.
NoLostWakeup == pc[Run] = "asleep" => waiting /\ queue = <<>> /\ ~closed

\* dispatch() and stop() return even when a callback never does: a stuck user
\* callback cannot stall the read loop.
CallersReturn == \A p \in Callers \cup {Stopper} : pc[p] = "wants" ~> pc[p] \in {"out", "gone"}

\* The dispatcher delivers as OrderedDelivery promises: run() hands out what
\* dispatch() accepted, once and in order, and returns when nothing is left.
Delivery == INSTANCE OrderedDelivery WITH
    accepted  <- delivered \o queue,
    delivered <- delivered,
    open      <- ~closed,
    ended     <- pc[Run] = "gone"

ImplementsDelivery == Delivery!ASpec

\* The assumption of the property below: the user's callbacks return.
CallbacksReturn == WF_vars(CallbackReturns)

\* Every accepted callback is run in the end, also after stop(), and the goroutine
\* ends once it is stopped and the queue is drained.
DeliveryGoesOn == CallbacksReturn => Delivery!AFairness
================================================================================
