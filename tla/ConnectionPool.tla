----------------------------- MODULE ConnectionPool ----------------------------
(***************************************************************************)
(* The connection pool example (examples/connection-pool/main.go): workers *)
(* borrow a connected session, send one audio request, wait for its frames *)
(* in the session's AnimationCollector and return the session, while       *)
(* connections break and the application closes the pool.                  *)
(*                                                                         *)
(* Every worker, every read loop, every callback and the closing           *)
(* application interleave.  A step is a locked section, or one access to a *)
(* field that the code reads or writes without the lock.                   *)
(* The session is reduced to what the pool sees of it: the read loop, the  *)
(* queue of callbacks and Close (AvatarSession and CallbackDispatcher have *)
(* the rest); the server works on the requests of a connection in order.   *)
(***************************************************************************)
EXTENDS Naturals, Sequences, FiniteSets, SequencesExt

CONSTANTS
    Workers,       \* goroutines that run processAudioRequest
    Connections,   \* the sessions Initialize tries to connect
    MaxReqs,       \* bound: audio requests sent
    MaxFrames,     \* bound: frames of a request before the last one
    MaxBreaks      \* bound: connections that break while the pool uses them

ASSUME PoolAssumption ==
    /\ MaxReqs \in Nat /\ MaxFrames \in Nat
    /\ MaxBreaks \in Nat
    /\ IsFiniteSet(Connections) /\ "none" \notin Connections

VARIABLES
    available,   \* p.available: the connections in the channel, oldest first
    channel,     \* "open" or "closed"
    pool,        \* where initialized and closing are: "new", "ready", "closing"
                 \* (Close has set the flag), "draining" or "closed"
    all,         \* p.allConnections
    collector,   \* per connection: frames, last, err, done (a channel), once, and
                 \* lock: the mutex inside of once is held
    queue,       \* per connection: callbacks not yet run
    session,     \* per connection: s.conn is set
    stage,       \* per connection and caller: where in its callback it is
    reader,      \* per connection: its read loop: "run", "closing", "ended", or
                 \* "silent" (ended, and its Close started no OnClose)
    pending,     \* per connection: requests the server still works on
    sent,        \* per connection: frames of the first of them so far
    pc,          \* per worker: where it is
    conn,        \* per worker: the connection it holds, or none
    req,         \* per worker: its request, or 0
    reqs,        \* requests so far
    success,     \* per worker: its request succeeded, until it calls Return
    cancelled,   \* history: connections that a cancelled request gave back
    rushed,      \* history: Close was called while a request was being processed
    panicked     \* the panic that ended the program, or "no"

pools    == <<available, channel, pool, all>>
sessions == <<queue, session, stage, reader, pending, sent>>
workers  == <<pc, conn, req, reqs, success>>
history  == <<cancelled, rushed>>
vars     == <<pools, collector, sessions, workers, history, panicked>>

none  == "none"
Fresh == [frames |-> <<>>, last |-> FALSE, err |-> FALSE, done |-> "open",
          once |-> "fresh", lock |-> FALSE]

Frame(r, last) == [kind |-> "frame", req |-> r, last |-> last]
Error          == [kind |-> "error", req |-> 0, last |-> FALSE]

Frames     == [kind : {"frame", "error"}, req : 0..MaxReqs, last : BOOLEAN]
Collectors == [frames : Seq(0..MaxReqs), last : BOOLEAN, err : BOOLEAN,
               done : {"open", "closed"}, once : {"fresh", "spent"}, lock : BOOLEAN]

\* Who runs callbacks of a session: the worker of its dispatcher, and the OnClose
\* goroutines that its read loop's Close and the pool's Close start.
Callers  == {"dispatcher", "reader", "pool"}
Finishes == {"set", "begin", "ask", "fail", "do", "close"}   \* done is still to be closed
Stages   == {"none", "release"} \cup Finishes

PCs == {"idle", "borrow", "clear", "done", "once", "send", "wait", "read", "return", "push"}

(* The one type invariant of the module. *)
TypeOK ==
    /\ available \in Seq(Connections) /\ channel \in {"open", "closed"}
    /\ pool \in {"new", "ready", "closing", "draining", "closed"} /\ all \subseteq Connections
    /\ collector \in [Connections -> Collectors]
    /\ queue \in [Connections -> Seq(Frames)]
    /\ session \in [Connections -> BOOLEAN] /\ stage \in [Connections -> [Callers -> Stages]]
    /\ reader \in [Connections -> {"run", "closing", "ended", "silent"}]
    /\ pending \in [Connections -> Seq(1..MaxReqs)] /\ sent \in [Connections -> 0..MaxFrames]
    /\ pc \in [Workers -> PCs] /\ conn \in [Workers -> Connections \cup {none}]
    /\ reqs \in 0..MaxReqs /\ req \in [Workers -> 0..MaxReqs]
    /\ success \in [Workers -> BOOLEAN]
    /\ cancelled \subseteq Connections /\ rushed \in BOOLEAN
    /\ panicked \in {"no", "close of closed", "unlock of unlocked", "send on closed", "nil connection"}

Init ==
    /\ available = <<>> /\ channel = "open" /\ pool = "new" /\ all = {}
    /\ collector = [c \in Connections |-> Fresh]
    /\ queue = [c \in Connections |-> <<>>]
    /\ session = [c \in Connections |-> FALSE] /\ reader = [c \in Connections |-> "ended"]
    /\ stage = [c \in Connections |-> [k \in Callers |-> "none"]]
    /\ pending = [c \in Connections |-> <<>>] /\ sent = [c \in Connections |-> 0]
    /\ pc = [w \in Workers |-> "idle"] /\ conn = [w \in Workers |-> none]
    /\ req = [w \in Workers |-> 0] /\ reqs = 0
    /\ success = [w \in Workers |-> FALSE]
    /\ cancelled = {} /\ rushed = FALSE /\ panicked = "no"

--------------------------------------------------------------------------------
\* Mutation: a connection that failed is added.
Initialize_AppendsFailed ==
    /\ pool = "new"
    /\ \E made \in SUBSET Connections \ {{}} :
         /\ all' = made
         /\ available' = Append(SetToSeq(made), none)
         /\ session' = [c \in Connections |-> c \in made]
         /\ reader' = [c \in Connections |-> IF c \in made THEN "run" ELSE "ended"]
    /\ pool' = "ready"
    /\ UNCHANGED <<channel, collector, queue, stage, pending, sent, workers, history, panicked>>

(* The pool starts: the connections that could be made are available.       *)
Initialize ==
    /\ pool = "new"
    /\ \E made \in SUBSET Connections \ {{}} :
         /\ all' = made
         /\ available' = SetToSeq(made)
         /\ session' = [c \in Connections |-> c \in made]
         /\ reader' = [c \in Connections |-> IF c \in made THEN "run" ELSE "ended"]
    /\ pool' = "ready"
    /\ UNCHANGED <<channel, collector, queue, stage, pending, sent, workers, history, panicked>>

--------------------------------------------------------------------------------
(* The collector's callbacks.  Only frames, last and err have the lock of   *)
(* the collector: err is also read without it, done and once always are,    *)
(* and reset takes part in all of this.                                     *)

(* A panic of any goroutine, or a fatal error, ends the program. *)
Running     == panicked = "no"
Panic(what) == panicked' = what

Stage(c, k, from, to) ==
    Running /\ stage[c][k] = from /\ stage' = [stage EXCEPT ![c][k] = to]

ByCallback == UNCHANGED <<pools, queue, session, reader, pending, sent, workers, history>>

(* The dispatcher's worker takes the next callback: transportFrame's append *)
(* under the lock, or onError's look at err.                                *)
Deliver(c) ==
    /\ queue[c] # <<>>
    /\ LET f == Head(queue[c]) IN
         \/ /\ f.kind = "frame" /\ Stage(c, "dispatcher", "none", IF f.last THEN "do" ELSE "none")
            /\ collector' = [collector EXCEPT ![c].frames = Append(@, f.req), ![c].last = @ \/ f.last]
         \/ /\ f.kind = "error"
            /\ Stage(c, "dispatcher", "none", IF collector[c].err THEN "do" ELSE "set")
            /\ UNCHANGED collector
    /\ queue' = [queue EXCEPT ![c] = Tail(@)]
    /\ UNCHANGED <<pools, session, reader, pending, sent, workers, history, panicked>>

(* onError found no error. *)
OnErrorSets(c) ==
    /\ Stage(c, "dispatcher", "set", "do")
    /\ collector' = [collector EXCEPT ![c].err = TRUE]
    /\ ByCallback /\ UNCHANGED panicked

(* onClose looks at last under the lock, and then at err without it. *)
OnCloseRuns(c, k) ==
    /\ Stage(c, k, "begin", IF collector[c].last THEN "do" ELSE "ask")
    /\ ByCallback /\ UNCHANGED <<collector, panicked>>

OnCloseAsks(c, k) ==
    /\ Stage(c, k, "ask", IF collector[c].err THEN "do" ELSE "fail")
    /\ ByCallback /\ UNCHANGED <<collector, panicked>>

(* finish, given an error: the first one is kept. *)
FinishSets(c, k) ==
    /\ Stage(c, k, "fail", "do")
    /\ collector' = [collector EXCEPT ![c].err = TRUE]
    /\ ByCallback /\ UNCHANGED panicked

(* Once.Do: nothing, if the function has run, or else under the mutex of the *)
(* Once close(done), which panics if done is closed.                        *)
FinishDone(c, k) ==
    /\ collector[c].once = "spent"
    /\ Stage(c, k, "do", "none")
    /\ ByCallback /\ UNCHANGED <<collector, panicked>>

Finish(c, k) ==
    /\ collector[c].once = "fresh" /\ ~collector[c].lock
    /\ Stage(c, k, "do", "close")
    /\ collector' = [collector EXCEPT ![c].lock = TRUE]
    /\ ByCallback /\ UNCHANGED panicked

FinishCloses(c, k) ==
    /\ Stage(c, k, "close", "release")
    /\ IF collector[c].done = "closed"
       THEN Panic("close of closed") /\ UNCHANGED collector
       ELSE collector' = [collector EXCEPT ![c].done = "closed"] /\ UNCHANGED panicked
    /\ ByCallback

(* Do marks the Once and unlocks its mutex: a fatal error, if reset has put  *)
(* a new Once in its place meanwhile.                                       *)
FinishUnlocks(c, k) ==
    /\ Stage(c, k, "release", "none")
    /\ IF collector[c].lock
       THEN /\ collector' = [collector EXCEPT ![c].once = "spent", ![c].lock = FALSE]
            /\ UNCHANGED panicked
       ELSE Panic("unlock of unlocked") /\ UNCHANGED collector
    /\ ByCallback

(* A callback that runs, and the goroutine that runs it. *)
Callback(c) ==
    \/ OnErrorSets(c)
    \/ \E k \in Callers :
          \/ OnCloseRuns(c, k) \/ OnCloseAsks(c, k) \/ FinishSets(c, k)
          \/ FinishDone(c, k) \/ Finish(c, k) \/ FinishCloses(c, k) \/ FinishUnlocks(c, k)

--------------------------------------------------------------------------------
(* The server and the read loop of a connection. *)

ServerFrame(c) ==
    /\ Running
    /\ reader[c] = "run" /\ pending[c] # <<>> /\ sent[c] < MaxFrames
    /\ sent' = [sent EXCEPT ![c] = @ + 1]
    /\ queue' = [queue EXCEPT ![c] = Append(@, Frame(Head(pending[c]), FALSE))]
    /\ UNCHANGED <<pools, collector, session, stage, reader, pending, workers, history, panicked>>

(* The last frame, or an error message for the request. *)
ServerEnds(c) ==
    /\ Running
    /\ reader[c] = "run" /\ pending[c] # <<>>
    /\ \E f \in {Frame(Head(pending[c]), TRUE), Error} : queue' = [queue EXCEPT ![c] = Append(@, f)]
    /\ pending' = [pending EXCEPT ![c] = Tail(@)]
    /\ sent' = [sent EXCEPT ![c] = 0]
    /\ UNCHANGED <<pools, collector, session, stage, reader, workers, history, panicked>>

(* The connection breaks, or was closed: OnError is queued, and the read    *)
(* loop closes the session.                                                 *)
Breaks(c) ==
    /\ Running
    /\ reader[c] = "run" /\ (~session[c] \/ Cardinality({ d \in all : reader[d] # "run" }) < MaxBreaks)
    /\ reader' = [reader EXCEPT ![c] = "closing"]
    /\ queue' = [queue EXCEPT ![c] = Append(@, Error)]
    /\ pending' = [pending EXCEPT ![c] = <<>>] /\ sent' = [sent EXCEPT ![c] = 0]
    /\ UNCHANGED <<pools, collector, session, stage, workers, history, panicked>>

(* AvatarSession.Close starts a goroutine for OnClose, unless the close      *)
(* message cannot be written.                                               *)
SessionClose(c, k) ==
    /\ session' = [session EXCEPT ![c] = FALSE]
    /\ \/ stage' = [stage EXCEPT ![c][k] = "begin"]
       \/ session[c] /\ UNCHANGED stage

ReaderCloses(c) ==
    /\ Running
    /\ reader[c] = "closing"
    /\ SessionClose(c, "reader")
    /\ reader' = [reader EXCEPT ![c] = IF stage'[c]["reader"] = "none" THEN "silent" ELSE "ended"]
    /\ UNCHANGED <<pools, collector, queue, pending, sent, workers, history, panicked>>

--------------------------------------------------------------------------------
(* One audio request of a worker. *)

At(w, from, to) == Running /\ pc[w] = from /\ pc' = [pc EXCEPT ![w] = to]

Returned(w) ==
    /\ conn' = [conn EXCEPT ![w] = none]
    /\ req' = [req EXCEPT ![w] = 0]

(* Borrow: the two flags under the mutex, then the select. *)
Borrow(w) ==
    /\ At(w, "idle", "borrow")
    /\ pool = "ready"
    /\ UNCHANGED <<pools, collector, sessions, conn, req, reqs, success, history, panicked>>

\* Mutation: the connection stays in the channel.
Receive_Peeks(w) ==
    /\ At(w, "borrow", "clear")
    /\ available # <<>>
    /\ conn' = [conn EXCEPT ![w] = Head(available)]
    /\ UNCHANGED <<pools, collector, sessions, req, reqs, success, history, panicked>>

Receive(w) ==
    /\ At(w, "borrow", "clear")
    /\ available # <<>>
    /\ conn' = [conn EXCEPT ![w] = Head(available)]
    /\ available' = Tail(available)
    /\ UNCHANGED <<channel, pool, all, collector, sessions, req, reqs, success, history, panicked>>

(* A closed and drained channel yields nil, whose collector is dereferenced. *)
ReceiveNil(w) ==
    /\ At(w, "borrow", "idle")
    /\ available = <<>> /\ channel = "closed"
    /\ Panic("nil connection")
    /\ UNCHANGED <<pools, collector, sessions, conn, req, reqs, success, history>>

BorrowTimeout(w) ==
    /\ At(w, "borrow", "idle")
    /\ UNCHANGED <<pools, collector, sessions, conn, req, reqs, success, history, panicked>>

\* Mutation: the frames are kept.
Reset1_KeepsFrames(w) ==
    /\ At(w, "clear", "done")
    /\ collector' = [collector EXCEPT ![conn[w]].last = FALSE, ![conn[w]].err = FALSE]
    /\ UNCHANGED <<pools, sessions, conn, req, reqs, success, history, panicked>>

(* reset: the fields under the mutex, then the channel, then the Once with   *)
(* the mutex inside of it.                                                  *)
Reset1(w) ==
    /\ At(w, "clear", "done")
    /\ collector' = [collector EXCEPT ![conn[w]].frames = <<>>, ![conn[w]].last = FALSE, ![conn[w]].err = FALSE]
    /\ UNCHANGED <<pools, sessions, conn, req, reqs, success, history, panicked>>

Reset2(w) ==
    /\ At(w, "done", "once")
    /\ collector' = [collector EXCEPT ![conn[w]].done = "open"]
    /\ UNCHANGED <<pools, sessions, conn, req, reqs, success, history, panicked>>

\* Mutation: the Once is kept.
Reset3_KeepsOnce(w) ==
    /\ At(w, "once", "send")
    /\ UNCHANGED <<pools, collector, sessions, conn, req, reqs, success, history, panicked>>

Reset3(w) ==
    /\ At(w, "once", "send")
    /\ collector' = [collector EXCEPT ![conn[w]].once = "fresh", ![conn[w]].lock = FALSE]
    /\ UNCHANGED <<pools, sessions, conn, req, reqs, success, history, panicked>>

(* Written to a connection that may already be broken. *)
SendAudio(w) ==
    /\ At(w, "send", "wait")
    /\ session[conn[w]] /\ reqs < MaxReqs
    /\ reqs' = reqs + 1
    /\ req' = [req EXCEPT ![w] = reqs']
    /\ pending' = [pending EXCEPT ![conn[w]] =
                      IF reader[conn[w]] = "run" THEN Append(@, reqs') ELSE @]
    /\ UNCHANGED <<pools, collector, queue, session, stage, reader, sent, conn, success, history, panicked>>

SendFails(w) ==
    /\ At(w, "send", "return")
    /\ ~session[conn[w]] \/ reader[conn[w]] # "run" \/ reqs = MaxReqs
    /\ UNCHANGED <<pools, collector, sessions, conn, req, reqs, success, history, panicked>>

(* wait: the select, and then err under the lock. *)
Wait(w) ==
    /\ At(w, "wait", "read")
    /\ collector[conn[w]].done = "closed"
    /\ UNCHANGED <<pools, collector, sessions, conn, req, reqs, success, history, panicked>>

WaitReads(w) ==
    /\ At(w, "read", "return")
    /\ success' = [success EXCEPT ![w] = ~collector[conn[w]].err]
    /\ UNCHANGED <<pools, collector, sessions, conn, req, reqs, history, panicked>>

WaitCancelled(w) ==
    /\ At(w, "wait", "return")
    /\ cancelled' = cancelled \cup {conn[w]}
    /\ UNCHANGED <<pools, collector, sessions, conn, req, reqs, success, rushed, panicked>>

(* Return: dropped when the pool is closing, else sent to the channel. *)
Return(w) ==
    /\ \/ pool \in {"new", "ready"} /\ At(w, "return", "push") /\ UNCHANGED <<conn, req>>
       \/ pool \notin {"new", "ready"} /\ At(w, "return", "idle") /\ Returned(w)
    /\ success' = [success EXCEPT ![w] = FALSE]
    /\ UNCHANGED <<pools, collector, sessions, reqs, history, panicked>>

Push(w) ==
    /\ At(w, "push", "idle")
    /\ Len(available) < Cardinality(Connections) \/ channel = "closed"
    /\ Returned(w)
    /\ IF channel = "open"
       THEN available' = Append(available, conn[w]) /\ UNCHANGED panicked
       ELSE Panic("send on closed") /\ UNCHANGED available
    /\ UNCHANGED <<channel, pool, all, collector, sessions, reqs, success, history>>

--------------------------------------------------------------------------------
(* Close: the flag and the list under the mutex, one session after the      *)
(* other, then the channel.                                                 *)

StartClose ==
    /\ Running
    /\ pool = "ready"
    /\ pool' = "closing"
    /\ rushed' = \E w \in Workers : pc[w] # "idle"
    /\ UNCHANGED <<available, channel, all, collector, sessions, workers, cancelled, panicked>>

CloseConnection ==
    /\ Running
    /\ pool = "closing"
    /\ \E c \in all : SessionClose(c, "pool") /\ all' = all \ {c}
    /\ UNCHANGED <<available, channel, pool, collector, queue, reader, pending, sent, workers, history, panicked>>

CloseChannel ==
    /\ Running
    /\ pool = "closing" /\ all = {}
    /\ channel' = "closed"
    /\ pool' = "draining"
    /\ UNCHANGED <<available, all, collector, sessions, workers, history, panicked>>

Drain ==
    /\ Running
    /\ pool = "draining"
    /\ IF available # <<>>
       THEN available' = Tail(available) /\ UNCHANGED pool
       ELSE pool' = "closed" /\ UNCHANGED available
    /\ UNCHANGED <<channel, all, collector, sessions, workers, history, panicked>>

Close == CloseConnection \/ CloseChannel \/ Drain

WorkerStep(w) ==
    \/ Receive(w) \/ ReceiveNil(w) \/ BorrowTimeout(w) \/ Reset1(w) \/ Reset2(w) \/ Reset3(w)
    \/ SendAudio(w) \/ SendFails(w) \/ Wait(w) \/ WaitReads(w) \/ Return(w) \/ Push(w)

ConnectionStep(c) ==
    \/ Deliver(c) \/ Callback(c)
    \/ ServerFrame(c) \/ ServerEnds(c) \/ Breaks(c) \/ ReaderCloses(c)

(* Any program that uses the pool. *)
UserNext ==
    \/ Initialize \/ StartClose \/ Close
    \/ \E w \in Workers : Borrow(w) \/ WorkerStep(w) \/ WaitCancelled(w)

Next == UserNext \/ \E c \in Connections : ConnectionStep(c)

Spec == Init /\ [][Next]_vars

--------------------------------------------------------------------------------
(* What the pool promises. *)

(* A connection serves one request at a time: it is in the channel at most  *)
(* once, and not while a worker has it.  And until the pool is closed, no   *)
(* request, however it fails, loses its connection.                         *)
Exclusive ==
    /\ IsInjective(available)
    /\ \A w \in Workers : conn[w] # none =>
          /\ conn[w] \notin Range(available)
          /\ \A v \in Workers : conn[v] = conn[w] => v = w
    /\ pool = "ready" => all \subseteq Range(available) \cup Range(conn)

(* A request that succeeded returns all of its frames and no other ones, or  *)
(* none at all: reset, while it clears the error of a break, lets through   *)
(* the callback that was to report it.  This holds of a connection that no  *)
(* cancelled request gave back while the server was still answering it.     *)
OwnFrames ==
    \A w \in Workers :
        LET c == conn[w] IN
        pc[w] = "return" /\ success[w] /\ c \notin cancelled =>
            \/ collector[c].last /\ Range(collector[c].frames) = {req[w]}
            \/ collector[c].frames = <<>> /\ reader[c] # "run"

(* No wake-up of a waiting request is lost, whatever steps of callbacks came *)
(* between the steps of reset: done is closed, or what closes it is still to *)
(* come from the server, from the queue of callbacks or from a callback that *)
(* runs.  Only the read loop's Close can fail to bring it: when its close   *)
(* message cannot be written, it starts no OnClose.                         *)
WaitersWoken ==
    \A w \in Workers :
        LET c == conn[w] IN
        pc[w] = "wait" /\ Running /\ reader[c] \notin {"closing", "silent"} =>
            \/ collector[c].done = "closed"
            \/ reader[c] = "run" /\ req[w] \in Range(pending[c])
            \/ \E i \in DOMAIN queue[c] : queue[c][i].last \/ queue[c][i].kind = "error"
            \/ \E k \in Callers : stage[c][k] \in Finishes
================================================================================
