------------------------------ MODULE ClipRequest ------------------------------
(***************************************************************************)
(* The programs that use one session.  Two send one clip, as both one-shot *)
(* examples do it: the handler of POST /generate                           *)
(* (examples/http-service/main.go) and the main of                         *)
(* examples/single-audio-clip/main.go.  Init, Start, SendAudio, wait for   *)
(* the answer in a collector, respond, Close.  The third is any other: it  *)
(* makes the calls in whatever order and number, as AvatarSession has them. *)
(*                                                                         *)
(* The module composes these programs with AvatarSession, whose variables  *)
(* and actions it extends: a program makes the user's calls, and what      *)
(* the session dispatches (frames, OnError, OnClose) runs the callbacks of *)
(* the collector.  The read loop, the dispatcher's worker, the goroutines  *)
(* of OnClose and the program interleave; a section under the collector's  *)
(* mutex is a step.  The service defers Close and the cancellation of its  *)
(* context on every path; the clip program exits at its first error        *)
(* (log.Fatalf).                                                           *)
(***************************************************************************)
EXTENDS AvatarSession, Sequences

CONSTANT Answer    \* bound: frames of the service's answer; the last one has end set

ASSUME AnswerAssumption == Answer \in Nat \ {0}

VARIABLES
    program,     \* "service" (handleGenerate), "clip" (main) or "other"
    step,        \* where the program is
    response,    \* what its caller got
    arrived,     \* frames of the answer that the read loop has read
    rejected,    \* the server sent an error, or a message that cannot be decoded
    queue,       \* the dispatcher's queue: frames by number, or Error
    worker,      \* the dispatcher's worker: "idle", or about to "finish" the last frame
    closers,     \* per Close that launched OnClose: how far that goroutine is
    frames, last, err,    \* the collector
    done         \* how often its channel was closed

Loop   == 1
Error  == 0
Frames == 1..Answer

callbacks == <<queue, worker, closers>>
collector == <<frames, last, err, done>>
server    == <<arrived, rejected>>
clip      == <<program, step, response, server, callbacks, collector>>
clipVars  == <<vars, clip>>

Programs == {"service", "clip", "other"}

Before == {"check", "init", "start", "starting", "send", "sending"}
Steps  == Before \cup {"wait", "read", "respond", "close", "closing", "cancel", "returned", "exited"}

(* The one type invariant of the module; a channel is closed at most once.  *)
ClipTypeOK ==
    /\ TypeOK
    /\ program \in Programs /\ step \in Steps
    /\ response \in {"none", "refused", "failed", "ok"}
    /\ arrived \in 0..Answer /\ rejected \in BOOLEAN
    /\ queue \in Seq(Frames \cup {Error}) /\ worker \in {"idle", "finish"}
    /\ closers \in [Procs -> {"none", "begin", "last", "early", "gone"}]
    /\ frames \in Seq(Frames) /\ last \in BOOLEAN /\ err \in BOOLEAN
    /\ done \in {0, 1}

ClipInit ==
    /\ Init
    /\ program \in Programs
    /\ step = "check" /\ response = "none"
    /\ arrived = 0 /\ rejected = FALSE
    /\ queue = <<>> /\ worker = "idle" /\ closers = [p \in Procs |-> "none"]
    /\ frames = <<>> /\ last = FALSE /\ err = FALSE /\ done = 0

(* A one-shot program runs.                                                 *)
Live == program # "other" /\ panic = "none" /\ step # "exited"

AtStep(s) == Live /\ step = s

--------------------------------------------------------------------------------
(* The program. *)

Go(s) == step' = s /\ UNCHANGED response

\* Mutation: an error path of the service returns without Close.
GiveUp_NoClose ==
    /\ response' = "failed"
    /\ step' = IF program = "service" THEN "cancel" ELSE "exited"

(* The service answers with an error and returns, the clip program exits.   *)
GiveUp ==
    /\ response' = "failed"
    /\ step' = IF program = "service" THEN "close" ELSE "exited"

(* A malformed request, or audio that cannot be read: no session is made.   *)
CheckRequest ==
    /\ AtStep("check")
    /\ \/ Go("init")
       \/ /\ response' = "refused"
          /\ step' = IF program = "service" THEN "returned" ELSE "exited"
    /\ UNCHANGED <<vars, program, server, callbacks, collector>>

InitReturns ==
    /\ AtStep("init")
    /\ Go("start") \/ GiveUp
    /\ UNCHANGED <<vars, program, server, callbacks, collector>>

(* Start may refuse before it dials. *)
CallsStart ==
    /\ AtStep("start")
    /\ \/ CallStart /\ Go("starting")
       \/ UNCHANGED vars /\ GiveUp
    /\ UNCHANGED <<program, server, callbacks, collector>>

(* SendAudio fails at once when the read loop has closed the session, or    *)
(* when no request id can be made (GenerateLogID).                          *)
CallsSendAudio ==
    /\ AtStep("send")
    /\ \/ CallWrite /\ Go("sending")
       \/ UNCHANGED vars /\ GiveUp
    /\ UNCHANGED <<program, server, callbacks, collector>>

(* Inside Start or SendAudio. *)
InCall ==
    /\ Live /\ step \in {"starting", "sending"}
    /\ UserStep
    /\ pc'[User] # "idle"
    /\ UNCHANGED clip

StartDone ==
    /\ AtStep("starting")
    /\ \/ SpawnReadLoop /\ Go("send")
       \/ (DialFails \/ StartClear) /\ GiveUp
    /\ UNCHANGED <<program, server, callbacks, collector>>

SendDone ==
    /\ AtStep("sending")
    /\ \/ WriteOk(User, "wr_wire", "idle", FALSE) /\ Go("wait")
       \/ WriteFails(User, "wr_wire", "idle") /\ GiveUp
    /\ UNCHANGED <<program, server, callbacks, collector>>

(* wait: a select over the collector's channel and the context, either when *)
(* both are ready, then the error under the mutex.                          *)
WaitSelects ==
    /\ AtStep("wait")
    /\ \/ done > 0 /\ Go("read")
       \/ cancelled[Loop] /\ GiveUp
    /\ UNCHANGED <<vars, program, server, callbacks, collector>>

WaitReads ==
    /\ AtStep("read")
    /\ IF err THEN GiveUp ELSE Go("respond")
    /\ UNCHANGED <<vars, program, server, callbacks, collector>>

(* The frames are copied and the answer is written. *)
Respond ==
    /\ AtStep("respond")
    /\ response' = "ok" /\ step' = "close"
    /\ UNCHANGED <<vars, program, server, callbacks, collector>>

CallsClose ==
    /\ AtStep("close")
    /\ CallClose /\ Go("closing")
    /\ UNCHANGED <<program, server, callbacks, collector>>

(* go s.config.OnClose(), when Close gets there. *)
LaunchOnClose(p) ==
    closers' = IF onClose' = onClose THEN closers ELSE [closers EXCEPT ![p] = "begin"]

(* Inside Close.  The clip program ends with it. *)
Closing ==
    /\ AtStep("closing")
    /\ CloseStep(User)
    /\ LaunchOnClose(User)
    /\ Go(IF pc'[User] # "idle" THEN "closing" ELSE IF program = "service" THEN "cancel" ELSE "exited")
    /\ UNCHANGED <<program, server, queue, worker, collector>>

(* The deferred cancel(): the context is the one Start was given. *)
CancelContext ==
    /\ AtStep("cancel")
    /\ IF local[Loop] # "none" /\ ~cancelled[Loop] THEN Cancel(Loop) ELSE UNCHANGED vars
    /\ Go("returned")
    /\ UNCHANGED <<program, server, callbacks, collector>>

--------------------------------------------------------------------------------
(* The read loop, and what it dispatches. *)

ReadLoop ==
    /\ Live
    /\ LoopStep(Loop)
    /\ queue' = IF reported' = reported THEN queue ELSE Append(queue, Error)
    /\ LaunchOnClose(Loop)
    /\ UNCHANGED <<program, step, response, server, worker, collector>>

(* The server has the audio once it was written, which SendAudio may not    *)
(* have noticed yet.                                                        *)
Asked == step \notin Before \/ pc[User] = "wr_wire"

ReadsFrame ==
    /\ Live /\ Asked /\ arrived < Answer
    /\ LoopFrame(Loop)
    /\ arrived' = arrived + 1
    /\ queue' = Append(queue, arrived')
    /\ UNCHANGED <<program, step, response, rejected, worker, closers, collector>>

(* MESSAGE_SERVER_ERROR, or bytes that are no message. *)
ReadsError ==
    /\ Live /\ ~rejected
    /\ LoopFrame(Loop)
    /\ rejected' = TRUE
    /\ queue' = Append(queue, Error)
    /\ UNCHANGED <<program, step, response, arrived, worker, closers, collector>>

(* Text, or a message of another type. *)
ReadsOther == Live /\ LoopFrame(Loop) /\ UNCHANGED clip

--------------------------------------------------------------------------------
(* The collector's callbacks. *)

\* Mutation: the channel is closed without the Once.
Finish_NoOnce(failed) == err' = (err \/ failed) /\ done' = done + 1

(* finish: an error is kept, and the first call closes the channel. *)
Finish(failed) == err' = (err \/ failed) /\ done' = 1

TransportFrames ==
    /\ Live /\ worker = "idle" /\ queue # <<>> /\ Head(queue) # Error
    /\ frames' = Append(frames, Head(queue))
    /\ last' = (last \/ Head(queue) = Answer)
    /\ queue' = Tail(queue)
    /\ worker' = IF Head(queue) = Answer THEN "finish" ELSE "idle"
    /\ UNCHANGED <<vars, program, step, response, server, closers, err, done>>

LastFrame ==
    /\ Live /\ worker = "finish"
    /\ Finish(FALSE)
    /\ worker' = "idle"
    /\ UNCHANGED <<vars, program, step, response, server, queue, closers, frames, last>>

OnError ==
    /\ Live /\ worker = "idle" /\ queue # <<>> /\ Head(queue) = Error
    /\ Finish(TRUE)
    /\ queue' = Tail(queue)
    /\ UNCHANGED <<vars, program, step, response, server, worker, closers, frames, last>>

\* Mutation: OnClose does not look for the last frame.
OnCloseReads_Assumes(p) ==
    /\ Live /\ closers[p] = "begin"
    /\ closers' = [closers EXCEPT ![p] = "last"]
    /\ UNCHANGED <<vars, program, step, response, server, queue, worker, collector>>

(* onClose: `last` under the mutex, which may be stale when finish runs. *)
OnCloseReads(p) ==
    /\ Live /\ closers[p] = "begin"
    /\ closers' = [closers EXCEPT ![p] = IF last THEN "last" ELSE "early"]
    /\ UNCHANGED <<vars, program, step, response, server, queue, worker, collector>>

OnCloseFinishes(p) ==
    /\ Live /\ closers[p] \in {"last", "early"}
    /\ Finish(closers[p] = "early")
    /\ closers' = [closers EXCEPT ![p] = "gone"]
    /\ UNCHANGED <<vars, program, step, response, server, queue, worker, frames, last>>

--------------------------------------------------------------------------------
(* What others do: the server and the network; the timeout of the context,  *)
(* or the client of the service going away.                                 *)

Connects == /\ Live
            /\ DialSucceeds \/ AwaitConfirmed \/ AwaitRejected
            /\ UNCHANGED clip

ServerLeaves == Live /\ PeerLeaves(Loop) /\ UNCHANGED clip

ContextDone == Live /\ step # "returned" /\ Cancel(Loop) /\ UNCHANGED clip

--------------------------------------------------------------------------------
Program ==
    \/ CheckRequest \/ InitReturns \/ CallsStart \/ CallsSendAudio \/ InCall
    \/ StartDone \/ SendDone \/ WaitSelects \/ WaitReads \/ Respond
    \/ CallsClose \/ Closing \/ CancelContext

Worker == TransportFrames \/ LastFrame \/ OnError

OnClose(p) == OnCloseReads(p) \/ OnCloseFinishes(p)

OneShot ==
    \/ Program \/ ReadLoop \/ Worker
    \/ ReadsFrame \/ ReadsError \/ ReadsOther
    \/ \E p \in Procs : OnClose(p)
    \/ Connects \/ ServerLeaves \/ ContextDone

(* Any other program's session.                                             *)
Other(A) == program = "other" /\ A /\ UNCHANGED clip

ClipNext == OneShot \/ Other(Next)

(* Goroutines are scheduled, and the context has a timeout of 45 seconds.   *)
(* A write has none, and takes no context: it ends unless the server blocks *)
(* it.                                                                      *)
ClipFairness ==
    /\ WF_clipVars(~Blocked(User) /\ (Program \/ Other(UserStep)))
    /\ \A i \in Loops : WF_clipVars(~Blocked(i) /\ ((i = Loop /\ ReadLoop) \/ Other(LoopStep(i))))
    /\ WF_clipVars(Worker) /\ WF_clipVars(ContextDone)
    /\ \A p \in {User, Loop} : WF_clipVars(OnClose(p))

ClipSpec == ClipInit /\ [][ClipNext]_clipVars /\ ClipFairness

--------------------------------------------------------------------------------
(* A caller that is told of success gets the whole answer, in the order of  *)
(* the server, the last frame included: neither a Close of the read loop    *)
(* nor its OnClose ends a request early without an error.                   *)
SuccessIsComplete ==
    [][response # "ok" /\ response' = "ok" => frames = [i \in Frames |-> i]]_clipVars

(* SendAudio fails although there is a connection: no request id was made.  *)
NoRequestId == step = "send" /\ conn # nil

(* Once the session is up, a request fails only because its context ended,  *)
(* the connection ended, the server sent an error, or no request id could   *)
(* be made: nothing else that the SDK or the program does on its own fails  *)
(* it, its handshake and its cleanup included.                              *)
FailureHasCause ==
    [][response # "failed" /\ response' = "failed" /\ step \in {"send", "sending", "wait", "read"}
         => cancelled[Loop] \/ peer[Loop] # "up" \/ rejected \/ NoRequestId]_clipVars

Over ==
    \/ step = "exited"
    \/ /\ step = "returned" /\ response # "none"
       /\ local[Loop] # "open" /\ pc[Loop] \in {"off", "done"} /\ queue = <<>>

(* The two ways in which a program gets no answer, or never returns: its    *)
(* SendAudio or Close, or the handshake of its Start, writes to a server    *)
(* that does not read, for good, because no timeout or context ends a       *)
(* write; or the read loop of a broken connection clears s.conn under it,   *)
(* and it panics.                                                           *)
Unanswered == Blocked(User) \/ (panic # "none" /\ reported[Loop])

(* Every request but those is answered, whatever the server does, and a     *)
(* service that has answered is left with no socket, no read loop and no    *)
(* callback of it.                                                          *)
RequestEnds == program # "other" => <>[](Over \/ Unanswered)

(* What the session promises the other programs, which do not exit.         *)
OtherCallsReturn == program = "other" => CallsReturn
OtherBreakReported == program = "other" => BreakReported
================================================================================
