----------------------------- MODULE AvatarSession -----------------------------
(***************************************************************************)
(* The connection life cycle of one AvatarSession (avatar_session.go): the *)
(* s.conn field that the caller's goroutine and the background read loops  *)
(* share without a lock, the websockets behind it, and the OnClose and     *)
(* OnError notifications.                                                  *)
(*                                                                         *)
(* Processes.  Process User (0) is the one goroutine that calls Start,     *)
(* SendAudio, Interrupt and Close, one call at a time.  Process i > 0 is   *)
(* the read loop spawned by the Start that opened socket i.  A read loop   *)
(* calls s.Close() itself when its read fails, so the steps of Close are   *)
(* parameterised by the process that runs them.                            *)
(*                                                                         *)
(* Grain of atomicity.  Every load and every store of s.conn is a step of  *)
(* its own, because nothing protects the field.  A websocket write is two  *)
(* steps (begin and end), because two goroutines may write at once.        *)
(*                                                                         *)
(* Left to other modules: request ids and the encoder (AudioRequest),      *)
(* request and session telemetry (SessionTelemetry), the callback queue    *)
(* (CallbackDispatcher).  They decide whether SendAudio reaches its write, *)
(* which is a free choice here.                                            *)
(***************************************************************************)
EXTENDS Naturals

CONSTANTS
    MaxDials,    \* bound: websockets opened in one behaviour
    MaxCloses    \* bound: calls of Close by the user

ASSUME BoundsAssumption ==
    /\ MaxDials \in Nat \ {0}
    /\ MaxCloses \in Nat

VARIABLES
    conn,        \* s.conn: a socket, or nil
    dials,       \* sockets opened so far; the newest is start()'s local conn
    local,       \* socket -> is our end of the TCP connection open
    peer,        \* socket -> what the server side did
    writeErr,    \* socket -> gorilla's sticky write error (close frame sent, or a failed write)
    deadline,    \* socket -> the handshake read deadline is armed
    cancelled,   \* socket -> the context given to its Start is done
    pc,          \* process -> control point
    mine,        \* process -> the socket it has loaded from s.conn
    writing,     \* process -> the socket it is in the middle of a write on, or nil
    reported,    \* read loop -> it dispatched OnError for a failed read
    onClose,     \* OnClose goroutines launched
    closes,      \* calls of Close by the user
    overlapped,  \* history: the user called Start while an earlier read loop was running
    panic        \* "none", or the control point at which the program panicked

vars == <<conn, dials, local, peer, writeErr, deadline, cancelled, pc, mine,
          writing, reported, onClose, closes, overlapped, panic>>

nil     == 0
User    == 0
Sockets == 1..MaxDials
Loops   == Sockets
Procs   == 0..MaxDials

ClosePCs == {"cl_check", "cl_load", "cl_frame", "cl_abort", "cl_abort_nil",
             "cl_shut", "cl_clear", "cl_notify"}
StartPCs == {"st_dial", "st_check", "st_conf", "st_conf_wire", "st_await",
             "st_arm", "st_defer", "st_load", "st_read", "st_fail", "st_nil", "st_spawn"}
WritePCs == {"wr_load", "wr_wire"}
UserPCs  == {"idle"} \cup StartPCs \cup WritePCs \cup ClosePCs
LoopPCs  == {"off", "rl_begin", "rl_ctx", "rl_read", "done"} \cup ClosePCs
PcOf(p)  == IF p = User THEN UserPCs ELSE LoopPCs

\* Control points at which a process works on a connection it loaded.
HoldingPCs == {"st_conf_wire", "st_read", "wr_wire", "cl_frame", "rl_ctx", "rl_read"}

(* The one type invariant of the module. *)
DataType ==
    /\ conn \in 0..MaxDials
    /\ dials \in 0..MaxDials
    /\ local \in [Sockets -> {"none", "open", "closed"}]
    /\ peer \in [Sockets -> {"up", "goodbye", "failed"}]
    /\ writeErr \in [Sockets -> BOOLEAN]
    /\ deadline \in [Sockets -> BOOLEAN]
    /\ cancelled \in [Sockets -> BOOLEAN]
    /\ mine \in [Procs -> 0..MaxDials]
    /\ writing \in [Procs -> 0..MaxDials]
    /\ reported \in [Loops -> BOOLEAN]
    /\ onClose \in Nat
    /\ closes \in 0..MaxCloses
    /\ overlapped \in BOOLEAN

PcType ==
    /\ pc \in [Procs -> UserPCs \cup LoopPCs]
    /\ \A p \in Procs : pc[p] \in PcOf(p)
    /\ \A p \in Procs : pc[p] \in HoldingPCs => mine[p] \in Sockets
    /\ panic \in {"none"} \cup UserPCs \cup LoopPCs

TypeOK == DataType /\ PcType

Init ==
    /\ conn = nil
    /\ dials = 0
    /\ local = [c \in Sockets |-> "none"]
    /\ peer = [c \in Sockets |-> "up"]
    /\ writeErr = [c \in Sockets |-> FALSE]
    /\ deadline = [c \in Sockets |-> FALSE]
    /\ cancelled = [c \in Sockets |-> FALSE]
    /\ pc = [p \in Procs |-> IF p = User THEN "idle" ELSE "off"]
    /\ mine = [p \in Procs |-> nil]
    /\ writing = [p \in Procs |-> nil]
    /\ reported = [i \in Loops |-> FALSE]
    /\ onClose = 0
    /\ closes = 0
    /\ overlapped = FALSE
    /\ panic = "none"

--------------------------------------------------------------------------------
(* Steps shared by the operations. *)

At(p, label) == panic = "none" /\ pc[p] = label

Goto(p, label) == pc' = [pc EXCEPT ![p] = label]

SocketState == <<local, peer, writeErr, deadline, cancelled>>
Ghosts      == <<reported, onClose, closes, overlapped, panic>>

\* A step that only moves process p.
Move(p, from, to) ==
    /\ At(p, from)
    /\ Goto(p, to)
    /\ UNCHANGED <<conn, dials, SocketState, mine, writing, Ghosts>>

\* s.conn = nil
ClearConn(p, from, to) ==
    /\ At(p, from)
    /\ conn' = nil
    /\ Goto(p, to)
    /\ UNCHANGED <<dials, SocketState, mine, writing, Ghosts>>

\* A method call on a nil *websocket.Conn, or gorilla's "concurrent write to
\* websocket connection": nothing in the package recovers.
Panics(p) ==
    /\ panic' = pc[p]
    /\ UNCHANGED <<conn, dials, local, peer, writeErr, deadline, cancelled, pc,
                   mine, writing, reported, onClose, closes, overlapped>>

\* Process p loads s.conn for a method call at control point `from`.  A nil
\* conn panics.
LoadsNil(p, from) == At(p, from) /\ conn = nil /\ Panics(p)

\* Load s.conn and enter WriteMessage.
BeginWrite(p, from, to) ==
    /\ At(p, from)
    /\ conn # nil
    /\ mine' = [mine EXCEPT ![p] = conn]
    /\ writing' = [writing EXCEPT ![p] = conn]
    /\ Goto(p, to)
    /\ UNCHANGED <<conn, dials, local, peer, writeErr, deadline, cancelled,
                   reported, onClose, closes, overlapped, panic>>

\* WriteMessage entered while another goroutine is inside it on the same socket.
\* Detection is best effort, so BeginWrite stays possible as well.
WriteCollides(p, from) ==
    /\ At(p, from)
    /\ conn # nil
    /\ \E q \in Procs \ {p} : writing[q] = conn
    /\ Panics(p)

CanWrite(c) == local[c] = "open" /\ ~writeErr[c]
MayFail(c)  == ~CanWrite(c) \/ peer[c] # "up"

\* WriteMessage returns nil.  A close frame makes every later write fail.
WriteOk(p, from, to, isClose) ==
    /\ At(p, from)
    /\ CanWrite(mine[p])
    /\ writeErr' = [writeErr EXCEPT ![mine[p]] = isClose]
    /\ writing' = [writing EXCEPT ![p] = nil]
    /\ Goto(p, to)
    /\ UNCHANGED <<conn, dials, local, peer, deadline, cancelled, mine,
                   reported, onClose, closes, overlapped, panic>>

\* WriteMessage returns an error, which is sticky.
WriteFails(p, from, to) ==
    /\ At(p, from)
    /\ MayFail(mine[p])
    /\ writeErr' = [writeErr EXCEPT ![mine[p]] = TRUE]
    /\ writing' = [writing EXCEPT ![p] = nil]
    /\ Goto(p, to)
    /\ UNCHANGED <<conn, dials, local, peer, deadline, cancelled, mine,
                   reported, onClose, closes, overlapped, panic>>

--------------------------------------------------------------------------------
(* Start.  The refusals before the dial (already started, no token, bad       *)
(* endpoint) return with everything unchanged and are not steps.              *)

CallStart ==
    /\ At(User, "idle")
    /\ conn = nil
    /\ dials < MaxDials
    /\ Goto(User, "st_dial")
    /\ overlapped' = (overlapped \/ \E i \in Loops : pc[i] \notin {"off", "done"})
    /\ UNCHANGED <<conn, dials, SocketState, mine, writing, reported, onClose, closes, panic>>

DialFails == Move(User, "st_dial", "idle")

DialSucceeds ==
    /\ At(User, "st_dial")
    /\ dials < MaxDials
    /\ dials' = dials + 1
    /\ local' = [local EXCEPT ![dials + 1] = "open"]
    /\ conn' = dials + 1
    /\ Goto(User, "st_check")
    /\ UNCHANGED <<peer, writeErr, deadline, cancelled, mine, writing, Ghosts>>

\* Both halves of the handshake first check s.conn and return an error on nil.
ChecksConn(from, to) == Move(User, from, IF conn = nil THEN "st_fail" ELSE to)

\* sendClientConfigureSession
ConfigureCheck == ChecksConn("st_check", "st_conf")
ConfigureBegin == LoadsNil(User, "st_conf")
                    \/ WriteCollides(User, "st_conf")
                    \/ BeginWrite(User, "st_conf", "st_conf_wire")
ConfigureEnd   == WriteOk(User, "st_conf_wire", "st_await", FALSE)
                    \/ WriteFails(User, "st_conf_wire", "st_fail")

\* awaitServerConfirmSession
AwaitCheck == ChecksConn("st_await", "st_arm")

\* Mutation: the read deadline is never set.
ArmDeadline_NoDeadline ==
    /\ conn # nil
    /\ Move(User, "st_arm", "st_defer")

\* SetReadDeadline on the connection s.conn holds now.  It fails on a closed one.
ArmDeadline ==
    /\ At(User, "st_arm")
    /\ conn # nil
    /\ IF local[conn] = "open"
         THEN deadline' = [deadline EXCEPT ![conn] = TRUE] /\ Goto(User, "st_defer")
         ELSE UNCHANGED deadline /\ Goto(User, "st_fail")
    /\ UNCHANGED <<conn, dials, local, peer, writeErr, cancelled, mine, writing, Ghosts>>

\* The defer statement loads the receiver of the call that disarms the deadline.
DeferDisarm ==
    /\ At(User, "st_defer")
    /\ mine' = [mine EXCEPT ![User] = conn]
    /\ Goto(User, "st_load")
    /\ UNCHANGED <<conn, dials, SocketState, writing, Ghosts>>

\* ReadMessage, on a third load.  Others only ever set s.conn to nil meanwhile:
\* if it is not nil it is still the receiver of the deferred call.
BeginRead ==
    /\ At(User, "st_load")
    /\ conn # nil
    /\ mine' = [mine EXCEPT ![User] = conn]
    /\ Goto(User, "st_read")
    /\ UNCHANGED <<conn, dials, SocketState, writing, Ghosts>>

AwaitBegin ==
    \/ LoadsNil(User, "st_arm") \/ ArmDeadline
    \/ DeferDisarm
    \/ LoadsNil(User, "st_load") \/ BeginRead

\* Mutation: the deferred disarm is forgotten.
AwaitReturns_StaysArmed(to) ==
    /\ Goto(User, to)
    /\ UNCHANGED <<conn, dials, SocketState, mine, writing, Ghosts>>

\* The read of the handshake reply returns; the deferred call disarms the
\* deadline whatever the outcome.
AwaitReturns(to) ==
    /\ deadline' = [deadline EXCEPT ![mine[User]] = FALSE]
    /\ Goto(User, to)
    /\ UNCHANGED <<conn, dials, local, peer, writeErr, cancelled, mine, writing, Ghosts>>

Readable(c) == local[c] = "open" /\ peer[c] = "up"

\* The server's first message: a confirmation with a connection id, or anything
\* else (server error, other type, undecodable, text).
AwaitConfirmed == At(User, "st_read") /\ Readable(mine[User]) /\ AwaitReturns("st_spawn")
AwaitRejected  == At(User, "st_read") /\ Readable(mine[User]) /\ AwaitReturns("st_fail")

\* Two goroutines are in ReadMessage of one connection, which gorilla does not
\* allow: a loop that began to run only after the session was started again.
ReadRaces(p) == \E q \in Procs \ {p} : pc[q] \in {"st_read", "rl_read"} /\ mine[q] = mine[p]

\* ReadMessage returns an error when the connection ended or the deadline passed,
\* and may return one in a race.
ReadFails(p) == ~Readable(mine[p]) \/ deadline[mine[p]] \/ ReadRaces(p)
AwaitFails   == At(User, "st_read") /\ ReadFails(User) /\ AwaitReturns("st_fail")

\* Mutation: only s.conn is cleared.
StartFail_KeepsSocket == Move(User, "st_fail", "st_nil")

\* start() gives up: close its local conn, then clear s.conn.
StartFail ==
    /\ At(User, "st_fail")
    /\ local' = [local EXCEPT ![dials] = "closed"]
    /\ Goto(User, "st_nil")
    /\ UNCHANGED <<conn, dials, peer, writeErr, deadline, cancelled, mine, writing, Ghosts>>

StartClear == ClearConn(User, "st_nil", "idle")

\* go s.readLoop(ctx)
SpawnReadLoop ==
    /\ At(User, "st_spawn")
    /\ pc' = [pc EXCEPT ![User] = "idle", ![dials] = "rl_begin"]
    /\ UNCHANGED <<conn, dials, SocketState, mine, writing, Ghosts>>

--------------------------------------------------------------------------------
(* SendAudio and Interrupt: a nil check, then (unless the call returns first, *)
(* which changes nothing here) a write on whatever s.conn holds by then.      *)

CallWrite == conn # nil /\ Move(User, "idle", "wr_load")

WriteBegin == LoadsNil(User, "wr_load")
                \/ WriteCollides(User, "wr_load")
                \/ BeginWrite(User, "wr_load", "wr_wire")
WriteEnd   == WriteOk(User, "wr_wire", "idle", FALSE)
                \/ WriteFails(User, "wr_wire", "idle")

--------------------------------------------------------------------------------
(* Close, run by the user or by a read loop.                                  *)

Returned(p) == IF p = User THEN "idle" ELSE "done"

CallClose ==
    /\ At(User, "idle")
    /\ closes < MaxCloses
    /\ closes' = closes + 1
    /\ Goto(User, "cl_check")
    /\ UNCHANGED <<conn, dials, SocketState, mine, writing, reported, onClose, overlapped, panic>>

\* Mutation: no nil check before the close frame.
CloseCheck_Unchecked(p) == Move(p, "cl_check", "cl_load")

CloseCheck(p) == Move(p, "cl_check", IF conn = nil THEN "cl_notify" ELSE "cl_load")

CloseFrameBegin(p) == LoadsNil(p, "cl_load")
                        \/ WriteCollides(p, "cl_load")
                        \/ BeginWrite(p, "cl_load", "cl_frame")
CloseFrameEnd(p)   == WriteOk(p, "cl_frame", "cl_shut", TRUE)
                        \/ WriteFails(p, "cl_frame", "cl_abort")

\* s.conn.Close().  It fails when the connection was closed already, and may
\* fail (after closing) on a broken one.
ShutConn(p, from, to) ==
    /\ At(p, from)
    /\ conn # nil
    /\ local' = [local EXCEPT ![conn] = "closed"]
    /\ Goto(p, to)
    /\ UNCHANGED <<conn, dials, peer, writeErr, deadline, cancelled, mine, writing, Ghosts>>

\* Mutation: a failed close frame returns without closing the connection.
CloseAbort_NoClose(p) == Move(p, "cl_abort", "cl_abort_nil")

\* The close frame could not be written: close anyway, ignoring the result.
CloseAbort(p) == LoadsNil(p, "cl_abort") \/ ShutConn(p, "cl_abort", "cl_abort_nil")

ShutOk(p)    == ShutConn(p, "cl_shut", "cl_clear") /\ local[conn] = "open"
ShutFails(p) == /\ ShutConn(p, "cl_shut", "cl_abort_nil")
                /\ local[conn] = "closed" \/ peer[conn] = "failed"
CloseShut(p) == LoadsNil(p, "cl_shut") \/ ShutOk(p) \/ ShutFails(p)

\* s.conn = nil, then return the error without OnClose.
CloseAbortClear(p) == ClearConn(p, "cl_abort_nil", Returned(p))

\* s.conn = nil, then on to OnClose.
CloseClear(p) == ClearConn(p, "cl_clear", "cl_notify")

\* go s.config.OnClose()
CloseNotify(p) ==
    /\ At(p, "cl_notify")
    /\ onClose' = onClose + 1
    /\ Goto(p, Returned(p))
    /\ UNCHANGED <<conn, dials, SocketState, mine, writing, reported, closes, overlapped, panic>>

CloseStep(p) ==
    \/ CloseCheck(p) \/ CloseFrameBegin(p) \/ CloseFrameEnd(p) \/ CloseAbort(p)
    \/ CloseShut(p) \/ CloseAbortClear(p) \/ CloseClear(p) \/ CloseNotify(p)

--------------------------------------------------------------------------------
(* readLoop.                                                                  *)

\* conn := s.conn, loaded when the goroutine gets to run.
LoopBegin(i) ==
    /\ At(i, "rl_begin")
    /\ mine' = [mine EXCEPT ![i] = conn]
    /\ Goto(i, IF conn = nil THEN "done" ELSE "rl_ctx")
    /\ UNCHANGED <<conn, dials, SocketState, writing, Ghosts>>

\* select on ctx.Done() before each read
LoopCheckCtx(i) == Move(i, "rl_ctx", IF cancelled[i] THEN "done" ELSE "rl_read")

\* A message of any kind arrives and is handled; none of them ends the loop.
LoopFrame(i) == Move(i, "rl_read", "rl_ctx") /\ Readable(mine[i])

\* Mutation: every read error counts as a normal end.
LoopLeaves_Always(i) == Move(i, "rl_read", "done") /\ ReadFails(i)

\* The read fails and the loop leaves without a word: its context is done, or
\* the server closed with 1000/1001 (gorilla answers with a close frame).
LoopLeaves(i) ==
    /\ At(i, "rl_read")
    /\ ReadFails(i)
    /\ cancelled[i] \/ peer[mine[i]] = "goodbye"
    /\ writeErr' = [writeErr EXCEPT ![mine[i]] = @ \/ peer[mine[i]] = "goodbye"]
    /\ Goto(i, "done")
    /\ UNCHANGED <<conn, dials, local, peer, deadline, cancelled, mine, writing, Ghosts>>

\* Any other read error: OnError is dispatched, then s.Close().
LoopBroken(i) ==
    /\ At(i, "rl_read")
    /\ local[mine[i]] = "closed" \/ peer[mine[i]] = "failed" \/ deadline[mine[i]] \/ ReadRaces(i)
    /\ ~cancelled[i]
    /\ reported' = [reported EXCEPT ![i] = TRUE]
    /\ Goto(i, "cl_check")
    /\ UNCHANGED <<conn, dials, SocketState, mine, writing, onClose, closes, overlapped, panic>>

LoopStep(i) == LoopBegin(i) \/ LoopCheckCtx(i) \/ LoopLeaves(i) \/ LoopBroken(i) \/ CloseStep(i)

--------------------------------------------------------------------------------
(* Environment.                                                               *)

\* The server says goodbye (close frame 1000 or 1001) or the connection breaks
\* (reset, other close code), once the frames sent before that are read.
PeerLeaves(c) ==
    /\ panic = "none"
    /\ Readable(c)
    /\ \E how \in {"goodbye", "failed"} : peer' = [peer EXCEPT ![c] = how]
    /\ UNCHANGED <<conn, dials, local, writeErr, deadline, cancelled, pc, mine, writing, Ghosts>>

\* The context of the Start that opened socket c is cancelled or expires.
Cancel(c) ==
    /\ panic = "none"
    /\ local[c] # "none"
    /\ ~cancelled[c]
    /\ cancelled' = [cancelled EXCEPT ![c] = TRUE]
    /\ UNCHANGED <<conn, dials, local, peer, writeErr, deadline, pc, mine, writing, Ghosts>>

\* The user may stop calling, and a panic ends the program.
Rest == (pc[User] = "idle" \/ panic # "none") /\ UNCHANGED vars

--------------------------------------------------------------------------------
\* The user's steps that the program itself takes, without the server.
UserStep ==
    \/ DialFails \/ ConfigureCheck \/ ConfigureBegin \/ ConfigureEnd
    \/ AwaitCheck \/ AwaitBegin \/ AwaitFails \/ StartFail \/ StartClear
    \/ SpawnReadLoop \/ WriteBegin \/ WriteEnd \/ CloseStep(User)

Next ==
    \/ CallStart \/ CallWrite \/ CallClose
    \/ DialSucceeds \/ AwaitConfirmed \/ AwaitRejected
    \/ UserStep
    \/ \E i \in Loops : LoopStep(i) \/ LoopFrame(i)
    \/ \E c \in Sockets : PeerLeaves(c) \/ Cancel(c)
    \/ Rest

Spec == Init /\ [][Next]_vars

\* No write has a deadline: it may block for as long as the server keeps the
\* connection and does not read, unless somebody closes it.
Blocked(p) == writing[p] # nil /\ CanWrite(writing[p]) /\ peer[writing[p]] # "failed"

\* Goroutines are scheduled, a dial ends (HandshakeTimeout of the dialer), and a
\* read with an armed deadline ends; nothing is assumed of a write that the server
\* may block, of the server, or of what the user calls next.
Fairness ==
    /\ WF_vars(UserStep /\ ~Blocked(User))
    /\ \A i \in Loops : WF_vars(LoopStep(i) /\ ~Blocked(i))

FairSpec == Spec /\ Fairness

--------------------------------------------------------------------------------
(* Safety.                                                                    *)

\* The one way to lose a socket: the user restarts while an earlier read loop is
\* still running, and that loop has met the end of its own connection.
TakenOver(c) == overlapped /\ \E i \in Loops \ {c} : reported[i]

\* No socket is lost but that way: an open connection is the one s.conn holds, so
\* a later Close finds it (StartFail, CloseAbort and CloseShut close before
\* clearing).
SocketOwned == \A c \in Sockets : local[c] = "open" => conn = c \/ TakenOver(c)

\* "Close closes the WebSocket connection and cleans up resources": when the
\* user's Close returns, with or without an error, no other socket is open.
CloseCleansUp ==
    [][pc[User] \in ClosePCs /\ pc'[User] = "idle"
         => \A c \in Sockets : local'[c] = "open" => TakenOver(c)]_vars

\* The program panics on s.conn only once a read loop has met a broken
\* connection and started its own Close: neither the handshake, nor sending, nor
\* the user's Close can panic on a session whose reads are healthy.
PanicNeedsTeardown == panic # "none" => \E i \in Loops : reported[i]

\* A healthy session is not torn down by the handshake's read deadline: the read
\* loop gives up only on a connection that ended, unless the user restarted under
\* an old loop.
TeardownHasCause ==
    [][\A i \in Loops : reported'[i] # reported[i] /\ ~overlapped
         => local[mine[i]] = "closed" \/ peer[mine[i]] = "failed"]_vars

\* SendAudio and Interrupt without a connection return an error: they do not
\* panic (avatar_session_test.go, TestAvatarSessionSendAudioNoConnection).
SendReturnsError == panic = "wr_load" => conn # nil

--------------------------------------------------------------------------------
(* Liveness.                                                                  *)

Running == panic = "none"

\* The user is inside a call; a read loop has something to do but wait for the
\* next message of a healthy connection.
Busy(p) ==
    IF p = User THEN pc[p] # "idle"
    ELSE pc[p] \in ClosePCs \cup {"rl_begin"} \/ (pc[p] \in {"rl_ctx", "rl_read"} /\ ~Readable(mine[p]))

\* No call of the SDK hangs, and no read loop outlives its connection, whatever
\* the server does, but in a write that the server blocks: "Start cannot hang
\* forever when the server accepts the WebSocket but never replies"
\* (awaitServerConfirmSession), Close comes back, in the user's goroutine and in
\* a read loop, and the read without a deadline ends with its connection.
CallsReturn == \A p \in Procs : []<>(~Busy(p) \/ ~Running) \/ <>[]Blocked(p)

\* A connection that breaks under a read loop is reported to OnError, unless the
\* context of its Start is done.
BreakReported ==
    \A i \in Loops : (pc[i] = "rl_read" /\ peer[mine[i]] = "failed")
                       ~> (reported[i] \/ cancelled[i] \/ ~Running)

\* OnClose "is called when the session closes" (session_config.go): once the server has ended a
\* session and its read loop has returned, OnClose is eventually called.
OnCloseEventually ==
    \A i \in Loops : (pc[i] = "done" /\ peer[i] # "up") ~> (onClose > 0 \/ ~Running)
================================================================================
