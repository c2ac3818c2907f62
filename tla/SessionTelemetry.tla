--------------------------- MODULE SessionTelemetry ----------------------------
(***************************************************************************)
(* Request spans and the session duration metric (avatar_session.go).      *)
(*                                                                         *)
(* The user's goroutine starts a span with the first audio of a request;   *)
(* the span is ended by whoever comes first: the final animation frame or  *)
(* a server error (read loop), an interrupt or a failed send (user), or    *)
(* Close (either).  The table of spans is guarded by telemetryMu, and each *)
(* section under the lock is one step.  The session fields                 *)
(* sessionStartedAt and sessionTelemetryFinished are not guarded, and each *)
(* access is one step.                                                     *)
(*                                                                         *)
(* Telemetry is enabled.  The user calls Start again only after the read   *)
(* loop has returned.  How Close and the writes work on the connection is  *)
(* in AvatarSession; here a write succeeds or fails freely.                *)
(***************************************************************************)
EXTENDS Naturals

CONSTANTS
    MaxStarts,  \* bound: successful Starts
    MaxReqs,    \* bound: request ids generated
    MaxSpans,   \* bound: request spans started
    MaxCloses   \* bound: calls of Close by the user

ASSUME BoundsAssumption ==
    /\ MaxStarts \in Nat
    /\ MaxReqs \in Nat
    /\ MaxSpans \in Nat
    /\ MaxCloses \in Nat

VARIABLES
    open,        \* s.conn # nil
    starts,      \* Starts so far
    closes,      \* calls of Close by the user
    reqs,        \* request ids generated so far; the newest is s.lastReqID
    current,     \* s.currentReqID, or none
    table,       \* s.requestTelemetry: request -> span, or none
    spans,       \* spans started so far
    ends,        \* span -> times it was ended (and its metrics recorded)
    traced,      \* request -> audio messages sent with a trace context
    started,     \* s.sessionStartedAt: the Start that set it, or none
    finished,    \* s.sessionTelemetryFinished
    durations,   \* Start -> duration metrics recorded for its session
    pc,          \* process -> control point
    op,          \* process -> operation it is in
    req,         \* process -> request it works on
    held,        \* process -> span it took from the table, or none
    todo         \* process -> requests its Close has yet to finish

vars == <<open, starts, closes, reqs, current, table, spans, ends, traced,
          started, finished, durations, pc, op, req, held, todo>>

none   == 0
Starts == 1..MaxStarts
Reqs   == 1..MaxReqs
Spans  == 1..MaxSpans
User   == "user"
Reader == "reader"
Procs  == {User, Reader}

PCs == {"idle", "marks", "clears", "check", "insert", "write", "reads",
        "take", "end", "snapshot", "each", "metric", "record", "flag", "shut"}
Ops == {"none", "send", "first", "interrupt", "frame", "close"}

(* The one type invariant of the module. *)
DataType ==
    /\ open \in BOOLEAN
    /\ starts \in 0..MaxStarts
    /\ closes \in 0..MaxCloses
    /\ reqs \in 0..MaxReqs
    /\ current \in 0..MaxReqs
    /\ table \in [Reqs -> 0..MaxSpans]
    /\ spans \in 0..MaxSpans
    /\ ends \in [Spans -> Nat]
    /\ traced \in [Reqs -> Nat]
    /\ started \in 0..MaxStarts
    /\ finished \in BOOLEAN
    /\ durations \in [Starts -> Nat]
    /\ pc \in [Procs -> PCs]
    /\ op \in [Procs -> Ops]
    /\ req \in [Procs -> 0..MaxReqs]
    /\ held \in [Procs -> 0..MaxSpans]
    /\ todo \in [Procs -> SUBSET Reqs]

\* A step that indexes by a request or by a session has one.
IndexType ==
    /\ \A p \in Procs : pc[p] \in {"check", "insert", "write", "take"} => req[p] \in Reqs
    /\ \A p \in Procs : pc[p] \in {"record", "flag"} => started \in Starts

TypeOK == DataType /\ IndexType

Init ==
    /\ open = FALSE /\ starts = 0 /\ closes = 0
    /\ reqs = 0 /\ current = none
    /\ table = [r \in Reqs |-> none]
    /\ spans = 0
    /\ ends = [s \in Spans |-> 0]
    /\ traced = [r \in Reqs |-> 0]
    /\ started = none /\ finished = FALSE
    /\ durations = [n \in Starts |-> 0]
    /\ pc = [p \in Procs |-> "idle"]
    /\ op = [p \in Procs |-> "none"]
    /\ req = [p \in Procs |-> none]
    /\ held = [p \in Procs |-> none]
    /\ todo = [p \in Procs |-> {}]

--------------------------------------------------------------------------------

counters == <<starts, closes>>
requests == <<reqs, current, traced>>
records  == <<table, spans, ends>>
session  == <<started, finished, durations>>
locals   == <<op, req, held, todo>>

Goto(p, label)    == pc' = [pc EXCEPT ![p] = label]
Step(p, from, to) == pc[p] = from /\ Goto(p, to)

\* Start: the connection is up; `go s.readLoop(ctx)`.
SpawnReadLoop ==
    /\ pc[User] = "idle" /\ pc[Reader] = "idle"
    /\ ~open
    /\ starts < MaxStarts
    /\ open' = TRUE
    /\ starts' = starts + 1
    /\ pc' = [pc EXCEPT ![User] = "marks", ![Reader] = "reads"]
    /\ UNCHANGED <<closes, requests, records, session, locals>>

\* s.sessionStartedAt = time.Now()
MarkStarted ==
    /\ Step(User, "marks", "clears")
    /\ started' = starts
    /\ UNCHANGED <<open, counters, requests, records, finished, durations, locals>>

\* s.sessionTelemetryFinished = false
ClearFinished ==
    /\ Step(User, "clears", "idle")
    /\ finished' = FALSE
    /\ UNCHANGED <<open, counters, requests, records, started, durations, locals>>

--------------------------------------------------------------------------------
(* finishRequestTelemetry                                                     *)

\* Mutation: the entry is read here and deleted only after the span has ended.
Take_LeavesEntry(p) ==
    /\ Step(p, "take", "end")
    /\ held' = [held EXCEPT ![p] = table[req[p]]]
    /\ UNCHANGED <<open, counters, requests, records, session, op, req, todo>>

\* The entry leaves the table under the lock, so that only one caller gets it.
Take(p) ==
    /\ Step(p, "take", "end")
    /\ held' = [held EXCEPT ![p] = table[req[p]]]
    /\ table' = [table EXCEPT ![req[p]] = none]
    /\ UNCHANGED <<open, counters, requests, spans, ends, session, op, req, todo>>

Resumes(p) == IF op[p] = "close" THEN "each" ELSE IF p = Reader THEN "reads" ELSE "idle"

\* Metrics and span end, outside the lock; nothing happens without an entry.
\* Interrupt then forgets the current request.
End(p) ==
    /\ Step(p, "end", Resumes(p))
    /\ ends' = [s \in Spans |-> IF s = held[p] THEN ends[s] + 1 ELSE ends[s]]
    /\ held' = [held EXCEPT ![p] = none]
    /\ current' = IF op[p] = "interrupt" THEN none ELSE current
    /\ UNCHANGED <<open, counters, reqs, traced, table, spans, session, op, req, todo>>

Finish(p) == Take(p) \/ End(p)

--------------------------------------------------------------------------------
(* SendAudio                                                                  *)

\* The request id is generated on the first call.  The call goes on, or it
\* returns here: an encoder error, or audio that does not fill a packet yet.
SendBegins ==
    /\ open
    /\ spans < MaxSpans
    /\ current # none \/ reqs < MaxReqs
    /\ \E to \in {"check", "idle"} : Step(User, "idle", to)
    /\ reqs' = IF current = none THEN reqs + 1 ELSE reqs
    /\ current' = IF current = none THEN reqs + 1 ELSE current
    /\ req' = [req EXCEPT ![User] = current']
    /\ op' = [op EXCEPT ![User] = "send"]
    /\ UNCHANGED <<open, counters, traced, records, session, held, todo>>

\* First section of startRequestTelemetry: does the request have a span?
CheckSpan ==
    /\ Step(User, "check", IF table[req[User]] = none THEN "insert" ELSE "write")
    /\ UNCHANGED <<open, counters, requests, records, session, locals>>

\* Second section: the span just started enters the table, and its trace context
\* goes into the message.
InsertSpan ==
    /\ Step(User, "insert", "write")
    /\ spans < MaxSpans
    /\ spans' = spans + 1
    /\ table' = [table EXCEPT ![req[User]] = spans + 1]
    /\ op' = [op EXCEPT ![User] = "first"]
    /\ UNCHANGED <<open, counters, requests, ends, session, req, held, todo>>

\* The message is written; the last one ends the request on this side.
SendWritten ==
    /\ Step(User, "write", "idle")
    /\ traced' = [traced EXCEPT ![req[User]] = IF op[User] = "first" THEN @ + 1 ELSE @]
    /\ \E last \in BOOLEAN : current' = IF last THEN none ELSE current
    /\ UNCHANGED <<open, counters, reqs, records, session, locals>>

\* The write fails: finish with "send_error".
SendFails ==
    /\ Step(User, "write", "take")
    /\ UNCHANGED <<open, counters, requests, records, session, locals>>

\* Interrupt names the newest request, ended or not; a failed write finishes it
\* as well ("interrupt_error") but keeps the current request.
Interrupt ==
    /\ open
    /\ reqs > 0
    /\ Step(User, "idle", "take")
    /\ req' = [req EXCEPT ![User] = reqs]
    /\ \E written \in BOOLEAN :
         op' = [op EXCEPT ![User] = IF written THEN "interrupt" ELSE "send"]
    /\ UNCHANGED <<open, counters, requests, records, session, held, todo>>

--------------------------------------------------------------------------------
(* Close                                                                      *)

CallClose ==
    /\ closes < MaxCloses
    /\ closes' = closes + 1
    /\ Step(User, "idle", "snapshot")
    /\ op' = [op EXCEPT ![User] = "close"]
    /\ UNCHANGED <<open, starts, requests, records, session, req, held, todo>>

\* finishAllRequestTelemetry: the ids are copied under the lock...
Snapshot(p) ==
    /\ Step(p, "snapshot", "each")
    /\ todo' = [todo EXCEPT ![p] = {r \in Reqs : table[r] # none}]
    /\ UNCHANGED <<open, counters, requests, records, session, op, req, held>>

\* ... and finished one by one, in any order.
Each(p) ==
    /\ Step(p, "each", "take")
    /\ \E r \in todo[p] :
         /\ req' = [req EXCEPT ![p] = r]
         /\ todo' = [todo EXCEPT ![p] = @ \ {r}]
    /\ UNCHANGED <<open, counters, requests, records, session, op, held>>

EachDone(p) ==
    /\ todo[p] = {}
    /\ Step(p, "each", "metric")
    /\ UNCHANGED <<open, counters, requests, records, session, locals>>

\* Mutation: sessionStartedAt is not checked.
MetricCheck_Unstarted(p) ==
    /\ Step(p, "metric", IF ~finished THEN "record" ELSE "shut")
    /\ UNCHANGED <<open, counters, requests, records, session, locals>>

\* !s.sessionStartedAt.IsZero() && !s.sessionTelemetryFinished
MetricCheck(p) ==
    /\ Step(p, "metric", IF started # none /\ ~finished THEN "record" ELSE "shut")
    /\ UNCHANGED <<open, counters, requests, records, session, locals>>

\* Mutation: the flag is set before the metric is recorded.
MetricRecord_FlagFirst(p) ==
    /\ Step(p, "record", IF finished THEN "flag" ELSE "record")
    /\ finished' = TRUE
    /\ durations' = [durations EXCEPT ![started] = IF finished THEN @ + 1 ELSE @]
    /\ UNCHANGED <<open, counters, requests, records, started, locals>>

MetricRecord(p) ==
    /\ Step(p, "record", "flag")
    /\ durations' = [durations EXCEPT ![started] = @ + 1]
    /\ UNCHANGED <<open, counters, requests, records, started, finished, locals>>

MetricFlag(p) ==
    /\ Step(p, "flag", "shut")
    /\ finished' = TRUE
    /\ UNCHANGED <<open, counters, requests, records, started, durations, locals>>

\* The rest of Close: the connection is closed and forgotten.
Shut(p) ==
    /\ Step(p, "shut", "idle")
    /\ open' = FALSE
    /\ UNCHANGED <<counters, requests, records, session, locals>>

Close(p) == Snapshot(p) \/ Each(p) \/ EachDone(p) \/ MetricCheck(p)
              \/ MetricRecord(p) \/ MetricFlag(p) \/ Shut(p)

--------------------------------------------------------------------------------
(* The read loop                                                              *)

\* A final animation frame for a request that has an entry, or a server error
\* for any request: the entry is looked up again by finishRequestTelemetry.
FrameFinishes ==
    /\ Step(Reader, "reads", "take")
    /\ \E r \in 1..reqs : req' = [req EXCEPT ![Reader] = r]
    /\ op' = [op EXCEPT ![Reader] = "frame"]
    /\ UNCHANGED <<open, counters, requests, records, session, held, todo>>

\* The read fails: OnError, then s.Close().
ReadBreaks ==
    /\ Step(Reader, "reads", "snapshot")
    /\ op' = [op EXCEPT ![Reader] = "close"]
    /\ UNCHANGED <<open, counters, requests, records, session, req, held, todo>>

\* Context done, or a normal close by the server: the loop just returns.
ReadLeaves ==
    /\ Step(Reader, "reads", "idle")
    /\ UNCHANGED <<open, counters, requests, records, session, locals>>

--------------------------------------------------------------------------------

\* The user may stop calling.
Rest == pc[User] = "idle" /\ UNCHANGED vars

Next ==
    \/ SpawnReadLoop \/ MarkStarted \/ ClearFinished
    \/ SendBegins \/ CheckSpan \/ InsertSpan \/ SendWritten \/ SendFails
    \/ Interrupt
    \/ CallClose
    \/ \E p \in Procs : Finish(p) \/ Close(p)
    \/ FrameFinishes \/ ReadBreaks \/ ReadLeaves
    \/ Rest

Spec == Init /\ [][Next]_vars

--------------------------------------------------------------------------------

\* A span is ended, and its metrics recorded, at most once, although the read
\* loop, the user and two Closes may all be finishing the same request.
SpanEndedOnce == \A s \in Spans : ends[s] <= 1

\* No span is lost: one that was started has ended, or is in the table, or is
\* with the goroutine that took it from there.
NoSpanLost ==
    \A s \in 1..spans :
       \/ ends[s] > 0
       \/ \E r \in Reqs : table[r] = s
       \/ \E p \in Procs : held[p] = s

\* Every span is accounted for: ended once, or still to be ended by somebody.
SpansAccounted == SpanEndedOnce /\ NoSpanLost

\* When the user's Close returns no request is in flight: every span left the
\* table ("finishAllRequestTelemetry finishes every in-flight request").  And the
\* duration of the session has been recorded, whatever the read loop's own Close
\* did before or meanwhile.  The latter only for the first session: a read loop
\* that breaks before a second Start has set the fields closes with those of the
\* first, and its flag then hides the second.
CloseCompletes ==
    [][op[User] = "close" /\ Step(User, "shut", "idle") =>
         /\ \A r \in Reqs : table[r] = none
         /\ starts = 1 => durations[1] > 0]_vars
================================================================================
