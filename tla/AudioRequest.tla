----------------------------- MODULE AudioRequest ------------------------------
(***************************************************************************)
(* Request ids and the client-side encoder (avatar_session.go): what       *)
(* SendAudio, Interrupt, Close and Start do to currentReqID, lastReqID and *)
(* audioEncoder, and the messages written as a result.  The session uses   *)
(* the internal Ogg Opus encoder.                                          *)
(*                                                                         *)
(* One goroutine calls the session, so each call is one step here; the     *)
(* connection may break between two calls, and a read loop may then close  *)
(* it (their interleaving with the calls is AvatarSession).  An encoder is *)
(* reduced to the numbers of the Ogg pages it writes: page 0 stands for    *)
(* the two header pages, and OggOpusEncoder has the rest.                  *)
(***************************************************************************)
EXTENDS Naturals, Sequences, SequencesExt

CONSTANTS
    MaxReqs,      \* bound: request ids generated
    MaxConns,     \* bound: successful Starts
    MaxWrites,    \* bound: messages written
    MaxPages,     \* bound: pages one Encode call returns
    MaxStream     \* bound: an encoder that has written as many is not used again

ASSUME BoundsAssumption ==
    /\ MaxReqs \in Nat /\ MaxConns \in Nat /\ MaxWrites \in Nat
    /\ MaxPages \in Nat /\ MaxStream \in Nat

VARIABLES
    conn,          \* s.conn and its health: "nil", "up", "broken" (writes may fail)
                   \* or "failed" (a write has failed, so all later ones do)
    conns,         \* Starts so far
    reqs,          \* request ids generated so far
    currentReqID,  \* or none
    lastReqID,     \* or none
    encoder,       \* s.audioEncoder: an encoder, or NoEncoder
    encoders,      \* encoders created so far
    wire,          \* messages written, oldest first
    notified,      \* OnEncodedAudio calls: request and completed stream
    opusFailed,    \* libopus has returned an error
    crossed        \* history: the user interrupted, closed or restarted before
                   \* the last audio of a request

vars == <<conn, conns, reqs, currentReqID, lastReqID, encoder, encoders, wire,
          notified, opusFailed, crossed>>

none      == 0
NoEncoder == [id |-> 0, output |-> <<>>]

Page(id, no, eos) == [enc |-> id, no |-> no, eos |-> eos]
Audio(r, pages, last) == [kind |-> "audio", conn |-> conns, req |-> r, pages |-> pages, end |-> last]
InterruptOf(r) == [kind |-> "interrupt", conn |-> conns, req |-> r, pages |-> <<>>, end |-> FALSE]

Pages   == [enc : 1..encoders, no : Nat, eos : BOOLEAN]
Message == [kind : {"audio", "interrupt"}, conn : 1..conns, req : 1..reqs, pages : Seq(Pages), end : BOOLEAN]

(* The one type invariant of the module. *)
TypeOK ==
    /\ conn \in {"nil", "up", "broken", "failed"}
    /\ conns \in 0..MaxConns /\ (conn # "nil" => conns > 0)
    /\ reqs \in 0..MaxReqs /\ lastReqID = reqs /\ currentReqID \in {none, reqs}
    /\ encoders \in Nat /\ encoder \in [id : 0..encoders, output : Seq(Pages)]
    /\ wire \in Seq(Message) /\ Len(wire) <= MaxWrites
    /\ notified \in Seq([req : 1..reqs, stream : Seq(Pages)])
    /\ opusFailed \in BOOLEAN /\ crossed \in BOOLEAN

Init ==
    /\ conn = "nil" /\ conns = 0
    /\ reqs = 0 /\ currentReqID = none /\ lastReqID = none
    /\ encoder = NoEncoder /\ encoders = 0
    /\ wire = <<>> /\ notified = <<>>
    /\ opusFailed = FALSE /\ crossed = FALSE

--------------------------------------------------------------------------------
(* The connection                                                             *)

Crosses == crossed' = (crossed \/ currentReqID # none)

Start ==
    /\ conn = "nil"
    /\ conns < MaxConns
    /\ Crosses
    /\ conn' = "up"
    /\ conns' = conns + 1
    /\ UNCHANGED <<reqs, currentReqID, lastReqID, encoder, encoders, wire, notified, opusFailed>>

\* Close, whatever its writes do, leaves the request and the encoder alone.
Close ==
    /\ Crosses
    /\ conn' = "nil"
    /\ UNCHANGED <<conns, reqs, currentReqID, lastReqID, encoder, encoders, wire, notified, opusFailed>>

\* The connection breaks; the read loop may then run Close.
ConnBreaks ==
    /\ \/ conn = "up" /\ conn' = "broken"
       \/ conn \in {"broken", "failed"} /\ conn' = "nil"
    /\ UNCHANGED <<conns, reqs, currentReqID, lastReqID, encoder, encoders, wire, notified, opusFailed, crossed>>

CanWrite  == conn \in {"up", "broken"}
WriteErrs == conn \in {"broken", "failed"} /\ conn' = "failed"

--------------------------------------------------------------------------------
(* SendAudio                                                                  *)

\* The request a SendAudio works on: a new one unless one is current.
Request == IF currentReqID = none THEN reqs + 1 ELSE currentReqID

\* Mutation: lastReqID is not recorded.
TakesRequest_NotLast ==
    /\ Request <= MaxReqs
    /\ reqs' = IF currentReqID = none THEN reqs + 1 ELSE reqs
    /\ lastReqID' = lastReqID

TakesRequest ==
    /\ Request <= MaxReqs
    /\ reqs' = IF currentReqID = none THEN reqs + 1 ELSE reqs
    /\ lastReqID' = IF currentReqID = none THEN reqs + 1 ELSE lastReqID

\* getOrCreateAudioEncoder
Encoder == IF encoder.id = 0 THEN [id |-> encoders + 1, output |-> <<>>] ELSE encoder

TakesEncoder ==
    /\ Len(Encoder.output) < MaxStream
    /\ encoders' = IF encoder.id = 0 THEN encoders + 1 ELSE encoders

\* The payloads an Encode(pcm, last) may return.  The final call writes an
\* end-of-stream page as soon as the headers are out.
Payloads(last) ==
    LET sent(n) == [i \in 1..n |->
                      Page(Encoder.id, Len(Encoder.output) + i - 1, last /\ i = n)]
    IN  {sent(n) : n \in {k \in 0..MaxPages : last /\ Encoder.output # <<>> => k > 0}}

Encoded(payload) == [Encoder EXCEPT !.output = @ \o payload]

\* No full packet yet: nothing to send.
SendBuffers ==
    /\ conn # "nil"
    /\ TakesRequest /\ TakesEncoder
    /\ currentReqID' = Request
    /\ encoder' = Encoder
    /\ UNCHANGED <<conn, conns, wire, notified, opusFailed, crossed>>

\* Encode fails half-way: the pages written so far are not returned to anybody.
SendEncodeFails ==
    /\ conn # "nil"
    /\ TakesRequest /\ TakesEncoder
    /\ currentReqID' = Request
    /\ \E payload \in Payloads(FALSE) : encoder' = Encoded(payload)
    /\ opusFailed' = TRUE
    /\ UNCHANGED <<conn, conns, wire, notified, crossed>>

\* Mutation: OnEncodedAudio gets the last payload only.
SendWritten_NotifiesPayload ==
    /\ CanWrite
    /\ Len(wire) < MaxWrites
    /\ TakesRequest /\ TakesEncoder
    /\ \E last \in BOOLEAN : \E payload \in Payloads(last) :
         /\ last \/ payload # <<>>
         /\ wire' = Append(wire, Audio(Request, payload, last))
         /\ notified' = IF last /\ Encoded(payload).output # <<>>
                          THEN Append(notified, [req |-> Request, stream |-> payload])
                          ELSE notified
         /\ encoder' = IF last THEN NoEncoder ELSE Encoded(payload)
         /\ currentReqID' = IF last THEN none ELSE Request
    /\ UNCHANGED <<conn, conns, opusFailed, crossed>>

\* Mutation: the encoder outlives the last audio of its request.
SendWritten_KeepsEncoder ==
    /\ CanWrite
    /\ Len(wire) < MaxWrites
    /\ TakesRequest /\ TakesEncoder
    /\ \E last \in BOOLEAN : \E payload \in Payloads(last) :
         /\ last \/ payload # <<>>
         /\ wire' = Append(wire, Audio(Request, payload, last))
         /\ notified' = IF last /\ Encoded(payload).output # <<>>
                          THEN Append(notified, [req |-> Request, stream |-> Encoded(payload).output])
                          ELSE notified
         /\ encoder' = Encoded(payload)
         /\ currentReqID' = IF last THEN none ELSE Request
    /\ UNCHANGED <<conn, conns, opusFailed, crossed>>

\* The message is written.  The last one hands the completed stream to
\* OnEncodedAudio and resets the request and the encoder.
SendWritten ==
    /\ CanWrite
    /\ Len(wire) < MaxWrites
    /\ TakesRequest /\ TakesEncoder
    /\ \E last \in BOOLEAN : \E payload \in Payloads(last) :
         /\ last \/ payload # <<>>
         /\ wire' = Append(wire, Audio(Request, payload, last))
         /\ notified' = IF last /\ Encoded(payload).output # <<>>
                          THEN Append(notified, [req |-> Request, stream |-> Encoded(payload).output])
                          ELSE notified
         /\ encoder' = IF last THEN NoEncoder ELSE Encoded(payload)
         /\ currentReqID' = IF last THEN none ELSE Request
    /\ UNCHANGED <<conn, conns, opusFailed, crossed>>

\* The write fails: the payload is lost, request and encoder stay.
SendFails ==
    /\ WriteErrs
    /\ TakesRequest /\ TakesEncoder
    /\ currentReqID' = Request
    /\ \E last \in BOOLEAN : \E payload \in Payloads(last) :
         encoder' = Encoded(payload)
    /\ UNCHANGED <<conns, wire, notified, opusFailed, crossed>>

--------------------------------------------------------------------------------
(* Interrupt: the newest request, ended or not.  A written interrupt clears    *)
(* the current request, not the encoder; a failed one changes nothing.         *)

\* Mutation: the current request is kept.
Interrupt_KeepsRequest ==
    /\ CanWrite
    /\ lastReqID # none
    /\ Len(wire) < MaxWrites
    /\ Crosses
    /\ wire' = Append(wire, InterruptOf(lastReqID))
    /\ UNCHANGED <<conn, conns, reqs, currentReqID, lastReqID, encoder, encoders, notified, opusFailed>>

Interrupt ==
    /\ CanWrite
    /\ lastReqID # none
    /\ Len(wire) < MaxWrites
    /\ Crosses
    /\ wire' = Append(wire, InterruptOf(lastReqID))
    /\ currentReqID' = none
    /\ UNCHANGED <<conn, conns, reqs, lastReqID, encoder, encoders, notified, opusFailed>>

InterruptFails ==
    /\ WriteErrs
    /\ lastReqID # none
    /\ UNCHANGED <<conns, reqs, currentReqID, lastReqID, encoder, encoders, wire, notified, opusFailed, crossed>>

Next ==
    \/ Start \/ Close \/ ConnBreaks
    \/ SendBuffers \/ SendEncodeFails \/ SendWritten \/ SendFails
    \/ Interrupt \/ InterruptFails

Spec == Init /\ [][Next]_vars

--------------------------------------------------------------------------------

\* Nothing is written for a request after its last audio or an interrupt, except
\* interrupts: not with restarts, failed writes or encoder errors between.
NothingAfterEnd ==
    \A i, j \in DOMAIN wire :
       i < j /\ wire[i].req = wire[j].req /\ (wire[i].end \/ wire[i].kind = "interrupt")
         => wire[j].kind = "interrupt"

Sent(r)     == { i \in DOMAIN wire : wire[i].kind = "audio" /\ wire[i].req = r }
Carriers(r) == { i \in Sent(r) : wire[i].pages # <<>> }

Follows(p, q) == q.enc = p.enc /\ q.no = p.no + 1

\* The pages of a request come from one encoder, start with the headers and have
\* consecutive numbers, from message to message as well, on one connection.
Continuous(r) ==
    /\ \A i, j \in Sent(r) : wire[i].conn = wire[j].conn
    /\ \A i \in Carriers(r) :
         /\ \A k \in 2..Len(wire[i].pages) : Follows(wire[i].pages[k - 1], wire[i].pages[k])
         /\ \/ wire[i].pages[1].no = 0 /\ \A j \in Carriers(r) : i <= j
            \/ \E j \in Carriers(r) :
                 /\ j < i /\ \A k \in Carriers(r) : k <= j \/ i <= k
                 /\ Follows(Last(wire[j].pages), wire[i].pages[1])

\* What SendAudio writes for a request is one continuous stream, with buffered
\* chunks, broken connections and failed writes between, as long as the user
\* interrupts, closes and restarts between requests only.
StreamContinuous == ~opusFailed /\ ~crossed => \A r \in 1..reqs : Continuous(r)

Written(r) == UNION { Range(wire[i].pages) : i \in Carriers(r) }

\* OnEncodedAudio gets what was written for the request, to the page: the same
\* pages, each at its place.  (StreamContinuous has the order on the wire.)
CallbackMatchesWire ==
    ~opusFailed /\ ~crossed =>
       \A i \in DOMAIN notified :
          /\ Range(notified[i].stream) = Written(notified[i].req)
          /\ \A k \in DOMAIN notified[i].stream : notified[i].stream[k].no = k - 1

\* "AudioFormatOggOpus sends one continuous Ogg Opus stream per request ID"
\* (session_config.go), whatever the user does.
OneStreamPerRequest == ~opusFailed => \A r \in 1..reqs : Continuous(r)
================================================================================
