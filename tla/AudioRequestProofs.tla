-------------------------- MODULE AudioRequestProofs ---------------------------
(***************************************************************************)
(* Proofs about AudioRequest: what is written under a request id ends once *)
(* and is one stream, and OnEncodedAudio gets that stream, for any number  *)
(* of requests, connections and pages.                                     *)
(***************************************************************************)
EXTENDS AudioRequest, TLAPS

--------------------------------------------------------------------------------
(* Types. *)

(* TypeOK by parts. *)
Scalars ==
    /\ conn \in {"nil", "up", "broken", "failed"}
    /\ conns \in 0..MaxConns /\ (conn # "nil" => conns > 0)
    /\ reqs \in 0..MaxReqs /\ lastReqID = reqs /\ currentReqID \in {none, reqs}
    /\ encoders \in Nat
    /\ opusFailed \in BOOLEAN /\ crossed \in BOOLEAN

Streams ==
    /\ encoder \in [id : 0..encoders, output : Seq(Pages)]
    /\ notified \in Seq([req : 1..reqs, stream : Seq(Pages)])

Wire == wire \in Seq(Message) /\ Len(wire) <= MaxWrites

LEMMA TypeParts == TypeOK <=> Scalars /\ Streams /\ Wire
BY DEF TypeOK, Scalars, Streams, Wire

LEMMA TypePartsNext == Scalars' /\ Streams' /\ Wire' => TypeOK'
BY DEF TypeOK, Scalars, Streams, Wire

(* The counters only grow, and what was well typed stays so. *)
Grows == conns <= conns' /\ reqs <= reqs' /\ encoders <= encoders'

LEMMA SeqMonotone == ASSUME NEW S, NEW T, S \subseteq T PROVE Seq(S) \subseteq Seq(T)
OBVIOUS

LEMMA PagesGrow == ASSUME Scalars, Scalars', Grows PROVE Seq(Pages) \subseteq Seq(Pages')
<1>1. Pages \subseteq Pages'
  BY DEF Pages, Scalars, Grows
<1> QED BY <1>1, SeqMonotone

LEMMA MessagesGrow == ASSUME Scalars, Scalars', Grows PROVE Message \subseteq Message'
<1>1. Seq(Pages) \subseteq Seq(Pages')
  BY PagesGrow
<1>2. 1..conns \subseteq 1..conns' /\ 1..reqs \subseteq 1..reqs'
  BY DEF Scalars, Grows
<1> HIDE DEF Pages
<1> QED BY <1>1, <1>2 DEF Message

LEMMA WireGrows == ASSUME Scalars, Scalars', Grows, Wire, UNCHANGED wire PROVE Wire'
<1>1. Seq(Message) \subseteq Seq(Message')
  BY MessagesGrow, SeqMonotone
<1> QED BY <1>1 DEF Wire

LEMMA WireAppends ==
    ASSUME Scalars, Scalars', Grows, Wire, Len(wire) < MaxWrites,
           NEW m \in Message', wire' = Append(wire, m)
    PROVE  Wire'
<1>1. wire \in Seq(Message')
  BY MessagesGrow, SeqMonotone DEF Wire
<1>2. Len(wire') = Len(wire) + 1 /\ wire' \in Seq(Message')
  BY <1>1
<1> QED BY <1>1, <1>2, BoundsAssumption DEF Wire

LEMMA NotifiedGrow ==
    ASSUME Scalars, Scalars', Grows, Streams
    PROVE  notified \in Seq([req : 1..reqs', stream : Seq(Pages')])
<1>1. Seq(Pages) \subseteq Seq(Pages')
  BY PagesGrow
<1>2. [req : 1..reqs, stream : Seq(Pages)] \subseteq [req : 1..reqs', stream : Seq(Pages')]
  BY <1>1 DEF Scalars, Grows
<1> QED BY <1>2, SeqMonotone DEF Streams

(* The encoder is the one of the step, and the calls grow by at most one.   *)
LEMMA StreamsKept ==
    ASSUME Scalars, Scalars', Grows, Streams, UNCHANGED <<encoder, notified>> PROVE Streams'
<1>1. encoder \in [id : 0..encoders', output : Seq(Pages')]
  BY PagesGrow DEF Streams, Scalars, Grows
<1> QED BY <1>1, NotifiedGrow DEF Streams

--------------------------------------------------------------------------------
(* What SendAudio takes: a request and an encoder. *)

LEMMA RequestTaken ==
    ASSUME Scalars, TakesRequest
    PROVE  /\ Request = reqs' /\ lastReqID' = reqs' /\ reqs' \in 1..MaxReqs /\ reqs <= reqs'
           /\ reqs' = IF currentReqID = none THEN reqs + 1 ELSE reqs
BY BoundsAssumption DEF Scalars, TakesRequest, Request, none

LEMMA EncoderTaken ==
    ASSUME Scalars, Scalars', Grows, Streams, TakesEncoder
    PROVE  /\ Encoder \in [id : 1..encoders', output : Seq(Pages')]
           /\ Encoder.output = IF encoder.id = 0 THEN <<>> ELSE encoder.output
<1>1. encoder \in [id : 0..encoders, output : Seq(Pages')]
  BY PagesGrow DEF Streams
<1>2. CASE encoder.id = 0
  <2>1. Encoder = [id |-> encoders + 1, output |-> <<>>] /\ encoders' = encoders + 1
    BY <1>2 DEF Encoder, TakesEncoder
  <2>2. <<>> \in Seq(Pages')
    OBVIOUS
  <2> QED BY <1>2, <2>1, <2>2 DEF Scalars
<1>3. CASE encoder.id # 0
  BY <1>1, <1>3 DEF Encoder, TakesEncoder, Scalars
<1> QED BY <1>2, <1>3

(* A payload continues the stream of the encoder. *)
Continues(e, payload) ==
    \A k \in 1..Len(payload) : payload[k].enc = e.id /\ payload[k].no = Len(e.output) + k - 1

LEMMA PayloadFacts ==
    ASSUME Scalars, Scalars', Grows, Streams, TakesEncoder,
           NEW final \in BOOLEAN, NEW payload \in Payloads(final)
    PROVE  /\ payload \in Seq(Pages')
           /\ Continues(Encoder, payload)
           /\ Encoded(payload) \in [id : 1..encoders', output : Seq(Pages')]
           /\ Encoded(payload).id = Encoder.id
           /\ Encoded(payload).output = Encoder.output \o payload
<1>1. PICK n \in 0..MaxPages :
        payload = [i \in 1..n |-> Page(Encoder.id, Len(Encoder.output) + i - 1, final /\ i = n)]
  BY DEF Payloads
<1>2. Encoder \in [id : 1..encoders', output : Seq(Pages')]
  BY EncoderTaken
<1>3. Len(Encoder.output) \in Nat /\ n \in Nat
  BY <1>2, BoundsAssumption
<1>4. ASSUME NEW i \in 1..n
      PROVE  Page(Encoder.id, Len(Encoder.output) + i - 1, final /\ i = n) \in Pages'
  <2>1. (final /\ i = n) \in BOOLEAN
    OBVIOUS
  <2>2. Len(Encoder.output) + i - 1 \in Nat /\ Encoder.id \in 1..encoders'
    BY <1>2, <1>3
  <2> QED BY <2>1, <2>2 DEF Page, Pages
<1>5. payload \in Seq(Pages') /\ Len(payload) = n
  BY <1>1, <1>3, <1>4
<1>6. Continues(Encoder, payload)
  BY <1>1, <1>5 DEF Continues, Page
<1>7. /\ Encoded(payload) \in [id : 1..encoders', output : Seq(Pages')]
      /\ Encoded(payload).id = Encoder.id
      /\ Encoded(payload).output = Encoder.output \o payload
  <2>1. Encoder.output \o payload \in Seq(Pages')
    BY <1>2, <1>5
  <2> QED BY <1>2, <2>1 DEF Encoded
<1> QED BY <1>5, <1>6, <1>7

(* The counters and flags of each step. *)
LEMMA StepScalars == ASSUME TypeOK, [Next]_vars PROVE Scalars' /\ Grows
<1> USE BoundsAssumption
<1>1. Scalars
  BY TypeParts
<1>2. CASE UNCHANGED vars
  BY <1>1, <1>2 DEF Scalars, Grows, vars
<1>3. CASE Start
  BY <1>1, <1>3 DEF Start, Crosses, Scalars, Grows, none
<1>4. CASE Close
  BY <1>1, <1>4 DEF Close, Crosses, Scalars, Grows, none
<1>5. CASE ConnBreaks
  BY <1>1, <1>5 DEF ConnBreaks, Scalars, Grows
<1>6. ASSUME TakesRequest, TakesEncoder, conns' = conns, conn # "nil",
             conn' \in {"up", "broken", "failed"}, currentReqID' \in {none, Request},
             opusFailed' \in BOOLEAN, UNCHANGED crossed
      PROVE  Scalars' /\ Grows
  <2>1. encoders' \in Nat /\ encoders <= encoders'
    BY <1>1, <1>6 DEF TakesEncoder, Scalars
  <2> QED BY <1>1, <1>6, <2>1, RequestTaken DEF Scalars, Grows, none
<1>7. CASE SendBuffers
  BY <1>1, <1>6, <1>7 DEF SendBuffers, Scalars
<1>8. CASE SendEncodeFails
  BY <1>1, <1>6, <1>8 DEF SendEncodeFails, Scalars
<1>9. CASE SendWritten
  BY <1>1, <1>6, <1>9 DEF SendWritten, CanWrite, Scalars
<1>10. CASE SendFails
  BY <1>1, <1>6, <1>10 DEF SendFails, WriteErrs, Scalars
<1>11. CASE Interrupt
  BY <1>1, <1>11 DEF Interrupt, Crosses, Scalars, Grows, none
<1>12. CASE InterruptFails
  BY <1>1, <1>12 DEF InterruptFails, WriteErrs, Scalars, Grows
<1> QED BY <1>2, <1>3, <1>4, <1>5, <1>7, <1>8, <1>9, <1>10, <1>11, <1>12 DEF Next

(* The message and the call of a written chunk. *)
LEMMA WrittenTypes == ASSUME TypeOK, SendWritten, Scalars', Grows PROVE Streams' /\ Wire'
<1>1. Scalars /\ Streams /\ Wire
  BY TypeParts
<1>a. PICK final \in BOOLEAN : \E payload \in Payloads(final) :
        /\ wire' = Append(wire, Audio(Request, payload, final))
        /\ notified' = IF final /\ Encoded(payload).output # <<>>
                         THEN Append(notified, [req |-> Request, stream |-> Encoded(payload).output])
                         ELSE notified
        /\ encoder' = IF final THEN NoEncoder ELSE Encoded(payload)
  BY DEF SendWritten
<1>2. PICK payload \in Payloads(final) :
        /\ wire' = Append(wire, Audio(Request, payload, final))
        /\ notified' = IF final /\ Encoded(payload).output # <<>>
                         THEN Append(notified, [req |-> Request, stream |-> Encoded(payload).output])
                         ELSE notified
        /\ encoder' = IF final THEN NoEncoder ELSE Encoded(payload)
  BY <1>a
<1>3. TakesRequest /\ TakesEncoder /\ conns' = conns /\ conn # "nil" /\ Len(wire) < MaxWrites
  BY DEF SendWritten, CanWrite
<1>4. Request \in 1..reqs' /\ conns \in 1..conns'
  BY <1>1, <1>3, RequestTaken DEF Scalars
<1>5. /\ payload \in Seq(Pages')
      /\ Encoded(payload) \in [id : 1..encoders', output : Seq(Pages')]
  BY <1>1, <1>3, PayloadFacts
<1>6. Audio(Request, payload, final) \in Message'
  <2> HIDE DEF Pages
  <2> QED BY <1>4, <1>5 DEF Audio, Message
<1>7. Wire'
  BY <1>1, <1>2, <1>3, <1>6, WireAppends
<1>8. encoder' \in [id : 0..encoders', output : Seq(Pages')]
  <2>1. NoEncoder \in [id : 0..encoders', output : Seq(Pages')]
    <3>1. <<>> \in Seq(Pages')
      OBVIOUS
    <3> QED BY <3>1 DEF NoEncoder, Scalars
  <2> QED BY <1>2, <1>5, <2>1
<1>9. notified' \in Seq([req : 1..reqs', stream : Seq(Pages')])
  <2>1. notified \in Seq([req : 1..reqs', stream : Seq(Pages')])
    BY <1>1, NotifiedGrow
  <2>2. [req |-> Request, stream |-> Encoded(payload).output] \in [req : 1..reqs', stream : Seq(Pages')]
    BY <1>4, <1>5
  <2>3. CASE final /\ Encoded(payload).output # <<>>
    BY <1>2, <2>1, <2>2, <2>3
  <2>4. CASE ~(final /\ Encoded(payload).output # <<>>)
    BY <1>2, <2>1, <2>4
  <2> QED BY <2>3, <2>4
<1> QED BY <1>7, <1>8, <1>9 DEF Streams

LEMMA StepTypes == ASSUME TypeOK, [Next]_vars PROVE TypeOK'
<1>1. Scalars /\ Streams /\ Wire /\ Scalars' /\ Grows
  BY TypeParts, StepScalars
<1>2. CASE UNCHANGED <<encoder, notified, wire>>
  BY <1>1, <1>2, StreamsKept, WireGrows, TypePartsNext
<1>3. CASE SendWritten
  BY <1>1, <1>3, WrittenTypes, TypePartsNext
<1>4. CASE Interrupt
  <2>1. lastReqID \in 1..reqs' /\ conns \in 1..conns' /\ Len(wire) < MaxWrites
    BY <1>1, <1>4 DEF Interrupt, CanWrite, Scalars, none
  <2>2. <<>> \in Seq(Pages')
    OBVIOUS
  <2>3. InterruptOf(lastReqID) \in Message'
    BY <2>1, <2>2 DEF InterruptOf, Message
  <2>4. Wire'
    BY <1>1, <1>4, <2>1, <2>3, WireAppends DEF Interrupt
  <2> QED BY <1>1, <1>4, <2>4, StreamsKept, TypePartsNext DEF Interrupt
<1>5. ASSUME UNCHANGED <<wire, notified>>, encoder' \in [id : 0..encoders', output : Seq(Pages')] PROVE TypeOK'
  BY <1>1, <1>5, NotifiedGrow, WireGrows, TypePartsNext DEF Streams
<1>6. CASE SendBuffers
  <2>1. encoder' \in [id : 0..encoders', output : Seq(Pages')]
    BY <1>1, <1>6, EncoderTaken DEF SendBuffers
  <2> QED BY <1>5, <1>6, <2>1 DEF SendBuffers
<1>7. CASE SendEncodeFails \/ SendFails
  <2>a. PICK final \in BOOLEAN : \E payload \in Payloads(final) : encoder' = Encoded(payload)
    BY <1>7 DEF SendEncodeFails, SendFails
  <2>1. PICK payload \in Payloads(final) : encoder' = Encoded(payload)
    BY <2>a
  <2>2. TakesEncoder /\ UNCHANGED <<wire, notified>>
    BY <1>7 DEF SendEncodeFails, SendFails
  <2>3. encoder' \in [id : 1..encoders', output : Seq(Pages')]
    BY <1>1, <2>1, <2>2, PayloadFacts
  <2>4. encoder' \in [id : 0..encoders', output : Seq(Pages')]
    BY <2>3
  <2> QED BY <1>5, <2>2, <2>4
<1>8. CASE Start \/ Close \/ ConnBreaks \/ InterruptFails
  BY <1>2, <1>8 DEF Start, Close, ConnBreaks, InterruptFails
<1> QED BY <1>2, <1>3, <1>4, <1>6, <1>7, <1>8 DEF Next, vars

LEMMA InitTypes == Init => TypeOK
<1> SUFFICES ASSUME Init PROVE TypeOK
  OBVIOUS
<1>1. Scalars
  <2>1. opusFailed \in BOOLEAN /\ crossed \in BOOLEAN
    BY DEF Init
  <2> QED BY <2>1, BoundsAssumption DEF Init, Scalars, none
<1>2. <<>> \in Seq(Pages) /\ <<>> \in Seq(Message) /\ <<>> \in Seq([req : 1..reqs, stream : Seq(Pages)])
  OBVIOUS
<1>3. Streams /\ Wire
  BY <1>2, BoundsAssumption DEF Init, Streams, Wire, NoEncoder
<1> QED BY <1>1, <1>3, TypeParts

(* TypeOK is an invariant: in particular the id of the newest request is    *)
(* the one Interrupt uses, whatever failed in between.                      *)
THEOREM TypeCorrect == Spec => []TypeOK
<1>1. TypeOK /\ [Next]_vars => TypeOK'
  BY StepTypes
<1> QED BY <1>1, InitTypes, PTL DEF Spec

--------------------------------------------------------------------------------
(* The messages of a step. *)

LEMMA WireFacts ==
    ASSUME TypeOK
    PROVE  /\ DOMAIN wire = 1..Len(wire) /\ Len(wire) \in Nat
           /\ \A i \in DOMAIN wire : wire[i].req \in 1..reqs /\ wire[i].pages \in Seq(Pages)
<1>1. wire \in Seq(Message)
  BY DEF TypeOK
<1>2. \A i \in DOMAIN wire : wire[i] \in Message
  BY <1>1
<1> HIDE DEF Pages
<1> QED BY <1>1, <1>2 DEF Message

LEMMA Appending ==
    ASSUME TypeOK, NEW m, wire' = Append(wire, m)
    PROVE  /\ DOMAIN wire' = 1..Len(wire) + 1
           /\ wire'[Len(wire) + 1] = m
           /\ \A i \in DOMAIN wire : wire'[i] = wire[i]
BY DEF TypeOK

(* Every step that writes writes one message, for the request SendAudio or  *)
(* Interrupt is about.                                                      *)
LEMMA StepWrites ==
    ASSUME [Next]_vars
    PROVE  SendWritten \/ Interrupt \/ UNCHANGED wire
BY DEF Next, vars, Start, Close, ConnBreaks, SendBuffers, SendEncodeFails, SendFails, InterruptFails

--------------------------------------------------------------------------------
(* Requests end. *)

Ended(i) == wire[i].end \/ wire[i].kind = "interrupt"

(* The current request has not ended. *)
CurrentIsOpen == \A i \in DOMAIN wire : Ended(i) => wire[i].req # currentReqID

EndInv == TypeOK /\ CurrentIsOpen /\ NothingAfterEnd

(* A request that SendAudio works on has not ended. *)
LEMMA RequestIsOpen ==
    ASSUME TypeOK, CurrentIsOpen, TakesRequest
    PROVE  \A i \in DOMAIN wire : Ended(i) => wire[i].req # Request
<1>1. \A i \in DOMAIN wire : wire[i].req \in 1..reqs
  BY WireFacts
<1>2. Request = IF currentReqID = none THEN reqs + 1 ELSE currentReqID
  BY DEF Request
<1>3. reqs \in Nat
  BY DEF TypeOK
<1> QED BY <1>1, <1>2, <1>3 DEF CurrentIsOpen

LEMMA WrittenEnds == ASSUME EndInv, TypeOK', SendWritten PROVE EndInv'
<1>1. TypeOK /\ CurrentIsOpen /\ NothingAfterEnd /\ TakesRequest
  BY DEF EndInv, SendWritten
<1>a. PICK final \in BOOLEAN : \E payload \in Payloads(final) :
        /\ wire' = Append(wire, Audio(Request, payload, final))
        /\ currentReqID' = IF final THEN none ELSE Request
  BY DEF SendWritten
<1>2. PICK payload \in Payloads(final) :
        /\ wire' = Append(wire, Audio(Request, payload, final))
        /\ currentReqID' = IF final THEN none ELSE Request
  BY <1>a
<1> DEFINE N == Len(wire) + 1
<1>3. /\ DOMAIN wire' = 1..N /\ DOMAIN wire = 1..N - 1 /\ N \in Nat
      /\ wire'[N] = Audio(Request, payload, final)
      /\ \A i \in 1..N - 1 : wire'[i] = wire[i]
  BY <1>1, <1>2, Appending, WireFacts
<1>4. wire'[N].req = Request /\ wire'[N].kind = "audio" /\ wire'[N].end = final
  BY <1>3 DEF Audio
<1>5. \A i \in 1..N - 1 : Ended(i) => wire[i].req # Request
  BY <1>1, <1>3, RequestIsOpen
<1> HIDE DEF N
<1>6. CurrentIsOpen'
  <2> SUFFICES ASSUME NEW i \in 1..N, Ended(i)' PROVE wire'[i].req # currentReqID'
    BY <1>3 DEF CurrentIsOpen
  <2>1. CASE i = N
    <3>1. final
      BY <1>4, <2>1 DEF Ended
    <3>2. Request \in Nat \ {0}
      BY <1>1 DEF Request, TypeOK, none
    <3> QED BY <1>2, <1>4, <2>1, <3>1, <3>2 DEF none
  <2>2. CASE i # N
    <3>1. i \in 1..N - 1
      BY <1>3, <2>2
    <3>2. Ended(i) /\ wire[i].req \in 1..reqs
      BY <1>1, <1>3, <3>1, WireFacts DEF Ended
    <3>3. wire[i].req # Request /\ wire[i].req # none
      BY <1>5, <3>1, <3>2 DEF none
    <3> QED BY <1>2, <1>3, <3>1, <3>3
  <2> QED BY <2>1, <2>2
<1>7. NothingAfterEnd'
  <2> SUFFICES ASSUME NEW i \in 1..N, NEW j \in 1..N, i < j, wire'[i].req = wire'[j].req, Ended(i)'
               PROVE  wire'[j].kind = "interrupt"
    BY <1>3 DEF NothingAfterEnd, Ended
  <2>1. i \in 1..N - 1
    BY <1>3
  <2>2. Ended(i) /\ wire'[i] = wire[i]
    BY <1>3, <2>1 DEF Ended
  <2>3. j # N
    BY <1>4, <1>5, <2>1, <2>2
  <2>4. j \in 1..N - 1
    BY <1>3, <2>3
  <2> QED BY <1>1, <1>3, <2>1, <2>2, <2>4 DEF NothingAfterEnd, Ended
<1> QED BY <1>6, <1>7 DEF EndInv

LEMMA InterruptEnds == ASSUME EndInv, TypeOK', Interrupt PROVE EndInv'
<1>1. TypeOK /\ NothingAfterEnd
  BY DEF EndInv
<1> DEFINE N == Len(wire) + 1
<1>2. /\ DOMAIN wire' = 1..N /\ DOMAIN wire = 1..N - 1 /\ N \in Nat
      /\ wire'[N] = InterruptOf(lastReqID)
      /\ \A i \in 1..N - 1 : wire'[i] = wire[i]
  BY <1>1, Appending, WireFacts DEF Interrupt
<1>3. wire'[N].kind = "interrupt"
  BY <1>2 DEF InterruptOf
<1> HIDE DEF N
<1>4. CurrentIsOpen'
  <2>1. wire' \in Seq(Message')
    BY DEF TypeOK
  <2>2. \A i \in DOMAIN wire' : wire'[i] \in Message'
    BY <2>1
  <2>3. \A i \in DOMAIN wire' : wire'[i].req \in 1..reqs'
    BY <2>2 DEF Message
  <2>4. currentReqID' = 0
    BY DEF Interrupt, none
  <2> QED BY <2>3, <2>4 DEF CurrentIsOpen
<1>5. NothingAfterEnd'
  <2> SUFFICES ASSUME NEW i \in 1..N, NEW j \in 1..N, i < j, wire'[i].req = wire'[j].req, Ended(i)'
               PROVE  wire'[j].kind = "interrupt"
    BY <1>2 DEF NothingAfterEnd, Ended
  <2>1. i \in 1..N - 1 /\ wire'[i] = wire[i]
    BY <1>2
  <2>2. CASE j = N
    BY <1>3, <2>2
  <2>3. CASE j # N
    <3>1. j \in 1..N - 1 /\ wire'[j] = wire[j]
      BY <1>2, <2>3
    <3> QED BY <1>1, <1>2, <2>1, <3>1 DEF NothingAfterEnd, Ended
  <2> QED BY <2>2, <2>3
<1> QED BY <1>4, <1>5 DEF EndInv

LEMMA StepEnds == ASSUME EndInv, [Next]_vars PROVE EndInv'
<1>1. TypeOK /\ TypeOK'
  BY StepTypes DEF EndInv
<1>2. CASE SendWritten
  BY <1>1, <1>2, WrittenEnds
<1>3. CASE Interrupt
  BY <1>1, <1>3, InterruptEnds
<1>4. CASE UNCHANGED wire
  <2>1. NothingAfterEnd'
    BY <1>4 DEF EndInv, NothingAfterEnd
  <2>2. UNCHANGED currentReqID \/ (TakesRequest /\ currentReqID' = Request) \/ SendWritten \/ Interrupt
    BY DEF Next, vars, Start, Close, ConnBreaks, SendBuffers, SendEncodeFails, SendFails, InterruptFails
  <2>3. CASE UNCHANGED currentReqID
    <3>1. CurrentIsOpen'
      BY <1>4, <2>3 DEF EndInv, CurrentIsOpen, Ended
    <3> QED BY <1>1, <2>1, <3>1 DEF EndInv
  <2>4. CASE TakesRequest /\ currentReqID' = Request
    <3>1. CurrentIsOpen'
      BY <1>1, <1>4, <2>4, RequestIsOpen DEF EndInv, CurrentIsOpen, Ended
    <3> QED BY <1>1, <2>1, <3>1 DEF EndInv
  <2> QED BY <1>2, <1>3, <2>2, <2>3, <2>4
<1> QED BY <1>2, <1>3, <1>4, StepWrites

(* NothingAfterEnd is an invariant: after its last audio or an interrupt a  *)
(* request carries nothing but interrupts, whatever the user calls and      *)
(* whatever fails.                                                          *)
THEOREM RequestsEnd == Spec => []NothingAfterEnd
<1>1. Init => EndInv
  BY InitTypes DEF Init, EndInv, CurrentIsOpen, NothingAfterEnd
<1>2. EndInv /\ [Next]_vars => EndInv'
  BY StepEnds
<1>3. EndInv => NothingAfterEnd
  BY DEF EndInv
<1> QED BY <1>1, <1>2, <1>3, PTL DEF Spec

--------------------------------------------------------------------------------
(* A request is one stream. *)

(* What is written for r ends at page len of encoder id, on this connection. *)
Joint(r, id, len) ==
    /\ \A i \in Sent(r) : wire[i].conn = conns
    /\ \/ Carriers(r) = {} /\ len = 0
       \/ \E j \in Carriers(r) :
            /\ \A k \in Carriers(r) : k <= j
            /\ Last(wire[j].pages).enc = id /\ Last(wire[j].pages).no + 1 = len

AllContinuous == \A r \in Nat : Continuous(r)

(* There is an encoder just while a request is current... *)
EncoderOfRequest == currentReqID = none <=> encoder.id = 0

(* ... and as long as it can be written, all its pages were. *)
EncoderOnWire == currentReqID # none /\ CanWrite => Joint(currentReqID, encoder.id, Len(encoder.output))

Uncrossed == ~opusFailed /\ ~crossed

StreamInv == TypeOK /\ (Uncrossed => AllContinuous /\ EncoderOfRequest /\ EncoderOnWire)

LEMMA IndexFacts == ASSUME TypeOK, NEW r PROVE Sent(r) \subseteq 1..Len(wire) /\ Carriers(r) \subseteq Sent(r) /\ Len(wire) \in Nat
BY WireFacts DEF Sent, Carriers

(* A message of another request, or an interrupt, changes nothing for r. *)
LEMMA OthersKept ==
    ASSUME TypeOK, NEW m, wire' = Append(wire, m), NEW r, m.kind = "interrupt" \/ m.req # r, Continuous(r)
    PROVE  Continuous(r)'
<1> DEFINE N == Len(wire) + 1
<1>1. /\ DOMAIN wire' = 1..N /\ wire'[N] = m /\ \A i \in 1..N - 1 : wire'[i] = wire[i]
      /\ DOMAIN wire = 1..N - 1 /\ N \in Nat
  BY Appending, WireFacts
<1> HIDE DEF N
<1>2. Sent(r)' = Sent(r)
  BY <1>1 DEF Sent
<1>3. \A i \in Sent(r) : i \in 1..N - 1 /\ wire'[i] = wire[i]
  BY <1>1 DEF Sent
<1>4. Carriers(r)' = Carriers(r)
  BY <1>2, <1>3 DEF Carriers
<1>5. \A i \in Carriers(r) : wire'[i] = wire[i]
  BY <1>3 DEF Carriers
<1>6. \A i, j \in Sent(r)' : wire'[i].conn = wire'[j].conn
  <2> SUFFICES ASSUME NEW i \in Sent(r), NEW j \in Sent(r) PROVE wire'[i].conn = wire'[j].conn
    BY <1>2
  <2>1. wire[i].conn = wire[j].conn
    BY DEF Continuous
  <2>2. wire'[i] = wire[i] /\ wire'[j] = wire[j]
    BY <1>3
  <2> QED BY <2>1, <2>2
<1>7. ASSUME NEW i \in Carriers(r)'
      PROVE  /\ \A k \in 2..Len(wire'[i].pages) : Follows(wire'[i].pages[k - 1], wire'[i].pages[k])
             /\ \/ wire'[i].pages[1].no = 0 /\ \A j \in Carriers(r)' : i <= j
                \/ \E j \in Carriers(r)' :
                     /\ j < i /\ \A k \in Carriers(r)' : k <= j \/ i <= k
                     /\ Follows(Last(wire'[j].pages), wire'[i].pages[1])
  <2>1. i \in Carriers(r) /\ wire'[i] = wire[i]
    BY <1>4, <1>5
  <2>2. CASE wire[i].pages[1].no = 0 /\ \A j \in Carriers(r) : i <= j
    BY <1>4, <2>1, <2>2 DEF Continuous
  <2>3. CASE ~(wire[i].pages[1].no = 0 /\ \A j \in Carriers(r) : i <= j)
    <3>1. PICK j \in Carriers(r) :
            /\ j < i /\ \A k \in Carriers(r) : k <= j \/ i <= k
            /\ Follows(Last(wire[j].pages), wire[i].pages[1])
      BY <2>1, <2>3 DEF Continuous
    <3>2. wire'[j] = wire[j]
      BY <1>5
    <3>3. \A k \in 2..Len(wire'[i].pages) : Follows(wire'[i].pages[k - 1], wire'[i].pages[k])
      BY <2>1 DEF Continuous
    <3> QED BY <1>4, <2>1, <3>1, <3>2, <3>3
  <2> QED BY <2>2, <2>3
<1> QED BY <1>6, <1>7 DEF Continuous

(* A payload that continues the encoder's pages continues the request's.    *)
LEMMA StreamGrows ==
    ASSUME TypeOK, NEW r, NEW id, NEW len \in Nat, NEW S, NEW payload \in Seq(S), NEW final,
           wire' = Append(wire, [kind |-> "audio", conn |-> conns, req |-> r, pages |-> payload, end |-> final]),
           conns' = conns, Continuous(r), Joint(r, id, len),
           \A k \in 1..Len(payload) : payload[k].enc = id /\ payload[k].no = len + k - 1
    PROVE  Continuous(r)' /\ Joint(r, id, len + Len(payload))'
<1> DEFINE N == Len(wire) + 1
           m == [kind |-> "audio", conn |-> conns, req |-> r, pages |-> payload, end |-> final]
<1>1. /\ DOMAIN wire' = 1..N /\ wire'[N] = m /\ \A i \in 1..N - 1 : wire'[i] = wire[i]
      /\ DOMAIN wire = 1..N - 1 /\ N \in Nat
  BY Appending, WireFacts
<1>2. wire'[N].kind = "audio" /\ wire'[N].req = r /\ wire'[N].conn = conns /\ wire'[N].pages = payload
  BY <1>1
<1> HIDE DEF N, m
<1>3. Sent(r)' = Sent(r) \cup {N} /\ Sent(r) \subseteq 1..N - 1
  BY <1>1, <1>2 DEF Sent
<1>4. \A i \in Sent(r) : wire'[i] = wire[i]
  BY <1>1, <1>3
<1>5. Carriers(r)' = Carriers(r) \cup (IF payload # <<>> THEN {N} ELSE {})
  BY <1>2, <1>3, <1>4 DEF Carriers
<1>6. Carriers(r) \subseteq 1..N - 1 /\ \A i \in Carriers(r) : wire'[i] = wire[i]
  BY <1>3, <1>4 DEF Carriers
<1>7. \A i \in Sent(r)' : wire'[i].conn = conns'
  BY <1>2, <1>3, <1>4 DEF Joint
<1>8. ASSUME NEW i \in Carriers(r)
      PROVE  /\ \A k \in 2..Len(wire'[i].pages) : Follows(wire'[i].pages[k - 1], wire'[i].pages[k])
             /\ \/ wire'[i].pages[1].no = 0 /\ \A j \in Carriers(r)' : i <= j
                \/ \E j \in Carriers(r)' :
                     /\ j < i /\ \A k \in Carriers(r)' : k <= j \/ i <= k
                     /\ Follows(Last(wire'[j].pages), wire'[i].pages[1])
  <2>1. wire'[i] = wire[i] /\ i \in 1..N - 1 /\ i <= N
    BY <1>1, <1>6
  <2>2. \A k \in 2..Len(wire'[i].pages) : Follows(wire'[i].pages[k - 1], wire'[i].pages[k])
    BY <2>1 DEF Continuous
  <2>3. CASE wire[i].pages[1].no = 0 /\ \A j \in Carriers(r) : i <= j
    BY <1>5, <2>1, <2>2, <2>3
  <2>4. CASE \E j \in Carriers(r) :
                /\ j < i /\ \A k \in Carriers(r) : k <= j \/ i <= k
                /\ Follows(Last(wire[j].pages), wire[i].pages[1])
    <3>1. PICK j \in Carriers(r) :
                /\ j < i /\ \A k \in Carriers(r) : k <= j \/ i <= k
                /\ Follows(Last(wire[j].pages), wire[i].pages[1])
      BY <2>4
    <3>2. j \in Carriers(r)' /\ wire'[j] = wire[j]
      BY <1>5, <1>6
    <3>3. \A k \in Carriers(r)' : k <= j \/ i <= k
      BY <1>5, <2>1, <3>1
    <3> QED BY <2>1, <2>2, <3>1, <3>2, <3>3
  <2> QED BY <2>3, <2>4 DEF Continuous
<1>9. CASE payload = <<>>
  <2>1. Carriers(r)' = Carriers(r) /\ Len(payload) = 0 /\ len + Len(payload) = len
    BY <1>5, <1>9
  <2>2. Continuous(r)'
    BY <1>7, <1>8, <2>1 DEF Continuous
  <2>3. Joint(r, id, len)'
    BY <1>6, <1>7, <2>1 DEF Joint
  <2> QED BY <2>1, <2>2, <2>3
<1>10. CASE payload # <<>>
  <2>1. Carriers(r)' = Carriers(r) \cup {N} /\ Len(payload) \in Nat \ {0}
    BY <1>5, <1>10
  <2>2. payload[1].enc = id /\ payload[1].no = len
    BY <2>1
  <2>3. \A k \in 2..Len(payload) : Follows(payload[k - 1], payload[k])
    <3> TAKE k \in 2..Len(payload)
    <3>1. k - 1 \in 1..Len(payload) /\ k \in 1..Len(payload)
      BY <2>1
    <3>2. payload[k].enc = id /\ payload[k].no = len + k - 1 /\ payload[k - 1].enc = id /\ payload[k - 1].no = len + (k - 1) - 1
      BY <3>1
    <3> QED BY <3>1, <3>2 DEF Follows
  <2>4. \/ payload[1].no = 0 /\ \A j \in Carriers(r)' : N <= j
        \/ \E j \in Carriers(r)' :
             /\ j < N /\ \A k \in Carriers(r)' : k <= j \/ N <= k
             /\ Follows(Last(wire'[j].pages), payload[1])
    <3>1. CASE Carriers(r) = {} /\ len = 0
      <4>1. Carriers(r)' = {N} /\ N <= N
        BY <1>1, <2>1, <3>1
      <4>2. payload[1].no = 0
        BY <2>2, <3>1
      <4> QED BY <4>1, <4>2
    <3>2. CASE \E j \in Carriers(r) :
                 /\ \A k \in Carriers(r) : k <= j
                 /\ Last(wire[j].pages).enc = id /\ Last(wire[j].pages).no + 1 = len
      <4>1. PICK j \in Carriers(r) :
                 /\ \A k \in Carriers(r) : k <= j
                 /\ Last(wire[j].pages).enc = id /\ Last(wire[j].pages).no + 1 = len
        BY <3>2
      <4>2. j \in Carriers(r)' /\ j < N /\ wire'[j] = wire[j]
        BY <1>1, <1>6, <2>1
      <4>3. Follows(Last(wire'[j].pages), payload[1])
        BY <2>2, <4>1, <4>2 DEF Follows
      <4>4. \A k \in Carriers(r)' : k <= j \/ N <= k
        BY <1>1, <2>1, <4>1
      <4> QED BY <4>2, <4>3, <4>4
    <3> QED BY <3>1, <3>2 DEF Joint
  <2>5. Continuous(r)'
    BY <1>2, <1>7, <1>8, <2>1, <2>3, <2>4 DEF Continuous
  <2>6. Joint(r, id, len + Len(payload))'
    <3>1. Last(payload).enc = id /\ Last(payload).no + 1 = len + Len(payload)
      BY <2>1 DEF Last
    <3>2. N \in Carriers(r)' /\ \A k \in Carriers(r)' : k <= N
      BY <1>1, <1>6, <2>1
    <3> QED BY <1>2, <1>7, <3>1, <3>2 DEF Joint
  <2> QED BY <2>5, <2>6
<1> QED BY <1>9, <1>10

(* A request SendAudio works on continues with the encoder it takes.        *)
LEMMA RequestJoins ==
    ASSUME StreamInv, Uncrossed, TakesRequest, TakesEncoder, CanWrite, TypeOK', Grows
    PROVE  /\ Encoder.id # 0 /\ Len(Encoder.output) \in Nat
           /\ Joint(Request, Encoder.id, Len(Encoder.output))
<1>1. TypeOK /\ EncoderOfRequest /\ EncoderOnWire
  BY DEF StreamInv
<1>2. Scalars /\ Scalars' /\ Streams
  BY <1>1, TypeParts DEF TypeOK, Scalars
<1>3. Encoder \in [id : 1..encoders', output : Seq(Pages')]
  BY <1>2, EncoderTaken
<1>4. Encoder.id # 0 /\ Len(Encoder.output) \in Nat
  BY <1>3
<1>5. CASE currentReqID = none
  <2>1. Encoder.output = <<>>
    BY <1>1, <1>2, <1>5, EncoderTaken DEF EncoderOfRequest
  <2>2. Request = reqs + 1 /\ reqs \in Nat
    BY <1>1, <1>5 DEF Request, TypeOK
  <2>3. Sent(Request) = {}
    BY <1>1, <2>2, WireFacts DEF Sent
  <2>4. Carriers(Request) = {} /\ Len(Encoder.output) = 0
    BY <2>1, <2>3 DEF Carriers
  <2>5. Joint(Request, Encoder.id, Len(Encoder.output))
    BY <2>3, <2>4 DEF Joint
  <2> QED BY <1>4, <2>5
<1>6. CASE currentReqID # none
  <2>1. Request = currentReqID /\ Encoder = encoder
    BY <1>1, <1>6 DEF Request, Encoder, EncoderOfRequest
  <2> QED BY <1>1, <1>4, <1>6, <2>1 DEF EncoderOnWire
<1> QED BY <1>5, <1>6

LEMMA WrittenContinues == ASSUME StreamInv, TypeOK', Grows, Uncrossed, SendWritten PROVE StreamInv'
<1>1. TypeOK /\ AllContinuous
  BY DEF StreamInv
<1>2. TakesRequest /\ TakesEncoder /\ CanWrite /\ conns' = conns /\ conn' = conn
  BY DEF SendWritten
<1>a. PICK final \in BOOLEAN : \E payload \in Payloads(final) :
        /\ wire' = Append(wire, Audio(Request, payload, final))
        /\ encoder' = IF final THEN NoEncoder ELSE Encoded(payload)
        /\ currentReqID' = IF final THEN none ELSE Request
  BY DEF SendWritten
<1>3. PICK payload \in Payloads(final) :
        /\ wire' = Append(wire, Audio(Request, payload, final))
        /\ encoder' = IF final THEN NoEncoder ELSE Encoded(payload)
        /\ currentReqID' = IF final THEN none ELSE Request
  BY <1>a
<1>4. Scalars /\ Scalars' /\ Streams
  BY <1>1, TypeParts DEF TypeOK, Scalars
<1>5. /\ payload \in Seq(Pages') /\ Continues(Encoder, payload)
      /\ Encoded(payload).id = Encoder.id /\ Encoded(payload).output = Encoder.output \o payload
      /\ Encoder.output \in Seq(Pages')
  BY <1>2, <1>4, PayloadFacts, EncoderTaken
<1>6. /\ Encoder.id # 0 /\ Len(Encoder.output) \in Nat
      /\ Joint(Request, Encoder.id, Len(Encoder.output))
  BY <1>2, RequestJoins
<1>7. Request \in Nat /\ Request # none
  BY <1>1 DEF Request, TypeOK, none
<1>8. PICK r, id, len : r = Request /\ id = Encoder.id /\ len = Len(Encoder.output)
  OBVIOUS
<1>9. PICK S : S = Pages'
  OBVIOUS
<1>10. Continuous(r)' /\ Joint(r, id, len + Len(payload))'
  <2>1. len \in Nat /\ payload \in Seq(S) /\ Joint(r, id, len) /\ Continuous(r)
    BY <1>1, <1>5, <1>6, <1>7, <1>8, <1>9 DEF AllContinuous
  <2>2. wire' = Append(wire, [kind |-> "audio", conn |-> conns, req |-> r, pages |-> payload, end |-> final])
    BY <1>3, <1>8 DEF Audio
  <2>3. \A k \in 1..Len(payload) : payload[k].enc = id /\ payload[k].no = len + k - 1
    BY <1>5, <1>8 DEF Continues
  <2> QED BY <1>1, <1>2, <2>1, <2>2, <2>3, StreamGrows
<1>11. AllContinuous'
  <2> SUFFICES ASSUME NEW q \in Nat PROVE Continuous(q)'
    BY DEF AllContinuous
  <2>1. CASE q = r
    BY <1>10, <2>1
  <2>2. CASE q # r
    <3>1. Audio(Request, payload, final).req # q
      BY <1>8, <2>2 DEF Audio
    <3>2. Continuous(q)
      BY <1>1 DEF AllContinuous
    <3> QED BY <1>1, <1>3, <3>1, <3>2, OthersKept
  <2> QED BY <2>1, <2>2
<1>12. CASE final
  <2>1. currentReqID' = none /\ encoder'.id = 0
    BY <1>3, <1>12 DEF NoEncoder
  <2>2. EncoderOfRequest' /\ EncoderOnWire'
    BY <2>1 DEF EncoderOfRequest, EncoderOnWire, none
  <2> QED BY <1>11, <2>2 DEF StreamInv
<1>13. CASE ~final
  <2>1. currentReqID' = r /\ encoder'.id = id /\ encoder'.output = Encoder.output \o payload
    BY <1>3, <1>5, <1>8, <1>13
  <2>2. Len(encoder'.output) = len + Len(payload)
    BY <1>5, <1>8, <2>1
  <2>3. EncoderOfRequest'
    BY <1>6, <1>7, <1>8, <2>1 DEF EncoderOfRequest, none
  <2>4. EncoderOnWire'
    BY <1>10, <2>1, <2>2 DEF EncoderOnWire
  <2> QED BY <1>11, <2>3, <2>4 DEF StreamInv
<1> QED BY <1>12, <1>13

(* Steps that write nothing keep what there is. *)
LEMMA WireKept ==
    ASSUME UNCHANGED <<wire, conns>>, NEW r
    PROVE  /\ Continuous(r) => Continuous(r)'
           /\ \A id, len : Joint(r, id, len) => Joint(r, id, len)'
<1>1. Sent(r)' = Sent(r) /\ Carriers(r)' = Carriers(r)
  BY DEF Sent, Carriers
<1> QED BY <1>1 DEF Continuous, Joint

(* The user crosses no request in a step that ends uncrossed.               *)
LEMMA StepUncrossed ==
    ASSUME [Next]_vars, Uncrossed'
    PROVE  Uncrossed /\ ~SendEncodeFails /\ (Start \/ Close \/ Interrupt => currentReqID = none)
<1>1. ~opusFailed' /\ ~crossed'
  BY DEF Uncrossed
<1>2. ~SendEncodeFails
  BY <1>1 DEF SendEncodeFails
<1>3. opusFailed' = opusFailed
  BY <1>2 DEF Next, vars, Start, Close, ConnBreaks, SendBuffers, SendWritten, SendFails, Interrupt, InterruptFails
<1>4. Crosses \/ crossed' = crossed
  BY DEF Next, vars, Start, Close, ConnBreaks, SendBuffers, SendEncodeFails, SendWritten, SendFails,
         Interrupt, InterruptFails
<1>5. ~crossed
  BY <1>1, <1>4, Zenon DEF Crosses
<1>6. Crosses => currentReqID = none
  BY <1>1, Zenon DEF Crosses
<1>7. Start \/ Close \/ Interrupt => Crosses
  BY DEF Start, Close, Interrupt
<1> QED BY <1>1, <1>2, <1>3, <1>5, <1>6, <1>7 DEF Uncrossed

LEMMA StepContinues == ASSUME StreamInv, [Next]_vars PROVE StreamInv'
<1>1. TypeOK /\ TypeOK' /\ Scalars' /\ Grows
  BY StepTypes, StepScalars DEF StreamInv
<1>2. SUFFICES ASSUME Uncrossed' PROVE AllContinuous' /\ EncoderOfRequest' /\ EncoderOnWire'
  BY <1>1 DEF StreamInv
<1>3. Uncrossed /\ ~SendEncodeFails /\ (Start \/ Close \/ Interrupt => currentReqID = none)
  BY <1>2, StepUncrossed
<1>4. AllContinuous /\ EncoderOfRequest /\ EncoderOnWire
  BY <1>3 DEF StreamInv
<1>5. ASSUME UNCHANGED wire PROVE AllContinuous'
  <2> SUFFICES ASSUME NEW q \in Nat PROVE Continuous(q)'
    BY DEF AllContinuous
  <2>1. Sent(q)' = Sent(q) /\ Carriers(q)' = Carriers(q)
    BY <1>5 DEF Sent, Carriers
  <2>2. Continuous(q)
    BY <1>4 DEF AllContinuous
  <2> QED BY <1>5, <2>1, <2>2 DEF Continuous
<1>6. ASSUME UNCHANGED <<wire, encoder, currentReqID>>, currentReqID = none \/ ~CanWrite'
      PROVE  AllContinuous' /\ EncoderOfRequest' /\ EncoderOnWire'
  BY <1>4, <1>5, <1>6 DEF EncoderOfRequest, EncoderOnWire
<1>7. CASE UNCHANGED <<conns, wire, encoder, currentReqID>> /\ (CanWrite' => CanWrite)
  <2>1. EncoderOnWire'
    <3>1. PICK r, id, len : r = currentReqID /\ id = encoder.id /\ len = Len(encoder.output)
      OBVIOUS
    <3>2. Joint(r, id, len) => Joint(r, id, len)'
      BY <1>7, WireKept
    <3> QED BY <1>4, <1>7, <3>1, <3>2 DEF EncoderOnWire
  <2> QED BY <1>4, <1>5, <1>7, <2>1 DEF EncoderOfRequest
<1>8. CASE UNCHANGED vars
  BY <1>7, <1>8 DEF vars, CanWrite
<1>9. CASE Start
  BY <1>3, <1>6, <1>9 DEF Start
<1>10. CASE Close
  BY <1>6, <1>10 DEF Close, CanWrite
<1>11. CASE ConnBreaks
  BY <1>7, <1>11 DEF ConnBreaks, CanWrite
<1>12. CASE SendWritten
  BY <1>1, <1>2, <1>3, <1>12, WrittenContinues DEF StreamInv
<1>13. CASE SendBuffers
  <2>1. /\ TakesRequest /\ TakesEncoder /\ UNCHANGED <<conn, conns, wire>>
        /\ currentReqID' = Request /\ encoder' = Encoder
    BY <1>13 DEF SendBuffers
  <2>2. Encoder.id # 0
    <3>1. Scalars /\ Streams
      BY <1>1, TypeParts
    <3>2. Encoder.id \in 1..encoders'
      BY <1>1, <2>1, <3>1, EncoderTaken
    <3> QED BY <3>2
  <2>3. Request # none
    BY <1>1 DEF Request, TypeOK, none
  <2>4. EncoderOfRequest'
    BY <2>1, <2>2, <2>3 DEF EncoderOfRequest
  <2>5. EncoderOnWire'
    <3>1. PICK r, id, len : r = Request /\ id = Encoder.id /\ len = Len(Encoder.output)
      OBVIOUS
    <3>2. CanWrite => Joint(r, id, len)
      BY <1>1, <1>3, <2>1, <3>1, RequestJoins
    <3>3. Joint(r, id, len) => Joint(r, id, len)'
      BY <2>1, WireKept
    <3> QED BY <2>1, <3>1, <3>2, <3>3 DEF EncoderOnWire, CanWrite
  <2> QED BY <1>5, <2>1, <2>4, <2>5
<1>14. CASE SendFails
  <2>a. PICK final \in BOOLEAN : \E payload \in Payloads(final) : encoder' = Encoded(payload)
    BY <1>14 DEF SendFails
  <2>1. PICK payload \in Payloads(final) : encoder' = Encoded(payload)
    BY <2>a
  <2>2. TakesRequest /\ TakesEncoder /\ currentReqID' = Request /\ conn' = "failed" /\ wire' = wire
    BY <1>14 DEF SendFails, WriteErrs
  <2>3. encoder'.id \in 1..encoders'
    <3>1. Scalars /\ Streams
      BY <1>1, TypeParts
    <3> QED BY <1>1, <2>1, <2>2, <3>1, PayloadFacts
  <2>4. Request # none /\ encoder'.id # 0
    BY <1>1, <2>3 DEF Request, TypeOK, none
  <2>5. EncoderOfRequest' /\ EncoderOnWire'
    BY <2>2, <2>4 DEF EncoderOfRequest, EncoderOnWire, CanWrite
  <2> QED BY <1>5, <2>2, <2>5
<1>15. CASE Interrupt
  <2>1. currentReqID = none /\ currentReqID' = none /\ encoder' = encoder
    BY <1>3, <1>15 DEF Interrupt
  <2>2. AllContinuous'
    <3> SUFFICES ASSUME NEW q \in Nat PROVE Continuous(q)'
      BY DEF AllContinuous
    <3>1. Continuous(q)
      BY <1>4 DEF AllContinuous
    <3>2. InterruptOf(lastReqID).kind = "interrupt" /\ wire' = Append(wire, InterruptOf(lastReqID))
      BY <1>15 DEF Interrupt, InterruptOf
    <3> QED BY <1>1, <3>1, <3>2, OthersKept
  <2> QED BY <1>4, <2>1, <2>2 DEF EncoderOfRequest, EncoderOnWire
<1>16. CASE InterruptFails
  BY <1>7, <1>16 DEF InterruptFails, WriteErrs, CanWrite
<1> QED BY <1>3, <1>8, <1>9, <1>10, <1>11, <1>12, <1>13, <1>14, <1>15, <1>16 DEF Next

LEMMA InitContinues == Init => StreamInv
<1> SUFFICES ASSUME Init PROVE StreamInv
  OBVIOUS
<1>1. \A r : Sent(r) = {} /\ Carriers(r) = {}
  BY DEF Init, Sent, Carriers
<1>2. AllContinuous
  BY <1>1 DEF AllContinuous, Continuous
<1>3. EncoderOfRequest /\ EncoderOnWire
  BY DEF Init, EncoderOfRequest, EncoderOnWire, NoEncoder, none
<1> QED BY <1>2, <1>3, InitTypes DEF StreamInv

(* StreamContinuous is an invariant: as long as the user interrupts, closes *)
(* and restarts between requests only, each request is one Ogg stream on    *)
(* one connection, with buffered chunks, failed writes and breaks between.  *)
THEOREM StreamsContinue == Spec => []StreamContinuous
<1>1. StreamInv /\ [Next]_vars => StreamInv'
  BY StepContinues
<1>2. StreamInv => StreamContinuous
  BY DEF StreamInv, Uncrossed, AllContinuous, StreamContinuous, TypeOK
<1> QED BY <1>1, <1>2, InitContinues, PTL DEF Spec

--------------------------------------------------------------------------------
(* OnEncodedAudio gets what was written. *)

Numbered(stream) == \A k \in DOMAIN stream : stream[k].no = k - 1

(* The pages of the encoder are numbered from 0, and so are those handed on. *)
PagesInPlace ==
    /\ Numbered(encoder.output)
    /\ \A i \in DOMAIN notified : Numbered(notified[i].stream)

(* A request is not worked on any more when its stream is handed on... *)
CallsEnded == \A i \in DOMAIN notified : notified[i].req \in 1..reqs /\ notified[i].req # currentReqID

(* ... and until then the encoder has what was written for it. *)
EncoderWritten == currentReqID # none /\ CanWrite => Range(encoder.output) = Written(currentReqID)

CallsMatch == \A i \in DOMAIN notified : Range(notified[i].stream) = Written(notified[i].req)

CallbackInv ==
    /\ StreamInv /\ PagesInPlace /\ CallsEnded
    /\ Uncrossed => EncoderWritten /\ CallsMatch

LEMMA RangeOfConcat ==
    ASSUME NEW S, NEW s \in Seq(S), NEW t \in Seq(S)
    PROVE  Range(s \o t) = Range(s) \cup Range(t)
<1>1. /\ DOMAIN (s \o t) = 1..Len(s) + Len(t)
      /\ DOMAIN s = 1..Len(s) /\ DOMAIN t = 1..Len(t) /\ Len(s) \in Nat /\ Len(t) \in Nat
      /\ \A k \in 1..Len(s) : (s \o t)[k] = s[k]
      /\ \A k \in 1..Len(t) : (s \o t)[Len(s) + k] = t[k]
  OBVIOUS
<1>2. PICK u, m, n : u = s \o t /\ m = Len(s) /\ n = Len(t)
  OBVIOUS
<1>3. ASSUME NEW k \in DOMAIN u PROVE u[k] \in Range(s) \cup Range(t)
  <2>1. CASE k \in 1..m
    BY <1>1, <1>2, <2>1 DEF Range
  <2>2. CASE k \notin 1..m
    <3>1. k - m \in 1..n /\ m + (k - m) = k
      BY <1>1, <1>2, <1>3, <2>2
    <3>2. u[k] = t[k - m]
      BY <1>1, <1>2, <3>1
    <3> QED BY <1>1, <1>2, <3>1, <3>2 DEF Range
  <2> QED BY <2>1, <2>2
<1>4. ASSUME NEW x \in Range(s) PROVE x \in Range(u)
  <2>1. PICK k \in 1..m : s[k] = x
    BY <1>1, <1>2, <1>4 DEF Range
  <2>2. k \in DOMAIN u /\ u[k] = x
    BY <1>1, <1>2, <2>1
  <2> QED BY <2>2 DEF Range
<1>5. ASSUME NEW x \in Range(t) PROVE x \in Range(u)
  <2>1. PICK k \in 1..n : t[k] = x
    BY <1>1, <1>2, <1>5 DEF Range
  <2>2. m + k \in DOMAIN u /\ u[m + k] = x
    BY <1>1, <1>2, <2>1
  <2> QED BY <2>2 DEF Range
<1>6. Range(u) \subseteq Range(s) \cup Range(t)
  BY <1>3 DEF Range
<1> QED BY <1>2, <1>4, <1>5, <1>6

(* A message adds its pages to those written for its request, and to no     *)
(* other's.                                                                 *)
LEMMA WrittenGrows ==
    ASSUME TypeOK, NEW S, NEW m, m.pages \in Seq(S), wire' = Append(wire, m), NEW r
    PROVE  Written(r)' = IF m.kind = "audio" /\ m.req = r
                           THEN Written(r) \cup Range(m.pages) ELSE Written(r)
<1> DEFINE N == Len(wire) + 1
<1>1. /\ DOMAIN wire' = 1..N /\ wire'[N] = m /\ \A i \in 1..N - 1 : wire'[i] = wire[i]
      /\ DOMAIN wire = 1..N - 1 /\ N \in Nat
  BY Appending, WireFacts
<1> HIDE DEF N
<1>2. PICK C, D : C = Carriers(r) /\ D = Carriers(r)'
  OBVIOUS
<1>3. C \subseteq 1..N - 1 /\ \A i \in C : wire'[i] = wire[i]
  BY <1>1, <1>2 DEF Carriers, Sent
<1>4. CASE m.kind = "audio" /\ m.req = r /\ m.pages # <<>>
  <2>1. D = C \cup {N}
    BY <1>1, <1>2, <1>4 DEF Carriers, Sent
  <2> QED BY <1>1, <1>2, <1>3, <1>4, <2>1 DEF Written
<1>5. CASE ~(m.kind = "audio" /\ m.req = r /\ m.pages # <<>>)
  <2>1. D = C
    BY <1>1, <1>2, <1>5 DEF Carriers, Sent
  <2>2. Written(r)' = Written(r)
    BY <1>2, <1>3, <2>1 DEF Written
  <2>3. m.pages = <<>> => Range(m.pages) = {}
    BY DEF Range
  <2> QED BY <1>5, <2>2, <2>3
<1> QED BY <1>4, <1>5

LEMMA WrittenKept == ASSUME UNCHANGED wire, NEW r PROVE Written(r)' = Written(r)
BY DEF Written, Carriers, Sent

(* A new request has nothing written; the others keep what they have.       *)
LEMMA NewIsEmpty == ASSUME TypeOK PROVE Written(reqs + 1) = {}
<1>1. Sent(reqs + 1) = {}
  <2>1. reqs \in Nat
    BY DEF TypeOK
  <2> QED BY <2>1, WireFacts DEF Sent
<1> QED BY <1>1 DEF Written, Carriers

(* What the encoder has is what was written for the request at hand.        *)
LEMMA RequestWritten ==
    ASSUME CallbackInv, Uncrossed, Scalars', Grows, TakesEncoder, CanWrite
    PROVE  Range(Encoder.output) = Written(Request)
<1>1. TypeOK /\ EncoderOfRequest /\ EncoderWritten
  BY DEF CallbackInv, StreamInv
<1>2. CASE currentReqID = none
  <2>1. Encoder.output = <<>>
    BY <1>1, <1>2, TypeParts, EncoderTaken DEF EncoderOfRequest
  <2>2. Range(Encoder.output) = {}
    BY <2>1 DEF Range
  <2>3. Request = reqs + 1
    BY <1>2 DEF Request
  <2> QED BY <1>1, <2>2, <2>3, NewIsEmpty
<1>3. CASE currentReqID # none
  <2>1. Request = currentReqID /\ Encoder = encoder
    BY <1>1, <1>3 DEF Request, Encoder, EncoderOfRequest
  <2> QED BY <1>1, <1>3, <2>1 DEF EncoderWritten
<1> QED BY <1>2, <1>3

LEMMA EncoderNumbered ==
    ASSUME TypeOK, PagesInPlace, Scalars', Grows, TakesEncoder
    PROVE  Numbered(Encoder.output)
<1>1. Encoder.output = IF encoder.id = 0 THEN <<>> ELSE encoder.output
  BY TypeParts, EncoderTaken
<1>2. Numbered(<<>>)
  BY DEF Numbered
<1> QED BY <1>1, <1>2 DEF PagesInPlace

LEMMA EncodedNumbered ==
    ASSUME TypeOK, PagesInPlace, Scalars', Grows, TakesEncoder,
           NEW final \in BOOLEAN, NEW payload \in Payloads(final)
    PROVE  Numbered(Encoded(payload).output)
<1>1. Scalars /\ Streams
  BY TypeParts
<1>2. /\ payload \in Seq(Pages') /\ Continues(Encoder, payload)
      /\ Encoded(payload).output = Encoder.output \o payload
      /\ Encoder.output \in Seq(Pages')
  BY <1>1, PayloadFacts, EncoderTaken
<1>3. Numbered(Encoder.output)
  BY EncoderNumbered
<1>4. PICK s, t, u : s = Encoder.output /\ t = payload /\ u = Encoded(payload).output
  OBVIOUS
<1>5. PICK S : S = Pages'
  OBVIOUS
<1>6. s \in Seq(S) /\ t \in Seq(S) /\ u = s \o t
  BY <1>2, <1>4, <1>5
<1>7. /\ DOMAIN u = 1..Len(s) + Len(t) /\ Len(s) \in Nat /\ Len(t) \in Nat
      /\ \A k \in 1..Len(s) : u[k] = s[k]
      /\ \A k \in 1..Len(t) : u[Len(s) + k] = t[k]
  BY <1>6
<1> SUFFICES ASSUME NEW k \in DOMAIN u PROVE u[k].no = k - 1
  BY <1>4 DEF Numbered
<1>8. CASE k \in 1..Len(s)
  BY <1>3, <1>4, <1>6, <1>7, <1>8 DEF Numbered
<1>9. CASE k \notin 1..Len(s)
  <2>1. k - Len(s) \in 1..Len(t) /\ Len(s) + (k - Len(s)) = k
    BY <1>7, <1>9
  <2>2. u[k] = t[k - Len(s)]
    BY <1>7, <2>1
  <2>3. t[k - Len(s)].no = Len(s) + (k - Len(s)) - 1
    BY <1>2, <1>4, <2>1 DEF Continues
  <2> QED BY <1>7, <2>1, <2>2, <2>3
<1> QED BY <1>8, <1>9

(* A written chunk. *)
LEMMA WrittenMatches ==
    ASSUME CallbackInv, TypeOK', Scalars', Grows, SendWritten
    PROVE  PagesInPlace' /\ CallsEnded' /\ (Uncrossed => EncoderWritten' /\ CallsMatch')
<1>1. TypeOK /\ PagesInPlace /\ CallsEnded /\ Scalars /\ Streams
  BY TypeParts DEF CallbackInv, StreamInv
<1>2. TakesRequest /\ TakesEncoder /\ CanWrite
  BY DEF SendWritten
<1>a. PICK final \in BOOLEAN : \E payload \in Payloads(final) :
        /\ wire' = Append(wire, Audio(Request, payload, final))
        /\ notified' = IF final /\ Encoded(payload).output # <<>>
                         THEN Append(notified, [req |-> Request, stream |-> Encoded(payload).output])
                         ELSE notified
        /\ encoder' = IF final THEN NoEncoder ELSE Encoded(payload)
        /\ currentReqID' = IF final THEN none ELSE Request
  BY DEF SendWritten
<1>3. PICK payload \in Payloads(final) :
        /\ wire' = Append(wire, Audio(Request, payload, final))
        /\ notified' = IF final /\ Encoded(payload).output # <<>>
                         THEN Append(notified, [req |-> Request, stream |-> Encoded(payload).output])
                         ELSE notified
        /\ encoder' = IF final THEN NoEncoder ELSE Encoded(payload)
        /\ currentReqID' = IF final THEN none ELSE Request
  BY <1>a
<1>4. /\ payload \in Seq(Pages') /\ Encoder.output \in Seq(Pages')
      /\ Encoded(payload).output = Encoder.output \o payload
  BY <1>1, <1>2, PayloadFacts, EncoderTaken
<1>5. /\ Request = reqs' /\ Request \in 1..reqs' /\ reqs \in Nat /\ reqs <= reqs'
      /\ Request = IF currentReqID = none THEN reqs + 1 ELSE currentReqID
  BY <1>1, <1>2, RequestTaken DEF Request, Scalars
<1>6. PICK out : out = Encoded(payload).output /\ Numbered(out)
  BY <1>1, <1>2, EncodedNumbered
<1>7. PICK call : call = [req |-> Request, stream |-> out]
  OBVIOUS
<1>8. \/ notified' = Append(notified, call) /\ final
      \/ notified' = notified
  BY <1>3, <1>6, <1>7
<1>9. /\ DOMAIN notified = 1..Len(notified) /\ Len(notified) \in Nat
      /\ notified' = Append(notified, call) =>
           /\ DOMAIN notified' = 1..Len(notified) + 1
           /\ notified'[Len(notified) + 1] = call
           /\ \A i \in DOMAIN notified : notified'[i] = notified[i]
  <2>1. PICK T : notified \in Seq(T)
    BY <1>1 DEF Streams
  <2> QED BY <2>1
<1>10. \A i \in DOMAIN notified' : \/ i \in DOMAIN notified /\ notified'[i] = notified[i]
                                   \/ notified'[i] = call /\ final
  BY <1>8, <1>9
<1>11. PagesInPlace'
  <2>1. Numbered(encoder'.output)
    <3>1. Numbered(NoEncoder.output)
      BY DEF Numbered, NoEncoder
    <3> QED BY <1>3, <1>6, <3>1
  <2>2. \A i \in DOMAIN notified' : Numbered(notified'[i].stream)
    BY <1>1, <1>6, <1>7, <1>10 DEF PagesInPlace
  <2> QED BY <2>1, <2>2 DEF PagesInPlace, Numbered
<1>12. \A i \in DOMAIN notified : notified[i].req # Request
  BY <1>1, <1>5 DEF CallsEnded
<1>13. CallsEnded'
  <2> SUFFICES ASSUME NEW i \in DOMAIN notified' PROVE notified'[i].req \in 1..reqs' /\ notified'[i].req # currentReqID'
    BY DEF CallsEnded
  <2>1. currentReqID' \in {none, Request} /\ (final => currentReqID' = none)
    BY <1>3
  <2>2. CASE i \in DOMAIN notified /\ notified'[i] = notified[i]
    <3>1. notified[i].req \in 1..reqs /\ notified[i].req # Request
      BY <1>1, <1>12, <2>2 DEF CallsEnded
    <3> QED BY <1>5, <2>1, <2>2, <3>1 DEF none
  <2>3. CASE notified'[i] = call /\ final
    BY <1>5, <1>7, <2>1, <2>3 DEF none
  <2> QED BY <1>10, <2>2, <2>3
<1>14. ASSUME Uncrossed PROVE EncoderWritten' /\ CallsMatch'
  <2>1. Range(Encoder.output) = Written(Request)
    BY <1>2, <1>14, RequestWritten
  <2>2. PICK m : m = Audio(Request, payload, final)
    OBVIOUS
  <2>3. m.pages = payload /\ m.kind = "audio" /\ m.req = Request
    BY <2>2 DEF Audio
  <2>4. PICK S : S = Pages'
    OBVIOUS
  <2>5. \A r : Written(r)' = IF r = Request THEN Written(r) \cup Range(payload) ELSE Written(r)
    BY <1>1, <1>3, <1>4, <2>2, <2>3, <2>4, WrittenGrows
  <2>6. Range(out) = Range(Encoder.output) \cup Range(payload)
    BY <1>4, <1>6, RangeOfConcat
  <2>7. PICK r : r = Request
    OBVIOUS
  <2>8. Written(r)' = Range(out)
    BY <2>1, <2>5, <2>6, <2>7
  <2>9. EncoderWritten'
    <3>1. CASE final
      BY <1>3, <3>1 DEF EncoderWritten
    <3>2. CASE ~final
      <4>1. currentReqID' = r /\ encoder'.output = out
        BY <1>3, <1>6, <2>7, <3>2
      <4> QED BY <2>8, <4>1 DEF EncoderWritten
    <3> QED BY <3>1, <3>2
  <2>10. CallsMatch'
    <3> SUFFICES ASSUME NEW i \in DOMAIN notified' PROVE (Range(notified[i].stream) = Written(notified[i].req))'
      BY DEF CallsMatch
    <3>1. CASE i \in DOMAIN notified /\ notified'[i] = notified[i]
      <4>1. PICK q : q = notified[i].req
        OBVIOUS
      <4>2. Written(q)' = Written(q)
        BY <1>12, <2>5, <3>1, <4>1
      <4>3. Range(notified[i].stream) = Written(q)
        BY <1>14, <3>1, <4>1 DEF CallbackInv, CallsMatch
      <4> QED BY <3>1, <4>1, <4>2, <4>3
    <3>2. CASE notified'[i] = call /\ final
      <4>1. notified'[i].req = r /\ notified'[i].stream = out
        BY <1>7, <2>7, <3>2
      <4> QED BY <2>8, <4>1
    <3> QED BY <1>10, <3>1, <3>2
  <2> QED BY <2>9, <2>10
<1> QED BY <1>11, <1>13, <1>14

(* The other steps hand nothing on. *)
LEMMA StepNotifies == ASSUME [Next]_vars PROVE SendWritten \/ UNCHANGED notified
BY DEF Next, vars, Start, Close, ConnBreaks, SendBuffers, SendEncodeFails, SendFails, Interrupt, InterruptFails

LEMMA StepNumbered == ASSUME CallbackInv, TypeOK', Scalars', Grows, [Next]_vars PROVE PagesInPlace'
<1>1. TypeOK /\ PagesInPlace
  BY DEF CallbackInv, StreamInv
<1>2. CASE SendWritten
  BY <1>2, WrittenMatches
<1>3. ASSUME UNCHANGED notified, Numbered(encoder'.output) PROVE PagesInPlace'
  BY <1>1, <1>3 DEF PagesInPlace, Numbered
<1>4. CASE UNCHANGED <<encoder, notified>>
  BY <1>1, <1>4 DEF PagesInPlace, Numbered
<1>5. CASE SendBuffers
  <2>1. Numbered(Encoder.output)
    BY <1>1, <1>5, EncoderNumbered DEF SendBuffers
  <2> QED BY <1>3, <1>5, <2>1 DEF SendBuffers
<1>6. CASE SendEncodeFails \/ SendFails
  <2>a. PICK final \in BOOLEAN : \E payload \in Payloads(final) : encoder' = Encoded(payload)
    BY <1>6 DEF SendEncodeFails, SendFails
  <2>1. PICK payload \in Payloads(final) : encoder' = Encoded(payload)
    BY <2>a
  <2>2. TakesEncoder /\ UNCHANGED notified
    BY <1>6 DEF SendEncodeFails, SendFails
  <2> QED BY <1>1, <1>3, <2>1, <2>2, EncodedNumbered
<1> QED BY <1>2, <1>4, <1>5, <1>6 DEF Next, vars, Start, Close, ConnBreaks, Interrupt, InterruptFails

LEMMA StepCalls == ASSUME CallbackInv, TypeOK', Scalars', Grows, [Next]_vars PROVE CallsEnded'
<1>1. TypeOK /\ CallsEnded /\ Scalars
  BY TypeParts DEF CallbackInv, StreamInv
<1>2. CASE SendWritten
  BY <1>2, WrittenMatches
<1>3. CASE ~SendWritten
  <2>1. UNCHANGED notified
    BY <1>3, StepNotifies
  <2>2. \/ currentReqID' \in {none, currentReqID}
        \/ TakesRequest /\ currentReqID' = Request
    BY <1>3 DEF Next, vars, Start, Close, ConnBreaks, SendBuffers, SendEncodeFails, SendFails,
           Interrupt, InterruptFails
  <2>3. currentReqID' \in {none, currentReqID, reqs + 1}
    BY <2>2 DEF Request
  <2>4. reqs \in Nat /\ reqs' \in Nat /\ reqs <= reqs'
    BY <1>1 DEF Scalars, Grows
  <2>5. \A i \in DOMAIN notified : notified[i].req \in 1..reqs /\ notified[i].req # currentReqID
    BY <1>1 DEF CallsEnded
  <2> QED BY <2>1, <2>3, <2>4, <2>5 DEF CallsEnded, none
<1> QED BY <1>2, <1>3

LEMMA StepMatches == ASSUME CallbackInv, [Next]_vars PROVE CallbackInv'
<1>1. StreamInv /\ StreamInv' /\ TypeOK /\ TypeOK' /\ Scalars' /\ Grows
  BY StepContinues, StepScalars DEF CallbackInv, StreamInv
<1>2. PagesInPlace' /\ CallsEnded'
  BY <1>1, StepNumbered, StepCalls
<1>3. SUFFICES ASSUME Uncrossed' PROVE EncoderWritten' /\ CallsMatch'
  BY <1>1, <1>2 DEF CallbackInv
<1>4. Uncrossed /\ ~SendEncodeFails /\ (Start \/ Close \/ Interrupt => currentReqID = none)
  BY <1>3, StepUncrossed
<1>5. EncoderOfRequest /\ EncoderWritten /\ CallsMatch
  BY <1>1, <1>4 DEF StreamInv, CallbackInv
<1>6. CASE SendWritten
  BY <1>1, <1>4, <1>6, WrittenMatches
<1>7. ASSUME UNCHANGED notified, \A r : Written(r)' = Written(r) PROVE CallsMatch'
  <2> SUFFICES ASSUME NEW i \in DOMAIN notified PROVE (Range(notified[i].stream) = Written(notified[i].req))'
    BY <1>7 DEF CallsMatch
  <2>1. PICK q : q = notified[i].req
    OBVIOUS
  <2>2. Written(q)' = Written(q)
    BY <1>7
  <2> QED BY <1>5, <1>7, <2>1, <2>2 DEF CallsMatch
<1>8. ASSUME UNCHANGED <<wire, notified>> PROVE CallsMatch'
  <2>1. \A r : Written(r)' = Written(r)
    BY <1>8, WrittenKept
  <2> QED BY <1>7, <1>8, <2>1
<1>9. ASSUME UNCHANGED wire, CanWrite' => CanWrite,
             CanWrite => /\ currentReqID' # none
                         /\ Range(encoder'.output) = Written(currentReqID')
      PROVE  EncoderWritten'
  <2>1. PICK q : q = currentReqID'
    OBVIOUS
  <2>2. Written(q)' = Written(q)
    BY <1>9, WrittenKept
  <2> QED BY <1>9, <2>1, <2>2 DEF EncoderWritten
<1>10. CASE UNCHANGED <<wire, encoder, currentReqID, notified>> /\ (CanWrite' => CanWrite)
  <2>1. EncoderWritten'
    <3>1. CASE currentReqID = none
      BY <1>10, <3>1 DEF EncoderWritten
    <3>2. CASE currentReqID # none
      <4>1. CanWrite => Range(encoder'.output) = Written(currentReqID') /\ currentReqID' # none
        BY <1>5, <1>10, <3>2 DEF EncoderWritten
      <4> QED BY <1>9, <1>10, <4>1
    <3> QED BY <3>1, <3>2
  <2> QED BY <1>8, <1>10, <2>1
<1>11. CASE Start
  <2>1. currentReqID' = none
    BY <1>4, <1>11 DEF Start
  <2> QED BY <1>8, <1>11, <2>1 DEF Start, EncoderWritten
<1>12. CASE Close
  BY <1>8, <1>12 DEF Close, EncoderWritten, CanWrite
<1>13. CASE ConnBreaks
  BY <1>10, <1>13 DEF ConnBreaks, CanWrite
<1>14. CASE SendBuffers
  <2>1. /\ TakesRequest /\ TakesEncoder /\ UNCHANGED <<conn, wire, notified>>
        /\ currentReqID' = Request /\ encoder' = Encoder
    BY <1>14 DEF SendBuffers
  <2>2. Request # none
    BY <1>1 DEF Request, TypeOK, none
  <2>3. CanWrite => Range(Encoder.output) = Written(Request)
    BY <1>1, <1>4, <2>1, RequestWritten
  <2>4. EncoderWritten'
    BY <1>9, <2>1, <2>2, <2>3 DEF CanWrite
  <2> QED BY <1>8, <2>1, <2>4
<1>15. CASE SendFails
  BY <1>8, <1>15 DEF SendFails, WriteErrs, EncoderWritten, CanWrite
<1>16. CASE Interrupt
  <2>1. /\ wire' = Append(wire, InterruptOf(lastReqID)) /\ UNCHANGED notified /\ currentReqID' = none
    BY <1>16 DEF Interrupt
  <2>2. PICK m : m = InterruptOf(lastReqID)
    OBVIOUS
  <2>3. m.kind = "interrupt" /\ m.pages \in Seq({})
    BY <2>2 DEF InterruptOf
  <2>4. \A r : Written(r)' = Written(r)
    BY <1>1, <2>1, <2>2, <2>3, WrittenGrows
  <2> QED BY <1>7, <2>1, <2>4 DEF EncoderWritten
<1>17. CASE InterruptFails
  BY <1>10, <1>17 DEF InterruptFails, WriteErrs, CanWrite
<1>18. CASE UNCHANGED vars
  BY <1>10, <1>18 DEF vars, CanWrite
<1> QED BY <1>4, <1>6, <1>11, <1>12, <1>13, <1>14, <1>15, <1>16, <1>17, <1>18 DEF Next

(* CallbackMatchesWire is an invariant: for a user who interrupts, closes   *)
(* and restarts between requests only, OnEncodedAudio gets the very pages   *)
(* that were written for the request, each at its place.                    *)
THEOREM CallbacksMatch == Spec => []CallbackMatchesWire
<1>1. Init => CallbackInv
  <2> SUFFICES ASSUME Init PROVE CallbackInv
    OBVIOUS
  <2>1. PagesInPlace /\ CallsEnded /\ EncoderWritten /\ CallsMatch
    BY DEF Init, PagesInPlace, CallsEnded, EncoderWritten, CallsMatch, Numbered, NoEncoder, none
  <2> QED BY <2>1, InitContinues DEF CallbackInv
<1>2. CallbackInv /\ [Next]_vars => CallbackInv'
  BY StepMatches
<1>3. CallbackInv => CallbackMatchesWire
  BY DEF CallbackInv, PagesInPlace, CallsMatch, Uncrossed, Numbered, CallbackMatchesWire
<1> QED BY <1>1, <1>2, <1>3, PTL DEF Spec
================================================================================
