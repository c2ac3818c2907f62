------------------------- MODULE OggOpusEncoderProofs --------------------------
(***************************************************************************)
(* Theorems about OggOpusEncoder, for every frame size, sample scale and   *)
(* pre-skip.  The invariant has one part for the stream under way, which   *)
(* is also what a failed call leaves behind (Flowing, Behind), one for the *)
(* call that ends it (Ending, Padded), and one for the finished stream     *)
(* (Finished).                                                             *)
(***************************************************************************)
EXTENDS OggOpusEncoder, SequenceTheorems, TLAPS

F == FrameSize

\* The samples of n frames.
Frames(n) == n * FrameSize

Numbered ==
    \A i \in 1..Len(pages) : pages[i].seq = i - 1 /\ (pages[i].bos <=> i = 1)

Unfinished == \A i \in 1..Len(pages) : ~pages[i].eos

\* What holds of a stream under way: all its packets but the pending one are in
\* pages, whose granules are behind the frame that is pending.  Before the first
\* packet there are no pages, or the headers that a refused frame left behind.
Flowing ==
    /\ ~headersEmitted => pages = <<>> /\ ~pendingPacket /\ lost = 0
    /\ headersEmitted /\ ~pendingPacket => pages = Headers
    /\ ~pendingPacket => encodedFrameSamples = 0
    /\ pendingPacket => /\ pendingGranule = Ticks(encodedFrameSamples)
                        /\ encodedFrameSamples >= F
                        /\ Len(pages) >= 2
                        /\ encodedFrameSamples = Frames(Len(pages) - 1)
                        /\ \A i \in 1..Len(pages) : pages[i].granule <= Ticks(encodedFrameSamples - F)
    /\ GranulesIncrease
    /\ Numbered
    /\ Unfinished

\* Between the calls and before the padding, what is encoded is the audio; or a call
\* that failed while padding has left some, and the end is still ahead of it.
Behind ==
    \/ encodedFrameSamples = totalInputSamples
    \/ /\ Ticks(encodedFrameSamples) < FinalGranule
       /\ ending # "no"
       /\ ending = "failed" => pcmBuffer = 0

\* Once the last frame is flushed, less than a frame has been encoded beyond the
\* final granule.
Ending ==
    pendingPacket => Ticks(encodedFrameSamples - F) < FinalGranule

Padded == pendingPacket => Ticks(encodedFrameSamples) >= FinalGranule

Finished ==
    /\ given > 0 => headersEmitted
    /\ headersEmitted => /\ Len(pages) > 2
                         /\ pages[Len(pages)].eos
                         /\ pages[Len(pages)].granule = FinalGranule
    /\ encodedFrameSamples > 0 => /\ headersEmitted
                                  /\ encodedFrameSamples = Frames(Len(pages) - 2)
                                  /\ Ticks(encodedFrameSamples - F) < FinalGranule
                                  /\ FinalGranule <= Ticks(encodedFrameSamples)
    /\ headersEmitted /\ encodedFrameSamples = 0 => Len(pages) = 3
    /\ GranulesIncrease
    /\ PagesNumbered

Inv ==
    /\ TypeOK
    /\ given = totalInputSamples + lost + pcmBuffer
    /\ totalInputSamples <= encodedFrameSamples
    /\ ending # "resumed" => audioEnd = totalInputSamples
    /\ pc # "ended" => Flowing
    /\ pc \in {"idle", "frames", "flush"} => Behind
    /\ pc \in {"flush", "pad", "finalize"} => last
    /\ pc = "flush" => pcmBuffer < F
    /\ pc \in {"pad", "finalize", "ended"} => pcmBuffer = 0
    /\ pc \in {"pad", "finalize"} => Ending
    /\ pc = "finalize" => Padded
    /\ pc = "ended" => Finished

--------------------------------------------------------------------------------
(* Arithmetic the provers need to be told                                     *)

LEMMA Sizes == F \in Nat /\ F > 0 /\ PreSkip \in Nat /\ PreSkip > 0
BY SizesAssumption DEF F

LEMMA TicksFacts ==
    /\ \A n \in Int : Ticks(n) \in Int
    /\ \A n \in Nat : Ticks(n) \in Nat
    /\ \A m, n \in Int : m < n => Ticks(m) < Ticks(n)
    /\ Ticks(0) = 0
BY SizesAssumption DEF Ticks

LEMMA TicksAdd ==
    /\ \A m, n \in Int : Ticks(m + n) = Ticks(m) + Ticks(n)
    /\ Ticks(F) >= 1
<1>1. SampleScale \in Nat /\ F \in Nat /\ F * SampleScale >= 1
  BY SizesAssumption DEF F
<1> QED
  BY <1>1 DEF Ticks

LEMMA FramesFacts ==
    /\ Frames(1) = F
    /\ \A n \in Int : Frames(n + 1) = Frames(n) + F
BY SizesAssumption DEF Frames, F

--------------------------------------------------------------------------------
(* Sequences of pages                                                         *)

LEMMA HeaderFacts ==
    /\ Headers \in Seq(Page) /\ Len(Headers) = 2
    /\ Headers[1] = PageAt(0, 0, TRUE, FALSE) /\ Headers[2] = PageAt(1, 0, FALSE, FALSE)
BY DEF Headers, Page, PageAt

LEMMA PageType == \A s \in Seq(Page) : \A i \in 1..Len(s) : s[i].granule \in Nat
<1> SUFFICES ASSUME NEW s \in Seq(Page), NEW i \in 1..Len(s)
             PROVE  s[i].granule \in Nat
  OBVIOUS
<1>1. s[i] \in Page
  OBVIOUS
<1> QED
  BY <1>1 DEF Page

\* The pages once the headers are out.
LEMMA HeadersOut ==
    ASSUME TypeOK, Flowing
    PROVE  /\ WithHeaders \in Seq(Page)
           /\ Len(WithHeaders) >= 2
           /\ \A i \in 1..Len(WithHeaders) :
                /\ WithHeaders[i].seq = i - 1
                /\ WithHeaders[i].bos <=> i = 1
                /\ ~WithHeaders[i].eos
           /\ \A i \in 3..Len(WithHeaders) : WithHeaders[i - 1].granule < WithHeaders[i].granule
           /\ pendingPacket => WithHeaders = pages
           /\ ~pendingPacket => WithHeaders = Headers
<1>1. CASE headersEmitted
  <2>1. WithHeaders = pages /\ pages \in Seq(Page)
    BY <1>1 DEF WithHeaders, TypeOK
  <2>2. Len(pages) >= 2
    BY <1>1, HeaderFacts DEF Flowing, TypeOK
  <2> QED
    BY <1>1, <2>1, <2>2 DEF Flowing, Numbered, Unfinished, GranulesIncrease
<1>2. CASE ~headersEmitted
  <2>1. WithHeaders = Headers
    BY <1>2, HeaderFacts, ConcatEmptySeq DEF WithHeaders, Flowing
  <2>2. \A i \in 1..Len(Headers) : i = 1 \/ i = 2
    BY HeaderFacts
  <2>3. /\ Headers[1].seq = 0 /\ Headers[1].bos /\ ~Headers[1].eos
        /\ Headers[2].seq = 1 /\ ~Headers[2].bos /\ ~Headers[2].eos
    BY HeaderFacts DEF PageAt
  <2>4. \A i \in 1..Len(Headers) : /\ Headers[i].seq = i - 1
                                   /\ Headers[i].bos <=> i = 1
                                   /\ ~Headers[i].eos
    <3> SUFFICES ASSUME NEW i \in 1..Len(Headers)
                 PROVE  Headers[i].seq = i - 1 /\ (Headers[i].bos <=> i = 1) /\ ~Headers[i].eos
      OBVIOUS
    <3>1. CASE i = 1
      BY <3>1, <2>3
    <3>2. CASE i = 2
      BY <3>2, <2>3
    <3> QED
      BY <3>1, <3>2, <2>2
  <2>5. ~pendingPacket
    BY <1>2 DEF Flowing
  <2> QED
    BY <2>1, <2>4, <2>5, HeaderFacts
<1> QED
  BY <1>1, <1>2 DEF TypeOK

LEMMA QueueFlows ==
    ASSUME TypeOK, Flowing, NEW actual \in Nat, QueueAudioPacket(actual)
    PROVE  /\ Flowing' /\ headersEmitted'
           /\ totalInputSamples' = totalInputSamples + actual /\ totalInputSamples' \in Nat
           /\ encodedFrameSamples' = encodedFrameSamples + F /\ encodedFrameSamples' \in Nat
           /\ pages' \in Seq(Page)
           /\ pendingPacket' \in BOOLEAN /\ pendingGranule' \in Nat
           /\ audioEnd' = (IF actual > 0 THEN encodedFrameSamples + actual ELSE audioEnd)
           /\ audioEnd' \in Nat /\ UNCHANGED <<lost, ending>>
<1> DEFINE e == encodedFrameSamples
           w == WithHeaders
<1>1. /\ e \in Nat /\ totalInputSamples \in Nat /\ pendingGranule \in Nat
      /\ pages \in Seq(Page)
  BY DEF TypeOK
<1>2. /\ headersEmitted' = TRUE /\ pendingPacket' = TRUE
      /\ totalInputSamples' = totalInputSamples + actual
      /\ encodedFrameSamples' = e + F
      /\ pendingGranule' = Ticks(e + F)
      /\ pages' = IF pendingPacket THEN Append(w, PageAt(Len(w), pendingGranule, FALSE, FALSE)) ELSE w
  BY DEF QueueAudioPacket, F
<1>3. /\ Ticks(e) \in Nat /\ Ticks(e + F) \in Nat /\ Ticks(e - F) \in Int
      /\ Ticks(e - F) < Ticks(e) /\ (e + F) - F = e
  <2>1. e \in Int /\ e + F \in Nat /\ e - F \in Int /\ e - F < e /\ (e + F) - F = e
    BY <1>1, Sizes
  <2> HIDE DEF e
  <2>2. Ticks(e - F) < Ticks(e)
    BY <2>1, TicksFacts
  <2> QED
    BY <1>1, <2>1, <2>2, TicksFacts
<1>4. audioEnd \in Nat /\ audioEnd' = (IF actual > 0 THEN e + actual ELSE audioEnd) /\ UNCHANGED <<lost, ending>>
  BY DEF QueueAudioPacket, TypeOK
<1>5. ASSUME pendingPacket PROVE Flowing' /\ pages' \in Seq(Page)
  <2> DEFINE p == PageAt(Len(pages), Ticks(e), FALSE, FALSE)
  <2>0. WithHeaders = pages /\ pendingPacket /\ pendingGranule = Ticks(e)
    BY <1>5, HeadersOut DEF Flowing
  <2>1. /\ pages' = Append(pages, p) /\ p \in Page
        /\ Len(pages) >= 2 /\ e = Frames(Len(pages) - 1) /\ e >= F
    BY <1>2, <1>3, <1>5, <1>1, <2>0 DEF Flowing, PageAt, Page
  <2>2. /\ pages' \in Seq(Page) /\ Len(pages') = Len(pages) + 1
        /\ \A i \in 1..Len(pages) : pages'[i] = pages[i]
        /\ pages'[Len(pages) + 1] = p
    <3> HIDE DEF p
    <3> QED
      BY <2>1, <1>1, AppendProperties
  <2>3. e + F = Frames(Len(pages') - 1)
    BY <2>1, <2>2, <1>1, FramesFacts
  <2>4. Ticks(e - F) < Ticks(e)
    BY <1>3
  <2>5. \A i \in 1..Len(pages) : pages[i].granule \in Nat /\ pages[i].granule <= Ticks(e - F)
    BY <1>1, <1>5, PageType DEF Flowing
  <2>6. p.granule = Ticks(e) /\ p.seq = Len(pages) /\ ~p.bos /\ ~p.eos
    BY DEF PageAt
  <2>7. Ticks(e - F) \in Int
    BY <1>3
  <2>8. \A i \in 1..Len(pages') : pages'[i].granule <= Ticks(e)
    <3> SUFFICES ASSUME NEW i \in 1..Len(pages') PROVE pages'[i].granule <= Ticks(e)
      OBVIOUS
    <3> HIDE DEF e, p
    <3>1. CASE i \in 1..Len(pages)
      BY <3>1, <2>2, <2>4, <2>5, <2>7, <1>3
    <3>2. CASE i = Len(pages) + 1
      BY <3>2, <2>2, <2>6, <1>3
    <3> QED
      BY <3>1, <3>2, <2>2, <1>1
  <2>9. GranulesIncrease'
    <3> SUFFICES ASSUME NEW i \in 3..Len(pages')
                 PROVE  pages'[i - 1].granule < pages'[i].granule
      BY DEF GranulesIncrease
    <3>1. CASE i \in 3..Len(pages)
      BY <3>1, <2>2, <1>1 DEF Flowing, GranulesIncrease
    <3>2. CASE i = Len(pages) + 1
      <4>1. i - 1 \in 1..Len(pages)
        BY <3>2, <2>1, <1>1
      <4>2. pages'[i - 1].granule \in Nat /\ pages'[i - 1].granule <= Ticks(e - F)
        BY <4>1, <2>2, <2>5
      <4>3. pages'[i].granule = Ticks(e)
        BY <3>2, <2>2, <2>6
      <4> QED
        BY <4>2, <4>3, <2>4, <2>7, <1>3
    <3> QED
      BY <3>1, <3>2, <2>2, <1>1
  <2>10. Numbered' /\ Unfinished'
    <3> SUFFICES ASSUME NEW i \in 1..Len(pages')
                 PROVE  pages'[i].seq = i - 1 /\ (pages'[i].bos <=> i = 1) /\ ~pages'[i].eos
      BY DEF Numbered, Unfinished
    <3>1. CASE i \in 1..Len(pages)
      BY <3>1, <2>2 DEF Flowing, Numbered, Unfinished
    <3>2. CASE i = Len(pages) + 1
      <4>1. Len(pages) + 1 # 1 /\ (Len(pages) + 1) - 1 = Len(pages)
        BY <2>1, <1>1
      <4> HIDE DEF p
      <4> QED
        BY <3>2, <4>1, <2>2, <2>6
    <3> QED
      BY <3>1, <3>2, <2>2, <1>1
  <2>11. Len(pages') >= 2 /\ encodedFrameSamples' >= F
    BY <2>1, <2>2, <1>1, <1>2, Sizes
  <2>12. Flowing'
    BY <1>2, <1>3, <2>3, <2>8, <2>9, <2>10, <2>11 DEF Flowing
  <2> QED
    BY <2>2, <2>12
<1>6. ASSUME ~pendingPacket PROVE Flowing' /\ pages' \in Seq(Page)
  <2>1. pages' = Headers /\ e = 0
    BY <1>2, <1>6, HeadersOut DEF Flowing
  <2>2. /\ pages' \in Seq(Page) /\ Len(pages') = 2
        /\ pages'[1].granule = 0 /\ pages'[2].granule = 0
    BY <2>1, HeaderFacts DEF PageAt
  <2>3. \A i \in 1..Len(pages') : i = 1 \/ i = 2
    BY <2>2
  <2>4. \A i \in 1..Len(pages') : pages'[i].granule <= Ticks(e)
    <3>1. Ticks(e) = 0
      BY <2>1, TicksFacts
    <3> HIDE DEF e
    <3> QED
      BY <3>1, <2>2, <2>3
  <2>5. GranulesIncrease'
    BY <2>2 DEF GranulesIncrease
  <2>6. Numbered' /\ Unfinished'
    BY <2>1, <1>6, HeadersOut DEF Numbered, Unfinished
  <2>7. e + F = Frames(Len(pages') - 1)
    BY <2>1, <2>2, FramesFacts, Sizes
  <2>8. Len(pages') >= 2 /\ encodedFrameSamples' >= F
    BY <2>1, <2>2, <1>2, Sizes
  <2>9. Flowing'
    BY <1>2, <1>3, <2>4, <2>5, <2>6, <2>7, <2>8 DEF Flowing
  <2> QED
    BY <2>2, <2>9
<1>7. headersEmitted' /\ pendingPacket' \in BOOLEAN
  BY <1>2
<1>8. totalInputSamples' \in Nat /\ encodedFrameSamples' \in Nat /\ pendingGranule' \in Nat /\ audioEnd' \in Nat
  BY <1>1, <1>2, <1>3, <1>4, Sizes
<1> QED
  BY <1>2, <1>4, <1>5, <1>6, <1>7, <1>8

\* A packet that could not be encoded: the headers, at most, are new.
LEMMA FailFlows ==
    ASSUME TypeOK, Flowing, NEW actual \in Nat, QueueFails(actual)
    PROVE  /\ Flowing' /\ pages' \in Seq(Page) /\ headersEmitted' \in BOOLEAN
           /\ pc' = "idle" /\ lost' = lost + actual /\ lost' \in Nat
           /\ ending' = (IF last /\ ending = "no" THEN "failed" ELSE ending)
           /\ ending' \in {"no", "failed", "resumed"}
           /\ UNCHANGED <<pendingPacket, pendingGranule, totalInputSamples, encodedFrameSamples, audioEnd>>
<1>1. /\ headersEmitted' = TRUE /\ pages' = WithHeaders /\ pc' = "idle" /\ lost' = lost + actual
      /\ ending' = (IF last /\ ending = "no" THEN "failed" ELSE ending)
      /\ UNCHANGED <<pendingPacket, pendingGranule, totalInputSamples, encodedFrameSamples, audioEnd>>
  BY DEF QueueFails
<1>2. lost \in Nat /\ ending \in {"no", "failed", "resumed"}
  BY DEF TypeOK
<1>3. GranulesIncrease' /\ Numbered' /\ Unfinished'
  BY <1>1, HeadersOut DEF Numbered, Unfinished, GranulesIncrease
<1>4. pendingPacket => pages' = pages
  BY <1>1, HeadersOut
<1>5. ~pendingPacket => pages' = Headers
  BY <1>1, HeadersOut
<1>6. Ticks(encodedFrameSamples)' = Ticks(encodedFrameSamples)
      /\ Ticks(encodedFrameSamples - F)' = Ticks(encodedFrameSamples - F)
  BY <1>1 DEF Ticks
<1>7. Flowing'
  BY <1>1, <1>3, <1>4, <1>5, <1>6 DEF Flowing
<1> QED
  BY <1>1, <1>2, <1>7, HeadersOut

LEMMA InvInit == Init => Inv
<1> SUFFICES ASSUME Init PROVE Inv
  OBVIOUS
<1>1. pages = <<>> /\ <<>> \in Seq(Page)
  BY DEF Init
<1>2. TypeOK
  <2>1. pendingPacket \in BOOLEAN /\ headersEmitted \in BOOLEAN /\ last \in BOOLEAN /\ ending = "no"
    BY DEF Init
  <2> QED
    BY <1>1, <2>1, SizesAssumption DEF Init, TypeOK
<1>3. Flowing
  <2>1. ~headersEmitted /\ ~pendingPacket /\ lost = 0
    BY DEF Init
  <2>2. encodedFrameSamples = 0 /\ totalInputSamples = 0
    BY DEF Init
  <2>3. 1..Len(pages) = {} /\ 3..Len(pages) = {}
    BY <1>1
  <2> QED
    BY <1>1, <2>1, <2>2, <2>3 DEF Flowing, GranulesIncrease, Numbered, Unfinished
<1> QED
  BY <1>2, <1>3 DEF Init, Inv, Behind

\* The part of a step that writes nothing.
LEMMA Keeps ==
    ASSUME UNCHANGED <<stream, lost>>
    PROVE  /\ Flowing' = Flowing /\ Ending' = Ending /\ Padded' = Padded
           /\ FinalGranule' = FinalGranule
BY DEF stream, Flowing, Ending, Padded, FinalGranule, GranulesIncrease, Numbered, Unfinished, Ticks

LEMMA EncodeStep ==
    ASSUME Inv, NEW samples \in 0..MaxSamples, NEW end \in BOOLEAN, Encode(samples, end)
    PROVE  Inv'
<1>1. /\ pc = "idle" /\ pc' = "frames" /\ pcmBuffer' = pcmBuffer + samples /\ given' = given + samples
      /\ ending' = (IF ending = "failed" /\ samples > 0 THEN "resumed" ELSE ending)
      /\ UNCHANGED <<stream, lost>> /\ given + samples <= MaxSamples /\ last' = end
  BY DEF Encode
<1>2. TypeOK'
  BY <1>1, SizesAssumption DEF Inv, TypeOK, stream
<1>3. Flowing'
  BY <1>1, Keeps DEF Inv
<1>4. /\ given' = totalInputSamples' + lost' + pcmBuffer'
      /\ totalInputSamples' <= encodedFrameSamples'
      /\ ending' # "resumed" => audioEnd' = totalInputSamples'
  BY <1>1, SizesAssumption DEF Inv, TypeOK, stream
<1>5. Behind'
  <2>1. Behind /\ pcmBuffer \in Nat /\ samples \in Nat
    BY <1>1, SizesAssumption DEF Inv, TypeOK
  <2>2. CASE encodedFrameSamples = totalInputSamples
    BY <1>1, <2>2 DEF Behind, stream
  <2>3. CASE encodedFrameSamples # totalInputSamples
    <3>1. Ticks(encodedFrameSamples) < FinalGranule /\ ending # "no" /\ (ending = "failed" => pcmBuffer = 0)
      BY <2>1, <2>3 DEF Behind
    <3>2. (Ticks(encodedFrameSamples) < FinalGranule)'
      BY <1>1, <3>1 DEF stream, Ticks, FinalGranule
    <3>3. ending' # "no" /\ (ending' = "failed" => pcmBuffer' = 0)
      BY <1>1, <2>1, <3>1
    <3> QED
      BY <3>2, <3>3 DEF Behind
  <2> QED
    BY <2>2, <2>3
<1> QED
  BY <1>1, <1>2, <1>3, <1>4, <1>5 DEF Inv

\* A call that fails where its padding has not begun, or is not enough yet.
LEMMA FailKeeps ==
    ASSUME Inv, pc \in {"frames", "flush", "pad"}, NEW actual \in Nat, QueueFails(actual),
           pcmBuffer' = pcmBuffer - actual, pcmBuffer' \in Nat, UNCHANGED <<given, last>>,
           pc = "pad" => Ticks(encodedFrameSamples) < FinalGranule
    PROVE  Inv'
<1>1. /\ TypeOK /\ Flowing /\ given = totalInputSamples + lost + pcmBuffer
      /\ totalInputSamples <= encodedFrameSamples
      /\ ending # "resumed" => audioEnd = totalInputSamples
      /\ pc \in {"frames", "flush"} => Behind
      /\ pc = "pad" => last /\ pcmBuffer = 0
  BY DEF Inv
<1>2. /\ Flowing' /\ pages' \in Seq(Page) /\ headersEmitted' \in BOOLEAN
      /\ pc' = "idle" /\ lost' = lost + actual /\ lost' \in Nat
      /\ ending' = (IF last /\ ending = "no" THEN "failed" ELSE ending)
      /\ ending' \in {"no", "failed", "resumed"}
      /\ UNCHANGED <<pendingPacket, pendingGranule, totalInputSamples, encodedFrameSamples, audioEnd>>
  BY <1>1, FailFlows
<1>3. TypeOK'
  BY <1>1, <1>2 DEF TypeOK
<1>4. given' = totalInputSamples' + lost' + pcmBuffer'
  BY <1>1, <1>2 DEF TypeOK
<1>5. /\ totalInputSamples' <= encodedFrameSamples'
      /\ ending' # "resumed" => audioEnd' = totalInputSamples'
  BY <1>1, <1>2
<1>6. (Ticks(encodedFrameSamples) < FinalGranule)' = (Ticks(encodedFrameSamples) < FinalGranule)
  BY <1>2 DEF Ticks, FinalGranule
<1>7. Behind'
  <2>1. CASE pc = "pad"
    <3>1. ending' # "no"
      BY <1>1, <1>2, <2>1
    <3>2. pcmBuffer' = 0
      BY <1>1, <2>1
    <3> QED
      BY <1>6, <2>1, <3>1, <3>2 DEF Behind
  <2>2. CASE pc # "pad" /\ encodedFrameSamples = totalInputSamples
    BY <1>2, <2>2 DEF Behind
  <2>3. CASE pc # "pad" /\ encodedFrameSamples # totalInputSamples
    <3>1. Ticks(encodedFrameSamples) < FinalGranule /\ ending # "no" /\ (ending = "failed" => pcmBuffer = 0)
      BY <1>1, <2>3 DEF Behind
    <3>2. ending' = ending /\ (ending = "failed" => pcmBuffer' = 0)
      BY <1>2, <3>1
    <3> QED
      BY <1>6, <3>1, <3>2 DEF Behind
  <2> QED
    BY <2>1, <2>2, <2>3
<1> QED
  BY <1>2, <1>3, <1>4, <1>5, <1>7 DEF Inv

\* Where audio is encoded, it follows all the audio before it unless the stream was resumed.
LEMMA AudioIsNext ==
    ASSUME Inv, Behind, pcmBuffer # 0, ending # "resumed"
    PROVE  encodedFrameSamples = totalInputSamples
BY DEF Inv, Behind, TypeOK

LEMMA FrameStep == Inv /\ EncodeFrame => Inv'
<1> SUFFICES ASSUME Inv, EncodeFrame PROVE Inv'
  OBVIOUS
<1>1. /\ TypeOK /\ Flowing /\ Behind /\ pc = "frames"
      /\ given = totalInputSamples + lost + pcmBuffer /\ totalInputSamples <= encodedFrameSamples
      /\ pcmBuffer \in Nat /\ pcmBuffer # 0 /\ pcmBuffer' \in Nat /\ pcmBuffer' = pcmBuffer - F
      /\ totalInputSamples \in Nat /\ encodedFrameSamples \in Nat /\ lost \in Nat
      /\ UNCHANGED <<given, last>>
  BY Sizes DEF Inv, EncodeFrame, TypeOK, F
<1>2. CASE QueueFails(FrameSize)
  BY <1>1, <1>2, FailKeeps, Sizes DEF F
<1>3. CASE QueueAudioPacket(FrameSize) /\ UNCHANGED pc
  <2>1. QueueAudioPacket(F) /\ UNCHANGED pc
    BY <1>3 DEF F
  <2>2. /\ Flowing' /\ headersEmitted'
        /\ totalInputSamples' = totalInputSamples + F /\ totalInputSamples' \in Nat
        /\ encodedFrameSamples' = encodedFrameSamples + F /\ encodedFrameSamples' \in Nat
        /\ pages' \in Seq(Page)
        /\ pendingPacket' \in BOOLEAN /\ pendingGranule' \in Nat
        /\ audioEnd' = (IF F > 0 THEN encodedFrameSamples + F ELSE audioEnd)
        /\ audioEnd' \in Nat /\ UNCHANGED <<lost, ending>>
    BY <1>1, <2>1, QueueFlows, Sizes
  <2>3. given' = totalInputSamples' + lost' + pcmBuffer' /\ totalInputSamples' <= encodedFrameSamples'
    BY <1>1, <2>2, Sizes
  <2>4. TypeOK'
    BY <1>1, <2>1, <2>2 DEF TypeOK
  <2>5. ending' # "resumed" => audioEnd' = totalInputSamples'
    BY <1>1, <2>2, AudioIsNext, Sizes
  <2>6. Behind'
    <3>1. CASE encodedFrameSamples = totalInputSamples
      BY <2>2, <3>1 DEF Behind
    <3>2. CASE encodedFrameSamples # totalInputSamples
      <4>1. Ticks(encodedFrameSamples) < FinalGranule /\ ending # "no" /\ ending # "failed"
        BY <1>1, <3>2 DEF Behind
      <4>2. PICK m, n : m = totalInputSamples /\ n = encodedFrameSamples
        OBVIOUS
      <4>3. m \in Int /\ n \in Int /\ F \in Int
        BY <1>1, <4>2, Sizes
      <4>4. /\ Ticks(m + F) = Ticks(m) + Ticks(F) /\ Ticks(n + F) = Ticks(n) + Ticks(F)
            /\ Ticks(m) \in Int /\ Ticks(n) \in Int /\ Ticks(F) \in Int
        BY <4>3, TicksAdd, TicksFacts
      <4>5. Ticks(n) < PreSkip + Ticks(m)
        BY <4>1, <4>2 DEF FinalGranule
      <4>6. Ticks(n + F) < PreSkip + Ticks(m + F)
        BY <4>4, <4>5, Sizes
      <4>7. (Ticks(encodedFrameSamples) < FinalGranule)'
        BY <2>2, <4>2, <4>6 DEF FinalGranule, Ticks
      <4> QED
        BY <2>2, <4>1, <4>7 DEF Behind
    <3> QED
      BY <3>1, <3>2
  <2> QED
    BY <1>1, <2>1, <2>2, <2>3, <2>4, <2>5, <2>6 DEF Inv
<1> QED
  BY <1>2, <1>3 DEF EncodeFrame

LEMMA FramesDoneStep == Inv /\ FramesDone => Inv'
<1> SUFFICES ASSUME Inv, FramesDone PROVE Inv'
  OBVIOUS
<1>1. /\ pc = "frames" /\ pcmBuffer < FrameSize /\ pc' = (IF last THEN "flush" ELSE "idle")
      /\ UNCHANGED <<given, pcmBuffer, stream, last, lost, ending>>
  BY DEF FramesDone
<1>2. TypeOK'
  BY <1>1 DEF Inv, TypeOK, stream
<1>3. Flowing'
  BY <1>1, Keeps DEF Inv
<1>4. Behind'
  BY <1>1 DEF Inv, Behind, stream, Ticks, FinalGranule
<1>5. /\ given' = totalInputSamples' + lost' + pcmBuffer'
      /\ totalInputSamples' <= encodedFrameSamples'
      /\ ending' # "resumed" => audioEnd' = totalInputSamples'
  BY <1>1 DEF Inv, stream
<1> QED
  BY <1>1, <1>2, <1>3, <1>4, <1>5 DEF Inv, F

LEMMA FlushStep == Inv /\ FlushFinalFrame => Inv'
<1> SUFFICES ASSUME Inv, FlushFinalFrame PROVE Inv'
  OBVIOUS
<1>1. /\ TypeOK /\ Flowing /\ Behind /\ pc = "flush" /\ last /\ pcmBuffer \in Nat /\ pcmBuffer < F
      /\ given = totalInputSamples + lost + pcmBuffer /\ totalInputSamples <= encodedFrameSamples
      /\ totalInputSamples \in Nat /\ encodedFrameSamples \in Nat /\ lost \in Nat
      /\ pcmBuffer' = 0 /\ UNCHANGED <<given, last>>
  BY DEF Inv, FlushFinalFrame, TypeOK
\* What was encoded before is behind the end of the audio, this frame included.
<1>2. ASSUME NEW a \in Nat, a > 0 \/ encodedFrameSamples # totalInputSamples
      PROVE  Ticks(encodedFrameSamples) < PreSkip + Ticks(totalInputSamples + a)
  <2>1. PICK m, n : m = totalInputSamples /\ n = encodedFrameSamples
    OBVIOUS
  <2>2. m \in Int /\ n \in Int /\ m + a \in Int /\ m <= m + a
    BY <1>1, <2>1
  <2>3. Ticks(m) \in Int /\ Ticks(n) \in Int /\ Ticks(m + a) \in Int /\ Ticks(m) <= Ticks(m + a)
    BY <2>2, TicksFacts
  <2>4. n = m \/ Ticks(n) < PreSkip + Ticks(m)
    BY <1>1, <2>1 DEF Behind, FinalGranule
  <2> QED
    BY <2>1, <2>3, <2>4, Sizes
<1>3. CASE pcmBuffer = 0
  <2>1. pc' = "pad" /\ UNCHANGED <<stream, lost, ending>>
    BY <1>3 DEF FlushFinalFrame
  <2>2. TypeOK'
    BY <1>1, <2>1 DEF TypeOK, stream
  <2>3. Flowing' /\ Ending' = Ending
    BY <1>1, <2>1, Keeps
  <2>4. Ending
    <3>1. PICK m, n : m = totalInputSamples /\ n = encodedFrameSamples
      OBVIOUS
    <3>2. m \in Int /\ n \in Int /\ n - F \in Int /\ n - F < n
      BY <1>1, <3>1, Sizes
    <3>3. Ticks(n - F) < Ticks(n) /\ Ticks(m) \in Int /\ Ticks(n) \in Int /\ Ticks(n - F) \in Int
      BY <3>2, TicksFacts
    <3>4. n = m \/ Ticks(n) < PreSkip + Ticks(m)
      BY <1>1, <3>1 DEF Behind, FinalGranule
    <3>5. Ticks(n - F) < PreSkip + Ticks(m)
      BY <3>3, <3>4, Sizes
    <3> QED
      BY <3>1, <3>5 DEF Ending, FinalGranule
  <2>5. /\ given' = totalInputSamples' + lost' + pcmBuffer' /\ totalInputSamples' <= encodedFrameSamples'
        /\ ending' # "resumed" => audioEnd' = totalInputSamples'
    BY <1>1, <1>3, <2>1 DEF Inv, stream
  <2> QED
    BY <1>1, <2>1, <2>2, <2>3, <2>4, <2>5 DEF Inv
<1>4. CASE pcmBuffer # 0 /\ QueueFails(pcmBuffer)
  BY <1>1, <1>4, FailKeeps
<1>5. CASE pcmBuffer # 0 /\ QueueAudioPacket(pcmBuffer) /\ pc' = "pad"
  <2>1. /\ Flowing' /\ headersEmitted'
        /\ totalInputSamples' = totalInputSamples + pcmBuffer /\ totalInputSamples' \in Nat
        /\ encodedFrameSamples' = encodedFrameSamples + F /\ encodedFrameSamples' \in Nat
        /\ pages' \in Seq(Page)
        /\ pendingPacket' \in BOOLEAN /\ pendingGranule' \in Nat
        /\ audioEnd' = (IF pcmBuffer > 0 THEN encodedFrameSamples + pcmBuffer ELSE audioEnd)
        /\ audioEnd' \in Nat /\ UNCHANGED <<lost, ending>>
    BY <1>1, <1>5, QueueFlows
  <2>2. TypeOK'
    BY <1>1, <1>5, <2>1 DEF TypeOK
  <2>3. given' = totalInputSamples' + lost' + pcmBuffer' /\ totalInputSamples' <= encodedFrameSamples'
    BY <1>1, <2>1, Sizes
  <2>4. ending' # "resumed" => audioEnd' = totalInputSamples'
    <3>0. pcmBuffer > 0
      BY <1>1, <1>5
    <3>1. audioEnd' = encodedFrameSamples + pcmBuffer /\ ending' = ending
      BY <2>1, <3>0
    <3>2. ending # "resumed" => encodedFrameSamples = totalInputSamples
      BY <1>1, <1>5, AudioIsNext
    <3> QED
      BY <2>1, <3>1, <3>2
  <2>5. Ending'
    <3>1. encodedFrameSamples' - F = encodedFrameSamples /\ totalInputSamples' = totalInputSamples + pcmBuffer
      BY <1>1, <2>1, Sizes
    <3>2. Ticks(encodedFrameSamples) < PreSkip + Ticks(totalInputSamples + pcmBuffer)
      BY <1>1, <1>2, <1>5
    <3> QED
      BY <3>1, <3>2 DEF Ending, FinalGranule, Ticks
  <2> QED
    BY <1>1, <1>5, <2>1, <2>2, <2>3, <2>4, <2>5 DEF Inv
<1> QED
  BY <1>3, <1>4, <1>5 DEF FlushFinalFrame

LEMMA PadStep == Inv /\ PadForPreSkip => Inv'
<1> SUFFICES ASSUME Inv, PadForPreSkip PROVE Inv'
  OBVIOUS
<1>1. /\ TypeOK /\ Flowing /\ pc = "pad" /\ last /\ pcmBuffer = 0
      /\ given = totalInputSamples + lost + pcmBuffer /\ totalInputSamples \in Nat /\ lost \in Nat
      /\ totalInputSamples <= encodedFrameSamples
      /\ encodedFrameSamples \in Nat /\ Ticks(encodedFrameSamples) < FinalGranule
      /\ UNCHANGED <<given, pcmBuffer, last>>
      /\ ending # "resumed" => audioEnd = totalInputSamples
  BY DEF Inv, PadForPreSkip, NeedsPadding, TypeOK
<1>2. CASE QueueFails(0)
  BY <1>1, <1>2, FailKeeps
<1>3. CASE QueueAudioPacket(0) /\ UNCHANGED pc
  <2>1. /\ Flowing' /\ headersEmitted'
        /\ totalInputSamples' = totalInputSamples + 0 /\ totalInputSamples' \in Nat
        /\ encodedFrameSamples' = encodedFrameSamples + F /\ encodedFrameSamples' \in Nat
        /\ pages' \in Seq(Page)
        /\ pendingPacket' \in BOOLEAN /\ pendingGranule' \in Nat
        /\ audioEnd' = (IF 0 > 0 THEN encodedFrameSamples + 0 ELSE audioEnd)
        /\ audioEnd' \in Nat /\ UNCHANGED <<lost, ending>>
    BY <1>1, <1>3, QueueFlows
  <2>2. TypeOK'
    BY <1>1, <1>3, <2>1 DEF TypeOK
  <2>3. /\ given' = totalInputSamples' + lost' + pcmBuffer' /\ totalInputSamples' = totalInputSamples
        /\ totalInputSamples' <= encodedFrameSamples'
        /\ ending' # "resumed" => audioEnd' = totalInputSamples'
    BY <1>1, <2>1, Sizes
  <2>4. Ending'
    <3>1. encodedFrameSamples' - F = encodedFrameSamples
      BY <1>1, <2>1, Sizes
    <3>2. FinalGranule' = FinalGranule
      BY <2>3 DEF FinalGranule, Ticks
    <3> QED
      BY <1>1, <3>1, <3>2 DEF Ending, Ticks
  <2> QED
    BY <1>1, <1>3, <2>1, <2>2, <2>3, <2>4 DEF Inv
<1> QED
  BY <1>2, <1>3 DEF PadForPreSkip

LEMMA PadDoneStep == Inv /\ PadDone => Inv'
<1> SUFFICES ASSUME Inv, PadDone PROVE Inv'
  OBVIOUS
<1>1. /\ TypeOK /\ Flowing /\ Ending /\ pcmBuffer = 0 /\ pc' = "finalize" /\ last
      /\ ~NeedsPadding
      /\ UNCHANGED <<given, pcmBuffer, stream, last, lost, ending>>
  BY DEF Inv, PadDone
<1>2. TypeOK'
  BY <1>1 DEF TypeOK, stream
<1>3. Padded
  <2>1. pendingPacket => encodedFrameSamples # 0
    BY <1>1, Sizes DEF Flowing, TypeOK
  <2>2. FinalGranule \in Int /\ Ticks(encodedFrameSamples) \in Int
    BY <1>1, Sizes, TicksFacts DEF FinalGranule, TypeOK
  <2> QED
    BY <1>1, <2>1, <2>2 DEF Padded, NeedsPadding
<1>4. Flowing' /\ Ending' /\ Padded'
  BY <1>1, <1>3, Keeps
<1>5. /\ given' = totalInputSamples' + lost' + pcmBuffer' /\ totalInputSamples' <= encodedFrameSamples'
      /\ ending' # "resumed" => audioEnd' = totalInputSamples'
  BY <1>1 DEF Inv, stream
<1> QED
  BY <1>1, <1>2, <1>4, <1>5 DEF Inv

LEMMA FinalizeStep == Inv /\ FinalizeStream => Inv'
<1> SUFFICES ASSUME Inv, FinalizeStream PROVE Inv'
  OBVIOUS
<1> DEFINE n == Len(pages)
<1>1. /\ TypeOK /\ Flowing /\ Ending /\ Padded /\ pcmBuffer = 0 /\ pc' = "ended"
      /\ given = totalInputSamples + lost + pcmBuffer
      /\ totalInputSamples <= encodedFrameSamples
      /\ ending # "resumed" => audioEnd = totalInputSamples
      /\ pages \in Seq(Page) /\ totalInputSamples \in Nat /\ encodedFrameSamples \in Nat
      /\ pendingPacket' = FALSE
      /\ UNCHANGED <<given, pcmBuffer, pendingGranule, headersEmitted, totalInputSamples,
                     encodedFrameSamples, last, lost, audioEnd, ending>>
  BY DEF Inv, FinalizeStream, TypeOK
<1>2. FinalGranule \in Nat /\ FinalGranule > 0 /\ FinalGranule' = FinalGranule
  <2>1. Ticks(totalInputSamples) \in Nat
    BY <1>1, TicksFacts
  <2>2. FinalGranule' = FinalGranule
    BY <1>1 DEF FinalGranule, Ticks
  <2> QED
    BY <2>1, <2>2, Sizes DEF FinalGranule
<1>3. ASSUME TypeOK', Finished' PROVE Inv'
  BY <1>1, <1>3 DEF Inv
<1>4. ASSUME ~headersEmitted PROVE Inv'
  <2>1. ~pendingPacket /\ pages' = pages /\ pages = <<>> /\ given = 0 /\ encodedFrameSamples = 0
    BY <1>1, <1>4 DEF FinalizeStream, Flowing
  <2>2. TypeOK'
    BY <1>1, <2>1 DEF TypeOK
  <2>3. 1..Len(pages') = {} /\ 3..Len(pages') = {} /\ ~(given' > 0) /\ ~headersEmitted' /\ ~(encodedFrameSamples' > 0)
    BY <1>1, <1>4, <2>1
  <2>4. Finished'
    BY <2>3 DEF Finished, GranulesIncrease, PagesNumbered
  <2> QED
    BY <1>3, <2>2, <2>4
<1>5. ASSUME headersEmitted PROVE Inv'
  <2> DEFINE p == PageAt(n, FinalGranule, FALSE, TRUE)
  <2>0. EndPage = p
    <3>1. ~pendingPacket => PreSkip = FinalGranule
      <4>1. ~pendingPacket => totalInputSamples = 0
        BY <1>1 DEF Flowing
      <4> QED
        BY <4>1, TicksFacts, Sizes DEF FinalGranule
    <3> QED
      BY <3>1 DEF EndPage
  <2>1. pages' = Append(pages, p) /\ p \in Page
    BY <1>1, <1>2, <1>5, <2>0 DEF FinalizeStream, PageAt, Page
  <2>2. p.granule = FinalGranule /\ p.seq = n /\ ~p.bos /\ p.eos
    BY DEF PageAt
  <2> HIDE DEF p
  <2>3. /\ pages' \in Seq(Page) /\ Len(pages') = n + 1
        /\ \A i \in 1..n : pages'[i] = pages[i]
        /\ pages'[n + 1] = p
    BY <2>1, <1>1, AppendProperties
  <2>4. /\ n >= 2 /\ n \in Nat
        /\ ~pendingPacket => n = 2 /\ encodedFrameSamples = 0
        /\ pendingPacket => /\ encodedFrameSamples = Frames(n - 1) /\ encodedFrameSamples >= F
                            /\ Ticks(encodedFrameSamples - F) < FinalGranule
                            /\ FinalGranule <= Ticks(encodedFrameSamples)
    <3>1. n \in Nat /\ Ticks(encodedFrameSamples) \in Nat
      BY <1>1, TicksFacts
    <3>2. CASE pendingPacket
      <4>1. encodedFrameSamples = Frames(n - 1) /\ encodedFrameSamples >= F /\ n >= 2
        BY <1>1, <3>2 DEF Flowing
      <4>2. Ticks(encodedFrameSamples - F) < FinalGranule
        BY <1>1, <3>2 DEF Ending
      <4>3. Ticks(encodedFrameSamples) >= FinalGranule
        BY <1>1, <3>2 DEF Padded
      <4> QED
        BY <1>2, <3>1, <3>2, <4>1, <4>2, <4>3
    <3>3. CASE ~pendingPacket
      <4>1. pages = Headers /\ encodedFrameSamples = 0
        BY <1>1, <1>5, <3>3 DEF Flowing
      <4>2. n = 2
        BY <4>1, HeaderFacts
      <4> QED
        BY <3>3, <4>1, <4>2
    <3> QED
      BY <3>1, <3>2, <3>3
  <2>5. TypeOK'
    BY <1>1, <2>3 DEF TypeOK
  <2>6. GranulesIncrease'
    <3> SUFFICES ASSUME NEW i \in 3..Len(pages')
                 PROVE  pages'[i - 1].granule < pages'[i].granule
      BY DEF GranulesIncrease
    <3>1. CASE i \in 3..n
      BY <3>1, <2>3, <1>1 DEF Flowing, GranulesIncrease
    <3>2. CASE i = n + 1
      <4>1. i - 1 \in 1..n
        BY <3>2, <2>4
      <4>2. pages'[i].granule = FinalGranule /\ pages'[i - 1] = pages[i - 1]
        BY <3>2, <4>1, <2>2, <2>3
      <4>3. CASE pendingPacket
        <5>1. pages[i - 1].granule \in Nat /\ pages[i - 1].granule <= Ticks(encodedFrameSamples - F)
          BY <4>1, <4>3, <1>1, PageType DEF Flowing
        <5>2. Ticks(encodedFrameSamples - F) \in Int
          BY <1>1, Sizes, TicksFacts
        <5> QED
          BY <4>2, <4>3, <5>1, <5>2, <2>4, <1>2
      <4>4. CASE ~pendingPacket
        <5>1. pages = Headers /\ i - 1 = 2
          BY <1>1, <1>5, <4>4, <3>2, <2>4 DEF Flowing
        <5>2. pages[i - 1].granule = 0
          BY <5>1, HeaderFacts DEF PageAt
        <5> QED
          BY <4>2, <5>2, <1>2
      <4> QED
        BY <4>3, <4>4
    <3> QED
      BY <3>1, <3>2, <2>3, <2>4
  <2>7. PagesNumbered'
    <3> SUFFICES ASSUME NEW i \in 1..Len(pages')
                 PROVE  /\ pages'[i].seq = i - 1
                        /\ pages'[i].bos <=> i = 1
                        /\ pages'[i].eos => i = Len(pages')
      BY <1>1 DEF PagesNumbered
    <3>1. CASE i \in 1..n
      BY <3>1, <2>3, <1>1 DEF Flowing, Numbered, Unfinished
    <3>2. CASE i = n + 1
      <4>1. n + 1 # 1 /\ (n + 1) - 1 = n
        BY <2>4
      <4> QED
        BY <3>2, <4>1, <2>2, <2>3
    <3> QED
      BY <3>1, <3>2, <2>3, <2>4
  <2>8. /\ Len(pages') > 2 /\ Len(pages') - 2 = n - 1
        /\ pages'[Len(pages')].eos /\ pages'[Len(pages')].granule = FinalGranule
        /\ encodedFrameSamples > 0 <=> pendingPacket
        /\ ~pendingPacket => Len(pages') = 3
    BY <1>1, <2>2, <2>3, <2>4, Sizes DEF TypeOK
  <2>9. Ticks(encodedFrameSamples - F)' = Ticks(encodedFrameSamples - F)
          /\ Ticks(encodedFrameSamples)' = Ticks(encodedFrameSamples)
    BY <1>1
  <2>10. Finished'
    BY <1>1, <1>2, <1>5, <2>4, <2>6, <2>7, <2>8, <2>9 DEF Finished
  <2> QED
    BY <1>3, <2>5, <2>10
<1> QED
  BY <1>4, <1>5

LEMMA StutterStep == Inv /\ UNCHANGED vars => Inv'
<1> SUFFICES ASSUME Inv, UNCHANGED vars PROVE Inv'
  OBVIOUS
<1>1. /\ Flowing' = Flowing /\ Ending' = Ending /\ Padded' = Padded
      /\ Behind' = Behind /\ Finished' = Finished /\ TypeOK' = TypeOK
  BY DEF vars, stream, Flowing, Ending, Padded, Behind, Finished, TypeOK, FinalGranule, Ticks,
         GranulesIncrease, Numbered, Unfinished, PagesNumbered
<1> QED
  BY <1>1 DEF Inv, vars, stream

LEMMA InvHolds == Spec => []Inv
<1>1. Inv /\ [Next]_vars => Inv'
  BY EncodeStep, FrameStep, FramesDoneStep, FlushStep, PadStep, PadDoneStep, FinalizeStep,
     StutterStep DEF Next, Step, Rest
<1> QED
  BY InvInit, <1>1, PTL DEF Spec

--------------------------------------------------------------------------------

\* Every variable of the encoder keeps its type, for all sizes.
THEOREM TypeCorrect == Spec => []TypeOK
<1>1. Inv => TypeOK
  BY DEF Inv
<1> QED
  BY InvHolds, <1>1, PTL

\* The pages written are one Ogg stream at every moment, for every frame size, scale
\* and pre-skip, through any number of libopus errors and of calls after them: numbered
\* without a gap, the first begins it and nothing follows the one that ends it; granules
\* increase, the trimmed last one included; and every encoded frame has its page
\* (queueAudioPacket, writePage, finalizeStream).
THEOREM StreamWellFormed == Spec => []WellFormed
<1>1. Inv => PagesNumbered
  BY DEF Inv, TypeOK, Flowing, Finished, Numbered, Unfinished, PagesNumbered
<1>2. Inv => GranulesIncrease
  BY DEF Inv, TypeOK, Flowing, Finished
<1>3. Inv => NoPacketLost
  BY DEF Inv, TypeOK, Finished, NoPacketLost, Frames
<1> QED
  BY InvHolds, <1>1, <1>2, <1>3, PTL DEF WellFormed

\* The finished stream plays for exactly the samples that were given less the frames
\* libopus refused; what is encoded covers the last granule with less than a frame to
\* spare, and no audio is trimmed unless some was given after a failed end.
THEOREM PlaybackIsExact == Spec => []PlaysExactly
<1>1. Inv => DurationExact
  <2> SUFFICES ASSUME Inv, pc = "ended", given > 0
               PROVE  Len(pages) > 2 /\ pages[Len(pages)].eos /\ pages[Len(pages)].granule = PreSkip + Ticks(given - lost)
    BY DEF DurationExact
  <2>1. headersEmitted /\ Finished
    BY DEF Inv, Finished
  <2>2. pcmBuffer = 0
    BY DEF Inv
  <2>3. given - lost = totalInputSamples
    BY <2>2 DEF Inv, TypeOK
  <2> QED
    BY <2>1, <2>3 DEF Finished, FinalGranule
<1>2. Inv => TrimInLastFrame
  <2> SUFFICES ASSUME Inv, pc = "ended", encodedFrameSamples > 0
               PROVE  /\ pages[Len(pages)].granule <= Ticks(encodedFrameSamples)
                      /\ pages[Len(pages)].granule > Ticks(encodedFrameSamples - FrameSize)
    BY DEF TrimInLastFrame
  <2> QED
    BY DEF Inv, Finished, F
<1>3. Inv => AudioIsPlayed
  BY DEF Inv, AudioIsPlayed, FinalGranule
<1> QED
  BY InvHolds, <1>1, <1>2, <1>3, PTL DEF PlaysExactly

\* The sizes of every accepted configuration meet SizesAssumption, and no division
\* rounds: a frame is exactly its milliseconds at 48 kHz, so granules do not drift
\* from the samples, and one padding frame is enough for the pre-skip of 312.
THEOREM ParametersExact ==
  ASSUME NEW sampleRate \in SampleRates, NEW frameDurationMS \in FrameDurations
  PROVE  LET frameSize   == FrameSizeOf(sampleRate, frameDurationMS)
             sampleScale == SampleScaleOf(sampleRate)
         IN  /\ frameSize \in Nat \ {0} /\ sampleScale \in Nat \ {0}
             /\ sampleScale * sampleRate = 48000
             /\ frameSize * sampleScale = 48 * frameDurationMS
             /\ 312 <= frameSize * sampleScale
<1> DEFINE Fits(rate, ms) ==
             /\ FrameSizeOf(rate, ms) \in Nat \ {0} /\ SampleScaleOf(rate) \in Nat \ {0}
             /\ SampleScaleOf(rate) * rate = 48000
             /\ FrameSizeOf(rate, ms) * SampleScaleOf(rate) = 48 * ms
             /\ 312 <= FrameSizeOf(rate, ms) * SampleScaleOf(rate)
<1>1. \A ms \in FrameDurations : Fits(8000, ms)
  BY DEF FrameDurations, FrameSizeOf, SampleScaleOf
<1>2. \A ms \in FrameDurations : Fits(12000, ms)
  BY DEF FrameDurations, FrameSizeOf, SampleScaleOf
<1>3. \A ms \in FrameDurations : Fits(16000, ms)
  BY DEF FrameDurations, FrameSizeOf, SampleScaleOf
<1>4. \A ms \in FrameDurations : Fits(24000, ms)
  BY DEF FrameDurations, FrameSizeOf, SampleScaleOf
<1>5. \A ms \in FrameDurations : Fits(48000, ms)
  BY DEF FrameDurations, FrameSizeOf, SampleScaleOf
<1> HIDE DEF Fits
<1>6. Fits(sampleRate, frameDurationMS)
  BY <1>1, <1>2, <1>3, <1>4, <1>5 DEF SampleRates
<1> QED
  BY <1>6 DEF Fits

--------------------------------------------------------------------------------
(* Encode ends: each step of a call lowers a bound on the steps that are left. *)

\* The steps a call may still take, at most: less than a frame per sample in the
\* buffer, less than a padding frame per tick that is missing.
Remaining ==
    CASE pc = "frames"   -> pcmBuffer + PreSkip + 4
      [] pc = "flush"    -> PreSkip + 3
      [] pc = "pad"      -> IF NeedsPadding THEN FinalGranule - Ticks(encodedFrameSamples) + 2 ELSE 2
      [] pc = "finalize" -> 1
      [] OTHER           -> 0

LEMMA RemainingIsNat == Inv => Remaining \in Nat
<1> SUFFICES ASSUME Inv PROVE Remaining \in Nat
  OBVIOUS
<1>1. pcmBuffer \in Nat /\ PreSkip \in Nat
  BY Sizes DEF Inv, TypeOK
<1>2. FinalGranule \in Nat /\ Ticks(encodedFrameSamples) \in Nat
  <2>1. totalInputSamples \in Nat /\ encodedFrameSamples \in Nat
    BY DEF Inv, TypeOK
  <2>2. Ticks(totalInputSamples) \in Nat /\ Ticks(encodedFrameSamples) \in Nat
    BY <2>1, TicksFacts
  <2> QED
    BY <1>1, <2>2 DEF FinalGranule
<1>3. NeedsPadding => FinalGranule - Ticks(encodedFrameSamples) \in Nat
  BY <1>2 DEF NeedsPadding
<1> QED
  BY <1>1, <1>3 DEF Remaining

\* What is left of the padding never exceeds e ticks if the final granule does not.
LEMMA PadLeft ==
    ASSUME Inv', pc' = "pad", NEW e \in Nat, FinalGranule' - Ticks(encodedFrameSamples)' <= e
    PROVE  Remaining' \in Int /\ Remaining' <= e + 2
<1>1. FinalGranule' \in Nat /\ Ticks(encodedFrameSamples)' \in Nat
  <2>1. PICK m, n : m = totalInputSamples' /\ n = encodedFrameSamples'
    OBVIOUS
  <2>2. m \in Nat /\ n \in Nat
    BY <2>1 DEF Inv, TypeOK
  <2>3. Ticks(m) \in Nat /\ Ticks(n) \in Nat
    BY <2>2, TicksFacts
  <2>4. FinalGranule' = PreSkip + Ticks(m) /\ Ticks(encodedFrameSamples)' = Ticks(n)
    BY <2>1 DEF FinalGranule, Ticks
  <2> QED
    BY <2>3, <2>4, Sizes
<1> QED
  BY <1>1 DEF Remaining

LEMMA StepLowers == ASSUME Inv, Inv', Step PROVE Remaining' < Remaining
<1>1. /\ pcmBuffer \in Nat /\ PreSkip \in Nat /\ totalInputSamples \in Nat /\ encodedFrameSamples \in Nat
      /\ F \in Nat /\ F >= 1
  BY Sizes DEF Inv, TypeOK
<1>2. Remaining \in Nat
  BY RemainingIsNat
<1>3. CASE EncodeFrame
  <2>1. pc = "frames" /\ pcmBuffer >= F /\ pcmBuffer' = pcmBuffer - F /\ pc' \in {"frames", "idle"}
    BY <1>3 DEF EncodeFrame, QueueFails, F
  <2> QED
    BY <1>1, <2>1 DEF Remaining
<1>4. CASE FramesDone
  BY <1>1, <1>4 DEF FramesDone, Remaining
<1>5. CASE FlushFinalFrame
  <2>1. pc = "flush" /\ totalInputSamples <= encodedFrameSamples /\ pcmBuffer < F
    BY <1>5 DEF FlushFinalFrame, Inv
  <2>2. Remaining = PreSkip + 3
    BY <2>1 DEF Remaining
  <2>3. CASE pc' = "idle"
    BY <1>1, <2>2, <2>3 DEF Remaining
  <2>4. CASE pc' # "idle"
    <3>1. /\ pc' = "pad"
          /\ \/ UNCHANGED <<totalInputSamples, encodedFrameSamples>>
             \/ /\ totalInputSamples' = totalInputSamples + pcmBuffer
                /\ encodedFrameSamples' = encodedFrameSamples + F
      BY <1>5, <2>4 DEF FlushFinalFrame, QueueFails, QueueAudioPacket, F, stream
    <3>2. totalInputSamples' <= encodedFrameSamples' /\ totalInputSamples' \in Nat /\ encodedFrameSamples' \in Nat
      BY <1>1, <2>1, <3>1
    <3>3. Ticks(totalInputSamples') <= Ticks(encodedFrameSamples')
      <4>1. PICK m, n : m = totalInputSamples' /\ n = encodedFrameSamples'
        OBVIOUS
      <4>2. Ticks(m) \in Int /\ (m = n \/ Ticks(m) < Ticks(n)) /\ Ticks(n) \in Int
        BY <3>2, <4>1, TicksFacts
      <4> QED
        BY <4>1, <4>2
    <3>4. FinalGranule' = PreSkip + Ticks(totalInputSamples')
      BY DEF FinalGranule, Ticks
    <3>5. Ticks(totalInputSamples') \in Nat /\ Ticks(encodedFrameSamples') \in Nat
      BY <3>2, TicksFacts
    <3>6. FinalGranule' - Ticks(encodedFrameSamples') <= PreSkip
      BY <1>1, <3>3, <3>4, <3>5
    <3>7. Remaining' \in Int /\ Remaining' <= PreSkip + 2
      BY <1>1, <3>1, <3>6, PadLeft DEF Ticks
    <3> QED
      BY <1>1, <1>2, <2>2, <3>7
  <2> QED
    BY <2>3, <2>4
<1>6. CASE PadForPreSkip
  <2>1. pc = "pad" /\ NeedsPadding
    BY <1>6 DEF PadForPreSkip
  <2>2. Remaining = FinalGranule - Ticks(encodedFrameSamples) + 2
    BY <2>1 DEF Remaining
  <2>3. FinalGranule \in Nat /\ Ticks(encodedFrameSamples) \in Nat /\ Ticks(encodedFrameSamples) < FinalGranule
    BY <1>1, <2>1, TicksFacts DEF FinalGranule, NeedsPadding
  <2>4. CASE pc' = "idle"
    BY <2>2, <2>3, <2>4 DEF Remaining
  <2>5. CASE pc' # "idle"
    <3>1. pc' = "pad" /\ totalInputSamples' = totalInputSamples + 0 /\ encodedFrameSamples' = encodedFrameSamples + F
      BY <1>6, <2>1, <2>5 DEF PadForPreSkip, QueueFails, QueueAudioPacket, F
    <3>2. FinalGranule' = FinalGranule
      BY <1>1, <3>1 DEF FinalGranule, Ticks
    <3>3. Ticks(encodedFrameSamples)' = Ticks(encodedFrameSamples) + Ticks(F) /\ Ticks(F) \in Nat /\ Ticks(F) >= 1
      <4>1. PICK n : n = encodedFrameSamples
        OBVIOUS
      <4>2. Ticks(n + F) = Ticks(n) + Ticks(F) /\ Ticks(F) \in Nat /\ Ticks(F) >= 1
        BY <1>1, <4>1, TicksAdd, TicksFacts
      <4> QED
        BY <3>1, <4>1, <4>2 DEF Ticks
    <3>4. FinalGranule' - Ticks(encodedFrameSamples)' <= FinalGranule - Ticks(encodedFrameSamples) - 1
      BY <2>3, <3>2, <3>3
    <3>5. FinalGranule - Ticks(encodedFrameSamples) - 1 \in Nat
      BY <2>3
    <3>6. Remaining' \in Int /\ Remaining' <= FinalGranule - Ticks(encodedFrameSamples) - 1 + 2
      BY <3>1, <3>4, <3>5, PadLeft
    <3> QED
      BY <1>2, <2>2, <2>3, <3>6
  <2> QED
    BY <2>4, <2>5
<1>7. CASE PadDone
  BY <1>7 DEF PadDone, Remaining
<1>8. CASE FinalizeStream
  BY <1>8 DEF FinalizeStream, Remaining
<1> QED
  BY <1>3, <1>4, <1>5, <1>6, <1>7, <1>8 DEF Step

\* The loops of Encode end, for every frame size, scale and pre-skip: a call takes
\* at most `Remaining` steps, a number that each step lowers.
THEOREM EncodeIsBounded == Spec => [](Remaining \in Nat) /\ [][Step => Remaining' < Remaining]_vars
<1>1. Inv /\ Inv' /\ [Next]_vars => [Step => Remaining' < Remaining]_vars
  BY StepLowers
<1> QED
  BY InvHolds, <1>1, RemainingIsNat, PTL DEF Spec
================================================================================
