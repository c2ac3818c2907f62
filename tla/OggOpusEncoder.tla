---------------------------- MODULE OggOpusEncoder -----------------------------
(***************************************************************************)
(* The incremental Ogg Opus encoder (audio_encoder.go): how PCM of any     *)
(* chunking becomes a sequence of Ogg pages, and the granule positions     *)
(* that tell the decoder how much of the decoded audio to play.            *)
(*                                                                         *)
(* PCM is counted in samples, not represented (Encode refuses a chunk with *)
(* half a sample before it changes anything).  One iteration of a loop of  *)
(* the code is one step.  The bytes of a page are left out: its sequence   *)
(* number, flags and granule position are kept.                            *)
(*                                                                         *)
(* libopus may refuse any frame.  Encode then returns the error with the   *)
(* encoder as it is, and the session keeps it: later calls go on from      *)
(* there.  What the failed call wrote is in `pages` (the encodedOutput     *)
(* that ends as CompletedStream) and in no payload the caller gets, so the *)
(* payloads have a hole there (SendEncodeFails of AudioRequest).           *)
(***************************************************************************)
EXTENDS Integers, Sequences

CONSTANTS
    FrameSize,     \* samples per Opus frame: sampleRate * frameDurationMS / 1000
    SampleScale,   \* 48000 / sampleRate
    PreSkip,       \* 48 kHz samples the decoder drops first: 312
    MaxSamples     \* bound: samples given to Encode

ASSUME SizesAssumption ==
    /\ FrameSize \in Nat \ {0}
    /\ SampleScale \in Nat \ {0}
    /\ PreSkip \in Nat \ {0}
    /\ MaxSamples \in Nat

VARIABLES
    given,                \* samples given to Encode so far
    pcmBuffer,            \* samples that wait for a full frame
    pendingPacket,        \* a packet waits for the next one, or for the end
    pendingGranule,       \* its granule position
    headersEmitted,
    totalInputSamples,    \* samples encoded, without padding
    encodedFrameSamples,  \* samples encoded, with padding
    pages,                \* pages written so far
    last,                 \* the `end` argument of the current call
    pc,                   \* where the current call of Encode is
    lost,                 \* history: samples in the frames libopus refused
    audioEnd,             \* history: where the last audio ends in what is encoded
    ending                \* history: a call with `end` has failed, and audio came after it

stream == <<pendingPacket, pendingGranule, headersEmitted, totalInputSamples,
            encodedFrameSamples, pages, audioEnd>>

vars == <<given, pcmBuffer, stream, last, pc, lost, ending>>

Page == [granule : Nat, seq : Nat, bos : BOOLEAN, eos : BOOLEAN]

(* The one type invariant of the module. *)
TypeOK ==
    /\ given \in 0..MaxSamples
    /\ pcmBuffer \in Nat
    /\ pendingPacket \in BOOLEAN
    /\ pendingGranule \in Nat
    /\ headersEmitted \in BOOLEAN
    /\ totalInputSamples \in Nat
    /\ encodedFrameSamples \in Nat
    /\ pages \in Seq(Page)
    /\ last \in BOOLEAN
    /\ pc \in {"idle", "frames", "flush", "pad", "finalize", "ended"}
    /\ lost \in Nat /\ audioEnd \in Nat
    /\ ending \in {"no", "failed", "resumed"}

Init ==
    /\ given = 0 /\ pcmBuffer = 0
    /\ pendingPacket = FALSE /\ pendingGranule = 0
    /\ headersEmitted = FALSE
    /\ totalInputSamples = 0 /\ encodedFrameSamples = 0
    /\ pages = <<>>
    /\ last = FALSE
    /\ pc = "idle"
    /\ lost = 0 /\ audioEnd = 0 /\ ending = "no"

--------------------------------------------------------------------------------

(* The sizes of an accepted configuration, in whole numbers. *)
SampleRates    == {8000, 12000, 16000, 24000, 48000}
FrameDurations == {10, 20, 40, 60}

FrameSizeOf(sampleRate, frameDurationMS) == (sampleRate * frameDurationMS) \div 1000
SampleScaleOf(sampleRate)                == 48000 \div sampleRate

\* Samples on the fixed 48 kHz clock of Opus.
Ticks(samples) == samples * SampleScale

PageAt(seq, granule, bos, eos) == [granule |-> granule, seq |-> seq, bos |-> bos, eos |-> eos]

\* emitHeaders, before the first packet.
Headers == <<PageAt(0, 0, TRUE, FALSE), PageAt(1, 0, FALSE, FALSE)>>

WithHeaders == IF headersEmitted THEN pages ELSE pages \o Headers

\* The packet before this one becomes a page; this one waits, because only the
\* last packet's page carries the end-of-stream flag.
QueueAudioPacket(actual) ==
    /\ headersEmitted' = TRUE
    /\ totalInputSamples' = totalInputSamples + actual
    /\ encodedFrameSamples' = encodedFrameSamples + FrameSize
    /\ pages' = IF pendingPacket
                  THEN Append(WithHeaders, PageAt(Len(WithHeaders), pendingGranule, FALSE, FALSE))
                  ELSE WithHeaders
    /\ pendingPacket' = TRUE
    /\ pendingGranule' = Ticks(encodedFrameSamples + FrameSize)
    /\ audioEnd' = IF actual > 0 THEN encodedFrameSamples + actual ELSE audioEnd
    /\ UNCHANGED <<lost, ending>>

\* Mutation: the headers that went out before the error are written again.
QueueFails_HeadersAgain(actual) ==
    /\ pages' = WithHeaders
    /\ pc' = "idle"
    /\ lost' = lost + actual
    /\ ending' = IF last /\ ending = "no" THEN "failed" ELSE ending
    /\ UNCHANGED <<headersEmitted, pendingPacket, pendingGranule, totalInputSamples, encodedFrameSamples, audioEnd>>

\* Mutation: the samples are counted before the frame is encoded.
QueueFails_CountsFirst(actual) ==
    /\ headersEmitted' = TRUE
    /\ pages' = WithHeaders
    /\ pc' = "idle"
    /\ lost' = lost + actual
    /\ ending' = IF last /\ ending = "no" THEN "failed" ELSE ending
    /\ totalInputSamples' = totalInputSamples + actual
    /\ UNCHANGED <<encodedFrameSamples, pendingPacket, pendingGranule, audioEnd>>

\* libopus returns an error, and so does Encode: the headers may be out, the frame
\* is gone, all else stays for the next call.
QueueFails(actual) ==
    /\ headersEmitted' = TRUE
    /\ pages' = WithHeaders
    /\ pc' = "idle"
    /\ lost' = lost + actual
    /\ ending' = IF last /\ ending = "no" THEN "failed" ELSE ending
    /\ UNCHANGED <<pendingPacket, pendingGranule, totalInputSamples, encodedFrameSamples, audioEnd>>

\* Encode(pcmData, end): the chunk joins the buffer, which is empty or not, and may
\* hold whole frames after a failed call.
Encode(samples, end) ==
    /\ pc = "idle"
    /\ given + samples <= MaxSamples
    /\ given' = given + samples
    /\ pcmBuffer' = pcmBuffer + samples
    /\ last' = end
    /\ pc' = "frames"
    /\ ending' = IF ending = "failed" /\ samples > 0 THEN "resumed" ELSE ending
    /\ UNCHANGED <<stream, lost>>

\* Mutation: a partial frame is encoded as a full one.
EncodeFrame_Partial ==
    /\ pc = "frames"
    /\ pcmBuffer > 0
    /\ pcmBuffer' = pcmBuffer - FrameSize
    /\ QueueAudioPacket(FrameSize) /\ UNCHANGED pc
    /\ UNCHANGED <<given, last>>

\* encodeFullFrames: one frame, or done.
EncodeFrame ==
    /\ pc = "frames"
    /\ pcmBuffer >= FrameSize
    /\ pcmBuffer' = pcmBuffer - FrameSize
    /\ \/ QueueAudioPacket(FrameSize) /\ UNCHANGED pc
       \/ QueueFails(FrameSize)
    /\ UNCHANGED <<given, last>>

FramesDone ==
    /\ pc = "frames"
    /\ pcmBuffer < FrameSize
    /\ pc' = IF last THEN "flush" ELSE "idle"
    /\ UNCHANGED <<given, pcmBuffer, stream, last, lost, ending>>

\* flushFinalFrame: a partial frame is filled with zeros, and counts for the
\* samples it really has.
FlushFinalFrame ==
    /\ pc = "flush"
    /\ pcmBuffer' = 0
    /\ IF pcmBuffer = 0
         THEN /\ pc' = "pad"
              /\ UNCHANGED <<stream, lost, ending>>
         ELSE (QueueAudioPacket(pcmBuffer) /\ pc' = "pad") \/ QueueFails(pcmBuffer)
    /\ UNCHANGED <<given, last>>

FinalGranule == PreSkip + Ticks(totalInputSamples)

NeedsPadding == encodedFrameSamples # 0 /\ Ticks(encodedFrameSamples) < FinalGranule

\* Mutation: the padding is not encoded.
PadForPreSkip_Stuck == pc = "pad" /\ NeedsPadding /\ UNCHANGED vars

\* padForPreSkip: one frame of silence, or done.
PadForPreSkip ==
    /\ pc = "pad"
    /\ NeedsPadding
    /\ (QueueAudioPacket(0) /\ UNCHANGED pc) \/ QueueFails(0)
    /\ UNCHANGED <<given, pcmBuffer, last>>

PadDone ==
    /\ pc = "pad"
    /\ ~NeedsPadding
    /\ pc' = "finalize"
    /\ UNCHANGED <<given, pcmBuffer, stream, last, lost, ending>>

EndPage == PageAt(Len(pages), IF pendingPacket THEN FinalGranule ELSE PreSkip, FALSE, TRUE)

\* finalizeStream.  The session throws the encoder away when the message has been
\* written (AudioRequest has the calls that come after a failed write).
FinalizeStream ==
    /\ pc = "finalize"
    /\ pages' = IF pendingPacket \/ headersEmitted THEN Append(pages, EndPage) ELSE pages
    /\ pendingPacket' = FALSE
    /\ pc' = "ended"
    /\ UNCHANGED <<given, pcmBuffer, pendingGranule, headersEmitted,
                   totalInputSamples, encodedFrameSamples, last, lost, audioEnd, ending>>

\* The caller may stop between two calls.
Rest == pc \in {"idle", "ended"} /\ UNCHANGED vars

Step ==
    \/ EncodeFrame \/ FramesDone \/ FlushFinalFrame \/ PadForPreSkip \/ PadDone
    \/ FinalizeStream

Next ==
    \/ \E samples \in 0..MaxSamples, end \in BOOLEAN : Encode(samples, end)
    \/ Step
    \/ Rest

Spec == Init /\ [][Next]_vars

FairSpec == Spec /\ WF_vars(Step)

--------------------------------------------------------------------------------

\* Pages are numbered without a gap, the first (and only the first) begins the
\* stream, and nothing follows the last.
PagesNumbered ==
    \A i \in 1..Len(pages) :
       /\ pages[i].seq = i - 1
       /\ pages[i].bos <=> i = 1
       /\ pages[i].eos => i = Len(pages) /\ pc = "ended"

\* Granule positions increase from page to page, once the headers are out: the
\* end-of-stream trim never reaches back into an earlier page.
GranulesIncrease ==
    \A i \in 3..Len(pages) : pages[i - 1].granule < pages[i].granule

\* Every packet gets a page: the headers, one page per frame encoded, or one empty
\* page to end a stream of which libopus refused every frame.
NoPacketLost ==
    pc = "ended" /\ headersEmitted =>
        IF encodedFrameSamples > 0
        THEN encodedFrameSamples = (Len(pages) - 2) * FrameSize
        ELSE Len(pages) = 3

\* The pages written are one Ogg stream at every moment, and after every failed call,
\* whatever calls follow it; a finished stream has all that was encoded.
WellFormed == PagesNumbered /\ GranulesIncrease /\ NoPacketLost

\* The decoder plays for exactly as long as the audio that was given, less the frames
\* libopus refused, whatever the chunks were and whichever call failed.
DurationExact ==
    pc = "ended" /\ given > 0 =>
       /\ Len(pages) > 2
       /\ pages[Len(pages)].eos
       /\ pages[Len(pages)].granule = PreSkip + Ticks(given - lost)

\* Enough is encoded for the decoder to drop the pre-skip and still play all of
\* it, and what the last granule trims is less than one frame.
TrimInLastFrame ==
    pc = "ended" /\ encodedFrameSamples > 0 =>
       /\ pages[Len(pages)].granule <= Ticks(encodedFrameSamples)
       /\ pages[Len(pages)].granule > Ticks(encodedFrameSamples - FrameSize)

\* The trim cuts no audio, as long as none was given after a failed call with `end`:
\* that call may have encoded padding, which then stays between the audio.
AudioIsPlayed ==
    pc = "ended" /\ ending # "resumed" => PreSkip + Ticks(audioEnd) = FinalGranule

\* What a finished stream plays is the audio that was encoded, all of it and no more.
PlaysExactly == DurationExact /\ TrimInLastFrame /\ AudioIsPlayed

\* Encode returns: the padding loop ends.
EncodeReturns == pc = "frames" ~> pc \in {"idle", "ended"}
================================================================================
