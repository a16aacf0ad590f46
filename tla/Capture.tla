------------------------------ MODULE Capture ------------------------------
(***************************************************************************)
(* Recording one utterance and turning it into text in the legacy roamer:  *)
(* the thread that reads the microphone (PreRollAudioSource), the recorder *)
(* that finds the end of the utterance (EndpointRecorder), the realtime    *)
(* speech to text it streams to, and the batch path over the saved file    *)
(* (ListenCapability, RealtimeEndpointTranscriber, WakeCapability).        *)
(*                                                                         *)
(* A chunk of audio is its number in the order the microphone delivered    *)
(* it; all durations are numbers of chunks.                                *)
(***************************************************************************)
EXTENDS Integers, Sequences, FiniteSets, SequencesExt

CONSTANTS
    Cap,            \* chunks of pre_roll_sec: the bound of the buffer and of the queue
    Padding,        \* pre_speech_padding_sec
    Silence,        \* silence_sec
    MinSpeech,      \* min_speech_sec
    MaxRecord,      \* max_record_sec
    NoSpeech,       \* no_speech_timeout_sec
    MaxChunks       \* bound: chunks the microphone delivers

ASSUME CaptureAssumption ==
    /\ {Cap, Silence, MinSpeech, MaxRecord, NoSpeech} \subseteq Nat \ {0}
    /\ Padding \in Nat /\ MaxChunks \in Nat

Chunks == 1..MaxChunks

\* What the stt configuration asks for: the realtime path, with or without the
\* batch path to fall back to, or the batch path.
RealtimeModes == [realtime : {TRUE}, fallback : BOOLEAN]
BatchMode     == [realtime |-> FALSE, fallback |-> FALSE]
Setup(source, mode) ==
    [source |-> source, realtime |-> mode.realtime, fallback |-> mode.fallback]

\* The chunks of the wake loop come from its pre-roll; those of listen from a
\* stream of its own, or without endpointing from a recording of fixed length,
\* which has only the batch path.
WakeSetups   == {Setup("preroll", mode) : mode \in RealtimeModes \union {BatchMode}}
ListenSetups == {Setup("stream", mode) : mode \in RealtimeModes \union {BatchMode}}
                    \union {Setup("fixed", BatchMode)}
Setups == WakeSetups \union ListenSetups

VARIABLES
    setup,      \* one of Setups
    produced,   \* chunks read from the microphone: the newest one's number
    voice,      \* the chunks in which the VAD of the recorder finds speech
    reader,     \* where the reader thread is
    buffer,     \* _buffer, the pre-roll
    live,       \* _live_chunks
    capturing,  \* _capture_count > 0
    pc,         \* where the recording is
    snap,       \* what is left of the snapshot the capture began with
    heard,      \* the chunks the recorder got, in that order
    prefix,     \* its padding
    recorded,   \* what it saves
    speech,     \* speech_chunks
    silence,    \* silence_after_speech
    sent,       \* what the realtime provider accepted
    broken,     \* provider_error is set
    text,       \* the chunks the transcript was made from
    found,      \* where in heard the VAD of the batch path finds speech
    result,     \* how the last recording ended
    ordered,    \* history: the capture began on an unbroken pre-roll
    routed      \* history: chunks of commands that were carried out

source == <<produced, voice, reader, buffer, live>>
recorder == <<heard, prefix, recorded, speech, silence, sent, broken>>
transcript == <<text, found>>
vars == <<setup, source, capturing, pc, snap, recorder, transcript, result, ordered, routed>>

\* A deque with a maxlen: the oldest chunk makes room.
Push(queue, chunk, max) ==
    LET longer == Append(queue, chunk)
    IN IF Len(longer) > max THEN Tail(longer) ELSE longer

\* The locals of a recording: they begin empty and are gone when it is over.
Fresh == /\ prefix' = <<>> /\ recorded' = <<>> /\ sent' = <<>> /\ text' = <<>>
         /\ found' = {} /\ speech' = 0 /\ silence' = 0
Forget == Fresh /\ broken' = FALSE

ForgetAll == Forget /\ heard' = <<>> /\ ordered' = TRUE

Init ==
    /\ setup \in Setups
    /\ produced = 0 /\ voice = {} /\ buffer = <<>> /\ live = <<>> /\ capturing = FALSE
    /\ reader = IF setup.source = "preroll" THEN "read" ELSE "none"
    /\ pc = "idle" /\ snap = <<>> /\ heard = <<>> /\ prefix = <<>> /\ recorded = <<>>
    /\ speech = 0 /\ silence = 0 /\ sent = <<>> /\ broken = FALSE
    /\ text = <<>> /\ found = {} /\ result = "none" /\ ordered = TRUE /\ routed = {}

-----------------------------------------------------------------------------
(* The reader thread. *)

\* The microphone delivers one more chunk, with or without speech in it.
Produce == /\ produced < MaxChunks /\ produced' = produced + 1
           /\ \/ voice' = voice \union {produced'}
              \/ UNCHANGED voice

Read ==
    /\ reader = "read" /\ Produce
    /\ buffer' = Push(buffer, produced', Cap)
    /\ reader' = "put"
    /\ UNCHANGED <<setup, live, capturing, pc, snap, recorder, transcript, result, ordered, routed>>

\* _put_live_chunk looks whether a capture is going on ...
CheckCapturing ==
    /\ reader = "put"
    /\ reader' = IF capturing THEN "block" ELSE "drop"
    /\ UNCHANGED <<setup, produced, voice, buffer, live, capturing, pc, snap, recorder, transcript,
                   result, ordered, routed>>

Queued(queue) ==
    /\ live' = queue /\ reader' = "read"
    /\ UNCHANGED <<setup, produced, voice, buffer, capturing, pc, snap, recorder, transcript,
                   result, ordered, routed>>

\* ... and makes room without one, or waits for room, 0.05 s at a time.
PutDropping == reader = "drop" /\ Queued(Push(live, produced, Cap))
PutBlocking == reader = "block" /\ Len(live) < Cap /\ Queued(Append(live, produced))
PutFull ==
    /\ reader = "block" /\ Len(live) = Cap /\ reader' = "put"
    /\ UNCHANGED <<setup, produced, voice, buffer, live, capturing, pc, snap, recorder, transcript,
                   result, ordered, routed>>

\* The stream is closed when arecord ends, and gives no more chunks.
StreamCloses == reader = "read" /\ reader' = "dead"

\* arecord ends or the read raises: _running is FALSE.
ReaderEnds ==
    /\ StreamCloses
    /\ UNCHANGED <<setup, produced, voice, buffer, live, capturing, pc, snap, recorder, transcript,
                   result, ordered, routed>>

\* _ensure_preroll_source at the head of the wake loop.
EnsureSource ==
    /\ pc = "idle" /\ reader = "dead"
    /\ reader' = "read" /\ buffer' = <<>> /\ live' = <<>>
    /\ UNCHANGED <<setup, produced, voice, capturing, pc, snap, recorder, transcript, result,
                   ordered, routed>>

-----------------------------------------------------------------------------
(* The recording. *)

\* Mutant: the snapshot keeps what is already queued.
CaptureKeepingQueue == /\ capturing' = TRUE /\ snap' = buffer
                       /\ UNCHANGED live

\* capture_iter, up to its first chunk.
Capture == /\ capturing' = TRUE /\ snap' = buffer
           /\ live' = <<>>

Unbroken == \A i \in 1..Len(buffer) : buffer[i] = produced - Len(buffer) + i

\* Connecting to the provider may fail; without one there is nothing to fail.
ProviderStarts == IF setup.realtime THEN BOOLEAN ELSE {FALSE}

\* The provider is started first and may fail; the recorder begins.
Open ==
    /\ pc = "idle" /\ reader # "dead" /\ pc' = "record"
    /\ broken' \in ProviderStarts
    /\ Fresh /\ heard' = <<>> /\ result' = "none"
    /\ IF setup.source = "preroll" THEN Capture ELSE UNCHANGED <<capturing, snap, live>>
    /\ ordered' = Unbroken
    /\ UNCHANGED <<setup, produced, voice, reader, buffer, routed>>

\* Mutant: an append that fails is forgotten.
EmitAnyway(chunks) ==
    /\ \/ (~setup.realtime \/ broken) /\ UNCHANGED sent
       \/ setup.realtime /\ ~broken /\ sent' = sent \o chunks
       \/ setup.realtime /\ ~broken /\ sent' = sent \o Tail(chunks)
    /\ UNCHANGED broken

\* _emit_chunk, for these chunks: the first append that fails is the last one tried.
Emit(chunks) ==
    \/ (~setup.realtime \/ broken) /\ UNCHANGED <<sent, broken>>
    \/ setup.realtime /\ ~broken /\ sent' = sent \o chunks /\ UNCHANGED broken
    \/ /\ setup.realtime /\ ~broken /\ broken' = TRUE
       /\ \E n \in 0..(Len(chunks) - 1) : sent' = sent \o SubSeq(chunks, 1, n)

Ended == pc' = "close" /\ result' = "no_speech"
Saved == pc' = "saved" /\ UNCHANGED result
GoesOn == UNCHANGED <<pc, result>>

\* The listen has failed: all that is left is to close the iterator.
Fails(how) ==
    /\ pc' = "close" /\ result' = how /\ ForgetAll
    /\ UNCHANGED <<setup, source, capturing, snap, routed>>

\* Before speech the chunk goes to the padding; too many of them end the recording.
HearSilence(chunk) ==
    /\ recorded = <<>>
    /\ prefix' = Push(prefix, chunk, Padding)
    /\ IF Len(heard') >= NoSpeech \/ Len(heard') >= MaxRecord THEN Ended ELSE GoesOn
    /\ UNCHANGED <<recorded, speech, silence, sent, broken>>

HearOnset(chunk) ==
    /\ recorded = <<>>
    /\ recorded' = Append(prefix, chunk) /\ Emit(recorded')
    /\ speech' = 1 /\ silence' = 0
    /\ IF Len(heard') >= MaxRecord THEN Saved ELSE GoesOn
    /\ UNCHANGED prefix

\* After it the chunk is saved; enough silence after enough speech, or the
\* maximum, is the end of the utterance.
HearMore(chunk, isSpeech) ==
    /\ recorded # <<>>
    /\ recorded' = Append(recorded, chunk) /\ Emit(<<chunk>>)
    /\ IF isSpeech THEN speech' = speech + 1 /\ silence' = 0
                   ELSE silence' = silence + 1 /\ UNCHANGED speech
    /\ IF \/ speech' >= MinSpeech /\ silence' >= Silence
          \/ Len(heard') >= MaxRecord
       THEN Saved ELSE GoesOn
    /\ UNCHANGED prefix

\* probability: what the VAD driver, which remembers the chunks before, says of one
\* chunk, against the threshold.
Probable(chunk) == chunk \in voice'

\* The recorder asks it through an adapter.
IsSpeech(chunk) == Probable(chunk)

\* One turn of the loop of EndpointRecorder.record.
Hear(chunk) ==
    /\ heard' = Append(heard, chunk)
    /\ IF IsSpeech(chunk) THEN HearOnset(chunk) \/ HearMore(chunk, TRUE)
                       ELSE HearSilence(chunk) \/ HearMore(chunk, FALSE)
    /\ UNCHANGED <<setup, reader, capturing, transcript, ordered, routed>>

HearSnapshot ==
    /\ pc = "record" /\ snap # <<>>
    /\ snap' = Tail(snap)
    /\ UNCHANGED <<produced, voice, buffer, live>>
    /\ Hear(Head(snap))

\* A live chunk goes into the pre-roll once more.
HearLive ==
    /\ pc = "record" /\ setup.source = "preroll" /\ snap = <<>> /\ live # <<>>
    /\ live' = Tail(live)
    /\ buffer' = Push(buffer, Head(live), Cap)
    /\ UNCHANGED <<produced, voice, snap>>
    /\ Hear(Head(live))

\* listen outside the wake loop reads arecord itself.
HearStream ==
    /\ pc = "record" /\ setup.source = "stream"
    /\ Produce
    /\ UNCHANGED <<buffer, live, snap>>
    /\ Hear(produced')

\* Mutant: no deadline, the capture waits as long as the reader lives.
SourceEndsWithReader ==
    /\ pc = "record" /\ snap = <<>> /\ setup.source = "preroll"
    /\ live = <<>> /\ reader = "dead"
    /\ IF recorded = <<>> THEN Ended ELSE Saved
    /\ UNCHANGED <<setup, source, capturing, snap, recorder, transcript, ordered, routed>>

\* The capture of a pre-roll has a deadline of its own, and ends when the reader has.
SourceEnds ==
    /\ pc = "record" /\ snap = <<>> /\ setup.source = "preroll"
    /\ IF recorded = <<>> THEN Ended ELSE Saved
    /\ UNCHANGED <<setup, source, capturing, snap, recorder, transcript, ordered, routed>>

\* A stream of its own ends after max_chunks, or when arecord dies.
StreamEnds ==
    /\ pc = "record" /\ setup.source = "stream"
    /\ IF recorded = <<>> THEN Ended ELSE Saved
    /\ UNCHANGED <<setup, source, capturing, snap, recorder, transcript, ordered, routed>>

\* arecord for a fixed time, straight into the file.
RecordFixed ==
    /\ pc = "record" /\ setup.source = "fixed"
    /\ produced' \in produced..MaxChunks
    /\ \E spoken \in SUBSET ((produced + 1)..produced') : voice' = voice \union spoken
    /\ heard' = [i \in 1..(produced' - produced) |-> produced + i]
    /\ recorded' = heard'
    /\ Saved
    /\ UNCHANGED <<setup, reader, buffer, live, capturing, snap, prefix, speech, silence,
                   sent, broken, transcript, ordered, routed>>

\* The recorder or arecord fails.
RecordFails ==
    /\ pc = "record" /\ Fails("failed")

-----------------------------------------------------------------------------
(* The text. *)

\* The frames of the file in which the VAD finds speech: it begins afresh at the
\* head of the file, skips a frame it fails on and compares with > where the recorder
\* compares with >=, so it may find other speech than the recorder did, or none.
Detectable(chunks) == SUBSET DOMAIN chunks

\* Mutant: only the first segment is sent.
FirstSegment(frames) ==
    [start |-> Min(frames), end |-> Min({i \in frames : i + 1 \notin frames})]

\* The span of their segments: from the first frame with speech to the last ...
Span(frames) == [start |-> Min(frames), end |-> Max(frames)]

\* ... is what is sent to the ASR.
Trimmed(chunks, frames) == SubSeq(chunks, Span(frames).start, Span(frames).end)

\* The file is the end of what was heard.
Places(frames) == {Len(heard) - Len(recorded) + i : i \in frames}

Answer(how, from) ==
    /\ pc' = "close" /\ result' = how /\ text' = from
    /\ UNCHANGED <<setup, source, capturing, snap, recorder, ordered, routed>>

\* provider.finish: transcription.done.
FinishOk == /\ pc = "saved" /\ setup.realtime /\ ~broken
            /\ Answer("realtime", sent) /\ UNCHANGED found

\* An append or finish failed, or nothing came in response_timeout_sec.
FinishFails == /\ pc = "saved" /\ setup.realtime /\ ~setup.fallback
               /\ Fails("failed")

\* transcribe_audio_file: the batch path, and the fallback of the realtime one.
Batch == pc = "saved" /\ (~setup.realtime \/ setup.fallback)

Transcribe ==
    /\ Batch
    /\ \E frames \in Detectable(recorded) \ {{}} :
        /\ Answer("batch", Trimmed(recorded, frames))
        /\ found' = Places(frames)

\* As a fallback the batch path is not heard when it fails: the realtime error stands.
TranscribeNothing == /\ Batch
                     /\ Fails(IF setup.realtime THEN "failed" ELSE "no_speech")

\* The file, the VAD or the ASR fails.
TranscribeFails == /\ Batch
                   /\ Fails("failed")

\* The calls without a deadline: the read of a stream, sending to the provider, the
\* model of the batch path.  One that never returns is where the recording stays.
Waits == \/ pc = "record" /\ (setup.source = "stream" \/ (setup.realtime /\ ~broken))
         \/ pc = "saved" /\ (Batch \/ ~broken)

Hangs ==
    /\ Waits /\ pc' = "hung"
    /\ UNCHANGED <<setup, source, capturing, snap, recorder, transcript, result, ordered,
                   routed>>

\* The listen returns: only now is the iterator closed and the capture over.
Close ==
    /\ pc = "close"
    /\ capturing' = FALSE /\ snap' = <<>>
    /\ IF result \in {"realtime", "batch"}
       THEN pc' = "answered" /\ Forget /\ UNCHANGED <<heard, ordered>>
       ELSE pc' = "idle" /\ ForgetAll
    /\ result' = "none"
    /\ UNCHANGED <<setup, source, routed>>

\* The wake loop ignored the transcript.
Ignore ==
    /\ pc = "answered" /\ pc' = "idle"
    /\ ForgetAll
    /\ UNCHANGED <<setup, source, capturing, snap, result, routed>>

\* Mutant: the pre-roll stays.
ClearNoBuffer ==
    /\ pc = "answered" /\ pc' = "cleared"
    /\ UNCHANGED <<setup, source, capturing, snap, recorder, transcript, result, ordered, routed>>

\* It carried the command out and empties the source, first the pre-roll ...
ClearBuffer ==
    /\ pc = "answered" /\ pc' = "cleared"
    /\ buffer' = <<>>
    /\ UNCHANGED <<setup, produced, voice, reader, live, capturing, snap, recorder, transcript,
                   result, ordered, routed>>

\* ... then the queue.  A chunk the reader has in its hands stays there.
InHand == IF reader \in {"put", "drop", "block"} THEN {produced} ELSE {}

ClearQueue ==
    /\ pc = "cleared" /\ pc' = "idle"
    /\ live' = <<>>
    /\ routed' = routed \union (ToSet(heard) \ InHand)
    /\ ForgetAll
    /\ UNCHANGED <<setup, produced, voice, reader, buffer, capturing, snap, result>>

-----------------------------------------------------------------------------

Reader == Read \/ CheckCapturing \/ PutDropping \/ PutBlocking \/ PutFull
Recording == \/ HearSnapshot \/ HearLive \/ HearStream \/ SourceEnds \/ StreamEnds
             \/ RecordFixed \/ FinishOk \/ FinishFails \/ Transcribe \/ TranscribeNothing \/ Close
             \/ Ignore \/ ClearBuffer \/ ClearQueue

Next == \/ Reader \/ ReaderEnds \/ EnsureSource \/ Open \/ Recording \/ RecordFails
        \/ TranscribeFails \/ Hangs

Spec == Init /\ [][Next]_vars

(* The two threads run: a call of the recording returns, by its deadline when it *)
(* has one, or never does, and then the recording hangs.                         *)
FairSpec == Spec /\ WF_vars(Reader) /\ WF_vars(Recording)

-----------------------------------------------------------------------------
(* Properties. *)

\* The variables keep their types and the queues their bounds.
TypeOK ==
    /\ setup \in Setups /\ produced \in 0..MaxChunks /\ voice \subseteq Chunks
    /\ reader \in {"none", "read", "put", "drop", "block", "dead"}
    /\ buffer \in Seq(Chunks) /\ Len(buffer) <= Cap
    /\ live \in Seq(Chunks) /\ Len(live) <= Cap
    /\ capturing \in BOOLEAN /\ broken \in BOOLEAN /\ ordered \in BOOLEAN
    /\ pc \in {"idle", "record", "saved", "close", "answered", "cleared",
              "hung"}
    /\ {snap, heard, recorded, sent, text} \subseteq Seq(Chunks)
    /\ prefix \in Seq(Chunks) /\ Len(prefix) <= Padding
    /\ speech \in 0..MaxRecord /\ silence \in 0..MaxRecord
    /\ found \subseteq Int
    /\ result \in {"none", "realtime", "batch", "no_speech", "failed"} /\ routed \subseteq Chunks

\* The hand-over from the pre-roll to the live queue loses nothing: a capture
\* that begins on an unbroken pre-roll hears every chunk from there on, in
\* order; only the chunk in the reader's hands may be heard twice.
NoGap ==
    ordered => \A i \in 1..(Len(heard) - 1) : heard[i + 1] - heard[i] \in {0, 1}

\* What is transcribed is a part of what was heard, without a gap and with all of the
\* speech in it: for the realtime path all that the recorder's VAD found in what was
\* heard, for the batch path all that its own VAD found in the file.
Spoken == IF result = "realtime" THEN {i \in DOMAIN heard : heard[i] \in voice} ELSE found

TranscriptComplete ==
    result \in {"realtime", "batch"} => \E first, last \in 0 .. Len(heard) :
        /\ text = SubSeq(heard, first + 1, last)
        /\ Spoken \subseteq (first + 1) .. last

\* A command that was carried out is not heard again by a later recording.
NoEcho == pc \in {"record", "saved"} => ToSet(heard) \cap routed = {}

\* Every recording ends, also when the microphone dies under it, unless it stays in a
\* call without a deadline; one that makes no such call gets to the end of its audio.
CaptureEnds ==
    /\ pc = "record" ~> pc \in {"idle", "hung"}
    /\ (pc = "record" /\ ~Waits) ~> pc \in {"saved", "close"}
=============================================================================
