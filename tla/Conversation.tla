---------------------------- MODULE Conversation ----------------------------
(***************************************************************************)
(* From a wake word to the spoken answer: the wake loop of HearingModule   *)
(* (a task of its own), and, as handlers of the event bus, StateManager,   *)
(* the transcripts of PolicyEngine, CognitionBridge with its circuit       *)
(* breaker, and SpeechModule.                                              *)
(*                                                                         *)
(* The bus is the dispatcher of EventBus seen from its handlers: one event *)
(* at a time, HIGH before NORMAL, each in order; a handler that waits may  *)
(* be interrupted, and then its event is dispatched again.  Only two       *)
(* handlers wait: that of a request (for the service) and that of a speech *)
(* action (for the synthesizer and the speaker).  Everything they publish  *)
(* meanwhile stays queued until they are done.                             *)
(***************************************************************************)
EXTENDS Naturals, Sequences, FiniteSets

CONSTANTS
    MaxTurns,       \* bound: how many turns of the conversation are open at once
    Threshold,      \* circuit_failure_threshold
    MaxInterrupts   \* bound: how often a CRITICAL event interrupts a handler

ASSUME ConstantsAssumption ==
    MaxTurns \in Nat /\ Threshold \in Nat \ {0} /\ MaxInterrupts \in Nat

Turns  == 1 .. MaxTurns
NoTurn == 0

Circuits  == {"closed", "open", "half_open"}
Health    == {"healthy", "degraded", "unavailable"}
TurnKinds == {"request", "response", "unavailable", "started"}
News      == {"playback_started", "playback_over"} \union Health

Event(kind, t) == [kind |-> kind, turn |-> t]
High   == [kind : {"transcript"}, turn : Turns]
Normal == [kind : TurnKinds, turn : Turns] \union [kind : News, turn : {NoTurn}]

\* No handler waits; the wake loop waits for a wake word.
Free  == [kind |-> "free", turn |-> NoTurn]
Deaf  == [kind |-> "waiting", turn |-> NoTurn]

VARIABLES
    high, normal,  \* the queues of the bus, the events that matter here
    busy,          \* the handler that waits, of which turn
    hearing,       \* where the wake loop is, and the turn it records
    playback,      \* StateManager: audio.playback_active
    bridge,        \* StateManager: bridges["cognition"]
    available,     \* StateManager: cognition_available
    circuit,       \* CognitionBridge: _circuit_state
    failures,      \* CognitionBridge: _consecutive_failures, up to Threshold
    cooled,        \* the circuit has been open for circuit_cooldown_sec
    probe,         \* CognitionBridge: _half_open_probe_in_flight
    speaker,       \* ActionManager: the turn whose speech action has the speaker
    interrupts     \* how many interruptions there were

state   == <<playback, bridge, available>>
breaker == <<circuit, failures, cooled, probe>>
vars == <<high, normal, busy, hearing, state, breaker, speaker, interrupts>>

-----------------------------------------------------------------------------
KindAt(q, i, kinds) == q[i].kind \in kinds
Queued(kinds)  == \E i \in DOMAIN normal : KindAt(normal, i, kinds)
Places(t) == Cardinality({i \in DOMAIN high : high[i].turn = t})
             + Cardinality({i \in DOMAIN normal : normal[i].turn = t})
             + Cardinality({p \in {busy, hearing} : p.turn = t})
Fresh(t)  == Places(t) = 0 /\ speaker # t

\* The dispatcher takes an event; its handlers publish the NORMAL events es.
TakeHigh(kind, t, es) ==
    /\ busy = Free /\ high # <<>> /\ Head(high) = Event(kind, t)
    /\ high' = Tail(high)
    /\ normal' = normal \o es

TakeNormal(kind, t, es) ==
    /\ busy = Free /\ high = <<>>
    /\ normal # <<>> /\ Head(normal) = Event(kind, t)
    /\ normal' = Tail(normal) \o es
    /\ UNCHANGED high

\* A handler that waited goes on, publishes es and comes to its end.
Ends(kinds, t, es) ==
    /\ busy.kind \in kinds /\ busy.turn = t
    /\ busy' = Free
    /\ normal' = normal \o es
    /\ UNCHANGED high

Init ==
    /\ high = <<>> /\ normal = <<>>
    /\ busy = Free
    /\ hearing = Deaf
    /\ playback = FALSE
    /\ bridge = "unknown" /\ available = TRUE
    /\ circuit = "closed" /\ failures = 0 /\ cooled = FALSE /\ probe = FALSE
    /\ speaker = NoTurn
    /\ interrupts = 0

-----------------------------------------------------------------------------
\* _wake_loop: a wake word, unless the state says that the robot is speaking.
Wake(t) ==
    /\ hearing = Deaf /\ Fresh(t)
    /\ ~playback
    /\ hearing' = [kind |-> "recording", turn |-> t]
    /\ UNCHANGED <<high, normal, busy, state, breaker, speaker, interrupts>>

\* _listen_once: there was speech, and it was transcribed.
Transcribed(t) ==
    /\ hearing = [kind |-> "recording", turn |-> t]
    /\ hearing' = Deaf
    /\ high' = Append(high, Event("transcript", t))
    /\ UNCHANGED <<normal, busy, state, breaker, speaker, interrupts>>

\* _listen_once: no speech or an error.  Nobody acts on hearing.listen_failed.
ListenFails ==
    /\ hearing # Deaf
    /\ hearing' = Deaf
    /\ UNCHANGED <<high, normal, busy, state, breaker, speaker, interrupts>>

-----------------------------------------------------------------------------
\* admit_action and request_action for speech.speak on the speaker, or, when the
\* service asks for resource "none", without a lock.  A busy speaker refuses.
Admitted(t)    == IF speaker = NoTurn THEN <<Event("started", t)>> ELSE <<>>
LockSpeaker(t) == speaker' = IF speaker = NoTurn THEN t ELSE speaker

\* _handle_transcript
TranscriptIsLocal(t) ==
    /\ TakeHigh("transcript", t, <<>>)
    /\ UNCHANGED speaker

TranscriptIsAsked(t) ==
    /\ available
    /\ TakeHigh("transcript", t, <<Event("request", t)>>)
    /\ UNCHANGED speaker

TranscriptIsDeclined(t) ==
    /\ ~available
    /\ TakeHigh("transcript", t, Admitted(t))
    /\ LockSpeaker(t)

HandleTranscript(t) ==
    /\ TranscriptIsLocal(t) \/ TranscriptIsAsked(t) \/ TranscriptIsDeclined(t)
    /\ UNCHANGED <<busy, hearing, state, breaker, interrupts>>

\* _handle_cognition_response: nothing to do here, speech, or speech without lock.
HandleResponse(t) ==
    /\ \/ TakeNormal("response", t, <<>>) /\ UNCHANGED speaker
       \/ TakeNormal("response", t, Admitted(t)) /\ LockSpeaker(t)
       \/ TakeNormal("response", t, <<Event("started", t)>>) /\ UNCHANGED speaker
    /\ UNCHANGED <<busy, hearing, state, breaker, interrupts>>

\* StateManager.apply_event
HandleUnavailable(t) ==
    /\ TakeNormal("unavailable", t, <<>>)
    /\ available' = FALSE
    /\ UNCHANGED <<busy, hearing, playback, bridge, breaker, speaker, interrupts>>

HandleHealth(status) ==
    /\ TakeNormal(status, NoTurn, <<>>)
    /\ bridge' = status
    /\ available' = (status = "healthy")
    /\ UNCHANGED <<busy, hearing, playback, breaker, speaker, interrupts>>

HandlePlayback ==
    /\ \/ TakeNormal("playback_started", NoTurn, <<>>) /\ playback' = TRUE
       \/ TakeNormal("playback_over", NoTurn, <<>>) /\ playback' = FALSE
    /\ UNCHANGED <<busy, hearing, bridge, available, breaker, speaker, interrupts>>

-----------------------------------------------------------------------------
\* Mutant: the circuit becomes half-open without telling anybody.
RefreshedSilently == IF circuit = "open" /\ cooled THEN <<"half_open", <<>> >>
                     ELSE <<circuit, <<>> >>

\* _refresh_circuit_state: the state it leaves, and what it publishes.
Refreshed == IF circuit = "open" /\ cooled
             THEN <<"half_open", <<Event("degraded", NoTurn)>> >>
             ELSE <<circuit, <<>> >>

\* The circuit lets no request through.
Barred(now) == now = "open" \/ (now = "half_open" /\ probe)

\* _handle_request up to the service, or to the open circuit.
RequestIsSent(t) ==
    LET now == Refreshed[1] IN
    /\ ~Barred(now)
    /\ TakeNormal("request", t, Refreshed[2])
    /\ busy' = Event("request", t)
    /\ circuit' = now
    /\ probe' = (now = "half_open")
    /\ UNCHANGED <<hearing, state, failures, cooled, speaker, interrupts>>

RequestIsRefused(t) ==
    LET now == Refreshed[1] IN
    /\ Barred(now)
    /\ TakeNormal("request", t, Refreshed[2] \o <<Event("unavailable", t)>>)
    /\ circuit' = now
    /\ UNCHANGED <<busy, hearing, state, failures, cooled, probe, speaker, interrupts>>

\* The service answered; a probe closes the circuit.
RequestSucceeds(t) ==
    /\ failures' = 0
    /\ IF probe
         THEN /\ Ends({"request"}, t, <<Event("healthy", NoTurn), Event("response", t)>>)
              /\ circuit' = "closed" /\ cooled' = FALSE /\ probe' = FALSE
         ELSE /\ Ends({"request"}, t, <<Event("response", t)>>)
              /\ UNCHANGED <<circuit, cooled, probe>>
    /\ UNCHANGED <<hearing, state, speaker, interrupts>>

\* Mutant: what failed is asked again.
Complaint(t) == <<Event("unavailable", t), Event("request", t)>>
Sorry(t)     == <<Event("unavailable", t)>>

\* The service failed; a failed probe or one failure too many opens the circuit.
RequestFails(t) ==
    /\ failures' = IF failures < Threshold THEN failures + 1 ELSE failures
    /\ IF circuit = "half_open" \/ failures' >= Threshold
         THEN /\ Ends({"request"}, t, <<Event("unavailable", NoTurn)>> \o Sorry(t))
              /\ circuit' = "open" /\ cooled' = FALSE /\ probe' = FALSE
         ELSE /\ Ends({"request"}, t, Sorry(t))
              /\ probe' = FALSE
              /\ UNCHANGED <<circuit, cooled>>
    /\ UNCHANGED <<hearing, state, speaker, interrupts>>

-----------------------------------------------------------------------------
\* SpeechModule._handle_action_started: synthesize and connect, then play.
SpeechStarts(t) ==
    /\ TakeNormal("started", t, <<>>)
    /\ busy' = Event("synthesis", t)
    /\ UNCHANGED <<hearing, state, breaker, speaker, interrupts>>

SpeechPlays(t) ==
    /\ busy = Event("synthesis", t)
    /\ busy' = Event("playback", t)
    /\ normal' = Append(normal, Event("playback_started", NoTurn))
    /\ UNCHANGED <<high, hearing, state, breaker, speaker, interrupts>>

\* Mutant: a failed action keeps the speaker.
KeepsSpeaker(t) == speaker' = speaker

\* complete_action and fail_action give the speaker back.
ReleaseSpeaker(t) == speaker' = IF speaker = t THEN NoTurn ELSE speaker

SpeechCompletes(t) ==
    /\ Ends({"playback"}, t, <<Event("playback_over", NoTurn)>>)
    /\ ReleaseSpeaker(t)
    /\ UNCHANGED <<hearing, state, breaker, interrupts>>

SpeechFails(t) ==
    /\ Ends({"synthesis", "playback"}, t, <<Event("playback_over", NoTurn)>>)
    /\ ReleaseSpeaker(t)
    /\ UNCHANGED <<hearing, state, breaker, interrupts>>

-----------------------------------------------------------------------------
\* Mutants: the interrupted event is lost; the finally of _handle_request is missing.
InterruptedLost(e) == UNCHANGED <<high, normal>>
ProbeKept == probe

Interrupted(e) == normal' = <<e>> \o normal /\ UNCHANGED high
ProbeAfterwards == FALSE

\* The fast path of the bus cancels the handler and requeues its event.
Interrupt ==
    /\ busy # Free /\ interrupts < MaxInterrupts
    /\ Interrupted(Event(IF busy.kind = "request" THEN "request" ELSE "started", busy.turn))
    /\ busy' = Free
    /\ probe' = IF busy.kind = "request" THEN ProbeAfterwards ELSE probe
    /\ interrupts' = interrupts + 1
    /\ UNCHANGED <<hearing, state, circuit, failures, cooled, speaker>>

CooldownPasses ==
    /\ circuit = "open" /\ ~cooled
    /\ cooled' = TRUE
    /\ UNCHANGED <<high, normal, busy, hearing, state, circuit, failures, probe,
                   speaker, interrupts>>

-----------------------------------------------------------------------------
Hearing == ListenFails \/ \E t \in Turns : Transcribed(t)

DispatchHigh == \E t \in Turns : HandleTranscript(t)

DispatchNormal ==
    \/ HandlePlayback
    \/ \E status \in Health : HandleHealth(status)
    \/ \E t \in Turns :
          \/ HandleResponse(t) \/ HandleUnavailable(t)
          \/ RequestIsSent(t) \/ RequestIsRefused(t) \/ SpeechStarts(t)

Waits ==
    \E t \in Turns :
        \/ RequestSucceeds(t) \/ RequestFails(t)
        \/ SpeechPlays(t) \/ SpeechCompletes(t) \/ SpeechFails(t)

Next ==
    \/ \E t \in Turns : Wake(t)
    \/ Hearing \/ DispatchHigh \/ DispatchNormal \/ Waits
    \/ Interrupt \/ CooldownPasses

Spec == Init /\ [][Next]_vars

\* asyncio goes on with whatever is ready, and every driver and the service answers
\* in the end.  An idle dispatcher takes a NORMAL event at once, it awaits nothing
\* that would let others come first again and again: hence SF.  Nobody has to
\* speak, and the service may fail for ever.
Fairness ==
    /\ WF_vars(Hearing) /\ WF_vars(DispatchHigh) /\ SF_vars(DispatchNormal)
    /\ WF_vars(Waits) /\ WF_vars(CooldownPasses)

FairSpec == Spec /\ Fairness

-----------------------------------------------------------------------------
TypeOK ==
    /\ high    \in Seq(High)
    /\ normal  \in Seq(Normal)
    /\ busy    \in {Free} \union [kind : {"request", "synthesis", "playback"}, turn : Turns]
    /\ hearing \in {Deaf} \union [kind : {"recording"}, turn : Turns]
    /\ playback \in BOOLEAN /\ available \in BOOLEAN
    /\ bridge  \in Health \union {"unknown"}
    /\ circuit \in Circuits /\ failures \in 0 .. Threshold
    /\ cooled \in BOOLEAN /\ probe \in BOOLEAN
    /\ speaker \in Turns \union {NoTurn}
    /\ interrupts \in 0 .. MaxInterrupts

-----------------------------------------------------------------------------
\* The last news of a kind: the last one queued, or what StateManager has already.
Latest(kinds, known) ==
    LET at == {i \in DOMAIN normal : normal[i].turn = NoTurn /\ KindAt(normal, i, kinds)} IN
    IF at = {} THEN known ELSE normal[CHOOSE i \in at : \A j \in at : j <= i].kind

\* What CognitionBridge last told about its circuit is what the circuit is, whether
\* StateManager has it already or it is still queued, also after a probe that was
\* interrupted and sent again.
KnownCircuit ==
    Latest(Health, bridge) \in [closed    |-> {"unknown", "healthy"},
                                half_open |-> {"degraded"},
                                open      |-> {"unavailable"}][circuit]

\* A turn is in one place: recorded, queued as one event, or handled.  It is never
\* asked twice at a time, and gets one answer, however often it is interrupted.
OnePlace == \A t \in Turns : Places(t) <= 1

\* The speaker is locked only for a speech action that will still be handled.
SpeakerInUse ==
    speaker # NoTurn =>
        \/ \E i \in DOMAIN normal : normal[i] = Event("started", speaker)
        \/ busy.kind \in {"synthesis", "playback"} /\ busy.turn = speaker

\* As long as people leave the bus idle now and then, a probe is resolved, even one
\* that is interrupted: the circuit does not stay half-open.
Idle == high = <<>> /\ busy = Free
HalfOpenEnds == []<>Idle => ((circuit = "half_open") ~> (circuit # "half_open"))

Resting == Idle /\ normal = <<>> /\ speaker = NoTurn /\ ~playback

\* Once nobody speaks every turn ends, and the speaker is free and silent.
Silence == <>[](hearing = Deaf) => <>[]Resting
=============================================================================
