-------------------------------- MODULE Wake --------------------------------
(***************************************************************************)
(* The hands-free loop of the legacy roamer (capabilities/wake.py) with    *)
(* the speeches of its own and of other processes (Playback).  The loop    *)
(* waits for a GPIO trigger or, for followup_timeout_sec, for speech; a    *)
(* transcript is ignored, answered by a local intent, or sent to Discord,  *)
(* whose reply is a speech of another process that the loop waits for by   *)
(* the playback generation.                                                *)
(*                                                                         *)
(* The loop is run as the service runs it: no deadline, not once.          *)
(***************************************************************************)
EXTENDS Playback, Integers

CONSTANTS
    FollowupTicks,  \* followup_timeout_sec
    IntervalTicks,  \* min_interval_sec between two accepted triggers
    MaxTurns        \* max_followup_turns

ASSUME WakeAssumption ==
    /\ FollowupTicks \in Nat \ {0} /\ IntervalTicks \in Nat /\ MaxTurns \in Nat \ {0}

VARIABLES
    wpc,        \* where the loop is
    mic,        \* the pre-roll reader: healthy or not
    window,     \* _followup_until is set
    followup,   \* ticks until _followup_until
    turns,      \* _followup_turns
    armed,      \* _armed_followup_after_playback: its after_generation, or NotArmed
    interval,   \* ticks until a trigger is accepted again
    waiting,    \* in_followup_wait of the current recording
    heard,      \* the command being routed
    localTurns  \* history: local turns since the last accepted trigger

wvars == <<wpc, mic, window, followup, turns, armed, interval, waiting, heard, localTurns>>
vars == <<pvars, wvars>>

NotArmed == -1
NothingHeard == [local |-> FALSE, fallback |-> FALSE]

\* A transcript: does it begin with a wake phrase, and what is the rest of it.
Utterances ==
    [phrase : {TRUE}, text : {"nothing", "stop", "short", "local", "other"}]
        \union [phrase : {FALSE}, text : {"nothing", "stop", "short", "local", "other"}]

\* What _is_stop_phrase, _is_too_short_asr_text and _is_wake_phrase_only say of it:
\* the punctuation counts for none of them, and a phrase said twice is only a phrase.
IsStopPhrase(u) == u.text = "stop"
IsTooShort(u)   == u.text = "short"
IsPhraseOnly(u) == u.phrase /\ u.text = "nothing"

InFollowup == followup > 0

EnterFollowup == window' = TRUE /\ followup' = FollowupTicks
LeaveFollowup == window' = FALSE /\ followup' = 0 /\ turns' = 0
KeepFollowup  == UNCHANGED <<window, followup>>

\* _disarm_followup_after_playback: the reply is not awaited any more.
Disarm == armed' = NotArmed

\* _start_preroll_source_if_needed: a new capture and its reader.
StartReader == mic' = "up"

\* The memory of a new process: __init__ and the start of run.
NewLoop(at) ==
    /\ wpc' = at /\ StartReader /\ window' = FALSE /\ followup' = 0 /\ turns' = 0
    /\ armed' = NotArmed /\ interval' = 0 /\ waiting' = FALSE
    /\ heard' = NothingHeard /\ localTurns' = 0

Init ==
    /\ PlaybackInit
    /\ wpc = "top" /\ mic = "up" /\ window = FALSE /\ followup = 0 /\ turns = 0
    /\ armed = NotArmed /\ interval = 0 /\ waiting = FALSE
    /\ heard = NothingHeard /\ localTurns = 0

\* run returns an error, or the process is killed: the service starts it again.
ExitWith(how) ==
    /\ how /\ Goto(WakeProcess, "idle") /\ UNCHANGED plays
    /\ NewLoop("down")

Leave == ExitWith(Killed(WakeProcess, {Untouched}))

-----------------------------------------------------------------------------
(* One turn of the loop. *)

\* The head of the loop: the follow-up that ran out is closed, and a reader that
\* died is started again (_ensure_preroll_source), or the loop ends.
LoopTop ==
    /\ wpc = "top"
    /\ \/ /\ IF window /\ ~InFollowup THEN LeaveFollowup ELSE KeepFollowup /\ UNCHANGED turns
          /\ wpc' = "look" /\ StartReader
          /\ UNCHANGED <<pvars, armed, interval, waiting, heard, localTurns>>
       \/ mic = "dead" /\ Leave

\* is_active: while something is played the loop sleeps and starts over.
CheckPlayback(active) ==
    /\ wpc = "look"
    /\ wpc' = IF active THEN "skip" ELSE "armed"
    /\ UNCHANGED <<spk, playback, plays, mic, window, followup, turns, armed, interval,
                   waiting, heard, localTurns>>

Look == \/ CheckPlayback(Active) /\ Snapshot
        \/ CheckPlayback(FALSE) /\ SnapshotFails

\* The log record of the skip reads the generation.
Skip == /\ wpc = "skip" /\ wpc' = "top"
        /\ Snapshot \/ SnapshotFails
        /\ UNCHANGED <<spk, playback, plays, mic, window, followup, turns, armed, interval,
                       waiting, heard, localTurns>>

\* in_followup_wait, and what it decides.
Decide == /\ waiting' = InFollowup
          /\ wpc' = IF InFollowup THEN "record" ELSE "wait"

\* _enter_followup_if_armed_playback_done asks is_active a second time ...
CheckArmed(active) ==
    /\ wpc = "armed"
    /\ IF armed = NotArmed \/ active THEN Decide
                                     ELSE wpc' = "generation" /\ UNCHANGED waiting
    /\ UNCHANGED <<spk, playback, plays, mic, window, followup, turns, armed, interval,
                   heard, localTurns>>

ArmedTop == \/ CheckArmed(Active) /\ IF armed = NotArmed THEN UNCHANGED <<markers, json>>
                                                         ELSE Snapshot
            \/ armed # NotArmed /\ CheckArmed(FALSE) /\ SnapshotFails

\* ... and then generation.
CheckGeneration(generation) ==
    /\ wpc = "generation"
    /\ IF generation > armed
       THEN /\ armed' = NotArmed
            /\ EnterFollowup
            /\ waiting' = TRUE /\ wpc' = "record"
       ELSE /\ KeepFollowup /\ UNCHANGED armed
            /\ Decide
    /\ UNCHANGED <<spk, playback, plays, mic, turns, interval, heard, localTurns>>

GenerationRead == CheckGeneration(Generation) /\ Snapshot
GenerationUnavailable == CheckGeneration(0) /\ SnapshotFails

\* _accept_trigger: not within min_interval_sec of the last accepted one.
AcceptTrigger == interval = 0

\* The GPIO line rises while the loop waits for it.
Trigger ==
    /\ wpc = "wait"
    /\ \/ /\ ~AcceptTrigger
          /\ wpc' = "top" /\ UNCHANGED <<interval, armed, localTurns>>
       \/ /\ AcceptTrigger
          /\ interval' = IntervalTicks
          /\ Disarm
          /\ wpc' = "record" /\ localTurns' = 0
    /\ UNCHANGED <<pvars, mic, window, followup, turns, waiting, heard>>

\* While a reply is awaited the wait for the trigger is only 0.2 s.
TriggerTimeout ==
    /\ wpc = "wait" /\ armed # NotArmed
    /\ wpc' = "top"
    /\ UNCHANGED <<pvars, mic, window, followup, turns, armed, interval, waiting, heard,
                   localTurns>>

TriggerFails == wpc = "wait" /\ Leave

-----------------------------------------------------------------------------
(* What was recorded. *)

\* listen failed: no speech closes the follow-up it was awaited in.
ListenFails ==
    /\ wpc = "record" /\ wpc' = "top"
    /\ \/ waiting /\ LeaveFollowup
       \/ KeepFollowup /\ UNCHANGED turns
    /\ waiting' = FALSE
    /\ UNCHANGED <<pvars, mic, armed, interval, heard, localTurns>>

\* in_followup is read again after the recording and the transcription.
Ignored(u) == ~u.phrase /\ ~InFollowup /\ u.text # "local"

Heard(u) ==
    /\ wpc = "record"
    /\ \/ /\ u = [phrase |-> FALSE, text |-> "nothing"]
          /\ IF waiting THEN LeaveFollowup ELSE KeepFollowup /\ UNCHANGED turns
          /\ wpc' = "top" /\ UNCHANGED heard
       \/ /\ IsPhraseOnly(u)
          /\ EnterFollowup /\ UNCHANGED turns
          /\ wpc' = "top" /\ UNCHANGED heard
       \/ /\ u.text # "nothing" /\ Ignored(u)
          /\ KeepFollowup /\ UNCHANGED turns
          /\ wpc' = "top" /\ UNCHANGED heard
       \/ /\ IsStopPhrase(u) \/ IsTooShort(u)
          /\ ~Ignored(u)
          /\ LeaveFollowup
          /\ wpc' = "top" /\ UNCHANGED heard
       \/ /\ u.text \in {"local", "other"} /\ ~Ignored(u)
          /\ KeepFollowup /\ UNCHANGED turns
          /\ wpc' = "route"
          /\ heard' = [local |-> u.text = "local", fallback |-> u.phrase \/ InFollowup]
    /\ waiting' = FALSE
    /\ UNCHANGED <<pvars, mic, armed, interval, localTurns>>

-----------------------------------------------------------------------------
(* ConverseCapability.route_text, and what the loop does with its answer. *)

\* _route_text: the command is in the hands of route_text until the loop goes on.
Routed(next) == wpc = "route" /\ wpc' = next

\* A local intent: the answer is spoken by this process, unless the action
\* failed or there is no sound.
RouteLocal ==
    /\ heard.local
    /\ \/ Routed("speak") /\ StartSpeak(WakeProcess)
       \/ Routed("answered") /\ UNCHANGED pvars
    /\ UNCHANGED <<mic, window, followup, turns, armed, interval, waiting, heard, localTurns>>

LocalSpoken ==
    /\ wpc = "speak" /\ spk[WakeProcess] = "idle"
    /\ wpc' = "answered"
    /\ UNCHANGED <<pvars, mic, window, followup, turns, armed, interval, waiting, heard,
                   localTurns>>

\* Mutant: one turn too many.
AnsweredOnceMore ==
    /\ wpc = "answered" /\ wpc' = "top"
    /\ localTurns' = localTurns + 1
    /\ IF turns + 1 > MaxTurns THEN LeaveFollowup
                               ELSE turns' = turns + 1 /\ EnterFollowup
    /\ heard' = NothingHeard
    /\ UNCHANGED <<pvars, mic, armed, interval, waiting>>

Answered ==
    /\ wpc = "answered" /\ wpc' = "top"
    /\ localTurns' = localTurns + 1
    /\ IF turns + 1 >= MaxTurns THEN LeaveFollowup
                                ELSE turns' = turns + 1 /\ EnterFollowup
    /\ heard' = NothingHeard
    /\ UNCHANGED <<pvars, mic, armed, interval, waiting>>

\* The command is for Discord.
ForDiscord == ~heard.local /\ heard.fallback

\* send_fallback: sent, or skipped because Discord is disabled; a failure ends
\* the loop, and so does a configuration of intents that match_intent refuses.
RouteDiscord ==
    /\ ForDiscord /\ Routed("arm")
    /\ UNCHANGED <<pvars, mic, window, followup, turns, armed, interval, waiting, heard,
                   localTurns>>

SendFails == wpc = "route" /\ ForDiscord /\ Leave
IntentsRefused == wpc = "route" /\ Leave

\* _arm_followup_after_playback: the reply is awaited from this generation on.
Arm(generation) ==
    /\ wpc = "arm" /\ wpc' = "top"
    /\ window' = FALSE /\ followup' = 0
    /\ armed' = generation
    /\ heard' = NothingHeard
    /\ UNCHANGED <<spk, playback, plays, mic, turns, interval, waiting, localTurns>>

ArmFollowup == \/ Arm(Generation) /\ Snapshot
               \/ Arm(0) /\ SnapshotFails

-----------------------------------------------------------------------------
(* The environment. *)

MicFails == /\ wpc # "down" /\ mic = "up" /\ mic' = "dead"
            /\ UNCHANGED <<pvars, wpc, window, followup, turns, armed, interval, waiting,
                           heard, localTurns>>

\* The places where the loop reads the playback state.
Reading == wpc \in {"look", "skip", "armed", "generation", "arm"}

WakeDies ==
    /\ wpc # "down"
    /\ \/ ExitWith(Killed(WakeProcess, Halfway(WakeProcess)))
       \/ Reading /\ ExitWith(Killed(WakeProcess, HalfSynced))

\* systemd starts the service again (roamer-wake.service, Restart=on-failure).
Restart == wpc = "down" /\ NewLoop("top") /\ UNCHANGED pvars

OtherProcesses ==
    \/ \E p \in Speakers : (StartSpeak(p) \/ (spk[p] # "idle" /\ Dies(p))) /\ UNCHANGED wvars
    \/ \E p \in Procs : SpeakerStep(p) /\ UNCHANGED wvars

Down1(n) == IF n = 0 THEN 0 ELSE n - 1

Tick ==
    /\ markers' = Aged(markers)
    /\ followup' = Down1(followup) /\ interval' = Down1(interval)
    /\ UNCHANGED <<json, spk, playback, plays, wpc, mic, window, turns, armed, waiting,
                   heard, localTurns>>

Loop == \/ LoopTop \/ Look \/ Skip \/ ArmedTop \/ GenerationRead \/ GenerationUnavailable
        \/ TriggerTimeout \/ ListenFails \/ (\E u \in Utterances : Heard(u))
        \/ RouteLocal \/ LocalSpoken \/ Answered \/ RouteDiscord \/ ArmFollowup

Next == \/ Loop \/ Trigger \/ TriggerFails \/ SendFails \/ IntentsRefused \/ MicFails \/ WakeDies
        \/ Restart \/ OtherProcesses \/ Tick

Spec == Init /\ [][Next]_vars

(* The loop and the speeches go on, the service manager restarts the loop,  *)
(* time passes, and the state directory is not unavailable at every try.    *)
Fairness ==
    /\ WF_vars(Loop) /\ SF_vars(GenerationRead)
    /\ \A p \in Procs : WF_vars(SpeakerStep(p) /\ UNCHANGED wvars)
    /\ WF_vars(Restart) /\ WF_vars(Tick)
FairSpec == Spec /\ Fairness

-----------------------------------------------------------------------------
(* Properties. *)

\* The variables keep their types.
TypeOK ==
    /\ PlaybackTypeOK
    /\ wpc \in {"top", "look", "skip", "armed", "generation", "wait", "record", "route", "speak", "answered",
                 "arm", "down"}
    /\ mic \in {"up", "dead"} /\ window \in BOOLEAN /\ waiting \in BOOLEAN
    /\ followup \in 0..FollowupTicks /\ interval \in 0..IntervalTicks
    /\ turns \in 0..(MaxTurns - 1) /\ armed \in Nat \union {NotArmed}
    /\ heard \in [local : BOOLEAN, fallback : BOOLEAN]

\* One accepted trigger leads to at most max_followup_turns local answers, also
\* when replies of Discord open the window again between them: the count is
\* reset only where nothing but a trigger can go on.
LocalTurnsBounded == localTurns <= MaxTurns

\* A marker file goes only when it has expired, its process is dead, or its own
\* speech ends: no process hides the speech of another one.
MarkerKept ==
    [][\A i \in DOMAIN markers \ DOMAIN markers' :
          \/ markers[i].left = 0
          \/ \E p \in Procs : spk[p] = "finish" /\ playback[p] = i]_vars

\* A speaker that crashed or hangs does not mute the loop for ever.
SkipEnds == wpc = "look" ~> wpc \notin {"top", "look", "skip"}

\* When a speech with a marker is heard while the loop awaits a reply, the loop
\* stops awaiting it: the window opens, or a trigger or a restart came first.
ReplyOpensWindow ==
    armed # NotArmed /\ (\E p \in Procs : spk[p] = "marked" /\ playback[p] \in Fresh)
        ~> armed = NotArmed
=============================================================================
