----------------------------- MODULE Observers -----------------------------
(***************************************************************************)
(* What the subscribers of the bus make of the events: the flags, health   *)
(* and position of StateManager, the position and the person of            *)
(* WorldModel, the files of TraceLogger, the buffer of MemoryBridge, and   *)
(* the health loop of Supervisor that feeds the first.  They observe each  *)
(* event in this order and before any module acts on it, and they observe  *)
(* an event again when a CRITICAL one takes its last handler off the bus.  *)
(* PolicyEngine takes new rules for utterances from the bus as well.       *)
(*                                                                         *)
(* A process may die and start again; only the trace files outlive it.     *)
(* The position and the persons come from drivers that are not part of the *)
(* repository, and one module stands for those whose health is watched.    *)
(* Queues are not full (EventBus), and the trace logger does not forget an *)
(* event id before its event is over (10,000 of them).                     *)
(***************************************************************************)
EXTENDS Naturals, Sequences, Intents

CONSTANTS
    MaxEvents,      \* bound: events that are published
    MaxStarts,      \* bound: how often the process starts
    MaxPerFile,     \* max_bytes of a trace file, in entries of one size
    FlushSize,      \* flush_size of MemoryBridge
    MaxFailures,    \* max_consecutive_failures
    Scenarios       \* bound: the sources of events that a behaviour has, together

AllSources == {"goto", "speak", "listen", "candidate", "position", "person", "alarm", "check", "policy"}

ASSUME ObserversAssumption ==
    /\ MaxEvents \in Nat \ {0} /\ MaxStarts \in Nat \ {0} /\ MaxPerFile \in Nat \ {0}
    /\ FlushSize \in Nat \ {0} /\ MaxFailures \in Nat \ {0} /\ Scenarios \subseteq SUBSET AllSources

VARIABLES
    sources,        \* what happens outside the observers
    phase,          \* of the process: "up", "stopping", "draining" or "off"
    starts,         \* how often it has started
    queue, busy,    \* the queues by priority; the event whose handler waits
    made,           \* how many events were published
    playing,        \* SpeechModule waits for the player
    recording,      \* HearingModule records or transcribes
    shown,          \* StateManager: listening, playback_active, moving
    health,         \* StateManager: the health of the module
    place, person,  \* the position in both models; who is present, by name
    intents,        \* PolicyRuleStore.local_intents, by name
    last,           \* Supervisor._last_health
    seen,           \* TraceLogger._seen_event_ids
    files, index,   \* the trace files; the one that is written
    unflushed,      \* how many of its entries are in the buffer of the file
    buffer,         \* MemoryBridge._buffer
    flushing,       \* the candidates that are being delivered, and by whom
    failures,       \* _consecutive_flush_failures
    sink,           \* history: the candidates that were delivered
    handled,        \* history: those that were put into the buffer
    truncated,      \* history: those that it had no room for
    late,           \* history: those put into it while the flush of stop() was under way
    unanswered,     \* history: the flags whose start was not followed by its end
    acted           \* history: the alarms that were acted on

process == <<sources, phase, starts>>
bus     == <<queue, busy, made>>
senses  == <<playing, recording, unanswered>>
models  == <<shown, health, place, person, intents>>
trace   == <<seen, files, index, unflushed>>
memory  == <<buffer, flushing, failures, sink, handled, truncated, late>>
vars == <<process, bus, senses, models, last, trace, memory, acted>>

Levels  == {"CRITICAL", "HIGH", "NORMAL"}
Rank    == [CRITICAL |-> 0, HIGH |-> 1, NORMAL |-> 2]
NoEvent == [id |-> 0, type |-> "none", level |-> "NORMAL"]
Who     == {"dispatcher", "app"}
Elements(s) == {s[i] : i \in DOMAIN s}

-----------------------------------------------------------------------------
(* The bus. *)

Event(type, level) == [type |-> type, level |-> level]
Urgent(type)   == Event(type, "CRITICAL")
High(type)     == Event(type, "HIGH")
Normal(type)   == Event(type, "NORMAL")

\* publish: the event gets the next id and is the last of its priority.
Queued(q, n, e) ==
    [q EXCEPT ![e.level] = Append(@, [id |-> n, type |-> e.type, level |-> e.level])]

Publish(e) ==
    /\ made < MaxEvents /\ made' = made + 1
    /\ queue' = Queued(queue, made + 1, e)

IsNext(e) ==
    /\ phase # "off" /\ busy = NoEvent
    /\ \E l \in Levels : /\ queue[l] # <<>> /\ e = Head(queue[l])
                         /\ \A k \in Levels : Rank[k] < Rank[l] => queue[k] = <<>>

Rest(e) == [queue EXCEPT ![e.level] = Tail(@)]

-----------------------------------------------------------------------------
(* The observers: an event goes through all of them at once. *)

Sets(type) == CASE type = "recording_started" -> {"listening"}
                [] type = "playback_started"  -> {"playback"}
                [] type = "motion_started"    -> {"moving"}
                [] OTHER -> {}
\* Mutant: only a motion that arrives is over.
ClearsOnSuccess(type) == CASE type = "transcript_ready"   -> {"listening"}
                           [] type = "playback_ended"     -> {"playback"}
                           [] type = "motion_completed"   -> {"moving"}
                           [] OTHER -> {}
Clears(type) == CASE type = "transcript_ready" -> {"listening"}
                  [] type = "playback_ended"   -> {"playback"}
                  [] type \in {"motion_completed", "motion_failed"} -> {"moving"}
                  [] OTHER -> {}

Health(e) == CASE e.type \in {"ready", "healthy"} -> "healthy"
               [] e.type = "unavailable" -> "unavailable"
               [] OTHER -> health

\* StateManager.apply_event.
Applied(e) ==
    /\ shown' = (shown \union Sets(e.type)) \ Clears(e.type)
    /\ health' = Health(e)

\* What it shows as the mode.  That playback_active is not believed after two
\* minutes is left out: time does not pass here.
Mode == CASE health = "unavailable"  -> "error"
          [] "listening" \in shown   -> "listening"
          [] "playback" \in shown    -> "speaking"
          [] "moving" \in shown      -> "moving"
          [] OTHER -> "idle"

\* WorldModel: the last position; a person that is seen again keeps the name.
Position(e) == IF e.type = "position" THEN e.id ELSE place
Person(e) == CASE e.type = "named" -> "named"
               [] e.type = "someone" /\ person = "nobody" -> "unnamed"
               [] OTHER -> person
Modelled(e) == place' = Position(e) /\ person' = Person(e)

\* PolicyEngine._handle_policy_update.
Governed(e) == intents' = IF e.type \in DOMAIN RuleLists THEN e.type ELSE intents

\* Mutant: an entry that exactly fits goes into the full file.
FullSoon(i) == Len(files[i]) > MaxPerFile
Full(i) == Len(files[i]) >= MaxPerFile

\* _write_entry: what rotates is flushed and closed, and the next file is not
\* looked at again, however full it is.
Writes == IF Full(index) THEN index + 1 ELSE index

\* log: an error is flushed.
Written(id, urgent) ==
    /\ files' = [files EXCEPT ![Writes] = Append(@, id)] /\ index' = Writes
    /\ unflushed' = IF urgent THEN 0 ELSE IF Writes = index THEN unflushed + 1 ELSE 1

\* Mutant: an event that comes again is written again.
LoggedAgain(e) == seen' = seen \union {e.id} /\ Written(e.id, e.level = "CRITICAL")

\* Mutant: only what the safety code calls safety is flushed.
LoggedUnflushed(e) ==
    IF e.id \in seen THEN UNCHANGED trace
    ELSE seen' = seen \union {e.id} /\ Written(e.id, e.type = "safety")

\* TraceLogger._handle_event.
Logged(e) ==
    IF e.id \in seen THEN UNCHANGED trace
    ELSE seen' = seen \union {e.id} /\ Written(e.id, e.level = "CRITICAL")

Observed(e) == Applied(e) /\ Modelled(e) /\ Logged(e) /\ Governed(e)

-----------------------------------------------------------------------------
(* The dispatcher, and the modules whose events are of interest. *)

\* No module has anything to do for the event, or it is done at once.
Seen(e) ==
    /\ IsNext(e) /\ e.type \notin {"speak", "goto", "candidate"} /\ Observed(e)
    /\ queue' = Rest(e)
    /\ acted' = IF e.type = "alarm" THEN acted \union {e.id} ELSE acted
    /\ UNCHANGED <<process, busy, made, senses, last, memory>>

\* _publish_completed is HIGH and a failure is NORMAL.
MotionEnds == {High("motion_completed"), Normal("motion_failed")}

\* MotionModule: the start and the end are queued by one handler; a driver that is
\* not synchronous gives no end.
MotionRuns(e) ==
    /\ IsNext(e) /\ e.type = "goto" /\ Observed(e)
    /\ LET begun == Queued(Rest(e), made + 1, High("motion_started"))
       IN  \/ /\ made < MaxEvents /\ made' = made + 1 /\ queue' = begun
              /\ unanswered' = unanswered \union {"moving"}
           \/ /\ made + 1 < MaxEvents /\ made' = made + 2
              /\ \E end \in MotionEnds : queue' = Queued(begun, made + 2, end)
              /\ unanswered' = unanswered \ {"moving"}
    /\ UNCHANGED <<process, busy, playing, recording, last, memory, acted>>

\* SpeechModule: the dispatcher waits for the voice and then for the player.
SpeechStarts(e) ==
    /\ IsNext(e) /\ e.type = "speak" /\ Observed(e)
    /\ busy' = e /\ queue' = Rest(e)
    /\ UNCHANGED <<process, made, senses, last, memory, acted>>

PlaybackStarts ==
    /\ busy.type = "speak" /\ ~playing /\ playing' = TRUE
    /\ Publish(Normal("playback_started"))
    /\ unanswered' = unanswered \union {"playback"}
    /\ UNCHANGED <<process, busy, recording, models, last, trace, memory, acted>>

\* Completed or failed, before it plays too.
PlaybackEnds ==
    /\ busy.type = "speak" /\ playing' = FALSE /\ busy' = NoEvent
    /\ Publish(Normal("playback_ended"))
    /\ unanswered' = unanswered \ {"playback"}
    /\ UNCHANGED <<process, recording, models, last, trace, memory, acted>>

\* MemoryBridge: a buffer that is full is delivered within the handler.
CandidateHandled(e) ==
    /\ IsNext(e) /\ e.type = "candidate" /\ Observed(e)
    /\ queue' = Rest(e) /\ buffer' = Append(buffer, e.id) /\ handled' = handled \union {e.id}
    /\ late' = IF flushing["app"] = {} THEN late ELSE late \union {e.id}
    /\ IF Len(buffer') >= FlushSize
         THEN busy' = e /\ flushing' = [flushing EXCEPT !["dispatcher"] = Elements(buffer')]
         ELSE UNCHANGED <<busy, flushing>>
    /\ UNCHANGED <<process, made, senses, last, failures, sink, truncated, acted>>

\* The flush is over for who called it.
Returns(who) ==
    /\ flushing' = [flushing EXCEPT ![who] = {}]
    /\ busy' = IF who = "dispatcher" THEN NoEvent ELSE busy
    /\ phase' = IF who = "app" THEN "draining" ELSE phase

\* Mutant: the buffer is emptied when the delivery fails as well.
FlushFailsEmpty(who) ==
    /\ flushing[who] # {} /\ Returns(who)
    /\ failures' = IF failures < MaxFailures THEN failures + 1 ELSE failures
    /\ buffer' = <<>> /\ Publish(Normal("flush_failed"))
    /\ UNCHANGED <<sources, starts, senses, models, last, trace, sink, handled, truncated, late, acted>>

\* flush: the buffer is emptied after the delivery.
FlushEnds(who) ==
    /\ flushing[who] # {} /\ Returns(who)
    /\ sink' = sink \union flushing[who] /\ failures' = 0 /\ buffer' = <<>>
    /\ UNCHANGED <<sources, starts, queue, made, senses, models, last, trace, handled, truncated, late, acted>>

Newest(s, n) == SubSeq(s, IF Len(s) > n THEN Len(s) - n + 1 ELSE 1, Len(s))

\* A failed delivery keeps the buffer, or the newest part of it.
FlushFails(who) ==
    /\ flushing[who] # {} /\ Returns(who)
    /\ failures' = IF failures < MaxFailures THEN failures + 1 ELSE failures
    /\ buffer' = IF failures' = MaxFailures THEN Newest(buffer, 3 * FlushSize) ELSE buffer
    /\ truncated' = truncated \union (Elements(buffer) \ Elements(buffer'))
    /\ Publish(Normal("flush_failed"))
    /\ UNCHANGED <<sources, starts, senses, models, last, trace, sink, handled, late, acted>>

\* The fast path: the handler is cancelled wherever it waits, the delivery made or
\* not, and its event is the first of its priority again.
Interrupted ==
    /\ busy # NoEvent /\ queue["CRITICAL"] # <<>> /\ busy' = NoEvent
    /\ queue' = [queue EXCEPT ![busy.level] = <<busy>> \o @]
    /\ flushing' = [flushing EXCEPT !["dispatcher"] = {}]
    /\ \E delivered \in {{}, flushing["dispatcher"]} : sink' = sink \union delivered
    /\ playing' = FALSE
    /\ UNCHANGED <<process, made, recording, unanswered, models, last, trace, buffer, failures,
                   handled, truncated, late, acted>>

\* handler_timeout: the handler is cancelled for good, and its event is over.
TimesOut ==
    /\ busy # NoEvent /\ busy' = NoEvent /\ playing' = FALSE
    /\ flushing' = [flushing EXCEPT !["dispatcher"] = {}]
    /\ \E delivered \in {{}, flushing["dispatcher"]} : sink' = sink \union delivered
    /\ Publish(Normal("handler_timeout"))
    /\ UNCHANGED <<process, recording, unanswered, models, last, trace, buffer, failures,
                   handled, truncated, late, acted>>

-----------------------------------------------------------------------------
(* What happens outside. *)

Running == phase \in {"up", "stopping"}

\* AdmissionController: no action for a module that is not known to be healthy.
Request(type) ==
    /\ Running /\ type \in sources /\ type \in {"goto", "speak"}
    /\ health = "healthy"
    /\ \E l \in {"HIGH", "NORMAL"} : (type = "speak" => l = "NORMAL") /\ Publish(Event(type, l))
    /\ UNCHANGED <<process, busy, senses, models, last, trace, memory, acted>>

\* Memory candidates and rules, sensors and alarms; a person that is recognised
\* has a name.
Happens(type) ==
    /\ Running /\ type \in sources \intersect {"candidate", "position", "person", "policy", "alarm"}
    /\ \/ type = "alarm" /\ Publish(Urgent("alarm"))
       \/ type = "policy" /\ \E list \in DOMAIN RuleLists : Publish(Normal(list))
       \/ type = "person" /\ \E who \in {"named", "someone"} : Publish(Normal(who))
       \/ type \in {"candidate", "position"} /\ Publish(Normal(type))
    /\ UNCHANGED <<process, busy, senses, models, last, trace, memory, acted>>

\* HearingModule._listen_once.
ListenStarts ==
    /\ Running /\ "listen" \in sources /\ ~recording /\ recording' = TRUE
    /\ Publish(High("recording_started"))
    /\ unanswered' = unanswered \union {"listening"}
    /\ UNCHANGED <<process, busy, playing, models, last, trace, memory, acted>>

ListenEnds ==
    /\ Running /\ recording /\ recording' = FALSE
    /\ \/ /\ Publish(High("transcript_ready"))
          /\ unanswered' = unanswered \ {"listening"}
       \/ Publish(High("listen_failed")) /\ UNCHANGED unanswered
       \/ UNCHANGED <<queue, made, unanswered>>
    /\ UNCHANGED <<process, busy, playing, models, last, trace, memory, acted>>

\* Supervisor._check_component: a module that answers, and one that raises.
HealthCheck ==
    /\ phase = "up" /\ "check" \in sources
    /\ \E answer \in {"healthy", "unavailable"} \ {last} :
          last' = answer /\ Publish(Normal(answer))
    /\ UNCHANGED <<process, busy, senses, models, trace, memory, acted>>

-----------------------------------------------------------------------------
(* The process. *)

\* Supervisor.stop: the bridge flushes while the dispatcher goes on.
Stop ==
    /\ phase = "up"
    /\ IF buffer = <<>> THEN phase' = "draining" /\ UNCHANGED flushing
       ELSE phase' = "stopping" /\ flushing' = [flushing EXCEPT !["app"] = Elements(buffer)]
    /\ UNCHANGED <<sources, starts, bus, senses, models, last, trace, buffer, failures, sink, handled,
                   truncated, late, acted>>

Idle == busy = NoEvent /\ \A l \in Levels : queue[l] = <<>>

\* What a process forgets when it ends, in whatever way.
Forgotten ==
    /\ queue' = [l \in Levels |-> <<>>] /\ busy' = NoEvent
    /\ playing' = FALSE /\ recording' = FALSE /\ unanswered' = {}
    /\ shown' = {} /\ health' = "unknown" /\ place' = 0 /\ person' = "nobody" /\ last' = "unknown"
    /\ intents' = "default"
    /\ seen' = {} /\ index' = 0 /\ unflushed' = 0
    /\ buffer' = <<>> /\ flushing' = [w \in Who |-> {}] /\ failures' = 0
    /\ handled' = {} /\ sink' = {} /\ truncated' = {} /\ late' = {}

\* EventBus.stop returns, and the trace is closed.
Exits ==
    /\ phase = "draining" /\ Idle /\ phase' = "off" /\ Forgotten
    /\ UNCHANGED <<sources, starts, made, files, acted>>

\* It is killed: some of what was not flushed may have been written.
Dies ==
    /\ phase # "off" /\ starts < MaxStarts /\ phase' = "off" /\ Forgotten
    /\ \E n \in 0 .. unflushed : files' = [files EXCEPT ![index] = SubSeq(@, 1, Len(@) - n)]
    /\ UNCHANGED <<sources, starts, made, acted>>

\* _cleanup_retention: the files that nobody has written to for retention_days
\* go, the oldest first.
Expired == {n \in DOMAIN files : n = 0 \/ files[n - 1] # <<>>}
Ready == Normal("ready")

Starts ==
    /\ phase = "off" /\ starts < MaxStarts /\ starts' = starts + 1 /\ phase' = "up"
    /\ Publish(Ready)
    /\ \E old \in Expired :
          files' = [i \in DOMAIN files |-> IF i < old THEN <<>> ELSE files[i]]
    /\ acted' = {}
    /\ UNCHANGED <<sources, busy, senses, models, last, seen, index, unflushed, memory>>

Init ==
    /\ sources \in Scenarios /\ phase = "up" /\ starts = 1 /\ made = 1 /\ busy = NoEvent
    /\ queue = [l \in Levels |-> IF l = "NORMAL" THEN <<[id |-> 1, type |-> "ready", level |-> l]>>
                                 ELSE <<>>]
    /\ playing = FALSE /\ recording = FALSE /\ unanswered = {}
    /\ shown = {} /\ health = "unknown" /\ place = 0 /\ person = "nobody" /\ last = "unknown"
    /\ intents = "default"
    /\ seen = {} /\ files = [i \in 0 .. MaxEvents |-> <<>>] /\ index = 0 /\ unflushed = 0
    /\ buffer = <<>> /\ flushing = [w \in Who |-> {}] /\ failures = 0
    /\ handled = {} /\ sink = {} /\ truncated = {} /\ late = {} /\ acted = {}

-----------------------------------------------------------------------------
Heads == {Head(queue[l]) : l \in {k \in Levels : queue[k] # <<>>}}

Dispatch == \/ \E e \in Heads : Seen(e) \/ MotionRuns(e) \/ SpeechStarts(e) \/ CandidateHandled(e)
            \/ PlaybackStarts \/ PlaybackEnds \/ Interrupted \/ TimesOut

Outside == \/ \E type \in AllSources : Request(type) \/ Happens(type)
           \/ ListenStarts \/ ListenEnds \/ HealthCheck

Next == \/ Dispatch \/ Outside
        \/ \E who \in Who : FlushEnds(who) \/ FlushFails(who)
        \/ Stop \/ Exits \/ Dies \/ Starts

Spec == Init /\ [][Next]_vars

-----------------------------------------------------------------------------
Entries == UNION {Elements(files[i]) : i \in DOMAIN files}

TypeOK ==
    /\ sources \in Scenarios /\ phase \in {"up", "stopping", "draining", "off"}
    /\ starts \in 1 .. MaxStarts
    /\ made \in 0 .. MaxEvents /\ index \in DOMAIN files
    /\ shown \subseteq {"listening", "playback", "moving"} /\ unanswered \subseteq {"listening", "playback", "moving"}
    /\ health \in {"unknown", "healthy", "unavailable"}
    /\ unflushed <= Len(files[index]) /\ intents \in DOMAIN RuleLists
    /\ \A w \in Who : flushing[w] \subseteq handled
    /\ flushing["dispatcher"] # {} <=> busy.type = "candidate"

Quiet == phase = "up" /\ Idle /\ ~recording

\* What the state shows to the policy and on the control bridge settles: when no
\* event is left and no module works, nothing is shown to be under way but what
\* was started and has had no end, and the health is what the last check found
\* (state_manager.py:69-100: ends overtake starts by their priority, and handlers
\* are cut off).
StateSettles ==
    Quiet => /\ shown \subseteq unanswered
             /\ last # "unknown" => health = last
             /\ unanswered = {} => Mode = (IF last = "unavailable" THEN "error" ELSE "idle")

\* An event that is dispatched again is in the trace once, and one that was
\* dispatched is not missing in it while the process lives (observability.py:160).
LoggedOnce ==
    /\ \A i, j \in DOMAIN files : \A a \in DOMAIN files[i], b \in DOMAIN files[j] :
          files[i][a] = files[j][b] => i = j /\ a = b
    /\ phase # "off" => seen \subseteq Entries

\* What was done about an alarm is on record, when the process is killed as well.
AlarmOnRecord == acted \subseteq Entries

\* A trace file outgrows max_bytes by at most one entry for each start of the
\* process: rotation does not look at the size of the file it takes over.
FilesBounded == \A i \in DOMAIN files : Len(files[i]) <= MaxPerFile + starts - 1

\* Two things lose a candidate while the process lives, and nothing else does: the
\* limit of the buffer after repeated failures, and the flush of stop(), which empties
\* the buffer of what came while it was under way (bridge.py:48-62).  Every other
\* candidate is delivered or still in the buffer.
CandidateKept == handled \ late \subseteq sink \union Elements(buffer) \union truncated

\* Under whatever rules an update has brought, roamerd and the wake loop whose place it
\* is to take understand the same of an utterance in the cases that SameUnderstanding
\* tells and in no others, and delays are what is said (intent.py:35-150,
\* policy_engine.py:87-107 and 435-475).
UtterancesAgree == intents \in Agreeing
=============================================================================
