# roamerd in TLA+

`src/src/roamerd` is the daemon of a small robot: one asyncio process in which
capability modules (hearing, speech, motion, vision, reminders) and bridges
(control socket, cognition, memory) talk through an event bus, while a kernel
(policy, action manager, state, world) decides what may run. `src/src/roamer`
is the program it replaces: several short-lived processes and a hands-free wake
loop that share files and a microphone. This directory models the kernel, the
modules and bridges around it, the life of the process, and of the older program
what runs concurrently: its playback state, its wake loop and its recording.

Line numbers are those of `src/src/roamerd/...` unless a path says otherwise;
`legacy` stands for `src/src/roamer/plugins/interaction`.

## Inventory

| component | state it keeps | operations | who it talks to | what makes it correct |
|---|---|---|---|---|
| EventBus (`kernel/event_bus.py`) | four queues, the flag of a CRITICAL arrival, the running handler and its start | publish, subscribe, run, run_until_idle, stop, watchdog | everybody | priority and FIFO order, nothing lost but by a full NORMAL/LOW queue, a CRITICAL event is served soon, everything ends |
| ActionManager (`kernel/action_manager.py`) | actions, locks of exclusive resources, waiters by blocker, timer tasks, ring of old actions | request, complete, fail, cancel, mark_cancelled, preempt, mark_preempted, mark_detached, health, activity, orphans, prune, four timers | publishes on the bus; called by policy, modules, control bridge | one active action per resource, handover only after the blocker is over, nobody waits for ever, what is over stays over |
| PolicyEngine (`kernel/policy_engine.py`) | intent rules | transcript, wake, cognition answer, control command, safety, policy update, admit_action | StateManager, WorldModel, ActionManager, bus | only allowed actions on available modules; where an utterance means something else than to the older program is known; an emergency stops the robot |
| StateManager (`kernel/state_manager.py`) | audio, motion, health, cognition_available | apply_event | every event of the bus | flags follow what the modules do, and are cleared in the end |
| WorldModel (`kernel/world_model.py`) | grounded facts with expiry | apply_event, queries | bus | only grounded sources change it |
| TraceLogger (`kernel/observability.py`) | trace files, ids of the events it has seen | on every event, flush, rotate | bus | each event once, alarms on disk before anybody acts, files bounded |
| Supervisor, RoamerdApp (`runtime/supervisor.py`, `app.py`, `__main__.py`) | health by component, start order, the request to stop | start, stop, health loop, signals | modules, bridges, drivers | a request to stop is honoured whenever it comes; a dead process does not keep the next one from starting |
| HearingModule and helpers | wake task, listen tasks | wake loop, listen, stop requested, cancel | bus, ActionManager, drivers | no transcript of a listen action once its cancellation was handled; a listen ends |
| SpeechModule | playback state | action.started, playback | bus, ActionManager, drivers | every spoken action ends; the playback flag is cleared |
| MotionModule, its driver | the goal the robot follows | action.started, preempt, safety stop | bus, ActionManager, driver | the robot follows no goal that was preempted |
| VisionModule, ReminderModule, BodyStatusModule | tasks | action.started, cancel, delays | bus, ActionManager | every action ends, a reminder is silent once its cancellation was handled |
| CognitionBridge (`bridges/cognition`) | circuit state, failures, cooldown, probe | request, refresh | remote service, bus | no request through an open circuit; a probe is resolved |
| MemoryBridge (`bridges/memory`) | buffer, failure count | candidate, flush | sink, bus | a candidate is delivered or still in the buffer, but for two known losses |
| ControlBridge (`bridges/control`), legacy CLI adapter | socket server, connections, waiting requests | connect, request, wait, detach | PolicyEngine, ActionManager, bus | the answer is the outcome of the client's own action, and there is one |
| TelegramBridge, DriverRegistry, configuration, drivers | - | send, construct, convert, wrap a device | - | - |
| legacy playback state (`legacy/services/playback_state.py`, `capabilities/speak.py`) | marker files, snapshot with a generation | mark_started, mark_finished, snapshot | processes that speak, the wake loop | nobody removes another's marker; a crashed speaker does not mute the robot |
| legacy wake loop (`legacy/capabilities/wake.py`) | follow-up window, armed reply, turns | trigger, record, route, arm, wait | playback state, recording, Discord | the turns of one trigger are bounded, the reply opens the window |
| legacy recording (`legacy/services/preroll_audio.py`, `endpointing.py`, `realtime_listen.py`, `capabilities/listen.py`) | pre-roll, live queue, endpoint detector, realtime session | reader thread, capture, endpoint, transcribe, clear | microphone, speech services | nothing lost at the hand-over, the transcript is complete, a recording ends |
| legacy intents (`legacy/services/intent.py`) | rules | match_intent | wake loop | a delay is what was said |

What is hard here: one event loop, but every `await self._bus.publish(...)` may
suspend its caller (a full HIGH queue) or never return (the bus cancels the
handler that called it); a handler interrupted for a CRITICAL event is run again
from the start; timers share one slot per action; the end of an action may
overtake its start by its priority; stop() runs a second dispatcher; a process
may be signalled or die anywhere, and the older program has several of them.
`PROJECT.json` lists each hazard at its line.

## The modules

| module | models | state |
|---|---|---|
| `ActionManager` | `kernel/action_manager.py`, and from `policy_engine.py` the test whether a request preempts (`Outranks`) | as in the class: `_actions` (`status`, `info`, `touched`), `_resource_locks` (`locks`), `_waiting_by_blocker` (`waiting`), `_timeout_tasks` (`slot`) and the tasks themselves (`timers`), `_recent_terminal` (`recent`) |
| `ResourceLease` | what the manager promises about a resource, for whoever looks at the locks only | who holds each lease, who can never hold one again |
| `PriorityDelivery` | what the bus promises about the events that modules publish | the events that are open, who is served which, whom each is still to be shown to |
| `PlaybackEnds` | what the playback state promises to who waits for the end of a playback | whether there is sound, how often it has ended |
| `MCActionManager`, `MCEventBus` | instances for TLC | - |
| `ActionManagerProofs`, `EventBusProofs`, `ConversationProofs`, `CapabilitiesProofs`, `ObserversProofs`, `ControlProofs`, `WakeProofs`, `CaptureProofs` | the theorems about the module each is named after, with their proofs | - |
| `EventBus` | `kernel/event_bus.py` | the queues, the flag, the publishers waiting for room, two dispatchers, the watchdog, ticks of the running handlers |
| `Conversation` | the way from a wake word to the spoken answer: wake loop of `capabilities/hearing/module.py`, transcripts and answers in `policy_engine.py`, `bridges/cognition/bridge.py`, the flags of `state_manager.py` they share, `capabilities/speech/module.py` | queues of the bus for these events, the handler that waits, what StateManager and the bridge remember, who has the speaker |
| `Capabilities` | motion, listen actions, reminders, vision, body status with admission, emergency stops and the manager | the actions, locks and timers, the events of actions, what each module is doing |
| `Observers` (EXTENDS `Intents`) | StateManager, WorldModel, TraceLogger, MemoryBridge, the health loop, the policy's rules: whatever folds over the bus | queues of the bus, what each keeps, trace files, buffer and sink, the phase of the process |
| `Intents` | what an utterance means to roamerd and to the older program | none: operators compared over bounded inputs |
| `Daemon` | `__main__.py`, `app.py`, `runtime/supervisor.py`, the socket of `server.py` | for each process its phase, components, requests to stop; who listens, what the path leads to |
| `Control` (EXTENDS `Daemon`) | `bridges/control` with its clients | connections, handlers, requests and answers, actions and their terminal events |
| `Playback` | `legacy/services/playback_state.py`, `capabilities/speak.py` | marker files, snapshot, where each speaking process is |
| `Wake` (EXTENDS `Playback`) | `legacy/capabilities/wake.py` as the service runs it | where the loop is, window, turns, armed reply |
| `Capture` | recording and transcription of the older program | reader thread, pre-roll, queue, recorder, realtime session |

### ActionManager

asyncio switches tasks only at an `await` that really waits. In the manager that
is inside `EventBus.publish`, and there only for a HIGH event and a full HIGH
queue. So the model has one coroutine that holds the loop, `cont`: its `todo`
lists what it does after the publish it has just made (start the waiter, start
a timer, go on with a loop). All other actions have `LoopFree` as a guard. A
publish that has to wait puts the same list in `parked`; `ResumePublish` brings
it back later, when anything may have changed, and `DropPublish` is the bus
cancelling the handler in which the publish waits: the rest of the list is never
run. A publish made by a task (control server, timers, orphan loop) cannot be
dropped.

`CompleteAction`, `FailAction`, `MarkCancelled`, `MarkPreempted` are calls of
modules; their guards say when a module makes such a call (it has seen
`action.started`, or the request it answers), not what the manager checks: the
manager checks nothing, and the model has no other guard either. `MarkDetached`
has the guard of its only caller, `bridges/control/commands.py:126-132`.

Timers have no clock: one that runs may fire at any time. This contains every
timing of the code, so the safety results hold for any configured timeouts.
Old age for orphans and pruning is treated the same way.

`events` remembers only which requests the modules have been given, because the
manager reads no more of the bus than that.

Bounds: `MaxActions` actions are requested in a behaviour; at most `MaxTimers`
timers of a kind run for one action (which bounds repeated `cancel_action` and
`preempt`); at most `MaxParked` publishes wait at once, and no two that agree in
everything. One resource suffices because no step of the code relates two
resources; the theorems cover any set of them. Three actions are the least for
a blocker, its waiter and a third request that tries to come between.

### EventBus

One dispatcher is `run()`; the second, `"stop"`, is the `run_until_idle()` that
`stop()` calls. A dispatcher pops the next event, runs the handlers of its
subscribers one after the other, in the order of registration (`todo` is the set of
those still to be served, `Serving` the least of them), and either a handler ends, or it is cancelled
at `Timeout` (`system.handler_timeout` is published), or a CRITICAL event has
arrived and it is older than `FastPath`: then it is cancelled and its event put
back at the front of its queue. Time is in ticks. `_run_handler` wakes
up when a limit is reached and the loop is otherwise free, so a tick happens only
when nothing is due (`Due`). `FastPath < Stall < Timeout` as in the defaults
(0.1 s, 1 s, 5 s); the properties depend on their order only.

A full NORMAL queue: `publish` drops the oldest event and publishes
`system.queue_overflow`, itself NORMAL, which finds the queue full again, until
Python raises `RecursionError`. `Depth` stands for the recursion limit (about
990 nested publishes). What is left of the queue is the last `NormalMax` of old
events, the new one and overflow events (`NormalAfter`). The exception reaches the
publisher; when that is the dispatcher itself, publishing
`system.handler_timeout`, it ends `run()` (mode `"dead"`).

The history variables `fate` and `waited` record what became of each event and
how long a CRITICAL event has waited behind a lesser handler.

`DeliverySpec` is the promise to whoever publishes, `PriorityDelivery`, with the events
of the bus itself (`system.*`, number 0) hidden: an event is open until one dispatcher has shown
it to all its subscribers, least first; if it is interrupted on the way, all of
them see it again; the most urgent is next, and the oldest of its urgency until
`stop()`; what is lost is the oldest of the NORMAL or LOW ones that wait. Before `stop()`
one event is served at a time, after it two may be. `Delivery` maps the state: open
are the events in a queue or with a dispatcher (`Held`), served are those of
`current`, over those whose `fate` is `"ended"`. That everything is served in the end is
no part of it; `EventBus_progress` has that.

Not modelled: subscribing and unsubscribing while events are queued, handlers
that swallow the cancellation, the real clock.

### Conversation

It composes five components over the bus as `EventBus` shows it to a handler: one
event at a time, HIGH before NORMAL, in order, and a handler that waits may be
cancelled for a CRITICAL event and run again from the start (`Interrupt`). Only two
handlers wait: `CognitionBridge._handle_request` for the service (`busy` is
`"request"`), `SpeechModule._handle_action_started` for the synthesizer and the
player (`"synthesis"`, `"playback"`). All others are one step. What a waiting handler
publishes stays queued until it is done, because there is one dispatcher; the wake
loop is a task of its own and reads StateManager directly.

A turn is followed from the wake word on as an event or as the handler of one:
recording, transcript, then a request and its answer or `cognition.unavailable`, or at
once a speech; `started` stands for `action.started` of a speech. A turn number is
used again when nothing is left of the turn. `failures` is capped at `Threshold`
(no decision looks further). `"unavailable"` with a turn is `cognition.unavailable`,
without one it is the health of the bridge.

Left out: listen actions and their cancellation (`Capabilities` has them),
`audio.listening` and `motion` (`Observers`), local intents beyond that they end the
turn, the health of the modules (always healthy here, so a speech is refused only by a
busy speaker), the staleness of a playback (120 s; the player gives up after 30 s), the orphan loop.
CognitionBridge is not registered by `create_app`; a supervisor that did register it
would publish "healthy" for it once, at the start. A handler slower than the watchdog
never ends at all (see below): this module is about answers and speeches that
are quicker, or not interrupted more than `MaxInterrupts` times.

Bounds: three turns at once are the least with which two requests fail and a third
is already queued to be the probe of the half-open circuit (`Threshold` 2); one
interruption suffices to repeat each of the two handlers.

### Capabilities

One call of the manager is one step (what may happen inside it is the subject of
`ActionManager`), and the dispatcher takes one event at a time, HIGH before NORMAL.
Only the camera makes a handler wait (`busy`), so only a capture can be interrupted
(`Interrupted`); a listen action and a reminder are tasks of their own. The task of
a listen action looks at its action (`ListenSpeech`, `hearing/module.py:178`) and then
publishes the transcript with priority HIGH, which may wait for room in the queue:
between the two it is `announcing`, anything may become of its action, and only a
cancellation ends it (`Announced`, `ListenCancelled`). A listen
action is `acted` once its module has published something, which is what keeps the
orphan loop away. `synchronous` chooses the motion driver: the driver of ROS 2 says
of itself that it does not complete synchronously, and then nobody is ever told that the goal is reached
(`Arrives` changes nothing but the robot).

Bounds: two actions are a blocker and its waiter, or a motion and what preempts it;
one alarm and one cancel request each are enough for every race with the end of an
action, because each looks at the actions once. All modules are healthy. The stop of the motion
driver does not raise: if it did, MotionModule would leave the preemption unanswered
(`motion/module.py:96`), and `PreemptionAnswered` is about a driver that stops. Not
modelled: coordinates, the image, what `sense` reads.

`CalledOffIsSilent` is about actions whose cancel request a module has dealt with
(`calledOff`), also when it found nothing to cancel: from then on a listen
action gives no transcript, nor does a reminder speak. It says nothing of actions that
are ended by something else. The timer of a cancel request ends an action while the
request is still queued (`CancelExpires`), and then a listen task that is publishing
publishes all the same, and a reminder may still be scheduled, or speak, until the
request is handled; the orphan loop ends an action without asking its module at all.
That is what the code does.

### Observers

The subscribers that keep what they saw, in the order in which they are registered
(`ActionManager, StateManager, WorldModel, TraceLogger, PolicyEngine`, modules,
bridges): `Seen` is all of them on an event that no module acts on, `MotionRuns`,
`SpeechStarts` and `CandidateHandled` are the events whose module then works.
`Interrupted` puts an event back, so that it is observed again; `TimesOut` drops it.
`Dies` and `Starts` end and begin the process: the files survive, the entries in the
buffer of the file (`unflushed`) do not.

`Scenarios` names which sources of events a behaviour has together: pairs whose
events interact (a goto with the health check, a speech or a listen action or a
candidate with an alarm that interrupts it), and those that need no other. Seven
events let each source act twice, with the events it causes, while the other one
interferes; two starts and two entries per file are the least for a rotation after a
restart.

`CandidateKept` leaves out what the code does lose while the process lives: candidates
handled while the flush of `stop()` is under way (`late`; `bridge.py:62` clears them
with the rest), and those that the limit of the buffer cuts off after failures in a
row (`truncated`; `bridge.py:59`). It says that there is no third way.

The properties hold of what the module leaves in. MemoryBridge and TelegramBridge
are not wired by `create_app`; MemoryBridge is modelled as its tests wire it. Left out:
scene, rooms and expiry of WorldModel, the age at which a playback is stale (120 s),
redaction, the `log_action_*` calls, and the limit of 10 000 remembered event ids.

### Intents

Reminders, `goto` and rules, as `match_intent` of the older program and
`IntentMatcher` of roamerd take them from an utterance. An utterance is an amount of time or
none, a unit, "remind me", "remind" or neither, words before it or none, "go to" or
not, and the words of rules in it. An amount is a numeral of up to three characters
(`liang`, the other word for two, among them), an Arabic figure, or a decimal; figures and
characters are not mixed. A unit is short (`fen`, `shi`, or Latin) or long. What is to be
said later is left out.

The two grammars differ, and the properties say in which cases exactly.
`DelaysRight`: every number below a hundred, however it is said (`Spoken`), is read right
by the wake loop, and by roamerd unless it is said with liang, which its pattern does not take
(`policy_engine.py:437`); of the other numerals that roamerd takes, the two make the
same number exactly when the wake loop reads the numeral at all (of the others roamerd
makes 0, or a part). `SameUnderstanding`: the two understand the same action and delay
exactly when both hear a reminder, or when neither does and the utterance is for roamerd
nothing or an action that both programs have. In all other cases they differ: a reminder with
liang, with a decimal, with a short unit, without "me", or inside a longer utterance is
one for the wake loop only; a numeral that is none is a delay for roamerd only; `goto`,
`speak`, `listen` and the emergency stop are roamerd's own; and a rule that
is refused ends roamerd's search. So an edit to either grammar that adds or removes a difference
violates the property.

`Observers` carries the rule list that the bus has set, and asks for this under each
(`UtterancesAgree`). The sets of utterances (`Amounts`, `Words`) and of rule lists are
bounds for TLC; `MeaningsAgree` is about all amounts and lists.

### Daemon and Control

A process is started by systemd (`Restart=always` in `src/deploy/roamerd.service`)
or by a person at a terminal, starts its components one after another, takes the socket,
serves, and stops them in reverse order. A signal may come at any time; before the
event loop exists it is only remembered. `Exit` is the end whatever its cause, and
leaves the socket file. `Control` adds the clients: a connection belongs to
whoever listened behind the path when it was made; `Forget` is what the end of a
daemon does to its connections. A request that waits for its action subscribes to the
terminal events and sets a deadline.

Python's `Server.wait_closed` returns at once before 3.12 and waits for the last
connection since then: `Drained` and `DrainTimeout` allow both. That
`run_until_idle` ends during the start is taken from `EventBus` (`EventEnds`). Two processes and one
client with two requests: the second request meets the events of the first, the
second process the socket of the first. Two faults allow a kill during the recovery
from another one.

### Playback and Wake

The playback state is a set of marker files under a lock, so no process sees another
one's operation half done. But an operation writes several files one after another, and may
fail at each of them (the directory is full, or gone) or have its process killed there:
`HalfSynced`, `HalfMarked` and `HalfFinished` are the files it can leave. So
`mark_started` may fail with its marker on disk and uncounted (`playback_state.py:76-78`);
`speak` then forgets its id and plays all the same (`MarkUnavailable`), and the marker
stays until it is stale or its process is gone. What has once been written can be read: a
state directory that becomes unreadable afterwards is not modelled.

`Wake` is the loop of `legacy/capabilities/wake.py` around it: look at the playback,
wait for a trigger or in the follow-up window for speech, record, route, speak or arm
the wait for a reply. Its recording returns (`Capture` tells when it does not). The reply is a
speech of another process. Time is in ticks, for the staleness of a marker, the window
and the interval between triggers.

When a process dies all its markers become stale with it (`Orphaned`): its pid is
in each of them, also in one that an earlier speech could not remove.

The loop awaits the end of a reply by a number, the generation in the snapshot.
`EndsSpec` says what it may rely on: the playback files implement `PlaybackEnds`, in
which sound begins and ends and a number counts the ends. There is sound while a marker
is fresh (`Active`); the number is the `Generation` that the next reader computes, not the
one in the file, because the end of a marker that expires or loses its process is
written by whoever looks next. A sound is `noticed` once it is counted in
`playback.json`. One that `mark_started` left uncounted is counted by whoever
looks at it next; when it is over before anybody looked, its end may go uncounted,
which `PlaybackEnds` allows for such a sound and no other.

It is the loop of the service (`src/systemd/roamer-wake.service`, which restarts it on
failure): no deadline, not `--once`, follow-up enabled. One speaker beside the loop suffices for
two markers at once; two speeches are a local answer and a reply in either order.

### Capture

The reader thread and the recording interleave at every lock release: `Read`,
`CheckCapturing` and `Put...` are the thread; `Capture` takes the snapshot and clears
the queue in one step, as the lock has it. The queue is full at `Cap` chunks; the
thread then drops the oldest, or during a capture waits for room. The recorder hears a chunk or its absence
(`Hear...`), finds the onset and the end, and streams to the realtime service
until that fails (`broken`). `Setups` are the configurations: pre-roll, stream or fixed
length; realtime with or without fallback, or batch.

Four chunks with a pre-roll of two and padding of one let a recording begin before
its speech, overflow the queue, end by silence, by length and by timeout. The
two voice activity detectors are independent: that of the recorder (`IsSpeech`,
`endpointing.py:181`) carries its state from chunk to chunk and compares with `>=`, that of the batch
path (`Detectable`, `silero.py:180-208`) begins afresh at the head of the file, compares with
`>` and skips frames on which it fails, so it may find any part of the file to be speech. A chunk stands
for all the frames of the detector in it. An
overrun of `arecord` is not modelled; a chunk that is in the hands of the reader when the capture begins
may be heard twice (`NoGap` allows that).

`NoGap` speaks of captures that begin on an unbroken pre-roll (`ordered`). One that follows
a recording which failed or was ignored finds in the pre-roll what the recorder took from the
live queue, put in again behind newer chunks (`preroll_audio.py:123`): it hears
chunks twice or out of order, and the property leaves it out.

A pre-roll capture has a deadline (`preroll_audio.py:114-117`) and so has the answer of the
provider; the read of an `arecord` stream (`alsa.py:47`), a send to the provider and the
model of the batch path have none. `Waits` says when a recording is in a call of the second sort, and
`Hangs` that it may never come back from it (`pc` is `"hung"`, for good).

`TranscriptComplete`: what was transcribed is a part of what was heard without a gap. The
realtime path has all the speech that the recorder's detector found; the batch path all
that its own found in the file. The batch path can therefore cut off speech that the
recorder heard (its detector may not find it), and report no speech where there was some.

## The runs

`CHECK_DEADLOCK FALSE` stands in the configurations of modules that bound the number
of requests, events or chunks: when they are used up nothing need happen.
`Conversation` and `Wake` never stop, and their runs check that.

| run | question | answer |
|---|---|---|
| `ActionManager_calls` | every call, timer and loop on two actions | holds, 270,000 states |
| `ActionManager_contention` | three HIGH and CRITICAL actions, publishes suspended and dropped; does it implement `ResourceLease`? | holds, 771,000 states |
| `ActionManager_liveness` | does every wait end, is a silent action taken down? | holds under `FairCallsSpec` |
| `EventBus_safety` | order, promptness, losses; one slow subscriber of three, queues of size one; does it implement `PriorityDelivery`? | holds, 141,000 states |
| `EventBus_progress` | does everything of all four priorities end, with stop() at any time, and a handler that waits for its own dispatcher? | holds, 25,000 states, under `FairSpec` |
| `Conversation_loop` | circuit, speaker and turns through failures, refusals and an interruption; does everything come to rest? | holds, 285,000 states, under `FairSpec` |
| `Capabilities_actions` | preemption, cancellation, timeouts, suspended transcripts and an emergency stop against modules at work | holds, 105,000 states, under `FairSpec` |
| `Capabilities_emergency` | "Emergency stop stops/preempts motion." (phase-b3-checklist.md:45) | violated: a goto that waits starts after the stop |
| `Observers_events` | what the subscribers keep, through interruptions, a death and a restart; where do the two programs understand the same? | holds, 955,000 states |
| `Control_bridge` | two processes over one socket path, a client, signals and kills | holds, 161,000 states, under `FairSpec` |
| `Wake_loop` | markers, turns, follow-up, with processes dying and operations failing half-way; do the files implement `PlaybackEnds`? | holds, 241,000 states, under `FairSpec` |
| `Capture_paths` | the reader thread against the recorder in every configuration, anything failing or hanging, two detectors | holds, 695,000 states, under `FairSpec` |

`ActionManager_calls` makes the calls from tasks and with NORMAL and CRITICAL
actions, so that no publish is dropped: `BlockerCallsWaiter` does not survive a
dropped one (the waiter is called after the publish), as `DropPublish` shows when
the constants allow it. `ActionManager_contention` has that case and checks what
must hold even so.

What some properties do not reach, where one might think so. `ActionManager_calls` and
`ActionManager_liveness` have two actions, so no waiter is displaced by a second preemption
of its blocker: `WaitersAreTimed` says for any number of actions what saves it. `CriticalSoon` counts while the flag is set, so a flag cleared early is
the subject of `FlagIsExact`. `Answered` says that a request gets some answer or a closed
connection, not which, and a line over the limit of the stream reader is not modelled. `StopHonoured` says that
a process ends that was asked to, not that every component was stopped: the first stop that
fails or times out ends it. `StaleSocketHarmless` says that somebody will listen again, not that
the path leads to the service.

Two properties that were checked here are no longer in a run's list, for they are proved:
`NothingVanishes` (`NoEventVanishes`; `DeliverySpec` now asks for more) and `SlotIsLive`
(`TimersAreLive`).

### What the code does otherwise than its documentation says

(The checklists are in src/migration/progress, test_bridge.py in the tests of the cognition
bridge.) TLC found these in the models; the first one is a run, the others were counterexamples of
properties that are not kept, because the code breaks them.

- An emergency stop passes over an action that waits for a resource
  (`action_manager.py:209`): `Capabilities_emergency`.
- A waiting action can be detached and is then active without a lock
  (`action_manager.py:240`; "`RUNNING_DETACHED` still occupies resource",
  phase-a-checklist.md:95).
- The holder of `request_action(preempt_current)` gets no timer
  (`action_manager.py:325`; "Two-step preemption with module ack and timeout
  terminal behavior", :94).
- A publish into a full NORMAL queue replaces the whole queue and raises
  RecursionError (`event_bus.py:97`; "LOW/NORMAL overflow drop-oldest", :60).
- The watchdog's CRITICAL event interrupts the slow handler it reports, again and
  again, so that `system.handler_timeout` is never published (`event_bus.py:235`; :66).
- A wake word during a playback is recorded: the flag that would stop it is queued
  behind the handler that plays (`hearing/module.py:136`; "Playback active wake is
  ignored without recording.", phase-b1-checklist.md:108).
- After one failed request cognition never comes back: nobody makes the request that
  would find out (`state_manager.py:98`, `policy_engine.py:265`; test_bridge.py:174).
- A client that waits while the daemon stops cuts the stop short, on Python 3.12 and
  later (`runtime/supervisor.py:60`; src/README.md:71).
- MotionModule has no handler for a cancellation (src/migration/motion-contract.md:27:
  "action cancel -> physical stop.").

What the models also show, and no document promises otherwise:

- Manager: a module that completes late turns CANCELLED into COMPLETED (`:151`); a
  second preemption of a detached blocker displaces the first waiter, which waits
  beside a free resource until its deadline (`:339`); a cancellation of a
  waiting action is forgotten when it starts (`:419`).
- Bus: `stop()` runs a handler while `run()` is inside another one (`:122`); a handler
  timeout in a full NORMAL queue kills the dispatcher (`:192`).
- Modules: a detached listen action never completes and keeps the microphone; a goto of the
  asynchronous driver never completes, and its `motion.started` keeps the orphan
  loop away; `motion.position` and `time.now` are admitted and served by nobody; a
  reminder whose action a cancel timer ended before its start is dispatched is scheduled
  all the same, and may speak until the request itself is handled; a transcript whose publish waits for room is published also
  when a timer or the orphan loop has ended its action by then (`hearing/module.py:181`); a busy speaker loses
  a reminder; every `health_check` answers "healthy".
- Observers: a failed or cancelled listen leaves `listening` set; a timed-out
  playback leaves `playback_active` set until it is stale; a failure of an older
  goto may clear `moving` of a newer one; `module_ready` of a bridge lands among the
  modules; candidates that come while `stop()` flushes are lost, redelivered
  ones are delivered twice, and there is no flush interval (phase-c-checklist.md,
  Task 6); a trace file may outgrow `max_bytes` by one entry per start; `flush()`
  reaches the system, not the disk.
- Process: two that start together both find the path free, and the second takes
  the socket of the first, which goes on and serves nobody. The legacy client does
  not expect the end of the stream (`bridges/control/ipc.py:19`).
- Recording: the batch path can cut off, or miss, speech that ended the recording as speech
  (`silero.py:204` against `endpointing.py:181`); `listen` outside the wake loop has no deadline when the
  microphone gives nothing (`alsa.py:47`).
- Playback: a `mark_started` that fails after its marker was written leaves the marker to expire
  (`playback_state.py:76-78`, `speak.py:262-273`).
- Intents: roamerd takes a numeral that is none for 0 s or for a part of it, and the wake loop for
  no reminder; liang, decimals, short units, a reminder without "me" or with
  words before it make a reminder for the older program, and for roamerd nothing, or something that
  is done at once; a rule with an action that is not allowed makes all
  that follows unmatched, the stop word too; an empty policy update restores the
  defaults; a goto to an unknown place drives to (0, 0) (`policy_engine.py:306`,
  `motion/module.py:82`).

### Fairness

`ActionManager`: the running coroutine goes on (weak fairness of `Continue`);
asyncio's ready queue is FIFO, so a timer task, a suspended publisher with room,
and the orphan loop get the loop although other tasks keep taking it: these are
enabled again and again but not continuously (`LoopFree`), hence strong
fairness. That a suspended publish finds room relies on `PublishEnds` of
`EventBus`. No fairness on requests, modules or the control bridge: a module may
stay silent for ever, which is what `SilentActionEnds` is about.

`EventBus`: weak fairness of each dispatcher, of resumed publishes, of the
watchdog and of the clock. No fairness on publishing, nor on `Stop`.

`Conversation`: weak fairness of the wake loop, of HIGH events, of the two waits (the
service and the drivers answer, or time out, in the end) and of the cooldown. NORMAL
events get strong fairness: a dispatcher that finds the HIGH queue empty takes a
NORMAL event without awaiting anything. It does not say that HIGH events stop;
`HalfOpenEnds` therefore asks that the bus be idle now and then, and `Silence` that
nobody speaks any more. Nobody has to speak, and the service may always fail.

`Capabilities`: weak fairness of the dispatcher (the camera answers or fails), of the
tasks and the timers of each action. No fairness on requests, on cancellations, on
alarms, nor on the robot's arrival.

`Control`: systemd restarts the service, each process goes on with its code, and each
handler with its request or its deadline. Clients, modules, actions and whoever
starts a second process owe nothing.

`Wake`: the loop, its recording, the speaking processes, the service manager and time go on. That the
playback generation can be read gets strong fairness: the state directory may fail
at any try, but not at every one.

`Capture`: the reader thread and the recorder go on: a call of the recorder that has a
deadline returns, and one that has none returns or hangs for good (`Hangs` has no
fairness, and ends what the recorder owes). So `CaptureEnds` promises that a recording is over or hung in
the end, and that one which is in no call without a deadline (a pre-roll capture whose
provider is not in use or has failed, and the fixed recording) gets to the end of its
audio. The microphone may stay silent or die, and a service may fail.

`Observers` has safety properties only. What it would promise of progress is that of
the bus, which `EventBus_progress` checks.

## The proofs

Every invariant and every action property of the runs is a theorem, and so is each of
the three refinements (`LeaseSpec`, `DeliverySpec`, `EndsSpec`), for all values of the constants that the modules' assumptions
allow: any number of actions, resources, subscribers, turns, clients, processes, any
size of a queue, buffer or file. The assumptions (`ASSUME` in the module that
declares the constants) say that sizes are natural numbers, that the sizes, limits
and thresholds that the code sets to one or more are not zero, and that marks such
as `NoResource`, `NoSocket` or `WakeProcess` are no member of the sets they stand
beside. `EventBus` also needs the order of its three limits, and that subscribers
are numbered in the order of registration. An assumption that a theorem adds to
these is named below.

Each proof module has the same shape: lemmas on the operators of the model, an
inductive invariant in named parts, one lemma per action (and per caller, where an
action has several), then the theorem. Bounds that only cap the model (`MaxActions`,
`MaxEvents`, ...) are constants too, so the theorems hold for each of them.

| module | theorem | states |
|---|---|---|
| `ActionManagerProofs` | `TimersAreLive` | `SlotIsLive`, types |
| | `LocksAreSound` | `LockHolderActive`, `StartedOwnsLock` |
| | `ManagerImplementsLease` | `LeaseSpec`: the refinement of `ResourceLease`, step by step |
| | `OverIsFinal` | `NoRevival` |
| | `OnlyHighLeavesWaiters`, `BlockersCallWaiters` | `BlockerCallsWaiter` |
| | `WaitersAreTimed` | `WaitTimed`: who waits for a resource has a running deadline, or the manager is about to start it, or its blocker is HIGH |
| `EventBusProofs` | `CriticalIsSoon` | `CriticalSoon` |
| | `OrderIsKept` | `~stopped => OrderKept` |
| | `NoEventVanishes` | `NothingVanishes` |
| | `FlagIsExact` | `_critical_arrived` is set exactly while a CRITICAL event is queued |
| | `EventsAreOnce` | no event is twice in the queues, or in a queue and with a dispatcher, or with two dispatchers |
| | `BusDelivers` | `DeliverySpec`: the refinement of `PriorityDelivery`, step by step |
| `ConversationProofs` | `CircuitIsKnown` | `KnownCircuit` |
| | `TurnsStayOne` | `OnePlace` |
| | `SpeakerIsUsed` | `SpeakerInUse` |
| | `BreakerIsExact` | `BreakerExact`: the probe flag, the circuit, the failures and the cooldown say the same of each other |
| | `PlaybackIsTold` | `PlaybackTold`: the last news of playback, known or queued, is what the player does |
| `CapabilitiesProofs` | `CalledOffStaysSilent` | `CalledOffIsSilent` |
| | `PreemptionsAreAsked` | `PreemptionAsked`: what was preempted and is not yet at rest has its stop in the queue |
| `ObserversProofs` | `AlarmsAreOnRecord` | `AlarmOnRecord` |
| | `FilesAreBounded` | `FilesBounded` |
| | `EventsAreLoggedOnce` | `LoggedOnce` |
| | `CandidatesAreKept` | `CandidateKept` |
| | `TheStateSettles` | `StateSettles` |
| | `UtterancesAreAlike` | `UtterancesAgree` |
| | `DelaysAreRight`, `MeaningsAgree` | what it rests on: `DelaysRight`; the cases of `SameUnderstanding` for every amount of up to three characters, figure or decimal, under every list of rules that has no reminder of its own |
| `ControlProofs` | `AnswersAreOwn` | `OwnOutcome`, types |
| | `ProcessesAreOrderly` | the path never leads to a process that stopped accepting; what a process started is what its phase says |
| | `SignalsAreKept` | `SignalsKept`: a request to stop is not lost, and nobody stops without one |
| | `EndsAreHeard` | `EndsHeard`: when the action has ended that a request waits for, its event is queued or has woken the handler |
| `WakeProofs` | `TurnsAreBounded` | `LocalTurnsBounded`, types |
| | `MarkersAreKept` | `MarkerKept` |
| | `GenerationCounts` | `EndsSpec`: the refinement of `PlaybackEnds`, step by step |
| | `ReplyIsAhead` | `ArmedKnown`: the generation that the loop compares with is not ahead of the one it will read |
| `CaptureProofs` | `CommandsAreNotHeardAgain` | `NoEcho` |
| | `HandOverHasNoGap` | `NoGap` |
| | `NoSpeechIsLost` | `TranscriptComplete` |

`TypesHold` states `TypeOK` in the modules where no other theorem does. A `TypeOK`
is in no run's list, since it is there for the proofs.

### What makes the invariants inductive

**ActionManager.** `SlotIsLive` is inductive with the types: every call either
empties the slot with the timer it takes away, or points it at the timer it starts.
The locks are not: `LockInv` adds `AnnouncedBegan`, that an action which was
announced with `action.started`, or whose announcement is parked in a suspended
publish, has left `absent` and `WAITING_RESOURCE`. Without it a waiter could count
as announced before it has the lock, and detaching it would break `StartedOwnsLock`;
that a waiting action that was never announced may be detached is what the code
does. `LockInv` also gives the refinement: `LeaseStep` shows that a step of the
manager takes leases only for actions that are not over, and releases or keeps all
others. `OverIsFinal` is the same fact about `Over`, which the refinement maps to
the actions whose lease is spent.

Waiters are the hardest part, for the call of a waiter stands on a coroutine's list
behind a publish that may be suspended. `WaiterInv` says where that call can be:
first on the list of the coroutine that holds the loop (`ContCalls`), or first on
the list of a parked publish, and then its blocker is HIGH (`ParkedCalls`).
`WaitingBegan` keeps waiters off actions that do not exist. `WaiterCovered` is then:
each waiter has a blocker that is active, or its call is next, or the blocker is
HIGH. The last case is real. A HIGH publish that finds its queue full waits inside a
handler; the bus cancels that handler after its timeout, and the call behind the
publish is lost. `OnlyHighLeavesWaiters` is the general theorem, without further
assumptions; `BlockersCallWaiters` is the property of the run, under the assumption
`"HIGH" \notin Priorities`, which its run satisfies.

`WaitersAreTimed` is the safety part of `WaitEnds`, and is inductive with the types
alone: the coroutine that makes an action wait publishes the preemption and then
starts the deadline, so between the two the deadline is all that it has to do
(`WillWait`); the same HIGH publish that loses a call can lose it.

**EventBus.** `BusInv` knows each event's place (`QueueOK`, `CountOK`: numbers are
given in order and no event is queued twice), what a dispatcher holds
(`DispatchOK`), what the watchdog may do (`WatchOK`), and that the flag is exact
(`CriticalFlag`). `CriticalSoon` has a potential: what a CRITICAL event has waited,
and one `FastPath` for every subscriber that is still to be served of the event
before it, never exceed `Patience` and the time the running handler has spent
already (`WaitOK`). Order holds by induction only while there is one dispatcher: a
second one may put an interrupted event back after the first took the one behind it.
Hence `~stopped`; what happens after `stop()` is another question, and
`NoEventVanishes` holds there too.

The refinement holds before and after `stop()`, for its order is a condition of the
abstract steps. It needs `OnceOK` (no event is in two places, so that taking one or dropping
one takes all of it away) and `FateOK` (a number stands for one event, and that of an open
event has not ended). With these every action of the bus is one lemma: a publish is
`Accept` with what it drops, however deep the overflow recurses; `Shift` says of a full
queue that what is left of it is a tail of what was there; a pop is `Begin`, or `Pass` when
nobody subscribed; the end of a handler and its timeout are `Show`; the fast
path is `GiveBack`; and whatever happens to the bus's own events is a stutter.

**Conversation.** `OnePlace` is about a set of places; what is inductive is a count.
`OnlyPlace` says that the entries of all queues, the handler and the two speech
steps that carry a turn number at most one together. `CircuitTold` follows what was
last published of the circuit through the queue into StateManager and back into
`CognitionBridge`. `SpeakerHeld` has `action.started` in the queue, or a handler in
synthesis or playback, for the turn that locks the speaker.

`BreakerExact` is what the fields of the circuit breaker say of each other; that the
circuit is closed exactly while the failures are below the threshold is the part
that makes the others inductive, for a success sets both back, and a failed probe
leaves the failures at the threshold or above. `SoundInv` follows the news of playback through the
queue as `CircuitTold` does for the circuit (both rest on `LastOf`, the last entry of a
queue about a subject): StateManager is late, but it is never told wrong, and what
it is told is not "started" for good, for a speech is still handled, or queued to be
handled again.

**Capabilities.** `CalledInv`: when the cancellation of a listen action or of a reminder has
been handled, the action has no task any more, none that records, none that publishes and
none that sleeps, and no start of it is queued that could make one. Alone this is not inductive, for the
cancellation could be handled before the start; so it adds that in the queue the start
stands first (`StopBehind`, as for preemptions below), and that an action which was never admitted
has no cancellation. It rests on `OwnKinds` (only motion waits, only the camera is
busy, only listen actions listen): a listen action or a reminder never waits for a
resource, so nothing starts it a second time, and the fast path puts back no start of one.

`StopInv` is about the robot. An action that was preempted and still moves it, or whose
start is still queued, has a stop in the queue. Alone this is not inductive: the stop might be
handled before the start. `StopBehind` says that both stand in the queue of the action's
priority, the start first; that needs an action that waits to have neither of them queued,
and the owner of a lock to be of the kind the lock is for (`LockOwned`), so that a
preemption asks nobody but motion.

**Observers.** `MemoryInv` says where a candidate is: in the buffer or at the sink.
It needs `FlushCovers`: the batch of a flush under way covers all of the buffer but
what came `late`, while `stop()` flushes; so what is cleared after the answer was sent, or
came late.
`TraceInv` relates the entries to the flushed ones, for files of any size, and over
the deaths that cut off what was not flushed. `StateSettles` speaks of quiet moments
only and is far from inductive: `SettleInv` says of each flag that it is right now
or will be set right by the last queued event about it, so that nothing but the
queue stands between StateManager and the modules. `UtterancesAgree` needs no invariant but
the type of the rule list: a
numeral is read by cases on where its ten stands (`RoamerdReads`, `RoamerdIgnores`, `LegacyReads`), so
that one both read is one number (`NumeralsAgree`); the
first rule that decides for roamerd, if the wake loop may have it, is the first one
that decides there, for what stands before it decides for neither (`RulesAgree`), and
where none decides for roamerd, none does for the wake loop (`NoRuleIsNone`). The other direction needs
that no rule is called a reminder (`NoRuleReminds`), and that the wake loop does nothing that
is not allowed to it (`SharedActions`).

**Daemon and Control.** `DaemonInv` has what a process started, whether it listens
and where the path leads, in each phase. `ClientInv` follows an action from the
request to the terminal event and to the handler's future: `EventsTrue` (a terminal
event tells the status of its action), `FutureTrue` (a future that is set holds an
end of the action its handler waits for), `AnswerTrue` (what the client was told is
such an end). `SignalsKept` relates the request, the event that the main task waits for and
the phase: the event is set exactly when there was a signal and the event exists, a
process that stops was asked to, and one that is gone leaves no request to the next.
`EndsHeard` says that a handler that waits is one of the process that has its action, so that
both go together, and that the end it waits for is in the queue or in its future.

**Playback and Wake.** `MarkerKept` needs that two processes never share a playback
id, even when one is killed between its mark and its count: a process that speaks
has an id that was given before (`PlaybackInv`). The bound on turns is
`TurnsCounted`: the local answers since the last accepted trigger are at most the
loop's own counter, unless only a new trigger goes on; `ArmedWaits` has the window
closed and the counter at rest while a reply is armed.

The refinement of `PlaybackEnds` needs `PlaybackInv` only. The end of the last marker may
go unseen (it expires, or its process is killed, also inside an operation); then it shows in the
count of `playback.json` until somebody looks, and counts once. Each state that an operation
can leave half-way is such that what was counted stays counted, or has ended and the
generation has grown with it (`EndsTold`, `UnwrittenEnds`, `WrittenEnds`); the one exception is a marker that was written
after the sync of its operation, whose sound is not `Noticed` until somebody looks. `ArmedKnown` follows: a generation
never goes back, so what the loop compares with is never ahead of what it will read.

**Capture.** `EchoOK`: no chunk that can still be heard (`Audible`: in the pre-roll,
the snapshot, the queue or the hands of the reader) belongs to a command that was
carried out, and a pre-roll that has been emptied does not get back what was heard.
For `NoGap`, `ChainOK` says that what was heard, the snapshot not yet heard and the
live queue are one run of consecutive chunks, as long as nothing was dropped;
`DropOK` says when something can be. For `TranscriptComplete`, `TextInv` follows the
text along both paths: before the onset all was quiet and the padding is the end of
it (`PaddingOK`); what is saved goes on to the last chunk that was heard, and the
recorder's detector found nothing before it (`SavedOK`); a provider that has not failed has all that is
saved (`SentOK`); and an answer is a piece of what was heard that has all the speech found
by the detector of its path (`AnswerOK`): for the batch path, whatever part of the file that
detector takes for speech, the span of its segments has it all.

### What is only model-checked

- Liveness: `EventEnds`, `PublishEnds`, `StopEnds`, `WaitEnds`, `SilentActionEnds`,
  `PreemptedRests`, `PreemptionAnswered`, `CaptureEnds`, `StopHonoured`,
  `StaleSocketHarmless`, `Answered`, `HalfOpenEnds`, `Silence`, `SkipEnds`,
  `ReplyOpensWindow`. Fairness and ENABLED are out of the prover's reach. Of some the
  safety part is a theorem, that what they wait for is under way or was not lost:
  of `EventEnds` `NoEventVanishes`, of `WaitEnds` `WaitersAreTimed`, of `Answered`
  `EndsAreHeard`, of `StaleSocketHarmless` `ProcessesAreOrderly`, of `HalfOpenEnds` `BreakerIsExact`, of `Silence`
  `PlaybackIsTold`, of `PreemptionAnswered` and `PreemptedRests`
  `PreemptionsAreAsked`, of `StopHonoured` `SignalsAreKept`, of `ReplyOpensWindow`
  `GenerationCounts` and `ReplyIsAhead`.
No module uses RECURSIVE operators, which would take the SMT backend away from it.
The leaves are closed by Z3 and Zenon, the temporal steps by LS4.

## Plan

Done: `ActionManager` with `ResourceLease`, `EventBus`, `Conversation`,
`Capabilities`, `Observers` with `Intents`, `Daemon` with `Control`, `Playback` with
`Wake`, and `Capture`, each with its runs and its proofs; the abstract specifications
`ResourceLease`, `PriorityDelivery` and `PlaybackEnds`, each with its refinement.

Next, in this order:

1. The safety part of the liveness properties that have none yet: `PublishEnds`, `StopEnds`,
   `SilentActionEnds`, `SkipEnds`.
2. Expiry of WorldModel's facts, and `listening` with the listen actions of
   `Capabilities` in one module.

## Not modelled

- Device drivers, HTTP, audio, file formats, logging, configuration parsing,
  DriverRegistry, the ROS 2 workspace and deployment: I/O or declarations without a
  state that other parts depend on. What a driver may answer is a choice in the model of its
  caller.
- Payloads, results and error texts: no decision of the kernel reads them.
- TelegramBridge: an HTTP client that `create_app` does not register.
- The older program's `serve`, its goto and vacuum driver, and its plugin platform:
  one request at a time without state (`request_via_socket` is only called by
  tests), HTTP polling, and lookup tables. `converse` as a command of its own; its part
  in the wake loop is in `Wake`.
- An exception of the wake word driver, which ends the wake task for good
  (`hearing/module.py:143`), and the player process that goes on when its speech is
  interrupted (`speech/drivers/alsa_playback.py:36`): nothing in the code reacts.
