---------------------------- MODULE Capabilities ----------------------------
(***************************************************************************)
(* The capability modules of roamerd that act on actions: motion, hearing  *)
(* (listen actions), reminders, vision and body status, as handlers of the *)
(* event bus, with the admissions of PolicyEngine, its emergency stops,    *)
(* and the statuses, locks, waiters and timers of ActionManager.           *)
(*                                                                         *)
(* A call of ActionManager is one step here; what may happen inside one is *)
(* in the module ActionManager.  The bus is the dispatcher of EventBus     *)
(* seen from its handlers: one event at a time, HIGH before NORMAL.  Only  *)
(* the camera makes a handler wait; listening and reminders are tasks.     *)
(* All modules report to be healthy, so no admission fails for that.       *)
(***************************************************************************)
EXTENDS Naturals, Sequences, SequencesExt

CONSTANTS
    MaxActions,     \* bound: actions that are admitted
    MaxAlarms,      \* bound: emergency stops
    MaxCancels,     \* bound: cancel requests
    Kinds           \* the action types that are asked for

AllKinds == {"motion.goto", "motion.position", "hearing.listen", "remind.schedule", "watch", "sense"}

ASSUME CapabilitiesAssumption ==
    /\ MaxActions \in Nat /\ MaxAlarms \in Nat /\ MaxCancels \in Nat
    /\ Kinds \subseteq AllKinds

VARIABLES
    kind, status, level,    \* of each action: its type, its status, its priority
    lock,                   \* _resource_locks
    blocker,                \* the action a waiting action waits for
    timers,                 \* what timer tasks run for each action
    queue,                  \* the events on actions, by priority
    alarm,                  \* a CRITICAL safety event is queued
    busy,                   \* the action whose capture the dispatcher waits for
    moving,                 \* the action whose command the robot follows
    synchronous,            \* the motion driver returns when the goal is reached
    listening,              \* HearingModule._listen_tasks
    announcing,             \* those of them whose publish of the transcript waits for room
    scheduled,              \* ReminderModule._tasks
    acted,                  \* the actions whose module has published something
    transcribed,            \* history: listen actions that gave a transcript
    spoken,                 \* history: reminders that asked for their speech
    calledOff,              \* history: actions whose cancel request has been handled
    halted,                 \* history: motion actions asked for before an emergency stop
    alarms, cancels         \* history: how many there were

manager == <<kind, status, level, lock, blocker, timers>>
results == <<acted, transcribed, spoken, calledOff>>
tasks   == <<listening, announcing, scheduled, results>>
counts  == <<halted, alarms, cancels>>
vars == <<manager, queue, alarm, busy, moving, synchronous, tasks, counts>>

Actions  == 1 .. MaxActions
NoAction == 0
Levels   == {"HIGH", "NORMAL"}
Active   == {"running", "detached", "preempting"}
Terminal == {"completed", "failed", "cancelled", "preempted"}

\* What the local intents and the command line ask for.
Resource(k) == CASE k \in {"motion.goto", "motion.position"} -> "motion"
                 [] k = "hearing.listen" -> "microphone"
                 [] k = "watch" -> "camera"
                 [] OTHER -> "none"
Resources == {"motion", "microphone", "camera"}
OnMotion(a) == kind[a] \in {"motion.goto", "motion.position"}

Init ==
    /\ kind = [a \in Actions |-> "none"] /\ status = [a \in Actions |-> "none"]
    /\ level = [a \in Actions |-> "NORMAL"] /\ lock = [r \in Resources |-> NoAction]
    /\ blocker = [a \in Actions |-> NoAction] /\ timers = [a \in Actions |-> {}]
    /\ queue = [l \in Levels |-> <<>>] /\ alarm = FALSE /\ busy = NoAction
    /\ moving = NoAction /\ synchronous \in BOOLEAN
    /\ listening = {} /\ announcing = {} /\ scheduled = {}
    /\ acted = {} /\ transcribed = {} /\ spoken = {} /\ calledOff = {} /\ halted = {} /\ alarms = 0 /\ cancels = 0

-----------------------------------------------------------------------------
(* The calls of ActionManager. *)

\* The events of an action have its priority.
Queue(q, type, a, l) == [q EXCEPT ![l] = Append(@, [type |-> type, action |-> a])]

Occupied(r) == r # "none" /\ lock[r] # NoAction /\ status[lock[r]] \in Active

Create(a, k, l, s) ==
    /\ kind[a] = "none" /\ \A b \in Actions : b < a => kind[b] # "none"
    /\ kind' = [kind EXCEPT ![a] = k] /\ level' = [level EXCEPT ![a] = l]

RequestRunning(a, k, l) ==
    /\ Create(a, k, l, "running") /\ ~Occupied(Resource(k))
    /\ status' = [status EXCEPT ![a] = "running"]
    /\ lock' = [r \in Resources |-> IF r = Resource(k) THEN a ELSE lock[r]]
    /\ queue' = Queue(queue, "started", a, l)
    /\ UNCHANGED <<blocker, timers>>

\* _maybe_preempt_for_request: a HIGH request takes the resource of a NORMAL
\* action, and waits until its module has let go.
RequestWaiting(a, k, l) ==
    LET b == lock[Resource(k)]
    IN  /\ Create(a, k, l, "waiting") /\ Occupied(Resource(k))
        /\ l = "HIGH" /\ level[b] = "NORMAL" /\ status[b] # "preempting"
        /\ status' = [status EXCEPT ![a] = "waiting", ![b] = "preempting"]
        /\ blocker' = [w \in Actions |-> IF w = a THEN b
                                         ELSE IF blocker[w] = b THEN NoAction ELSE blocker[w]]
        /\ timers' = [timers EXCEPT ![a] = @ \union {"wait"}]
        /\ queue' = Queue(queue, "preempt", b, level[b])
        /\ UNCHANGED lock

\* complete, fail and the marks, by whom it may be, whatever the status was: the
\* lock is released, and the waiting action takes it.
Ended(a, how, q) ==
    LET Waits(w) == status[w] = "waiting" /\ blocker[w] = a
        Starts(w) == Waits(w) /\ \A r \in Resources : r = Resource(kind[w]) => lock[r] \in {NoAction, a}
    IN  /\ status' = [b \in Actions |-> IF b = a THEN how
                                        ELSE IF Starts(b) THEN "running"
                                        ELSE IF Waits(b) THEN "failed" ELSE status[b]]
        /\ lock' = [r \in Resources |->
                      IF \E w \in Actions : Starts(w) /\ Resource(kind[w]) = r
                      THEN CHOOSE w \in Actions : Starts(w) /\ Resource(kind[w]) = r
                      ELSE IF lock[r] = a THEN NoAction ELSE lock[r]]
        /\ timers' = [b \in Actions |-> IF b = a \/ Waits(b) THEN {} ELSE timers[b]]
        /\ blocker' = [b \in Actions |-> IF blocker[b] = a THEN NoAction ELSE blocker[b]]
        /\ queue' = IF \E w \in Actions : Starts(w)
                    THEN LET w == CHOOSE w \in Actions : Starts(w)
                         IN  Queue(q, "started", w, level[w])
                    ELSE q
        /\ UNCHANGED <<kind, level>>

\* preempt: every action on the motion resource that runs.
Preempt(q) ==
    LET hit == {a \in Actions : OnMotion(a) /\ status[a] \in {"running", "detached"}}
        Asked(l) == SetToSeq({a \in hit : level[a] = l})
    IN  /\ status' = [a \in Actions |-> IF a \in hit THEN "preempting" ELSE status[a]]
        /\ timers' = [a \in Actions |-> timers[a] \union (IF a \in hit THEN {"preempt"} ELSE {})]
        /\ queue' = [l \in Levels |->
                       q[l] \o [i \in DOMAIN Asked(l) |-> [type |-> "preempt", action |-> Asked(l)[i]]]]
        /\ UNCHANGED <<kind, level, lock, blocker>>

-----------------------------------------------------------------------------
(* Requests, from the policy's own intents and from the control bridge. *)

\* _request_from_match: the request of an intent has the resource of its type and
\* the priority of its rule; only the intents that move the robot have one.
MayAskFor(k, l) == l = "HIGH" => k = "motion.goto"

Admit(a, k, l) ==
    /\ MayAskFor(k, l)
    /\ RequestRunning(a, k, l) \/ RequestWaiting(a, k, l)
    /\ UNCHANGED <<alarm, busy, moving, synchronous, tasks, counts>>

\* A request for the completion timed out.
Detach(a) ==
    /\ status[a] \in {"running", "preempting", "waiting"}
    /\ status' = [status EXCEPT ![a] = "detached"]
    /\ UNCHANGED <<kind, level, lock, blocker, timers, queue, alarm, busy, moving, synchronous,
                   tasks, counts>>

Cancel(a) ==
    /\ kind[a] # "none" /\ cancels < MaxCancels /\ cancels' = cancels + 1
    /\ queue' = Queue(queue, "cancel", a, level[a])
    /\ timers' = [timers EXCEPT ![a] = @ \union {"cancel"}]
    /\ UNCHANGED <<kind, status, level, lock, blocker, alarm, busy, moving, synchronous, tasks,
                   halted, alarms>>

SafetyEvent ==
    /\ ~alarm /\ alarms < MaxAlarms /\ alarms' = alarms + 1 /\ alarm' = TRUE
    /\ UNCHANGED <<manager, queue, busy, moving, synchronous, tasks, halted, cancels>>

-----------------------------------------------------------------------------
(* Timers of ActionManager. *)

\* Each looks at the status again; an action that moved on is left alone.
WaitExpires(a) ==
    /\ "wait" \in timers[a] /\ status[a] = "waiting"
    /\ status' = [status EXCEPT ![a] = "failed"]
    /\ timers' = [timers EXCEPT ![a] = {}] /\ blocker' = [blocker EXCEPT ![a] = NoAction]
    /\ UNCHANGED <<kind, level, lock, queue, alarm, busy, moving, synchronous, tasks, counts>>

CancelExpires(a) ==
    /\ "cancel" \in timers[a] /\ status[a] \in Active /\ Ended(a, "cancelled", queue)
    /\ UNCHANGED <<alarm, busy, moving, synchronous, tasks, counts>>

PreemptExpires(a) ==
    /\ "preempt" \in timers[a] /\ status[a] = "preempting" /\ Ended(a, "preempted", queue)
    /\ UNCHANGED <<alarm, busy, moving, synchronous, tasks, counts>>

\* The orphan scan: it runs, and no module has published anything for it.
Orphaned(a) ==
    /\ status[a] = "running" /\ a \notin acted /\ Ended(a, "failed", queue)
    /\ UNCHANGED <<alarm, busy, moving, synchronous, tasks, counts>>

-----------------------------------------------------------------------------
(* The dispatcher and the handlers of the modules. *)

\* The next event, when no handler waits and nothing is more urgent.
IsNext(l, type, a) ==
    /\ busy = NoAction /\ ~alarm /\ (l = "NORMAL" => queue["HIGH"] = <<>>)
    /\ queue[l] # <<>> /\ Head(queue[l]) = [type |-> type, action |-> a]

Rest(l) == [queue EXCEPT ![l] = Tail(@)]
Taken(l) == queue' = Rest(l) /\ UNCHANGED manager

\* MotionModule.  A driver that is not synchronous is not asked again.
MotionStarts(l, a) ==
    /\ IsNext(l, "started", a) /\ kind[a] = "motion.goto"
    /\ acted' = acted \union {a}
    /\ \/ /\ synchronous /\ moving' = NoAction /\ Ended(a, "completed", Rest(l))
       \/ ~synchronous /\ moving' = a /\ Taken(l)
       \/ UNCHANGED moving /\ Ended(a, "failed", Rest(l))
    /\ UNCHANGED <<alarm, busy, synchronous, listening, announcing, scheduled, transcribed, spoken,
                   calledOff, counts>>

\* Mutant: an action that has moved on is left alone.
MotionPreemptedIfAsked(l, a) ==
    /\ IsNext(l, "preempt", a) /\ OnMotion(a)
    /\ IF status[a] = "preempting" THEN moving' = NoAction /\ Ended(a, "preempted", Rest(l))
       ELSE UNCHANGED moving /\ Taken(l)
    /\ UNCHANGED <<alarm, busy, synchronous, tasks, counts>>

\* Mutant: only the actions that the module serves.
MotionPreemptedByType(l, a) ==
    /\ IsNext(l, "preempt", a) /\ OnMotion(a)
    /\ IF kind[a] = "motion.goto" THEN moving' = NoAction /\ Ended(a, "preempted", Rest(l))
       ELSE UNCHANGED moving /\ Taken(l)
    /\ UNCHANGED <<alarm, busy, synchronous, tasks, counts>>

\* The driver stops the robot, whatever it does by now, and the action ends,
\* whatever became of it.  No module handles a preemption of motion.position,
\* but this one, by the resource.
MotionPreempted(l, a) ==
    /\ IsNext(l, "preempt", a) /\ OnMotion(a)
    /\ moving' = NoAction /\ Ended(a, "preempted", Rest(l))
    /\ UNCHANGED <<alarm, busy, synchronous, tasks, counts>>

\* The goal is reached: nobody is told.
Arrives == /\ moving # NoAction /\ moving' = NoAction
           /\ UNCHANGED <<manager, queue, alarm, busy, synchronous, tasks, counts>>

\* HearingModule: the recording and its transcription are a task.
ListenStarts(l, a) ==
    /\ IsNext(l, "started", a) /\ kind[a] = "hearing.listen"
    /\ listening' = listening \union {a} /\ acted' = acted \union {a} /\ Taken(l)
    /\ UNCHANGED <<alarm, busy, moving, synchronous, announcing, scheduled, transcribed, spoken,
                   calledOff, counts>>

\* _action_still_running: the action of a task that has its text is looked at, and
\* an action that was detached does not run and stays as it is.
ListenSpeech(a) ==
    /\ a \in listening \ announcing
    /\ IF status[a] = "running" THEN announcing' = announcing \union {a} /\ UNCHANGED listening
       ELSE listening' = listening \ {a} /\ UNCHANGED announcing
    /\ UNCHANGED <<manager, queue, alarm, busy, moving, synchronous, scheduled, results, counts>>

\* _run_listen_action: the action completes if it still runs.
ListenEnds(a) ==
    IF status[a] = "running" THEN Ended(a, "completed", queue) ELSE UNCHANGED <<manager, queue>>

\* There is room in the HIGH queue for the transcript, now or after a while in which
\* anything may have become of the action.
Announced(a) ==
    /\ a \in announcing /\ announcing' = announcing \ {a} /\ listening' = listening \ {a}
    /\ transcribed' = transcribed \union {a} /\ ListenEnds(a)
    /\ UNCHANGED <<alarm, busy, moving, synchronous, scheduled, acted, spoken, calledOff, counts>>

\* No speech, or an exception: hearing.listen_failed, and the action completes.
ListenFails(a) ==
    /\ a \in listening \ announcing /\ listening' = listening \ {a} /\ ListenEnds(a)
    /\ UNCHANGED <<alarm, busy, moving, synchronous, announcing, scheduled, results, counts>>

\* Mutant: the task is taken out of the table, and its publish is not cancelled.
ListenForgotten(l, a) ==
    /\ IsNext(l, "cancel", a) /\ a \in listening
    /\ listening' = listening \ {a} /\ Ended(a, "cancelled", Rest(l))
    /\ calledOff' = calledOff \union {a}
    /\ UNCHANGED <<alarm, busy, moving, synchronous, announcing, scheduled, acted, transcribed,
                   spoken, counts>>

\* The task is cancelled wherever it waits, in its publish too.
ListenCancelled(l, a) ==
    /\ IsNext(l, "cancel", a) /\ a \in listening
    /\ listening' = listening \ {a} /\ announcing' = announcing \ {a}
    /\ Ended(a, "cancelled", Rest(l)) /\ calledOff' = calledOff \union {a}
    /\ UNCHANGED <<alarm, busy, moving, synchronous, scheduled, acted, transcribed, spoken, counts>>

\* ReminderModule: the action is complete when its reminder is scheduled.
ReminderStarts(l, a) ==
    /\ IsNext(l, "started", a) /\ kind[a] = "remind.schedule"
    /\ scheduled' = scheduled \union {a} /\ Ended(a, "completed", Rest(l))
    /\ UNCHANGED <<alarm, busy, moving, synchronous, listening, announcing, results, counts>>

\* The delay is over: the speech is asked for, and refused if the speaker is busy.
ReminderFires(a) ==
    /\ a \in scheduled /\ scheduled' = scheduled \ {a}
    /\ spoken' = spoken \union {a}
    /\ UNCHANGED <<manager, queue, alarm, busy, moving, synchronous, listening, announcing, acted,
                   transcribed, calledOff, counts>>

\* Mutant: the task is left to itself.
ReminderMarked(l, a) ==
    /\ IsNext(l, "cancel", a) /\ a \in scheduled /\ Ended(a, "cancelled", Rest(l))
    /\ calledOff' = calledOff \union {a}
    /\ UNCHANGED <<alarm, busy, moving, synchronous, listening, announcing, scheduled, acted,
                   transcribed, spoken, counts>>

ReminderCancelled(l, a) ==
    /\ IsNext(l, "cancel", a) /\ a \in scheduled
    /\ scheduled' = scheduled \ {a} /\ Ended(a, "cancelled", Rest(l))
    /\ calledOff' = calledOff \union {a}
    /\ UNCHANGED <<alarm, busy, moving, synchronous, listening, announcing, acted, transcribed,
                   spoken, counts>>

\* VisionModule: the dispatcher waits for the camera.
CaptureStarts(l, a) ==
    /\ IsNext(l, "started", a) /\ kind[a] = "watch"
    /\ busy' = a /\ Taken(l)
    /\ UNCHANGED <<alarm, moving, synchronous, tasks, counts>>

CaptureEnds(a) ==
    /\ busy = a /\ a # NoAction /\ busy' = NoAction
    /\ \E how \in {"completed", "failed"} : Ended(a, how, queue)
    /\ acted' = acted \union {a}
    /\ UNCHANGED <<alarm, moving, synchronous, listening, announcing, scheduled, transcribed, spoken,
                   calledOff, counts>>

\* The fast path of a CRITICAL event: the handler is cancelled, and its event
\* goes back to the front.
Interrupted(a) ==
    /\ alarm /\ busy = a /\ a # NoAction /\ busy' = NoAction
    /\ queue' = [queue EXCEPT ![level[a]] = <<[type |-> "started", action |-> a]>> \o @]
    /\ UNCHANGED <<manager, alarm, moving, synchronous, tasks, counts>>

\* BodyStatusModule.
Sensed(l, a) ==
    /\ IsNext(l, "started", a) /\ kind[a] = "sense" /\ Ended(a, "completed", Rest(l))
    /\ UNCHANGED <<alarm, busy, moving, synchronous, tasks, counts>>

\* Nobody handles motion.position; a cancellation reaches only tasks.
Ignored(l, a) ==
    /\ \/ IsNext(l, "started", a) /\ kind[a] = "motion.position" /\ UNCHANGED calledOff
       \/ IsNext(l, "cancel", a) /\ a \notin listening \union scheduled
          /\ calledOff' = calledOff \union {a}
    /\ Taken(l)
    /\ UNCHANGED <<alarm, busy, moving, synchronous, listening, announcing, scheduled, acted,
                   transcribed, spoken, counts>>

\* What an emergency stop is meant to put an end to.
Requested == {a \in Actions : OnMotion(a) /\ status[a] \notin Terminal}

\* A safety event: PolicyEngine preempts, and MotionModule stops the robot.
SafetyStop ==
    /\ alarm /\ busy = NoAction /\ alarm' = FALSE
    /\ Preempt(queue) /\ moving' = NoAction
    /\ halted' = halted \union Requested
    /\ UNCHANGED <<busy, synchronous, tasks, alarms, cancels>>

\* The word "stop": PolicyEngine preempts, and the module stops when it is asked.
StopWord ==
    /\ ~alarm /\ busy = NoAction /\ alarms < MaxAlarms /\ alarms' = alarms + 1
    /\ Preempt(queue)
    /\ halted' = halted \union Requested
    /\ UNCHANGED <<alarm, busy, moving, synchronous, tasks, cancels>>

-----------------------------------------------------------------------------
Dispatched(l, a) ==
    \/ MotionStarts(l, a) \/ MotionPreempted(l, a) \/ ListenStarts(l, a) \/ ListenCancelled(l, a)
    \/ ReminderStarts(l, a) \/ ReminderCancelled(l, a) \/ CaptureStarts(l, a)
    \/ Sensed(l, a) \/ Ignored(l, a)

Dispatch == \/ \E l \in Levels, a \in Actions : Dispatched(l, a)
            \/ \E a \in Actions : CaptureEnds(a) \/ Interrupted(a)
            \/ SafetyStop

Tasks(a) == ListenSpeech(a) \/ Announced(a) \/ ListenFails(a) \/ ReminderFires(a)
Timers(a) == WaitExpires(a) \/ CancelExpires(a) \/ PreemptExpires(a) \/ Orphaned(a)

Calls == \/ \E a \in Actions, k \in Kinds, l \in Levels : Admit(a, k, l)
         \/ \E a \in Actions : Detach(a) \/ Cancel(a)
         \/ SafetyEvent \/ StopWord

Next == Dispatch \/ Calls \/ Arrives \/ \E a \in Actions : Tasks(a) \/ Timers(a)

Spec == Init /\ [][Next]_vars

\* The dispatcher goes on, the camera included; tasks and timers end.  Nobody has
\* to ask for anything, and the robot does not have to arrive.
FairSpec == /\ Spec /\ WF_vars(Dispatch)
            /\ \A a \in Actions : WF_vars(Tasks(a)) /\ WF_vars(Timers(a))

-----------------------------------------------------------------------------
TypeOK ==
    /\ kind \in [Actions -> AllKinds \union {"none"}]
    /\ status \in [Actions -> Active \union Terminal \union {"none", "waiting"}]
    /\ level \in [Actions -> Levels] /\ lock \in [Resources -> 0 .. MaxActions]
    /\ blocker \in [Actions -> 0 .. MaxActions]
    /\ timers \in [Actions -> SUBSET {"wait", "cancel", "preempt"}]
    /\ \A l \in Levels : queue[l] \in
           Seq([type : {"started", "cancel", "preempt"}, action : Actions])
    /\ alarm \in BOOLEAN /\ synchronous \in BOOLEAN
    /\ busy \in 0 .. MaxActions /\ moving \in 0 .. MaxActions
    /\ \A S \in {listening, announcing, scheduled, acted, transcribed, spoken, calledOff, halted} :
           S \subseteq Actions
    /\ alarms \in 0 .. MaxAlarms /\ cancels \in 0 .. MaxCancels

\* An action that was preempted comes to rest for good: its start and its
\* preemption may be dispatched in an order and at a time that the timer of the
\* preemption does not wait for (module.py:91-98, action_manager.py:395).
PreemptedRests ==
    \A a \in Actions : status[a] = "preempted" ~> [](moving # a)

\* What the robot is asked to let go, ends: a preemption of motion is answered
\* also when it has no timer, because another action waits for it
\* (module.py:91-98, action_manager.py:325).
PreemptionAnswered ==
    \A a \in Actions : status[a] = "preempting" ~> status[a] # "preempting"

\* Once the module has dealt with the request to cancel it, a listen action gives no
\* transcript and a reminder does not speak, whether it was recording, waiting to
\* publish or to be scheduled, had ended by a timer, or the timer ended it before it was
\* started (module.py:109-121, reminder.py:64-70).
CalledOffIsSilent ==
    [][\A a \in calledOff : /\ a \in transcribed' => a \in transcribed
                            /\ a \in spoken' => a \in spoken]_vars

\* migration/progress/phase-b3-checklist.md:45 and :56: an emergency stop stops or
\* preempts motion; in the end the robot follows nothing it was asked to do before.
EmergencyStopsMotion ==
    \A a \in Actions : a \in halted ~> [](moving # a)
=============================================================================
