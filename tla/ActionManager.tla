---------------------------- MODULE ActionManager ----------------------------
(***************************************************************************)
(* roamerd/kernel/action_manager.py: the registry of actions, the lock of  *)
(* each exclusive resource, the waiters that a preemption leaves behind    *)
(* and the timers that bound a cancellation, a preemption and a wait.      *)
(*                                                                         *)
(* The manager runs on one asyncio loop.  A coroutine of it gives way only *)
(* inside EventBus.publish, and there only when the event is HIGH and the  *)
(* HIGH queue is full.  "cont" is the coroutine that holds the loop: every *)
(* other action waits until its list is empty.  A publish that gives way   *)
(* leaves "cont" and sits in "parked" with what its caller does next.      *)
(*                                                                         *)
(* Identifiers are numbers handed out in the order of creation, which is   *)
(* the iteration order of the _actions dict.                               *)
(***************************************************************************)
EXTENDS Integers, Sequences, FiniteSets

CONSTANTS
    MaxActions,      \* bound: how many actions are requested in a behaviour
    Resources,       \* the exclusive resources: motion, speaker, camera
    NoResource,      \* the resource "none", which is never locked
    PreemptTargets,  \* target_resources of the scopes given to preempt
    PreemptAcks,     \* resources whose module answers action.preempt_requested
    CancelAcks,      \* resources whose module answers with mark_cancelled
    Priorities,      \* the priorities requests come with
    Callers,         \* who calls: a bus "handler", which the bus can cancel, or a "task"
    RecentMaxLen,    \* maxlen of _recent_terminal
    MaxTimers,       \* bound: running timers of one kind for one action
    MaxParked        \* bound: publishes waiting for room in the HIGH queue

Levels == {"CRITICAL", "HIGH", "NORMAL", "LOW"}

ASSUME ConstantsAssumption ==
    /\ MaxActions \in Nat /\ RecentMaxLen \in Nat
    /\ MaxTimers \in Nat /\ MaxParked \in Nat
    /\ NoResource \notin Resources
    /\ PreemptTargets \subseteq Resources /\ PreemptAcks \subseteq Resources
    /\ CancelAcks \subseteq Resources \union {NoResource}
    /\ Priorities \subseteq Levels
    /\ Callers \subseteq {"handler", "task"}

ActionId == 1 .. MaxActions
NoAction == 0
NoTimer  == "no_timer"
TimerKinds == {"wait", "cancel", "preempt"}

Active   == {"RUNNING", "RUNNING_DETACHED", "PREEMPTING"}
Terminal == {"COMPLETED", "FAILED", "CANCELLED", "PREEMPTED"}
Status   == Active \union Terminal \union {"absent", "WAITING_RESOURCE", "pruned"}

\* The events modules act on are remembered; the others are only published.
Requested  == {"started", "preempt_requested", "cancel_requested"}
EventTypes == Requested \union {"detached", "completed", "failed", "cancelled", "preempted"}

OpNames == {"start_waiting", "fail", "orphan_fail"} \union TimerKinds
Ops     == [op : OpNames, id : ActionId, size : {0}]
           \union [op : {"preempt_scan"}, id : 0 .. MaxActions, size : 0 .. MaxActions]
Conts   == [by : {"handler", "task"}, todo : Seq(Ops)]
Parked  == [event : EventTypes, id : ActionId, by : {"handler", "task"}, todo : Seq(Ops)]

Info == [resource : Resources \union {NoResource},
         priority : Levels,
         blocker  : ActionId \union {NoAction}]

VARIABLES
    status,    \* Action.status; "absent" before the request, "pruned" after removal
    info,      \* what an action keeps from its creation to its end
    touched,   \* last_activity_at > started_at: some module published for it
    locks,     \* _resource_locks
    waiting,   \* _waiting_by_blocker
    timers,    \* how many timer tasks of each kind sleep for an action
    slot,      \* _timeout_tasks: which of them the manager can still cancel
    recent,    \* _recent_terminal
    events,    \* the requests to modules the bus has accepted for an action
    cont,      \* the coroutine that holds the loop and what it does next
    parked     \* the coroutines suspended inside publish

vars == <<status, info, touched, locks, waiting, timers, slot, recent, events,
          cont, parked>>

-----------------------------------------------------------------------------
Op(name, a)   == [op |-> name, id |-> a, size |-> 0]
Scan(a, n)    == [op |-> "preempt_scan", id |-> a, size |-> n]
Idle          == [by |-> "task", todo |-> <<>>]
Then(by, ops) == IF ops = <<>> THEN Idle ELSE [by |-> by, todo |-> ops]
LoopFree      == cont.todo = <<>>

Known(a)   == status[a] \notin {"absent", "pruned"}
KnownIds   == {a \in ActionId : Known(a)}
Waits(w)   == w \in ActionId /\ status[w] = "WAITING_RESOURCE"
Fresh(a)   == status[a] = "absent" /\ \A b \in ActionId : b < a => status[b] # "absent"
\* Mutant: last_activity_at < started_at, which no action ever satisfies.
OrphansStrictly == {a \in ActionId : FALSE}
Orphans    == {a \in ActionId : status[a] = "RUNNING" /\ ~touched[a]}
Pending(op) == \/ \E i \in DOMAIN cont.todo : cont.todo[i] = op
               \/ \E p \in parked : \E i \in DOMAIN p.todo : p.todo[i] = op

\* The elements of S in the order of the dict they were collected from.
Orderings(S) == {s \in [1 .. Cardinality(S) -> S] :
                    \A i, j \in DOMAIN s : i < j => s[i] < s[j]}
LastN(s, n)  == SubSeq(s, IF Len(s) > n THEN Len(s) - n + 1 ELSE 1, Len(s))

Rank == [CRITICAL |-> 0, HIGH |-> 1, NORMAL |-> 2, LOW |-> 3]

\* PolicyEngine preempts when the request outranks some active action there.
Outranks(p, r) == \E a \in ActionId : /\ status[a] \in Active
                                      /\ info[a].resource = r
                                      /\ Rank[p] < Rank[info[a].priority]

\* Mutant: a detached action no longer occupies its resource.
OccupiedUnlessDetached(r) ==
    r \in Resources /\ locks[r] # NoAction /\ status[locks[r]] \in {"RUNNING", "PREEMPTING"}

ResourceIsOccupied(r) == /\ r \in Resources
                         /\ locks[r] # NoAction
                         /\ status[locks[r]] \in Active
Lock(r, a) == [q \in Resources |-> IF q = r THEN a ELSE locks[q]]

Released(a) == [q \in Resources |-> IF locks[q] = a /\ info[a].resource = q
                                      THEN NoAction ELSE locks[q]]

Accepted(event, a) == [events EXCEPT ![a] = @ \union ({event} \intersect Requested)]

\* EventBus.publish: accepted at once, or suspended when the event is HIGH.
Publish(event, a, level, by, todo) ==
    \/ /\ events' = Accepted(event, a)
       /\ cont' = Then(by, todo)
       /\ UNCHANGED parked
    \/ /\ level = "HIGH"
       /\ Cardinality(parked) < MaxParked
       /\ LET p == [event |-> event, id |-> a, by |-> by, todo |-> todo]
          IN  p \notin parked /\ parked' = parked \union {p}
       /\ cont' = Idle
       /\ UNCHANGED events

Counting(a, kind, n) == [timers EXCEPT ![a] = [timers[a] EXCEPT ![kind] = n]]

\* _cancel_timeout: only the task in the slot is cancelled.
CancelTimeout(a) ==
    /\ slot' = [slot EXCEPT ![a] = NoTimer]
    /\ timers' = IF slot[a] = NoTimer THEN timers
                 ELSE Counting(a, slot[a], timers[a][slot[a]] - 1)

\* Mutant: nobody calls the waiter of a finished action.
FinishAlone(a, final, event, by, todo) ==
    /\ status' = [status EXCEPT ![a] = final]
    /\ locks' = Released(a)
    /\ Publish(event, a, info[a].priority, by, todo)
    /\ UNCHANGED <<info, touched, waiting, recent>>

\* The common body of the five ways to a terminal status.
Finish(a, final, event, by, todo) ==
    /\ status' = [status EXCEPT ![a] = final]
    /\ locks' = Released(a)
    /\ Publish(event, a, info[a].priority, by, <<Op("start_waiting", a)>> \o todo)
    /\ UNCHANGED <<info, touched, waiting, recent>>

-----------------------------------------------------------------------------
Init ==
    /\ status  = [a \in ActionId |-> "absent"]
    /\ info    = [a \in ActionId |-> [resource |-> NoResource, priority |-> "NORMAL",
                                      blocker |-> NoAction]]
    /\ touched = [a \in ActionId |-> FALSE]
    /\ locks   = [r \in Resources |-> NoAction]
    /\ waiting = [a \in ActionId |-> NoAction]
    /\ timers  = [a \in ActionId |-> [k \in TimerKinds |-> 0]]
    /\ slot    = [a \in ActionId |-> NoTimer]
    /\ recent  = <<>>
    /\ events  = [a \in ActionId |-> {}]
    /\ cont    = Idle
    /\ parked  = {}

\* request_action when the resource is free (or none): RUNNING and locked.
RequestRunning(a, r, p, by) ==
    /\ LoopFree /\ Fresh(a)
    /\ ~ResourceIsOccupied(r)
    /\ status' = [status EXCEPT ![a] = "RUNNING"]
    /\ info' = [info EXCEPT ![a] = [resource |-> r, priority |-> p, blocker |-> NoAction]]
    /\ locks' = Lock(r, a)
    /\ Publish("started", a, p, by, <<>>)
    /\ UNCHANGED <<touched, waiting, timers, slot, recent>>

\* request_action with preempt_current: the holder is asked to stop, the new
\* action waits for it.  A holder that is already stopping answers BUSY.
RequestWaiting(a, r, p, by) ==
    LET current == locks[r] IN
    /\ LoopFree /\ Fresh(a)
    /\ ResourceIsOccupied(r) /\ Outranks(p, r)
    /\ status[current] # "PREEMPTING"
    /\ status' = [status EXCEPT ![current] = "PREEMPTING", ![a] = "WAITING_RESOURCE"]
    /\ info' = [info EXCEPT ![a] = [resource |-> r, priority |-> p, blocker |-> current]]
    /\ waiting' = [waiting EXCEPT ![current] = a]
    /\ Publish("preempt_requested", current, info[current].priority, by, <<Op("wait", a)>>)
    /\ UNCHANGED <<touched, locks, timers, slot, recent>>

\* complete_action and fail_action: the module that saw action.started.
CompleteAction(a, by) ==
    /\ LoopFree /\ Known(a) /\ "started" \in events[a]
    /\ CancelTimeout(a)
    /\ Finish(a, "COMPLETED", "completed", by, <<>>)

FailAction(a, by) ==
    /\ LoopFree /\ Known(a) /\ "started" \in events[a]
    /\ CancelTimeout(a)
    /\ Finish(a, "FAILED", "failed", by, <<>>)

\* mark_cancelled: the listen or reminder task of a started action was stopped.
MarkCancelled(a, by) ==
    /\ LoopFree /\ Known(a) /\ info[a].resource \in CancelAcks
    /\ "started" \in events[a] /\ events[a] \intersect {"cancel_requested", "preempt_requested"} # {}
    /\ CancelTimeout(a)
    /\ Finish(a, "CANCELLED", "cancelled", by, <<>>)

\* mark_preempted: MotionModule answers action.preempt_requested.
MarkPreempted(a, by) ==
    /\ LoopFree /\ Known(a)
    /\ "preempt_requested" \in events[a] /\ info[a].resource \in PreemptAcks
    /\ CancelTimeout(a)
    /\ Finish(a, "PREEMPTED", "preempted", by, <<>>)

\* cancel_action: the timer starts after the publish and takes the slot.
CancelAction(a) ==
    /\ LoopFree /\ Known(a) /\ timers[a]["cancel"] < MaxTimers
    /\ Publish("cancel_requested", a, info[a].priority, "task", <<Op("cancel", a)>>)
    /\ UNCHANGED <<status, info, touched, locks, waiting, timers, slot, recent>>

\* preempt: walks the live dict, one suspension point per target.
Preempt ==
    /\ LoopFree
    /\ \A a \in ActionId : timers[a]["preempt"] < MaxTimers
    /\ cont' = Then("handler", <<Scan(NoAction, Cardinality(KnownIds))>>)
    /\ UNCHANGED <<status, info, touched, locks, waiting, timers, slot, recent, events, parked>>

\* Mutant: the control bridge does not look at the status first.
DetachAnything(a) ==
    /\ LoopFree /\ Known(a)
    /\ status' = [status EXCEPT ![a] = "RUNNING_DETACHED"]
    /\ Publish("detached", a, info[a].priority, "task", <<>>)
    /\ UNCHANGED <<info, touched, locks, waiting, timers, slot, recent>>

\* mark_detached, as the control bridge calls it when its wait times out.
MarkDetached(a) ==
    /\ LoopFree /\ status[a] \in {"RUNNING", "PREEMPTING", "WAITING_RESOURCE"}
    /\ status' = [status EXCEPT ![a] = "RUNNING_DETACHED"]
    /\ Publish("detached", a, info[a].priority, "task", <<>>)
    /\ UNCHANGED <<info, touched, locks, waiting, timers, slot, recent>>

\* _handle_health_changed: the module of resource r was reported unavailable.
HealthUnavailable(r) ==
    /\ LoopFree
    /\ \E s \in Orderings({a \in ActionId : status[a] \in Active /\ info[a].resource = r}) :
          cont' = Then("handler", [i \in DOMAIN s |-> Op("fail", s[i])])
    /\ UNCHANGED <<status, info, touched, locks, waiting, timers, slot, recent, events, parked>>

\* _handle_action_activity: an event of another source names a RUNNING action.
ActionActivity(a) ==
    /\ LoopFree /\ status[a] = "RUNNING" /\ "started" \in events[a]
    /\ touched' = [touched EXCEPT ![a] = TRUE]
    /\ UNCHANGED <<status, info, locks, waiting, timers, slot, recent, events, cont, parked>>

\* fail_orphan_actions: S are the orphans older than orphan_timeout_sec.
FailOrphans(S) ==
    /\ LoopFree /\ S # {}
    /\ \E s \in Orderings(S) : cont' = Then("task", [i \in DOMAIN s |-> Op("orphan_fail", s[i])])
    /\ UNCHANGED <<status, info, touched, locks, waiting, timers, slot, recent, events, parked>>

\* prune_terminal_actions: S are the terminal actions past their retention.
PruneTerminal(S) ==
    /\ LoopFree /\ S # {}
    /\ status' = [a \in ActionId |-> IF a \in S THEN "pruned" ELSE status[a]]
    /\ locks' = [r \in Resources |->
                   IF locks[r] # NoAction /\ status'[locks[r]] \in {"absent", "pruned"}
                     THEN NoAction ELSE locks[r]]
    /\ \E s \in Orderings(S) : recent' = LastN(recent \o s, RecentMaxLen)
    /\ UNCHANGED <<info, touched, waiting, timers, slot, events, cont, parked>>

-----------------------------------------------------------------------------
\* A timer that fires empties the slot, whichever timer is in it.
TimerFires(a, kind) ==
    /\ LoopFree /\ timers[a][kind] > 0
    /\ timers' = Counting(a, kind, timers[a][kind] - 1)
    /\ slot' = [slot EXCEPT ![a] = NoTimer]

\* _fail_waiting_action_after_timeout
WaitTimeout(a) ==
    /\ TimerFires(a, "wait")
    /\ \/ /\ status[a] = "WAITING_RESOURCE"
          /\ status' = [status EXCEPT ![a] = "FAILED"]
          /\ waiting' = [waiting EXCEPT ![info[a].blocker] = NoAction]
          /\ Publish("failed", a, info[a].priority, "task", <<>>)
       \/ /\ status[a] # "WAITING_RESOURCE"
          /\ UNCHANGED <<status, waiting, events, cont, parked>>
    /\ UNCHANGED <<info, touched, locks, recent>>

\* _cancel_after_timeout
CancelTimeoutExpires(a) ==
    /\ TimerFires(a, "cancel")
    /\ \/ status[a] \in Active /\ Finish(a, "CANCELLED", "cancelled", "task", <<>>)
       \/ /\ status[a] \notin Active
          /\ UNCHANGED <<status, info, touched, locks, waiting, recent, events, cont, parked>>

\* _preempt_after_timeout
PreemptTimeout(a) ==
    /\ TimerFires(a, "preempt")
    /\ \/ status[a] = "PREEMPTING" /\ Finish(a, "PREEMPTED", "preempted", "task", <<>>)
       \/ /\ status[a] # "PREEMPTING"
          /\ UNCHANGED <<status, info, touched, locks, waiting, recent, events, cont, parked>>

-----------------------------------------------------------------------------
\* The steps of the coroutine that holds the loop.
Doing(name) == cont.todo # <<>> /\ Head(cont.todo).op = name
Target      == Head(cont.todo).id
Rest        == Tail(cont.todo)

\* _start_waiting_after: nobody waits, or the waiter is gone (KeyError when pruned).
NoWaiter ==
    LET w == waiting[Target] IN
    /\ Doing("start_waiting")
    /\ ~Waits(w)
    /\ waiting' = [waiting EXCEPT ![Target] = NoAction]
    /\ cont' = IF w # NoAction /\ ~Known(w) THEN Idle ELSE Then(cont.by, Rest)
    /\ UNCHANGED <<status, info, touched, locks, timers, slot, recent, events, parked>>

WaiterCalled(w) ==
    /\ Doing("start_waiting")
    /\ w = waiting[Target] /\ Waits(w)
    /\ waiting' = [waiting EXCEPT ![Target] = NoAction]
    /\ CancelTimeout(w)
    /\ UNCHANGED <<info, touched, recent>>

\* Mutant: the waiter takes the lock without looking at it.
WaiterStartsUnchecked(w) ==
    /\ WaiterCalled(w)
    /\ status' = [status EXCEPT ![w] = "RUNNING"]
    /\ locks' = Lock(info[w].resource, w)
    /\ Publish("started", w, info[w].priority, cont.by, Rest)

WaiterStarts(w) ==
    /\ WaiterCalled(w)
    /\ locks[info[w].resource] = NoAction
    /\ status' = [status EXCEPT ![w] = "RUNNING"]
    /\ locks' = Lock(info[w].resource, w)
    /\ Publish("started", w, info[w].priority, cont.by, Rest)

WaiterFindsBusy(w) ==
    /\ WaiterCalled(w)
    /\ locks[info[w].resource] # NoAction
    /\ status' = [status EXCEPT ![w] = "FAILED"]
    /\ Publish("failed", w, info[w].priority, cont.by, Rest)
    /\ UNCHANGED locks

\* Mutant: a new timer cancels the one it takes the slot from.
StartTimerReplacing(kind) ==
    /\ Doing(kind)
    /\ timers' = [timers EXCEPT ![Target] =
                    [k \in TimerKinds |-> (IF k = slot[Target] THEN @[k] - 1 ELSE @[k])
                                          + (IF k = kind THEN 1 ELSE 0)]]
    /\ slot' = [slot EXCEPT ![Target] = kind]
    /\ cont' = Then(cont.by, Rest)
    /\ UNCHANGED <<status, info, touched, locks, waiting, recent, events, parked>>

\* asyncio.create_task of a timer: the previous one in the slot keeps running.
StartTimer(kind) ==
    /\ Doing(kind)
    /\ timers' = Counting(Target, kind, timers[Target][kind] + 1)
    /\ slot' = [slot EXCEPT ![Target] = kind]
    /\ cont' = Then(cont.by, Rest)
    /\ UNCHANGED <<status, info, touched, locks, waiting, recent, events, parked>>

\* fail_action for each action of a crashed module, whatever its status is by now.
FailCrashed ==
    /\ Doing("fail") /\ Known(Target)
    /\ CancelTimeout(Target)
    /\ Finish(Target, "FAILED", "failed", cont.by, Rest)

\* fail_action for each orphan that is still RUNNING.
FailOrphan ==
    /\ Doing("orphan_fail") /\ status[Target] = "RUNNING"
    /\ CancelTimeout(Target)
    /\ Finish(Target, "FAILED", "failed", cont.by, Rest)

\* An orphan that moved on is skipped; a crashed one that was pruned is a KeyError.
SkipFail ==
    /\ \/ Doing("fail") /\ ~Known(Target) /\ cont' = Idle
       \/ Doing("orphan_fail") /\ status[Target] # "RUNNING" /\ cont' = Then(cont.by, Rest)
    /\ UNCHANGED <<status, info, touched, locks, waiting, timers, slot, recent, events, parked>>

PreemptableAfter(last) ==
    {a \in ActionId : /\ a > last
                      /\ status[a] \in {"RUNNING", "RUNNING_DETACHED"}
                      /\ info[a].resource \in PreemptTargets}

PreemptNext(a) ==
    /\ Doing("preempt_scan")
    /\ Cardinality(KnownIds) = Head(cont.todo).size
    /\ a \in PreemptableAfter(Target) /\ \A b \in PreemptableAfter(Target) : a <= b
    /\ status' = [status EXCEPT ![a] = "PREEMPTING"]
    /\ Publish("preempt_requested", a, info[a].priority, cont.by,
               <<Op("preempt", a), Scan(a, Head(cont.todo).size)>>)
    /\ UNCHANGED <<info, touched, locks, waiting, timers, slot, recent>>

\* The walk ends, or raises because the dict changed size under it.
PreemptEnds ==
    /\ Doing("preempt_scan")
    /\ Cardinality(KnownIds) # Head(cont.todo).size \/ PreemptableAfter(Target) = {}
    /\ cont' = Idle
    /\ UNCHANGED <<status, info, touched, locks, waiting, timers, slot, recent, events, parked>>

-----------------------------------------------------------------------------
\* The HIGH queue has room: the suspended publish goes through.
ResumePublish(p) ==
    /\ LoopFree /\ p \in parked
    /\ events' = Accepted(p.event, p.id)
    /\ parked' = parked \ {p}
    /\ cont' = Then(p.by, p.todo)
    /\ UNCHANGED <<status, info, touched, locks, waiting, timers, slot, recent>>

\* The bus cancels the handler that was suspended: the event is never published
\* and the rest of the coroutine never runs.
DropPublish(p) ==
    /\ LoopFree /\ p \in parked /\ p.by = "handler"
    /\ parked' = parked \ {p}
    /\ UNCHANGED <<status, info, touched, locks, waiting, timers, slot, recent, events, cont>>

-----------------------------------------------------------------------------
Requests ==
    \E a \in ActionId, r \in Resources \union {NoResource}, p \in Priorities, by \in Callers :
        RequestRunning(a, r, p, by) \/ (r \in Resources /\ RequestWaiting(a, r, p, by))

ModuleCalls ==
    \E a \in ActionId, by \in Callers :
        \/ CompleteAction(a, by) \/ FailAction(a, by)
        \/ MarkCancelled(a, by) \/ MarkPreempted(a, by)

ControlCalls == \E a \in ActionId : CancelAction(a) \/ MarkDetached(a)

KernelCalls ==
    \/ Preempt
    \/ \E r \in Resources : HealthUnavailable(r)
    \/ \E a \in ActionId : ActionActivity(a)
    \/ \E S \in SUBSET Orphans : FailOrphans(S)
    \/ \E S \in SUBSET {a \in ActionId : status[a] \in Terminal} : PruneTerminal(S)

Timeouts == \E a \in ActionId : WaitTimeout(a) \/ CancelTimeoutExpires(a) \/ PreemptTimeout(a)

Continue ==
    \/ NoWaiter \/ FailCrashed \/ FailOrphan \/ SkipFail \/ PreemptEnds
    \/ \E a \in ActionId : WaiterStarts(a) \/ WaiterFindsBusy(a) \/ PreemptNext(a)
    \/ \E k \in TimerKinds : StartTimer(k)

BusSteps == \E p \in parked : ResumePublish(p) \/ DropPublish(p)

Next == Requests \/ ModuleCalls \/ ControlCalls \/ KernelCalls
        \/ Timeouts \/ Continue \/ BusSteps

Spec == Init /\ [][Next]_vars

\* asyncio runs every ready task: the running coroutine goes on, and a timer, a
\* publisher with room or the orphan loop runs when the loop is free now and then.
Fairness ==
    /\ WF_vars(Continue)
    /\ \A a \in ActionId : /\ SF_vars(WaitTimeout(a))
                           /\ SF_vars(CancelTimeoutExpires(a))
                           /\ SF_vars(PreemptTimeout(a))
    /\ SF_vars(\E p \in parked : ResumePublish(p))
    /\ SF_vars(FailOrphans(Orphans))

FairSpec == Spec /\ Fairness

-----------------------------------------------------------------------------
TypeOK ==
    /\ status  \in [ActionId -> Status]
    /\ info    \in [ActionId -> Info]
    /\ touched \in [ActionId -> BOOLEAN]
    /\ locks   \in [Resources -> ActionId \union {NoAction}]
    /\ waiting \in [ActionId -> ActionId \union {NoAction}]
    /\ timers  \in [ActionId -> [TimerKinds -> Nat]]
    /\ slot    \in [ActionId -> TimerKinds \union {NoTimer}]
    /\ recent  \in Seq(ActionId)
    /\ events  \in [ActionId -> SUBSET Requested]
    /\ cont    \in Conts
    /\ parked  \subseteq Parked

-----------------------------------------------------------------------------
Exclusive(a) == info[a].resource \in Resources
Announced(a) == \/ "started" \in events[a]
                \/ \E p \in parked : p.id = a /\ p.event = "started"
Over(a) == status[a] \in Terminal \union {"pruned"}

\* A lock always points at an action that is still active on that resource, so
\* the stale-lock branches of _resource_is_occupied and of pruning never act.
LockHolderActive ==
    \A r \in Resources : locks[r] # NoAction =>
        status[locks[r]] \in Active /\ info[locks[r]].resource = r

\* Every active action that was announced with action.started on an exclusive
\* resource holds its lock: two modules never drive one resource for two actions.
StartedOwnsLock ==
    \A a \in ActionId : (status[a] \in Active /\ Exclusive(a) /\ Announced(a))
                          => locks[info[a].resource] = a

\* The slot of _timeout_tasks never names a timer that is not running, so that
\* _cancel_timeout always cancels a live task.
SlotIsLive == \A a \in ActionId : slot[a] # NoTimer => timers[a][slot[a]] > 0

\* The waiter registered for a blocker is never left behind by it: while the
\* entry names a waiting action its blocker is active or about to start it.
BlockerCallsWaiter ==
    \A b \in ActionId : Waits(waiting[b]) =>
        status[b] \in Active \/ Pending(Op("start_waiting", b))

\* What is over stays over: no later call brings a finished action back.
NoRevival == [][\A a \in ActionId : Over(a) => Over(a)']_vars

\* A waiting action is started, failed or detached, it does not wait for ever.
WaitEnds == \A w \in ActionId : Waits(w) ~> ~Waits(w)

\* A RUNNING action its module never reacts to does not hold its lock for ever.
SilentActionEnds == \A a \in ActionId : (a \in Orphans) ~> (a \notin Orphans)

-----------------------------------------------------------------------------
\* The manager implements the leasing of exclusive resources.
Lease == INSTANCE ResourceLease
           WITH Ids <- ActionId, Nobody <- NoAction,
                lease <- locks, spent <- {a \in ActionId : Over(a)}
LeaseSpec == Lease!Spec
=============================================================================
