------------------------------ MODULE EventBus ------------------------------
(***************************************************************************)
(* roamerd/kernel/event_bus.py: four queues by priority, one dispatcher    *)
(* that gives each event to its subscribers one after the other, the       *)
(* handler timeout, the fast path that takes a handler off the bus when a  *)
(* CRITICAL event arrives, the safety watchdog, and the shutdown that      *)
(* drains the queues with a dispatcher of its own.                         *)
(*                                                                         *)
(* Time passes in ticks.  The bus polls far more often than any of its     *)
(* limits, so a tick passes only when no step of the bus is due.           *)
(***************************************************************************)
EXTENDS Integers, Sequences, FiniteSets, FiniteSetsExt

CONSTANTS
    MaxEvents,     \* bound: how many events modules publish in a behaviour
    Kinds,         \* the event types modules publish
    LevelOf,       \* the priority each of them is published with
    Subscribers,   \* 1 .. n, in the order of the _subscriptions dict
    Wants,         \* the types each subscriber gets
    Emits,         \* the types its handler publishes while it runs
    Takes,         \* how many ticks its handler runs
    HighMax, NormalMax, LowMax,    \* high_maxsize, normal_maxsize, low_maxsize
    FastPath, Stall, Timeout,      \* critical_fast_path_after, watchdog_stall_after, handler_timeout
    Depth,         \* bound: nested calls of publish before RecursionError
    Stops          \* whether EventBus.stop is called in the behaviours

SysLevel == [overflow |-> "NORMAL", handler_timeout |-> "NORMAL", watchdog |-> "CRITICAL"]
SysKinds == DOMAIN SysLevel
Levels   == {"CRITICAL", "HIGH", "NORMAL", "LOW"}
Bounded  == {"NORMAL", "LOW"}

ASSUME ConstantsAssumption ==
    /\ MaxEvents \in Nat /\ Depth \in Nat \ {0} /\ Stops \in BOOLEAN
    /\ Kinds \intersect SysKinds = {} /\ LevelOf \in [Kinds -> Levels]
    /\ IsFiniteSet(Subscribers) /\ Subscribers = 1 .. Cardinality(Subscribers)
    /\ Wants \in [Subscribers -> SUBSET (Kinds \union SysKinds)]
    /\ Emits \in [Subscribers -> SUBSET Kinds]
    /\ Takes \in [Subscribers -> Nat]
    /\ HighMax \in Nat \ {0} /\ NormalMax \in Nat \ {0} /\ LowMax \in Nat \ {0}
    /\ {FastPath, Stall, Timeout} \subseteq Nat \ {0} /\ Stall > FastPath /\ Timeout > Stall

Serial == 1 .. MaxEvents
Events == [kind : Kinds, n : Serial] \union [kind : SysKinds, n : {0}]
Level(e)  == IF e.kind \in SysKinds THEN SysLevel[e.kind] ELSE LevelOf[e.kind]
MaxSize   == [HIGH |-> HighMax, NORMAL |-> NormalMax, LOW |-> LowMax]
SysEvent(kind) == [kind |-> kind, n |-> 0]

\* run() and the run_until_idle() of stop() are two dispatchers of the same queues.
Dispatchers == {"run", "stop"}
NoEvent == [kind |-> "none", n |-> 0]
NoTime  == -1

VARIABLES
    queue,     \* _queues
    critical,  \* _critical_arrived
    blocked,   \* the HIGH publishes that wait for room, and who waits
    mode,      \* what each dispatcher is doing
    current,   \* the event it dispatches
    todo,      \* the subscribers that still get it, the one being served included
    age,       \* for how long its handler has been running
    watched,   \* the age the watchdog sees: _current_handler_started_at
    reported,  \* _watchdog_reported_current_handler
    watchdog,  \* the watchdog task: "awake" or "gone"
    stopped,   \* _stopped
    made,      \* how many events modules have published
    fate,      \* history: what became of each accepted event
    waited     \* history: ticks a CRITICAL event has waited for a lesser handler

vars == <<queue, critical, blocked, mode, current, todo, age, watched, reported,
          watchdog, stopped, made, fate, waited>>

-----------------------------------------------------------------------------
Running(d) == mode[d] = "running"
Blocked(d) == \E b \in blocked : b.owner = d
Lesser(d)  == Running(d) /\ Level(current[d]) # "CRITICAL"
Full(l)    == Len(queue[l]) >= MaxSize[l]
LastN(s, n) == SubSeq(s, IF Len(s) > n THEN Len(s) - n + 1 ELSE 1, Len(s))

\* The next event to dispatch: CRITICAL before HIGH before NORMAL before LOW.
Waiting == {l \in Levels : queue[l] # <<>>}
\* Mutant: the queues are looked at in another order.
RankNormalFirst == [CRITICAL |-> 0, HIGH |-> 2, NORMAL |-> 1, LOW |-> 3]
Rank    == [CRITICAL |-> 0, HIGH |-> 1, NORMAL |-> 2, LOW |-> 3]
NextLevel(l) == l \in Waiting /\ \A k \in Waiting : Rank[l] <= Rank[k]

\* list(self._subscriptions.values()), the ones that match; they are served in the
\* order of the list, and after the one being served come the others.
SubscribersOf(e) == {s \in Subscribers : e.kind \in Wants[s]}
Serving(d) == Min(todo[d])
Others(d)  == todo[d] \ {Serving(d)}

\* What publish leaves in the queue of a bounded level: the new event, and when
\* it was full system.queue_overflow, which is NORMAL.  In a NORMAL queue that is
\* full that one overflows it again, and again, until Python stops the recursion.
Overflows(n)    == [i \in 1 .. n |-> SysEvent("overflow")]
NormalAfter(s, es) == IF Len(s) < NormalMax THEN s \o es
                      ELSE LastN(s \o es \o Overflows(Depth - Len(es)), Len(s))
Appended(e) ==
    LET l == Level(e) IN
    IF l = "NORMAL" THEN [queue EXCEPT !["NORMAL"] = NormalAfter(@, <<e>>)]
    ELSE IF l = "LOW" /\ Full("LOW")
         THEN [queue EXCEPT !["LOW"] = Append(Tail(@), e),
                            !["NORMAL"] = NormalAfter(@, <<SysEvent("overflow")>>)]
         ELSE [queue EXCEPT ![l] = Append(@, e)]

\* Mutants: the interrupted event is forgotten, or goes to the back.
RequeuedNowhere(e) == queue
RequeuedLast(e)    == [queue EXCEPT ![Level(e)] = Append(@, e)]

\* _requeue_front: whatever the size of the queue is.
Requeued(e)   == [queue EXCEPT ![Level(e)] = <<e>> \o @]

\* _critical_arrived after a pop that leaves the queues q.
StillCritical(q) == critical /\ q["CRITICAL"] # <<>>

Members(q)    == UNION {{q[l][i] : i \in DOMAIN q[l]} : l \in Levels}
DroppedBy(q)  == {e.n : e \in Members(queue) \ Members(q)} \ {0}
FateWith(ns, what) == [n \in Serial |-> IF n \in ns THEN what ELSE fate[n]]

\* The first handler of rest starts on event e; with none left the dispatcher is idle.
Serve(d, e, rest) ==
    /\ current' = [current EXCEPT ![d] = IF rest = {} THEN NoEvent ELSE e]
    /\ todo' = [todo EXCEPT ![d] = rest]
    /\ age' = [age EXCEPT ![d] = 0]
    /\ reported' = FALSE
    /\ IF rest = {}
         THEN /\ mode' = [mode EXCEPT ![d] = "idle"]
              /\ watched' = NoTime
         ELSE /\ mode' = [mode EXCEPT ![d] = "running"]
              /\ watched' = 0

-----------------------------------------------------------------------------
Init ==
    /\ queue    = [l \in Levels |-> <<>>]
    /\ critical = FALSE
    /\ blocked  = {}
    /\ mode     = [d \in Dispatchers |-> IF d = "run" THEN "idle" ELSE "off"]
    /\ current  = [d \in Dispatchers |-> NoEvent]
    /\ todo     = [d \in Dispatchers |-> {}]
    /\ age      = [d \in Dispatchers |-> 0]
    /\ watched  = NoTime
    /\ reported = FALSE
    /\ watchdog = "awake"
    /\ stopped  = FALSE
    /\ made     = 0
    /\ fate     = [n \in Serial |-> "none"]
    /\ waited   = 0

\* publish, when the event is accepted at once.
Accept(e) ==
    /\ queue' = Appended(e)
    /\ critical' = (critical \/ Level(e) = "CRITICAL")
    /\ fate' = [FateWith(DroppedBy(queue'), "dropped")
                   EXCEPT ![e.n] = IF e \in Members(queue') THEN "accepted" ELSE "dropped"]

Publish(kind, owner) ==
    /\ made + Cardinality(blocked) < MaxEvents
    /\ LET e == [kind |-> kind, n |-> made + 1] IN
       \/ /\ ~(Level(e) = "HIGH" /\ Full("HIGH"))
          /\ made' = made + 1
          /\ Accept(e)
          /\ UNCHANGED blocked
       \/ /\ Level(e) = "HIGH" /\ Full("HIGH")
          /\ blocked' = blocked \union {[kind |-> kind, owner |-> owner]}
          /\ UNCHANGED <<queue, critical, made, fate>>
    /\ UNCHANGED <<mode, current, todo, age, watched, reported, watchdog, stopped, waited>>

\* A task of a module publishes, or the handler a dispatcher is running does.
TaskPublishes(kind) ==
    ~(\E b \in blocked : b.owner = "task") /\ Publish(kind, "task")

HandlerPublishes(d, kind) ==
    /\ Running(d) /\ ~Blocked(d)
    /\ kind \in Emits[Serving(d)]
    /\ Publish(kind, d)

\* Mutant: _pop_next notifies nobody.
PublishNeverResumes(b) == FALSE /\ UNCHANGED vars

\* The HIGH queue has room again: a suspended publish goes through.
PublishResumes(b) ==
    /\ b \in blocked /\ ~Full("HIGH")
    /\ blocked' = blocked \ {b}
    /\ made' = made + 1
    /\ Accept([kind |-> b.kind, n |-> made + 1])
    /\ UNCHANGED <<mode, current, todo, age, watched, reported, watchdog, stopped, waited>>

\* _pop_next and the start of _dispatch: nothing gives way in between.
Pop(d) ==
    /\ mode[d] = "idle"
    /\ \E l \in Levels :
          LET e == Head(queue[l]) IN
          /\ NextLevel(l)
          /\ queue' = [queue EXCEPT ![l] = Tail(@)]
          /\ critical' = StillCritical(queue')
          /\ IF SubscribersOf(e) = {}
               THEN /\ fate' = FateWith({e.n}, "ended")
                    /\ UNCHANGED <<mode, current, todo, age, watched, reported>>
               ELSE /\ Serve(d, e, SubscribersOf(e))
                    /\ UNCHANGED fate
          /\ waited' = IF l = "CRITICAL" THEN 0 ELSE waited
    /\ UNCHANGED <<blocked, watchdog, stopped, made>>

\* Mutant: run() does not look at _stopped again once it waits.
LeaveOnlyStop(d) ==
    /\ mode[d] = "idle" /\ Waiting = {} /\ stopped /\ d = "stop"
    /\ mode' = [mode EXCEPT ![d] = "over"]
    /\ watchdog' = "gone"
    /\ UNCHANGED <<queue, critical, blocked, current, todo, age, watched, reported,
                   stopped, made, fate, waited>>

\* _pop_next returns None: run() and stop() come to their end.
Leave(d) ==
    /\ mode[d] = "idle" /\ Waiting = {} /\ stopped
    /\ mode' = [mode EXCEPT ![d] = "over"]
    /\ watchdog' = "gone"
    /\ UNCHANGED <<queue, critical, blocked, current, todo, age, watched, reported,
                   stopped, made, fate, waited>>

Ended(d) == IF Others(d) # {} THEN fate ELSE FateWith({current[d].n}, "ended")

\* The handler is done; so is the event after its last one.
HandlerEnds(d) ==
    /\ Running(d) /\ ~Blocked(d) /\ age[d] >= Takes[Serving(d)]
    /\ Serve(d, current[d], Others(d))
    /\ fate' = Ended(d)
    /\ UNCHANGED <<queue, critical, blocked, watchdog, stopped, made, waited>>

\* Mutant: the fast path waits for the handler timeout.
InterruptibleLate(d) == Lesser(d) /\ critical /\ age[d] >= Timeout

Interruptible(d) == Lesser(d) /\ critical /\ age[d] >= FastPath

\* The fast path: the handler is cancelled and its event goes back to the front.
Interrupt(d) ==
    /\ Interruptible(d) /\ age[d] < Timeout
    /\ blocked' = {b \in blocked : b.owner # d}
    /\ queue' = Requeued(current[d])
    /\ Serve(d, NoEvent, {})
    /\ UNCHANGED <<critical, watchdog, stopped, made, fate, waited>>

\* The handler is cancelled for good, and system.handler_timeout is published.
\* When that overflows the NORMAL queue the exception ends the dispatcher.
HandlerTimesOut(d) ==
    /\ Running(d) /\ age[d] >= Timeout
    /\ blocked' = {b \in blocked : b.owner # d}
    /\ queue' = Appended(SysEvent("handler_timeout"))
    /\ IF Full("NORMAL")
         THEN /\ mode' = [mode EXCEPT ![d] = "dead"]
              /\ watchdog' = IF d = "run" THEN "gone" ELSE watchdog
              /\ watched' = NoTime
              /\ reported' = FALSE
              /\ fate' = FateWith(DroppedBy(queue'), "dropped")
              /\ UNCHANGED <<current, todo, age>>
         ELSE /\ Serve(d, current[d], Others(d))
              /\ fate' = Ended(d)
              /\ UNCHANGED watchdog
    /\ UNCHANGED <<critical, stopped, made, waited>>

Stalled == watched >= Stall /\ ~reported

\* _safety_watchdog: one CRITICAL event for a handler that runs too long.  After
\* stop() the task makes one check more.
WatchdogReports ==
    /\ watchdog = "awake" /\ Stalled
    /\ reported' = TRUE
    /\ queue' = [queue EXCEPT !["CRITICAL"] = Append(@, SysEvent("watchdog"))]
    /\ critical' = TRUE
    /\ watchdog' = IF stopped THEN "gone" ELSE "awake"
    /\ UNCHANGED <<blocked, mode, current, todo, age, watched, stopped, made, fate, waited>>

WatchdogEnds ==
    /\ watchdog = "awake" /\ stopped /\ ~Stalled
    /\ watchdog' = "gone"
    /\ UNCHANGED <<queue, critical, blocked, mode, current, todo, age, watched, reported,
                   stopped, made, fate, waited>>

\* stop(): run() is told to end, and a second dispatcher drains the queues.
Stop ==
    /\ Stops /\ ~stopped
    /\ stopped' = TRUE
    /\ mode' = [mode EXCEPT !["stop"] = "idle"]
    /\ UNCHANGED <<queue, critical, blocked, current, todo, age, watched, reported,
                   watchdog, made, fate, waited>>

\* Time passes when nothing is due.
Due(d) == \/ mode[d] = "idle" /\ (Waiting # {} \/ stopped)
          \/ Interruptible(d)
          \/ Running(d) /\ (age[d] >= Timeout
                            \/ (~Blocked(d) /\ age[d] >= Takes[Serving(d)]))

Tick ==
    /\ \E d \in Dispatchers : Running(d)
    /\ \A d \in Dispatchers : ~Due(d)
    /\ blocked = {} \/ Full("HIGH")
    /\ ~(watchdog = "awake" /\ Stalled)
    /\ age' = [d \in Dispatchers |-> IF Running(d) THEN age[d] + 1 ELSE age[d]]
    /\ watched' = IF watched = NoTime THEN NoTime ELSE watched + 1
    /\ waited' = IF critical /\ \E d \in Dispatchers : Lesser(d) THEN waited + 1 ELSE waited
    /\ UNCHANGED <<queue, critical, blocked, mode, current, todo, reported, watchdog,
                   stopped, made, fate>>

-----------------------------------------------------------------------------
Dispatch(d) == \/ Pop(d) \/ Leave(d) \/ HandlerEnds(d)
               \/ Interrupt(d) \/ HandlerTimesOut(d)

Next ==
    \/ \E kind \in Kinds : TaskPublishes(kind)
    \/ \E d \in Dispatchers, kind \in Kinds : HandlerPublishes(d, kind)
    \/ \E b \in blocked : PublishResumes(b)
    \/ \E d \in Dispatchers : Dispatch(d)
    \/ WatchdogReports \/ WatchdogEnds \/ Stop \/ Tick

Spec == Init /\ [][Next]_vars

\* The asyncio loop runs whatever is ready, and the clock goes on.
Fairness ==
    /\ \A d \in Dispatchers : WF_vars(Dispatch(d))
    /\ WF_vars(\E b \in blocked : PublishResumes(b))
    /\ WF_vars(WatchdogReports)
    /\ WF_vars(Tick)

FairSpec == Spec /\ Fairness

-----------------------------------------------------------------------------
Fates == {"none", "accepted", "dropped", "ended"}
TypeOK ==
    /\ queue    \in [Levels -> Seq(Events)]
    /\ \A l \in Levels : \A i \in DOMAIN queue[l] : Level(queue[l][i]) = l
    /\ critical \in BOOLEAN
    /\ blocked  \subseteq [kind : Kinds, owner : Dispatchers \union {"task"}]
    /\ mode     \in [Dispatchers -> {"off", "idle", "running", "over", "dead"}]
    /\ current  \in [Dispatchers -> Events \union {NoEvent}]
    /\ todo     \in [Dispatchers -> SUBSET Subscribers]
    /\ \A d \in Dispatchers : Running(d) => todo[d] # {} /\ current[d] # NoEvent
    /\ age      \in [Dispatchers -> 0 .. Timeout]
    /\ watched  \in {NoTime} \union 0 .. Timeout
    /\ reported \in BOOLEAN
    /\ watchdog \in {"awake", "gone"}
    /\ stopped  \in BOOLEAN
    /\ made     \in 0 .. MaxEvents
    /\ fate     \in [Serial -> Fates]
    /\ waited   \in Nat

-----------------------------------------------------------------------------
\* _critical_arrived is set exactly while a CRITICAL event is queued: it is never
\* cleared under a second one, and never left set to interrupt handlers for nothing.
CriticalFlag == critical <=> queue["CRITICAL"] # <<>>

\* A CRITICAL event waits behind one lesser event for at most the fast path of
\* each of its handlers, however slow they are.
CriticalSoon == waited <= FastPath * Cardinality(Subscribers)

Held == Members(queue) \union {current[d] : d \in Dispatchers}

\* An accepted event stays queued or in dispatch until its dispatch ends; only a
\* full NORMAL or LOW queue drops one, unless a dispatcher dies with it.
NothingVanishes ==
    [][\A e \in Held : e.n # 0 =>
          \/ e \in Held' \/ fate'[e.n] = "ended"
          \/ Level(e) \in Bounded /\ fate'[e.n] = "dropped"]_vars

\* Events of one priority are dispatched in the order they were accepted, those
\* the fast path put back included.
OrderKept ==
    \A l \in Levels : \A i \in DOMAIN queue[l] :
        queue[l][i].n # 0 =>
            /\ \A j \in DOMAIN queue[l] : j < i => queue[l][j].n < queue[l][i].n
            /\ \A d \in Dispatchers : (Running(d) /\ Level(current[d]) = l)
                                          => current[d].n < queue[l][i].n

\* The events modules publish are delivered as PriorityDelivery says: the most urgent
\* first, by one dispatcher at a time, to all of their subscribers, in the order they
\* were accepted until stop() is called, and none is lost but the oldest of a full
\* NORMAL or LOW queue.  What the bus itself publishes is hidden, and so are the time
\* that passes and the publishes that wait.
Numbered == {e \in Events : e.n # 0}
Urgency  == [CRITICAL |-> 0, HIGH |-> 1, NORMAL |-> 2, LOW |-> 3]
Shown(d) == current[d].n # 0
Delivery == INSTANCE PriorityDelivery WITH
                Items     <- Numbered,
                Tier      <- [e \in Numbered |-> Urgency[Level(e)]],
                Droppable <- {e \in Numbered : Level(e) \in Bounded},
                Audience  <- [e \in Numbered |-> SubscribersOf(e)],
                Servers   <- Dispatchers,
                Nothing   <- NoEvent,
                open      <- {e \in Held : e.n # 0},
                serving   <- [d \in Dispatchers |-> IF Shown(d) THEN current[d] ELSE NoEvent],
                left      <- [d \in Dispatchers |-> IF Shown(d) THEN todo[d] ELSE {}],
                over      <- {n \in Serial : fate[n] = "ended"},
                closed    <- stopped
DeliverySpec == Delivery!Spec

\* The dispatch of every event accepted before stop() ends, unless a full queue
\* drops it: stop() loses nothing of what was queued when it was called.
EventEnds == \A n \in Serial : (fate[n] = "accepted" /\ ~stopped) ~> (fate[n] # "accepted")

\* A publish that waits for room in the HIGH queue does not wait for ever, even
\* when the handler of a lesser event is the one that waits, or stop() is called.
PublishEnds == \A o \in Dispatchers \union {"task"} :
                  (~stopped /\ \E b \in blocked : b.owner = o) ~> ~(\E b \in blocked : b.owner = o)

\* stop() returns, and so does run().
StopEnds == stopped ~> \A d \in Dispatchers : mode[d] \in {"over", "dead"}
=============================================================================
