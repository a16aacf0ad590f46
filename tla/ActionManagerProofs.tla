------------------------- MODULE ActionManagerProofs -------------------------
(***************************************************************************)
(* Theorems about ActionManager for every number of actions, every set of  *)
(* resources and every bound.                                              *)
(***************************************************************************)
EXTENDS ActionManager, FiniteSetTheorems, SequenceTheorems, TLAPS

By == {"handler", "task"}

\* The elements of a continuation are operations of the manager.
LEMMA OpsType ==
    /\ \A name \in OpNames, a \in ActionId : Op(name, a) \in Ops
    /\ \A a \in 0 .. MaxActions, n \in 0 .. MaxActions : Scan(a, n) \in Ops
    /\ \A s \in Seq(Ops), by \in By : Then(by, s) \in Conts
BY ConstantsAssumption DEF Op, Ops, Scan, OpNames, Then, Conts, Idle, By

\* What publishing leaves in events, cont and parked is well typed.
LEMMA PublishType ==
    ASSUME TypeOK, NEW event \in EventTypes, NEW a \in ActionId, NEW level,
           NEW by \in By, NEW todo \in Seq(Ops),
           Publish(event, a, level, by, todo)
    PROVE  /\ events' \in [ActionId -> SUBSET Requested]
           /\ cont' \in Conts
           /\ parked' \subseteq Parked
<1>1. CASE parked' = parked /\ events' = Accepted(event, a) /\ cont' = Then(by, todo)
  BY <1>1, OpsType DEF TypeOK, Accepted, Requested
<1>2. CASE /\ parked' = parked \union {[event |-> event, id |-> a, by |-> by, todo |-> todo]}
           /\ cont' = Idle /\ events' = events
  <2>1. [event |-> event, id |-> a, by |-> by, todo |-> todo] \in Parked
    BY DEF Parked, By
  <2>2. Idle \in Conts
    BY DEF Idle, Conts
  <2> QED BY <1>2, <2>1, <2>2 DEF TypeOK
<1> QED BY <1>1, <1>2 DEF Publish

TimerInv == TypeOK /\ SlotIsLive

\* Setting one count leaves all the others as they were.
LEMMA CountingType ==
    ASSUME TypeOK, NEW a \in ActionId, NEW kind \in TimerKinds, NEW n \in Nat
    PROVE  /\ Counting(a, kind, n) \in [ActionId -> [TimerKinds -> Nat]]
           /\ Counting(a, kind, n)[a][kind] = n
           /\ \A b \in ActionId : b # a => Counting(a, kind, n)[b] = timers[b]
<1> DEFINE t == [timers[a] EXCEPT ![kind] = n]
<1>1. timers \in [ActionId -> [TimerKinds -> Nat]] /\ timers[a] \in [TimerKinds -> Nat]
  BY DEF TypeOK
<1>2. t \in [TimerKinds -> Nat] /\ t[kind] = n
  BY <1>1
<1>3. Counting(a, kind, n) = [timers EXCEPT ![a] = t]
  BY DEF Counting
<1> HIDE DEF t
<1> QED BY <1>1, <1>2, <1>3

SlotType == slot \in [ActionId -> TimerKinds \union {NoTimer}]
TimersType == timers \in [ActionId -> [TimerKinds -> Nat]]

\* Emptying the slot of an action whose count changed keeps the slots live.
LEMMA EmptySlot ==
    ASSUME TimerInv, NEW a \in ActionId, slot' = [slot EXCEPT ![a] = NoTimer],
           \A b \in ActionId : b # a => timers'[b] = timers[b]
    PROVE  SlotType' /\ SlotIsLive'
<1>1. SlotType' /\ slot'[a] = NoTimer /\ \A b \in ActionId : b # a => slot'[b] = slot[b]
  BY DEF TimerInv, TypeOK, SlotType
<1> QED BY <1>1 DEF TimerInv, SlotIsLive

\* Cancelling takes a running timer away: the slot names no other.
LEMMA CancelTimeoutType ==
    ASSUME TimerInv, NEW a \in ActionId, CancelTimeout(a)
    PROVE  SlotType' /\ TimersType' /\ SlotIsLive'
<1>1. CASE slot[a] = NoTimer
  BY <1>1, EmptySlot DEF TimerInv, TypeOK, CancelTimeout, TimersType
<1>2. CASE slot[a] # NoTimer
  <2>1. slot[a] \in TimerKinds /\ timers[a][slot[a]] \in Nat /\ timers[a][slot[a]] > 0
    BY <1>2 DEF TimerInv, TypeOK, SlotIsLive
  <2>2. timers' = Counting(a, slot[a], timers[a][slot[a]] - 1)
    BY <1>2 DEF CancelTimeout
  <2>3. timers[a][slot[a]] - 1 \in Nat
    BY <2>1
  <2>4. TimersType' /\ \A b \in ActionId : b # a => timers'[b] = timers[b]
    BY <2>1, <2>2, <2>3, CountingType DEF TimersType, TimerInv
  <2> QED BY <2>4, EmptySlot DEF CancelTimeout
<1> QED BY <1>1, <1>2

\* A timer that fires was running.
LEMMA TimerFiresType ==
    ASSUME TimerInv, NEW a \in ActionId, NEW kind \in TimerKinds, TimerFires(a, kind)
    PROVE  SlotType' /\ TimersType' /\ SlotIsLive'
<1>1. timers[a][kind] - 1 \in Nat
  BY DEF TimerInv, TypeOK, TimerFires
<1>2. TimersType' /\ \A b \in ActionId : b # a => timers'[b] = timers[b]
  BY <1>1, CountingType DEF TimersType, TimerInv, TimerFires
<1> QED BY <1>2, EmptySlot DEF TimerFires

\* The common body of the terminal transitions keeps the types of what it changes.
LEMMA FinishType ==
    ASSUME TypeOK, NEW a \in ActionId, NEW final \in Terminal, NEW event \in EventTypes,
           NEW by \in By, NEW todo \in Seq(Ops),
           Finish(a, final, event, by, todo),
           SlotType', TimersType'
    PROVE  TypeOK'
<1>1. <<Op("start_waiting", a)>> \o todo \in Seq(Ops)
  BY OpsType DEF OpNames
<1>2. /\ events' \in [ActionId -> SUBSET Requested]
      /\ cont' \in Conts
      /\ parked' \subseteq Parked
  BY <1>1, PublishType DEF Finish
<1> QED BY <1>2 DEF Finish, TypeOK, Released, Status, Terminal, SlotType, TimersType

\* The operations of a running coroutine are well typed, and so is what is left.
LEMMA TodoType ==
    ASSUME TypeOK, cont.todo # <<>>
    PROVE  /\ Head(cont.todo) \in Ops
           /\ \A name \in OpNames : Doing(name) => Target \in ActionId
           /\ Head(cont.todo).size \in 0 .. MaxActions
           /\ Rest \in Seq(Ops) /\ cont.by \in By
           /\ Then(cont.by, Rest) \in Conts /\ Idle \in Conts
<1>1. cont.todo \in Seq(Ops) /\ cont.by \in By
  BY DEF TypeOK, Conts, By
<1>2. Head(cont.todo) \in Ops /\ Rest \in Seq(Ops)
  BY <1>1 DEF Rest
<1>3. Then(cont.by, Rest) \in Conts
  BY <1>1, <1>2, OpsType
<1>4. Idle \in Conts
  BY DEF Idle, Conts
<1>5. \A name \in OpNames : Doing(name) => Target \in ActionId
  BY <1>2 DEF Ops, Target, Doing, OpNames, TimerKinds
<1>6. Head(cont.todo).size \in 0 .. MaxActions
  BY <1>2, ConstantsAssumption DEF Ops
<1> QED BY <1>1, <1>2, <1>3, <1>4, <1>5, <1>6

\* An ordering of a set of actions is a list of actions.
LEMMA OrderingsType ==
    ASSUME NEW S \in SUBSET ActionId, NEW s \in Orderings(S)
    PROVE  s \in Seq(ActionId)
<1>1. ActionId \in SUBSET Int /\ IsFiniteSet(ActionId)
  BY FS_Interval, ConstantsAssumption DEF ActionId
<1>2. IsFiniteSet(S) /\ Cardinality(S) \in Nat
  BY <1>1, FS_Subset, FS_CardinalityType
<1> QED BY <1>2 DEF Orderings

\* Requests, whether they run at once or wait, keep the types.
LEMMA RequestsType == ASSUME TimerInv, Requests PROVE TimerInv'
<1>1. PICK a \in ActionId, r \in Resources \union {NoResource}, p \in Priorities, by \in Callers :
        RequestRunning(a, r, p, by) \/ (r \in Resources /\ RequestWaiting(a, r, p, by))
  BY DEF Requests
<1>2. p \in Levels /\ by \in By
  BY ConstantsAssumption DEF By
<1>3. CASE RequestRunning(a, r, p, by)
  <2>1. /\ events' \in [ActionId -> SUBSET Requested]
        /\ cont' \in Conts /\ parked' \subseteq Parked
    <3>1. <<>> \in Seq(Ops) /\ "started" \in EventTypes
      BY DEF EventTypes, Requested
    <3> QED BY <1>2, <1>3, <3>1, PublishType DEF RequestRunning, TimerInv
  <2> QED BY <1>2, <1>3, <2>1
       DEF RequestRunning, TimerInv, TypeOK, SlotIsLive, Status, Active, Info, Lock
<1>4. CASE r \in Resources /\ RequestWaiting(a, r, p, by)
  <2>1. locks[r] \in ActionId
    BY <1>4 DEF RequestWaiting, ResourceIsOccupied, TimerInv, TypeOK
  <2>2. <<Op("wait", a)>> \in Seq(Ops)
    BY OpsType DEF OpNames, TimerKinds
  <2>3. /\ events' \in [ActionId -> SUBSET Requested]
        /\ cont' \in Conts /\ parked' \subseteq Parked
    BY <1>2, <1>4, <2>1, <2>2, PublishType DEF RequestWaiting, TimerInv, EventTypes, Requested
  <2> QED BY <1>2, <1>4, <2>1, <2>3
       DEF RequestWaiting, TimerInv, TypeOK, SlotIsLive, Status, Active, Info
<1> QED BY <1>1, <1>3, <1>4

\* A call that cancels the timer and finishes an action keeps the types.
LEMMA FinishStep ==
    ASSUME TimerInv, NEW a \in ActionId, NEW final \in Terminal, NEW event \in EventTypes,
           NEW by \in By, NEW todo \in Seq(Ops),
           CancelTimeout(a), Finish(a, final, event, by, todo)
    PROVE  TimerInv'
BY CancelTimeoutType, FinishType DEF TimerInv

LEMMA ModuleCallsType == ASSUME TimerInv, ModuleCalls PROVE TimerInv'
<1>1. PICK a \in ActionId, by \in Callers :
         \/ CompleteAction(a, by) \/ FailAction(a, by)
         \/ MarkCancelled(a, by) \/ MarkPreempted(a, by)
  BY DEF ModuleCalls
<1>2. by \in By /\ <<>> \in Seq(Ops)
  BY ConstantsAssumption DEF By
<1> QED BY <1>1, <1>2, FinishStep
     DEF CompleteAction, FailAction, MarkCancelled, MarkPreempted, Terminal, EventTypes

LEMMA ControlCallsType == ASSUME TimerInv, ControlCalls PROVE TimerInv'
<1>1. PICK a \in ActionId : CancelAction(a) \/ MarkDetached(a)
  BY DEF ControlCalls
<1>2. CASE CancelAction(a)
  <2>1. <<Op("cancel", a)>> \in Seq(Ops)
    BY OpsType DEF OpNames, TimerKinds
  <2>2. /\ events' \in [ActionId -> SUBSET Requested]
        /\ cont' \in Conts /\ parked' \subseteq Parked
    BY <1>2, <2>1, PublishType DEF CancelAction, TimerInv, EventTypes, Requested, By
  <2> QED BY <1>2, <2>2 DEF CancelAction, TimerInv, TypeOK, SlotIsLive
<1>3. CASE MarkDetached(a)
  <2>1. /\ events' \in [ActionId -> SUBSET Requested]
        /\ cont' \in Conts /\ parked' \subseteq Parked
    <3>1. <<>> \in Seq(Ops) /\ "detached" \in EventTypes
      BY DEF EventTypes
    <3> QED BY <1>3, <3>1, PublishType DEF MarkDetached, TimerInv, By
  <2> QED BY <1>3, <2>1 DEF MarkDetached, TimerInv, TypeOK, SlotIsLive, Status, Active
<1> QED BY <1>1, <1>2, <1>3

\* A list of operations of one kind, one for each element of an ordering.
LEMMA OpListType ==
    ASSUME NEW s \in Seq(ActionId), NEW name \in OpNames
    PROVE  [i \in DOMAIN s |-> Op(name, s[i])] \in Seq(Ops)
<1>1. \A i \in 1 .. Len(s) : Op(name, s[i]) \in Ops
  BY OpsType
<1> QED BY <1>1

\* The last elements of a list of actions are a list of actions.
LEMMA LastNType ==
    ASSUME NEW s \in Seq(ActionId), NEW n \in Nat
    PROVE  LastN(s, n) \in Seq(ActionId)
<1> DEFINE from == IF Len(s) > n THEN Len(s) - n + 1 ELSE 1
<1>1. from \in 1 .. Len(s) + 1
  OBVIOUS
<1>2. \A i \in from .. Len(s) : s[i] \in ActionId
  BY <1>1
<1>3. SubSeq(s, from, Len(s)) \in Seq(ActionId)
  BY <1>1
<1> QED BY <1>3 DEF LastN

\* The kernel's own calls keep the types.
LEMMA KernelCallsType == ASSUME TimerInv, KernelCalls PROVE TimerInv'
<1> USE DEF TimerInv
<1>1. CASE Preempt
  <2>1. KnownIds \subseteq ActionId
    BY DEF KnownIds
  <2>2. Cardinality(KnownIds) \in 0 .. MaxActions
    <3>1. IsFiniteSet(ActionId) /\ Cardinality(ActionId) <= MaxActions
      BY FS_Interval, ConstantsAssumption DEF ActionId
    <3>2. IsFiniteSet(KnownIds) /\ Cardinality(KnownIds) <= Cardinality(ActionId)
      BY <2>1, <3>1, FS_Subset
    <3>3. Cardinality(KnownIds) \in Nat /\ Cardinality(ActionId) \in Nat
      BY <3>1, <3>2, FS_CardinalityType
    <3> QED BY <3>1, <3>2, <3>3, ConstantsAssumption
  <2>3. <<Scan(NoAction, Cardinality(KnownIds))>> \in Seq(Ops)
    BY <2>2, OpsType, ConstantsAssumption DEF NoAction
  <2>4. cont' \in Conts
    BY <1>1, <2>3, OpsType DEF Preempt, By
  <2> QED BY <1>1, <2>4 DEF Preempt, TypeOK, SlotIsLive
<1>2. ASSUME NEW r \in Resources, HealthUnavailable(r) PROVE TimerInv'
  <2> DEFINE S == {a \in ActionId : status[a] \in Active /\ info[a].resource = r}
  <2>1. PICK s \in Orderings(S) : cont' = Then("handler", [i \in DOMAIN s |-> Op("fail", s[i])])
    BY <1>2 DEF HealthUnavailable
  <2>2. [i \in DOMAIN s |-> Op("fail", s[i])] \in Seq(Ops)
    BY OrderingsType, OpListType DEF OpNames
  <2>3. cont' \in Conts
    BY <2>1, <2>2, OpsType DEF By
  <2> QED BY <1>2, <2>3 DEF HealthUnavailable, TypeOK, SlotIsLive
<1>3. ASSUME NEW a \in ActionId, ActionActivity(a) PROVE TimerInv'
  BY <1>3 DEF ActionActivity, TypeOK, SlotIsLive
<1>4. ASSUME NEW S \in SUBSET Orphans, FailOrphans(S) PROVE TimerInv'
  <2>1. PICK s \in Orderings(S) : cont' = Then("task", [i \in DOMAIN s |-> Op("orphan_fail", s[i])])
    BY <1>4 DEF FailOrphans
  <2>2. S \subseteq ActionId
    BY DEF Orphans
  <2>3. [i \in DOMAIN s |-> Op("orphan_fail", s[i])] \in Seq(Ops)
    BY <2>2, OrderingsType, OpListType DEF OpNames
  <2>4. cont' \in Conts
    BY <2>1, <2>3, OpsType DEF By
  <2> QED BY <1>4, <2>4 DEF FailOrphans, TypeOK, SlotIsLive
<1>5. ASSUME NEW S \in SUBSET {a \in ActionId : status[a] \in Terminal}, PruneTerminal(S)
      PROVE  TimerInv'
  <2>1. PICK s \in Orderings(S) : recent' = LastN(recent \o s, RecentMaxLen)
    BY <1>5 DEF PruneTerminal
  <2>2. recent' \in Seq(ActionId)
    <3>1. recent \in Seq(ActionId)
      BY DEF TypeOK
    <3>2. s \in Seq(ActionId)
      <4>1. {a \in ActionId : status[a] \in Terminal} \subseteq ActionId
        OBVIOUS
      <4> QED BY <4>1, OrderingsType
    <3>3. recent \o s \in Seq(ActionId)
      BY <3>1, <3>2
    <3> QED BY <2>1, <3>3, LastNType, ConstantsAssumption
  <2> QED BY <1>5, <2>2 DEF PruneTerminal, TypeOK, SlotIsLive, Status
<1> QED BY <1>1, <1>2, <1>3, <1>4, <1>5 DEF KernelCalls

\* A timer that fires keeps the types, whether it still finds its action or not.
LEMMA TimeoutsType == ASSUME TimerInv, Timeouts PROVE TimerInv'
<1>1. PICK a \in ActionId : WaitTimeout(a) \/ CancelTimeoutExpires(a) \/ PreemptTimeout(a)
  BY DEF Timeouts
<1>2. <<>> \in Seq(Ops) /\ "task" \in By
  BY DEF By
<1>3. CASE WaitTimeout(a)
  <2>1. SlotType' /\ TimersType' /\ SlotIsLive'
    BY <1>3, TimerFiresType DEF WaitTimeout, TimerKinds
  <2>2. /\ events' \in [ActionId -> SUBSET Requested]
        /\ cont' \in Conts /\ parked' \subseteq Parked
    <3>1. CASE Publish("failed", a, info[a].priority, "task", <<>>)
      BY <3>1, <1>2, PublishType DEF TimerInv, EventTypes
    <3>2. CASE UNCHANGED <<events, cont, parked>>
      BY <3>2 DEF TimerInv, TypeOK
    <3> QED BY <1>3, <3>1, <3>2 DEF WaitTimeout
  <2>3. /\ status' \in [ActionId -> Status]
        /\ waiting' \in [ActionId -> ActionId \union {NoAction}]
    BY <1>3 DEF WaitTimeout, TimerInv, TypeOK, Status, Terminal
  <2> QED BY <1>3, <2>1, <2>2, <2>3
       DEF WaitTimeout, TimerInv, TypeOK, SlotType, TimersType
<1>4. CASE CancelTimeoutExpires(a)
  <2>1. SlotType' /\ TimersType' /\ SlotIsLive'
    BY <1>4, TimerFiresType DEF CancelTimeoutExpires, TimerKinds
  <2>2. CASE Finish(a, "CANCELLED", "cancelled", "task", <<>>)
    BY <1>2, <2>1, <2>2, FinishType DEF TimerInv, Terminal, EventTypes
  <2>3. CASE UNCHANGED <<status, info, touched, locks, waiting, recent, events, cont, parked>>
    BY <2>1, <2>3 DEF TimerInv, TypeOK, SlotType, TimersType
  <2> QED BY <1>4, <2>2, <2>3 DEF CancelTimeoutExpires
<1>5. CASE PreemptTimeout(a)
  <2>1. SlotType' /\ TimersType' /\ SlotIsLive'
    BY <1>5, TimerFiresType DEF PreemptTimeout, TimerKinds
  <2>2. CASE Finish(a, "PREEMPTED", "preempted", "task", <<>>)
    BY <1>2, <2>1, <2>2, FinishType DEF TimerInv, Terminal, EventTypes
  <2>3. CASE UNCHANGED <<status, info, touched, locks, waiting, recent, events, cont, parked>>
    BY <2>1, <2>3 DEF TimerInv, TypeOK, SlotType, TimersType
  <2> QED BY <1>5, <2>2, <2>3 DEF PreemptTimeout
<1> QED BY <1>1, <1>3, <1>4, <1>5

\* The bus lets a suspended publish through or drops it.
LEMMA BusStepsType == ASSUME TimerInv, BusSteps PROVE TimerInv'
<1>1. PICK p \in parked : ResumePublish(p) \/ DropPublish(p)
  BY DEF BusSteps
<1>2. p \in Parked
  BY DEF TimerInv, TypeOK
<1>3. Then(p.by, p.todo) \in Conts
  BY <1>2, OpsType DEF Parked, By
<1>4. Accepted(p.event, p.id) \in [ActionId -> SUBSET Requested]
  BY <1>2 DEF TimerInv, TypeOK, Accepted, Parked
<1> QED BY <1>1, <1>3, <1>4 DEF ResumePublish, DropPublish, TimerInv, TypeOK, SlotIsLive

\* The waiter that is called exists, and its own timer is the one cancelled.
LEMMA WaiterCalledType ==
    ASSUME TimerInv, NEW w \in ActionId, WaiterCalled(w)
    PROVE  /\ SlotType' /\ TimersType' /\ SlotIsLive'
           /\ waiting' \in [ActionId -> ActionId \union {NoAction}]
           /\ Rest \in Seq(Ops) /\ cont.by \in By
<1>1. SlotType' /\ TimersType' /\ SlotIsLive'
  BY CancelTimeoutType DEF WaiterCalled
<1>2. Rest \in Seq(Ops) /\ cont.by \in By
  BY TodoType DEF WaiterCalled, Doing, TimerInv
<1> QED BY <1>1, <1>2 DEF WaiterCalled, TimerInv, TypeOK

\* Every step of the coroutine that holds the loop keeps the types.
LEMMA ContinueType == ASSUME TimerInv, Continue PROVE TimerInv'
<1>0. cont.todo # <<>>
  BY DEF Continue, NoWaiter, FailCrashed, FailOrphan, SkipFail, PreemptEnds, WaiterStarts,
         WaiterFindsBusy, WaiterCalled, PreemptNext, StartTimer, Doing
<1>1. /\ \A name \in OpNames : Doing(name) => Target \in ActionId
      /\ Rest \in Seq(Ops) /\ cont.by \in By
      /\ Then(cont.by, Rest) \in Conts /\ Idle \in Conts
      /\ Head(cont.todo).size \in 0 .. MaxActions
  BY <1>0, TodoType DEF TimerInv
<1>2. CASE NoWaiter
  BY <1>1, <1>2 DEF NoWaiter, TimerInv, TypeOK, SlotIsLive
<1>3. CASE FailCrashed
  BY <1>1, <1>3, FinishStep DEF FailCrashed, OpNames, Terminal, EventTypes
<1>4. CASE FailOrphan
  BY <1>1, <1>4, FinishStep DEF FailOrphan, OpNames, Terminal, EventTypes
<1>5. CASE SkipFail
  BY <1>1, <1>5 DEF SkipFail, TimerInv, TypeOK, SlotIsLive
<1>6. CASE PreemptEnds
  BY <1>1, <1>6 DEF PreemptEnds, TimerInv, TypeOK, SlotIsLive
<1>7. ASSUME NEW w \in ActionId, WaiterStarts(w) PROVE TimerInv'
  <2>1. WaiterCalled(w)
    BY <1>7 DEF WaiterStarts
  <2>2. /\ events' \in [ActionId -> SUBSET Requested]
        /\ cont' \in Conts /\ parked' \subseteq Parked
    BY <1>1, <1>7, PublishType DEF WaiterStarts, TimerInv, EventTypes, Requested
  <2>3. locks' \in [Resources -> ActionId \union {NoAction}]
    BY <1>7 DEF WaiterStarts, Lock, TimerInv, TypeOK
  <2> QED BY <1>7, <2>1, <2>2, <2>3, WaiterCalledType
       DEF WaiterStarts, WaiterCalled, TimerInv, TypeOK, SlotType, TimersType, Status, Active
<1>8. ASSUME NEW w \in ActionId, WaiterFindsBusy(w) PROVE TimerInv'
  <2>1. WaiterCalled(w)
    BY <1>8 DEF WaiterFindsBusy
  <2>2. /\ events' \in [ActionId -> SUBSET Requested]
        /\ cont' \in Conts /\ parked' \subseteq Parked
    BY <1>1, <1>8, PublishType DEF WaiterFindsBusy, TimerInv, EventTypes
  <2> QED BY <1>8, <2>1, <2>2, WaiterCalledType
       DEF WaiterFindsBusy, WaiterCalled, TimerInv, TypeOK, SlotType, TimersType, Status, Terminal
<1>9. ASSUME NEW a \in ActionId, PreemptNext(a) PROVE TimerInv'
  <2>1. <<Op("preempt", a), Scan(a, Head(cont.todo).size)>> \in Seq(Ops)
    <3>1. Op("preempt", a) \in Ops
      BY OpsType DEF OpNames, TimerKinds
    <3>2. Scan(a, Head(cont.todo).size) \in Ops
      BY <1>1, OpsType, ConstantsAssumption DEF ActionId
    <3> QED BY <3>1, <3>2
  <2>2. /\ events' \in [ActionId -> SUBSET Requested]
        /\ cont' \in Conts /\ parked' \subseteq Parked
    BY <1>1, <1>9, <2>1, PublishType DEF PreemptNext, TimerInv, EventTypes, Requested
  <2> QED BY <1>9, <2>2 DEF PreemptNext, TimerInv, TypeOK, SlotIsLive, Status, Active
<1>10. ASSUME NEW kind \in TimerKinds, StartTimer(kind) PROVE TimerInv'
  <2>1. Target \in ActionId
    BY <1>1, <1>10 DEF StartTimer, OpNames
  <2>2. timers[Target][kind] + 1 \in Nat /\ timers[Target][kind] + 1 > 0
    BY <2>1 DEF TimerInv, TypeOK
  <2>3. /\ TimersType' /\ timers'[Target][kind] > 0
        /\ \A b \in ActionId : b # Target => timers'[b] = timers[b]
    BY <1>10, <2>1, <2>2, CountingType DEF StartTimer, TimersType, TimerInv
  <2>4. /\ SlotType' /\ slot'[Target] = kind
        /\ \A b \in ActionId : b # Target => slot'[b] = slot[b]
    BY <1>10, <2>1 DEF StartTimer, SlotType, TimerInv, TypeOK
  <2>5. SlotIsLive'
    BY <2>3, <2>4 DEF SlotIsLive, TimerInv
  <2> QED BY <1>1, <1>10, <2>3, <2>4, <2>5 DEF StartTimer, TimerInv, TypeOK, SlotType, TimersType
<1> QED BY <1>2, <1>3, <1>4, <1>5, <1>6, <1>7, <1>8, <1>9, <1>10 DEF Continue

\* Every state is well typed and every slot of _timeout_tasks names a timer that
\* is running: _cancel_timeout never cancels a task that is over.
THEOREM TimersAreLive == Spec => [](TypeOK /\ SlotIsLive)
<1>1. Init => TimerInv
  BY ConstantsAssumption
     DEF Init, TimerInv, TypeOK, SlotIsLive, Status, Info, Levels, Idle, Conts
<1>2. TimerInv /\ [Next]_vars => TimerInv'
  <2>1. ASSUME TimerInv, Next PROVE TimerInv'
    BY <2>1, RequestsType, ModuleCallsType, ControlCallsType, KernelCallsType,
       TimeoutsType, ContinueType, BusStepsType DEF Next
  <2>2. ASSUME TimerInv, UNCHANGED vars PROVE TimerInv'
    BY <2>2 DEF vars, TimerInv, TypeOK, SlotIsLive
  <2> QED BY <2>1, <2>2
<1> QED BY <1>1, <1>2, PTL DEF Spec, TimerInv

-----------------------------------------------------------------------------
(***************************************************************************)
(* The locks.  StartedOwnsLock is not inductive alone: it needs that a     *)
(* lock never points at an action that is over, and that an action that    *)
(* still waits, or was never requested, was not announced to any module.   *)
(***************************************************************************)
AnnouncedBegan == \A a \in ActionId : Announced(a) => status[a] \notin {"absent", "WAITING_RESOURCE"}

LockInv == TimerInv /\ LockHolderActive /\ StartedOwnsLock /\ AnnouncedBegan

\* What an unannounced event changes for nobody, and action.started for one.
LEMMA PublishAnnounces ==
    ASSUME TypeOK, NEW event \in EventTypes, NEW a \in ActionId, NEW level, NEW by, NEW todo,
           Publish(event, a, level, by, todo)
    PROVE  \A b \in ActionId : Announced(b)' => Announced(b) \/ (b = a /\ event = "started")
<1>1. CASE events' = Accepted(event, a) /\ parked' = parked
  <2>1. \A b \in ActionId : "started" \in events'[b] =>
            "started" \in events[b] \/ (b = a /\ event = "started")
    BY <1>1 DEF Accepted, TypeOK
  <2> QED BY <1>1, <2>1 DEF Announced
<1>2. CASE /\ events' = events
           /\ parked' = parked \union {[event |-> event, id |-> a, by |-> by, todo |-> todo]}
  BY <1>2 DEF Announced
<1> QED BY <1>1, <1>2 DEF Publish

\* The facts about one step from which the lock invariant follows: info of an
\* action that exists does not change, nobody is announced anew, and whoever
\* is over afterwards has lost its lock.
LEMMA LockStep ==
    ASSUME LockInv, TimerInv',
           \A a \in ActionId : Announced(a)' => Announced(a),
           \A a \in ActionId : status[a] # "absent" => info'[a] = info[a],
           \A a \in ActionId : status[a] = "absent" => status'[a] \in {"absent", "WAITING_RESOURCE"},
           \A a \in ActionId : Announced(a) => status'[a] \notin {"absent", "WAITING_RESOURCE"},
           \A a \in ActionId : status'[a] \in Active /\ Announced(a) => status[a] \in Active,
           \A r \in Resources : locks'[r] \in {locks[r], NoAction},
           \A r \in Resources : locks[r] # NoAction =>
               (locks'[r] = locks[r] <=> status'[locks[r]] \in Active)
    PROVE  LockInv'
<1>1. LockHolderActive'
  <2>1. SUFFICES ASSUME NEW r \in Resources, locks'[r] # NoAction
                 PROVE  status'[locks'[r]] \in Active /\ info'[locks'[r]].resource = r
    BY DEF LockHolderActive
  <2>2. locks'[r] = locks[r] /\ locks[r] # NoAction /\ locks[r] \in ActionId
    BY <2>1 DEF LockInv, TimerInv, TypeOK
  <2>3. status'[locks[r]] \in Active
    BY <2>2
  <2>4. status[locks[r]] \in Active /\ info[locks[r]].resource = r
    BY <2>2 DEF LockInv, LockHolderActive
  <2>5. info'[locks[r]] = info[locks[r]]
    BY <2>2, <2>4 DEF Active
  <2> QED BY <2>2, <2>3, <2>4, <2>5
<1>2. StartedOwnsLock'
  <2>1. SUFFICES ASSUME NEW a \in ActionId, status'[a] \in Active, Exclusive(a)', Announced(a)'
                 PROVE  locks'[info'[a].resource] = a
    BY DEF StartedOwnsLock
  <2>2. Announced(a) /\ status[a] \in Active
    BY <2>1
  <2>3. info'[a] = info[a] /\ Exclusive(a)
    BY <2>1, <2>2 DEF Active, Exclusive
  <2>4. locks[info[a].resource] = a /\ a # NoAction
    BY <2>2, <2>3 DEF LockInv, StartedOwnsLock, ActionId, NoAction
  <2> QED BY <2>1, <2>3, <2>4 DEF Exclusive
<1>3. AnnouncedBegan'
  BY DEF LockInv, AnnouncedBegan
<1> QED BY <1>1, <1>2, <1>3 DEF LockInv

\* A step that touches neither a status, an action's info nor a lock.
LEMMA QuietStep ==
    ASSUME LockInv, TimerInv', UNCHANGED <<status, info, locks>>,
           \A a \in ActionId : Announced(a)' => Announced(a)
    PROVE  LockInv'
BY LockStep DEF LockInv, LockHolderActive, AnnouncedBegan

\* An action that ends gives its lock back, and no other lock moves.
LEMMA FinishLocks ==
    ASSUME LockInv, TimerInv', NEW a \in ActionId, Known(a),
           NEW final \in Terminal, NEW event \in EventTypes \ {"started"}, NEW by, NEW todo,
           Finish(a, final, event, by, todo)
    PROVE  LockInv'
<1>1. \A b \in ActionId : Announced(b)' => Announced(b)
  BY PublishAnnounces DEF Finish, LockInv, TimerInv
<1>2. \A b \in ActionId : status'[b] = IF b = a THEN final ELSE status[b]
  BY DEF Finish, LockInv, TimerInv, TypeOK
<1>3. \A r \in Resources : locks'[r] = IF locks[r] = a THEN NoAction ELSE locks[r]
  BY DEF Finish, Released, LockInv, LockHolderActive, ActionId, NoAction
<1>4. final \notin Active /\ final \notin {"absent", "WAITING_RESOURCE"}
  BY DEF Terminal, Active
<1>5. \A r \in Resources : locks[r] # NoAction =>
         locks[r] \in ActionId /\ status[locks[r]] \in Active
  BY DEF LockInv, LockHolderActive, TimerInv, TypeOK
<1>6. \A r \in Resources : locks[r] # NoAction =>
         (locks'[r] = locks[r] <=> status'[locks[r]] \in Active)
  BY <1>2, <1>3, <1>4, <1>5
<1>7. info' = info /\ status[a] # "absent"
  BY DEF Finish, Known
<1>8. \A b \in ActionId : Announced(b) => status[b] \notin {"absent", "WAITING_RESOURCE"}
  BY DEF LockInv, AnnouncedBegan
<1> QED BY <1>1, <1>2, <1>3, <1>4, <1>6, <1>7, <1>8, LockStep

\* A status that moves between active ones, or from waiting to a status that no
\* module knows of, leaves the locks right.
LEMMA StatusStep ==
    ASSUME LockInv, TimerInv', NEW a \in ActionId, NEW new \in Status,
           status' = [status EXCEPT ![a] = new], UNCHANGED <<info, locks>>,
           \/ status[a] \in Active /\ new \in Active
           \/ status[a] = "WAITING_RESOURCE" /\ new # "absent",
           \A b \in ActionId : Announced(b)' => Announced(b)
    PROVE  LockInv'
<1>1. \A b \in ActionId : status'[b] = IF b = a THEN new ELSE status[b]
  BY DEF LockInv, TimerInv, TypeOK
<1>2. \A b \in ActionId : Announced(b) => status[b] \notin {"absent", "WAITING_RESOURCE"}
  BY DEF LockInv, AnnouncedBegan
<1>3. \A r \in Resources : locks[r] # NoAction =>
         locks[r] \in ActionId /\ status[locks[r]] \in Active
  BY DEF LockInv, LockHolderActive, TimerInv, TypeOK
<1>4. \A r \in Resources : locks[r] # NoAction => status'[locks[r]] \in Active
  BY <1>1, <1>3 DEF Active
<1>5. \A b \in ActionId : Announced(b) => status'[b] \notin {"absent", "WAITING_RESOURCE"}
  BY <1>1, <1>2 DEF Active
<1>6. \A b \in ActionId : status'[b] \in Active /\ Announced(b) => status[b] \in Active
  BY <1>1, <1>2
<1>7. \A b \in ActionId : status[b] = "absent" => status'[b] = "absent"
  BY <1>1 DEF Active
<1> QED BY <1>4, <1>5, <1>6, <1>7, LockStep

LEMMA RequestsLocks == ASSUME LockInv, TimerInv', Requests PROVE LockInv'
<1>1. PICK a \in ActionId, r \in Resources \union {NoResource}, p \in Priorities, by \in Callers :
        RequestRunning(a, r, p, by) \/ (r \in Resources /\ RequestWaiting(a, r, p, by))
  BY DEF Requests
<1>2. TypeOK /\ status[a] = "absent" /\ ~Announced(a) /\ a # NoAction
  BY <1>1 DEF RequestRunning, RequestWaiting, Fresh, LockInv, TimerInv, AnnouncedBegan,
              ActionId, NoAction
<1>3. \A q \in Resources : locks[q] # NoAction =>
         locks[q] \in ActionId /\ status[locks[q]] \in Active /\ info[locks[q]].resource = q
  BY <1>2 DEF LockInv, LockHolderActive, TypeOK
<1>4. \A q \in Resources : locks[q] # a
  BY <1>2, <1>3 DEF Active
<1>5. CASE RequestRunning(a, r, p, by)
  <2>1. r \in Resources => locks[r] = NoAction
    BY <1>3, <1>5 DEF RequestRunning, ResourceIsOccupied
  <2>2. \A b \in ActionId : Announced(b)' => Announced(b) \/ b = a
    BY <1>2, <1>5, PublishAnnounces DEF RequestRunning, EventTypes, Requested
  <2>3. \A b \in ActionId : /\ status'[b] = IF b = a THEN "RUNNING" ELSE status[b]
                            /\ b # a => info'[b] = info[b]
    BY <1>2, <1>5 DEF RequestRunning, TypeOK
  <2>4. info'[a].resource = r
    BY <1>2, <1>5 DEF RequestRunning, TypeOK
  <2>5. \A q \in Resources : locks'[q] = IF q = r THEN a ELSE locks[q]
    BY <1>5 DEF RequestRunning, Lock
  <2>6. LockHolderActive'
    BY <1>3, <1>4, <2>3, <2>4, <2>5 DEF LockHolderActive, Active
  <2>7. StartedOwnsLock'
    <3>1. SUFFICES ASSUME NEW b \in ActionId, status'[b] \in Active, Exclusive(b)', Announced(b)'
                   PROVE  locks'[info'[b].resource] = b
      BY DEF StartedOwnsLock
    <3>2. CASE b = a
      BY <3>1, <3>2, <2>4, <2>5 DEF Exclusive
    <3>3. CASE b # a
      <4>1. status[b] \in Active /\ Announced(b) /\ info'[b] = info[b] /\ Exclusive(b)
        BY <3>1, <3>3, <2>2, <2>3 DEF Exclusive
      <4>2. locks[info[b].resource] = b /\ b # NoAction /\ info[b].resource \in Resources
        BY <4>1 DEF LockInv, StartedOwnsLock, Exclusive, ActionId, NoAction
      <4>3. info[b].resource # r
        BY <2>1, <4>2
      <4> QED BY <4>1, <4>2, <4>3, <2>5
    <3> QED BY <3>2, <3>3
  <2>8. AnnouncedBegan'
    BY <2>2, <2>3 DEF AnnouncedBegan, LockInv
  <2> QED BY <2>6, <2>7, <2>8 DEF LockInv
<1>6. CASE r \in Resources /\ RequestWaiting(a, r, p, by)
  <2>1. /\ locks[r] \in ActionId /\ status[locks[r]] \in Active
        /\ locks' = locks
        /\ status' = [status EXCEPT ![locks[r]] = "PREEMPTING", ![a] = "WAITING_RESOURCE"]
    BY <1>3, <1>6 DEF RequestWaiting, ResourceIsOccupied
  <2>2. \A b \in ActionId : Announced(b)' => Announced(b)
    BY <1>2, <1>6, <2>1, PublishAnnounces DEF RequestWaiting, EventTypes, Requested
  <2>3. \A b \in ActionId : /\ status'[b] = IF b = a THEN "WAITING_RESOURCE"
                                            ELSE IF b = locks[r] THEN "PREEMPTING" ELSE status[b]
                            /\ b # a => info'[b] = info[b]
    BY <1>2, <1>6, <2>1 DEF RequestWaiting, TypeOK
  <2>4. \A b \in ActionId : Announced(b) => b # a /\ status[b] \notin {"absent", "WAITING_RESOURCE"}
    BY <1>2 DEF LockInv, AnnouncedBegan
  <2>5. \A q \in Resources : locks[q] # NoAction => status'[locks[q]] \in Active
    BY <1>3, <1>4, <2>3 DEF Active
  <2>6. \A b \in ActionId : status'[b] \in Active /\ Announced(b) => status[b] \in Active
    BY <2>1, <2>3, <2>4
  <2>7. \A b \in ActionId : Announced(b) => status'[b] \notin {"absent", "WAITING_RESOURCE"}
    BY <2>3, <2>4
  <2>8. \A b \in ActionId : /\ status[b] # "absent" => info'[b] = info[b]
                            /\ status[b] = "absent" => status'[b] \in {"absent", "WAITING_RESOURCE"}
    BY <1>2, <2>1, <2>3 DEF Active
  <2> QED BY <2>1, <2>2, <2>5, <2>6, <2>7, <2>8, LockStep
<1> QED BY <1>1, <1>5, <1>6

LEMMA CallsLocks == ASSUME LockInv, TimerInv', ModuleCalls \/ ControlCalls PROVE LockInv'
<1>1. ASSUME NEW a \in ActionId, NEW by \in Callers,
             \/ CompleteAction(a, by) \/ FailAction(a, by)
             \/ MarkCancelled(a, by) \/ MarkPreempted(a, by)
      PROVE  LockInv'
  BY <1>1, FinishLocks DEF CompleteAction, FailAction, MarkCancelled, MarkPreempted,
                           Terminal, EventTypes, Requested
<1>2. ASSUME NEW a \in ActionId, CancelAction(a) PROVE LockInv'
  <2>1. \A b \in ActionId : Announced(b)' => Announced(b)
    BY <1>2, PublishAnnounces DEF CancelAction, EventTypes, Requested, LockInv, TimerInv
  <2> QED BY <1>2, <2>1, QuietStep DEF CancelAction
<1>3. ASSUME NEW a \in ActionId, MarkDetached(a) PROVE LockInv'
  <2>1. \A b \in ActionId : Announced(b)' => Announced(b)
    <3>1. TypeOK /\ "detached" \in EventTypes /\ "detached" # "started"
      BY DEF EventTypes, Requested, LockInv, TimerInv
    <3> QED BY <1>3, <3>1, PublishAnnounces DEF MarkDetached
  <2> QED BY <1>3, <2>1, StatusStep DEF MarkDetached, Status, Active
<1> QED BY <1>1, <1>2, <1>3 DEF ModuleCalls, ControlCalls

\* Pruning takes actions that are over away, and none of them holds a lock.
LEMMA PruneLocks ==
    ASSUME LockInv, TimerInv', NEW S \in SUBSET {a \in ActionId : status[a] \in Terminal},
           PruneTerminal(S)
    PROVE  LockInv'
<1>1. \A b \in ActionId : status'[b] = IF b \in S THEN "pruned" ELSE status[b]
  BY DEF PruneTerminal
<1>2. \A r \in Resources : locks[r] # NoAction =>
         locks[r] \in ActionId /\ status[locks[r]] \in Active
  BY DEF LockInv, LockHolderActive, TimerInv, TypeOK
<1>3. \A b \in S : b \in ActionId /\ status[b] \in Terminal
  OBVIOUS
<1>4. \A r \in Resources : locks[r] # NoAction => status'[locks[r]] = status[locks[r]]
  BY <1>1, <1>2, <1>3 DEF Active, Terminal
<1>5. \A r \in Resources : locks'[r] = locks[r]
  BY <1>2, <1>4 DEF PruneTerminal, Active
<1>6. \A b \in ActionId : Announced(b)' => Announced(b)
  BY DEF PruneTerminal, Announced
<1>7. \A b \in ActionId : Announced(b) => status[b] \notin {"absent", "WAITING_RESOURCE"}
  BY DEF LockInv, AnnouncedBegan
<1>8. \A b \in ActionId : status'[b] \in Active => status[b] \in Active
  BY <1>1 DEF Active
<1>9. \A b \in ActionId : status[b] = "absent" => status'[b] = "absent"
  BY <1>1, <1>3 DEF Terminal
<1>10. info' = info
  BY DEF PruneTerminal
<1> QED BY <1>1, <1>2, <1>4, <1>5, <1>6, <1>7, <1>8, <1>9, <1>10, LockStep

LEMMA KernelLocks == ASSUME LockInv, TimerInv', KernelCalls PROVE LockInv'
<1>1. CASE Preempt
  BY <1>1, QuietStep DEF Preempt, Announced
<1>2. ASSUME NEW r \in Resources, HealthUnavailable(r) PROVE LockInv'
  BY <1>2, QuietStep DEF HealthUnavailable, Announced
<1>3. ASSUME NEW a \in ActionId, ActionActivity(a) PROVE LockInv'
  BY <1>3, QuietStep DEF ActionActivity, Announced
<1>4. ASSUME NEW S \in SUBSET Orphans, FailOrphans(S) PROVE LockInv'
  BY <1>4, QuietStep DEF FailOrphans, Announced
<1> QED BY <1>1, <1>2, <1>3, <1>4, PruneLocks DEF KernelCalls

LEMMA TimeoutsLocks == ASSUME LockInv, TimerInv', Timeouts PROVE LockInv'
<1>1. ASSUME NEW a \in ActionId, WaitTimeout(a) PROVE LockInv'
  <2>1. CASE status[a] = "WAITING_RESOURCE" /\ Publish("failed", a, info[a].priority, "task", <<>>)
             /\ status' = [status EXCEPT ![a] = "FAILED"]
    <3>1. \A b \in ActionId : Announced(b)' => Announced(b)
      BY <2>1, PublishAnnounces DEF EventTypes, LockInv, TimerInv
    <3> QED BY <1>1, <2>1, <3>1, StatusStep DEF WaitTimeout, Status, Terminal
  <2>2. CASE UNCHANGED <<status, waiting, events, cont, parked>>
    BY <1>1, <2>2, QuietStep DEF WaitTimeout, Announced
  <2> QED BY <1>1, <2>1, <2>2 DEF WaitTimeout
<1>2. ASSUME NEW a \in ActionId, CancelTimeoutExpires(a) PROVE LockInv'
  <2>1. CASE status[a] \in Active /\ Finish(a, "CANCELLED", "cancelled", "task", <<>>)
    BY <2>1, FinishLocks DEF Active, Known, Terminal, EventTypes, Requested
  <2>2. CASE UNCHANGED <<status, info, touched, locks, waiting, recent, events, cont, parked>>
    BY <2>2, QuietStep DEF Announced
  <2> QED BY <1>2, <2>1, <2>2 DEF CancelTimeoutExpires
<1>3. ASSUME NEW a \in ActionId, PreemptTimeout(a) PROVE LockInv'
  <2>1. CASE status[a] = "PREEMPTING" /\ Finish(a, "PREEMPTED", "preempted", "task", <<>>)
    BY <2>1, FinishLocks DEF Known, Terminal, EventTypes, Requested
  <2>2. CASE UNCHANGED <<status, info, touched, locks, waiting, recent, events, cont, parked>>
    BY <2>2, QuietStep DEF Announced
  <2> QED BY <1>3, <2>1, <2>2 DEF PreemptTimeout
<1> QED BY <1>1, <1>2, <1>3 DEF Timeouts

\* A waiter that starts takes a free lock, and is announced only now.
LEMMA WaiterStartsLocks ==
    ASSUME LockInv, TimerInv', NEW w \in ActionId, WaiterStarts(w)
    PROVE  LockInv'
<1>1. /\ TypeOK /\ status[w] = "WAITING_RESOURCE" /\ w # NoAction
      /\ info' = info /\ locks[info[w].resource] = NoAction
  BY DEF WaiterStarts, WaiterCalled, Waits, LockInv, TimerInv, ActionId, NoAction
<1>2. \A b \in ActionId : Announced(b)' => Announced(b) \/ b = w
  BY <1>1, PublishAnnounces DEF WaiterStarts, EventTypes, Requested
<1>3. \A b \in ActionId : status'[b] = IF b = w THEN "RUNNING" ELSE status[b]
  BY <1>1 DEF WaiterStarts, TypeOK
<1>4. \A q \in Resources : locks'[q] = IF q = info[w].resource THEN w ELSE locks[q]
  BY DEF WaiterStarts, Lock
<1>5. \A q \in Resources : locks[q] # NoAction =>
         locks[q] \in ActionId /\ status[locks[q]] \in Active /\ info[locks[q]].resource = q
  BY <1>1 DEF LockInv, LockHolderActive, TypeOK
<1>6. LockHolderActive'
  BY <1>1, <1>3, <1>4, <1>5 DEF LockHolderActive, Active
<1>7. StartedOwnsLock'
  <2>1. SUFFICES ASSUME NEW b \in ActionId, status'[b] \in Active, Exclusive(b)', Announced(b)'
                 PROVE  locks'[info'[b].resource] = b
    BY DEF StartedOwnsLock
  <2>2. CASE b = w
    BY <2>1, <2>2, <1>1, <1>4 DEF Exclusive
  <2>3. CASE b # w
    <3>1. status[b] \in Active /\ Announced(b) /\ Exclusive(b)
      BY <2>1, <2>3, <1>1, <1>2, <1>3 DEF Exclusive
    <3>2. locks[info[b].resource] = b /\ b # NoAction /\ info[b].resource \in Resources
      BY <3>1 DEF LockInv, StartedOwnsLock, Exclusive, ActionId, NoAction
    <3>3. info[b].resource # info[w].resource
      BY <1>1, <3>2
    <3> QED BY <1>1, <1>4, <3>2, <3>3
  <2> QED BY <2>2, <2>3
<1>8. AnnouncedBegan'
  BY <1>2, <1>3 DEF AnnouncedBegan, LockInv
<1> QED BY <1>6, <1>7, <1>8 DEF LockInv

LEMMA ContinueLocks == ASSUME LockInv, TimerInv', Continue PROVE LockInv'
<1> USE DEF LockInv, TimerInv
<1>1. CASE NoWaiter \/ SkipFail \/ PreemptEnds \/ \E k \in TimerKinds : StartTimer(k)
  BY <1>1, QuietStep DEF NoWaiter, SkipFail, PreemptEnds, StartTimer, Announced
<1>2. CASE FailCrashed \/ FailOrphan
  <2>1. Target \in ActionId
    BY <1>2, TodoType DEF FailCrashed, FailOrphan, Doing, OpNames
  <2> QED BY <1>2, <2>1, FinishLocks
       DEF FailCrashed, FailOrphan, Known, Terminal, EventTypes, Requested
<1>3. ASSUME NEW w \in ActionId, WaiterFindsBusy(w) PROVE LockInv'
  <2>1. \A b \in ActionId : Announced(b)' => Announced(b)
    <3>1. "failed" \in EventTypes /\ "failed" # "started"
      BY DEF EventTypes, Requested
    <3> QED BY <1>3, <3>1, PublishAnnounces DEF WaiterFindsBusy
  <2> QED BY <1>3, <2>1, StatusStep DEF WaiterFindsBusy, WaiterCalled, Waits, Status, Terminal
<1>4. ASSUME NEW a \in ActionId, PreemptNext(a) PROVE LockInv'
  <2>1. \A b \in ActionId : Announced(b)' => Announced(b)
    BY <1>4, PublishAnnounces DEF PreemptNext, EventTypes, Requested
  <2> QED BY <1>4, <2>1, StatusStep DEF PreemptNext, PreemptableAfter, Status, Active
<1> QED BY <1>1, <1>2, <1>3, <1>4, WaiterStartsLocks DEF Continue

LEMMA BusStepsLocks == ASSUME LockInv, TimerInv', BusSteps PROVE LockInv'
<1>1. ASSUME NEW p \in parked, ResumePublish(p) PROVE LockInv'
  <2>1. ASSUME NEW b \in ActionId, Announced(b)' PROVE Announced(b)
    <3>1. events \in [ActionId -> SUBSET Requested] /\ p \in parked /\ parked' = parked \ {p}
      BY <1>1 DEF ResumePublish, LockInv, TimerInv, TypeOK
    <3>2. CASE "started" \in events'[b]
      <4>1. "started" \in events[b] \/ (p.id = b /\ p.event = "started")
        BY <1>1, <3>1, <3>2 DEF ResumePublish, Accepted
      <4> QED BY <3>1, <4>1 DEF Announced
    <3> QED BY <2>1, <3>1, <3>2 DEF Announced
  <2> QED BY <1>1, <2>1, QuietStep DEF ResumePublish
<1>2. ASSUME NEW p \in parked, DropPublish(p) PROVE LockInv'
  BY <1>2, QuietStep DEF DropPublish, Announced
<1> QED BY <1>1, <1>2 DEF BusSteps

LEMMA LockInvStep == LockInv /\ [Next]_vars /\ TimerInv' => LockInv'
<1>1. ASSUME LockInv, TimerInv', Next PROVE LockInv'
  BY <1>1, RequestsLocks, CallsLocks, KernelLocks, TimeoutsLocks, ContinueLocks, BusStepsLocks
     DEF Next
<1>2. ASSUME LockInv, TimerInv', UNCHANGED vars PROVE LockInv'
  BY <1>2, QuietStep DEF vars, Announced
<1> QED BY <1>1, <1>2

LEMMA LockInvInit == Init => LockInv
<1> SUFFICES ASSUME Init PROVE LockInv
  OBVIOUS
<1>1. TimerInv
  BY ConstantsAssumption
     DEF Init, TimerInv, TypeOK, SlotIsLive, Status, Info, Levels, Idle, Conts
<1> QED BY <1>1 DEF Init, LockInv, LockHolderActive, StartedOwnsLock, AnnouncedBegan,
                    Announced, Active

\* Locks are sound: a lock points at an action that is active on its resource, and
\* an active action some module was told to start holds the lock of its resource.
THEOREM LocksAreSound == Spec => [](LockHolderActive /\ StartedOwnsLock)
<1>1. Spec => [](TypeOK /\ SlotIsLive)
  BY TimersAreLive
<1>2. LockInv => LockHolderActive /\ StartedOwnsLock
  BY DEF LockInv
<1>3. TypeOK /\ SlotIsLive <=> TimerInv
  BY DEF TimerInv
<1> QED BY <1>1, <1>2, <1>3, LockInvInit, LockInvStep, PTL DEF Spec

-----------------------------------------------------------------------------
(***************************************************************************)
(* What is over stays over, and the refinement: every step of the manager  *)
(* is a grant, a return, a retirement or a stutter of ResourceLease.       *)
(***************************************************************************)
Spent == {a \in ActionId : Over(a)}
LeaseStep == [Lease!Next]_<<locks, Spent>>

\* One action changes its status: it joins the actions that are over or it does not.
LEMMA SpentMoves ==
    ASSUME TypeOK, NEW a \in ActionId, NEW new \in Status,
           status' = [status EXCEPT ![a] = new]
    PROVE  /\ new \in Terminal => Spent' = Spent \union {a}
           /\ new \notin Terminal \union {"pruned"} /\ ~Over(a) => Spent' = Spent
<1>1. \A b \in ActionId : status'[b] = IF b = a THEN new ELSE status[b]
  BY DEF TypeOK
<1> QED BY <1>1 DEF Spent, Over

\* A status that is not final and not reached from one: no lease moves.
LEMMA LeaseQuiet ==
    ASSUME TypeOK, NEW a \in ActionId, NEW new \in Status, ~Over(a),
           new \notin Terminal \union {"pruned"},
           status' = [status EXCEPT ![a] = new], UNCHANGED locks
    PROVE  LeaseStep /\ Spent \subseteq Spent'
BY SpentMoves DEF LeaseStep

\* An action without a lock that ends is retired, once.
LEMMA LeaseRetires ==
    ASSUME TypeOK, NEW a \in ActionId, NEW new \in Terminal,
           status' = [status EXCEPT ![a] = new], UNCHANGED locks,
           \A r \in Resources : locks[r] # a
    PROVE  LeaseStep /\ Spent \subseteq Spent'
<1>1. Spent' = Spent \union {a}
  BY SpentMoves DEF Status
<1>2. Lease!Retire(a)
  BY <1>1 DEF Lease!Retire, Lease!Holds, Spent
<1> QED BY <1>1, <1>2 DEF LeaseStep, Lease!Next

\* An action that ends returns the lease it holds, and is retired without one.
LEMMA LeaseFinishes ==
    ASSUME LockInv, NEW a \in ActionId, NEW final \in Terminal,
           NEW event, NEW by, NEW todo, Finish(a, final, event, by, todo)
    PROVE  LeaseStep /\ Spent \subseteq Spent'
<1>1. TypeOK /\ a # NoAction /\ status' = [status EXCEPT ![a] = final]
  BY DEF LockInv, TimerInv, Finish, ActionId, NoAction
<1>2. \A r \in Resources : locks[r] = a => info[a].resource = r
  BY <1>1 DEF LockInv, LockHolderActive
<1>3. CASE \A r \in Resources : locks[r] # a
  <2>1. locks' = locks
    BY <1>1, <1>3 DEF Finish, Released, TypeOK
  <2> QED BY <1>1, <1>3, <2>1, LeaseRetires
<1>4. ASSUME NEW r \in Resources, locks[r] = a PROVE LeaseStep /\ Spent \subseteq Spent'
  <2>1. locks' = [locks EXCEPT ![r] = NoAction]
    BY <1>1, <1>2, <1>4 DEF Finish, Released, TypeOK
  <2>2. Spent' = Spent \union {a}
    BY <1>1, SpentMoves DEF Status
  <2>3. Lease!Return(r)
    BY <1>1, <1>4, <2>1, <2>2 DEF Lease!Return, Spent
  <2> QED BY <2>2, <2>3 DEF LeaseStep, Lease!Next
<1> QED BY <1>3, <1>4

\* A new holder takes a free lock and had none, or asks for no exclusive resource.
LEMMA LeaseGrants ==
    ASSUME LockInv, NEW a \in ActionId, status[a] \in {"absent", "WAITING_RESOURCE"},
           status' = [status EXCEPT ![a] = "RUNNING"],
           NEW r, r \in Resources => locks[r] = NoAction,
           locks' = Lock(r, a)
    PROVE  LeaseStep /\ Spent \subseteq Spent'
<1>1. TypeOK /\ a # NoAction
  BY DEF LockInv, TimerInv, ActionId, NoAction
<1>2. Spent' = Spent /\ a \notin Spent
  BY <1>1, SpentMoves DEF Status, Active, Over, Terminal, Spent
<1>3. CASE r \notin Resources
  <2>1. locks' = locks
    BY <1>1, <1>3 DEF Lock, TypeOK
  <2> QED BY <1>2, <2>1 DEF LeaseStep
<1>4. CASE r \in Resources
  <2>1. locks' = [locks EXCEPT ![r] = a]
    BY <1>1, <1>4 DEF Lock, TypeOK
  <2>2. \A q \in Resources : locks[q] # a
    BY <1>1 DEF LockInv, LockHolderActive, Active
  <2>3. Lease!Grant(r, a)
    BY <1>2, <1>4, <2>1, <2>2 DEF Lease!Grant, Lease!Holds, Spent
  <2> QED BY <1>2, <1>4, <2>3 DEF LeaseStep, Lease!Next
<1> QED BY <1>3, <1>4

\* Nothing about a lease or an end changes.
LEMMA LeaseStutters ==
    ASSUME UNCHANGED <<status, locks>>
    PROVE  LeaseStep /\ Spent \subseteq Spent'
BY DEF LeaseStep, Spent, Over

LEMMA RequestsLease == ASSUME LockInv, Requests PROVE LeaseStep /\ Spent \subseteq Spent'
<1>1. PICK a \in ActionId, r \in Resources \union {NoResource}, p \in Priorities, by \in Callers :
        RequestRunning(a, r, p, by) \/ (r \in Resources /\ RequestWaiting(a, r, p, by))
  BY DEF Requests
<1>2. TypeOK /\ status[a] = "absent"
  BY <1>1 DEF RequestRunning, RequestWaiting, Fresh, LockInv, TimerInv
<1>3. \A q \in Resources : locks[q] # NoAction =>
         locks[q] \in ActionId /\ status[locks[q]] \in Active
  BY <1>2 DEF LockInv, LockHolderActive, TypeOK
<1>4. CASE RequestRunning(a, r, p, by)
  BY <1>2, <1>3, <1>4, LeaseGrants DEF RequestRunning, ResourceIsOccupied
<1>5. CASE r \in Resources /\ RequestWaiting(a, r, p, by)
  <2>1. locks[r] \in ActionId /\ status[locks[r]] \in Active /\ locks' = locks
    BY <1>3, <1>5 DEF RequestWaiting, ResourceIsOccupied
  <2>2. \A b \in ActionId : status'[b] = IF b = a THEN "WAITING_RESOURCE"
                                         ELSE IF b = locks[r] THEN "PREEMPTING" ELSE status[b]
    BY <1>2, <1>5, <2>1 DEF RequestWaiting, TypeOK
  <2>3. ASSUME NEW b \in ActionId PROVE Over(b)' <=> Over(b)
    <3>1. CASE b = a
      BY <1>2, <2>2, <3>1 DEF Over, Terminal
    <3>2. CASE b # a /\ b = locks[r]
      BY <2>1, <2>2, <3>2 DEF Over, Active, Terminal
    <3>3. CASE b # a /\ b # locks[r]
      BY <2>2, <3>3 DEF Over
    <3> QED BY <3>1, <3>2, <3>3
  <2>4. Spent' = Spent
    BY <2>3 DEF Spent
  <2> QED BY <2>1, <2>4 DEF LeaseStep
<1> QED BY <1>1, <1>4, <1>5

LEMMA CallsLease ==
    ASSUME LockInv, ModuleCalls \/ ControlCalls PROVE LeaseStep /\ Spent \subseteq Spent'
<1>1. ASSUME NEW a \in ActionId, NEW by \in Callers,
             \/ CompleteAction(a, by) \/ FailAction(a, by)
             \/ MarkCancelled(a, by) \/ MarkPreempted(a, by)
      PROVE  LeaseStep /\ Spent \subseteq Spent'
  BY <1>1, LeaseFinishes DEF CompleteAction, FailAction, MarkCancelled, MarkPreempted, Terminal
<1>2. ASSUME NEW a \in ActionId, CancelAction(a) PROVE LeaseStep /\ Spent \subseteq Spent'
  BY <1>2, LeaseStutters DEF CancelAction
<1>3. ASSUME NEW a \in ActionId, MarkDetached(a) PROVE LeaseStep /\ Spent \subseteq Spent'
  BY <1>3, LeaseQuiet DEF MarkDetached, LockInv, TimerInv, Status, Active, Terminal, Over
<1> QED BY <1>1, <1>2, <1>3 DEF ModuleCalls, ControlCalls

\* Pruning takes what is over already, and no lease with it.
LEMMA PruneLease ==
    ASSUME LockInv, NEW S \in SUBSET {a \in ActionId : status[a] \in Terminal}, PruneTerminal(S)
    PROVE  LeaseStep /\ Spent \subseteq Spent'
<1>1. \A b \in ActionId : status'[b] = IF b \in S THEN "pruned" ELSE status[b]
  BY DEF PruneTerminal
<1>2. \A b \in S : b \in ActionId /\ status[b] \in Terminal
  OBVIOUS
<1>3. Spent' = Spent
  BY <1>1, <1>2 DEF Spent, Over
<1>4. \A r \in Resources : locks[r] # NoAction =>
         locks[r] \in ActionId /\ status[locks[r]] \in Active
  BY DEF LockInv, LockHolderActive, TimerInv, TypeOK
<1>5. \A r \in Resources : locks[r] # NoAction => status'[locks[r]] = status[locks[r]]
  BY <1>1, <1>2, <1>4 DEF Active, Terminal
<1>6. \A r \in Resources : locks'[r] = locks[r]
  BY <1>4, <1>5 DEF PruneTerminal, Active
<1>7. locks' = locks
  BY <1>6 DEF PruneTerminal, LockInv, TimerInv, TypeOK
<1> QED BY <1>3, <1>7 DEF LeaseStep

LEMMA KernelLease == ASSUME LockInv, KernelCalls PROVE LeaseStep /\ Spent \subseteq Spent'
<1>1. ASSUME \/ Preempt
             \/ \E r \in Resources : HealthUnavailable(r)
             \/ \E a \in ActionId : ActionActivity(a)
             \/ \E S \in SUBSET Orphans : FailOrphans(S)
      PROVE  LeaseStep /\ Spent \subseteq Spent'
  BY <1>1, LeaseStutters DEF Preempt, HealthUnavailable, ActionActivity, FailOrphans
<1> QED BY <1>1, PruneLease DEF KernelCalls

LEMMA TimeoutsLease == ASSUME LockInv, Timeouts PROVE LeaseStep /\ Spent \subseteq Spent'
<1>1. ASSUME NEW a \in ActionId, WaitTimeout(a) PROVE LeaseStep /\ Spent \subseteq Spent'
  <2>1. CASE status[a] = "WAITING_RESOURCE" /\ status' = [status EXCEPT ![a] = "FAILED"]
    <3>1. TypeOK /\ a # NoAction /\ locks' = locks /\ "FAILED" \in Terminal
      BY <1>1 DEF WaitTimeout, LockInv, TimerInv, Terminal, ActionId, NoAction
    <3>2. \A r \in Resources : locks[r] # a
      BY <2>1, <3>1 DEF LockInv, LockHolderActive, Active
    <3> QED BY <2>1, <3>1, <3>2, LeaseRetires
  <2>2. CASE UNCHANGED status
    BY <1>1, <2>2, LeaseStutters DEF WaitTimeout
  <2> QED BY <1>1, <2>1, <2>2 DEF WaitTimeout
<1>2. ASSUME NEW a \in ActionId, CancelTimeoutExpires(a) \/ PreemptTimeout(a)
      PROVE  LeaseStep /\ Spent \subseteq Spent'
  BY <1>2, LeaseFinishes, LeaseStutters DEF CancelTimeoutExpires, PreemptTimeout, Terminal
<1> QED BY <1>1, <1>2 DEF Timeouts

LEMMA ContinueLease == ASSUME LockInv, Continue PROVE LeaseStep /\ Spent \subseteq Spent'
<1>1. CASE NoWaiter \/ SkipFail \/ PreemptEnds \/ \E k \in TimerKinds : StartTimer(k)
  BY <1>1, LeaseStutters DEF NoWaiter, SkipFail, PreemptEnds, StartTimer
<1>2. CASE FailCrashed \/ FailOrphan
  <2>1. Target \in ActionId
    BY <1>2, TodoType DEF FailCrashed, FailOrphan, Doing, OpNames, LockInv, TimerInv
  <2> QED BY <1>2, <2>1, LeaseFinishes DEF FailCrashed, FailOrphan, Terminal
<1>3. ASSUME NEW w \in ActionId, WaiterStarts(w) PROVE LeaseStep /\ Spent \subseteq Spent'
  BY <1>3, LeaseGrants DEF WaiterStarts, WaiterCalled, Waits
<1>4. ASSUME NEW w \in ActionId, WaiterFindsBusy(w) PROVE LeaseStep /\ Spent \subseteq Spent'
  <2>1. /\ TypeOK /\ w # NoAction /\ locks' = locks /\ "FAILED" \in Terminal
        /\ status[w] = "WAITING_RESOURCE" /\ status' = [status EXCEPT ![w] = "FAILED"]
    BY <1>4 DEF WaiterFindsBusy, WaiterCalled, Waits, LockInv, TimerInv, Terminal,
                ActionId, NoAction
  <2>2. \A r \in Resources : locks[r] # w
    BY <2>1 DEF LockInv, LockHolderActive, Active
  <2> QED BY <2>1, <2>2, LeaseRetires
<1>5. ASSUME NEW a \in ActionId, PreemptNext(a) PROVE LeaseStep /\ Spent \subseteq Spent'
  BY <1>5, LeaseQuiet
     DEF PreemptNext, PreemptableAfter, LockInv, TimerInv, Status, Active, Terminal, Over
<1> QED BY <1>1, <1>2, <1>3, <1>4, <1>5 DEF Continue

\* Every step of the manager is a step of the lease or leaves it alone, and none
\* takes an action back from those that are over.
LEMMA NextLease == ASSUME LockInv, [Next]_vars PROVE LeaseStep /\ Spent \subseteq Spent'
<1>1. CASE Next
  <2>1. CASE BusSteps
    BY <2>1, LeaseStutters DEF BusSteps, ResumePublish, DropPublish
  <2> QED BY <1>1, <2>1, RequestsLease, CallsLease, KernelLease, TimeoutsLease, ContinueLease
       DEF Next
<1>2. CASE UNCHANGED vars
  BY <1>2, LeaseStutters DEF vars
<1> QED BY <1>1, <1>2

\* The manager's locks and ends implement the leasing of exclusive resources: a
\* lock is taken only when free, by an action that holds none and never held one
\* before it ended, whatever calls, timers and suspended publishes interleave.
THEOREM ManagerImplementsLease == Spec => LeaseSpec
<1>1. Init => Lease!Init
  BY DEF Init, Lease!Init, Over, Terminal
<1>2. LockInv /\ [Next]_vars => [Lease!Next]_<<locks, Spent>>
  BY NextLease DEF LeaseStep
<1>3. Init => LockInv
  BY LockInvInit
<1>4. Spec => []TimerInv
  BY TimersAreLive, PTL DEF TimerInv
<1>5. Spec => []LockInv
  BY <1>3, <1>4, LockInvStep, PTL DEF Spec
<1> QED BY <1>1, <1>2, <1>5, PTL DEF Spec, LeaseSpec, Lease!Spec, Spent

\* An action that is over, or pruned after it, never becomes active again.
THEOREM OverIsFinal == Spec => NoRevival
<1>1. LockInv /\ [Next]_vars => [\A a \in ActionId : Over(a) => Over(a)']_vars
  BY NextLease DEF Spent
<1>2. Spec => []TimerInv
  BY TimersAreLive, PTL DEF TimerInv
<1>3. Spec => []LockInv
  BY <1>2, LockInvInit, LockInvStep, PTL DEF Spec
<1> QED BY <1>1, <1>3, PTL DEF Spec, NoRevival

-----------------------------------------------------------------------------
(***************************************************************************)
(* The waiters.  An action that finishes calls its waiter in the same      *)
(* coroutine: the call is at the head of what holds the loop, where no     *)
(* exception and no cancelled handler can lose it, unless the end was      *)
(* published at HIGH and suspended.                                        *)
(***************************************************************************)
CallFirst(todo) == \A i \in DOMAIN todo : todo[i].op = "start_waiting" => i = 1
NoCall(todo)    == \A i \in DOMAIN todo : todo[i].op # "start_waiting"
HighCall(todo)  == \A i \in DOMAIN todo : todo[i].op = "start_waiting" =>
                       /\ i = 1 /\ status[todo[i].id] # "absent"
                       /\ info[todo[i].id].priority = "HIGH"
Calling(b)      == cont.todo # <<>> /\ Head(cont.todo) = Op("start_waiting", b)

ContCalls    == CallFirst(cont.todo)
ParkedCalls  == \A p \in parked : HighCall(p.todo)
WaitingBegan == \A b \in ActionId :
                    /\ status[b] = "absent" => waiting[b] = NoAction
                    /\ waiting[b] # NoAction => status[waiting[b]] # "absent"
WaiterCovered == \A b \in ActionId : Waits(waiting[b]) =>
                     status[b] \in Active \/ Calling(b) \/ info[b].priority = "HIGH"

WaiterInv == TimerInv /\ ContCalls /\ ParkedCalls /\ WaitingBegan /\ WaiterCovered

\* An action that exists keeps existing, and keeps its resource and priority.
Lasting == \A b \in ActionId : status[b] # "absent" =>
               status'[b] # "absent" /\ info'[b] = info[b]

\* A call that waits for room in the HIGH queue stays one of a HIGH action.
LEMMA HighCallLasts ==
    ASSUME Lasting, NEW todo \in Seq(Ops), HighCall(todo) PROVE HighCall(todo)'
<1>1. \A i \in DOMAIN todo : todo[i].op = "start_waiting" => todo[i].id \in ActionId
  BY DEF Ops
<1> QED BY <1>1 DEF HighCall, Lasting

\* What a publish leaves in the loop or in the queue.
LEMMA PublishCalls ==
    ASSUME TimerInv, ParkedCalls, Lasting,
           NEW event, NEW a, NEW level, NEW by, NEW todo \in Seq(Ops),
           CallFirst(todo), level = "HIGH" => HighCall(todo)',
           Publish(event, a, level, by, todo)
    PROVE  ContCalls' /\ ParkedCalls'
<1>1. \A p \in parked : p.todo \in Seq(Ops)
  BY DEF TimerInv, TypeOK, Parked
<1>2. \A p \in parked : HighCall(p.todo)'
  BY <1>1, HighCallLasts DEF ParkedCalls
<1>3. CASE cont' = Then(by, todo) /\ parked' = parked
  <2>1. cont'.todo = todo \/ cont'.todo = <<>>
    BY <1>3 DEF Then, Idle
  <2> QED BY <1>2, <1>3, <2>1 DEF ContCalls, CallFirst, ParkedCalls
<1>4. CASE /\ level = "HIGH" /\ cont' = Idle
           /\ parked' = parked \union {[event |-> event, id |-> a, by |-> by, todo |-> todo]}
  BY <1>2, <1>4 DEF Idle, ContCalls, CallFirst, ParkedCalls
<1> QED BY <1>3, <1>4 DEF Publish

\* The facts about one step from which the waiter invariant follows.
LEMMA WaitersStep ==
    ASSUME WaiterInv, TimerInv', ContCalls', ParkedCalls', Lasting,
           \A w \in ActionId : status'[w] = "WAITING_RESOURCE" => status[w] = "WAITING_RESOURCE",
           \A b \in ActionId : waiting'[b] \in {waiting[b], NoAction},
           \A b \in ActionId : status[b] \in Active =>
               status'[b] \in Active \/ Calling(b)' \/ info[b].priority = "HIGH",
           \A b \in ActionId : Calling(b) => Calling(b)' \/ waiting'[b] = NoAction
    PROVE  WaiterInv'
<1>1. \A b \in ActionId : waiting[b] \in ActionId \union {NoAction}
  BY DEF WaiterInv, TimerInv, TypeOK
<1>2. WaitingBegan'
  BY <1>1 DEF WaiterInv, WaitingBegan, Lasting
<1>3. WaiterCovered'
  <2>1. SUFFICES ASSUME NEW b \in ActionId, Waits(waiting[b])'
                 PROVE  (status[b] \in Active \/ Calling(b) \/ info[b].priority = "HIGH")'
    BY DEF WaiterCovered
  <2>2. waiting'[b] = waiting[b] /\ waiting'[b] # NoAction /\ Waits(waiting[b])
    BY <2>1 DEF Waits, ActionId, NoAction
  <2>3. info'[b] = info[b]
    BY <1>1, <2>2 DEF WaiterInv, WaitingBegan, Lasting
  <2>4. status[b] \in Active \/ Calling(b) \/ info[b].priority = "HIGH"
    BY <2>2 DEF WaiterInv, WaiterCovered
  <2> QED BY <2>2, <2>3, <2>4
<1> QED BY <1>2, <1>3 DEF WaiterInv

\* An action that ends leaves the call of its waiter at the head of the loop, or
\* suspended with a HIGH event.
LEMMA FinishWaiters ==
    ASSUME WaiterInv, TimerInv', NEW a \in ActionId, Known(a),
           NEW final \in Terminal, NEW event, NEW by, NEW todo \in Seq(Ops), NoCall(todo),
           Finish(a, final, event, by, todo), \A b \in ActionId : ~Calling(b)
    PROVE  WaiterInv'
<1> DEFINE ops == <<Op("start_waiting", a)>> \o todo
<1>1. /\ \A b \in ActionId : status'[b] = IF b = a THEN final ELSE status[b]
      /\ info' = info /\ waiting' = waiting /\ status[a] # "absent"
  BY DEF Finish, WaiterInv, TimerInv, TypeOK, Known
<1>2. final \notin {"absent", "WAITING_RESOURCE"}
  BY DEF Terminal
<1>3. Lasting
  BY <1>1, <1>2 DEF Lasting
<1>4. ops \in Seq(Ops) /\ Head(ops) = Op("start_waiting", a) /\ ops # <<>>
  BY OpsType DEF OpNames
<1>5. CallFirst(ops)
  <2>1. \A i \in DOMAIN ops : i # 1 => i - 1 \in DOMAIN todo /\ ops[i] = todo[i - 1]
    BY OpsType DEF OpNames
  <2> QED BY <2>1 DEF CallFirst, NoCall
<1>6. info[a].priority = "HIGH" => HighCall(ops)'
  <2>1. \A i \in DOMAIN ops : ops[i].op = "start_waiting" => i = 1 /\ ops[i] = Op("start_waiting", a)
    BY <1>4, <1>5 DEF CallFirst
  <2> QED BY <1>1, <1>2, <2>1 DEF HighCall, Op
<1>7. Publish(event, a, info[a].priority, by, ops)
  BY DEF Finish
<1> HIDE DEF ops
<1>8. ContCalls' /\ ParkedCalls'
  BY <1>3, <1>4, <1>5, <1>6, <1>7, PublishCalls DEF WaiterInv
<1>9. Calling(a)' \/ info[a].priority = "HIGH"
  BY <1>4, <1>7 DEF Publish, Calling, Then
<1> QED BY <1>1, <1>2, <1>3, <1>8, <1>9, WaitersStep

\* A step that publishes no end, and whose statuses stay active.
LEMMA PublishWaiters ==
    ASSUME WaiterInv, TimerInv', Lasting,
           NEW event, NEW a, NEW level, NEW by, NEW todo \in Seq(Ops), NoCall(todo),
           Publish(event, a, level, by, todo),
           \A w \in ActionId : status'[w] = "WAITING_RESOURCE" => status[w] = "WAITING_RESOURCE",
           \A b \in ActionId : waiting'[b] \in {waiting[b], NoAction},
           \A b \in ActionId : status[b] \in Active => status'[b] \in Active,
           \A b \in ActionId : Calling(b) => waiting'[b] = NoAction
    PROVE  WaiterInv'
<1>1. CallFirst(todo) /\ HighCall(todo)'
  BY DEF NoCall, CallFirst, HighCall
<1>2. ContCalls' /\ ParkedCalls'
  BY <1>1, PublishCalls DEF WaiterInv
<1> QED BY <1>2, WaitersStep

\* A step that changes no status and leaves in the loop a list without a call.
LEMMA QuietWaiters ==
    ASSUME WaiterInv, TimerInv', UNCHANGED <<status, info>>,
           parked' \subseteq parked, NoCall(cont'.todo),
           \A b \in ActionId : waiting'[b] \in {waiting[b], NoAction},
           \A b \in ActionId : Calling(b) => waiting'[b] = NoAction
    PROVE  WaiterInv'
<1>1. Lasting /\ ContCalls'
  BY DEF Lasting, ContCalls, CallFirst, NoCall
<1>2. \A p \in parked : p.todo \in Seq(Ops)
  BY DEF WaiterInv, TimerInv, TypeOK, Parked
<1>3. ParkedCalls'
  BY <1>1, <1>2, HighCallLasts DEF WaiterInv, ParkedCalls
<1> QED BY <1>1, <1>3, WaitersStep

\* With a free loop nobody is being called.
LEMMA FreeLoop ==
    ASSUME LoopFree PROVE NoCall(cont.todo) /\ \A b \in ActionId : ~Calling(b)
BY DEF LoopFree, NoCall, Calling

\* What follows the first operation contains no call.
LEMMA RestCalls ==
    ASSUME WaiterInv, cont.todo # <<>>
    PROVE  /\ NoCall(Rest) /\ NoCall(Then(cont.by, Rest).todo) /\ NoCall(Idle.todo)
           /\ ~Doing("start_waiting") => \A b \in ActionId : ~Calling(b)
           /\ \A b \in ActionId : Calling(b) => b = Target
<1>1. cont.todo \in Seq(Ops) /\ Len(cont.todo) > 0
  BY DEF WaiterInv, TimerInv, TypeOK, Conts
<1>2. \A i \in DOMAIN Rest : i + 1 \in DOMAIN cont.todo /\ Rest[i] = cont.todo[i + 1] /\ i \in Nat /\ i > 0
  BY <1>1 DEF Rest
<1>3. NoCall(Rest)
  BY <1>2 DEF NoCall, WaiterInv, ContCalls, CallFirst
<1>4. NoCall(Idle.todo)
  BY DEF NoCall, Idle
<1> QED BY <1>3, <1>4 DEF Then, Calling, Doing, Op, Target

LEMMA RequestsWaiters == ASSUME WaiterInv, TimerInv', Requests PROVE WaiterInv'
<1>1. PICK a \in ActionId, r \in Resources \union {NoResource}, p \in Priorities, by \in Callers :
        RequestRunning(a, r, p, by) \/ (r \in Resources /\ RequestWaiting(a, r, p, by))
  BY DEF Requests
<1>2. TypeOK /\ status[a] = "absent" /\ waiting[a] = NoAction /\ a # NoAction
  BY <1>1 DEF RequestRunning, RequestWaiting, Fresh, WaiterInv, WaitingBegan, TimerInv,
              ActionId, NoAction
<1>3. \A b \in ActionId : ~Calling(b)
  BY <1>1, FreeLoop DEF RequestRunning, RequestWaiting
<1>4. CASE RequestRunning(a, r, p, by)
  <2>1. \A b \in ActionId : /\ status'[b] = IF b = a THEN "RUNNING" ELSE status[b]
                            /\ b # a => info'[b] = info[b]
    BY <1>2, <1>4 DEF RequestRunning, TypeOK
  <2>2. Lasting
    BY <1>2, <2>1 DEF Lasting
  <2>3. <<>> \in Seq(Ops) /\ NoCall(<<>>) /\ Publish("started", a, p, by, <<>>) /\ waiting' = waiting
    BY <1>4 DEF NoCall, RequestRunning
  <2>4. \A b \in ActionId : /\ status'[b] = "WAITING_RESOURCE" => status[b] = "WAITING_RESOURCE"
                            /\ status[b] \in Active => status'[b] \in Active
    BY <2>1 DEF Active
  <2> QED BY <1>3, <2>2, <2>3, <2>4, PublishWaiters
<1>5. CASE r \in Resources /\ RequestWaiting(a, r, p, by)
  <2> DEFINE c == locks[r]
  <2>1. c \in ActionId /\ status[c] \in Active /\ c # a
    BY <1>2, <1>5 DEF RequestWaiting, ResourceIsOccupied, TypeOK, Active
  <2>2. \A b \in ActionId : /\ status'[b] = IF b = a THEN "WAITING_RESOURCE"
                                            ELSE IF b = c THEN "PREEMPTING" ELSE status[b]
                            /\ b # a => info'[b] = info[b]
                            /\ waiting'[b] = IF b = c THEN a ELSE waiting[b]
    BY <1>2, <1>5, <2>1 DEF RequestWaiting, TypeOK
  <2>3. Lasting
    BY <1>2, <2>1, <2>2 DEF Lasting, Active
  <2>4. Publish("preempt_requested", c, info[c].priority, by, <<Op("wait", a)>>)
    BY <1>5 DEF RequestWaiting
  <2>5. <<Op("wait", a)>> \in Seq(Ops) /\ NoCall(<<Op("wait", a)>>)
    BY OpsType DEF OpNames, TimerKinds, NoCall, Op
  <2>6. CallFirst(<<Op("wait", a)>>) /\ HighCall(<<Op("wait", a)>>)'
    BY <2>5 DEF NoCall, CallFirst, HighCall
  <2>7. ContCalls' /\ ParkedCalls'
    BY <2>3, <2>4, <2>5, <2>6, PublishCalls DEF WaiterInv
  <2> HIDE DEF c
  <2>8. WaitingBegan'
    <3>1. SUFFICES ASSUME NEW b \in ActionId
                   PROVE  /\ status'[b] = "absent" => waiting'[b] = NoAction
                          /\ waiting'[b] # NoAction => status'[waiting'[b]] # "absent"
      BY DEF WaitingBegan
    <3>2. CASE b = c
      BY <2>1, <2>2, <3>2
    <3>3. CASE b # c
      <4>1. waiting'[b] = waiting[b] /\ waiting[b] \in ActionId \union {NoAction}
        BY <1>2, <2>2, <3>3 DEF TypeOK
      <4>2. waiting[b] # NoAction => status[waiting[b]] # "absent"
        BY DEF WaiterInv, WaitingBegan
      <4>3. waiting[b] # NoAction => status'[waiting[b]] # "absent"
        BY <4>1, <4>2, <2>3 DEF Lasting
      <4>4. status'[b] = "absent" => waiting[b] = NoAction
        BY <2>3 DEF Lasting, WaiterInv, WaitingBegan
      <4> QED BY <4>1, <4>3, <4>4
    <3> QED BY <3>2, <3>3
  <2>9. WaiterCovered'
    <3>1. SUFFICES ASSUME NEW b \in ActionId, Waits(waiting[b])'
                   PROVE  status'[b] \in Active \/ info'[b].priority = "HIGH"
      BY DEF WaiterCovered
    <3>2. CASE b = c
      BY <2>1, <2>2, <3>2 DEF Active
    <3>3. CASE b # c
      <4>1. waiting'[b] = waiting[b] /\ waiting[b] \in ActionId
        BY <2>2, <3>1, <3>3 DEF Waits
      <4>2. status[waiting[b]] # "absent" /\ status[b] # "absent"
        BY <4>1 DEF WaiterInv, WaitingBegan, ActionId, NoAction
      <4>3. b # a /\ waiting[b] # a
        BY <1>2, <4>2
      <4>4. Waits(waiting[b])
        BY <2>1, <2>2, <3>1, <4>1, <4>3 DEF Waits
      <4>5. status[b] \in Active \/ info[b].priority = "HIGH"
        BY <1>3, <4>4 DEF WaiterInv, WaiterCovered
      <4> QED BY <2>2, <3>3, <4>3, <4>5
    <3> QED BY <3>2, <3>3
  <2> QED BY <2>7, <2>8, <2>9 DEF WaiterInv
<1> QED BY <1>1, <1>4, <1>5

LEMMA CallsWaiters == ASSUME WaiterInv, TimerInv', ModuleCalls \/ ControlCalls PROVE WaiterInv'
<1>0. <<>> \in Seq(Ops) /\ NoCall(<<>>) /\ TypeOK
  BY DEF NoCall, WaiterInv, TimerInv
<1>1. ASSUME NEW a \in ActionId, NEW by \in Callers,
             \/ CompleteAction(a, by) \/ FailAction(a, by)
             \/ MarkCancelled(a, by) \/ MarkPreempted(a, by)
      PROVE  WaiterInv'
  BY <1>0, <1>1, FreeLoop, FinishWaiters
     DEF CompleteAction, FailAction, MarkCancelled, MarkPreempted, Terminal
<1>2. ASSUME NEW a \in ActionId, CancelAction(a) PROVE WaiterInv'
  <2>1. <<Op("cancel", a)>> \in Seq(Ops) /\ NoCall(<<Op("cancel", a)>>)
    BY OpsType DEF OpNames, TimerKinds, NoCall, Op
  <2>2. Lasting
    BY <1>2 DEF CancelAction, Lasting
  <2> QED BY <1>2, <2>1, <2>2, FreeLoop, PublishWaiters DEF CancelAction
<1>3. ASSUME NEW a \in ActionId, MarkDetached(a) PROVE WaiterInv'
  <2>1. \A b \in ActionId : status'[b] = IF b = a THEN "RUNNING_DETACHED" ELSE status[b]
    BY <1>0, <1>3 DEF MarkDetached, TypeOK
  <2>2. Lasting
    BY <1>3, <2>1 DEF MarkDetached, Lasting
  <2>3. \A b \in ActionId : /\ status'[b] = "WAITING_RESOURCE" => status[b] = "WAITING_RESOURCE"
                            /\ status[b] \in Active => status'[b] \in Active
    BY <2>1 DEF Active
  <2>4. /\ Publish("detached", a, info[a].priority, "task", <<>>)
        /\ waiting' = waiting /\ \A b \in ActionId : ~Calling(b)
    BY <1>3, FreeLoop DEF MarkDetached
  <2> QED BY <1>0, <2>2, <2>3, <2>4, PublishWaiters
<1> QED BY <1>1, <1>2, <1>3 DEF ModuleCalls, ControlCalls

\* A list of failures contains no call.
LEMMA OpListCalls ==
    ASSUME NEW s, NEW name \in {"fail", "orphan_fail"}, NEW by
    PROVE  NoCall(Then(by, [i \in DOMAIN s |-> Op(name, s[i])]).todo)
BY DEF NoCall, Then, Idle, Op

LEMMA KernelWaiters == ASSUME WaiterInv, TimerInv', KernelCalls PROVE WaiterInv'
<1>1. CASE Preempt
  <2>1. NoCall(cont'.todo)
    BY <1>1 DEF Preempt, NoCall, Then, Scan
  <2> QED BY <1>1, <2>1, FreeLoop, QuietWaiters DEF Preempt
<1>2. ASSUME NEW r \in Resources, HealthUnavailable(r) PROVE WaiterInv'
  <2>1. NoCall(cont'.todo)
    BY <1>2, OpListCalls DEF HealthUnavailable
  <2> QED BY <1>2, <2>1, FreeLoop, QuietWaiters DEF HealthUnavailable
<1>3. ASSUME NEW a \in ActionId, ActionActivity(a) PROVE WaiterInv'
  BY <1>3, FreeLoop, QuietWaiters DEF ActionActivity
<1>4. ASSUME NEW S \in SUBSET Orphans, FailOrphans(S) PROVE WaiterInv'
  <2>1. NoCall(cont'.todo)
    BY <1>4, OpListCalls DEF FailOrphans
  <2> QED BY <1>4, <2>1, FreeLoop, QuietWaiters DEF FailOrphans
<1>5. ASSUME NEW S \in SUBSET {a \in ActionId : status[a] \in Terminal}, PruneTerminal(S)
      PROVE  WaiterInv'
  <2>1. \A b \in ActionId : status'[b] = IF b \in S THEN "pruned" ELSE status[b]
    BY <1>5 DEF PruneTerminal
  <2>2. \A b \in S : status[b] \in Terminal
    OBVIOUS
  <2>3. Lasting /\ info' = info /\ waiting' = waiting /\ cont' = cont /\ parked' = parked
    BY <1>5, <2>1 DEF PruneTerminal, Lasting
  <2>4. \A b \in ActionId : status[b] \in Active => status'[b] \in Active
    BY <2>1, <2>2 DEF Active, Terminal
  <2>5. \A b \in ActionId : ~Calling(b)
    BY <1>5, FreeLoop DEF PruneTerminal
  <2>6. ContCalls'
    BY <2>3 DEF WaiterInv, ContCalls
  <2>7. ParkedCalls'
    <3>1. \A p \in parked : p.todo \in Seq(Ops)
      BY DEF WaiterInv, TimerInv, TypeOK, Parked
    <3> QED BY <2>3, <3>1, HighCallLasts DEF WaiterInv, ParkedCalls
  <2>8. \A w \in ActionId : status'[w] = "WAITING_RESOURCE" => status[w] = "WAITING_RESOURCE"
    BY <2>1
  <2> QED BY <2>3, <2>4, <2>5, <2>6, <2>7, <2>8, WaitersStep
<1> QED BY <1>1, <1>2, <1>3, <1>4, <1>5 DEF KernelCalls

LEMMA TimeoutsWaiters == ASSUME WaiterInv, TimerInv', Timeouts PROVE WaiterInv'
<1>0. <<>> \in Seq(Ops) /\ NoCall(<<>>) /\ TypeOK
  BY DEF NoCall, WaiterInv, TimerInv
<1>1. ASSUME NEW a \in ActionId, WaitTimeout(a) PROVE WaiterInv'
  <2>1. CASE /\ status[a] = "WAITING_RESOURCE"
             /\ status' = [status EXCEPT ![a] = "FAILED"]
             /\ waiting' = [waiting EXCEPT ![info[a].blocker] = NoAction]
             /\ Publish("failed", a, info[a].priority, "task", <<>>)
    <3>1. \A b \in ActionId : /\ status'[b] = IF b = a THEN "FAILED" ELSE status[b]
                              /\ waiting'[b] \in {waiting[b], NoAction}
      BY <1>0, <2>1 DEF TypeOK
    <3>2. Lasting
      BY <1>1, <3>1 DEF WaitTimeout, Lasting
    <3> QED BY <1>0, <1>1, <2>1, <3>1, <3>2, FreeLoop, PublishWaiters
         DEF WaitTimeout, TimerFires, Active
  <2>2. CASE UNCHANGED <<status, waiting, events, cont, parked>>
    BY <1>1, <2>2, FreeLoop, QuietWaiters DEF WaitTimeout, TimerFires
  <2> QED BY <1>1, <2>1, <2>2 DEF WaitTimeout
<1>2. ASSUME NEW a \in ActionId, CancelTimeoutExpires(a) \/ PreemptTimeout(a) PROVE WaiterInv'
  <2>1. CASE UNCHANGED <<status, info, touched, locks, waiting, recent, events, cont, parked>>
    BY <1>2, <2>1, FreeLoop, QuietWaiters DEF CancelTimeoutExpires, PreemptTimeout, TimerFires
  <2>2. CASE /\ Known(a)
             /\ \/ Finish(a, "CANCELLED", "cancelled", "task", <<>>)
                \/ Finish(a, "PREEMPTED", "preempted", "task", <<>>)
    BY <1>0, <1>2, <2>2, FreeLoop, FinishWaiters
       DEF CancelTimeoutExpires, PreemptTimeout, TimerFires, Terminal
  <2> QED BY <1>2, <2>1, <2>2 DEF CancelTimeoutExpires, PreemptTimeout, Known, Active
<1> QED BY <1>1, <1>2 DEF Timeouts

\* The waiter that is called leaves the entry of its blocker, started or failed.
LEMMA WaiterCalledWaiters ==
    ASSUME WaiterInv, TimerInv', NEW w \in ActionId, WaiterStarts(w) \/ WaiterFindsBusy(w)
    PROVE  WaiterInv'
<1>1. /\ TypeOK /\ cont.todo # <<>> /\ status[w] = "WAITING_RESOURCE" /\ info' = info
      /\ waiting' = [waiting EXCEPT ![Target] = NoAction]
  BY DEF WaiterStarts, WaiterFindsBusy, WaiterCalled, Waits, Doing, WaiterInv, TimerInv
<1>2. PICK new \in {"RUNNING", "FAILED"}, event \in {"started", "failed"} :
          /\ status' = [status EXCEPT ![w] = new]
          /\ Publish(event, w, info[w].priority, cont.by, Rest)
  BY DEF WaiterStarts, WaiterFindsBusy
<1>3. \A b \in ActionId : /\ status'[b] = IF b = w THEN new ELSE status[b]
                          /\ waiting'[b] = IF b = Target THEN NoAction ELSE waiting[b]
  BY <1>1, <1>2 DEF TypeOK
<1>4. Lasting
  BY <1>1, <1>3 DEF Lasting
<1>5. NoCall(Rest) /\ Rest \in Seq(Ops) /\ \A b \in ActionId : Calling(b) => b = Target
  BY <1>1, RestCalls, TodoType
<1> QED BY <1>1, <1>2, <1>3, <1>4, <1>5, PublishWaiters DEF Active

LEMMA ContinueWaiters == ASSUME WaiterInv, TimerInv', Continue PROVE WaiterInv'
<1>0. cont.todo # <<>> /\ TypeOK
  BY DEF Continue, NoWaiter, FailCrashed, FailOrphan, SkipFail, PreemptEnds, WaiterStarts,
         WaiterFindsBusy, WaiterCalled, PreemptNext, StartTimer, Doing, WaiterInv, TimerInv
<1>1. /\ NoCall(Rest) /\ NoCall(Then(cont.by, Rest).todo) /\ NoCall(Idle.todo)
      /\ ~Doing("start_waiting") => \A b \in ActionId : ~Calling(b)
      /\ \A b \in ActionId : Calling(b) => b = Target
      /\ Rest \in Seq(Ops) /\ \A name \in OpNames : Doing(name) => Target \in ActionId
  BY <1>0, RestCalls, TodoType
<1>2. CASE NoWaiter
  <2>1. NoCall(cont'.todo)
    BY <1>1, <1>2 DEF NoWaiter
  <2>2. \A b \in ActionId : waiting'[b] = IF b = Target THEN NoAction ELSE waiting[b]
    BY <1>0, <1>2 DEF NoWaiter, TypeOK
  <2> QED BY <1>1, <1>2, <2>1, <2>2, QuietWaiters DEF NoWaiter
<1>3. CASE FailCrashed \/ FailOrphan
  <2>1. Target \in ActionId /\ ~Doing("start_waiting") /\ Known(Target)
    BY <1>1, <1>3 DEF FailCrashed, FailOrphan, Doing, OpNames, Known
  <2> QED BY <1>1, <1>3, <2>1, FinishWaiters DEF FailCrashed, FailOrphan, Terminal
<1>4. CASE SkipFail \/ PreemptEnds \/ \E k \in TimerKinds : StartTimer(k)
  <2>1. ~Doing("start_waiting")
    BY <1>4 DEF SkipFail, PreemptEnds, StartTimer, Doing, TimerKinds
  <2>2. NoCall(cont'.todo)
    BY <1>1, <1>4 DEF SkipFail, PreemptEnds, StartTimer
  <2> QED BY <1>1, <1>4, <2>1, <2>2, QuietWaiters DEF SkipFail, PreemptEnds, StartTimer
<1>5. ASSUME NEW a \in ActionId, PreemptNext(a) PROVE WaiterInv'
  <2> DEFINE ops == <<Op("preempt", a), Scan(a, Head(cont.todo).size)>>
  <2>1. Op("preempt", a) \in Ops
    BY OpsType DEF OpNames, TimerKinds
  <2>2. Scan(a, Head(cont.todo).size) \in Ops
    BY <1>0, TodoType, OpsType, ConstantsAssumption DEF ActionId
  <2>3. ops \in Seq(Ops) /\ NoCall(ops)
    BY <2>1, <2>2 DEF NoCall, Op, Scan
  <2>4. \A b \in ActionId : status'[b] = IF b = a THEN "PREEMPTING" ELSE status[b]
    BY <1>0, <1>5 DEF PreemptNext, TypeOK
  <2>5. Lasting
    BY <1>5, <2>4 DEF PreemptNext, Lasting
  <2>6. Publish("preempt_requested", a, info[a].priority, cont.by, ops)
    BY <1>5 DEF PreemptNext
  <2>7. \A b \in ActionId : ~Calling(b)
    BY <1>1, <1>5 DEF PreemptNext, Doing
  <2> HIDE DEF ops
  <2> QED BY <1>5, <2>3, <2>4, <2>5, <2>6, <2>7, PublishWaiters DEF PreemptNext, Active
<1> QED BY <1>2, <1>3, <1>4, <1>5, WaiterCalledWaiters DEF Continue

LEMMA BusStepsWaiters == ASSUME WaiterInv, TimerInv', BusSteps PROVE WaiterInv'
<1>1. ASSUME NEW p \in parked, ResumePublish(p) PROVE WaiterInv'
  <2>1. Lasting /\ \A b \in ActionId : ~Calling(b)
    BY <1>1, FreeLoop DEF ResumePublish, Lasting
  <2>2. ContCalls'
    <3>1. CallFirst(p.todo)
      BY DEF WaiterInv, ParkedCalls, HighCall, CallFirst
    <3> QED BY <1>1, <3>1 DEF ResumePublish, ContCalls, CallFirst, Then, Idle
  <2>3. ParkedCalls'
    <3>1. \A q \in parked : q.todo \in Seq(Ops)
      BY DEF WaiterInv, TimerInv, TypeOK, Parked
    <3> QED BY <1>1, <2>1, <3>1, HighCallLasts DEF ResumePublish, WaiterInv, ParkedCalls
  <2> QED BY <1>1, <2>1, <2>2, <2>3, WaitersStep DEF ResumePublish
<1>2. ASSUME NEW p \in parked, DropPublish(p) PROVE WaiterInv'
  BY <1>2, FreeLoop, QuietWaiters DEF DropPublish
<1> QED BY <1>1, <1>2 DEF BusSteps

LEMMA WaiterInvStep == WaiterInv /\ [Next]_vars /\ TimerInv' => WaiterInv'
<1>1. ASSUME WaiterInv, TimerInv', Next PROVE WaiterInv'
  BY <1>1, RequestsWaiters, CallsWaiters, KernelWaiters, TimeoutsWaiters, ContinueWaiters,
     BusStepsWaiters DEF Next
<1>2. ASSUME WaiterInv, TimerInv', UNCHANGED vars PROVE WaiterInv'
  BY <1>2 DEF vars, WaiterInv, ContCalls, CallFirst, ParkedCalls, HighCall, WaitingBegan,
              WaiterCovered, Waits, Calling
<1> QED BY <1>1, <1>2

LEMMA WaiterInvInit == Init => WaiterInv
<1> SUFFICES ASSUME Init PROVE WaiterInv
  OBVIOUS
<1>1. TimerInv
  BY LockInvInit DEF LockInv
<1> QED BY <1>1 DEF Init, WaiterInv, ContCalls, CallFirst, ParkedCalls, WaitingBegan,
                    WaiterCovered, Waits, Idle, NoAction, ActionId

\* A call at the head of the loop is a pending operation.
LEMMA CallingIsPending ==
    ASSUME TimerInv, NEW b \in ActionId, Calling(b) PROVE Pending(Op("start_waiting", b))
<1>1. cont.todo \in Seq(Ops) /\ cont.todo # <<>> /\ Head(cont.todo) = Op("start_waiting", b)
  BY DEF Calling, TimerInv, TypeOK, Conts
<1>2. 1 \in DOMAIN cont.todo /\ cont.todo[1] = Op("start_waiting", b)
  BY <1>1
<1> QED BY <1>2 DEF Pending

\* Whatever is suspended, dropped, pruned or crashes in between, the waiter of an
\* action is left behind only when that action has the priority HIGH, whose end
\* is the one publish that can be suspended and lost with its handler.
THEOREM OnlyHighLeavesWaiters ==
    Spec => [](\A b \in ActionId : Waits(waiting[b]) =>
                  \/ status[b] \in Active \/ Pending(Op("start_waiting", b))
                  \/ info[b].priority = "HIGH")
<1>1. WaiterInv => \A b \in ActionId : Waits(waiting[b]) =>
                  \/ status[b] \in Active \/ Pending(Op("start_waiting", b))
                  \/ info[b].priority = "HIGH"
  BY CallingIsPending DEF WaiterInv, WaiterCovered
<1>2. Spec => []TimerInv
  BY TimersAreLive, PTL DEF TimerInv
<1> QED BY <1>1, <1>2, WaiterInvInit, WaiterInvStep, PTL DEF Spec

\* The priority of every action is one the requests come with.
LEMMA PrioritiesRequested ==
    Spec => [](\A a \in ActionId : info[a].priority \in Priorities \union {"NORMAL"})
<1> DEFINE P == \A a \in ActionId : info[a].priority \in Priorities \union {"NORMAL"}
<1>1. Init => P
  BY DEF Init
<1>2. P /\ TimerInv /\ [Next]_vars => P'
  <2>1. ASSUME P, TimerInv, NEW a \in ActionId, NEW r, NEW p \in Priorities, NEW b,
               info' = [info EXCEPT ![a] = [resource |-> r, priority |-> p, blocker |-> b]]
        PROVE  P'
    BY <2>1 DEF TimerInv, TypeOK
  <2>2. ASSUME P, TimerInv, Requests PROVE P'
    <3>1. PICK a \in ActionId, r \in Resources \union {NoResource}, p \in Priorities, by \in Callers :
            RequestRunning(a, r, p, by) \/ (r \in Resources /\ RequestWaiting(a, r, p, by))
      BY <2>2 DEF Requests
    <3>2. PICK b : info' = [info EXCEPT ![a] = [resource |-> r, priority |-> p, blocker |-> b]]
      BY <3>1 DEF RequestRunning, RequestWaiting
    <3> QED BY <2>1, <2>2, <3>2
  <2>3. ASSUME Next, ~Requests PROVE info' = info
    <3>1. CASE ModuleCalls \/ ControlCalls
      BY <3>1 DEF ModuleCalls, ControlCalls, CompleteAction, FailAction, MarkCancelled,
                  MarkPreempted, CancelAction, MarkDetached, Finish
    <3>2. CASE KernelCalls \/ BusSteps
      BY <3>2 DEF KernelCalls, Preempt, HealthUnavailable, ActionActivity, FailOrphans,
                  PruneTerminal, BusSteps, ResumePublish, DropPublish
    <3>3. CASE Timeouts \/ Continue
      BY <3>3 DEF Timeouts, WaitTimeout, CancelTimeoutExpires, PreemptTimeout, Finish, Continue,
                  NoWaiter, FailCrashed, FailOrphan, SkipFail, PreemptEnds, WaiterStarts,
                  WaiterFindsBusy, WaiterCalled, PreemptNext, StartTimer
    <3> QED BY <2>3, <3>1, <3>2, <3>3 DEF Next
  <2> QED BY <2>2, <2>3 DEF vars
<1>3. Spec => []TimerInv
  BY TimersAreLive, PTL DEF TimerInv
<1> QED BY <1>1, <1>2, <1>3, PTL DEF Spec

\* Where no request has the priority HIGH, no waiter is ever left behind.
THEOREM BlockersCallWaiters ==
    ASSUME "HIGH" \notin Priorities
    PROVE  Spec => []BlockerCallsWaiter
<1>1. (\A b \in ActionId : Waits(waiting[b]) =>
          \/ status[b] \in Active \/ Pending(Op("start_waiting", b))
          \/ info[b].priority = "HIGH")
      /\ (\A a \in ActionId : info[a].priority \in Priorities \union {"NORMAL"})
      => BlockerCallsWaiter
  BY DEF BlockerCallsWaiter
<1> QED BY <1>1, OnlyHighLeavesWaiters, PrioritiesRequested, PTL

-----------------------------------------------------------------------------
(***************************************************************************)
(* The deadline of a wait.  A waiting action is asked for by a coroutine   *)
(* that publishes the preemption first and starts the deadline after it:   *)
(* until then the deadline is the only thing that coroutine has to do.     *)
(***************************************************************************)
WillWait(a) == cont.todo = <<Op("wait", a)>>
WaitTimed   == \A a \in ActionId : status[a] = "WAITING_RESOURCE" =>
                   /\ info[a].blocker \in ActionId /\ status[info[a].blocker] # "absent"
                   /\ \/ timers[a]["wait"] > 0 \/ WillWait(a)
                      \/ info[info[a].blocker].priority = "HIGH"

WaitInv == TimerInv /\ WaitTimed

\* A step that makes no action wait, and takes no deadline from one that waits.
LEMMA WaitStep ==
    ASSUME WaitInv, TimerInv', Lasting,
           \A a \in ActionId : status'[a] = "WAITING_RESOURCE" =>
               /\ status[a] = "WAITING_RESOURCE"
               /\ timers[a]["wait"] > 0 => timers'[a]["wait"] > 0
               /\ WillWait(a) => timers'[a]["wait"] > 0
    PROVE  WaitInv'
<1>1. SUFFICES ASSUME NEW a \in ActionId, status'[a] = "WAITING_RESOURCE"
               PROVE  /\ info'[a].blocker \in ActionId /\ status'[info'[a].blocker] # "absent"
                      /\ timers'[a]["wait"] > 0 \/ info'[info'[a].blocker].priority = "HIGH"
  BY DEF WaitInv, WaitTimed
<1>2. /\ status[a] = "WAITING_RESOURCE"
      /\ info[a].blocker \in ActionId /\ status[info[a].blocker] # "absent"
      /\ timers[a]["wait"] > 0 \/ WillWait(a) \/ info[info[a].blocker].priority = "HIGH"
  BY <1>1 DEF WaitInv, WaitTimed
<1>3. info'[a] = info[a] /\ status'[info[a].blocker] # "absent"
      /\ info'[info[a].blocker] = info[info[a].blocker]
  BY <1>2 DEF Lasting
<1> QED BY <1>1, <1>2, <1>3

\* An ended action is not waiting, whatever happens to its own timers.
LEMMA EndWait ==
    ASSUME WaitInv, TimerInv', NEW a \in ActionId, Known(a),
           NEW final \in Status \ {"absent", "WAITING_RESOURCE"},
           status' = [status EXCEPT ![a] = final], info' = info,
           \A b \in ActionId : b # a => timers'[b] = timers[b],
           \A b \in ActionId : ~WillWait(b)
    PROVE  WaitInv'
<1>1. \A b \in ActionId : status'[b] = IF b = a THEN final ELSE status[b]
  BY DEF WaitInv, TimerInv, TypeOK
<1>2. Lasting
  BY <1>1 DEF Lasting
<1> QED BY <1>1, <1>2, WaitStep

\* With a free loop, or another operation to do, nobody is about to wait.
LEMMA NobodyWillWait ==
    ASSUME cont.todo = <<>> \/ ~Doing("wait") PROVE \A b \in ActionId : ~WillWait(b)
BY DEF WillWait, Doing, Op

\* The timers of the other actions are left alone.
LEMMA OtherTimers ==
    ASSUME TimerInv, NEW a \in ActionId,
           CancelTimeout(a) \/ \E kind \in TimerKinds : TimerFires(a, kind)
    PROVE  \A b \in ActionId : b # a => timers'[b] = timers[b]
<1>1. CASE CancelTimeout(a)
  <2>1. timers' = timers \/ \E kind \in TimerKinds : \E n : timers' = Counting(a, kind, n)
    BY <1>1 DEF CancelTimeout, TimerInv, TypeOK
  <2> QED BY <2>1 DEF Counting, TimerInv, TypeOK
<1>2. CASE \E kind \in TimerKinds : TimerFires(a, kind)
  BY <1>2 DEF TimerFires, Counting, TimerInv, TypeOK
<1> QED BY <1>1, <1>2

\* Setting the count of one kind leaves the deadline of the wait, and starting
\* the deadline makes it run.
LEMMA WaitCount ==
    ASSUME TimerInv, NEW a \in ActionId, NEW kind \in TimerKinds, NEW n \in Nat,
           timers' = Counting(a, kind, n), kind = "wait" => n > 0
    PROVE  \A b \in ActionId : timers[b]["wait"] > 0 => timers'[b]["wait"] > 0
<1>1. timers[a] \in [TimerKinds -> Nat] /\ "wait" \in TimerKinds
  BY DEF TimerInv, TypeOK, TimerKinds
<1>2. \A b \in ActionId : timers'[b] = IF b = a THEN [timers[a] EXCEPT ![kind] = n] ELSE timers[b]
  BY DEF Counting, TimerInv, TypeOK
<1>3. [timers[a] EXCEPT ![kind] = n]["wait"] = IF kind = "wait" THEN n ELSE timers[a]["wait"]
  BY <1>1
<1> QED BY <1>2, <1>3

LEMMA RequestsWait == ASSUME WaitInv, TimerInv', Requests PROVE WaitInv'
<1>1. PICK a \in ActionId, r \in Resources \union {NoResource}, p \in Priorities, by \in Callers :
        RequestRunning(a, r, p, by) \/ (r \in Resources /\ RequestWaiting(a, r, p, by))
  BY DEF Requests
<1>2. TypeOK /\ status[a] = "absent" /\ timers' = timers
  BY <1>1 DEF RequestRunning, RequestWaiting, Fresh, WaitInv, TimerInv
<1>3. \A b \in ActionId : ~WillWait(b)
  BY <1>1, NobodyWillWait DEF RequestRunning, RequestWaiting, LoopFree
<1>4. CASE RequestRunning(a, r, p, by)
  <2>1. \A b \in ActionId : /\ status'[b] = IF b = a THEN "RUNNING" ELSE status[b]
                            /\ b # a => info'[b] = info[b]
    BY <1>2, <1>4 DEF RequestRunning, TypeOK
  <2>2. Lasting
    BY <1>2, <2>1 DEF Lasting
  <2> QED BY <1>2, <1>3, <2>1, <2>2, WaitStep
<1>5. CASE r \in Resources /\ RequestWaiting(a, r, p, by)
  <2> DEFINE c == locks[r]
  <2>1. c \in ActionId /\ status[c] \in Active /\ c # a
    BY <1>2, <1>5 DEF RequestWaiting, ResourceIsOccupied, TypeOK, Active
  <2>2. \A b \in ActionId : /\ status'[b] = IF b = a THEN "WAITING_RESOURCE"
                                            ELSE IF b = c THEN "PREEMPTING" ELSE status[b]
                            /\ b # a => info'[b] = info[b]
    BY <1>2, <1>5, <2>1 DEF RequestWaiting, TypeOK
  <2>3. info'[a].blocker = c
    BY <1>2, <1>5 DEF RequestWaiting, TypeOK
  <2>4. WillWait(a)' \/ info[c].priority = "HIGH"
    BY <1>5 DEF RequestWaiting, Publish, Then, WillWait
  <2> HIDE DEF c
  <2>5. SUFFICES ASSUME NEW b \in ActionId, status'[b] = "WAITING_RESOURCE"
                 PROVE  /\ info'[b].blocker \in ActionId /\ status'[info'[b].blocker] # "absent"
                        /\ timers'[b]["wait"] > 0 \/ WillWait(b)'
                           \/ info'[info'[b].blocker].priority = "HIGH"
    BY DEF WaitInv, WaitTimed
  <2>6. CASE b = a
    BY <2>1, <2>2, <2>3, <2>4, <2>6
  <2>7. CASE b # a
    <3>1. status[b] = "WAITING_RESOURCE" /\ info'[b] = info[b]
      BY <2>2, <2>5, <2>7
    <3>2. /\ info[b].blocker \in ActionId /\ status[info[b].blocker] # "absent"
          /\ timers[b]["wait"] > 0 \/ info[info[b].blocker].priority = "HIGH"
      BY <1>3, <3>1 DEF WaitInv, WaitTimed
    <3> QED BY <1>2, <2>2, <3>1, <3>2
  <2> QED BY <2>6, <2>7
<1> QED BY <1>1, <1>4, <1>5

LEMMA CallsWait == ASSUME WaitInv, TimerInv', ModuleCalls \/ ControlCalls PROVE WaitInv'
<1>1. ASSUME NEW a \in ActionId, NEW by \in Callers,
             \/ CompleteAction(a, by) \/ FailAction(a, by)
             \/ MarkCancelled(a, by) \/ MarkPreempted(a, by)
      PROVE  WaitInv'
  <2>1. CancelTimeout(a) /\ Known(a) /\ \A b \in ActionId : ~WillWait(b)
    BY <1>1, NobodyWillWait DEF CompleteAction, FailAction, MarkCancelled, MarkPreempted, LoopFree
  <2>2. PICK final \in Terminal : status' = [status EXCEPT ![a] = final] /\ info' = info
    BY <1>1 DEF CompleteAction, FailAction, MarkCancelled, MarkPreempted, Finish, Terminal
  <2> QED BY <2>1, <2>2, OtherTimers, EndWait DEF WaitInv, Status, Terminal
<1>2. ASSUME NEW a \in ActionId, CancelAction(a) PROVE WaitInv'
  <2>1. Lasting /\ status' = status /\ timers' = timers
    BY <1>2 DEF CancelAction, Lasting
  <2> QED BY <1>2, <2>1, NobodyWillWait, WaitStep DEF CancelAction, LoopFree
<1>3. ASSUME NEW a \in ActionId, MarkDetached(a) PROVE WaitInv'
  BY <1>3, NobodyWillWait, EndWait DEF MarkDetached, LoopFree, Known, Status, Active
<1> QED BY <1>1, <1>2, <1>3 DEF ModuleCalls, ControlCalls

LEMMA KernelWait == ASSUME WaitInv, TimerInv', KernelCalls PROVE WaitInv'
<1>1. (\A b \in ActionId : ~WillWait(b)) /\ info' = info /\ timers' = timers
  BY NobodyWillWait DEF KernelCalls, Preempt, HealthUnavailable, ActionActivity, FailOrphans,
                        PruneTerminal, LoopFree
<1>2. CASE status' = status
  BY <1>1, <1>2, WaitStep DEF Lasting
<1>3. ASSUME NEW S \in SUBSET {a \in ActionId : status[a] \in Terminal}, PruneTerminal(S)
      PROVE  WaitInv'
  <2>1. \A b \in ActionId : status'[b] = IF b \in S THEN "pruned" ELSE status[b]
    BY <1>3 DEF PruneTerminal
  <2>2. Lasting
    BY <1>1, <2>1 DEF Lasting
  <2> QED BY <1>1, <2>1, <2>2, WaitStep
<1> QED BY <1>2, <1>3 DEF KernelCalls, Preempt, HealthUnavailable, ActionActivity, FailOrphans

LEMMA TimeoutsWait == ASSUME WaitInv, TimerInv', Timeouts PROVE WaitInv'
<1>0. TypeOK /\ \A b \in ActionId : ~WillWait(b)
  BY NobodyWillWait DEF Timeouts, WaitTimeout, CancelTimeoutExpires, PreemptTimeout, TimerFires,
                        LoopFree, WaitInv, TimerInv
<1>1. ASSUME NEW a \in ActionId, WaitTimeout(a) PROVE WaitInv'
  <2>1. info' = info /\ \A b \in ActionId : b # a => timers'[b] = timers[b]
    BY <1>1, OtherTimers DEF WaitTimeout, WaitInv, TimerKinds
  <2>2. CASE status[a] = "WAITING_RESOURCE" /\ status' = [status EXCEPT ![a] = "FAILED"]
    BY <1>0, <2>1, <2>2, EndWait DEF Known, Status, Terminal
  <2>3. CASE status[a] # "WAITING_RESOURCE" /\ status' = status
    BY <1>0, <2>1, <2>3, WaitStep DEF Lasting
  <2> QED BY <1>1, <2>2, <2>3 DEF WaitTimeout
<1>2. ASSUME NEW a \in ActionId, CancelTimeoutExpires(a) \/ PreemptTimeout(a) PROVE WaitInv'
  <2>1. info' = info /\ \A b \in ActionId : b # a => timers'[b] = timers[b]
    BY <1>2, OtherTimers DEF CancelTimeoutExpires, PreemptTimeout, Finish, WaitInv, TimerKinds
  <2>2. CASE status' = status
    <3>1. PICK kind \in {"cancel", "preempt"} :
            timers[a][kind] > 0 /\ timers' = Counting(a, kind, timers[a][kind] - 1)
      BY <1>2 DEF CancelTimeoutExpires, PreemptTimeout, TimerFires
    <3>2. kind \in TimerKinds /\ timers[a][kind] - 1 \in Nat
      BY <1>0, <3>1 DEF TypeOK, TimerKinds
    <3>3. \A b \in ActionId : timers[b]["wait"] > 0 => timers'[b]["wait"] > 0
      BY <3>1, <3>2, WaitCount DEF WaitInv
    <3> QED BY <1>0, <2>1, <2>2, <3>3, WaitStep DEF Lasting
  <2>3. CASE Known(a) /\ \E final \in Terminal : status' = [status EXCEPT ![a] = final]
    BY <1>0, <2>1, <2>3, EndWait DEF Status, Terminal
  <2> QED BY <1>2, <2>2, <2>3
       DEF CancelTimeoutExpires, PreemptTimeout, Finish, Known, Active, Terminal
<1> QED BY <1>1, <1>2 DEF Timeouts

LEMMA ContinueWait == ASSUME WaitInv, TimerInv', Continue PROVE WaitInv'
<1>0. TypeOK /\ cont.todo # <<>>
  BY DEF Continue, NoWaiter, FailCrashed, FailOrphan, SkipFail, PreemptEnds, WaiterStarts,
         WaiterFindsBusy, WaiterCalled, PreemptNext, StartTimer, Doing, WaitInv, TimerInv
<1>1. \A name \in OpNames : Doing(name) => Target \in ActionId
  BY <1>0, TodoType
<1>2. CASE NoWaiter \/ SkipFail \/ PreemptEnds
  <2>1. ~Doing("wait") /\ status' = status /\ info' = info /\ timers' = timers
    BY <1>2 DEF NoWaiter, SkipFail, PreemptEnds, Doing
  <2> QED BY <2>1, NobodyWillWait, WaitStep DEF Lasting
<1>3. CASE FailCrashed \/ FailOrphan
  <2>1. Target \in ActionId /\ ~Doing("wait") /\ Known(Target) /\ CancelTimeout(Target)
    BY <1>1, <1>3 DEF FailCrashed, FailOrphan, Doing, OpNames, Known
  <2>2. status' = [status EXCEPT ![Target] = "FAILED"] /\ info' = info
    BY <1>3 DEF FailCrashed, FailOrphan, Finish
  <2>3. PICK a \in ActionId : a = Target
    BY <2>1
  <2>4. CancelTimeout(a) /\ Known(a) /\ status' = [status EXCEPT ![a] = "FAILED"]
    BY <2>1, <2>2, <2>3
  <2>5. \A b \in ActionId : b # a => timers'[b] = timers[b]
    BY <2>4, OtherTimers DEF WaitInv
  <2> QED BY <2>1, <2>2, <2>4, <2>5, NobodyWillWait, EndWait DEF Status, Terminal
<1>4. ASSUME NEW w \in ActionId, WaiterStarts(w) \/ WaiterFindsBusy(w) PROVE WaitInv'
  <2>1. ~Doing("wait") /\ Known(w) /\ CancelTimeout(w) /\ info' = info
    BY <1>4 DEF WaiterStarts, WaiterFindsBusy, WaiterCalled, Doing, Waits, Known
  <2>2. PICK new \in {"RUNNING", "FAILED"} : status' = [status EXCEPT ![w] = new]
    BY <1>4 DEF WaiterStarts, WaiterFindsBusy
  <2> QED BY <2>1, <2>2, OtherTimers, NobodyWillWait, EndWait
       DEF WaitInv, Status, Active, Terminal
<1>5. ASSUME NEW k \in TimerKinds, StartTimer(k) PROVE WaitInv'
  <2>1. /\ Target \in ActionId /\ timers' = Counting(Target, k, timers[Target][k] + 1)
        /\ status' = status /\ info' = info
    BY <1>1, <1>5 DEF StartTimer, OpNames
  <2>2. PICK a \in ActionId : a = Target
    BY <2>1
  <2>3. timers' = Counting(a, k, timers[a][k] + 1) /\ timers[a][k] \in Nat
    BY <1>0, <2>1, <2>2 DEF TypeOK
  <2>4. \A b \in ActionId : timers[b]["wait"] > 0 => timers'[b]["wait"] > 0
    BY <2>3, WaitCount DEF WaitInv
  <2>5. \A b \in ActionId : WillWait(b) => k = "wait" /\ a = b
    BY <1>5, <2>2 DEF WillWait, StartTimer, Doing, Target, Op
  <2>6. k = "wait" => timers'[a]["wait"] > 0
    BY <1>0, <2>3, CountingType
  <2> QED BY <2>1, <2>4, <2>5, <2>6, WaitStep DEF Lasting
<1>6. ASSUME NEW a \in ActionId, PreemptNext(a) PROVE WaitInv'
  BY <1>6, NobodyWillWait, EndWait DEF PreemptNext, PreemptableAfter, Doing, Known, Status, Active
<1> QED BY <1>2, <1>3, <1>4, <1>5, <1>6 DEF Continue

LEMMA WaitInvStep == WaitInv /\ [Next]_vars /\ TimerInv' => WaitInv'
<1>1. ASSUME WaitInv, TimerInv', BusSteps PROVE WaitInv'
  BY <1>1, NobodyWillWait, WaitStep DEF BusSteps, ResumePublish, DropPublish, LoopFree, Lasting
<1>2. ASSUME WaitInv, TimerInv', UNCHANGED vars PROVE WaitInv'
  BY <1>2 DEF vars, WaitInv, WaitTimed, WillWait
<1> QED BY <1>1, <1>2, RequestsWait, CallsWait, KernelWait, TimeoutsWait, ContinueWait DEF Next

LEMMA WaitInvInit == Init => WaitInv
<1> SUFFICES ASSUME Init PROVE WaitInv
  OBVIOUS
<1>1. TimerInv
  BY LockInvInit DEF LockInv
<1> QED BY <1>1 DEF Init, WaitInv, WaitTimed

\* An operation that is alone in the loop is pending.
LEMMA WillWaitIsPending ==
    ASSUME NEW a \in ActionId, WillWait(a) PROVE Pending(Op("wait", a))
<1>1. 1 \in DOMAIN cont.todo /\ cont.todo[1] = Op("wait", a)
  BY DEF WillWait
<1> QED BY <1>1 DEF Pending

\* Nobody waits without a deadline: for every action in WAITING_RESOURCE the timer
\* of request_action that fails it runs or is the next thing its coroutine starts.
\* Cancelling, detaching, pruning and crashes in between never take it away.  The
\* one exception is a blocker of priority HIGH, whose preempt_requested can be
\* suspended, and lost with the handler that was to start the timer after it.
THEOREM WaitersAreTimed ==
    Spec => [](\A a \in ActionId : status[a] = "WAITING_RESOURCE" =>
                  \/ timers[a]["wait"] > 0 \/ Pending(Op("wait", a))
                  \/ info[info[a].blocker].priority = "HIGH")
<1>1. WaitInv => \A a \in ActionId : status[a] = "WAITING_RESOURCE" =>
                  \/ timers[a]["wait"] > 0 \/ Pending(Op("wait", a))
                  \/ info[info[a].blocker].priority = "HIGH"
  BY WillWaitIsPending DEF WaitInv, WaitTimed
<1>2. Spec => []TimerInv
  BY TimersAreLive, PTL DEF TimerInv
<1> QED BY <1>1, <1>2, WaitInvInit, WaitInvStep, PTL DEF Spec
=============================================================================
