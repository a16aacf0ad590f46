-------------------------- MODULE PriorityDelivery --------------------------
(***************************************************************************)
(* What an event bus promises about the events modules publish, seen from  *)
(* outside.  Events are numbered as they are accepted.  An event is open   *)
(* until one server has shown it to all of its audience, one after the     *)
(* other; before that the server may give it back, and it is shown to all  *)
(* of them again.  The next to be served is one of the most urgent that    *)
(* wait, in the order of the numbers until the bus is closed.  Only        *)
(* droppable events are lost, the oldest of a tier first, and never one    *)
(* that is being served.                                                   *)
(***************************************************************************)
EXTENDS Integers

CONSTANTS Items,       \* the events; the field n is their number
          Tier,        \* how urgent each of them is; tier 0 is the first
          Droppable,   \* the events that may be lost
          Audience,    \* the numbers of those each event is for
          Servers,
          Nothing

VARIABLES open,      \* the events that are accepted and neither over nor lost
          serving,   \* the one each server has
          left,      \* those of its audience it has not been shown to
          over,      \* the numbers of the events that have been served
          made,      \* how many have been accepted
          closed     \* whether the bus is told to close

vars == <<open, serving, left, over, made, closed>>

Waiting == open \ {serving[s] : s \in Servers}
Free(s) == serving[s] = Nothing /\ (~closed => \A t \in Servers : serving[t] = Nothing)

\* The event that is served next.
First(e) ==
    /\ e \in Waiting
    /\ \A x \in Waiting : Tier[e] <= Tier[x]
    /\ ~closed => \A x \in Waiting : Tier[x] = Tier[e] => e.n <= x.n

\* What may be lost of the events that wait.
MayGo(lost, waiting) ==
    /\ lost \subseteq waiting \intersect Droppable
    /\ ~closed => \A x \in lost, y \in waiting \ lost : Tier[x] = Tier[y] => x.n < y.n

Init == /\ open = {} /\ over = {} /\ made = 0 /\ closed = FALSE
        /\ serving = [s \in Servers |-> Nothing] /\ left = [s \in Servers |-> {}]

\* An event is accepted, and others or the event itself are lost to make room.
Accept(e) ==
    /\ e.n = made + 1 /\ made' = made + 1
    /\ \E lost \in SUBSET (Waiting \union {e}) :
          MayGo(lost, Waiting \union {e}) /\ open' = (open \union {e}) \ lost
    /\ UNCHANGED <<serving, left, over, closed>>

Lose ==
    /\ \E lost \in SUBSET Waiting : MayGo(lost, Waiting) /\ open' = open \ lost
    /\ UNCHANGED <<serving, left, over, made, closed>>

Begin(s, e) ==
    /\ Free(s) /\ First(e) /\ Audience[e] # {}
    /\ serving' = [serving EXCEPT ![s] = e]
    /\ left' = [left EXCEPT ![s] = Audience[e]]
    /\ UNCHANGED <<open, over, made, closed>>

\* An event nobody wants is over at once.
Pass(s, e) ==
    /\ Free(s) /\ First(e) /\ Audience[e] = {}
    /\ open' = open \ {e} /\ over' = over \union {e.n}
    /\ UNCHANGED <<serving, left, made, closed>>

\* The first of those left has seen the event, or has had its time.
Show(s) ==
    /\ serving[s] # Nothing
    /\ \E c \in left[s] : (\A x \in left[s] : c <= x) /\ left' = [left EXCEPT ![s] = left[s] \ {c}]
    /\ IF left'[s] # {}
         THEN UNCHANGED <<open, serving, over>>
         ELSE /\ open' = open \ {serving[s]} /\ over' = over \union {serving[s].n}
              /\ serving' = [serving EXCEPT ![s] = Nothing]
    /\ UNCHANGED <<made, closed>>

GiveBack(s) ==
    /\ serving[s] # Nothing /\ Tier[serving[s]] > 0
    /\ serving' = [serving EXCEPT ![s] = Nothing]
    /\ left' = [left EXCEPT ![s] = {}]
    /\ UNCHANGED <<open, over, made, closed>>

Close == closed' = TRUE /\ UNCHANGED <<open, serving, left, over, made>>

Next ==
    \/ \E e \in Items : Accept(e)
    \/ \E s \in Servers, e \in Items : Begin(s, e) \/ Pass(s, e)
    \/ \E s \in Servers : Show(s) \/ GiveBack(s)
    \/ Lose \/ Close

Spec == Init /\ [][Next]_vars
=============================================================================
