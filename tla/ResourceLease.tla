---------------------------- MODULE ResourceLease ----------------------------
(***************************************************************************)
(* What the action manager promises about exclusive resources, seen from   *)
(* outside: a resource is leased to at most one action at a time, a lease  *)
(* is granted only when the resource is free, an action holds at most one  *)
(* lease, and an action that gave its lease back, or was retired without   *)
(* one, never gets a lease again.                                          *)
(***************************************************************************)
CONSTANTS Resources, Ids, Nobody

VARIABLES lease,   \* the action each resource is leased to
          spent    \* the actions that can hold no lease any more

Holds(a) == \E r \in Resources : lease[r] = a

Init == lease = [r \in Resources |-> Nobody] /\ spent = {}

Grant(r, a) ==
    /\ lease[r] = Nobody
    /\ a \notin spent /\ ~Holds(a)
    /\ lease' = [lease EXCEPT ![r] = a]
    /\ UNCHANGED spent

Return(r) ==
    /\ lease[r] # Nobody
    /\ spent' = spent \union {lease[r]}
    /\ lease' = [lease EXCEPT ![r] = Nobody]

Retire(a) ==
    /\ ~Holds(a)
    /\ spent' = spent \union {a}
    /\ UNCHANGED lease

Next == \/ \E r \in Resources, a \in Ids : Grant(r, a)
        \/ \E r \in Resources : Return(r)
        \/ \E a \in Ids : Retire(a)

Spec == Init /\ [][Next]_<<lease, spent>>
=============================================================================
