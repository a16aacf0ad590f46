--------------------------- MODULE MCActionManager ---------------------------
(***************************************************************************)
(* Instances of ActionManager for TLC.  The full next-state relation is    *)
(* explored with two actions; the relations below leave calls out, to      *)
(* reach three actions on the part of the code they are about.             *)
(***************************************************************************)
EXTENDS ActionManager

\* Requests that preempt, module answers, detaching and the wait deadline.
PreemptionNext == \/ Requests \/ ModuleCalls \/ Timeouts \/ Continue \/ BusSteps
                  \/ \E a \in ActionId : MarkDetached(a)

\* The same with cancel requests and the orphan scan, for the liveness runs.
CallsNext == \/ PreemptionNext
             \/ \E a \in ActionId : CancelAction(a) \/ ActionActivity(a)
             \/ FailOrphans(Orphans)
FairCallsSpec == Init /\ [][CallsNext]_vars /\ Fairness

\* Preemption with the kernel loops that can be suspended in the middle.
ContentionNext ==
    \/ PreemptionNext
    \/ \E r \in Resources : HealthUnavailable(r)
    \/ \E S \in SUBSET Orphans : FailOrphans(S)
    \/ \E S \in SUBSET {a \in ActionId : status[a] \in Terminal} : PruneTerminal(S)
ContentionSpec == Init /\ [][ContentionNext]_vars
=============================================================================
