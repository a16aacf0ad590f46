------------------------------- MODULE Daemon -------------------------------
(***************************************************************************)
(* The life of a roamerd process (__main__.py, app.py, the Supervisor and  *)
(* the socket of the ControlBridgeServer): how it starts its components    *)
(* one after the other, takes the control socket, is asked to stop, stops  *)
(* them in the reverse order, or dies half-way, and how the service starts *)
(* it again.  Several processes may be started beside each other; they     *)
(* share the path of the socket and nothing else.                          *)
(*                                                                         *)
(* A process holds at most one connection server, so a daemon that listens *)
(* is one member of `listening', whether or not the path still leads to it.*)
(***************************************************************************)
EXTENDS Integers

CONSTANTS
    Daemons,    \* the processes that run roamerd with one configuration
    Service,    \* the one systemd keeps alive
    Modules,    \* how many capability modules are registered before the bridge
    MaxFaults   \* bound: kills, failed starts and stops, signals, other starts

VARIABLES
    phase,      \* where each process is
    up,         \* the components it has started and not stopped
    requested,  \* _termination_requested
    stopEvent,  \* stop_event is set
    listening,  \* the processes whose server accepts connections
    path,       \* what the socket path leads to
    faults      \* history: how many faults there were

dvars == <<phase, up, requested, stopEvent, listening, path, faults>>

NoSocket == "no socket"
Stale    == "stale socket"

ASSUME DaemonAssumption ==
    /\ Service \in Daemons /\ NoSocket \notin Daemons /\ Stale \notin Daemons
    /\ Modules \in Nat \ {0} /\ MaxFaults \in Nat

Alive    == {d \in Daemons : phase[d] # "off"}
Stopping == {"closing", "draining", "stopping"}
Quiet    == UNCHANGED <<requested, stopEvent, listening, path, faults>>

Goes(d, p) == phase' = [phase EXCEPT ![d] = p]
Fault == faults < MaxFaults /\ faults' = faults + 1

DaemonInit ==
    /\ phase = [d \in Daemons |-> "off"] /\ up = [d \in Daemons |-> 0]
    /\ requested = [d \in Daemons |-> FALSE] /\ stopEvent = [d \in Daemons |-> FALSE]
    /\ listening = {} /\ path = NoSocket /\ faults = 0

-----------------------------------------------------------------------------
(* The end of a process. *)

\* The kernel closes the server, and the file of its socket stays.
Exit(d) ==
    /\ Goes(d, "off") /\ up' = [up EXCEPT ![d] = 0]
    /\ requested' = [requested EXCEPT ![d] = FALSE]
    /\ stopEvent' = [stopEvent EXCEPT ![d] = FALSE]
    /\ listening' = listening \ {d}
    /\ path' = IF path = d THEN Stale ELSE path

\* Killed, also by a signal that arrives before main installs its handlers.
Kill(d) == phase[d] # "off" /\ Fault /\ Exit(d)

-----------------------------------------------------------------------------
(* Start. *)

\* The service, or someone at a terminal, starts a process: it has no memory.
Launch(d) ==
    /\ phase[d] = "off" /\ Goes(d, "boot")
    /\ UNCHANGED <<up, requested, stopEvent, listening, path>>

Restart == Launch(Service) /\ UNCHANGED faults
LaunchOther(d) == d # Service /\ Launch(d) /\ Fault

\* The handlers are installed before the loop runs: a signal is remembered, and
\* wakes the main task when there is one to wake.
Signal(d) ==
    /\ phase[d] # "off" /\ ~requested[d] /\ Fault
    /\ requested' = [requested EXCEPT ![d] = TRUE]
    /\ stopEvent' = [stopEvent EXCEPT ![d] = phase[d] # "boot"]
    /\ UNCHANGED <<phase, up, listening, path>>

\* Mutant: the new event does not know of an earlier signal.
BootForgets(d) ==
    /\ phase[d] = "boot" /\ Goes(d, "starting") /\ UNCHANGED up /\ Quiet

\* _run publishes its loop and its event, and then looks at the flag.
BootRemembers(d) ==
    /\ phase[d] = "boot" /\ Goes(d, "starting")
    /\ stopEvent' = [stopEvent EXCEPT ![d] = requested[d]]
    /\ UNCHANGED <<up, requested, listening, path, faults>>

StartModule(d) ==
    /\ phase[d] = "starting" /\ up' = [up EXCEPT ![d] = @ + 1]
    /\ Goes(d, IF up[d] + 1 = Modules THEN "probing" ELSE "starting")
    /\ Quiet

\* The configuration or a component raises: nothing catches it below main.
StartFails(d) == phase[d] \in {"boot", "starting"} /\ Fault /\ Exit(d)

\* ControlBridgeServer.start connects to a path that exists: the server behind
\* it is active, or the file was left behind.
ProbeSocket(d) ==
    /\ phase[d] = "probing" /\ path \notin listening
    /\ Goes(d, IF path = NoSocket THEN "binding" ELSE "unlinking")
    /\ UNCHANGED up /\ Quiet

\* Mutant: whatever is at the path is taken for an active socket.
RefuseAny(d) == phase[d] = "probing" /\ path # NoSocket /\ Exit(d) /\ UNCHANGED faults

RefuseActive(d) == phase[d] = "probing" /\ path \in listening /\ Exit(d) /\ UNCHANGED faults

\* unlink() raises if another process was faster.
UnlinkSocket(d) ==
    /\ phase[d] = "unlinking"
    /\ \/ path = NoSocket /\ Exit(d) /\ UNCHANGED faults
       \/ /\ path # NoSocket /\ path' = NoSocket /\ Goes(d, "binding")
          /\ UNCHANGED <<up, requested, stopEvent, listening, faults>>

\* asyncio removes a socket it finds at the path and binds; another process may
\* bind between the two, and then the address is in use.
Bind(d) ==
    /\ phase[d] = "binding"
    /\ \/ /\ path' = d /\ listening' = listening \union {d} /\ Goes(d, "settling")
          /\ up' = [up EXCEPT ![d] = @ + 1]
          /\ UNCHANGED <<requested, stopEvent, faults>>
       \/ path # NoSocket /\ Exit(d) /\ UNCHANGED faults

\* run_until_idle has dispatched what the start published; the main task waits.
Settled(d) == phase[d] = "settling" /\ Goes(d, "serving") /\ UNCHANGED up /\ Quiet

-----------------------------------------------------------------------------
(* Stop: RoamerdApp.stop, the supervisor first, bridges before modules. *)

BeginStop(d) ==
    phase[d] = "serving" /\ stopEvent[d] /\ Goes(d, "closing") /\ UNCHANGED up /\ Quiet

\* Server.close; since Python 3.13 it also removes its own file.
CloseServer(d) ==
    /\ phase[d] = "closing" /\ Goes(d, "draining")
    /\ listening' = listening \ {d}
    /\ path' \in IF path = d THEN {Stale, NoSocket} ELSE {path}
    /\ UNCHANGED <<up, requested, stopEvent, faults>>

\* wait_closed returns at once before Python 3.12, and later when the last
\* connection is gone.
Drained(d) ==
    /\ phase[d] = "draining" /\ Goes(d, "stopping")
    /\ up' = [up EXCEPT ![d] = @ - 1] /\ Quiet

\* stop_timeout_sec expires first: TimeoutError leaves Supervisor.stop and
\* RoamerdApp.stop, and ends the process.
DrainTimeout(d, connected) ==
    phase[d] = "draining" /\ connected /\ Exit(d) /\ UNCHANGED faults

StopModule(d) ==
    /\ phase[d] = "stopping" /\ up[d] > 0
    /\ up' = [up EXCEPT ![d] = @ - 1] /\ UNCHANGED phase /\ Quiet

StopFails(d) == phase[d] = "stopping" /\ up[d] > 0 /\ Fault /\ Exit(d)

\* The action manager, the bus and the log are stopped, and main returns 0.
Finish(d) == phase[d] = "stopping" /\ up[d] = 0 /\ Exit(d) /\ UNCHANGED faults

-----------------------------------------------------------------------------
\* Steps after which the process is still there.
Runs(d) ==
    \/ BootRemembers(d) \/ StartModule(d) \/ ProbeSocket(d) \/ Settled(d)
    \/ BeginStop(d) \/ CloseServer(d) \/ Drained(d) \/ StopModule(d)

\* What its code does next: the scheduler lets it.
Proceeds(d, connected) ==
    \/ Runs(d) \/ RefuseActive(d) \/ UnlinkSocket(d) \/ Bind(d)
    \/ DrainTimeout(d, connected) \/ Finish(d)

Breaks(d) == Kill(d) \/ StartFails(d) \/ StopFails(d)

DaemonNext(d, connected) ==
    Proceeds(d, connected) \/ Breaks(d) \/ Signal(d) \/ LaunchOther(d)

-----------------------------------------------------------------------------
DaemonTypeOK ==
    /\ phase \in [Daemons -> {"off", "boot", "starting", "probing", "unlinking", "binding",
                              "settling", "serving"} \union Stopping]
    /\ up \in [Daemons -> 0 .. Modules + 1]
    /\ requested \in [Daemons -> BOOLEAN] /\ stopEvent \in [Daemons -> BOOLEAN]
    /\ listening \subseteq Alive
    /\ path \in Daemons \union {NoSocket, Stale}
    /\ faults \in 0 .. MaxFaults

\* A request to stop is never lost: a daemon that got SIGINT or SIGTERM ends,
\* also when the signal came before the event loop existed or in the middle of
\* the start (__main__.py:27-45).
StopHonoured == \A d \in Daemons : requested[d] ~> phase[d] = "off"

\* The file a dead daemon left behind does not keep the next one from its socket
\* (server.py:26-29): when nobody listens, somebody will.  It need not be the
\* service, and it may have lost the path: two that start together both find it
\* free, and the second to bind takes it from the first.
StaleSocketHarmless == listening = {} ~> listening # {}
=============================================================================
