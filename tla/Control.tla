------------------------------- MODULE Control -------------------------------
(***************************************************************************)
(* The control bridge of a roamerd process (bridges/control) with its      *)
(* clients, on top of the life of the process (Daemon).  A client connects *)
(* to whoever listens behind the path, sends one request and reads one     *)
(* answer.  A request that waits for the completion of its action is woken *)
(* by the terminal events of the bus or by its own deadline, which         *)
(* detaches the action.                                                    *)
(*                                                                         *)
(* Of the actions a client asked for the status of the latest is kept, of  *)
(* the earlier ones the events that are still queued.  The terminal events *)
(* are completed and aborted (failed, cancelled, preempted).               *)
(***************************************************************************)
EXTENDS Daemon, Sequences

CONSTANTS
    Clients,        \* each is a process that makes one request at a time
    MaxRequests     \* bound: requests that are sent

ASSUME ControlAssumption == Clients # {} /\ MaxRequests \in Nat

VARIABLES
    conn,       \* the daemon whose handler serves the client, or NoDaemon
    handler,    \* where that handler, _handle_client, is
    request,    \* the request it was sent
    gone,       \* the client left before its answer
    answer,     \* what the client was answered last
    action,     \* the status of the action of the client's last run request
    home,       \* the daemon that has that action
    events,     \* the queued terminal events of the client's actions
    ended,      \* history: its terminal events so far
    future,     \* the event that the waiting handler was given
    requests    \* history: how many requests were sent

cvars == <<conn, handler, request, gone, answer, action, home, events, ended, future, requests>>
vars == <<dvars, cvars>>

NoDaemon == "no daemon"
NoEvent == "no event"
NoRequest == "no request"
Terminal == {"completed", "aborted"}
Active == {"running", "waiting", "preempting", "detached"}
\* The statuses that _wait_for_completed_action detaches.
Detachable == {"running", "waiting", "preempting"}

\* The commands of the legacy command line: queries that answer at once and start
\* nothing (ping, status, session.start), and actions that it does not wait for.
LegacyRequests == {"query", "accepted"}

\* Others send a line the bridge cannot read, or wait for the completion; actions.list,
\* action.status and action.cancel are queries too: a cancellation asks the module
\* and leaves the end of the action to it and to the timer.
Requests == LegacyRequests \union {"completed"}

Init ==
    /\ DaemonInit
    /\ conn = [c \in Clients |-> NoDaemon] /\ handler = [c \in Clients |-> "none"]
    /\ request = [c \in Clients |-> NoRequest] /\ gone = [c \in Clients |-> FALSE]
    /\ answer = [c \in Clients |-> "none"] /\ action = [c \in Clients |-> "none"]
    /\ home = [c \in Clients |-> NoDaemon]
    /\ events = [c \in Clients |-> <<>>] /\ ended = [c \in Clients |-> {}]
    /\ future = [c \in Clients |-> NoEvent] /\ requests = 0

Connected(d) == \E c \in Clients : conn[c] = d

-----------------------------------------------------------------------------
(* The client: ControlClient.request, run by the legacy command line. *)

\* It connects: a connection is refused where nobody listens (exit code 69).
Connect(c) ==
    /\ handler[c] = "none" /\ requests < MaxRequests /\ requests' = requests + 1
    /\ IF path \in listening
         THEN /\ conn' = [conn EXCEPT ![c] = path]
              /\ handler' = [handler EXCEPT ![c] = "readline"]
              /\ answer' = [answer EXCEPT ![c] = "none"]
         ELSE answer' = [answer EXCEPT ![c] = "refused"] /\ UNCHANGED <<conn, handler>>
    /\ UNCHANGED <<dvars, request, gone, action, home, events, ended, future>>

Send(c, r) ==
    /\ handler[c] = "readline" /\ request[c] = NoRequest /\ ~gone[c]
    /\ request' = [request EXCEPT ![c] = r]
    /\ UNCHANGED <<dvars, conn, handler, gone, answer, action, home, events, ended, future, requests>>

\* The client has no timeout of its own, but it can be interrupted.  Its handler
\* does not notice while it waits; a handler that reads gets an empty line.
Abandon(c) ==
    /\ handler[c] # "none" /\ ~gone[c]
    /\ gone' = [gone EXCEPT ![c] = TRUE]
    /\ request' = [request EXCEPT ![c] = IF @ = NoRequest THEN "query" ELSE @]
    /\ UNCHANGED <<dvars, conn, handler, answer, action, home, events, ended, future, requests>>

-----------------------------------------------------------------------------
(* The handler: _handle_client and the router. *)

\* The answer is written, and the connection is closed whatever happened.
Reply(c, what) ==
    /\ answer' = [answer EXCEPT ![c] = IF gone[c] THEN "none" ELSE what]
    /\ handler' = [handler EXCEPT ![c] = "none"] /\ conn' = [conn EXCEPT ![c] = NoDaemon]
    /\ request' = [request EXCEPT ![c] = NoRequest] /\ gone' = [gone EXCEPT ![c] = FALSE]
    /\ future' = [future EXCEPT ![c] = NoEvent] /\ UNCHANGED requests

Asked(c, r) == handler[c] = "readline" /\ request[c] = r

\* Also ProtocolError, UNKNOWN_OP and ACTION_NOT_FOUND are answers.
AnswerAtOnce(c) ==
    Asked(c, "query") /\ Reply(c, "answered") /\ UNCHANGED <<dvars, action, home, events, ended>>

\* The admission refuses: unknown action, module not healthy (so everything that
\* needs a module until its module_ready was dispatched), resource busy.
RunRejected(c) ==
    /\ Asked(c, "accepted") \/ Asked(c, "completed")
    /\ Reply(c, "rejected") /\ UNCHANGED <<dvars, action, home, events, ended>>

NewAction(c, status) ==
    /\ action' = [action EXCEPT ![c] = status]
    /\ home' = [home EXCEPT ![c] = conn[c]]
    /\ events' = [events EXCEPT ![c] = [i \in DOMAIN @ |-> [@[i] EXCEPT !.latest = FALSE]]]
    /\ ended' = [ended EXCEPT ![c] = {}]

\* It starts, or waits for the action of lower priority that it preempts.
RunAccepted(c, status) ==
    Asked(c, "accepted") /\ Reply(c, "accepted") /\ NewAction(c, status) /\ UNCHANGED dvars

\* Nothing is awaited between the admission of a NORMAL action and subscribe.
RunWaits(c, status) ==
    /\ Asked(c, "completed") /\ handler' = [handler EXCEPT ![c] = "waiting"]
    /\ NewAction(c, status)
    /\ UNCHANGED <<dvars, conn, request, gone, answer, future, requests>>

\* Mutant: the handler takes the event of any action.
HearsAny(c, e) == handler[c] = "waiting"

\* handler: does the event name the action this request waits for.
Hears(c, e) == handler[c] = "waiting" /\ e.latest

WaitEnds(c) ==
    /\ handler[c] = "waiting" /\ future[c] # NoEvent
    /\ Reply(c, future[c])
    /\ UNCHANGED <<dvars, action, home, events, ended>>

\* Mutant: the deadline is answered only when there is something to detach.
TimesOutIfDetached(c) ==
    /\ handler[c] = "waiting" /\ action[c] \in Detachable /\ Reply(c, "timeout")
    /\ action' = [action EXCEPT ![c] = "detached"]
    /\ UNCHANGED <<dvars, home, events, ended>>

\* wait_for expires, since Python 3.12 also when the event has just arrived.
WaitTimesOut(c) ==
    /\ handler[c] = "waiting" /\ Reply(c, "timeout")
    /\ action' = [action EXCEPT ![c] = IF @ \in Detachable THEN "detached" ELSE @]
    /\ UNCHANGED <<dvars, home, events, ended>>

-----------------------------------------------------------------------------
(* The actions, as ActionManager and the modules move them. *)

ActionMoves(c, status) ==
    /\ \/ action[c] = "waiting" /\ status = "running"
       \/ action[c] \in {"running", "detached"} /\ status = "preempting"
    /\ action' = [action EXCEPT ![c] = status]
    /\ UNCHANGED <<dvars, conn, handler, request, gone, answer, home, events, ended, future, requests>>

\* complete, fail and the marks do not look at the status: a second one may come.
ActionEnds(c, how) ==
    /\ home[c] # NoDaemon /\ how \notin ended[c]
    /\ action' = [action EXCEPT ![c] = "ended"]
    /\ events' = [events EXCEPT ![c] = Append(@, [latest |-> TRUE, how |-> how])]
    /\ ended' = [ended EXCEPT ![c] = @ \union {how}]
    /\ UNCHANGED <<dvars, conn, handler, request, gone, answer, home, future, requests>>

Dispatch(c) ==
    /\ events[c] # <<>>
    /\ events' = [events EXCEPT ![c] = Tail(@)]
    /\ LET e == Head(events[c])
       IN  future' = [future EXCEPT ![c] = IF Hears(c, e) /\ @ = NoEvent THEN e.how ELSE @]
    /\ UNCHANGED <<dvars, conn, handler, request, gone, answer, action, home, ended, requests>>

-----------------------------------------------------------------------------
\* With the process go its handlers, whose clients read the end of the stream,
\* and its actions.
Forget(d) ==
    LET Cut(c) == conn[c] = d
        Lost(c) == home[c] = d
    IN  /\ conn' = [c \in Clients |-> IF Cut(c) THEN NoDaemon ELSE conn[c]]
        /\ handler' = [c \in Clients |-> IF Cut(c) THEN "none" ELSE handler[c]]
        /\ future' = [c \in Clients |-> IF Cut(c) THEN NoEvent ELSE future[c]]
        /\ answer' = [c \in Clients |-> IF Cut(c) /\ ~gone[c] THEN "eof" ELSE answer[c]]
        /\ home' = [c \in Clients |-> IF Lost(c) THEN NoDaemon ELSE home[c]]
        /\ action' = [c \in Clients |-> IF Lost(c) THEN "none" ELSE action[c]]
        /\ events' = [c \in Clients |-> IF Lost(c) THEN <<>> ELSE events[c]]
        /\ request' = [c \in Clients |-> IF Cut(c) THEN NoRequest ELSE request[c]]
        /\ gone' = [c \in Clients |-> IF Cut(c) THEN FALSE ELSE gone[c]]
        /\ UNCHANGED <<ended, requests>>

WithClients(d) == IF phase[d] # "off" /\ phase'[d] = "off" THEN Forget(d) ELSE UNCHANGED cvars

DaemonStep(d) == DaemonNext(d, Connected(d)) /\ WithClients(d)
DaemonProceeds(d) == Proceeds(d, Connected(d)) /\ WithClients(d)
ServiceRestart == Restart /\ UNCHANGED cvars

HandlerStep(c) ==
    \/ AnswerAtOnce(c) \/ RunRejected(c)
    \/ \E status \in {"running", "waiting"} : RunAccepted(c, status) \/ RunWaits(c, status)
    \/ WaitEnds(c) \/ WaitTimesOut(c)

ClientStep(c) == Connect(c) \/ (\E r \in Requests : Send(c, r)) \/ Abandon(c)

ActionStep(c) ==
    \/ \E status \in {"running", "preempting"} : ActionMoves(c, status)
    \/ \E how \in Terminal : ActionEnds(c, how)
    \/ Dispatch(c)

Next ==
    \/ ServiceRestart
    \/ \E d \in Daemons : DaemonStep(d)
    \/ \E c \in Clients : HandlerStep(c) \/ ClientStep(c) \/ ActionStep(c)

Spec == Init /\ [][Next]_vars

\* systemd starts the service whenever it is down (Restart=always); the event
\* loop of each process runs what is ready, timers included.  Clients, modules
\* and whoever starts another process owe nothing.
FairSpec ==
    /\ Spec /\ WF_vars(ServiceRestart)
    /\ \A d \in Daemons : WF_vars(DaemonProceeds(d))
    /\ \A c \in Clients : WF_vars(HandlerStep(c))

-----------------------------------------------------------------------------
TypeOK ==
    /\ DaemonTypeOK
    /\ conn \in [Clients -> Daemons \union {NoDaemon}]
    /\ handler \in [Clients -> {"none", "readline", "waiting"}]
    /\ request \in [Clients -> Requests \union {NoRequest}]
    /\ gone \in [Clients -> BOOLEAN]
    /\ answer \in [Clients -> {"none", "refused", "eof", "answered", "rejected", "accepted",
                               "completed", "aborted", "timeout"}]
    /\ action \in [Clients -> Active \union {"none", "ended"}]
    /\ home \in [Clients -> Daemons \union {NoDaemon}]
    /\ \A c \in Clients : events[c] \in Seq([latest : BOOLEAN, how : Terminal])
    /\ ended \in [Clients -> SUBSET Terminal]
    /\ future \in [Clients -> Terminal \union {NoEvent}]
    /\ requests \in 0 .. MaxRequests

\* A client is told how its own action ended and nobody else's: the handlers of
\* all requests see all terminal events (commands.py:111-122), and an event of an
\* earlier action of the same client may still be queued.
OwnOutcome ==
    \A c \in Clients : answer[c] \in Terminal => answer[c] \in ended[c]

\* A request that was sent gets an answer, or the end of the stream because its
\* daemon is gone (commands.py:104-143, server.py:58-79), whatever the action does.
Answered ==
    \A c \in Clients :
        (handler[c] # "none" /\ request[c] # NoRequest) ~> handler[c] = "none"
=============================================================================
