---------------------------- MODULE ControlProofs ----------------------------
(***************************************************************************)
(* Theorems about the life of roamerd processes and the answers of their   *)
(* control bridge, for every number of processes, modules and clients.     *)
(***************************************************************************)
EXTENDS Control, SequenceTheorems, TLAPS

-----------------------------------------------------------------------------
(***************************************************************************)
(* The processes.  What a process has started follows from where it is,    *)
(* and so does whether it accepts connections; the socket path leads to a  *)
(* process that does, to a file left behind, or nowhere.                   *)
(***************************************************************************)
Phases == {"off", "boot", "starting", "probing", "unlinking", "binding",
           "settling", "serving"} \union Stopping

UpTo(p) == CASE p \in {"off", "boot"} -> 0 .. 0
             [] p = "starting" -> 0 .. Modules - 1
             [] p \in {"probing", "unlinking", "binding"} -> Modules .. Modules
             [] p \in {"settling", "serving", "closing", "draining"} -> Modules + 1 .. Modules + 1
             [] p = "stopping" -> 0 .. Modules

Accepting == {"settling", "serving", "closing"}

PhaseTypeOK == /\ phase \in [Daemons -> Phases] /\ up \in [Daemons -> Nat]
               /\ path \in Daemons \union {NoSocket, Stale} /\ faults \in 0 .. MaxFaults
FlagTypeOK == requested \in [Daemons -> BOOLEAN] /\ stopEvent \in [Daemons -> BOOLEAN]
StartedMatchesPhase == \A d \in Daemons : up[d] \in UpTo(phase[d])
ListeningMatchesPhase == listening = {d \in Daemons : phase[d] \in Accepting}
PathLeadsToListener == path \in Daemons => path \in listening

PlaceInv == PhaseTypeOK /\ StartedMatchesPhase /\ ListeningMatchesPhase /\ PathLeadsToListener

\* What is started when, written out.
LEMMA UpToIs ==
    /\ UpTo("off") = 0 .. 0 /\ UpTo("boot") = 0 .. 0 /\ UpTo("starting") = 0 .. Modules - 1
    /\ \A p \in {"probing", "unlinking", "binding"} : UpTo(p) = Modules .. Modules
    /\ \A p \in {"settling", "serving", "closing", "draining"} : UpTo(p) = Modules + 1 .. Modules + 1
    /\ UpTo("stopping") = 0 .. Modules
BY DEF UpTo

\* A process goes to another place with what it has started there.
LEMMA PlaceStep ==
    ASSUME PlaceInv, NEW d \in Daemons, NEW p \in Phases, NEW n \in UpTo(p), n \in Nat,
           Goes(d, p), up' = [up EXCEPT ![d] = n],
           listening' = IF p \in Accepting THEN listening \union {d} ELSE listening \ {d},
           path' \in Daemons \union {NoSocket, Stale}, faults' \in 0 .. MaxFaults,
           path' \in Daemons => path' \in listening'
    PROVE  PlaceInv'
<1> USE DEF PlaceInv, PhaseTypeOK
<1>1. /\ phase' \in [Daemons -> Phases] /\ up' \in [Daemons -> Nat]
      /\ \A e \in Daemons : phase'[e] = IF e = d THEN p ELSE phase[e]
      /\ \A e \in Daemons : up'[e] = IF e = d THEN n ELSE up[e]
  BY DEF Goes
<1>2. StartedMatchesPhase'
  <2>1. \A e \in Daemons : up'[e] \in UpTo(phase'[e])
    BY <1>1 DEF StartedMatchesPhase
  <2> QED BY <2>1 DEF StartedMatchesPhase, UpTo
<1>3. ListeningMatchesPhase'
  BY <1>1 DEF ListeningMatchesPhase
<1> QED BY <1>1, <1>2, <1>3 DEF PathLeadsToListener

\* The end of a process, however it comes: nothing is left but perhaps the file.
LEMMA ExitPlace ==
    ASSUME PlaceInv, NEW d \in Daemons, Exit(d), faults' \in 0 .. MaxFaults
    PROVE  PlaceInv'
<1>1. "off" \in Phases /\ "off" \notin Accepting /\ 0 \in UpTo("off")
  BY UpToIs DEF Phases, Accepting
<1>2. path' \in Daemons \union {NoSocket, Stale} /\ (path' \in Daemons => path' \in listening')
  BY DaemonAssumption DEF Exit, PlaceInv, PhaseTypeOK, PathLeadsToListener
<1> QED BY <1>1, <1>2, PlaceStep DEF Exit

\* A fault is counted.
LEMMA FaultCounts == ASSUME PlaceInv, Fault PROVE faults' \in 0 .. MaxFaults
BY DaemonAssumption DEF Fault, PlaceInv, PhaseTypeOK

LEMMA BreaksPlace == ASSUME PlaceInv, NEW d \in Daemons, Breaks(d) PROVE PlaceInv'
BY ExitPlace, FaultCounts DEF Breaks, Kill, StartFails, StopFails

\* A process starts with nothing, and only one that is off is started.
LEMMA LaunchPlace ==
    ASSUME PlaceInv, NEW d \in Daemons, Launch(d), faults' \in 0 .. MaxFaults
    PROVE  PlaceInv'
<1>1. "boot" \in Phases /\ "boot" \notin Accepting /\ 0 \in UpTo("boot")
  BY UpToIs DEF Phases, Accepting
<1>2. up[d] = 0 /\ d \notin listening
  BY UpToIs DEF Launch, PlaceInv, StartedMatchesPhase, ListeningMatchesPhase, Accepting
<1>3. up' = [up EXCEPT ![d] = 0] /\ listening' = listening \ {d}
  BY <1>2 DEF Launch, PlaceInv, PhaseTypeOK
<1> QED BY <1>1, <1>3, PlaceStep DEF Launch, PlaceInv, PhaseTypeOK, PathLeadsToListener

\* A process goes on and its socket stays what it is.
LEMMA QuietPlace ==
    ASSUME PlaceInv, NEW d \in Daemons, NEW p \in Phases, NEW n \in UpTo(p), n \in Nat,
           Goes(d, p), up' = [up EXCEPT ![d] = n], UNCHANGED <<listening, path, faults>>,
           p \in Accepting <=> phase[d] \in Accepting
    PROVE  PlaceInv'
<1>1. listening' = IF p \in Accepting THEN listening \union {d} ELSE listening \ {d}
  BY DEF PlaceInv, ListeningMatchesPhase
<1> QED BY <1>1, PlaceStep DEF PlaceInv, PhaseTypeOK, PathLeadsToListener

\* Every step of a process that stays alive, and those in which it sees that it cannot.
LEMMA ProceedsPlace ==
    ASSUME PlaceInv, NEW d \in Daemons, NEW connected, Proceeds(d, connected)
    PROVE  PlaceInv'
<1>1. /\ phase \in [Daemons -> Phases] /\ up \in [Daemons -> Nat] /\ Modules \in Nat \ {0}
      /\ up = [up EXCEPT ![d] = up[d]] /\ up[d] \in UpTo(phase[d]) /\ up[d] \in Nat
      /\ faults \in 0 .. MaxFaults
  BY DaemonAssumption DEF PlaceInv, PhaseTypeOK, StartedMatchesPhase
<1>2. CASE BootRemembers(d)
  <2>1. up[d] = 0 /\ 0 \in UpTo("starting")
    BY <1>1, <1>2, UpToIs DEF BootRemembers
  <2> QED BY <1>1, <1>2, <2>1, QuietPlace DEF BootRemembers, Phases, Accepting
<1>3. CASE StartModule(d)
  <2> DEFINE p == IF up[d] + 1 = Modules THEN "probing" ELSE "starting"
  <2>1. p \in Phases /\ p \notin Accepting /\ up[d] + 1 \in UpTo(p) /\ up[d] + 1 \in Nat
    BY <1>1, <1>3, UpToIs DEF StartModule, Phases, Accepting
  <2>2. Goes(d, p) /\ up' = [up EXCEPT ![d] = up[d] + 1]
    BY <1>3 DEF StartModule
  <2> HIDE DEF p
  <2> QED BY <1>3, <2>1, <2>2, QuietPlace DEF StartModule, Quiet, Accepting
<1>4. CASE ProbeSocket(d)
  <2>1. PICK p \in {"binding", "unlinking"} : Goes(d, p)
    BY <1>4 DEF ProbeSocket
  <2>2. p \in Phases /\ p \notin Accepting /\ up[d] \in UpTo(p)
    BY <1>1, <1>4, UpToIs DEF ProbeSocket, Phases, Accepting
  <2> QED BY <1>1, <1>4, <2>1, <2>2, QuietPlace DEF ProbeSocket, Quiet, Accepting
<1>5. CASE RefuseActive(d) \/ DrainTimeout(d, connected) \/ Finish(d)
  BY <1>1, <1>5, ExitPlace DEF RefuseActive, DrainTimeout, Finish
<1>6. CASE UnlinkSocket(d)
  <2>1. CASE Exit(d) /\ UNCHANGED faults
    BY <1>1, <2>1, ExitPlace
  <2>2. CASE path' = NoSocket /\ Goes(d, "binding") /\ UNCHANGED <<up, listening, faults>>
    <3>1. up[d] \in UpTo("binding") /\ "binding" \in Phases \ Accepting
      BY <1>1, <1>6, UpToIs DEF UnlinkSocket, Phases, Accepting
    <3>2. listening' = listening \ {d}
      BY <1>6, <2>2 DEF UnlinkSocket, PlaceInv, ListeningMatchesPhase, Accepting
    <3> QED BY <1>1, <2>2, <3>1, <3>2, DaemonAssumption, PlaceStep
  <2> QED BY <1>6, <2>1, <2>2 DEF UnlinkSocket
<1>7. CASE Bind(d)
  <2>1. CASE Exit(d) /\ UNCHANGED faults
    BY <1>1, <2>1, ExitPlace
  <2>2. CASE /\ path' = d /\ listening' = listening \union {d} /\ Goes(d, "settling")
             /\ up' = [up EXCEPT ![d] = up[d] + 1] /\ UNCHANGED faults
    <3>1. /\ up[d] + 1 \in UpTo("settling") /\ up[d] + 1 \in Nat
          /\ "settling" \in Phases /\ "settling" \in Accepting
      BY <1>1, <1>7, UpToIs DEF Bind, Phases, Accepting
    <3> QED BY <1>1, <2>2, <3>1, PlaceStep
  <2> QED BY <1>7, <2>1, <2>2 DEF Bind
<1>8. CASE Settled(d) \/ BeginStop(d)
  <2>1. PICK p \in {"serving", "closing"} : Goes(d, p)
    BY <1>8 DEF Settled, BeginStop
  <2>2. p \in Phases /\ p \in Accepting /\ up[d] \in UpTo(p)
    BY <1>1, <1>8, UpToIs DEF Settled, BeginStop, Phases, Stopping, Accepting
  <2> QED BY <1>1, <1>8, <2>1, <2>2, QuietPlace DEF Settled, BeginStop, Quiet, Accepting
<1>9. CASE CloseServer(d)
  <2>1. up[d] \in UpTo("draining") /\ "draining" \in Phases \ Accepting
    BY <1>1, <1>9, UpToIs DEF CloseServer, Phases, Stopping, Accepting
  <2>2. path' \in Daemons \union {NoSocket, Stale} /\ (path' \in Daemons => path' \in listening')
    BY <1>9, DaemonAssumption DEF CloseServer, PlaceInv, PhaseTypeOK, PathLeadsToListener
  <2> QED BY <1>1, <1>9, <2>1, <2>2, PlaceStep DEF CloseServer
<1>10. CASE Drained(d) \/ StopModule(d)
  <2>1. up[d] - 1 \in UpTo("stopping") /\ up[d] - 1 \in Nat /\ "stopping" \in Phases \ Accepting
    BY <1>1, <1>10, UpToIs DEF Drained, StopModule, Phases, Stopping, Accepting
  <2>2. Goes(d, "stopping") /\ up' = [up EXCEPT ![d] = up[d] - 1]
    BY <1>1, <1>10 DEF Drained, StopModule, Goes
  <2>3. phase[d] \notin Accepting /\ UNCHANGED <<listening, path, faults>>
    BY <1>10 DEF Drained, StopModule, Accepting, Quiet
  <2> QED BY <2>1, <2>2, <2>3, QuietPlace
<1> QED BY <1>2, <1>3, <1>4, <1>5, <1>6, <1>7, <1>8, <1>9, <1>10 DEF Proceeds, Runs

LEMMA DaemonPlace ==
    ASSUME PlaceInv, NEW d \in Daemons, NEW connected, DaemonNext(d, connected)
    PROVE  PlaceInv'
<1>1. CASE Signal(d)
  <2>1. faults' \in 0 .. MaxFaults
    BY <1>1, FaultCounts DEF Signal
  <2> QED BY <1>1, <2>1 DEF Signal, PlaceInv, PhaseTypeOK, StartedMatchesPhase,
                           ListeningMatchesPhase, PathLeadsToListener, UpTo
<1>2. CASE LaunchOther(d)
  BY <1>2, FaultCounts, LaunchPlace DEF LaunchOther
<1> QED BY <1>1, <1>2, ProceedsPlace, BreaksPlace DEF DaemonNext

\* The flags of a termination request are flags.
LEMMA DaemonFlags ==
    ASSUME FlagTypeOK, NEW d \in Daemons, NEW connected,
           DaemonNext(d, connected) \/ Restart
    PROVE  FlagTypeOK'
<1>1. CASE Signal(d)
  <2>1. (phase[d] # "boot") \in BOOLEAN
    OBVIOUS
  <2> QED BY <1>1, <2>1 DEF Signal, FlagTypeOK
<1>2. CASE BootRemembers(d)
  BY <1>2 DEF BootRemembers, FlagTypeOK
<1>3. ASSUME Exit(d) PROVE FlagTypeOK'
  BY <1>3 DEF Exit, FlagTypeOK
<1>4. ASSUME UNCHANGED <<requested, stopEvent>> PROVE FlagTypeOK'
  BY <1>4 DEF FlagTypeOK
<1>5. CASE Restart \/ LaunchOther(d)
  BY <1>4, <1>5 DEF Restart, LaunchOther, Launch
<1>6. CASE Breaks(d)
  BY <1>3, <1>6 DEF Breaks, Kill, StartFails, StopFails
<1>7. CASE Proceeds(d, connected)
  BY <1>2, <1>3, <1>4, <1>7
     DEF Proceeds, Runs, StartModule, ProbeSocket, Settled, BeginStop, CloseServer, Drained,
         StopModule, RefuseActive, UnlinkSocket, Bind, DrainTimeout, Finish, Quiet
<1> QED BY <1>1, <1>5, <1>6, <1>7 DEF DaemonNext

DaemonInv == PlaceInv /\ FlagTypeOK

\* The invariant of the processes implies their types.
LEMMA DaemonInvTypes == DaemonInv => DaemonTypeOK
<1> SUFFICES ASSUME DaemonInv PROVE DaemonTypeOK
  OBVIOUS
<1>1. \A d \in Daemons : UpTo(phase[d]) \subseteq 0 .. Modules + 1
  <2>1. \A p \in Phases : UpTo(p) \subseteq 0 .. Modules + 1
    BY UpToIs, DaemonAssumption DEF Phases, Stopping
  <2> QED BY <2>1 DEF DaemonInv, PlaceInv, PhaseTypeOK
<1>2. up \in [Daemons -> 0 .. Modules + 1]
  BY <1>1 DEF DaemonInv, PlaceInv, PhaseTypeOK, StartedMatchesPhase
<1>3. listening \subseteq Alive
  BY DEF DaemonInv, PlaceInv, ListeningMatchesPhase, Accepting, Alive
<1> QED BY <1>2, <1>3 DEF DaemonInv, PlaceInv, PhaseTypeOK, FlagTypeOK, DaemonTypeOK, Phases

LEMMA DaemonInvInit == DaemonInit => DaemonInv
<1> SUFFICES ASSUME DaemonInit PROVE DaemonInv
  OBVIOUS
<1>1. \A d \in Daemons : phase[d] = "off" /\ up[d] = 0
  BY DEF DaemonInit
<1>2. StartedMatchesPhase
  <2>1. 0 \in UpTo("off")
    BY UpToIs
  <2> QED BY <1>1, <2>1 DEF StartedMatchesPhase
<1> QED BY <1>1, <1>2, DaemonAssumption
     DEF DaemonInit, DaemonInv, PlaceInv, PhaseTypeOK, FlagTypeOK, ListeningMatchesPhase,
         PathLeadsToListener, Phases, Accepting

-----------------------------------------------------------------------------
(***************************************************************************)
(* The clients.  OwnOutcome needs that what is on its way to an answer is  *)
(* true already: the latest events that are queued, and the event that the *)
(* waiting handler was given.                                              *)
(***************************************************************************)
Answers == {"none", "refused", "eof", "answered", "rejected", "accepted",
            "completed", "aborted", "timeout"}
Event == [latest : BOOLEAN, how : Terminal]

HandlerTypeOK ==
    /\ conn \in [Clients -> Daemons \union {NoDaemon}]
    /\ handler \in [Clients -> {"none", "readline", "waiting"}]
    /\ request \in [Clients -> Requests \union {NoRequest}]
    /\ answer \in [Clients -> Answers]
    /\ future \in [Clients -> Terminal \union {NoEvent}]
    /\ requests \in 0 .. MaxRequests

GoneTypeOK == gone \in [Clients -> BOOLEAN]

ActionTypeOK ==
    /\ action \in [Clients -> Active \union {"none", "ended"}]
    /\ home \in [Clients -> Daemons \union {NoDaemon}]
    /\ ended \in [Clients -> SUBSET Terminal]

EventsTypeOK == events \in [Clients -> Seq(Event)]

EventsTrue == \A c \in Clients : \A i \in DOMAIN events[c] :
                  events[c][i].latest => events[c][i].how \in ended[c]
FutureTrue == \A c \in Clients : future[c] # NoEvent =>
                  handler[c] = "waiting" /\ future[c] \in ended[c]
AnswerTrue == \A c \in Clients : answer[c] \in Terminal =>
                  handler[c] = "none" /\ answer[c] \in ended[c]

ClientInv == /\ HandlerTypeOK /\ ActionTypeOK /\ EventsTypeOK
             /\ EventsTrue /\ FutureTrue /\ AnswerTrue

\* A reply closes the connection and leaves an answer, unless the client left.
LEMMA ReplyInv ==
    ASSUME ClientInv, NEW c \in Clients, NEW what \in Answers, Reply(c, what),
           what \in Terminal => what \in ended[c]
    PROVE  HandlerTypeOK' /\ (UNCHANGED ended => FutureTrue' /\ AnswerTrue')
<1>1. "none" \in Answers /\ "none" \notin Terminal
  BY DEF Answers, Terminal
<1>2. HandlerTypeOK'
  BY <1>1 DEF Reply, ClientInv, HandlerTypeOK
<1>3. /\ handler'[c] = "none" /\ future'[c] = NoEvent /\ answer'[c] \in {"none", what}
      /\ \A x \in Clients \ {c} : handler'[x] = handler[x] /\ future'[x] = future[x]
                                  /\ answer'[x] = answer[x]
  BY DEF Reply, ClientInv, HandlerTypeOK
<1>4. UNCHANGED ended => FutureTrue'
  BY <1>3 DEF ClientInv, FutureTrue
<1>5. UNCHANGED ended => AnswerTrue'
  BY <1>1, <1>3 DEF ClientInv, AnswerTrue
<1> QED BY <1>2, <1>4, <1>5

\* An event that is not the latest any more is still an event.
LEMMA OldEvent ==
    ASSUME NEW e \in Event
    PROVE  /\ [e EXCEPT !.latest = FALSE] \in Event
           /\ [e EXCEPT !.latest = FALSE].latest = FALSE
<1>1. [e EXCEPT !.latest = FALSE] \in Event
  BY Zenon DEF Event
<1>2. [e EXCEPT !.latest = FALSE].latest = FALSE
  BY DEF Event
<1> QED BY <1>1, <1>2

\* What is behind the first event of a queue.
LEMMA TailOf ==
    ASSUME NEW s \in Seq(Event), s # <<>>
    PROVE  /\ Tail(s) \in Seq(Event) /\ 1 \in DOMAIN s /\ Head(s) = s[1] /\ Head(s) \in Event
           /\ \A i \in DOMAIN Tail(s) : i + 1 \in DOMAIN s /\ Tail(s)[i] = s[i + 1]
<1> DEFINE S == Event
<1>1. s \in Seq(S)
  OBVIOUS
<1> HIDE DEF S
<1>2. /\ Tail(s) \in Seq(S) /\ 1 \in DOMAIN s /\ Head(s) = s[1] /\ Head(s) \in S
      /\ \A i \in DOMAIN Tail(s) : i + 1 \in DOMAIN s /\ Tail(s)[i] = s[i + 1]
  BY <1>1
<1> QED BY <1>2 DEF S

\* A sequence made element by element.
LEMMA SeqOfEvents ==
    ASSUME NEW n \in Nat, NEW F, F = [i \in 1 .. n |-> F[i]], \A i \in 1 .. n : F[i] \in Event
    PROVE  F \in Seq(Event)
OBVIOUS

\* A new action has no ends yet, and the queued events are those of earlier ones.
LEMMA NewActionInv ==
    ASSUME ClientInv, NEW c \in Clients, NEW status \in {"running", "waiting"},
           NewAction(c, status)
    PROVE  /\ ActionTypeOK' /\ EventsTypeOK' /\ EventsTrue'
           /\ \A x \in Clients \ {c} : ended'[x] = ended[x]
<1>1. events[c] \in Seq(Event) /\ conn[c] \in Daemons \union {NoDaemon}
  BY DEF ClientInv, EventsTypeOK, HandlerTypeOK
<1> DEFINE old == [i \in DOMAIN events[c] |-> [events[c][i] EXCEPT !.latest = FALSE]]
<1>2. old \in Seq(Event) /\ \A i \in DOMAIN old : old[i].latest = FALSE
  <2>1. DOMAIN events[c] = 1 .. Len(events[c]) /\ Len(events[c]) \in Nat
        /\ \A i \in DOMAIN events[c] : events[c][i] \in Event
    BY <1>1
  <2>2. \A i \in DOMAIN events[c] : [events[c][i] EXCEPT !.latest = FALSE] \in Event
                                   /\ [events[c][i] EXCEPT !.latest = FALSE].latest = FALSE
    BY <2>1, OldEvent
  <2>3. DOMAIN old = 1 .. Len(events[c]) /\ old = [i \in 1 .. Len(events[c]) |-> old[i]]
        /\ \A i \in DOMAIN events[c] : old[i] \in Event /\ old[i].latest = FALSE
    BY <2>1, <2>2
  <2> HIDE DEF old
  <2> QED BY <2>1, <2>3, SeqOfEvents
<1>3. events' = [events EXCEPT ![c] = old]
  BY DEF NewAction
<1> HIDE DEF old
<1>4. EventsTypeOK' /\ events'[c] = old /\ \A x \in Clients \ {c} : events'[x] = events[x]
  BY <1>2, <1>3 DEF ClientInv, EventsTypeOK
<1>5. ActionTypeOK' /\ \A x \in Clients \ {c} : ended'[x] = ended[x]
  BY <1>1 DEF NewAction, ClientInv, ActionTypeOK, Active
<1>6. EventsTrue'
  <2>1. SUFFICES ASSUME NEW x \in Clients, NEW i \in DOMAIN events'[x], events'[x][i].latest
                 PROVE  events'[x][i].how \in ended'[x]
    BY DEF EventsTrue
  <2>2. x # c
    BY <1>2, <1>4, <2>1
  <2> QED BY <1>4, <1>5, <2>1, <2>2 DEF ClientInv, EventsTrue
<1> QED BY <1>4, <1>5, <1>6

\* The handler answers; nothing about the action changes but its detachment.
LEMMA HandlerInv == ASSUME ClientInv, NEW c \in Clients, HandlerStep(c) PROVE ClientInv'
<1> USE DEF ClientInv
<1>1. ASSUME NEW what \in Answers, Reply(c, what), what \in Terminal => what \in ended[c],
             UNCHANGED <<home, events, ended>>,
             action' \in [Clients -> Active \union {"none", "ended"}]
      PROVE  ClientInv'
  <2>1. HandlerTypeOK' /\ FutureTrue' /\ AnswerTrue'
    BY <1>1, ReplyInv
  <2>2. ActionTypeOK' /\ EventsTypeOK' /\ EventsTrue'
    BY <1>1 DEF ActionTypeOK, EventsTypeOK, EventsTrue
  <2> QED BY <2>1, <2>2
<1>2. action \in [Clients -> Active \union {"none", "ended"}]
  BY DEF ActionTypeOK
<1>3. CASE AnswerAtOnce(c)
  BY <1>1, <1>2, <1>3 DEF AnswerAtOnce, Answers, Terminal
<1>4. CASE RunRejected(c)
  BY <1>1, <1>2, <1>4 DEF RunRejected, Answers, Terminal
<1>5. ASSUME NEW status \in {"running", "waiting"}, RunAccepted(c, status) PROVE ClientInv'
  <2>1. "accepted" \in Answers /\ "accepted" \notin Terminal /\ handler[c] = "readline"
    BY <1>5 DEF Answers, Terminal, RunAccepted, Asked
  <2>2. ActionTypeOK' /\ EventsTypeOK' /\ EventsTrue' /\ \A x \in Clients \ {c} : ended'[x] = ended[x]
    BY <1>5, NewActionInv DEF RunAccepted
  <2>3. HandlerTypeOK'
    BY <1>5, <2>1, ReplyInv DEF RunAccepted
  <2>4. /\ handler'[c] = "none" /\ future'[c] = NoEvent /\ answer'[c] \in {"none", "accepted"}
        /\ \A x \in Clients \ {c} : handler'[x] = handler[x] /\ future'[x] = future[x]
                                    /\ answer'[x] = answer[x]
    BY <1>5 DEF RunAccepted, Reply, HandlerTypeOK
  <2>5. FutureTrue' /\ AnswerTrue'
    BY <2>2, <2>4 DEF FutureTrue, AnswerTrue, Terminal
  <2> QED BY <2>2, <2>3, <2>5
<1>6. ASSUME NEW status \in {"running", "waiting"}, RunWaits(c, status) PROVE ClientInv'
  <2>1. ActionTypeOK' /\ EventsTypeOK' /\ EventsTrue' /\ \A x \in Clients \ {c} : ended'[x] = ended[x]
    BY <1>6, NewActionInv DEF RunWaits
  <2>2. /\ handler[c] = "readline" /\ handler'[c] = "waiting" /\ future' = future /\ answer' = answer
        /\ \A x \in Clients \ {c} : handler'[x] = handler[x]
    BY <1>6 DEF RunWaits, Asked, HandlerTypeOK
  <2>3. HandlerTypeOK'
    BY <1>6 DEF RunWaits, HandlerTypeOK
  <2>4. FutureTrue' /\ AnswerTrue'
    BY <2>1, <2>2 DEF FutureTrue, AnswerTrue
  <2> QED BY <2>1, <2>3, <2>4
<1>7. CASE WaitEnds(c)
  <2>1. future[c] \in Answers /\ future[c] \in ended[c]
    BY <1>7 DEF WaitEnds, FutureTrue, HandlerTypeOK, Terminal, Answers
  <2> QED BY <1>1, <1>2, <1>7, <2>1 DEF WaitEnds
<1>8. CASE WaitTimesOut(c)
  <2>1. "timeout" \in Answers /\ "timeout" \notin Terminal
    BY DEF Answers, Terminal
  <2>2. action' \in [Clients -> Active \union {"none", "ended"}]
    BY <1>2, <1>8 DEF WaitTimesOut, Active
  <2> QED BY <1>1, <1>8, <2>1, <2>2 DEF WaitTimesOut
<1> QED BY <1>3, <1>4, <1>5, <1>6, <1>7, <1>8 DEF HandlerStep

\* A client connects to a process that listens, sends, or leaves.
LEMMA ClientStepInv ==
    ASSUME ClientInv, listening \subseteq Daemons, NEW c \in Clients, ClientStep(c)
    PROVE  ClientInv'
<1> USE DEF ClientInv
<1>1. ActionTypeOK' /\ EventsTypeOK' /\ EventsTrue' /\ ended' = ended /\ future' = future
  BY DEF ClientStep, Connect, Send, Abandon, ActionTypeOK, EventsTypeOK, EventsTrue
<1>2. CASE Connect(c)
  <2>1. requests' \in 0 .. MaxRequests
    BY <1>2, ControlAssumption DEF Connect, HandlerTypeOK
  <2>2. handler[c] = "none" /\ answer'[c] \in {"none", "refused"} /\ answer' \in [Clients -> Answers]
    BY <1>2 DEF Connect, HandlerTypeOK, Answers
  <2>3. \A x \in Clients \ {c} : handler'[x] = handler[x] /\ answer'[x] = answer[x]
    BY <1>2 DEF Connect, HandlerTypeOK
  <2>4. HandlerTypeOK'
    BY <1>2, <2>1, <2>2 DEF Connect, HandlerTypeOK
  <2>5. FutureTrue'
    BY <1>1, <2>2, <2>3 DEF FutureTrue
  <2>6. AnswerTrue'
    BY <1>1, <2>2, <2>3 DEF AnswerTrue, Terminal
  <2> QED BY <1>1, <2>4, <2>5, <2>6
<1>3. CASE (\E r \in Requests : Send(c, r)) \/ Abandon(c)
  <2>1. UNCHANGED <<conn, handler, answer, requests>>
    BY <1>3 DEF Send, Abandon
  <2>2. request' \in [Clients -> Requests \union {NoRequest}]
    BY <1>3 DEF Send, Abandon, HandlerTypeOK, Requests, LegacyRequests
  <2>3. HandlerTypeOK' /\ FutureTrue' /\ AnswerTrue'
    BY <1>1, <2>1, <2>2 DEF HandlerTypeOK, FutureTrue, AnswerTrue
  <2> QED BY <1>1, <2>3
<1> QED BY <1>2, <1>3 DEF ClientStep

\* An action moves and ends, and its end reaches the handler that waits for it.
LEMMA ActionStepInv == ASSUME ClientInv, NEW c \in Clients, ActionStep(c) PROVE ClientInv'
<1> USE DEF ClientInv
<1>1. ASSUME NEW status \in {"running", "preempting"}, ActionMoves(c, status) PROVE ClientInv'
  BY <1>1 DEF ActionMoves, HandlerTypeOK, ActionTypeOK, EventsTypeOK, EventsTrue, FutureTrue,
              AnswerTrue, Active
<1>2. ASSUME NEW how \in Terminal, ActionEnds(c, how) PROVE ClientInv'
  <2> DEFINE e == [latest |-> TRUE, how |-> how]
  <2>1. e \in Event /\ events[c] \in Seq(Event) /\ events' = [events EXCEPT ![c] = Append(events[c], e)]
    BY <1>2 DEF ActionEnds, Event, EventsTypeOK
  <2>2. /\ ended'[c] = ended[c] \union {how} /\ ActionTypeOK'
        /\ \A x \in Clients : ended[x] \subseteq ended'[x]
    BY <1>2 DEF ActionEnds, ActionTypeOK
  <2>3. e.how = how
    OBVIOUS
  <2> HIDE DEF e
  <2>4. EventsTypeOK' /\ events'[c] = Append(events[c], e)
        /\ \A x \in Clients \ {c} : events'[x] = events[x]
    BY <2>1 DEF EventsTypeOK
  <2>5. \A i \in DOMAIN events'[c] : events'[c][i] = e \/ (i \in DOMAIN events[c] /\ events'[c][i] = events[c][i])
    BY <2>1, <2>4
  <2>6. EventsTrue'
    BY <2>2, <2>3, <2>4, <2>5 DEF EventsTrue
  <2>7. HandlerTypeOK' /\ FutureTrue' /\ AnswerTrue'
    BY <1>2, <2>2 DEF ActionEnds, HandlerTypeOK, FutureTrue, AnswerTrue
  <2> QED BY <2>2, <2>4, <2>6, <2>7
<1>3. CASE Dispatch(c)
  <2>1. events[c] \in Seq(Event) /\ events[c] # <<>> /\ events' = [events EXCEPT ![c] = Tail(events[c])]
    BY <1>3 DEF Dispatch, EventsTypeOK
  <2>2. EventsTypeOK' /\ events'[c] = Tail(events[c])
        /\ \A x \in Clients \ {c} : events'[x] = events[x]
    BY <2>1 DEF EventsTypeOK
  <2>3. /\ \A i \in DOMAIN events'[c] : i + 1 \in DOMAIN events[c] /\ events'[c][i] = events[c][i + 1]
        /\ 1 \in DOMAIN events[c] /\ Head(events[c]) = events[c][1] /\ Head(events[c]) \in Event
    <3> DEFINE s == events[c]
    <3>1. s \in Seq(Event) /\ s # <<>> /\ events'[c] = Tail(s)
      BY <2>1, <2>2
    <3> HIDE DEF s
    <3>2. /\ Tail(s) \in Seq(Event) /\ 1 \in DOMAIN s /\ Head(s) = s[1] /\ Head(s) \in Event
          /\ \A i \in DOMAIN Tail(s) : i + 1 \in DOMAIN s /\ Tail(s)[i] = s[i + 1]
      BY <3>1, TailOf
    <3> QED BY ONLY <3>1, <3>2 DEF s
  <2>4. ended' = ended /\ ActionTypeOK' /\ handler' = handler /\ answer' = answer
    BY <1>3 DEF Dispatch, ActionTypeOK
  <2>5. EventsTrue'
    <3>1. \A x \in Clients : \A i \in DOMAIN events'[x] :
             \E j \in DOMAIN events[x] : events'[x][i] = events[x][j]
      BY <2>2, <2>3
    <3> QED BY <2>4, <3>1 DEF EventsTrue
  <2>6. /\ \A x \in Clients \ {c} : future'[x] = future[x]
        /\ future'[c] = IF Hears(c, Head(events[c])) /\ future[c] = NoEvent
                          THEN Head(events[c]).how ELSE future[c]
        /\ future' \in [Clients -> Terminal \union {NoEvent}]
    <3>1. Head(events[c]).how \in Terminal
      BY <2>3 DEF Event
    <3> QED BY <1>3, <3>1 DEF Dispatch, HandlerTypeOK
  <2>7. FutureTrue'
    <3>1. Hears(c, Head(events[c])) => handler[c] = "waiting" /\ Head(events[c]).how \in ended[c]
      BY <2>3 DEF Hears, EventsTrue
    <3> QED BY <2>4, <2>6, <3>1 DEF FutureTrue
  <2>8. HandlerTypeOK' /\ AnswerTrue'
    BY <1>3, <2>4, <2>6 DEF Dispatch, HandlerTypeOK, AnswerTrue
  <2> QED BY <2>2, <2>4, <2>5, <2>7, <2>8
<1> QED BY <1>1, <1>2, <1>3 DEF ActionStep

\* A process that is gone takes its handlers and its actions with it.
LEMMA ForgetInv == ASSUME ClientInv, NEW d \in Daemons, Forget(d) PROVE ClientInv'
<1> USE DEF ClientInv
<1>1. "eof" \in Answers /\ "eof" \notin Terminal
  BY DEF Answers, Terminal
<1>2. HandlerTypeOK'
  BY <1>1 DEF Forget, HandlerTypeOK
<1>3. ActionTypeOK' /\ ended' = ended
  BY DEF Forget, ActionTypeOK
<1>4. EventsTypeOK'
  BY DEF Forget, EventsTypeOK
<1>5. EventsTrue'
  <2>1. \A c \in Clients : events'[c] = <<>> \/ events'[c] = events[c]
    BY DEF Forget
  <2> QED BY <1>3, <2>1 DEF EventsTrue
<1>6. \A c \in Clients :
         \/ handler'[c] = "none" /\ future'[c] = NoEvent /\ answer'[c] \in {answer[c], "eof"}
         \/ handler'[c] = handler[c] /\ future'[c] = future[c] /\ answer'[c] = answer[c]
  BY DEF Forget
<1>7. FutureTrue' /\ AnswerTrue'
  BY <1>1, <1>3, <1>6 DEF FutureTrue, AnswerTrue
<1> QED BY <1>2, <1>3, <1>4, <1>5, <1>7

\* Whether a client has left is always known.
LEMMA GoneStep == ASSUME GoneTypeOK, [Next]_vars PROVE GoneTypeOK'
<1>1. ASSUME NEW c \in Clients, gone' \in {gone, [gone EXCEPT ![c] = TRUE], [gone EXCEPT ![c] = FALSE]}
      PROVE  GoneTypeOK'
  BY <1>1 DEF GoneTypeOK
<1>2. ASSUME NEW c \in Clients, HandlerStep(c) \/ ClientStep(c) \/ ActionStep(c) PROVE GoneTypeOK'
  BY <1>1, <1>2
     DEF HandlerStep, AnswerAtOnce, RunRejected, RunAccepted, RunWaits, WaitEnds, WaitTimesOut,
         Reply, ClientStep, Connect, Send, Abandon, ActionStep, ActionMoves, ActionEnds, Dispatch
<1>3. ASSUME NEW d \in Daemons, DaemonStep(d) PROVE GoneTypeOK'
  BY <1>3 DEF DaemonStep, WithClients, Forget, cvars, GoneTypeOK
<1> QED BY <1>2, <1>3 DEF Next, ServiceRestart, cvars, vars, GoneTypeOK

ControlInv == DaemonInv /\ ClientInv /\ GoneTypeOK

LEMMA ControlInvStep == ControlInv /\ [Next]_vars => ControlInv'
<1> SUFFICES ASSUME ControlInv, [Next]_vars PROVE ControlInv'
  OBVIOUS
<1>1. GoneTypeOK'
  BY GoneStep DEF ControlInv
<1>2. ASSUME UNCHANGED dvars PROVE DaemonInv'
  BY <1>2 DEF dvars, ControlInv, DaemonInv, PlaceInv, PhaseTypeOK, FlagTypeOK,
              StartedMatchesPhase, ListeningMatchesPhase, PathLeadsToListener
<1>3. ASSUME UNCHANGED cvars PROVE ClientInv'
  BY <1>3 DEF cvars, ControlInv, ClientInv, HandlerTypeOK, ActionTypeOK, EventsTypeOK,
              EventsTrue, FutureTrue, AnswerTrue
<1>4. CASE ServiceRestart
  <2>1. PlaceInv' /\ Service \in Daemons
    BY <1>4, DaemonAssumption, LaunchPlace
       DEF ServiceRestart, Restart, ControlInv, DaemonInv, PlaceInv, PhaseTypeOK
  <2>2. FlagTypeOK'
    BY <1>4, <2>1, DaemonFlags DEF ServiceRestart, ControlInv, DaemonInv
  <2> QED BY <1>1, <1>3, <1>4, <2>1, <2>2 DEF ServiceRestart, ControlInv, DaemonInv
<1>5. ASSUME NEW d \in Daemons, DaemonStep(d) PROVE ControlInv'
  <2>1. DaemonInv'
    BY <1>5, DaemonPlace, DaemonFlags DEF DaemonStep, ControlInv, DaemonInv
  <2>2. ClientInv'
    BY <1>3, <1>5, ForgetInv DEF DaemonStep, WithClients, ControlInv
  <2> QED BY <1>1, <2>1, <2>2 DEF ControlInv
<1>6. ASSUME NEW c \in Clients, HandlerStep(c) \/ ClientStep(c) \/ ActionStep(c) PROVE ControlInv'
  <2>1. listening \subseteq Daemons
    BY DEF ControlInv, DaemonInv, PlaceInv, ListeningMatchesPhase
  <2>2. ClientInv'
    BY <1>6, <2>1, HandlerInv, ClientStepInv, ActionStepInv DEF ControlInv
  <2>3. UNCHANGED dvars
    BY <1>6 DEF HandlerStep, AnswerAtOnce, RunRejected, RunAccepted, RunWaits, WaitEnds,
                WaitTimesOut, ClientStep, Connect, Send, Abandon, ActionStep, ActionMoves,
                ActionEnds, Dispatch
  <2> QED BY <1>1, <1>2, <2>2, <2>3 DEF ControlInv
<1>7. CASE UNCHANGED vars
  BY <1>1, <1>2, <1>3, <1>7 DEF vars, dvars, cvars, ControlInv
<1> QED BY <1>4, <1>5, <1>6, <1>7 DEF Next

LEMMA ControlInvInit == Init => ControlInv
<1> SUFFICES ASSUME Init PROVE ControlInv
  OBVIOUS
<1>1. HandlerTypeOK /\ ActionTypeOK /\ EventsTypeOK /\ GoneTypeOK
  BY ControlAssumption
     DEF Init, HandlerTypeOK, ActionTypeOK, EventsTypeOK, GoneTypeOK, Answers
<1>2. EventsTrue /\ FutureTrue /\ AnswerTrue
  BY DEF Init, EventsTrue, FutureTrue, AnswerTrue, Terminal
<1> QED BY <1>1, <1>2, DaemonInvInit DEF Init, ControlInv, ClientInv

LEMMA ControlInvHolds == Spec => []ControlInv
BY ControlInvInit, ControlInvStep, PTL DEF Spec

\* The state is well typed, and a client that is told how its action ended is told
\* of its own latest action: no event of an earlier one, or of another client's,
\* becomes its answer.
THEOREM AnswersAreOwn == Spec => [](TypeOK /\ OwnOutcome)
<1>1. ControlInv => TypeOK
  BY DaemonInvTypes
     DEF ControlInv, ClientInv, HandlerTypeOK, ActionTypeOK, EventsTypeOK, GoneTypeOK, TypeOK,
         Answers, Event
<1>2. ControlInv => OwnOutcome
  BY DEF ControlInv, ClientInv, AnswerTrue, OwnOutcome
<1> QED BY <1>1, <1>2, ControlInvHolds, PTL

\* However processes start beside each other, are killed and stop: the socket path
\* never leads to a process that does not accept connections any more, and in every
\* phase as many components of a process are started as that phase says.
THEOREM ProcessesAreOrderly ==
    Spec => [](PathLeadsToListener /\ ListeningMatchesPhase /\ StartedMatchesPhase)
<1>1. ControlInv => PathLeadsToListener /\ ListeningMatchesPhase /\ StartedMatchesPhase
  BY DEF ControlInv, DaemonInv, PlaceInv
<1> QED BY <1>1, ControlInvHolds, PTL

-----------------------------------------------------------------------------
(***************************************************************************)
(* The request to stop: the flag of the handlers and the event of the main *)
(* task.                                                                   *)
(***************************************************************************)
SignalKept(d) == /\ stopEvent[d] <=> (requested[d] /\ phase[d] # "boot")
                 /\ phase[d] = "off" => ~requested[d]
                 /\ phase[d] \in Stopping => requested[d]

SignalsKept == \A d \in Daemons : SignalKept(d)

SignalInv == FlagTypeOK /\ phase \in [Daemons -> Phases] /\ SignalsKept

\* It is enough to look at the process that takes the step.
LEMMA SignalOf ==
    ASSUME SignalInv, NEW d \in Daemons, SignalKept(d)',
           \A e \in Daemons \ {d} : /\ phase'[e] = phase[e] /\ requested'[e] = requested[e]
                                    /\ stopEvent'[e] = stopEvent[e]
    PROVE  SignalsKept'
BY DEF SignalInv, SignalsKept, SignalKept

\* A process that goes on, not into the boot and not into its stop, keeps both.
LEMMA SignalGoes ==
    ASSUME SignalInv, NEW d \in Daemons, NEW p \in Phases, Goes(d, p),
           UNCHANGED <<requested, stopEvent>>, p # "off", p = "boot" <=> phase[d] = "boot",
           p \in Stopping => phase[d] \in Stopping \/ stopEvent[d]
    PROVE  SignalsKept'
BY SignalOf DEF SignalInv, SignalsKept, SignalKept, Goes

\* The end of a process forgets both.
LEMMA SignalExit == ASSUME SignalInv, NEW d \in Daemons, Exit(d) PROVE SignalsKept'
<1>1. phase'[d] = "off" /\ ~requested'[d] /\ ~stopEvent'[d]
  BY DEF Exit, Goes, SignalInv, FlagTypeOK
<1>2. \A e \in Daemons \ {d} : /\ phase'[e] = phase[e] /\ requested'[e] = requested[e]
                               /\ stopEvent'[e] = stopEvent[e]
  BY DEF Exit, Goes, SignalInv, FlagTypeOK
<1>3. SignalKept(d)'
  BY <1>1 DEF SignalKept, Stopping
<1> QED BY <1>2, <1>3, SignalOf

\* A process is launched without either.
LEMMA SignalLaunch == ASSUME SignalInv, NEW d \in Daemons, Launch(d) PROVE SignalsKept'
<1>1. phase'[d] = "boot" /\ ~requested[d] /\ ~stopEvent[d] /\ UNCHANGED <<requested, stopEvent>>
  BY DEF Launch, Goes, SignalInv, SignalsKept, SignalKept
<1>2. \A e \in Daemons \ {d} : phase'[e] = phase[e]
  BY DEF Launch, Goes, SignalInv
<1>3. SignalKept(d)'
  BY <1>1 DEF SignalKept, Stopping
<1> QED BY <1>1, <1>2, <1>3, SignalOf

\* The signal sets the flag, and the event when there is one; a later boot looks at the flag.
LEMMA SignalSets ==
    ASSUME SignalInv, NEW d \in Daemons, Signal(d) \/ BootRemembers(d)
    PROVE  SignalsKept'
<1>1. CASE Signal(d)
  <2>1. /\ requested'[d] /\ phase' = phase /\ phase[d] # "off"
        /\ stopEvent'[d] <=> phase[d] # "boot"
        /\ \A e \in Daemons \ {d} : requested'[e] = requested[e] /\ stopEvent'[e] = stopEvent[e]
    BY <1>1 DEF Signal, SignalInv, FlagTypeOK
  <2>2. SignalKept(d)'
    BY <2>1 DEF SignalKept
  <2> QED BY <2>1, <2>2, SignalOf
<1>2. CASE BootRemembers(d)
  <2>1. /\ requested' = requested /\ phase'[d] = "starting" /\ stopEvent'[d] = requested[d]
        /\ \A e \in Daemons \ {d} : phase'[e] = phase[e] /\ stopEvent'[e] = stopEvent[e]
    BY <1>2 DEF BootRemembers, Goes, SignalInv, FlagTypeOK
  <2>2. SignalKept(d)'
    BY <2>1 DEF SignalKept, Stopping
  <2> QED BY <2>1, <2>2, SignalOf
<1> QED BY <1>1, <1>2

LEMMA SignalProceeds ==
    ASSUME SignalInv, NEW d \in Daemons, NEW connected, Proceeds(d, connected)
    PROVE  SignalsKept'
<1>1. CASE BootRemembers(d)
  BY <1>1, SignalSets
<1>2. CASE StartModule(d)
  <2>1. PICK p \in {"probing", "starting"} : Goes(d, p)
    BY <1>2 DEF StartModule
  <2> QED BY <1>2, <2>1, SignalGoes DEF StartModule, Quiet, Phases, Stopping
<1>3. CASE ProbeSocket(d)
  <2>1. PICK p \in {"binding", "unlinking"} : Goes(d, p)
    BY <1>3 DEF ProbeSocket
  <2> QED BY <1>3, <2>1, SignalGoes DEF ProbeSocket, Quiet, Phases, Stopping
<1>4. CASE RefuseActive(d) \/ DrainTimeout(d, connected) \/ Finish(d)
  BY <1>4, SignalExit DEF RefuseActive, DrainTimeout, Finish
<1>5. CASE UnlinkSocket(d)
  BY <1>5, SignalExit, SignalGoes DEF UnlinkSocket, Phases, Stopping
<1>6. CASE Bind(d)
  BY <1>6, SignalExit, SignalGoes DEF Bind, Phases, Stopping
<1>7. CASE Settled(d)
  BY <1>7, SignalGoes DEF Settled, Quiet, Phases, Stopping
<1>8. CASE BeginStop(d)
  BY <1>8, SignalGoes DEF BeginStop, Quiet, Phases, Stopping
<1>9. CASE CloseServer(d) \/ Drained(d)
  <2>1. PICK p \in {"draining", "stopping"} : Goes(d, p)
    BY <1>9 DEF CloseServer, Drained
  <2>2. phase[d] \in {"closing", "draining"} /\ UNCHANGED <<requested, stopEvent>>
    BY <1>9 DEF CloseServer, Drained, Quiet
  <2> QED BY <2>1, <2>2, SignalGoes DEF Phases, Stopping
<1>10. CASE StopModule(d)
  BY <1>10 DEF StopModule, Quiet, SignalInv, SignalsKept, SignalKept
<1> QED BY <1>1, <1>2, <1>3, <1>4, <1>5, <1>6, <1>7, <1>8, <1>9, <1>10 DEF Proceeds, Runs

LEMMA SignalStep == ControlInv /\ SignalsKept /\ [Next]_vars => SignalsKept'
<1> SUFFICES ASSUME ControlInv, SignalsKept, [Next]_vars PROVE SignalsKept'
  OBVIOUS
<1>1. SignalInv
  BY DEF ControlInv, DaemonInv, PlaceInv, PhaseTypeOK, SignalInv
<1>2. ASSUME UNCHANGED dvars PROVE SignalsKept'
  BY <1>2 DEF dvars, SignalsKept, SignalKept
<1>3. CASE ServiceRestart
  BY <1>1, <1>3, SignalLaunch, DaemonAssumption DEF ServiceRestart, Restart
<1>4. ASSUME NEW d \in Daemons, DaemonStep(d) PROVE SignalsKept'
  <2>1. CASE Breaks(d)
    BY <1>1, <2>1, SignalExit DEF Breaks, Kill, StartFails, StopFails
  <2>2. CASE LaunchOther(d)
    BY <1>1, <2>2, SignalLaunch DEF LaunchOther
  <2> QED BY <1>1, <1>4, <2>1, <2>2, SignalSets, SignalProceeds DEF DaemonStep, DaemonNext
<1>5. ASSUME NEW c \in Clients, HandlerStep(c) \/ ClientStep(c) \/ ActionStep(c)
      PROVE  SignalsKept'
  BY <1>2, <1>5 DEF HandlerStep, AnswerAtOnce, RunRejected, RunAccepted, RunWaits, WaitEnds,
                WaitTimesOut, ClientStep, Connect, Send, Abandon, ActionStep, ActionMoves,
                ActionEnds, Dispatch
<1> QED BY <1>2, <1>3, <1>4, <1>5 DEF Next, vars

\* A request to stop is not lost, at whatever point of the start it comes: past the boot the
\* event that the main task waits for is set exactly when SIGINT or SIGTERM came to this
\* process, before or after the event existed; a process stops only because it was asked to,
\* and the next one does not inherit the request.
THEOREM SignalsAreKept == Spec => []SignalsKept
<1>1. Init => SignalsKept
  BY DEF Init, DaemonInit, SignalsKept, SignalKept, Stopping
<1> QED BY <1>1, SignalStep, ControlInvHolds, PTL DEF Spec

-----------------------------------------------------------------------------
(***************************************************************************)
(* The end of an action reaches the handler that waits for it: this is the *)
(* safety part of Answered.                                                *)
(***************************************************************************)
OwnEventQueued(c) == \E i \in DOMAIN events[c] : events[c][i].latest

EndHeard(c) ==
    /\ handler[c] # "none" => conn[c] \in Daemons /\ phase[conn[c]] # "off"
    /\ handler[c] = "waiting" => home[c] = conn[c]
    /\ handler[c] = "waiting" /\ ended[c] # {} => future[c] # NoEvent \/ OwnEventQueued(c)

EndsHeard == \A c \in Clients : EndHeard(c)

\* It is enough to look at the client whose handler or action takes the step.
LEMMA HeardOf ==
    ASSUME ClientInv, EndsHeard, NEW c \in Clients, EndHeard(c)', UNCHANGED phase,
           \A x \in Clients \ {c} : /\ handler'[x] = handler[x] /\ conn'[x] = conn[x]
                                    /\ home'[x] = home[x] /\ ended'[x] = ended[x]
                                    /\ future'[x] = future[x] /\ events'[x] = events[x]
    PROVE  EndsHeard'
BY DEF EndsHeard, EndHeard, OwnEventQueued

LEMMA HandlerHeard ==
    ASSUME ClientInv, EndsHeard, NEW c \in Clients, HandlerStep(c), UNCHANGED phase
    PROVE  EndsHeard'
<1> USE DEF ClientInv, HandlerTypeOK, ActionTypeOK, EventsTypeOK
<1>1. /\ EndHeard(c) /\ \A x \in Clients \ {c} : ended'[x] = ended[x] /\ home'[x] = home[x]
      /\ \A x \in Clients \ {c} : events'[x] = events[x]
  BY DEF EndsHeard, HandlerStep, AnswerAtOnce, RunRejected, RunAccepted, RunWaits, NewAction,
         WaitEnds, WaitTimesOut
<1>2. ASSUME NEW what, Reply(c, what) PROVE EndsHeard'
  <2>1. handler'[c] = "none" /\ \A x \in Clients \ {c} :
           handler'[x] = handler[x] /\ conn'[x] = conn[x] /\ future'[x] = future[x]
    BY <1>2 DEF Reply
  <2>2. EndHeard(c)'
    BY <2>1 DEF EndHeard
  <2> QED BY <1>1, <2>1, <2>2, HeardOf
<1>3. ASSUME NEW status, RunWaits(c, status) PROVE EndsHeard'
  <2>1. /\ handler[c] # "none" /\ conn' = conn /\ future' = future
        /\ ended'[c] = {} /\ home'[c] = conn[c]
        /\ \A x \in Clients \ {c} : handler'[x] = handler[x]
    BY <1>3 DEF RunWaits, NewAction, Asked
  <2>2. EndHeard(c)'
    BY <1>1, <2>1 DEF EndHeard
  <2> QED BY <1>1, <2>1, <2>2, HeardOf
<1> QED BY <1>2, <1>3 DEF HandlerStep, AnswerAtOnce, RunRejected, RunAccepted, WaitEnds, WaitTimesOut

\* A client connects only to a process that listens, which is alive.
LEMMA ClientHeard ==
    ASSUME ControlInv, EndsHeard, NEW c \in Clients, ClientStep(c) PROVE EndsHeard'
<1> USE DEF ControlInv, ClientInv, HandlerTypeOK
<1>1. UNCHANGED <<home, events, ended, future, phase>>
  BY DEF ClientStep, Connect, Send, Abandon, dvars
<1>2. EndHeard(c)
  BY DEF EndsHeard
<1>3. CASE Connect(c)
  <2>1. path \in listening => path \in Daemons /\ phase[path] # "off"
    BY DEF DaemonInv, PlaceInv, ListeningMatchesPhase, Accepting
  <2>2. /\ handler'[c] = "none" \/ (handler'[c] = "readline" /\ conn'[c] = path /\ path \in listening)
        /\ \A x \in Clients \ {c} : handler'[x] = handler[x] /\ conn'[x] = conn[x]
    BY <1>3 DEF Connect
  <2>3. EndHeard(c)'
    BY <1>1, <2>1, <2>2 DEF EndHeard
  <2> QED BY <1>1, <2>2, <2>3, HeardOf
<1>4. CASE (\E r \in Requests : Send(c, r)) \/ Abandon(c)
  <2>1. UNCHANGED <<handler, conn>>
    BY <1>4 DEF Send, Abandon
  <2> QED BY <1>1, <2>1 DEF EndsHeard, EndHeard, OwnEventQueued
<1> QED BY <1>3, <1>4 DEF ClientStep

\* The event of the end is queued, and its dispatch sets the future.
LEMMA ActionHeard ==
    ASSUME ClientInv, EndsHeard, NEW c \in Clients, ActionStep(c), UNCHANGED phase
    PROVE  EndsHeard'
<1> USE DEF ClientInv, HandlerTypeOK, ActionTypeOK, EventsTypeOK
<1>1. EndHeard(c) /\ UNCHANGED <<conn, handler, home>>
  BY DEF EndsHeard, ActionStep, ActionMoves, ActionEnds, Dispatch
<1>2. ASSUME NEW status \in {"running", "preempting"}, ActionMoves(c, status) PROVE EndsHeard'
  BY <1>1, <1>2 DEF ActionMoves, EndsHeard, EndHeard, OwnEventQueued
<1>3. ASSUME NEW how \in Terminal, ActionEnds(c, how) PROVE EndsHeard'
  <2> DEFINE e == [latest |-> TRUE, how |-> how]
             s == events[c]
  <2>1. s \in Seq(Event) /\ e \in Event /\ e.latest
    BY DEF Event
  <2>2. events' = [events EXCEPT ![c] = Append(s, e)] /\ future' = future
        /\ \A x \in Clients \ {c} : ended'[x] = ended[x]
    BY <1>3 DEF ActionEnds
  <2>3. events'[c] = Append(s, e) /\ \A x \in Clients \ {c} : events'[x] = events[x]
    BY <2>2
  <2> HIDE DEF e, s
  <2>4. Len(s) + 1 \in DOMAIN Append(s, e) /\ Append(s, e)[Len(s) + 1] = e
    BY <2>1
  <2>5. OwnEventQueued(c)'
    <3> HIDE DEF ClientInv, HandlerTypeOK, ActionTypeOK, EventsTypeOK
    <3>1. Len(s) + 1 \in DOMAIN events'[c] /\ events'[c][Len(s) + 1].latest
      BY <2>1, <2>3, <2>4
    <3> QED BY <3>1 DEF OwnEventQueued
  <2>6. EndHeard(c)'
    BY <1>1, <2>5 DEF EndHeard
  <2> QED BY <1>1, <2>2, <2>3, <2>6, HeardOf
<1>4. CASE Dispatch(c)
  <2> DEFINE s == events[c]
  <2>1. s \in Seq(Event) /\ s # <<>> /\ events' = [events EXCEPT ![c] = Tail(s)] /\ ended' = ended
    BY <1>4 DEF Dispatch
  <2>2. /\ events'[c] = Tail(s)
        /\ \A x \in Clients \ {c} : events'[x] = events[x] /\ future'[x] = future[x]
        /\ future'[c] = IF Hears(c, Head(s)) /\ future[c] = NoEvent THEN Head(s).how ELSE future[c]
    BY <1>4, <2>1 DEF Dispatch
  <2> HIDE DEF s
  <2>3. /\ Head(s) = s[1] /\ Head(s) \in Event /\ DOMAIN s = 1 .. Len(s) /\ Len(s) \in Nat
        /\ \A i \in DOMAIN s : i # 1 => i - 1 \in DOMAIN Tail(s) /\ Tail(s)[i - 1] = s[i]
    BY <2>1
  <2>4. Head(s).how # NoEvent
    BY <2>3 DEF Event, Terminal, NoEvent
  <2>5. ASSUME handler[c] = "waiting", OwnEventQueued(c)
        PROVE  future'[c] # NoEvent \/ OwnEventQueued(c)'
    <3>1. PICK i \in DOMAIN s : s[i].latest
      BY <2>5 DEF OwnEventQueued, s
    <3>2. CASE i = 1
      BY <2>2, <2>3, <2>4, <2>5, <3>1, <3>2 DEF Hears
    <3>3. CASE i # 1
      <4> HIDE DEF ClientInv, HandlerTypeOK, ActionTypeOK, EventsTypeOK
      <4>1. i - 1 \in DOMAIN events'[c] /\ events'[c][i - 1].latest
        BY <2>2, <2>3, <3>1, <3>3
      <4> QED BY <4>1 DEF OwnEventQueued
    <3> QED BY <3>2, <3>3
  <2>6. future[c] # NoEvent => future'[c] # NoEvent
    BY <2>2
  <2>7. EndHeard(c)'
    BY <1>1, <2>1, <2>5, <2>6 DEF EndHeard
  <2> QED BY <1>1, <2>1, <2>2, <2>7, HeardOf
<1> QED BY <1>2, <1>3, <1>4 DEF ActionStep

\* The step of a process moves no other one.
LEMMA OthersStay ==
    ASSUME PlaceInv, NEW d \in Daemons, NEW connected, DaemonNext(d, connected),
           NEW e \in Daemons, e # d
    PROVE  phase'[e] = phase[e]
BY DEF PlaceInv, PhaseTypeOK, DaemonNext, Proceeds, Runs, Breaks, Kill, StartFails, StopFails,
       BootRemembers, StartModule, ProbeSocket, Settled, BeginStop, CloseServer, Drained, StopModule,
       RefuseActive, UnlinkSocket, Bind, DrainTimeout, Finish, Signal, LaunchOther, Launch, Exit, Goes

\* A process that ends takes the handlers along that wait for its actions.
LEMMA DaemonHeard ==
    ASSUME ControlInv, EndsHeard, NEW d \in Daemons, DaemonStep(d) PROVE EndsHeard'
<1>1. \A e \in Daemons : e # d => phase'[e] = phase[e]
  BY OthersStay DEF DaemonStep, ControlInv, DaemonInv
<1>2. CASE phase[d] # "off" /\ phase'[d] = "off"
  <2>1. Forget(d)
    BY <1>2 DEF DaemonStep, WithClients
  <2>2. \A c \in Clients :
           \/ handler'[c] = "none"
           \/ /\ conn[c] # d /\ conn'[c] = conn[c] /\ handler'[c] = handler[c]
              /\ future'[c] = future[c] /\ ended'[c] = ended[c]
              /\ home[c] # d => home'[c] = home[c] /\ events'[c] = events[c]
    BY <2>1 DEF Forget
  <2> QED BY <1>1, <2>2 DEF EndsHeard, EndHeard, OwnEventQueued
<1>3. CASE ~(phase[d] # "off" /\ phase'[d] = "off")
  <2>1. UNCHANGED cvars
    BY <1>3 DEF DaemonStep, WithClients
  <2> QED BY <1>1, <1>3, <2>1 DEF cvars, EndsHeard, EndHeard, OwnEventQueued
<1> QED BY <1>2, <1>3

\* The end of an action is not missed by the request that waits for it: when it has ended,
\* its event is still queued or has woken the handler, and the handler is one of the process
\* that has the action and is alive (commands.py:104-143).
THEOREM EndsAreHeard == Spec => []EndsHeard
<1>1. Init => EndsHeard
  BY DEF Init, EndsHeard, EndHeard
<1>2. ControlInv /\ EndsHeard /\ [Next]_vars => EndsHeard'
  <2> SUFFICES ASSUME ControlInv, EndsHeard, [Next]_vars PROVE EndsHeard'
    OBVIOUS
  <2>1. CASE ServiceRestart
    <3>1. UNCHANGED cvars /\ phase' = [phase EXCEPT ![Service] = "boot"]
      BY <2>1 DEF ServiceRestart, Restart, Launch, Goes
    <3>2. \A e \in Daemons : phase[e] # "off" => phase'[e] # "off"
      BY <3>1 DEF ControlInv, DaemonInv, PlaceInv, PhaseTypeOK
    <3> QED BY <3>1, <3>2 DEF cvars, EndsHeard, EndHeard, OwnEventQueued
  <2>2. ASSUME NEW d \in Daemons, DaemonStep(d) PROVE EndsHeard'
    BY <2>2, DaemonHeard
  <2>3. ASSUME NEW c \in Clients, HandlerStep(c) PROVE EndsHeard'
    BY <2>3, HandlerHeard
       DEF ControlInv, HandlerStep, AnswerAtOnce, RunRejected, RunAccepted, RunWaits, WaitEnds,
           WaitTimesOut, dvars
  <2>4. ASSUME NEW c \in Clients, ClientStep(c) PROVE EndsHeard'
    BY <2>4, ClientHeard
  <2>5. ASSUME NEW c \in Clients, ActionStep(c) PROVE EndsHeard'
    BY <2>5, ActionHeard DEF ControlInv, ActionStep, ActionMoves, ActionEnds, Dispatch, dvars
  <2>6. CASE UNCHANGED vars
    BY <2>6 DEF vars, dvars, cvars, EndsHeard, EndHeard, OwnEventQueued
  <2> QED BY <2>1, <2>2, <2>3, <2>4, <2>5, <2>6 DEF Next
<1> QED BY <1>1, <1>2, ControlInvHolds, PTL DEF Spec
=============================================================================
