--------------------------- MODULE ObserversProofs ---------------------------
(***************************************************************************)
(* Theorems about the observers of the bus, for any number of events, of   *)
(* starts of the process and of entries in a file.                         *)
(***************************************************************************)
EXTENDS Observers, FiniteSetTheorems, SequenceTheorems, WellFoundedInduction, TLAPS

-----------------------------------------------------------------------------
(* Queues.  In(q, e): the event e waits in one of them. *)

Types == {"none", "ready", "healthy", "unavailable", "goto", "motion_started", "motion_completed",
          "motion_failed", "speak", "playback_started", "playback_ended", "recording_started",
          "transcript_ready", "listen_failed", "candidate", "flush_failed", "position", "named",
          "someone", "alarm", "handler_timeout", "default", "empty", "bad", "other"}

Item == [id : Nat, type : Types, level : Levels]

IsQueue(q) == q \in [Levels -> Seq(Item)]
Sorted(q)  == \A l \in Levels : \A i \in DOMAIN q[l] : q[l][i].level = l
In(q, e)   == \E l \in Levels : \E i \in DOMAIN q[l] : q[l][i] = e

Stamped(n, x) == [id |-> n, type |-> x.type, level |-> x.level]

\* An event is appended.
LEMMA QueuedIs ==
    ASSUME NEW q, IsQueue(q), Sorted(q), NEW n \in Nat, NEW x \in [type : Types, level : Levels]
    PROVE  LET r == Queued(q, n, x) IN
           /\ IsQueue(r) /\ Sorted(r)
           /\ r = [q EXCEPT ![x.level] = Append(q[x.level], Stamped(n, x))]
           /\ \A e : In(r, e) => In(q, e) \/ e = Stamped(n, x)
<1> DEFINE l == x.level
           f == Stamped(n, x)
           s == Append(q[l], f)
           r == [q EXCEPT ![l] = s]
<1>1. /\ f \in Item /\ q[l] \in Seq(Item) /\ l \in Levels /\ Queued(q, n, x) = r
      /\ f.level = l
  BY DEF Item, IsQueue, Queued, Stamped
<1> HIDE DEF f, l
<1>2. /\ s \in Seq(Item) /\ DOMAIN q[l] = 1 .. Len(q[l]) /\ DOMAIN s = 1 .. Len(q[l]) + 1
      /\ Len(q[l]) \in Nat /\ s[Len(q[l]) + 1] = f /\ \A i \in DOMAIN q[l] : s[i] = q[l][i]
  BY <1>1
<1>3. \A i \in DOMAIN s : (i \in DOMAIN q[l] /\ s[i] = q[l][i]) \/ s[i] = f
  BY <1>2
<1>4. r = [q EXCEPT ![l] = Append(q[l], f)]
  OBVIOUS
<1> HIDE DEF s
<1>5. IsQueue(r) /\ r[l] = s /\ \A m \in Levels \ {l} : r[m] = q[m]
  BY <1>1, <1>2 DEF IsQueue
<1> HIDE DEF r
<1>6. Sorted(r)
  BY <1>1, <1>3, <1>5 DEF Sorted
<1>7. \A e : In(r, e) => In(q, e) \/ e = f
  BY <1>1, <1>3, <1>5 DEF In
<1> QED BY <1>1, <1>4, <1>5, <1>6, <1>7 DEF l, f

\* The next event is taken.
LEMMA RestIs ==
    ASSUME IsQueue(queue), Sorted(queue), NEW e, IsNext(e)
    PROVE  /\ IsQueue(Rest(e)) /\ Sorted(Rest(e))
           /\ e \in Item /\ queue[e.level] # <<>> /\ e = Head(queue[e.level]) /\ In(queue, e)
           /\ \A k \in Levels : Rank[k] < Rank[e.level] => queue[k] = <<>>
           /\ Rest(e) = [queue EXCEPT ![e.level] = Tail(queue[e.level])]
           /\ \A d : In(Rest(e), d) => In(queue, d)
<1>1. PICK l \in Levels : /\ queue[l] # <<>> /\ e = Head(queue[l])
                          /\ \A k \in Levels : Rank[k] < Rank[l] => queue[k] = <<>>
  BY DEF IsNext
<1> DEFINE s == Tail(queue[l])
           r == [queue EXCEPT ![l] = s]
<1>2. queue[l] \in Seq(Item)
  BY DEF IsQueue
<1>3. /\ s \in Seq(Item) /\ DOMAIN queue[l] = 1 .. Len(queue[l]) /\ DOMAIN s = 1 .. Len(queue[l]) - 1
      /\ Len(queue[l]) \in Nat \ {0} /\ e = queue[l][1] /\ e \in Item
      /\ \A i \in DOMAIN s : s[i] = queue[l][i + 1]
  BY <1>1, <1>2
<1>4. /\ \A i \in DOMAIN s : i + 1 \in DOMAIN queue[l] /\ s[i] = queue[l][i + 1]
      /\ 1 \in DOMAIN queue[l]
  BY <1>3
<1>5. e.level = l
  BY <1>3, <1>4 DEF Sorted
<1>6. Rest(e) = r
  BY <1>5 DEF Rest
<1>7. Rest(e) = [queue EXCEPT ![l] = Tail(queue[l])]
  BY <1>6
<1> HIDE DEF s
<1>8. IsQueue(r) /\ r[l] = s /\ \A m \in Levels \ {l} : r[m] = queue[m]
  BY <1>3 DEF IsQueue
<1> HIDE DEF r
<1>9. Sorted(r)
  BY <1>4, <1>8 DEF Sorted
<1>10. \A d : In(r, d) => In(queue, d)
  BY <1>4, <1>8 DEF In
<1>11. In(queue, e)
  BY <1>3, <1>4 DEF In
<1> QED BY <1>1, <1>3, <1>5, <1>6, <1>7, <1>8, <1>9, <1>10, <1>11

\* An interrupted event goes back to the front.
LEMMA InFrontIs ==
    ASSUME IsQueue(queue), Sorted(queue), NEW b \in Item, NEW r,
           r = [queue EXCEPT ![b.level] = <<b>> \o @]
    PROVE  /\ IsQueue(r) /\ Sorted(r)
           /\ \A e : In(r, e) => In(queue, e) \/ e = b
<1> DEFINE l == b.level
           s == <<b>> \o queue[l]
<1>1. l \in Levels
  BY DEF Item
<1>2. queue[l] \in Seq(Item) /\ r = [queue EXCEPT ![l] = s]
  BY <1>1 DEF IsQueue
<1>3. /\ s \in Seq(Item) /\ DOMAIN queue[l] = 1 .. Len(queue[l]) /\ DOMAIN s = 1 .. Len(queue[l]) + 1
      /\ Len(queue[l]) \in Nat /\ s[1] = b /\ \A i \in DOMAIN queue[l] : s[i + 1] = queue[l][i]
  BY <1>2
<1>4. \A i \in DOMAIN s : s[i] = b \/ (i - 1 \in DOMAIN queue[l] /\ s[i] = queue[l][i - 1])
  BY <1>3
<1> HIDE DEF s
<1>5. IsQueue(r) /\ r[l] = s /\ \A m \in Levels \ {l} : r[m] = queue[m]
  BY <1>1, <1>2, <1>3 DEF IsQueue
<1>6. Sorted(r)
  BY <1>1, <1>4, <1>5 DEF Sorted
<1>7. \A e : In(r, e) => In(queue, e) \/ e = b
  BY <1>1, <1>4, <1>5 DEF In
<1> QED BY <1>5, <1>6, <1>7

-----------------------------------------------------------------------------
(***************************************************************************)
(* The bus: the events that wait or are being handled (Pending) have ids   *)
(* of their own, an alarm is CRITICAL, and a handler waits for the voice   *)
(* or for a delivery.                                                      *)
(***************************************************************************)
Pending(q, b, e) == e = b \/ In(q, e)

Known(q, b, n) == /\ \A e : In(q, e) => /\ e.id \in 1 .. n
                                        /\ e.type = "alarm" => e.level = "CRITICAL"
                  /\ b # NoEvent => b.id \in 1 .. n /\ b.type \in {"speak", "candidate"}

Different(q, b) == \A d, e : Pending(q, b, d) /\ Pending(q, b, e) /\ d.id = e.id => d = e

IsBus(q, b, n) == /\ IsQueue(q) /\ Sorted(q) /\ b \in Item /\ n \in Nat
                  /\ Known(q, b, n) /\ Different(q, b)

BusInv == IsBus(queue, busy, made)

\* An event that is pending after a step was pending before, or it is new.
Onward == /\ made' \in Nat /\ made' >= made
          /\ \A e : Pending(queue', busy', e) =>
                   Pending(queue, busy, e) \/ e = NoEvent \/ e.id > made

LEMMA OneMore ==
    ASSUME NEW q, NEW b, NEW n, IsBus(q, b, n), NEW x \in [type : Types, level : Levels],
           x.type = "alarm" => x.level = "CRITICAL"
    PROVE  LET r == Queued(q, n + 1, x) IN
           /\ IsBus(r, b, n + 1)
           /\ \A e : Pending(r, b, e) => Pending(q, b, e) \/ e.id = n + 1
<1> DEFINE f == Stamped(n + 1, x)
           r == Queued(q, n + 1, x)
<1>1. IsQueue(q) /\ Sorted(q) /\ n \in Nat /\ b \in Item
  BY DEF IsBus
<1>2. n + 1 \in Nat
  BY <1>1
<1>3. IsQueue(r) /\ Sorted(r) /\ \A e : In(r, e) => In(q, e) \/ e = f
  BY <1>1, <1>2, QueuedIs
<1>4. f.id = n + 1 /\ f.type = x.type /\ f.level = x.level
  BY DEF Stamped
<1> HIDE DEF f, r
<1>5. \A e : Pending(r, b, e) => Pending(q, b, e) \/ e = f
  BY <1>3 DEF Pending
<1>6. \A e : Pending(q, b, e) => e.id # n + 1
  BY <1>1, NoEvent.id = 0 DEF IsBus, Known, Pending, NoEvent
<1>7. Different(r, b)
  BY <1>4, <1>5, <1>6 DEF IsBus, Different
<1>8. Known(r, b, n + 1)
  BY <1>1, <1>3, <1>4 DEF IsBus, Known
<1>9. IsBus(r, b, n + 1)
  BY <1>1, <1>2, <1>3, <1>7, <1>8 DEF IsBus
<1> QED BY <1>4, <1>5, <1>9 DEF r

LEMMA NoMore ==
    ASSUME NEW q, NEW b, NEW n, IsBus(q, b, n), NEW r, IsQueue(r), Sorted(r), NEW c \in Item,
           \A e : In(r, e) => In(q, e) \/ (e = b /\ b # NoEvent),
           c = NoEvent \/ (c.type \in {"speak", "candidate"} /\ Pending(q, b, c) /\ c.id # 0)
    PROVE  /\ IsBus(r, c, n)
           /\ \A e : Pending(r, c, e) => Pending(q, b, e) \/ e = NoEvent
<1>1. n \in Nat /\ NoEvent.id = 0 /\ Known(q, b, n)
  BY DEF IsBus, NoEvent
<1>2. \A e : Pending(r, c, e) => Pending(q, b, e) \/ e = NoEvent
  BY DEF Pending
<1>3. Known(r, c, n)
  <2>1. ASSUME NEW e, In(r, e) PROVE e.id \in 1 .. n /\ (e.type = "alarm" => e.level = "CRITICAL")
    <3>1. CASE In(q, e)
      BY <1>1, <3>1 DEF Known
    <3>2. CASE e = b /\ b # NoEvent
      BY <1>1, <3>2 DEF Known
    <3> QED BY <2>1, <3>1, <3>2
  <2>2. ASSUME c # NoEvent PROVE c.id \in 1 .. n /\ c.type \in {"speak", "candidate"}
    BY <1>1, <2>2 DEF Known, Pending
  <2> QED BY <2>1, <2>2 DEF Known
<1>4. Different(r, c)
  <2> SUFFICES ASSUME NEW d, NEW e, Pending(r, c, d), Pending(r, c, e), d.id = e.id PROVE d = e
    BY DEF Different
  <2>1. \A g : Pending(r, c, g) => (g = NoEvent \/ (Pending(q, b, g) /\ g.id # 0))
    BY <1>1, <1>2, <1>3 DEF Known, Pending
  <2>2. Pending(r, c, d) /\ Pending(r, c, e)
    OBVIOUS
  <2> QED BY <1>1, <2>1, <2>2 DEF IsBus, Different
<1> QED BY <1>1, <1>2, <1>3, <1>4 DEF IsBus

LEMMA BusInit == Init => BusInv
<1> SUFFICES ASSUME Init PROVE BusInv
  OBVIOUS
<1> DEFINE e == [id |-> 1, type |-> "ready", level |-> "NORMAL"]
<1>1. /\ queue = [l \in Levels |-> IF l = "NORMAL" THEN <<e>> ELSE <<>>]
      /\ busy = NoEvent /\ made = 1
  BY DEF Init
<1>2. e \in Item /\ NoEvent \in Item /\ e.id = 1 /\ e.level = "NORMAL" /\ e.type = "ready"
  BY DEF Item, Levels, NoEvent, Types
<1> HIDE DEF e
<1>3. IsQueue(queue)
  BY <1>1, <1>2 DEF IsQueue
<1>4. Sorted(queue) /\ \A d : In(queue, d) => d = e
  BY <1>1, <1>2 DEF Sorted, In
<1>5. Known(queue, busy, made) /\ Different(queue, busy)
  BY <1>1, <1>2, <1>4 DEF Known, Different, Pending, NoEvent
<1> QED BY <1>1, <1>2, <1>3, <1>4, <1>5 DEF BusInv, IsBus

\* What is published is a well-formed event.
LEMMA Publishes ==
    ASSUME BusInv, NEW x \in [type : Types, level : Levels],
           x.type = "alarm" => x.level = "CRITICAL", Publish(x), busy' \in {busy, NoEvent}
    PROVE  BusInv' /\ Onward
<1> DEFINE c == busy'
<1>1. NoEvent \in Item /\ made \in Nat /\ busy \in Item /\ IsQueue(queue) /\ Sorted(queue)
  BY DEF BusInv, IsBus, NoEvent, Item, Levels, Types
<1>2. busy = NoEvent \/ (busy.type \in {"speak", "candidate"} /\ busy.id # 0)
  BY <1>1 DEF BusInv, IsBus, Known
<1>3. IsBus(queue, c, made) /\ \A e : Pending(queue, c, e) => Pending(queue, busy, e) \/ e = NoEvent
  BY <1>1, <1>2, NoMore DEF BusInv, Pending
<1>4. made' = made + 1 /\ queue' = Queued(queue, made + 1, x)
  BY DEF Publish
<1> HIDE DEF c
<1>5. /\ IsBus(queue', c, made')
      /\ \A e : Pending(queue', c, e) => Pending(queue, c, e) \/ e.id = made + 1
  BY <1>3, <1>4, OneMore
<1> QED BY <1>1, <1>3, <1>4, <1>5 DEF BusInv, Onward, c

LEMMA BusStep == BusInv /\ [Next]_vars => BusInv' /\ Onward
<1> SUFFICES ASSUME BusInv, [Next]_vars PROVE BusInv' /\ Onward
  OBVIOUS
<1>0. /\ NoEvent \in Item /\ made \in Nat /\ busy \in Item /\ IsQueue(queue) /\ Sorted(queue)
      /\ busy = NoEvent \/ (busy.type \in {"speak", "candidate"} /\ busy.id # 0)
      /\ \A e : In(queue, e) => e.id # 0
  BY DEF BusInv, IsBus, NoEvent, Item, Levels, Types, Known
<1> DEFINE Events == {x \in [type : Types, level : Levels] : x.type = "alarm" => x.level = "CRITICAL"}
<1>a. /\ \A type \in Types \ {"alarm"} : Normal(type) \in Events /\ High(type) \in Events
      /\ \A type \in Types \ {"alarm"} : \A l \in Levels : Event(type, l) \in Events
      /\ Urgent("alarm") \in Events
  BY DEF Normal, High, Urgent, Event, Levels, Types
<1>b. ASSUME NEW x \in Events, Publish(x), busy' \in {busy, NoEvent} PROVE BusInv' /\ Onward
  BY <1>b, Publishes
<1>c. ASSUME made' = made, IsQueue(queue'), Sorted(queue'), busy' \in Item,
             \A e : In(queue', e) => In(queue, e) \/ (e = busy /\ busy # NoEvent),
             busy' = NoEvent \/ (busy'.type \in {"speak", "candidate"} /\ Pending(queue, busy, busy')
                                /\ busy'.id # 0)
      PROVE  BusInv' /\ Onward
  <2> DEFINE r == queue'
             c == busy'
  <2>1. /\ IsBus(r, c, made)
        /\ \A e : Pending(r, c, e) => Pending(queue, busy, e) \/ e = NoEvent
    <3> HIDE DEF r, c
    <3> SUFFICES /\ IsQueue(r) /\ Sorted(r) /\ c \in Item
                 /\ \A e : In(r, e) => In(queue, e) \/ (e = busy /\ busy # NoEvent)
                 /\ c = NoEvent \/ (c.type \in {"speak", "candidate"} /\ Pending(queue, busy, c) /\ c.id # 0)
      BY NoMore DEF BusInv
    <3> QED BY <1>c DEF r, c
  <2> QED BY <1>0, <1>c, <2>1 DEF BusInv, Onward
<1>1. ASSUME NEW e, IsNext(e)
      PROVE  /\ IsQueue(Rest(e)) /\ Sorted(Rest(e)) /\ e \in Item /\ e.id # 0 /\ In(queue, e)
             /\ \A d : In(Rest(e), d) => In(queue, d)
  BY <1>0, <1>1, RestIs
<1>2. ASSUME NEW e, IsNext(e), queue' = Rest(e), made' = made,
             busy' = busy \/ (busy' = e /\ e.type \in {"speak", "candidate"})
      PROVE  BusInv' /\ Onward
  BY <1>0, <1>1, <1>2, <1>c DEF Pending
<1>3. ASSUME NEW e \in Heads, MotionRuns(e) PROVE BusInv' /\ Onward
  <2> DEFINE q == Rest(e)
             start == High("motion_started")
             begun == Queued(q, made + 1, start)
  <2>1. IsNext(e) /\ busy' = busy
    BY <1>3 DEF MotionRuns
  <2>2. IsBus(q, busy, made) /\ \A d : Pending(q, busy, d) => Pending(queue, busy, d) \/ d = NoEvent
    <3>1. IsQueue(q) /\ Sorted(q) /\ \A d : In(q, d) => In(queue, d)
      BY <1>1, <2>1
    <3> HIDE DEF q
    <3> QED BY <1>0, <3>1, NoMore DEF BusInv, Pending
  <2>3. start \in Events
    BY <1>a DEF Types
  <2> HIDE DEF q
  <2>4. /\ IsBus(begun, busy, made + 1)
        /\ \A d : Pending(begun, busy, d) => Pending(q, busy, d) \/ d.id = made + 1
    <3> HIDE DEF start
    <3> QED BY <2>2, <2>3, OneMore
  <2>5. CASE made' = made + 1 /\ queue' = begun
    BY <1>0, <2>1, <2>2, <2>4, <2>5 DEF BusInv, Onward
  <2>6. CASE made' = made + 2 /\ \E end \in MotionEnds : queue' = Queued(begun, made + 2, end)
    <3>1. PICK end \in MotionEnds : queue' = Queued(begun, made + 2, end)
      BY <2>6
    <3>2. end \in Events
      BY <1>a DEF MotionEnds, Types
    <3> HIDE DEF begun
    <3>3. made + 2 = (made + 1) + 1
      BY <1>0
    <3>4. /\ IsBus(Queued(begun, (made + 1) + 1, end), busy, (made + 1) + 1)
          /\ \A d : Pending(Queued(begun, (made + 1) + 1, end), busy, d) =>
                      Pending(begun, busy, d) \/ d.id = (made + 1) + 1
      BY <2>4, <3>2, OneMore
    <3>5. IsBus(queue', busy, made') /\ \A d : Pending(queue', busy, d) =>
                      Pending(begun, busy, d) \/ d.id = made + 2
      BY <2>6, <3>1, <3>3, <3>4
    <3> QED BY <1>0, <2>1, <2>2, <2>4, <2>6, <3>5 DEF BusInv, Onward
  <2> QED BY <1>3, <2>5, <2>6 DEF MotionRuns, q
<1>4. CASE \E e \in Heads : Seen(e) \/ SpeechStarts(e) \/ CandidateHandled(e)
  BY <1>2, <1>4 DEF Seen, SpeechStarts, CandidateHandled
<1>5. CASE PlaybackStarts \/ PlaybackEnds \/ TimesOut
  BY <1>5, <1>a, <1>b DEF PlaybackStarts, PlaybackEnds, TimesOut, Types
<1>6. CASE Interrupted
  <2>1. /\ IsQueue(queue') /\ Sorted(queue') /\ \A e : In(queue', e) => In(queue, e) \/ e = busy
    BY <1>0, <1>6, InFrontIs DEF Interrupted
  <2> QED BY <1>0, <1>6, <1>c, <2>1 DEF Interrupted
<1>7. CASE Outside
  <2>1. ASSUME NEW type \in AllSources, Request(type) PROVE BusInv' /\ Onward
    BY <1>a, <1>b, <2>1 DEF Request, Levels, Types
  <2>2. ASSUME NEW type \in AllSources, Happens(type) PROVE BusInv' /\ Onward
    <3>1. DOMAIN RuleLists \subseteq Types \ {"alarm"}
      BY DEF RuleLists, Types
    <3> QED BY <1>a, <1>b, <2>2, <3>1 DEF Happens, Types
  <2>3. ASSUME ListenStarts \/ HealthCheck PROVE BusInv' /\ Onward
    BY <1>a, <1>b, <2>3 DEF ListenStarts, HealthCheck, Types
  <2>4. ASSUME ListenEnds PROVE BusInv' /\ Onward
    <3>1. CASE Publish(High("transcript_ready")) \/ Publish(High("listen_failed"))
      BY <1>a, <1>b, <2>4, <3>1 DEF ListenEnds, Types
    <3>2. CASE UNCHANGED <<queue, made>>
      BY <1>0, <1>c, <2>4, <3>2 DEF ListenEnds, Pending
    <3> QED BY <2>4, <3>1, <3>2 DEF ListenEnds
  <2> QED BY <1>7, <2>1, <2>2, <2>3, <2>4 DEF Outside
<1>8. ASSUME NEW who \in Who, FlushEnds(who) \/ FlushFails(who) PROVE BusInv' /\ Onward
  <2>1. busy' \in {busy, NoEvent}
    BY <1>8 DEF FlushEnds, FlushFails, Returns
  <2>2. CASE FlushFails(who)
    BY <1>a, <1>b, <2>1, <2>2 DEF FlushFails, Types
  <2>3. CASE FlushEnds(who)
    BY <1>0, <1>c, <2>1, <2>3 DEF FlushEnds, Pending
  <2> QED BY <1>8, <2>2, <2>3
<1>9. CASE Stop \/ UNCHANGED vars
  BY <1>0, <1>9, <1>c DEF Stop, vars, bus, Pending
<1>10. CASE Exits \/ Dies
  <2>1. queue' = [l \in Levels |-> <<>>] /\ busy' = NoEvent /\ made' = made
    BY <1>10 DEF Exits, Dies, Forgotten
  <2>2. IsQueue(queue') /\ Sorted(queue') /\ \A e : ~In(queue', e)
    BY <2>1 DEF IsQueue, Sorted, In
  <2> QED BY <1>0, <1>c, <2>1, <2>2
<1>11. CASE Starts
  BY <1>11, <1>a, <1>b DEF Starts, Ready, Types
<1> QED BY <1>3, <1>4, <1>5, <1>6, <1>7, <1>8, <1>9, <1>10, <1>11 DEF Next, Dispatch
-----------------------------------------------------------------------------
(***************************************************************************)
(* The buffer of candidates.  While it is delivered, whoever does it has   *)
(* all that is in it but what came late (FlushCovers), so that emptying it *)
(* afterwards forgets nothing.                                             *)
(***************************************************************************)
PhaseOK == phase \in {"up", "stopping", "draining", "off"}

FlushOK == /\ flushing \in [Who -> SUBSET handled]
           /\ flushing["app"] # {} => phase = "stopping"
           /\ flushing["dispatcher"] # {} <=> busy.type = "candidate"

BufferOK == buffer \in Seq(handled)

FlushCovers == \A w \in Who : flushing[w] # {} => Elements(buffer) \ late \subseteq flushing[w]

MemoryInv == PhaseOK /\ FlushOK /\ BufferOK /\ FlushCovers /\ CandidateKept

LEMMA ElementsAre ==
    ASSUME NEW S, NEW s \in Seq(S)
    PROVE  Elements(s) \subseteq S /\ (s # <<>> => Elements(s) # {})
<1>1. DOMAIN s = 1 .. Len(s) /\ Len(s) \in Nat /\ \A i \in DOMAIN s : s[i] \in S
  OBVIOUS
<1>2. Elements(s) \subseteq S
  BY <1>1 DEF Elements
<1>3. s # <<>> => Elements(s) # {}
  <2> SUFFICES ASSUME s # <<>> PROVE 1 \in DOMAIN s
    BY DEF Elements
  <2> QED OBVIOUS
<1> QED BY <1>2, <1>3

LEMMA AppendElements ==
    ASSUME NEW S, NEW s \in Seq(S), NEW x \in S
    PROVE  Append(s, x) \in Seq(S) /\ Elements(Append(s, x)) = Elements(s) \union {x}
<1> DEFINE t == Append(s, x)
<1>1. /\ DOMAIN t = 1 .. Len(s) + 1 /\ t[Len(s) + 1] = x /\ \A i \in DOMAIN s : t[i] = s[i]
      /\ DOMAIN s = 1 .. Len(s) /\ Len(s) \in Nat /\ t \in Seq(S)
  OBVIOUS
<1> HIDE DEF t
<1>2. \A i \in DOMAIN t : (i \in DOMAIN s /\ t[i] = s[i]) \/ t[i] = x
  BY <1>1
<1>3. DOMAIN s \subseteq DOMAIN t /\ Len(s) + 1 \in DOMAIN t
  BY <1>1
<1>4. Elements(t) = Elements(s) \union {x}
  BY <1>1, <1>2, <1>3 DEF Elements
<1> QED BY <1>1, <1>4 DEF t

LEMMA NewestElements ==
    ASSUME NEW S, NEW s \in Seq(S), NEW n \in Nat
    PROVE  Newest(s, n) \in Seq(S) /\ Elements(Newest(s, n)) \subseteq Elements(s)
<1> DEFINE m == IF Len(s) > n THEN Len(s) - n + 1 ELSE 1
           t == SubSeq(s, m, Len(s))
<1>1. Len(s) \in Nat /\ m \in Nat \ {0}
  OBVIOUS
<1> HIDE DEF m
<1>2. t \in Seq(S) /\ \A i \in DOMAIN t : m + i - 1 \in DOMAIN s /\ t[i] = s[m + i - 1]
  BY <1>1
<1> HIDE DEF t
<1>3. Elements(t) \subseteq Elements(s)
  BY <1>2 DEF Elements
<1> QED BY <1>2, <1>3 DEF t, m, Newest

LEMMA MemoryInit == Init => MemoryInv
<1> SUFFICES ASSUME Init PROVE MemoryInv
  OBVIOUS
<1>1. /\ phase = "up" /\ busy = NoEvent /\ buffer = <<>> /\ flushing = [w \in Who |-> {}]
      /\ handled = {} /\ late = {}
  BY DEF Init
<1>2. busy.type = "none"
  BY <1>1 DEF NoEvent
<1>3. PhaseOK /\ FlushOK /\ BufferOK /\ FlushCovers
  BY <1>1, <1>2 DEF PhaseOK, FlushOK, BufferOK, FlushCovers, Who
<1> QED BY <1>1, <1>3 DEF MemoryInv, CandidateKept

LEMMA MemoryStep == ObserversAssumption /\ BusInv /\ MemoryInv /\ [Next]_vars => MemoryInv'
<1> SUFFICES ASSUME ObserversAssumption, BusInv, MemoryInv, [Next]_vars PROVE MemoryInv'
  OBVIOUS
<1>0. /\ flushing \in [Who -> SUBSET handled] /\ buffer \in Seq(handled) /\ Elements(buffer) \subseteq handled
      /\ NoEvent.type = "none"
      /\ busy = NoEvent \/ busy.type \in {"speak", "candidate"}
      /\ Elements(<<>>) = {} /\ <<>> \in Seq(handled)
  <2>1. flushing \in [Who -> SUBSET handled] /\ buffer \in Seq(handled)
    BY DEF MemoryInv, FlushOK, BufferOK
  <2>2. NoEvent.type = "none" /\ (busy = NoEvent \/ busy.type \in {"speak", "candidate"})
    BY DEF BusInv, IsBus, Known, NoEvent
  <2>3. Elements(<<>>) = {} /\ <<>> \in Seq(handled)
    BY DEF Elements
  <2> QED BY <2>1, <2>2, <2>3, ElementsAre
<1>1. ASSUME UNCHANGED memory, UNCHANGED phase, busy'.type = "candidate" <=> busy.type = "candidate"
      PROVE  MemoryInv'
  BY <1>1 DEF MemoryInv, PhaseOK, FlushOK, BufferOK, FlushCovers, CandidateKept, memory
\* A delivery ends somehow.
<1>2. ASSUME NEW who \in Who, UNCHANGED <<handled, late>>, flushing' = [flushing EXCEPT ![who] = {}],
             phase' = phase \/ (who = "app" /\ phase' = "draining"),
             who = "dispatcher" => busy' = NoEvent, who = "app" => busy' = busy,
             buffer' \in Seq(handled), Elements(buffer') \subseteq Elements(buffer),
             CandidateKept'
      PROVE  MemoryInv'
  <2>1. /\ flushing' \in [Who -> SUBSET handled] /\ flushing'[who] = {}
        /\ \A w \in Who \ {who} : flushing'[w] = flushing[w]
    BY <1>0, <1>2
  <2>2. PhaseOK'
    BY <1>2 DEF MemoryInv, PhaseOK
  <2>3. FlushOK'
    BY <1>0, <1>2, <2>1 DEF MemoryInv, FlushOK, Who
  <2>4. FlushCovers'
    BY <1>2, <2>1 DEF MemoryInv, FlushCovers
  <2>5. BufferOK'
    BY <1>2 DEF BufferOK
  <2> QED BY <1>2, <2>2, <2>3, <2>4, <2>5 DEF MemoryInv
<1>3. ASSUME NEW e, Seen(e) \/ MotionRuns(e) PROVE MemoryInv'
  BY <1>1, <1>3 DEF Seen, MotionRuns, process
<1>4. ASSUME NEW e, SpeechStarts(e) PROVE MemoryInv'
  BY <1>0, <1>1, <1>4 DEF SpeechStarts, IsNext, process
<1>5. CASE PlaybackStarts \/ PlaybackEnds
  BY <1>0, <1>1, <1>5 DEF PlaybackStarts, PlaybackEnds, process
<1>6. ASSUME NEW e, CandidateHandled(e) PROVE MemoryInv'
  <2> DEFINE all == handled \union {e.id}
  <2>1. /\ buffer' = Append(buffer, e.id) /\ handled' = all /\ phase' = phase
        /\ late' = (IF flushing["app"] = {} THEN late ELSE late \union {e.id})
        /\ UNCHANGED <<sink, truncated>> /\ busy = NoEvent /\ e.type = "candidate"
    BY <1>6 DEF CandidateHandled, IsNext, process
  <2>2. buffer \in Seq(all) /\ e.id \in all
    BY <1>0
  <2> HIDE DEF all
  <2>3. /\ Elements(buffer') = Elements(buffer) \union {e.id} /\ buffer' \in Seq(all)
        /\ Elements(buffer') \subseteq all
    <3>1. Append(buffer, e.id) \in Seq(all) /\ Elements(Append(buffer, e.id)) = Elements(buffer) \union {e.id}
      BY <2>2, AppendElements
    <3>2. Elements(Append(buffer, e.id)) \subseteq all
      BY <3>1, ElementsAre
    <3> QED BY <2>1, <3>1, <3>2
  <2>4. flushing["dispatcher"] = {} /\ (flushing["app"] # {} => phase = "stopping")
    BY <1>0, <2>1 DEF MemoryInv, FlushOK, Who
  <2>5. \/ UNCHANGED <<busy, flushing>>
        \/ busy' = e /\ flushing' = [flushing EXCEPT !["dispatcher"] = Elements(buffer')]
    BY <1>6 DEF CandidateHandled
  <2>6. /\ flushing' \in [Who -> SUBSET all] /\ flushing'["app"] = flushing["app"]
        /\ flushing'["dispatcher"] \in {{}, Elements(buffer')}
        /\ flushing'["dispatcher"] # {} <=> busy'.type = "candidate"
    BY <1>0, <2>1, <2>3, <2>4, <2>5 DEF Who, all
  <2>7. FlushOK'
    BY <2>1, <2>4, <2>6 DEF FlushOK
  <2>8. FlushCovers'
    <3>1. flushing["app"] # {} => Elements(buffer) \ late \subseteq flushing["app"]
      BY DEF MemoryInv, FlushCovers, Who
    <3>2. flushing'["app"] # {} => Elements(buffer') \ late' \subseteq flushing'["app"]
      BY <2>1, <2>3, <2>6, <3>1
    <3>3. flushing'["dispatcher"] # {} => Elements(buffer') \ late' \subseteq flushing'["dispatcher"]
      BY <2>6
    <3> QED BY <3>2, <3>3 DEF FlushCovers, Who
  <2>9. CandidateKept'
    BY <2>1, <2>3 DEF MemoryInv, CandidateKept, all
  <2>10. PhaseOK' /\ BufferOK'
    BY <2>1, <2>3 DEF MemoryInv, PhaseOK, BufferOK
  <2> QED BY <2>7, <2>8, <2>9, <2>10 DEF MemoryInv
<1>7. ASSUME NEW who \in Who, FlushEnds(who) PROVE MemoryInv'
  <2>1. CandidateKept'
    <3>1. Elements(buffer) \ late \subseteq flushing[who] /\ buffer' = <<>>
      BY <1>7 DEF FlushEnds, MemoryInv, FlushCovers
    <3> QED BY <1>7, <3>1 DEF FlushEnds, MemoryInv, CandidateKept
  <2> QED BY <1>0, <1>2, <1>7, <2>1 DEF FlushEnds, Returns, Who
<1>8. ASSUME NEW who \in Who, FlushFails(who) PROVE MemoryInv'
  <2>1. buffer' \in Seq(handled) /\ Elements(buffer') \subseteq Elements(buffer)
    <3>1. 3 * FlushSize \in Nat
      BY DEF ObserversAssumption
    <3>2. buffer' = buffer \/ buffer' = Newest(buffer, 3 * FlushSize)
      BY <1>8 DEF FlushFails
    <3> DEFINE n == 3 * FlushSize
    <3> HIDE DEF n
    <3>3. Elements(Newest(buffer, n)) \subseteq Elements(buffer) /\ Newest(buffer, n) \in Seq(handled)
      BY <1>0, <3>1, NewestElements DEF n
    <3> QED BY <1>0, <3>2, <3>3 DEF n
  <2>2. CandidateKept'
    BY <1>8 DEF FlushFails, MemoryInv, CandidateKept
  <2> QED BY <1>2, <1>8, <2>1, <2>2 DEF FlushFails, Returns, Who
<1>9. CASE Interrupted \/ TimesOut
  <2>1. CandidateKept'
    BY <1>9 DEF Interrupted, TimesOut, MemoryInv, CandidateKept
  <2> QED BY <1>0, <1>2, <1>9, <2>1 DEF Interrupted, TimesOut, Who, process
<1>10. CASE Outside
  BY <1>1, <1>10 DEF Outside, Request, Happens, ListenStarts, ListenEnds, HealthCheck, process
<1>11. CASE Stop
  <2>1. UNCHANGED <<buffer, handled, late, sink, truncated, busy>> /\ phase = "up"
    BY <1>11 DEF Stop, bus
  <2>2. flushing["app"] = {}
    BY <2>1 DEF MemoryInv, FlushOK
  <2>3. \/ phase' = "draining" /\ UNCHANGED flushing
        \/ phase' = "stopping" /\ flushing' = [flushing EXCEPT !["app"] = Elements(buffer)]
    BY <1>11 DEF Stop
  <2>4. PhaseOK' /\ FlushOK' /\ BufferOK'
    BY <1>0, <2>1, <2>2, <2>3 DEF MemoryInv, PhaseOK, FlushOK, BufferOK, Who
  <2>5. FlushCovers'
    BY <1>0, <2>1, <2>2, <2>3 DEF MemoryInv, FlushCovers, Who
  <2>6. CandidateKept'
    BY <2>1 DEF MemoryInv, CandidateKept
  <2> QED BY <2>4, <2>5, <2>6 DEF MemoryInv
<1>12. CASE Exits \/ Dies
  <2>1. /\ phase' = "off" /\ busy' = NoEvent /\ buffer' = <<>> /\ flushing' = [w \in Who |-> {}]
        /\ handled' = {} /\ late' = {}
    BY <1>12 DEF Exits, Dies, Forgotten
  <2>2. PhaseOK' /\ FlushOK' /\ BufferOK' /\ FlushCovers'
    BY <1>0, <2>1 DEF PhaseOK, FlushOK, BufferOK, FlushCovers, Who
  <2> QED BY <2>1, <2>2 DEF MemoryInv, CandidateKept
<1>13. CASE Starts
  <2>1. phase = "off" /\ phase' = "up" /\ UNCHANGED <<memory, busy>>
    BY <1>13 DEF Starts
  <2>2. flushing["app"] = {}
    BY <2>1 DEF MemoryInv, FlushOK
  <2> QED BY <2>1, <2>2 DEF MemoryInv, PhaseOK, FlushOK, BufferOK, FlushCovers, CandidateKept, memory
<1>14. CASE UNCHANGED vars
  BY <1>1, <1>14 DEF vars, process, bus
<1> QED BY <1>3, <1>4, <1>5, <1>6, <1>7, <1>8, <1>9, <1>10, <1>11, <1>12, <1>13, <1>14 DEF Next, Dispatch

-----------------------------------------------------------------------------
(***************************************************************************)
(* The trace.  An entry is safe when it does not go with the process: it   *)
(* is not one of the u last entries of the file ix that is written.        *)
(***************************************************************************)
InFiles(fs, x) == \E i \in DOMAIN fs : \E a \in DOMAIN fs[i] : fs[i][a] = x

Safe(fs, ix, u, x) == \E i \in DOMAIN fs : \E a \in DOMAIN fs[i] :
                         fs[i][a] = x /\ (i = ix => a + u <= Len(fs[i]))

Once(fs) == \A i, j \in DOMAIN fs : \A a \in DOMAIN fs[i], b \in DOMAIN fs[j] :
               fs[i][a] = fs[j][b] => i = j /\ a = b

IsFiles(fs) == fs \in [0 .. MaxEvents -> Seq(Nat)]

\* Files that have not been written to since the process started have no more
\* entries than those that earlier processes have left in them.
Bounded(fs, ix, n, off) == \A i \in DOMAIN fs :
    Len(fs[i]) <= MaxPerFile + n - (IF off \/ i <= ix THEN 1 ELSE 2)

LEMMA SafeIsIn == \A fs, ix, u, x : Safe(fs, ix, u, x) => InFiles(fs, x)
  BY DEF Safe, InFiles

LEMMA InEntries == \A x : x \in Entries <=> InFiles(files, x)
  BY DEF Entries, InFiles, Elements

\* An entry is written, to the next file when this one is full.
LEMMA WrittenIs ==
    ASSUME IsFiles(files), index \in Nat, unflushed \in Nat, starts \in Nat \ {0},
           MaxPerFile \in Nat \ {0}, MaxEvents \in Nat,
           unflushed <= Len(files[index]), NEW x \in Nat, NEW urgent \in BOOLEAN,
           index + 1 <= MaxEvents \/ (index <= MaxEvents /\ ~Full(index)), Written(x, urgent),
           Bounded(files, index, starts, FALSE)
    PROVE  /\ IsFiles(files') /\ index' \in Nat /\ unflushed' \in Nat
           /\ index' = IF Full(index) THEN index + 1 ELSE index
           /\ unflushed' <= Len(files'[index'])
           /\ Bounded(files', index', starts, FALSE)
           /\ \A y : InFiles(files', y) <=> InFiles(files, y) \/ y = x
           /\ ~InFiles(files, x) /\ Once(files) => Once(files')
           /\ \A y : Safe(files, index, unflushed, y) => Safe(files', index', unflushed', y)
           /\ urgent => Safe(files', index', unflushed', x)
<1> DEFINE w == Writes
           s == Append(files[w], x)
           r == files'
<1>1. w \in 0 .. MaxEvents /\ index \in 0 .. MaxEvents /\ w = IF Full(index) THEN index + 1 ELSE index
  BY DEF Writes
<1>2. r = [files EXCEPT ![w] = s] /\ index' = w /\ files[w] \in Seq(Nat) /\ files[index] \in Seq(Nat)
  BY <1>1 DEF Written, IsFiles
<1>3. /\ s \in Seq(Nat) /\ DOMAIN files[w] = 1 .. Len(files[w]) /\ DOMAIN s = 1 .. Len(files[w]) + 1
      /\ Len(files[w]) \in Nat /\ Len(s) = Len(files[w]) + 1
      /\ s[Len(files[w]) + 1] = x /\ \A i \in DOMAIN files[w] : s[i] = files[w][i]
  BY <1>2
<1>4. unflushed' = IF urgent THEN 0 ELSE IF w = index THEN unflushed + 1 ELSE 1
  BY DEF Written
<1>5. Len(files[index]) >= MaxPerFile <=> Full(index)
  BY DEF Full
<1>6. w = index => Len(files[w]) < MaxPerFile
  BY <1>1, <1>2, <1>5
<1>n. \A i \in DOMAIN files : Len(files[i]) \in Nat /\ DOMAIN files[i] = 1 .. Len(files[i])
  BY DEF IsFiles
<1> HIDE DEF w, s
<1>7. IsFiles(r) /\ r[w] = s /\ DOMAIN r = 0 .. MaxEvents /\ DOMAIN files = 0 .. MaxEvents
      /\ \A i \in 0 .. MaxEvents : i # w => r[i] = files[i]
  BY <1>1, <1>2, <1>3 DEF IsFiles
<1> HIDE DEF r
<1>8. /\ unflushed' \in Nat /\ unflushed' <= Len(r[w])
  BY <1>1, <1>3, <1>4, <1>7
<1>9. Bounded(r, w, starts, FALSE)
  <2> SUFFICES ASSUME NEW i \in 0 .. MaxEvents
               PROVE  Len(r[i]) <= MaxPerFile + starts - (IF i <= w THEN 1 ELSE 2)
    BY <1>7 DEF Bounded
  <2>1. Len(files[i]) <= MaxPerFile + starts - (IF i <= index THEN 1 ELSE 2)
    BY <1>7 DEF Bounded
  <2>2. CASE i = w
    <3>1. Len(r[i]) = Len(files[w]) + 1
      BY <1>3, <1>7, <2>2
    <3>2. CASE w = index
      BY <1>3, <1>6, <2>2, <3>1, <3>2
    <3>3. CASE w = index + 1
      <4>1. Len(files[w]) <= MaxPerFile + starts - 2
        <5>1. ~(i <= index)
          BY <2>2, <3>3
        <5>2. Len(files[i]) <= MaxPerFile + starts - 2
          BY <2>1, <5>1
        <5> QED BY <2>2, <5>2
      <4> QED BY <1>3, <2>2, <3>1, <4>1
    <3> QED BY <1>1, <3>2, <3>3
  <2>3. CASE i # w
    BY <1>1, <1>7, <1>n, <2>1, <2>3
  <2> QED BY <2>2, <2>3
<1>10. \A i \in DOMAIN r : \A a \in DOMAIN r[i] :
          (a \in DOMAIN files[i] /\ r[i][a] = files[i][a]) \/ (i = w /\ a = Len(files[w]) + 1 /\ r[i][a] = x)
  <2> SUFFICES ASSUME NEW i \in 0 .. MaxEvents, NEW a \in DOMAIN r[i]
               PROVE  \/ a \in DOMAIN files[i] /\ r[i][a] = files[i][a]
                      \/ i = w /\ a = Len(files[w]) + 1 /\ r[i][a] = x
    BY <1>7
  <2>1. CASE i = w
    BY <1>3, <1>7, <2>1
  <2>2. CASE i # w
    BY <1>7, <2>2
  <2> QED BY <2>1, <2>2
<1>11. \A i \in DOMAIN files : \A a \in DOMAIN files[i] : a \in DOMAIN r[i] /\ r[i][a] = files[i][a]
  <2> SUFFICES ASSUME NEW i \in 0 .. MaxEvents, NEW a \in DOMAIN files[i]
               PROVE  a \in DOMAIN r[i] /\ r[i][a] = files[i][a]
    BY <1>7
  <2>1. CASE i = w
    BY <1>3, <1>7, <2>1
  <2>2. CASE i # w
    BY <1>7, <2>2
  <2> QED BY <2>1, <2>2
<1>12. w \in DOMAIN r /\ Len(files[w]) + 1 \in DOMAIN r[w] /\ r[w][Len(files[w]) + 1] = x
  BY <1>1, <1>3, <1>7
<1>13. \A y : InFiles(r, y) <=> InFiles(files, y) \/ y = x
  BY <1>7, <1>10, <1>11, <1>12 DEF InFiles
<1>14. ~InFiles(files, x) /\ Once(files) => Once(r)
  BY <1>7, <1>10 DEF InFiles, Once
<1>15. ASSUME NEW y, Safe(files, index, unflushed, y) PROVE Safe(r, w, unflushed', y)
  <2>1. PICK i \in DOMAIN files : \E a \in DOMAIN files[i] :
             files[i][a] = y /\ (i = index => a + unflushed <= Len(files[i]))
    BY <1>15 DEF Safe
  <2>2. PICK a \in DOMAIN files[i] : files[i][a] = y /\ (i = index => a + unflushed <= Len(files[i]))
    BY <2>1
  <2>3. i \in DOMAIN r /\ a \in DOMAIN r[i] /\ r[i][a] = y
    BY <1>7, <1>11, <2>2
  <2>4. a \in Nat /\ a <= Len(files[i])
    BY <1>n, <2>2
  <2>5. i = w => a + unflushed' <= Len(r[i])
    BY <1>1, <1>3, <1>4, <1>7, <1>n, <2>2, <2>4
  <2> QED BY <2>3, <2>5 DEF Safe
<1>16. urgent => Safe(r, w, unflushed', x)
  <2>1. urgent => (Len(files[w]) + 1) + unflushed' <= Len(r[w])
    BY <1>3, <1>4, <1>7
  <2> QED BY <1>12, <2>1 DEF Safe
<1>17. w \in Nat /\ index' = w
  BY <1>1, <1>2
<1> QED BY <1>1, <1>7, <1>8, <1>9, <1>13, <1>14, <1>15, <1>16, <1>17 DEF r
\* The files of gs have what is in those of fs, or less of it.
Shorter(gs, fs) == \A i \in 0 .. MaxEvents : /\ Len(gs[i]) <= Len(fs[i])
                                             /\ \A a \in DOMAIN gs[i] : gs[i][a] = fs[i][a]

LEMMA ShorterIs ==
    ASSUME NEW fs, IsFiles(fs), NEW gs, IsFiles(gs), Shorter(gs, fs), MaxEvents \in Nat
    PROVE  /\ \A y : InFiles(gs, y) => InFiles(fs, y)
           /\ Once(fs) => Once(gs)
<1>1. \A i \in 0 .. MaxEvents : /\ Len(gs[i]) \in Nat /\ DOMAIN gs[i] = 1 .. Len(gs[i])
                                /\ Len(fs[i]) \in Nat /\ DOMAIN fs[i] = 1 .. Len(fs[i])
  BY DEF IsFiles
<1>2. DOMAIN fs = 0 .. MaxEvents /\ DOMAIN gs = 0 .. MaxEvents
  BY DEF IsFiles
<1>3. \A i \in 0 .. MaxEvents : \A a \in DOMAIN gs[i] : a \in DOMAIN fs[i] /\ gs[i][a] = fs[i][a]
  BY <1>1 DEF Shorter
<1> QED BY <1>2, <1>3 DEF InFiles, Once

\* The process is killed: what is not flushed goes, or a part of it.
LEMMA LostIs ==
    ASSUME IsFiles(files), index \in Nat, unflushed \in Nat, unflushed <= Len(files[index]),
           index <= MaxEvents, MaxEvents \in Nat, NEW n \in 0 .. unflushed,
           NEW gs, gs = [files EXCEPT ![index] = SubSeq(@, 1, Len(@) - n)]
    PROVE  /\ IsFiles(gs) /\ Shorter(gs, files)
           /\ \A y : Safe(files, index, unflushed, y) => InFiles(gs, y)
<1> DEFINE s == SubSeq(files[index], 1, Len(files[index]) - n)
<1>1. index \in 0 .. MaxEvents /\ files[index] \in Seq(Nat)
  BY DEF IsFiles
<1>2. /\ s \in Seq(Nat) /\ DOMAIN s = 1 .. Len(files[index]) - n /\ Len(s) = Len(files[index]) - n
      /\ Len(files[index]) \in Nat /\ DOMAIN files[index] = 1 .. Len(files[index])
      /\ \A a \in DOMAIN s : s[a] = files[index][a]
  BY <1>1
<1>3. gs = [files EXCEPT ![index] = s]
  OBVIOUS
<1> HIDE DEF s
<1>4. IsFiles(gs) /\ gs[index] = s /\ \A i \in 0 .. MaxEvents : i # index => gs[i] = files[i]
  BY <1>1, <1>2, <1>3 DEF IsFiles
<1>5. Shorter(gs, files)
  <2> SUFFICES ASSUME NEW i \in 0 .. MaxEvents
               PROVE  /\ Len(gs[i]) <= Len(files[i])
                      /\ \A a \in DOMAIN gs[i] : gs[i][a] = files[i][a]
    BY DEF Shorter
  <2>1. CASE i = index
    BY <1>2, <1>4, <2>1
  <2>2. CASE i # index
    <3>1. Len(files[i]) \in Nat
      BY DEF IsFiles
    <3> QED BY <1>4, <2>2, <3>1
  <2> QED BY <2>1, <2>2
<1>6. ASSUME NEW y, Safe(files, index, unflushed, y) PROVE InFiles(gs, y)
  <2>1. PICK i \in DOMAIN files : \E a \in DOMAIN files[i] :
             files[i][a] = y /\ (i = index => a + unflushed <= Len(files[i]))
    BY <1>6 DEF Safe
  <2>2. PICK a \in DOMAIN files[i] : files[i][a] = y /\ (i = index => a + unflushed <= Len(files[i]))
    BY <2>1
  <2>3. i \in DOMAIN gs /\ i \in 0 .. MaxEvents
    BY <1>4 DEF IsFiles
  <2>4. a \in DOMAIN gs[i] /\ gs[i][a] = y
    <3>1. CASE i = index
      BY <1>2, <1>4, <2>2, <3>1
    <3>2. CASE i # index
      BY <1>4, <2>2, <2>3, <3>2
    <3> QED BY <3>1, <3>2
  <2> QED BY <2>3, <2>4 DEF InFiles
<1> QED BY <1>4, <1>5, <1>6

CountsOK == starts \in 1 .. MaxStarts /\ made <= MaxEvents

FilesOK == /\ IsFiles(files) /\ index \in Nat /\ unflushed \in Nat
           /\ unflushed <= Len(files[index])
           /\ phase = "off" => Bounded(files, index, starts, TRUE)
           /\ phase # "off" => Bounded(files, index, starts, FALSE)

\* There is a file for every entry of the process, and none is written when it is off.
SeenOK == /\ seen \subseteq 1 .. made /\ index <= Cardinality(seen)
          /\ phase = "off" => seen = {} /\ index = 0 /\ unflushed = 0

\* What a process has seen is in the files, once; what is there and pending was
\* seen by this process, and not by one before it.
RecordOK == /\ phase # "off" => \A x \in seen : InFiles(files, x)
            /\ \A x : InFiles(files, x) => x \in 1 .. made
            /\ Once(files)
            /\ \A e : Pending(queue, busy, e) /\ InFiles(files, e.id) => e.id \in seen

\* An alarm is safe when it was acted on, and any CRITICAL event when it was seen.
AlarmsOK == /\ \A x \in acted : Safe(files, index, unflushed, x)
            /\ \A e : Pending(queue, busy, e) /\ e.level = "CRITICAL" /\ e.id \in seen
                        => Safe(files, index, unflushed, e.id)

TraceInv == CountsOK /\ FilesOK /\ SeenOK /\ RecordOK /\ AlarmsOK

LEMMA SeenIsFinite ==
    ASSUME NEW n \in Nat, NEW S \in SUBSET (1 .. n)
    PROVE  IsFiniteSet(S) /\ Cardinality(S) \in Nat /\ Cardinality(S) <= n
<1>1. IsFiniteSet(1 .. n) /\ Cardinality(1 .. n) = n
  BY FS_Interval
<1> QED BY <1>1, FS_Subset, FS_CardinalityType

\* No entry is written.
LEMMA NothingWritten ==
    ASSUME BusInv, TraceInv, Onward, UNCHANGED <<trace, starts, acted>>, made' <= MaxEvents,
           phase' = "off" <=> phase = "off"
    PROVE  TraceInv'
<1>1. made \in Nat /\ made' \in Nat /\ made <= made' /\ NoEvent.id = 0
  BY DEF BusInv, IsBus, Onward, NoEvent
<1>2. CountsOK' /\ FilesOK' /\ SeenOK'
  <2>1. CountsOK'
    BY DEF TraceInv, CountsOK
  <2>2. FilesOK'
    BY DEF TraceInv, FilesOK, trace
  <2>3. SeenOK'
    BY <1>1 DEF TraceInv, SeenOK, trace
  <2> QED BY <2>1, <2>2, <2>3
<1>3. \A e : Pending(queue', busy', e) => Pending(queue, busy, e) \/ e.id \notin 1 .. made
  BY <1>1 DEF Onward
<1>4. RecordOK'
  <2>1. UNCHANGED <<files, seen>>
    BY DEF trace
  <2>2. \A x : InFiles(files, x) => x \in 1 .. made'
    BY <1>1 DEF TraceInv, RecordOK
  <2>3. \A e : Pending(queue', busy', e) /\ InFiles(files, e.id) => e.id \in seen
    BY <1>3 DEF TraceInv, RecordOK
  <2> QED BY <2>1, <2>2, <2>3 DEF TraceInv, RecordOK
<1>5. AlarmsOK'
  <2>1. UNCHANGED <<files, seen, index, unflushed, acted>>
    BY DEF trace
  <2>2. \A e : Pending(queue', busy', e) /\ e.id \in seen => Pending(queue, busy, e)
    BY <1>3 DEF TraceInv, SeenOK
  <2> QED BY <2>1, <2>2 DEF TraceInv, AlarmsOK
<1> QED BY <1>2, <1>4, <1>5 DEF TraceInv

\* An event goes through the observers, and an alarm is acted on.
LEMMA EventLogged ==
    ASSUME ObserversAssumption, BusInv, TraceInv, Onward, UNCHANGED <<starts, phase>>,
           made' <= MaxEvents,
           phase # "off", NEW e, IsNext(e), Logged(e),
           acted' = acted \/ (e.type = "alarm" /\ acted' = acted \union {e.id})
    PROVE  TraceInv'
<1>1. /\ made \in Nat /\ made' \in Nat /\ made <= made' /\ NoEvent.id = 0
      /\ e \in Item /\ e.id \in Nat /\ Pending(queue, busy, e) /\ e.id \in 1 .. made
      /\ e.type = "alarm" => e.level = "CRITICAL"
  <2>1. IsQueue(queue) /\ Sorted(queue) /\ made \in Nat
    BY DEF BusInv, IsBus
  <2>2. e \in Item /\ In(queue, e)
    BY <2>1, RestIs
  <2> QED BY <2>1, <2>2 DEF BusInv, IsBus, Known, Onward, NoEvent, Pending, Item
<1>2. \A d : Pending(queue', busy', d) => Pending(queue, busy, d) \/ d.id \notin 1 .. made
  BY <1>1 DEF Onward
<1>3. CASE e.id \in seen
  <2>1. UNCHANGED trace
    BY <1>3 DEF Logged
  <2>2. CountsOK' /\ FilesOK'
    BY <2>1 DEF TraceInv, CountsOK, FilesOK, trace
  <2>3. SeenOK'
    BY <1>1, <2>1 DEF TraceInv, SeenOK, trace
  <2>4. RecordOK'
    <3>1. \A x : InFiles(files, x) => x \in 1 .. made'
      BY <1>1 DEF TraceInv, RecordOK
    <3>2. \A d : Pending(queue', busy', d) /\ InFiles(files, d.id) => d.id \in seen
      BY <1>2 DEF TraceInv, RecordOK
    <3> QED BY <2>1, <3>1, <3>2 DEF TraceInv, RecordOK, trace
  <2>5. AlarmsOK'
    <3>1. \A d : Pending(queue', busy', d) /\ d.id \in seen => Pending(queue, busy, d)
      BY <1>2 DEF TraceInv, SeenOK
    <3>2. e.level = "CRITICAL" => Safe(files, index, unflushed, e.id)
      BY <1>1, <1>3 DEF TraceInv, AlarmsOK
    <3>3. \A x \in acted' : Safe(files, index, unflushed, x)
      BY <1>1, <3>2 DEF TraceInv, AlarmsOK
    <3> QED BY <2>1, <3>1, <3>3 DEF TraceInv, AlarmsOK, trace
  <2> QED BY <2>2, <2>3, <2>4, <2>5 DEF TraceInv
<1>4. CASE e.id \notin seen
  <2> DEFINE u == e.level = "CRITICAL"
  <2>1. seen' = seen \union {e.id} /\ Written(e.id, u)
    BY <1>4 DEF Logged
  <2>2. IsFiniteSet(seen) /\ Cardinality(seen') = Cardinality(seen) + 1
        /\ Cardinality(seen) \in Nat /\ Cardinality(seen') <= made
    <3>1. seen \in SUBSET (1 .. made) /\ seen' \in SUBSET (1 .. made)
      BY <1>1, <2>1 DEF TraceInv, SeenOK
    <3>2. IsFiniteSet(seen) /\ Cardinality(seen) \in Nat /\ Cardinality(seen') <= made
      BY <1>1, <3>1, SeenIsFinite
    <3> QED BY <1>4, <2>1, <3>2, FS_AddElement
  <2>3. index \in Nat /\ index + 1 <= Cardinality(seen') /\ index + 1 <= MaxEvents
    <3>1. index \in Nat /\ index <= Cardinality(seen) /\ made <= MaxEvents /\ MaxEvents \in Nat
      BY DEF TraceInv, FilesOK, SeenOK, CountsOK, ObserversAssumption
    <3> QED BY <1>1, <2>2, <3>1
  <2>4. /\ IsFiles(files') /\ index' \in Nat /\ unflushed' \in Nat
        /\ index' = IF Full(index) THEN index + 1 ELSE index
        /\ unflushed' <= Len(files'[index'])
        /\ Bounded(files', index', starts, FALSE)
        /\ \A y : InFiles(files', y) <=> InFiles(files, y) \/ y = e.id
        /\ ~InFiles(files, e.id) /\ Once(files) => Once(files')
        /\ \A y : Safe(files, index, unflushed, y) => Safe(files', index', unflushed', y)
        /\ u => Safe(files', index', unflushed', e.id)
    <3>1. /\ starts \in Nat \ {0} /\ MaxPerFile \in Nat \ {0} /\ MaxEvents \in Nat
          /\ u \in BOOLEAN
      BY DEF TraceInv, CountsOK, ObserversAssumption
    <3>2. /\ IsFiles(files) /\ unflushed \in Nat /\ unflushed <= Len(files[index])
          /\ Bounded(files, index, starts, FALSE)
      BY DEF TraceInv, FilesOK
    <3> HIDE DEF u
    <3> QED BY <1>1, <2>1, <2>3, <3>1, <3>2, WrittenIs
  <2>5. CountsOK' /\ FilesOK'
    BY <2>4 DEF TraceInv, CountsOK, FilesOK
  <2>6. SeenOK'
    <3>1. index' \in Nat /\ index' <= index + 1
      BY <2>3, <2>4
    <3>2. index' <= Cardinality(seen')
      BY <2>2, <2>3, <3>1
    <3>3. seen' \subseteq 1 .. made'
      <4>1. seen' \subseteq 1 .. made
        BY <1>1, <2>1 DEF TraceInv, SeenOK
      <4> QED BY <1>1, <4>1
    <3>4. phase' # "off"
      OBVIOUS
    <3> QED BY <3>2, <3>3, <3>4 DEF SeenOK
  <2>7. RecordOK'
    <3>1. ~InFiles(files, e.id)
      BY <1>1, <1>4 DEF TraceInv, RecordOK
    <3>2. \A x : InFiles(files', x) => x \in 1 .. made'
      BY <1>1, <2>4 DEF TraceInv, RecordOK
    <3>3. \A d : Pending(queue', busy', d) /\ InFiles(files', d.id) => d.id \in seen'
      BY <1>2, <2>1, <2>4 DEF TraceInv, RecordOK
    <3>4. \A x \in seen' : InFiles(files', x)
      BY <2>1, <2>4 DEF TraceInv, RecordOK
    <3> QED BY <2>4, <3>1, <3>2, <3>3, <3>4 DEF TraceInv, RecordOK
  <2>8. AlarmsOK'
    <3>1. \A x \in acted' : Safe(files', index', unflushed', x)
      BY <1>1, <2>4 DEF TraceInv, AlarmsOK
    <3>2. ASSUME NEW d, Pending(queue', busy', d), d.level = "CRITICAL", d.id \in seen'
          PROVE  Safe(files', index', unflushed', d.id)
      <4>1. Pending(queue, busy, d)
        BY <1>1, <1>2, <2>1, <3>2 DEF TraceInv, SeenOK
      <4>2. CASE d.id \in seen
        BY <2>4, <3>2, <4>1, <4>2 DEF TraceInv, AlarmsOK
      <4>3. CASE d.id = e.id
        BY <1>1, <2>4, <3>2, <4>1, <4>3 DEF BusInv, IsBus, Different
      <4> QED BY <2>1, <3>2, <4>2, <4>3
    <3> QED BY <3>1, <3>2 DEF AlarmsOK
  <2> QED BY <2>5, <2>6, <2>7, <2>8 DEF TraceInv
<1> QED BY <1>3, <1>4
-----------------------------------------------------------------------------
(* The steps of the trace. *)

LEMMA TraceInit == ObserversAssumption /\ Init => TraceInv
<1> SUFFICES ASSUME ObserversAssumption, Init PROVE TraceInv
  OBVIOUS
<1>1. /\ phase = "up" /\ starts = 1 /\ made = 1 /\ seen = {} /\ index = 0 /\ unflushed = 0
      /\ files = [i \in 0 .. MaxEvents |-> <<>>] /\ acted = {}
      /\ MaxEvents \in Nat \ {0} /\ MaxStarts \in Nat \ {0} /\ MaxPerFile \in Nat \ {0}
  BY DEF Init, ObserversAssumption
<1>2. IsFiles(files) /\ \A i \in 0 .. MaxEvents : files[i] = <<>> /\ Len(files[i]) = 0
  BY <1>1 DEF IsFiles
<1>3. \A i \in 0 .. MaxEvents : DOMAIN files[i] = {}
  BY <1>2
<1>4. Bounded(files, index, starts, FALSE)
  <2> SUFFICES ASSUME NEW i \in 0 .. MaxEvents
               PROVE  Len(files[i]) <= MaxPerFile + 1 - (IF i <= 0 THEN 1 ELSE 2)
    BY <1>1 DEF Bounded
  <2> QED BY <1>1, <1>2
<1>5. FilesOK
  BY <1>1, <1>2, <1>4 DEF FilesOK
<1>6. SeenOK
  <2>1. Cardinality({}) = 0
    BY FS_EmptySet
  <2> QED BY <1>1, <2>1 DEF SeenOK
<1>7. \A x : ~InFiles(files, x)
  BY <1>2, <1>3 DEF InFiles, IsFiles
<1>8. RecordOK /\ AlarmsOK
  <2>1. DOMAIN files = 0 .. MaxEvents
    BY <1>1
  <2>2. Once(files)
    BY <1>3, <2>1 DEF Once
  <2> QED BY <1>1, <1>7, <2>2 DEF RecordOK, AlarmsOK
<1>9. CountsOK
  BY <1>1 DEF CountsOK
<1> QED BY <1>5, <1>6, <1>8, <1>9 DEF TraceInv

\* No step makes more events than there may be.
LEMMA MadeIsBounded ==
    ASSUME BusInv, TraceInv, [Next]_vars, ObserversAssumption
    PROVE  made' <= MaxEvents
<1>1. made \in Nat /\ made <= MaxEvents /\ MaxEvents \in Nat
  BY DEF BusInv, IsBus, TraceInv, CountsOK, ObserversAssumption
<1>2. ASSUME NEW x, Publish(x) PROVE made' <= MaxEvents
  BY <1>1, <1>2 DEF Publish
<1>3. \/ made' = made
      \/ \E e \in Heads : MotionRuns(e)
      \/ \E x : Publish(x)
  BY DEF Next, vars, bus, Dispatch, Outside, Seen, SpeechStarts, CandidateHandled, PlaybackStarts,
         PlaybackEnds, Interrupted, TimesOut, Request, Happens, ListenStarts, ListenEnds,
         HealthCheck, FlushEnds, FlushFails, Stop, Exits, Dies, Starts
<1>4. ASSUME NEW e \in Heads, MotionRuns(e) PROVE made' <= MaxEvents
  BY <1>1, <1>4 DEF MotionRuns
<1> QED BY <1>1, <1>2, <1>3, <1>4

\* What a step may do with the trace.
LEMMA TraceSteps ==
    ASSUME [Next]_vars, MemoryInv
    PROVE  \/ UNCHANGED <<trace, starts, acted>> /\ (phase' = "off" <=> phase = "off")
           \/ \E e : /\ IsNext(e) /\ Logged(e) /\ UNCHANGED <<starts, phase>> /\ phase # "off"
                     /\ acted' = acted \/ (e.type = "alarm" /\ acted' = acted \union {e.id})
           \/ Exits \/ Dies \/ Starts
<1>1. flushing["app"] # {} => phase = "stopping"
  BY DEF MemoryInv, FlushOK
<1>2. ASSUME NEW e, Seen(e) \/ MotionRuns(e) \/ SpeechStarts(e) \/ CandidateHandled(e)
      PROVE  /\ IsNext(e) /\ Logged(e) /\ UNCHANGED <<starts, phase>> /\ phase # "off"
             /\ acted' = acted \/ (e.type = "alarm" /\ acted' = acted \union {e.id})
  BY <1>2 DEF Seen, MotionRuns, SpeechStarts, CandidateHandled, Observed, IsNext, process
<1>3. ASSUME PlaybackStarts \/ PlaybackEnds \/ Interrupted \/ TimesOut \/ Outside \/ UNCHANGED vars
      PROVE  UNCHANGED <<trace, starts, acted, phase>>
  BY <1>3 DEF PlaybackStarts, PlaybackEnds, Interrupted, TimesOut, Outside, Request, Happens,
             ListenStarts, ListenEnds, HealthCheck, process, vars
<1>4. ASSUME NEW who \in Who, FlushEnds(who) \/ FlushFails(who)
      PROVE  UNCHANGED <<trace, starts, acted>> /\ (phase' = "off" <=> phase = "off")
  BY <1>1, <1>4 DEF FlushEnds, FlushFails, Returns
<1>5. ASSUME Stop PROVE UNCHANGED <<trace, starts, acted>> /\ (phase' = "off" <=> phase = "off")
  BY <1>5 DEF Stop
<1> QED BY <1>2, <1>3, <1>4, <1>5 DEF Next, Dispatch

LEMMA TraceStep ==
    ObserversAssumption /\ BusInv /\ MemoryInv /\ TraceInv /\ [Next]_vars => TraceInv'
<1> SUFFICES ASSUME ObserversAssumption, BusInv, MemoryInv, TraceInv, [Next]_vars PROVE TraceInv'
  OBVIOUS
<1>0. /\ BusInv' /\ Onward /\ made' <= MaxEvents
      /\ MaxEvents \in Nat \ {0} /\ MaxPerFile \in Nat \ {0} /\ made \in Nat /\ made' \in Nat /\ made <= made'
      /\ starts \in Nat \ {0} /\ MaxStarts \in Nat
  <2>1. BusInv' /\ Onward /\ made' <= MaxEvents
    BY BusStep, MadeIsBounded
  <2> QED BY <2>1 DEF ObserversAssumption, BusInv, IsBus, Onward, TraceInv, CountsOK
<1>1. CASE UNCHANGED <<trace, starts, acted>> /\ (phase' = "off" <=> phase = "off")
  BY <1>0, <1>1, NothingWritten
<1>2. ASSUME NEW e, IsNext(e), Logged(e), UNCHANGED <<starts, phase>>, phase # "off",
             acted' = acted \/ (e.type = "alarm" /\ acted' = acted \union {e.id})
      PROVE  TraceInv'
  BY <1>0, <1>2, EventLogged
<1>f. /\ IsFiles(files) /\ index \in Nat /\ unflushed \in Nat /\ unflushed <= Len(files[index])
      /\ index <= MaxEvents /\ DOMAIN files = 0 .. MaxEvents
      /\ \A i \in 0 .. MaxEvents : Len(files[i]) \in Nat /\ Len(files[i]) <= MaxPerFile + starts - 1
  <2>1. IsFiles(files) /\ index \in Nat /\ unflushed \in Nat /\ unflushed <= Len(files[index])
    BY DEF TraceInv, FilesOK
  <2>2. Cardinality(seen) <= made /\ index <= Cardinality(seen) /\ Cardinality(seen) \in Nat
    BY <1>0, SeenIsFinite DEF TraceInv, SeenOK
  <2>3. \A i \in 0 .. MaxEvents : Len(files[i]) \in Nat
    BY <2>1 DEF IsFiles
  <2>4. \A i \in 0 .. MaxEvents : Len(files[i]) <= MaxPerFile + starts - 1
    <3>1. DOMAIN files = 0 .. MaxEvents
      BY <2>1 DEF IsFiles
    <3>2. CASE phase = "off"
      BY <3>1, <3>2 DEF TraceInv, FilesOK, Bounded
    <3>3. CASE phase # "off"
      <4>1. \A i \in 0 .. MaxEvents : Len(files[i]) <= MaxPerFile + starts - (IF i <= index THEN 1 ELSE 2)
        BY <3>1, <3>3 DEF TraceInv, FilesOK, Bounded
      <4> SUFFICES ASSUME NEW i \in 0 .. MaxEvents PROVE Len(files[i]) <= MaxPerFile + starts - 1
        OBVIOUS
      <4>2. CASE i <= index
        BY <4>1, <4>2
      <4>3. CASE ~(i <= index)
        <5>1. Len(files[i]) <= MaxPerFile + starts - 2
          BY <4>1, <4>3
        <5>2. Len(files[i]) \in Nat
          BY <2>3
        <5> QED BY <1>0, <5>1, <5>2
      <4> QED BY <4>2, <4>3
    <3> QED BY <3>2, <3>3
  <2>5. index <= MaxEvents
    BY <1>0, <2>1, <2>2 DEF TraceInv, CountsOK
  <2> QED BY <2>1, <2>3, <2>4, <2>5 DEF IsFiles
\* The process ends: only what is safe is left for certain.
<1>3. ASSUME IsFiles(files'), Shorter(files', files), phase' = "off", Forgotten, UNCHANGED <<starts, made, acted>>,
             \A y : Safe(files, index, unflushed, y) => InFiles(files', y)
      PROVE  TraceInv'
  <2>1. /\ seen' = {} /\ index' = 0 /\ unflushed' = 0 /\ busy' = NoEvent
        /\ queue' = [l \in Levels |-> <<>>]
    BY <1>3 DEF Forgotten
  <2>2. \A y : InFiles(files', y) => InFiles(files, y)
    BY <1>0, <1>3, <1>f, ShorterIs
  <2>3. Once(files')
    BY <1>0, <1>3, <1>f, ShorterIs DEF TraceInv, RecordOK
  <2>4. \A e : Pending(queue', busy', e) => e.id = 0
    BY <2>1 DEF Pending, In, NoEvent
  <2>5. DOMAIN files' = 0 .. MaxEvents /\ \A i \in 0 .. MaxEvents : Len(files'[i]) \in Nat /\ DOMAIN files'[i] = 1 .. Len(files'[i])
    BY <1>3 DEF IsFiles
  <2>6. FilesOK'
    <3>1. Bounded(files', index', starts, TRUE)
      <4> SUFFICES ASSUME NEW i \in 0 .. MaxEvents PROVE Len(files'[i]) <= MaxPerFile + starts - 1
        BY <2>5 DEF Bounded
      <4>1. Len(files'[i]) <= Len(files[i])
        BY <1>3 DEF Shorter
      <4> QED BY <1>0, <1>f, <2>5, <4>1
    <3>2. 0 <= Len(files'[0])
      BY <1>0, <2>5
    <3> QED BY <1>3, <2>1, <3>1, <3>2 DEF FilesOK
  <2>7. SeenOK'
    BY <2>1, FS_EmptySet DEF SeenOK
  <2>8. RecordOK'
    <3>1. \A x : InFiles(files', x) => x \in 1 .. made'
      BY <1>3, <2>2 DEF TraceInv, RecordOK
    <3>2. \A e : ~(Pending(queue', busy', e) /\ InFiles(files', e.id))
      BY <1>0, <1>3, <2>4, <3>1
    <3> QED BY <1>3, <2>3, <3>1, <3>2 DEF RecordOK
  <2>9. AlarmsOK'
    <3>1. \A y : InFiles(files', y) => Safe(files', 0, 0, y)
      <4> SUFFICES ASSUME NEW y, NEW i \in 0 .. MaxEvents, NEW a \in DOMAIN files'[i], files'[i][a] = y
                   PROVE  Safe(files', 0, 0, y)
        BY <2>5 DEF InFiles
      <4>1. a + 0 <= Len(files'[i])
        BY <2>5
      <4> QED BY <2>5, <4>1 DEF Safe
    <3> QED BY <1>3, <2>1, <3>1 DEF TraceInv, AlarmsOK
  <2>10. CountsOK'
    BY <1>3 DEF TraceInv, CountsOK
  <2> QED BY <2>6, <2>7, <2>8, <2>9, <2>10 DEF TraceInv
<1>4. CASE Exits
  <2>1. Shorter(files, files)
    BY <1>f DEF Shorter
  <2> QED BY <1>3, <1>4, <1>f, <2>1, SafeIsIn DEF Exits
<1>5. CASE Dies
  <2>1. PICK n \in 0 .. unflushed : files' = [files EXCEPT ![index] = SubSeq(@, 1, Len(@) - n)]
    BY <1>5 DEF Dies
  <2>2. /\ IsFiles(files') /\ Shorter(files', files)
        /\ \A y : Safe(files, index, unflushed, y) => InFiles(files', y)
    BY <1>0, <1>f, <2>1, LostIs
  <2> QED BY <1>3, <1>5, <2>2 DEF Dies
\* It starts again, and has no more entries than it finds.
<1>6. CASE Starts
  <2>1. /\ phase = "off" /\ phase' = "up" /\ starts < MaxStarts /\ starts' = starts + 1 /\ acted' = {}
        /\ UNCHANGED <<seen, index, unflushed>> /\ seen = {} /\ index = 0 /\ unflushed = 0
    BY <1>6 DEF Starts, TraceInv, SeenOK
  <2>2. PICK old \in DOMAIN files : files' = [i \in DOMAIN files |-> IF i < old THEN <<>> ELSE files[i]]
    BY <1>6 DEF Starts, Expired
  <2>3. IsFiles(files') /\ Shorter(files', files)
    <3>1. IsFiles(files')
      BY <1>f, <2>2 DEF IsFiles
    <3>2. \A i \in 0 .. MaxEvents : files'[i] = <<>> \/ files'[i] = files[i]
      BY <1>f, <2>2
    <3> QED BY <1>f, <3>1, <3>2 DEF Shorter
  <2>4. (\A y : InFiles(files', y) => InFiles(files, y)) /\ (Once(files) => Once(files'))
    BY <1>0, <1>f, <2>3, ShorterIs
  <2>5. DOMAIN files' = 0 .. MaxEvents /\ \A i \in 0 .. MaxEvents : Len(files'[i]) \in Nat
    BY <2>3 DEF IsFiles
  <2>6. FilesOK'
    <3>1. Bounded(files', 0, starts', FALSE)
      <4> SUFFICES ASSUME NEW i \in 0 .. MaxEvents
                   PROVE  Len(files'[i]) <= MaxPerFile + starts' - (IF i <= 0 THEN 1 ELSE 2)
        BY <2>5 DEF Bounded
      <4>1. Len(files'[i]) <= Len(files[i])
        BY <2>3 DEF Shorter
      <4>2. Len(files[i]) <= MaxPerFile + starts - 1 /\ Len(files[i]) \in Nat /\ Len(files'[i]) \in Nat
        BY <1>f, <2>5
      <4>3. Len(files'[i]) <= MaxPerFile + starts' - 2
        BY <1>0, <2>1, <4>1, <4>2
      <4>4. CASE i <= 0
        BY <1>0, <2>1, <4>2, <4>3, <4>4
      <4>5. CASE ~(i <= 0)
        BY <4>3, <4>5
      <4> QED BY <4>4, <4>5
    <3>2. 0 <= Len(files'[0])
      BY <1>0, <2>5
    <3> QED BY <2>1, <2>3, <3>1, <3>2 DEF FilesOK
  <2>7. SeenOK'
    BY <2>1, FS_EmptySet DEF SeenOK
  <2>8. RecordOK'
    <3>1. \A x : InFiles(files', x) => x \in 1 .. made
      BY <2>4 DEF TraceInv, RecordOK
    <3>2. \A e : Pending(queue', busy', e) => ~InFiles(files', e.id)
      <4> SUFFICES ASSUME NEW e, Pending(queue', busy', e), InFiles(files', e.id) PROVE FALSE
        OBVIOUS
      <4>1. e.id \in 1 .. made /\ e # NoEvent
        BY <1>0, <3>1 DEF NoEvent
      <4>2. Pending(queue, busy, e)
        BY <1>0, <4>1 DEF Onward
      <4> QED BY <2>1, <2>4, <4>2 DEF TraceInv, RecordOK
    <3>3. \A x : InFiles(files', x) => x \in 1 .. made'
      BY <1>0, <3>1
    <3> QED BY <2>1, <2>4, <3>2, <3>3 DEF TraceInv, RecordOK
  <2>9. AlarmsOK'
    BY <2>1 DEF AlarmsOK
  <2>10. CountsOK'
    BY <1>0, <2>1 DEF CountsOK
  <2> QED BY <2>6, <2>7, <2>8, <2>9, <2>10 DEF TraceInv
<1> QED BY <1>1, <1>2, <1>4, <1>5, <1>6, TraceSteps

-----------------------------------------------------------------------------
(***************************************************************************)
(* What the events in the queues will make of the state: of a topic, the   *)
(* types in good set it right and those in bad set it wrong.  It is told   *)
(* when a good event waits that no bad event comes after; it is sound when *)
(* it is told, or right with no bad event in the queues.                   *)
(***************************************************************************)
Later(l, i, k, j) == Rank[l] < Rank[k] \/ (k = l /\ i < j)

Told(q, bad, good) == \E l \in Levels : \E i \in DOMAIN q[l] :
    /\ q[l][i].type \in good
    /\ \A k \in Levels : \A j \in DOMAIN q[k] : Later(l, i, k, j) => q[k][j].type \notin bad

Untold(q, bad) == \A l \in Levels : \A i \in DOMAIN q[l] : q[l][i].type \notin bad

Sound(q, right, bad, good) == Told(q, bad, good) \/ (right /\ Untold(q, bad))

LEMMA RankIs == \A l \in Levels : Rank[l] \in Nat
  BY DEF Rank, Levels

LEMMA SoundQueued ==
    ASSUME NEW q, IsQueue(q), Sorted(q), NEW n \in Nat, NEW x \in [type : Types, level : Levels],
           NEW right, NEW bad, NEW good
    PROVE  LET r == Queued(q, n, x) IN
           /\ Untold(q, bad) /\ x.type \notin bad => Untold(r, bad)
           /\ Sound(q, right, bad, good) /\ x.type \notin bad => Sound(r, right, bad, good)
           /\ /\ x.type \in good
              /\ \A k \in Levels : Rank[x.level] < Rank[k] => \A j \in DOMAIN q[k] : q[k][j].type \notin bad
              => Sound(r, right, bad, good)
<1> DEFINE l == x.level
           f == Stamped(n, x)
           s == Append(q[l], f)
           r == [q EXCEPT ![l] = s]
<1>1. /\ f \in Item /\ q[l] \in Seq(Item) /\ l \in Levels /\ Queued(q, n, x) = r /\ f.type = x.type
  BY DEF Item, IsQueue, Queued, Stamped
<1> HIDE DEF f, l
<1>2. /\ DOMAIN q[l] = 1 .. Len(q[l]) /\ DOMAIN s = 1 .. Len(q[l]) + 1
      /\ Len(q[l]) \in Nat /\ s[Len(q[l]) + 1] = f /\ \A i \in DOMAIN q[l] : s[i] = q[l][i]
  BY <1>1
<1> HIDE DEF s
<1>3. r[l] = s /\ \A m \in Levels \ {l} : r[m] = q[m]
  BY <1>1 DEF IsQueue
<1> HIDE DEF r
<1>4. \A k \in Levels : \A j \in DOMAIN r[k] :
         (j \in DOMAIN q[k] /\ r[k][j] = q[k][j]) \/ (k = l /\ j = Len(q[l]) + 1 /\ r[k][j] = f)
  BY <1>2, <1>3
<1>5. \A k \in Levels : \A j \in DOMAIN q[k] : j \in DOMAIN r[k] /\ r[k][j] = q[k][j]
  BY <1>2, <1>3
<1>6. Untold(q, bad) /\ x.type \notin bad => Untold(r, bad)
  BY <1>1, <1>4 DEF Untold
<1>7. Told(q, bad, good) /\ x.type \notin bad => Told(r, bad, good)
  BY <1>1, <1>4, <1>5 DEF Told
<1>8. ASSUME x.type \in good,
             \A k \in Levels : Rank[l] < Rank[k] => \A j \in DOMAIN q[k] : q[k][j].type \notin bad
      PROVE  Told(r, bad, good)
  <2> DEFINE i == Len(q[l]) + 1
  <2>1. i \in DOMAIN r[l] /\ r[l][i].type \in good
    BY <1>1, <1>2, <1>3, <1>8
  <2>2. ASSUME NEW k \in Levels, NEW j \in DOMAIN r[k], Later(l, i, k, j) PROVE r[k][j].type \notin bad
    <3>1. k # l
      BY <1>1, <1>2, <1>3, <2>2, RankIs DEF Later
    <3>2. Rank[l] < Rank[k] /\ j \in DOMAIN q[k] /\ r[k][j] = q[k][j]
      BY <1>4, <2>2, <3>1 DEF Later
    <3> QED BY <1>8, <3>2
  <2> QED BY <1>1, <2>1, <2>2 DEF Told
<1> QED BY <1>1, <1>6, <1>7, <1>8 DEF Sound, l

LEMMA SoundRest ==
    ASSUME IsQueue(queue), Sorted(queue), NEW e, IsNext(e),
           NEW right, NEW bad, NEW good, NEW then,
           e.type \in good => then, e.type \notin bad /\ right => then
    PROVE  /\ Untold(queue, bad) => Untold(Rest(e), bad) /\ e.type \notin bad
           /\ Sound(queue, right, bad, good) => Sound(Rest(e), then, bad, good)
<1> DEFINE m == e.level
           s == Tail(queue[m])
           r == Rest(e)
<1>1. /\ queue[m] # <<>> /\ e = Head(queue[m]) /\ m \in Levels /\ r = [queue EXCEPT ![m] = s]
      /\ \A k \in Levels : Rank[k] < Rank[m] => queue[k] = <<>>
  BY RestIs DEF Item
<1> HIDE DEF m
<1>2. queue[m] \in Seq(Item)
  BY <1>1 DEF IsQueue
<1>3. /\ DOMAIN queue[m] = 1 .. Len(queue[m]) /\ DOMAIN s = 1 .. Len(queue[m]) - 1
      /\ Len(queue[m]) \in Nat \ {0} /\ e = queue[m][1]
      /\ \A i \in DOMAIN s : s[i] = queue[m][i + 1]
  BY <1>1, <1>2
<1> HIDE DEF s
<1>4. r[m] = s /\ \A k \in Levels \ {m} : r[k] = queue[k]
  BY <1>1 DEF IsQueue
<1> HIDE DEF r
<1>5. \A k \in Levels \ {m} : \A j \in DOMAIN queue[k] : Rank[m] < Rank[k]
  <2> SUFFICES ASSUME NEW k \in Levels, k # m, NEW j \in DOMAIN queue[k], ~(Rank[m] < Rank[k])
               PROVE  FALSE
    OBVIOUS
  <2>1. Rank[k] < Rank[m]
    BY <1>1 DEF Rank, Levels
  <2>2. queue[k] = <<>>
    BY <1>1, <2>1
  <2> QED BY <2>2
\* Where what is left was before.
<1> DEFINE At(k, j) == IF k = m THEN j + 1 ELSE j
<1>6. \A k \in Levels : \A j \in DOMAIN r[k] : At(k, j) \in DOMAIN queue[k] /\ r[k][j] = queue[k][At(k, j)]
                                            /\ (k = m => j \in 1 .. Len(queue[m]) - 1 /\ At(k, j) = j + 1)
  BY <1>3, <1>4
<1>7. \A k \in Levels : \A j \in DOMAIN queue[k] :
         (k = m /\ j = 1) \/ (k = m /\ j - 1 \in DOMAIN r[k] /\ r[k][j - 1] = queue[k][j] /\ j \in Nat)
                         \/ (k # m /\ j \in DOMAIN r[k] /\ r[k][j] = queue[k][j])
  <2> SUFFICES ASSUME NEW k \in Levels, NEW j \in DOMAIN queue[k]
               PROVE  (k = m /\ j = 1) \/ (k = m /\ j - 1 \in DOMAIN r[k] /\ r[k][j - 1] = queue[k][j] /\ j \in Nat)
                         \/ (k # m /\ j \in DOMAIN r[k] /\ r[k][j] = queue[k][j])
    OBVIOUS
  <2>1. CASE k = m
    <3>1. j \in Nat /\ (j # 1 => j - 1 \in DOMAIN s /\ (j - 1) + 1 = j)
      BY <1>3, <2>1
    <3>2. j # 1 => s[j - 1] = queue[m][j]
      BY <1>3, <3>1
    <3> QED BY <1>4, <2>1, <3>1, <3>2
  <2>2. CASE k # m
    BY <1>4, <2>2
  <2> QED BY <2>1, <2>2
<1>8. Untold(queue, bad) => Untold(r, bad) /\ e.type \notin bad
  <2> SUFFICES ASSUME Untold(queue, bad) PROVE Untold(r, bad) /\ e.type \notin bad
    OBVIOUS
  <2>1. 1 \in DOMAIN queue[m]
    BY <1>3
  <2>2. e.type \notin bad
    BY <1>1, <1>3, <2>1 DEF Untold
  <2> HIDE DEF At
  <2>3. Untold(r, bad)
    BY <1>6 DEF Untold
  <2> QED BY <2>2, <2>3
<1>9. ASSUME Told(queue, bad, good) PROVE Told(r, bad, good) \/ (e.type \in good /\ Untold(r, bad))
  <2>1. PICK l \in Levels : \E i \in DOMAIN queue[l] :
             /\ queue[l][i].type \in good
             /\ \A k \in Levels : \A j \in DOMAIN queue[k] : Later(l, i, k, j) => queue[k][j].type \notin bad
    BY <1>9 DEF Told
  <2>2. PICK i \in DOMAIN queue[l] :
             /\ queue[l][i].type \in good
             /\ \A k \in Levels : \A j \in DOMAIN queue[k] : Later(l, i, k, j) => queue[k][j].type \notin bad
    BY <2>1
  <2>3. CASE l = m /\ i = 1
    <3>1. \A k \in Levels : \A j \in DOMAIN r[k] : Later(l, i, k, At(k, j))
      <4> SUFFICES ASSUME NEW k \in Levels, NEW j \in DOMAIN r[k] PROVE Later(l, i, k, At(k, j))
        OBVIOUS
      <4>1. CASE k = m
        BY <1>3, <1>6, <2>3, <4>1 DEF Later
      <4>2. CASE k # m
        BY <1>5, <1>6, <2>3, <4>2 DEF Later
      <4> QED BY <4>1, <4>2
    <3> HIDE DEF At
    <3>2. Untold(r, bad)
      BY <1>6, <2>2, <3>1 DEF Untold
    <3> QED BY <1>3, <2>2, <2>3, <3>2
  <2>4. CASE l = m /\ i # 1
    <3>1. i - 1 \in DOMAIN r[l] /\ r[l][i - 1] = queue[l][i] /\ i \in Nat
      BY <1>7, <2>4
    <3>2. \A k \in Levels : \A j \in DOMAIN r[k] : Later(l, i - 1, k, j) => Later(l, i, k, At(k, j))
      BY <1>6, <2>4, <3>1 DEF Later
    <3> HIDE DEF At
    <3>3. \A k \in Levels : \A j \in DOMAIN r[k] : Later(l, i - 1, k, j) => r[k][j].type \notin bad
      BY <1>6, <2>2, <3>2
    <3> QED BY <2>2, <3>1, <3>3 DEF Told
  <2>5. CASE l # m
    <3>1. i \in DOMAIN r[l] /\ r[l][i] = queue[l][i]
      BY <1>7, <2>5
    <3>2. \A k \in Levels : \A j \in DOMAIN r[k] : Later(l, i, k, j) => Later(l, i, k, At(k, j))
      BY <2>5 DEF Later
    <3> HIDE DEF At
    <3>3. \A k \in Levels : \A j \in DOMAIN r[k] : Later(l, i, k, j) => r[k][j].type \notin bad
      BY <1>6, <2>2, <3>2
    <3> QED BY <2>2, <3>1, <3>3 DEF Told
  <2> QED BY <2>3, <2>4, <2>5
<1>10. Sound(queue, right, bad, good) => Sound(r, then, bad, good)
  BY <1>8, <1>9 DEF Sound
<1> QED BY <1>8, <1>10 DEF r

LEMMA SoundInFront ==
    ASSUME IsQueue(queue), Sorted(queue), NEW b \in Item, NEW r,
           r = [queue EXCEPT ![b.level] = <<b>> \o @],
           NEW right, NEW bad, NEW good, b.type \notin bad
    PROVE  /\ Untold(queue, bad) => Untold(r, bad)
           /\ Sound(queue, right, bad, good) => Sound(r, right, bad, good)
<1> DEFINE m == b.level
           s == <<b>> \o queue[m]
<1>1. m \in Levels
  BY DEF Item
<1>2. queue[m] \in Seq(Item) /\ r = [queue EXCEPT ![m] = s]
  BY <1>1 DEF IsQueue
<1>3. /\ DOMAIN queue[m] = 1 .. Len(queue[m]) /\ DOMAIN s = 1 .. Len(queue[m]) + 1
      /\ Len(queue[m]) \in Nat /\ s[1] = b /\ \A i \in DOMAIN queue[m] : s[i + 1] = queue[m][i]
  BY <1>2
<1> HIDE DEF s, m
<1>4. r[m] = s /\ \A k \in Levels \ {m} : r[k] = queue[k]
  BY <1>1, <1>2 DEF IsQueue
<1> DEFINE At(k, j) == IF k = m THEN j + 1 ELSE j
<1>5. \A k \in Levels : \A j \in DOMAIN queue[k] : At(k, j) \in DOMAIN r[k] /\ r[k][At(k, j)] = queue[k][j]
  BY <1>3, <1>4
<1>6. \A k \in Levels : \A j \in DOMAIN r[k] :
         (k = m /\ r[k][j] = b /\ j = 1) \/ (k = m /\ j - 1 \in DOMAIN queue[k] /\ r[k][j] = queue[k][j - 1] /\ j \in Nat)
            \/ (k # m /\ j \in DOMAIN queue[k] /\ r[k][j] = queue[k][j])
  <2> SUFFICES ASSUME NEW k \in Levels, NEW j \in DOMAIN r[k]
               PROVE  (k = m /\ r[k][j] = b /\ j = 1)
                         \/ (k = m /\ j - 1 \in DOMAIN queue[k] /\ r[k][j] = queue[k][j - 1] /\ j \in Nat)
                         \/ (k # m /\ j \in DOMAIN queue[k] /\ r[k][j] = queue[k][j])
    OBVIOUS
  <2>1. CASE k = m
    BY <1>3, <1>4, <2>1
  <2>2. CASE k # m
    BY <1>4, <2>2
  <2> QED BY <2>1, <2>2
<1>7. Untold(queue, bad) => Untold(r, bad)
  BY <1>6 DEF Untold
<1>8. ASSUME Told(queue, bad, good) PROVE Told(r, bad, good)
  <2>1. PICK l \in Levels : \E i \in DOMAIN queue[l] :
             /\ queue[l][i].type \in good
             /\ \A k \in Levels : \A j \in DOMAIN queue[k] : Later(l, i, k, j) => queue[k][j].type \notin bad
    BY <1>8 DEF Told
  <2>2. PICK i \in DOMAIN queue[l] :
             /\ queue[l][i].type \in good
             /\ \A k \in Levels : \A j \in DOMAIN queue[k] : Later(l, i, k, j) => queue[k][j].type \notin bad
    BY <2>1
  <2>3. At(l, i) \in DOMAIN r[l] /\ r[l][At(l, i)] = queue[l][i] /\ (l = m => i \in 1 .. Len(queue[m]))
    BY <1>3, <1>5
  <2>4. ASSUME NEW k \in Levels, NEW j \in DOMAIN r[k], Later(l, At(l, i), k, j) PROVE r[k][j].type \notin bad
    <3>1. CASE k # m
      <4>1. Later(l, i, k, j) /\ j \in DOMAIN queue[k] /\ r[k][j] = queue[k][j]
        BY <1>6, <2>4, <3>1 DEF Later
      <4> QED BY <2>2, <4>1
    <3>2. CASE k = m /\ l = m
      <4>1. j \in 1 .. Len(queue[m]) + 1 /\ ~(Rank[l] < Rank[k])
        BY <1>1, <1>3, <1>4, <3>2 DEF Rank, Levels
      <4>2. Later(l, i, k, j - 1) /\ j - 1 \in DOMAIN queue[k] /\ r[k][j] = queue[k][j - 1]
        BY <1>3, <1>6, <2>3, <2>4, <3>2, <4>1 DEF Later
      <4> QED BY <2>2, <4>2
    <3>3. CASE k = m /\ l # m
      <4>1. Later(l, i, k, j - 1)
        BY <2>4, <3>3 DEF Later
      <4> QED BY <1>6, <2>2, <3>3, <4>1
    <3> QED BY <3>1, <3>2, <3>3
  <2> HIDE DEF At
  <2> QED BY <2>2, <2>3, <2>4 DEF Told
<1> QED BY <1>7, <1>8 DEF Sound

-----------------------------------------------------------------------------
(***************************************************************************)
(* The state settles: every flag is sound that is not waiting for the end  *)
(* of what it shows, and so is the health that the last check found.  What *)
(* starts the listening and the motion is HIGH, and so it cannot be        *)
(* overtaken by the HIGH event that ends it.                               *)
(***************************************************************************)
Flags == {"listening", "playback", "moving"}
SetBy(f)     == {t \in Types : f \in Sets(t)}
ClearedBy(f) == {t \in Types : f \in Clears(t)}
News(h) == IF h = "unavailable" THEN {"unavailable"} ELSE {"ready", "healthy"}
Other(h) == IF h = "unavailable" THEN {"ready", "healthy"} ELSE {"unavailable"}

FlagsSound(q, s, un) == \A f \in Flags \ un : Sound(q, f \notin s, SetBy(f), ClearedBy(f))
HealthSound(q, h, la) == /\ la = "unknown" => h # "unavailable" /\ Untold(q, {"unavailable"})
                         /\ la # "unknown" => Sound(q, h = la, Other(la), News(la))
HighStarts(q) == \A e : In(q, e) /\ e.type \in {"recording_started", "motion_started"} => e.level = "HIGH"

Settled(q, s, h, la, un) == FlagsSound(q, s, un) /\ HealthSound(q, h, la) /\ HighStarts(q)

ViewTypeOK == /\ shown \subseteq Flags /\ unanswered \subseteq Flags
              /\ health \in {"unknown", "healthy", "unavailable"}
              /\ last \in {"unknown", "healthy", "unavailable"}
              /\ intents \in DOMAIN RuleLists /\ sources \in Scenarios

SettleInv == ViewTypeOK /\ Settled(queue, shown, health, last, unanswered)

\* An event is published that sets nothing, or a flag that waits for its end.
LEMMA SettledAdd ==
    ASSUME NEW q, IsQueue(q), Sorted(q), NEW n \in Nat, NEW x \in [type : Types, level : Levels],
           NEW s, NEW h, NEW la, NEW un, NEW more, Settled(q, s, h, la, un), un \subseteq more,
           Sets(x.type) \subseteq more,
           x.type \in {"recording_started", "motion_started"} => x.level = "HIGH",
           x.type \notin {"healthy", "unavailable"}, x.type = "ready" => la = "unknown"
    PROVE  Settled(Queued(q, n, x), s, h, la, more)
<1> DEFINE r == Queued(q, n, x)
<1>1. FlagsSound(r, s, more)
  <2> SUFFICES ASSUME NEW f \in Flags \ more PROVE Sound(r, f \notin s, SetBy(f), ClearedBy(f))
    BY DEF FlagsSound
  <2> DEFINE right == f \notin s
             bad == SetBy(f)
             good == ClearedBy(f)
  <2>1. Sound(q, right, bad, good) /\ x.type \notin bad
    BY DEF Settled, FlagsSound, SetBy
  <2> HIDE DEF right, bad, good
  <2>2. Sound(r, right, bad, good)
    BY <2>1, SoundQueued
  <2> QED BY <2>2 DEF right, bad, good
<1>2. HealthSound(r, h, la)
  <2>1. CASE la = "unknown"
    <3>1. h # "unavailable" /\ Untold(q, {"unavailable"})
      BY <2>1 DEF Settled, HealthSound
    <3>2. Untold(r, {"unavailable"})
      BY <3>1, SoundQueued
    <3> QED BY <2>1, <3>1, <3>2 DEF HealthSound
  <2>2. CASE la # "unknown"
    <3> DEFINE right == h = la
               bad == Other(la)
               good == News(la)
    <3>1. Sound(q, right, bad, good) /\ x.type \notin bad
      BY <2>2 DEF Settled, HealthSound, Other
    <3> HIDE DEF right, bad, good
    <3>2. Sound(r, right, bad, good)
      BY <3>1, SoundQueued
    <3> QED BY <2>2, <3>2 DEF right, bad, good, HealthSound
  <2> QED BY <2>1, <2>2
<1>3. HighStarts(r)
  <2>0. \A e : In(r, e) => In(q, e) \/ e = Stamped(n, x)
    BY QueuedIs
  <2> HIDE DEF r
  <2>1. \A e : In(r, e) => In(q, e) \/ (e.type = x.type /\ e.level = x.level)
    BY <2>0 DEF Stamped
  <2> QED BY <2>1 DEF Settled, HighStarts
<1> QED BY <1>1, <1>2, <1>3 DEF Settled

Ends == {High("transcript_ready"), Normal("playback_ended"), High("motion_completed"), Normal("motion_failed")}

\* The end of what a flag shows is published after its start.
LEMMA SettledEnd ==
    ASSUME NEW q, IsQueue(q), Sorted(q), NEW n \in Nat, NEW x \in Ends,
           NEW s, NEW h, NEW la, NEW un, Settled(q, s, h, la, un)
    PROVE  Settled(Queued(q, n, x), s, h, la, un \ Clears(x.type))
<1> DEFINE r == Queued(q, n, x)
<1>1. /\ x \in [type : Types, level : Levels] /\ Sets(x.type) = {}
      /\ x.type \notin {"recording_started", "motion_started", "healthy", "unavailable", "ready"}
  BY DEF Ends, High, Normal, Event, Types, Levels, Sets
<1>2. Settled(r, s, h, la, un)
  BY <1>1, SettledAdd
<1>3. ASSUME NEW f \in Flags, f \in Clears(x.type)
      PROVE  Sound(r, f \notin s, SetBy(f), ClearedBy(f))
  <2> DEFINE right == f \notin s
             bad == SetBy(f)
             good == ClearedBy(f)
  <2>1. x.type \in good
    BY <1>1, <1>3 DEF ClearedBy
  <2>2. ASSUME NEW k \in Levels, Rank[x.level] < Rank[k], NEW j \in DOMAIN q[k]
        PROVE  q[k][j].type \notin bad
    <3>1. x.level = "HIGH" /\ x.type # "playback_ended" /\ k = "NORMAL"
      BY <2>2 DEF Ends, High, Normal, Event, Levels, Rank
    <3>2. q[k][j].type \notin {"recording_started", "motion_started"}
      <4>1. In(q, q[k][j]) /\ q[k][j].level = "NORMAL"
        BY <3>1 DEF In, Sorted
      <4> QED BY <4>1 DEF Settled, HighStarts
    <3>3. f \in {"listening", "moving"}
      BY <1>3, <3>1 DEF Ends, High, Normal, Event, Clears
    <3>4. SetBy(f) \subseteq {"recording_started", "motion_started"}
      BY <3>3 DEF SetBy, Sets
    <3> QED BY <3>2, <3>4
  <2> HIDE DEF right, bad, good
  <2>3. Sound(r, right, bad, good)
    BY <1>1, <2>1, <2>2, SoundQueued
  <2> QED BY <2>3 DEF right, bad, good
<1> HIDE DEF r
<1>4. FlagsSound(r, s, un \ Clears(x.type))
  BY <1>2, <1>3 DEF Settled, FlagsSound
<1> QED BY <1>2, <1>4 DEF Settled, r

\* A check has an answer that is news.
LEMMA SettledHealth ==
    ASSUME NEW q, IsQueue(q), Sorted(q), NEW n \in Nat, NEW answer \in {"healthy", "unavailable"},
           NEW s, NEW h, NEW la, NEW un, Settled(q, s, h, la, un)
    PROVE  Settled(Queued(q, n, Normal(answer)), s, h, answer, un)
<1> DEFINE x == Normal(answer)
           r == Queued(q, n, x)
<1>1. /\ x \in [type : Types, level : Levels] /\ x.type = answer /\ x.level = "NORMAL" /\ Sets(answer) = {}
      /\ answer # "unknown"
  BY DEF Normal, Event, Types, Levels, Sets
<1> HIDE DEF x
<1>2. FlagsSound(r, s, un)
  <2> SUFFICES ASSUME NEW f \in Flags \ un PROVE Sound(r, f \notin s, SetBy(f), ClearedBy(f))
    BY DEF FlagsSound
  <2> DEFINE right == f \notin s
             bad == SetBy(f)
             good == ClearedBy(f)
  <2>1. Sound(q, right, bad, good) /\ x.type \notin bad
    BY <1>1 DEF Settled, FlagsSound, SetBy
  <2> HIDE DEF right, bad, good
  <2>2. Sound(r, right, bad, good)
    BY <1>1, <2>1, SoundQueued
  <2> QED BY <2>2 DEF right, bad, good
<1>3. HealthSound(r, h, answer)
  <2> DEFINE right == h = answer
             bad == Other(answer)
             good == News(answer)
  <2>1. x.type \in good
    BY <1>1 DEF News
  <2>2. \A k \in Levels : ~(Rank[x.level] < Rank[k])
    BY <1>1 DEF Rank, Levels
  <2> HIDE DEF right, bad, good
  <2>3. Sound(r, right, bad, good)
    BY <1>1, <2>1, <2>2, SoundQueued
  <2> QED BY <1>1, <2>3 DEF right, bad, good, HealthSound
<1>4. HighStarts(r)
  <2>0. \A e : In(r, e) => In(q, e) \/ e = Stamped(n, x)
    BY <1>1, QueuedIs
  <2> HIDE DEF r
  <2>1. \A e : In(r, e) => In(q, e) \/ e.type = x.type
    BY <2>0 DEF Stamped
  <2> QED BY <1>1, <2>1 DEF Settled, HighStarts
<1> QED BY <1>2, <1>3, <1>4 DEF Settled, x

\* The next event is applied.
LEMMA SettledRest ==
    ASSUME IsQueue(queue), Sorted(queue), NEW e, IsNext(e), Applied(e), SettleInv
    PROVE  Settled(Rest(e), shown', health', last, unanswered)
<1> DEFINE r == Rest(e)
<1>1. /\ shown' = (shown \union Sets(e.type)) \ Clears(e.type) /\ health' = Health(e)
      /\ e.type \in Types
  BY RestIs DEF Applied, Item
<1>2. FlagsSound(r, shown', unanswered)
  <2> SUFFICES ASSUME NEW f \in Flags \ unanswered
               PROVE  Sound(r, f \notin shown', SetBy(f), ClearedBy(f))
    BY DEF FlagsSound
  <2> DEFINE right == f \notin shown
             then == f \notin shown'
             bad == SetBy(f)
             good == ClearedBy(f)
  <2>1. /\ Sound(queue, right, bad, good)
        /\ e.type \in good => then
        /\ e.type \notin bad /\ right => then
    BY <1>1 DEF SettleInv, Settled, FlagsSound, SetBy, ClearedBy
  <2> HIDE DEF right, then, bad, good, r
  <2>2. Sound(r, then, bad, good)
    BY <2>1, SoundRest DEF r
  <2> QED BY <2>2 DEF right, then, bad, good
<1>3. HealthSound(r, health', last)
  <2>1. CASE last = "unknown"
    <3>1. health # "unavailable" /\ Untold(queue, {"unavailable"})
      BY <2>1 DEF SettleInv, Settled, HealthSound
    <3>2. Untold(r, {"unavailable"}) /\ e.type \notin {"unavailable"}
      BY <3>1, SoundRest
    <3>3. health' # "unavailable"
      BY <1>1, <3>1, <3>2 DEF Health
    <3> QED BY <2>1, <3>2, <3>3 DEF HealthSound
  <2>2. CASE last # "unknown"
    <3> DEFINE right == health = last
               then == health' = last
               bad == Other(last)
               good == News(last)
    <3>1. /\ Sound(queue, right, bad, good)
          /\ e.type \in good => then
          /\ e.type \notin bad /\ right => then
      BY <1>1, <2>2 DEF SettleInv, ViewTypeOK, Settled, HealthSound, Other, News, Health
    <3> HIDE DEF right, then, bad, good, r
    <3>2. Sound(r, then, bad, good)
      BY <3>1, SoundRest DEF r
    <3> QED BY <2>2, <3>2 DEF right, then, bad, good, HealthSound
  <2> QED BY <2>1, <2>2
<1>4. HighStarts(r)
  <2>1. \A d : In(r, d) => In(queue, d)
    BY RestIs
  <2> HIDE DEF r
  <2> QED BY <2>1 DEF SettleInv, Settled, HighStarts
<1> QED BY <1>2, <1>3, <1>4 DEF Settled

\* A handler is interrupted.
LEMMA SettledInFront ==
    ASSUME IsQueue(queue), Sorted(queue), NEW b \in Item, b.type \in {"speak", "candidate"}, NEW r,
           r = [queue EXCEPT ![b.level] = <<b>> \o @], SettleInv
    PROVE  Settled(r, shown, health, last, unanswered)
<1>1. FlagsSound(r, shown, unanswered)
  <2> SUFFICES ASSUME NEW f \in Flags \ unanswered
               PROVE  Sound(r, f \notin shown, SetBy(f), ClearedBy(f))
    BY DEF FlagsSound
  <2> DEFINE right == f \notin shown
             bad == SetBy(f)
             good == ClearedBy(f)
  <2>1. Sound(queue, right, bad, good) /\ b.type \notin bad
    BY DEF SettleInv, Settled, FlagsSound, SetBy, Sets
  <2> HIDE DEF right, bad, good
  <2>2. Sound(r, right, bad, good)
    BY <2>1, SoundInFront
  <2> QED BY <2>2 DEF right, bad, good
<1>2. HealthSound(r, health, last)
  <2>1. CASE last = "unknown"
    <3>1. health # "unavailable" /\ Untold(queue, {"unavailable"})
      BY <2>1 DEF SettleInv, Settled, HealthSound
    <3>2. Untold(r, {"unavailable"})
      BY <3>1, SoundInFront
    <3> QED BY <2>1, <3>1, <3>2 DEF HealthSound
  <2>2. CASE last # "unknown"
    <3> DEFINE right == health = last
               bad == Other(last)
               good == News(last)
    <3>1. Sound(queue, right, bad, good) /\ b.type \notin bad
      BY <2>2 DEF SettleInv, Settled, HealthSound, Other
    <3> HIDE DEF right, bad, good
    <3>2. Sound(r, right, bad, good)
      BY <3>1, SoundInFront
    <3> QED BY <2>2, <3>2 DEF right, bad, good, HealthSound
  <2> QED BY <2>1, <2>2
<1>3. HighStarts(r)
  <2>1. \A e : In(r, e) => In(queue, e) \/ e = b
    BY InFrontIs
  <2> QED BY <2>1 DEF SettleInv, Settled, HighStarts
<1> QED BY <1>1, <1>2, <1>3 DEF Settled

LEMMA SettleInit == Init => SettleInv
<1> SUFFICES ASSUME Init PROVE SettleInv
  OBVIOUS
<1> DEFINE e == [id |-> 1, type |-> "ready", level |-> "NORMAL"]
<1>1. /\ queue = [l \in Levels |-> IF l = "NORMAL" THEN <<e>> ELSE <<>>]
      /\ shown = {} /\ health = "unknown" /\ last = "unknown" /\ unanswered = {}
      /\ intents = "default" /\ sources \in Scenarios /\ e.type = "ready"
  BY DEF Init
<1> HIDE DEF e
<1>2. \A l \in Levels : \A i \in DOMAIN queue[l] : queue[l][i].type = "ready"
  BY <1>1
<1>3. ViewTypeOK
  BY <1>1 DEF ViewTypeOK, RuleLists
<1>4. FlagsSound(queue, shown, unanswered)
  BY <1>1, <1>2 DEF FlagsSound, Sound, Untold, SetBy, Sets
<1>5. HealthSound(queue, health, last) /\ HighStarts(queue)
  BY <1>1, <1>2 DEF HealthSound, Untold, HighStarts, In
<1> QED BY <1>3, <1>4, <1>5 DEF SettleInv, Settled

\* No check was made by a process that is not there.
OffUnknown == phase = "off" => last = "unknown"

LEMMA OffInit == Init => OffUnknown
  BY DEF Init, OffUnknown

LEMMA OffStep == OffUnknown /\ [Next]_vars => OffUnknown'
<1> SUFFICES ASSUME OffUnknown, [Next]_vars PROVE OffUnknown'
  OBVIOUS
<1>1. CASE Dispatch \/ UNCHANGED vars
  BY <1>1 DEF OffUnknown, Dispatch, Seen, MotionRuns, SpeechStarts, CandidateHandled, PlaybackStarts,
             PlaybackEnds, Interrupted, TimesOut, process, vars
<1>2. CASE Outside
  BY <1>2 DEF OffUnknown, Outside, Request, Happens, ListenStarts, ListenEnds, HealthCheck, process
<1>3. ASSUME NEW who \in Who, FlushEnds(who) \/ FlushFails(who) PROVE OffUnknown'
  BY <1>3 DEF OffUnknown, FlushEnds, FlushFails, Returns
<1>4. CASE Stop \/ Exits \/ Dies \/ Starts
  BY <1>4 DEF OffUnknown, Stop, Exits, Dies, Starts, Forgotten
<1> QED BY <1>1, <1>2, <1>3, <1>4 DEF Next

LEMMA SettleStep == BusInv /\ SettleInv /\ OffUnknown /\ [Next]_vars => SettleInv'
<1> SUFFICES ASSUME BusInv, SettleInv, OffUnknown, [Next]_vars PROVE SettleInv'
  OBVIOUS
<1>0. /\ IsQueue(queue) /\ Sorted(queue) /\ made \in Nat /\ made + 1 \in Nat /\ made + 2 \in Nat
      /\ busy \in Item /\ (busy = NoEvent \/ busy.type \in {"speak", "candidate"})
  BY DEF BusInv, IsBus, Known
<1> DEFINE view == <<shown, health, last, intents, sources>>
           Events == [type : Types, level : Levels]
           Plain(x, more) == /\ x \in Events /\ Sets(x.type) \subseteq more
                             /\ x.type \in {"recording_started", "motion_started"} => x.level = "HIGH"
                             /\ x.type \notin {"healthy", "unavailable", "ready"}
<1>a. ASSUME NEW x, Plain(x, unanswered'), Publish(x), UNCHANGED view,
             unanswered \subseteq unanswered', unanswered' \subseteq Flags
      PROVE  SettleInv'
  <2>1. Settled(Queued(queue, made + 1, x), shown, health, last, unanswered')
    BY <1>0, <1>a, SettledAdd DEF SettleInv
  <2> QED BY <1>a, <2>1 DEF SettleInv, ViewTypeOK, Publish
<1>b. ASSUME UNCHANGED <<view, queue, unanswered>> PROVE SettleInv'
  BY <1>b DEF SettleInv, ViewTypeOK
<1>c. ASSUME NEW x \in Ends, Publish(x), UNCHANGED view, unanswered' = unanswered \ Clears(x.type)
      PROVE  SettleInv'
  <2>1. Settled(Queued(queue, made + 1, x), shown, health, last, unanswered \ Clears(x.type))
    BY <1>0, <1>c, SettledEnd DEF SettleInv
  <2> QED BY <1>c, <2>1 DEF SettleInv, ViewTypeOK, Publish
<1>d. /\ \A t \in {"flush_failed", "handler_timeout", "position", "named", "someone", "candidate", "default",
                   "empty", "bad", "other", "goto", "speak", "listen_failed", "alarm"} :
             \A l \in Levels : Plain(Event(t, l), unanswered')
      /\ "playback" \in unanswered' => Plain(Event("playback_started", "NORMAL"), unanswered')
      /\ "listening" \in unanswered' => Plain(Event("recording_started", "HIGH"), unanswered')
      /\ \A more : Plain(Event("motion_started", "HIGH"), more \union {"moving"})
  BY DEF Event, Types, Levels, Sets
<1> HIDE DEF Plain
<1>1. ASSUME NEW e, IsNext(e), Observed(e), UNCHANGED <<last, sources>>
      PROVE  /\ Settled(Rest(e), shown', health', last, unanswered)
             /\ unanswered' \subseteq Flags => ViewTypeOK'
  <2>1. Settled(Rest(e), shown', health', last, unanswered)
    BY <1>0, <1>1, SettledRest DEF Observed
  <2>2. /\ shown' = (shown \union Sets(e.type)) \ Clears(e.type) /\ health' = Health(e)
        /\ intents' = IF e.type \in DOMAIN RuleLists THEN e.type ELSE intents
    BY <1>1 DEF Observed, Applied, Governed
  <2>3. shown' \subseteq Flags /\ health' \in {"unknown", "healthy", "unavailable"}
    BY <2>2 DEF SettleInv, ViewTypeOK, Sets, Clears, Health, Flags
  <2>4. intents' \in DOMAIN RuleLists
    BY <2>2 DEF SettleInv, ViewTypeOK
  <2> QED BY <1>1, <2>1, <2>3, <2>4 DEF SettleInv, ViewTypeOK
<1>2. ASSUME NEW e, Seen(e) \/ SpeechStarts(e) \/ CandidateHandled(e) PROVE SettleInv'
  <2>1. /\ IsNext(e) /\ Observed(e) /\ UNCHANGED <<last, sources, unanswered>> /\ queue' = Rest(e)
    BY <1>2 DEF Seen, SpeechStarts, CandidateHandled, process, senses
  <2> QED BY <1>1, <2>1 DEF SettleInv, ViewTypeOK
<1>3. ASSUME NEW e, MotionRuns(e) PROVE SettleInv'
  <2> DEFINE q == Rest(e)
             start == Event("motion_started", "HIGH")
             begun == Queued(q, made + 1, start)
             more == unanswered \union {"moving"}
  <2>1. IsNext(e) /\ Observed(e) /\ UNCHANGED <<last, sources>>
    BY <1>3 DEF MotionRuns, process
  <2>2. IsQueue(q) /\ Sorted(q)
    BY <1>0, <2>1, RestIs
  <2>3. Settled(q, shown', health', last, unanswered) /\ (unanswered' \subseteq Flags => ViewTypeOK')
    BY <1>1, <2>1
  <2> HIDE DEF q
  <2>4. Settled(begun, shown', health', last, more) /\ IsQueue(begun) /\ Sorted(begun)
    <3>1. Plain(start, more)
      BY <1>d
    <3> HIDE DEF start, more
    <3>2. start \in Events
      BY <3>1 DEF Plain
    <3>3. IsQueue(begun) /\ Sorted(begun)
      BY <1>0, <2>2, <3>2, QueuedIs
    <3>4. unanswered \subseteq more
      BY DEF more
    <3> QED BY <1>0, <2>2, <2>3, <3>1, <3>3, <3>4, SettledAdd DEF Plain
  <2>5. CASE queue' = begun /\ unanswered' = more
    BY <2>1, <2>3, <2>4, <2>5 DEF SettleInv, ViewTypeOK, Flags
  <2>6. CASE /\ \E end \in MotionEnds : queue' = Queued(begun, made + 2, end)
             /\ unanswered' = unanswered \ {"moving"}
    <3>1. PICK end \in MotionEnds : queue' = Queued(begun, made + 2, end)
      BY <2>6
    <3>2. end \in Ends /\ Clears(end.type) = {"moving"}
      BY DEF Ends, MotionEnds, Clears, High, Normal, Event
    <3> HIDE DEF begun
    <3>3. Settled(queue', shown', health', last, more \ Clears(end.type))
      <4> HIDE DEF more
      <4> QED BY <1>0, <2>4, <3>1, <3>2, SettledEnd
    <3>4. more \ Clears(end.type) = unanswered'
      BY <2>6, <3>2
    <3>5. unanswered' \subseteq Flags
      BY <2>6 DEF SettleInv, ViewTypeOK
    <3> QED BY <2>1, <2>3, <3>3, <3>4, <3>5 DEF SettleInv
  <2>7. start = High("motion_started")
    BY DEF High
  <2> HIDE DEF start
  <2> QED BY <1>3, <2>5, <2>6, <2>7 DEF MotionRuns, q
<1>4. CASE PlaybackStarts
  <2>1. unanswered' = unanswered \union {"playback"} /\ Publish(Normal("playback_started")) /\ UNCHANGED view
    BY <1>4 DEF PlaybackStarts, models, process
  <2>2. Plain(Normal("playback_started"), unanswered')
    BY <1>d, <2>1 DEF Normal
  <2>3. unanswered' \subseteq Flags
    BY <2>1 DEF SettleInv, ViewTypeOK, Flags
  <2> QED BY <1>a, <2>1, <2>2, <2>3
<1>5. CASE PlaybackEnds
  <2>1. Normal("playback_ended") \in Ends /\ Clears(Normal("playback_ended").type) = {"playback"}
    BY DEF Ends, Normal, Event, Clears
  <2> QED BY <1>5, <1>c, <2>1 DEF PlaybackEnds, models, process
<1>6. CASE Interrupted
  <2>1. /\ busy # NoEvent /\ queue' = [queue EXCEPT ![busy.level] = <<busy>> \o @]
        /\ UNCHANGED <<view, unanswered>>
    BY <1>6 DEF Interrupted, models, process
  <2>2. Settled(queue', shown, health, last, unanswered)
    BY <1>0, <2>1, SettledInFront
  <2> QED BY <2>1, <2>2 DEF SettleInv, ViewTypeOK
<1>7. CASE TimesOut
  <2>1. Plain(Normal("handler_timeout"), unanswered')
    BY <1>d DEF Normal, Levels
  <2> QED BY <1>7, <1>a, <2>1 DEF TimesOut, models, process, SettleInv, ViewTypeOK
<1>8. ASSUME NEW type \in AllSources, Request(type) PROVE SettleInv'
  <2>1. PICK l \in {"HIGH", "NORMAL"} : Publish(Event(type, l))
    BY <1>8 DEF Request
  <2>2. Plain(Event(type, l), unanswered')
    BY <1>8, <1>d DEF Request, Levels
  <2> QED BY <1>8, <1>a, <2>1, <2>2 DEF Request, models, senses, process, SettleInv, ViewTypeOK
<1>9. ASSUME NEW type \in AllSources, Happens(type) PROVE SettleInv'
  <2>1. UNCHANGED <<view, unanswered>>
    BY <1>9 DEF Happens, models, senses, process
  <2>2. PICK x : Publish(x) /\ (x = Urgent("alarm") \/ (\E t \in DOMAIN RuleLists : x = Normal(t))
                     \/ x \in {Normal("named"), Normal("someone"), Normal("candidate"), Normal("position")})
    BY <1>9 DEF Happens
  <2>3. DOMAIN RuleLists = {"default", "empty", "bad", "other"}
    BY DEF RuleLists
  <2>4. Plain(x, unanswered')
    BY <1>d, <2>2, <2>3 DEF Urgent, Normal, Levels
  <2> QED BY <1>a, <2>1, <2>2, <2>4 DEF SettleInv, ViewTypeOK
<1>10. CASE ListenStarts
  <2>1. unanswered' = unanswered \union {"listening"} /\ Publish(High("recording_started")) /\ UNCHANGED view
    BY <1>10 DEF ListenStarts, models, process
  <2>2. Plain(High("recording_started"), unanswered')
    BY <1>d, <2>1 DEF High
  <2>3. unanswered' \subseteq Flags
    BY <2>1 DEF SettleInv, ViewTypeOK, Flags
  <2> QED BY <1>a, <2>1, <2>2, <2>3
<1>11. CASE ListenEnds
  <2>0. UNCHANGED view
    BY <1>11 DEF ListenEnds, models, process
  <2>1. CASE Publish(High("transcript_ready")) /\ unanswered' = unanswered \ {"listening"}
    <3>1. High("transcript_ready") \in Ends /\ Clears(High("transcript_ready").type) = {"listening"}
      BY DEF Ends, High, Event, Clears
    <3> QED BY <1>c, <2>0, <2>1, <3>1
  <2>2. CASE Publish(High("listen_failed")) /\ UNCHANGED unanswered
    <3>1. Plain(High("listen_failed"), unanswered')
      BY <1>d DEF High, Levels
    <3> QED BY <1>a, <2>0, <2>2, <3>1 DEF SettleInv, ViewTypeOK
  <2>3. CASE UNCHANGED <<queue, made, unanswered>>
    BY <1>b, <2>0, <2>3
  <2> QED BY <1>11, <2>1, <2>2, <2>3 DEF ListenEnds
<1>12. CASE HealthCheck
  <2>1. PICK answer \in {"healthy", "unavailable"} : last' = answer /\ Publish(Normal(answer))
    BY <1>12 DEF HealthCheck
  <2>2. UNCHANGED <<shown, health, intents, sources, unanswered>>
    BY <1>12 DEF HealthCheck, models, senses, process
  <2>3. Settled(Queued(queue, made + 1, Normal(answer)), shown, health, answer, unanswered)
    BY <1>0, SettledHealth DEF SettleInv
  <2> QED BY <2>1, <2>2, <2>3 DEF SettleInv, ViewTypeOK, Publish
<1>13. ASSUME NEW who \in Who, FlushEnds(who) PROVE SettleInv'
  BY <1>13, <1>b DEF FlushEnds, models, senses
<1>14. ASSUME NEW who \in Who, FlushFails(who) PROVE SettleInv'
  <2>1. Plain(Normal("flush_failed"), unanswered')
    BY <1>d DEF Normal, Levels
  <2> QED BY <1>14, <1>a, <2>1 DEF FlushFails, models, senses, SettleInv, ViewTypeOK
<1>15. CASE Stop \/ UNCHANGED vars
  BY <1>15, <1>b DEF Stop, vars, process, bus, senses, models
<1>16. CASE Exits \/ Dies
  <2>1. /\ queue' = [l \in Levels |-> <<>>] /\ shown' = {} /\ health' = "unknown" /\ last' = "unknown"
        /\ unanswered' = {} /\ intents' = "default" /\ sources' = sources
    BY <1>16 DEF Exits, Dies, Forgotten
  <2>2. \A l \in Levels : \A i \in DOMAIN queue'[l] : FALSE
    BY <2>1
  <2>3. ViewTypeOK'
    BY <2>1 DEF SettleInv, ViewTypeOK, RuleLists
  <2>4. Settled(queue', shown', health', last', unanswered')
    BY <2>1, <2>2 DEF Settled, FlagsSound, HealthSound, HighStarts, Sound, Untold, In
  <2> QED BY <2>3, <2>4 DEF SettleInv
<1>17. CASE Starts
  <2>1. Publish(Normal("ready")) /\ UNCHANGED <<view, unanswered>> /\ last = "unknown"
    BY <1>17 DEF Starts, Ready, models, senses, OffUnknown
  <2>2. /\ Normal("ready") \in Events /\ Normal("ready").type = "ready" /\ Sets("ready") = {}
    BY DEF Normal, Event, Types, Levels, Sets
  <2> DEFINE x == Normal("ready")
  <2> HIDE DEF x
  <2>3. x \in Events /\ x.type = "ready" /\ Sets(x.type) = {} /\ Publish(x)
    BY <2>1, <2>2 DEF x
  <2>4. Settled(Queued(queue, made + 1, x), shown, health, last, unanswered)
    BY <1>0, <2>1, <2>3, SettledAdd DEF SettleInv
  <2> QED BY <2>1, <2>3, <2>4 DEF SettleInv, ViewTypeOK, Publish
<1> QED BY <1>2, <1>3, <1>4, <1>5, <1>6, <1>7, <1>8, <1>9, <1>10, <1>11, <1>12, <1>13, <1>14, <1>15,
           <1>16, <1>17 DEF Next, Dispatch, Outside

-----------------------------------------------------------------------------
(* The theorems. *)

ObserversInv == BusInv /\ MemoryInv /\ TraceInv /\ SettleInv /\ OffUnknown

LEMMA ObserversInvHolds == Spec => []ObserversInv
<1> USE ObserversAssumption
<1>1. Init => ObserversInv
  BY BusInit, MemoryInit, TraceInit, SettleInit, OffInit DEF ObserversInv
<1>2. ObserversInv /\ [Next]_vars => ObserversInv'
  BY BusStep, MemoryStep, TraceStep, SettleStep, OffStep DEF ObserversInv
<1> QED BY <1>1, <1>2, PTL DEF Spec

\* Types.  In every reachable state the variables have their types: no more is
\* unflushed than the open file has entries, a file is there for every entry of
\* the process, and a delivery is under way in the dispatcher exactly while the
\* handler of a candidate waits (observability.py:174-193, bridge.py:43-62).
THEOREM TypesHold == Spec => []TypeOK
<1>1. ObserversInv => TypeOK
  <2> SUFFICES ASSUME ObserversInv PROVE TypeOK
    OBVIOUS
  <2>1. /\ sources \in Scenarios /\ intents \in DOMAIN RuleLists /\ shown \subseteq Flags /\ unanswered \subseteq Flags
        /\ health \in {"unknown", "healthy", "unavailable"}
    BY DEF ObserversInv, SettleInv, ViewTypeOK
  <2>2. /\ phase \in {"up", "stopping", "draining", "off"} /\ flushing \in [Who -> SUBSET handled]
        /\ flushing["dispatcher"] # {} <=> busy.type = "candidate"
    BY DEF ObserversInv, MemoryInv, PhaseOK, FlushOK
  <2>3. starts \in 1 .. MaxStarts /\ made \in 0 .. MaxEvents /\ unflushed <= Len(files[index])
    BY ObserversAssumption DEF ObserversInv, BusInv, IsBus, TraceInv, CountsOK, FilesOK
  <2>4. index \in DOMAIN files
    <3>1. index \in Nat /\ DOMAIN files = 0 .. MaxEvents /\ index <= Cardinality(seen) /\ seen \in SUBSET (1 .. made)
          /\ made \in Nat /\ made <= MaxEvents /\ MaxEvents \in Nat
      BY ObserversAssumption DEF ObserversInv, BusInv, IsBus, TraceInv, CountsOK, FilesOK, IsFiles, SeenOK
    <3>2. Cardinality(seen) \in Nat /\ Cardinality(seen) <= made
      BY <3>1, SeenIsFinite
    <3> QED BY <3>1, <3>2
  <2> QED BY <2>1, <2>2, <2>3, <2>4 DEF TypeOK, Flags
<1> QED BY <1>1, ObserversInvHolds, PTL

\* However the process ends, what was done about an alarm is on record: a CRITICAL
\* event is flushed before any module acts on it (observability.py:94-122).
THEOREM AlarmsAreOnRecord == Spec => []AlarmOnRecord
<1>1. ObserversInv => AlarmOnRecord
  BY SafeIsIn, InEntries DEF ObserversInv, TraceInv, AlarmsOK, AlarmOnRecord
<1> QED BY <1>1, ObserversInvHolds, PTL

\* For any size of a file and any number of restarts, a trace file outgrows
\* max_bytes by at most one entry for each start (observability.py:174-178).
THEOREM FilesAreBounded == Spec => []FilesBounded
<1>1. ObserversInv => FilesBounded
  <2> SUFFICES ASSUME ObserversInv, NEW i \in DOMAIN files PROVE Len(files[i]) <= MaxPerFile + starts - 1
    BY DEF FilesBounded
  <2>1. /\ IsFiles(files) /\ starts \in Nat /\ MaxPerFile \in Nat /\ index \in Nat
    BY ObserversAssumption DEF ObserversInv, TraceInv, FilesOK, CountsOK
  <2>2. Len(files[i]) \in Nat /\ i \in Nat
    BY <2>1 DEF IsFiles
  <2>3. CASE phase = "off"
    BY <2>3 DEF ObserversInv, TraceInv, FilesOK, Bounded
  <2>4. CASE phase # "off"
    <3>1. Len(files[i]) <= MaxPerFile + starts - (IF i <= index THEN 1 ELSE 2)
      BY <2>4 DEF ObserversInv, TraceInv, FilesOK, Bounded
    <3>2. CASE i <= index
      BY <3>1, <3>2
    <3>3. CASE ~(i <= index)
      <4>1. Len(files[i]) <= MaxPerFile + starts - 2
        BY <3>1, <3>3
      <4> QED BY <2>1, <2>2, <4>1
    <3> QED BY <3>2, <3>3
  <2> QED BY <2>3, <2>4
<1> QED BY <1>1, ObserversInvHolds, PTL

\* An event is in the trace once, however often it is dispatched and whatever
\* earlier processes have left there (observability.py:160-172).
THEOREM EventsAreLoggedOnce == Spec => []LoggedOnce
<1>1. ObserversInv => LoggedOnce
  BY InEntries DEF ObserversInv, TraceInv, RecordOK, Once, LoggedOnce
<1> QED BY <1>1, ObserversInvHolds, PTL

\* While the process lives a handled candidate is delivered, still in the buffer, or
\* lost in one of the two ways that lose one: cut off by the limit after failures
\* (bridge.py:54-60), or handled while the flush of stop() was under way, which
\* empties the buffer (bridge.py:62).  For any size of the buffer.
THEOREM CandidatesAreKept == Spec => []CandidateKept
<1>1. ObserversInv => CandidateKept
  BY DEF ObserversInv, MemoryInv
<1> QED BY <1>1, ObserversInvHolds, PTL

\* When nothing is left to do, the state shows what is under way and what the last
\* check found (state_manager.py:69-100).
THEOREM TheStateSettles == Spec => []StateSettles
<1>1. ObserversInv => StateSettles
  <2> SUFFICES ASSUME ObserversInv, Quiet
               PROVE  /\ shown \subseteq unanswered
                      /\ last # "unknown" => health = last
                      /\ unanswered = {} => Mode = (IF last = "unavailable" THEN "error" ELSE "idle")
    BY DEF StateSettles
  <2>1. \A right, bad, good : Sound(queue, right, bad, good) => right
    <3>1. \A l \in Levels : queue[l] = <<>>
      BY DEF Quiet, Idle
    <3>2. \A l \in Levels : \A i \in DOMAIN queue[l] : FALSE
      BY <3>1
    <3> QED BY <3>2 DEF Sound, Told
  <2>2. shown \subseteq unanswered
    <3> SUFFICES ASSUME NEW f \in shown, f \notin unanswered PROVE FALSE
      OBVIOUS
    <3>1. f \in Flags \ unanswered
      BY DEF ObserversInv, SettleInv, ViewTypeOK
    <3> DEFINE right == f \notin shown
               bad == SetBy(f)
               good == ClearedBy(f)
    <3>2. Sound(queue, right, bad, good)
      BY <3>1 DEF ObserversInv, SettleInv, Settled, FlagsSound
    <3> HIDE DEF right, bad, good
    <3>3. right
      BY <2>1, <3>2
    <3> QED BY <3>3 DEF right
  <2>3. last # "unknown" => health = last
    <3> SUFFICES ASSUME last # "unknown" PROVE health = last
      OBVIOUS
    <3> DEFINE right == health = last
               bad == Other(last)
               good == News(last)
    <3>1. Sound(queue, right, bad, good)
      BY DEF ObserversInv, SettleInv, Settled, HealthSound
    <3> HIDE DEF right, bad, good
    <3>2. right
      BY <2>1, <3>1
    <3> QED BY <3>2 DEF right
  <2>4. last = "unknown" => health # "unavailable"
    BY DEF ObserversInv, SettleInv, Settled, HealthSound
  <2>5. unanswered = {} => Mode = (IF last = "unavailable" THEN "error" ELSE "idle")
    BY <2>2, <2>3, <2>4 DEF Mode
  <2> QED BY <2>2, <2>3, <2>5
<1> QED BY <1>1, ObserversInvHolds, PTL
-----------------------------------------------------------------------------
(***************************************************************************)
(* What an utterance means.  Nothing here is about a state: the numerals   *)
(* are read by cases on where the ten stands, and the rules decide by the  *)
(* first one that does.                                                    *)
(***************************************************************************)
\* Numerals.
Sayable == Seq(Characters)
At(s) == CHOOSE i \in DOMAIN s : s[i] = Ten /\ \A j \in 1 .. i - 1 : s[j] # Ten

LEMMA FirstTen ==
    ASSUME NEW s \in Sayable, NEW k \in DOMAIN s, s[k] = Ten, \A j \in 1 .. k - 1 : s[j] # Ten
    PROVE  At(s) = k
<1>1. DOMAIN s = 1 .. Len(s) /\ Len(s) \in Nat
  BY DEF Sayable
<1>2. At(s) \in DOMAIN s /\ s[At(s)] = Ten /\ \A j \in 1 .. At(s) - 1 : s[j] # Ten
  BY DEF At
<1> QED BY <1>1, <1>2

\* What comes before and after the ten.
LEMMA PartsAre ==
    ASSUME NEW s \in Sayable
    PROVE  /\ Len(s) = 1 => RoamerdPart(s) = RoamerdDigit(s[1])
           /\ Len(s) > 1 => RoamerdPart(SubSeq(s, 1, 1)) = RoamerdDigit(s[1])
           /\ Len(s) = 2 => RoamerdPart(SubSeq(s, 3, 2)) = 0
           /\ Len(s) = 3 => RoamerdPart(SubSeq(s, 3, 3)) = RoamerdDigit(s[3])
<1>1. Len(s) \in Nat /\ s \in Seq(Characters)
  BY DEF Sayable
<1>2. Len(s) > 1 => Len(SubSeq(s, 1, 1)) = 1 /\ SubSeq(s, 1, 1)[1] = s[1]
  BY <1>1, SubSeqProperties
<1>3. Len(s) = 2 => Len(SubSeq(s, 3, 2)) = 0
  BY <1>1, SubSeqProperties
<1>4. Len(s) = 3 => Len(SubSeq(s, 3, 3)) = 1 /\ SubSeq(s, 3, 3)[1] = s[3]
  BY <1>1, SubSeqProperties
<1> QED BY <1>1, <1>2, <1>3, <1>4 DEF RoamerdPart

\* How roamerd reads a numeral of up to three characters.
LEMMA RoamerdReads ==
    ASSUME NEW s \in Sayable
    PROVE  /\ Len(s) = 1 /\ s[1] # Ten => RoamerdNumber(s) = RoamerdDigit(s[1])
           /\ Len(s) = 1 /\ s[1] = Ten => RoamerdNumber(s) = 10
           /\ Len(s) > 1 /\ s[1] = Ten => RoamerdNumber(s) = 10 + RoamerdDigit(s[Len(s)])
           /\ Len(s) = 2 /\ s[1] # Ten /\ s[2] = Ten => RoamerdNumber(s) = RoamerdDigit(s[1]) * 10
           /\ Len(s) = 3 /\ s[1] # Ten /\ s[2] = Ten =>
                 RoamerdNumber(s) = RoamerdDigit(s[1]) * 10 + RoamerdDigit(s[3])
<1>1. DOMAIN s = 1 .. Len(s) /\ Len(s) \in Nat
  BY DEF Sayable
<1>2. Len(s) > 0 => RoamerdDigit(s[1]) \in Nat
  BY DEF RoamerdDigit, Sayable, Characters, Figure
<1>3. ASSUME Len(s) = 1 PROVE s[1] # Ten => RoamerdNumber(s) = RoamerdDigit(s[1])
  BY <1>1, <1>3, PartsAre DEF RoamerdNumber
<1>4. ASSUME Len(s) = 1 PROVE s[1] = Ten => RoamerdNumber(s) = 10
  BY <1>1, <1>4 DEF RoamerdNumber
<1>5. ASSUME Len(s) > 1, s[1] = Ten PROVE RoamerdNumber(s) = 10 + RoamerdDigit(s[Len(s)])
  <2>1. 1 \in DOMAIN s /\ At(s) = 1
    BY <1>1, <1>5, FirstTen
  <2> QED BY <1>1, <1>5, <2>1 DEF RoamerdNumber, At
<1>6. ASSUME Len(s) > 1, s[1] # Ten, s[2] = Ten
      PROVE  RoamerdNumber(s) = RoamerdPart(SubSeq(s, 1, 1)) * 10 + RoamerdPart(SubSeq(s, 3, Len(s)))
  <2>1. 2 \in DOMAIN s /\ At(s) = 2
    BY <1>1, <1>6, FirstTen
  <2>2. \E i \in DOMAIN s : s[i] = Ten
    BY <1>6, <2>1
  <2>3. RoamerdNumber(s) = RoamerdPart(SubSeq(s, 1, At(s) - 1)) * 10
                              + RoamerdPart(SubSeq(s, At(s) + 1, Len(s)))
    BY <1>6, <2>1, <2>2 DEF RoamerdNumber, At
  <2>4. 2 - 1 = 1 /\ 2 + 1 = 3
    OBVIOUS
  <2> QED BY <2>1, <2>3, <2>4
<1>7. ASSUME Len(s) = 2, s[1] # Ten, s[2] = Ten PROVE RoamerdNumber(s) = RoamerdDigit(s[1]) * 10
  <2>1. RoamerdNumber(s) = RoamerdPart(SubSeq(s, 1, 1)) * 10 + RoamerdPart(SubSeq(s, 3, 2))
    BY <1>6, <1>7
  <2>2. RoamerdPart(SubSeq(s, 1, 1)) = RoamerdDigit(s[1]) /\ RoamerdPart(SubSeq(s, 3, 2)) = 0
    BY <1>7, PartsAre
  <2>3. RoamerdDigit(s[1]) \in Nat
    BY <1>2, <1>7
  <2> QED BY <2>1, <2>2, <2>3
<1>8. ASSUME Len(s) = 3, s[1] # Ten, s[2] = Ten
      PROVE  RoamerdNumber(s) = RoamerdDigit(s[1]) * 10 + RoamerdDigit(s[3])
  <2>1. RoamerdNumber(s) = RoamerdPart(SubSeq(s, 1, 1)) * 10 + RoamerdPart(SubSeq(s, 3, 3))
    BY <1>6, <1>8
  <2> QED BY <1>8, <2>1, PartsAre
<1> QED BY <1>3, <1>4, <1>5, <1>7, <1>8

\* A numeral that is no number counts for nothing.
LEMMA RoamerdIgnores ==
    ASSUME NEW s \in Sayable, Len(s) \in {2, 3}, s[1] # Ten, s[2] # Ten
    PROVE  RoamerdNumber(s) = 0
<1>1. DOMAIN s = 1 .. Len(s) /\ s \in Seq(Characters)
  BY DEF Sayable
<1>2. \A i \in DOMAIN s : s[i] = Ten => i = 3 /\ Len(s) = 3
  BY <1>1
<1>3. CASE \A i \in DOMAIN s : s[i] # Ten
  BY <1>3 DEF RoamerdNumber, RoamerdPart
<1>4. CASE Len(s) = 3 /\ s[3] = Ten
  <2>1. 3 \in DOMAIN s /\ \A j \in 1 .. 3 - 1 : s[j] # Ten
    BY <1>1, <1>2, <1>4
  <2>2. At(s) = 3 /\ \E i \in DOMAIN s : s[i] = Ten
    BY <1>4, <2>1, FirstTen
  <2>3. RoamerdNumber(s) = RoamerdPart(SubSeq(s, 1, At(s) - 1)) * 10
                              + RoamerdPart(SubSeq(s, At(s) + 1, Len(s)))
    BY <1>4, <2>2 DEF RoamerdNumber, At
  <2>4. 3 - 1 = 2 /\ 3 + 1 = 4
    OBVIOUS
  <2>5. RoamerdNumber(s) = RoamerdPart(SubSeq(s, 1, 2)) * 10 + RoamerdPart(SubSeq(s, 4, 3))
    BY <1>4, <2>2, <2>3, <2>4
  <2>6. Len(SubSeq(s, 1, 2)) = 2 /\ Len(SubSeq(s, 4, 3)) = 0
    BY <1>1, <1>4, SubSeqProperties
  <2> QED BY <2>5, <2>6 DEF RoamerdPart
<1> QED BY <1>1, <1>2, <1>3, <1>4

\* How the older program reads it.
LEMMA LegacyReads ==
    ASSUME NEW s \in Sayable
    PROVE  /\ Len(s) = 1 /\ s[1] # Ten => LegacyNumber(s) = LegacyDigit(s[1])
           /\ Len(s) = 1 /\ s[1] = Ten => LegacyNumber(s) = 10
           /\ Len(s) = 2 /\ s[1] = Ten => LegacyNumber(s) = Sum(1, LegacyDigit(s[2]))
           /\ Len(s) = 2 /\ s[1] # Ten /\ s[2] = Ten => LegacyNumber(s) = Sum(LegacyDigit(s[1]), 0)
           /\ Len(s) = 2 /\ s[1] # Ten /\ s[2] # Ten => LegacyNumber(s) = NotRead
           /\ Len(s) = 3 /\ Ten \in {s[1], s[2], s[3]} =>
                 LegacyNumber(s) = Sum(LegacyDigit(s[1]), LegacyDigit(s[3]))
           /\ Len(s) = 3 /\ Ten \notin {s[1], s[2], s[3]} => LegacyNumber(s) = NotRead
<1>1. s \in Seq(Characters) /\ Len(s) \in Nat /\ DOMAIN s = 1 .. Len(s)
  BY DEF Sayable
<1>2. /\ s = <<Ten>> <=> Len(s) = 1 /\ s[1] = Ten
      /\ ~(Len(s) = 1 /\ s[1] >= Figure(0))
  BY <1>1 DEF Characters, Figure
<1>3. ASSUME Len(s) = 1
      PROVE  LegacyNumber(s) = IF s[1] = Ten THEN 10 ELSE LegacyDigit(s[1])
  BY <1>1, <1>2, <1>3 DEF LegacyNumber
<1>4. ASSUME Len(s) = 2
      PROVE  LegacyNumber(s) = IF s[1] = Ten THEN Sum(1, LegacyDigit(s[2]))
                               ELSE IF s[2] = Ten THEN Sum(LegacyDigit(s[1]), 0) ELSE NotRead
  BY <1>1, <1>2, <1>4 DEF LegacyNumber
<1>5. ASSUME Len(s) = 3
      PROVE  LegacyNumber(s) = IF Ten \in {s[1], s[2], s[3]}
                               THEN Sum(LegacyDigit(s[1]), LegacyDigit(s[3])) ELSE NotRead
  <2>1. (\E i \in 1 .. 3 : s[i] = Ten) <=> Ten \in {s[1], s[2], s[3]}
    OBVIOUS
  <2> QED BY <1>1, <1>2, <1>5, <2>1 DEF LegacyNumber
<1> QED BY <1>3, <1>4, <1>5

\* What the pattern of roamerd takes of such a numeral are digits and the ten.
LEMMA RoamerdTakes ==
    ASSUME NEW s \in Sayable
    PROVE  RoamerdHas(s) <=> s # <<>> /\ \A i \in DOMAIN s : s[i] \in 1 .. Ten
<1>1. \A i \in DOMAIN s : s[i] \in 0 .. 11
  BY DEF Sayable, Characters
<1>2. \A c \in 0 .. 11 : c \in (1 .. Ten) \union (Figure(0) .. Figure(99)) <=> c \in 1 .. Ten
  BY DEF Figure
<1> QED BY <1>1, <1>2 DEF RoamerdHas

\* A numeral that both grammars have is one number.
LEMMA NumeralsAgree ==
    ASSUME NEW s \in Sayable, Len(s) \in 1 .. Longest, RoamerdHas(s)
    PROVE  /\ LegacyNumber(s) # NotRead => RoamerdNumber(s) = LegacyNumber(s)
           /\ LegacyNumber(s) = NotRead => RoamerdNumber(s) # LegacyNumber(s)
<1>1. DOMAIN s = 1 .. Len(s) /\ Len(s) \in 1 .. 3 /\ \A i \in DOMAIN s : s[i] \in 1 .. Ten
  BY RoamerdTakes DEF Sayable, Longest
<1>2. \A c \in 1 .. Ten : /\ LegacyDigit(c) = IF c = Ten THEN NotRead ELSE c
                          /\ RoamerdDigit(c) = IF c = Ten THEN 0 ELSE c
  BY DEF LegacyDigit, RoamerdDigit, Ten, Two, Figure
<1>3. \A a, b : Sum(a, b) = IF a = NotRead \/ b = NotRead THEN NotRead ELSE a * 10 + b
  BY DEF Sum
<1>4. CASE Len(s) = 1
  <2>1. s[1] \in 1 .. Ten
    BY <1>1, <1>4
  <2> QED BY <1>2, <1>4, <2>1, RoamerdReads, LegacyReads DEF Ten, NotRead
<1>5. CASE Len(s) = 2
  <2>1. s[1] \in 1 .. Ten /\ s[2] \in 1 .. Ten
    BY <1>1, <1>5
  <2>2. CASE s[1] = Ten
    BY <1>2, <1>3, <1>5, <2>1, <2>2, RoamerdReads, LegacyReads DEF Ten, NotRead
  <2>3. CASE s[1] # Ten /\ s[2] = Ten
    BY <1>2, <1>3, <1>5, <2>1, <2>3, RoamerdReads, LegacyReads DEF Ten, NotRead
  <2>4. CASE s[1] # Ten /\ s[2] # Ten
    BY <1>5, <2>4, RoamerdIgnores, LegacyReads DEF NotRead
  <2> QED BY <2>2, <2>3, <2>4
<1>6. CASE Len(s) = 3
  <2>1. s[1] \in 1 .. Ten /\ s[2] \in 1 .. Ten /\ s[3] \in 1 .. Ten
    BY <1>1, <1>6
  <2>2. CASE s[1] = Ten
    <3>1. LegacyNumber(s) = NotRead
      BY <1>2, <1>3, <1>6, <2>2, LegacyReads DEF Ten, NotRead
    <3>2. RoamerdNumber(s) = 10 + RoamerdDigit(s[3])
      BY <1>6, <2>2, RoamerdReads
    <3> QED BY <1>2, <2>1, <3>1, <3>2 DEF Ten, NotRead
  <2>3. CASE s[1] # Ten /\ s[2] = Ten
    <3>1. LegacyNumber(s) = Sum(LegacyDigit(s[1]), LegacyDigit(s[3]))
      BY <1>6, <2>3, LegacyReads
    <3>2. RoamerdNumber(s) = RoamerdDigit(s[1]) * 10 + RoamerdDigit(s[3])
      BY <1>6, <2>3, RoamerdReads
    <3>3. LegacyDigit(s[1]) = s[1] /\ RoamerdDigit(s[1]) = s[1] /\ s[1] \in 1 .. 9
      BY <1>2, <2>1, <2>3 DEF Ten
    <3>4. CASE s[3] = Ten
      <4>1. LegacyNumber(s) = NotRead /\ RoamerdNumber(s) = s[1] * 10 + 0
        BY <1>2, <1>3, <2>1, <3>1, <3>2, <3>3, <3>4
      <4> QED BY <3>3, <4>1 DEF NotRead
    <3>5. CASE s[3] # Ten
      <4>1. s[3] \in 1 .. 9 /\ LegacyDigit(s[3]) = s[3] /\ RoamerdDigit(s[3]) = s[3]
        BY <1>2, <2>1, <3>5 DEF Ten
      <4>2. LegacyNumber(s) = s[1] * 10 + s[3]
        BY <1>3, <3>1, <3>3, <4>1 DEF NotRead
      <4>3. RoamerdNumber(s) = s[1] * 10 + s[3]
        BY <3>2, <3>3, <4>1
      <4>4. s[1] * 10 + s[3] # NotRead
        <5>1. \A a, b \in 1 .. 9 : a * 10 + b # NotRead
          BY DEF NotRead
        <5> QED BY <3>3, <4>1, <5>1, Zenon
      <4> QED BY <4>2, <4>3, <4>4
    <3> QED BY <3>4, <3>5
  <2>4. CASE s[1] # Ten /\ s[2] # Ten
    <3>1. LegacyNumber(s) = NotRead
      BY <1>2, <1>3, <1>6, <2>1, <2>4, LegacyReads DEF Ten, NotRead
    <3> QED BY <1>6, <2>4, <3>1, RoamerdIgnores DEF NotRead
  <2> QED BY <2>2, <2>3, <2>4
<1> QED BY <1>1, <1>4, <1>5, <1>6

\* Characters one after the other.
LEMMA JoinedAre ==
    ASSUME NEW a \in Characters, NEW b \in Characters, NEW c \in Characters
    PROVE  /\ <<a>> \o <<>> = <<a>> /\ <<a, b>> \o <<>> = <<a, b>>
           /\ <<a>> \o <<c>> = <<a, c>> /\ <<a, b>> \o <<c>> = <<a, b, c>>
<1>1. <<a>> \in Sayable /\ <<a, b>> \in Sayable /\ <<a, b, c>> \in Sayable /\ <<c>> \in Sayable
  BY DEF Sayable
<1>2. Len(<<a>>) = 1 /\ Len(<<a, b>>) = 2 /\ Len(<<a, b, c>>) = 3 /\ Len(<<c>>) = 1
  OBVIOUS
<1>3. <<a>> \o <<>> = <<a>> /\ <<a, b>> \o <<>> = <<a, b>>
  BY <1>1, ConcatEmptySeq DEF Sayable
<1>4. <<a>> \o <<c>> = <<a, c>>
  <2>1. <<a>> \o <<c>> \in Sayable /\ Len(<<a>> \o <<c>>) = 2
    BY <1>1, <1>2, ConcatProperties DEF Sayable
  <2>2. (<<a>> \o <<c>>)[1] = a /\ (<<a>> \o <<c>>)[2] = c
    BY <1>1, <1>2 DEF Sayable
  <2> DEFINE t == <<a, c>>
  <2>3. t \in Sayable /\ Len(t) = 2 /\ t[1] = a /\ t[2] = c
    BY DEF Sayable
  <2> HIDE DEF t
  <2>4. <<a>> \o <<c>> = t
    BY <2>1, <2>2, <2>3, SeqEqual DEF Sayable
  <2> QED BY <2>4 DEF t
<1>5. <<a, b>> \o <<c>> = <<a, b, c>>
  <2>1. <<a, b>> \o <<c>> \in Sayable /\ Len(<<a, b>> \o <<c>>) = 3
    BY <1>1, <1>2, ConcatProperties DEF Sayable
  <2>2. /\ (<<a, b>> \o <<c>>)[1] = a /\ (<<a, b>> \o <<c>>)[2] = b /\ (<<a, b>> \o <<c>>)[3] = c
    BY <1>1, <1>2 DEF Sayable
  <2> DEFINE t == <<a, b, c>>
  <2>3. t \in Sayable /\ Len(t) = 3 /\ t[1] = a /\ t[2] = b /\ t[3] = c
    BY DEF Sayable
  <2> HIDE DEF t
  <2>4. <<a, b>> \o <<c>> = t
    BY <2>1, <2>2, <2>3, SeqEqual DEF Sayable
  <2> QED BY <2>4 DEF t
<1> QED BY <1>1, <1>2, <1>3, <1>4, <1>5

\* A number below a hundred is read as it is said.
LEMMA SpokenIsRead ==
    ASSUME NEW n \in 1 .. 99, NEW s \in Spoken(n)
    PROVE  /\ s \in Sayable /\ Len(s) \in 1 .. Longest /\ LegacyNumber(s) = n
           /\ IF s = <<Two>> THEN ~RoamerdHas(s) ELSE RoamerdHas(s) /\ RoamerdNumber(s) = n
<1> DEFINE tens == n \div 10
           ones == n % 10
<1>1. tens \in 0 .. 9 /\ ones \in 0 .. 9 /\ n = tens * 10 + ones /\ (n >= 10 => tens \in 1 .. 9)
  OBVIOUS
<1>2. \/ n < 10 /\ s = <<n>>
      \/ n = 2 /\ s = <<Two>>
      \/ n >= 10 /\ ones = 0 /\ s = <<tens, Ten>>
      \/ n >= 10 /\ ones # 0 /\ s = <<tens, Ten, ones>>
      \/ tens = 1 /\ ones = 0 /\ s = <<Ten>>
      \/ tens = 1 /\ ones # 0 /\ s = <<Ten, ones>>
  <2>1. tens \in Characters /\ ones \in Characters /\ Ten \in Characters
    BY <1>1 DEF Characters, Ten
  <2>2. /\ <<tens, Ten>> \o <<>> = <<tens, Ten>> /\ <<tens, Ten>> \o <<ones>> = <<tens, Ten, ones>>
        /\ <<Ten>> \o <<>> = <<Ten>> /\ <<Ten>> \o <<ones>> = <<Ten, ones>>
    BY <2>1, JoinedAre
  <2>3. n < 10 => ones = n /\ ones # 0
    BY <1>1
  <2> HIDE DEF tens, ones
  <2>4. s \in LET after == IF ones = 0 THEN <<>> ELSE <<ones>>
              IN  IF n < 10 THEN {after} \union (IF n = 2 THEN {<<Two>>} ELSE {})
                  ELSE {<<tens, Ten>> \o after} \union (IF tens = 1 THEN {<<Ten>> \o after} ELSE {})
    BY DEF Spoken, tens, ones
  <2>5. CASE n < 10
    BY <2>3, <2>4, <2>5
  <2>6. CASE n >= 10 /\ ones = 0
    BY <2>2, <2>4, <2>6
  <2>7. CASE n >= 10 /\ ones # 0
    BY <2>2, <2>4, <2>7
  <2> QED BY <2>5, <2>6, <2>7
<1> HIDE DEF tens, ones
<1>3. /\ \A c \in 1 .. 9 : LegacyDigit(c) = c /\ LegacyDigit(Two) = 2
      /\ \A a, b \in 0 .. 9 : Sum(a, b) = a * 10 + b
  BY DEF LegacyDigit, Sum, NotRead, Two
<1>4. s \in Sayable /\ Len(s) \in 1 .. Longest
  <2>1. /\ n < 10 => n \in Characters
        /\ tens \in Characters /\ ones \in Characters /\ Ten \in Characters /\ Two \in Characters
    BY <1>1 DEF Characters, Ten, Two
  <2>2. CASE n < 10 /\ s = <<n>>
    BY <2>1, <2>2 DEF Sayable, Longest
  <2>3. CASE s = <<Two>>
    BY <2>1, <2>3 DEF Sayable, Longest
  <2>4. CASE s = <<Ten>>
    BY <2>1, <2>4 DEF Sayable, Longest
  <2>5. CASE s = <<tens, Ten>>
    BY <2>1, <2>5 DEF Sayable, Longest
  <2>6. CASE s = <<Ten, ones>>
    BY <2>1, <2>6 DEF Sayable, Longest
  <2>7. CASE s = <<tens, Ten, ones>>
    BY <2>1, <2>7 DEF Sayable, Longest
  <2> QED BY <1>2, <2>2, <2>3, <2>4, <2>5, <2>6, <2>7
<1>5. LegacyNumber(s) = n
  <2>1. CASE n < 10 /\ s = <<n>>
    BY <1>3, <1>4, <2>1, LegacyReads DEF Ten
  <2>2. CASE n = 2 /\ s = <<Two>>
    BY <1>3, <1>4, <2>2, LegacyReads DEF Ten, Two
  <2>3. CASE n >= 10 /\ ones = 0 /\ s = <<tens, Ten>>
    <3>1. Len(s) = 2 /\ s[1] = tens /\ s[1] # Ten /\ s[2] = Ten /\ tens \in 1 .. 9
      BY <1>1, <2>3 DEF Ten
    <3> QED BY <1>1, <1>3, <1>4, <2>3, <3>1, LegacyReads
  <2>4. CASE n >= 10 /\ ones # 0 /\ s = <<tens, Ten, ones>>
    <3>1. Len(s) = 3 /\ s[1] = tens /\ s[2] = Ten /\ s[3] = ones /\ tens \in 1 .. 9 /\ ones \in 1 .. 9
      BY <1>1, <2>4
    <3> QED BY <1>1, <1>3, <1>4, <3>1, LegacyReads
  <2>5. CASE tens = 1 /\ ones = 0 /\ s = <<Ten>>
    BY <1>1, <1>4, <2>5, LegacyReads
  <2>6. CASE tens = 1 /\ ones # 0 /\ s = <<Ten, ones>>
    <3>1. Len(s) = 2 /\ s[1] = Ten /\ s[2] = ones /\ ones \in 1 .. 9
      BY <1>1, <2>6
    <3> QED BY <1>1, <1>3, <1>4, <2>6, <3>1, LegacyReads
  <2> QED BY <1>2, <2>1, <2>2, <2>3, <2>4, <2>5, <2>6
<1>6. s # <<Two>> => s # <<>> /\ \A i \in DOMAIN s : s[i] \in 1 .. Ten
  <2>1. /\ n < 10 => n \in 1 .. Ten
        /\ n >= 10 => tens \in 1 .. Ten
        /\ ones # 0 => ones \in 1 .. Ten
        /\ Ten \in 1 .. Ten
    BY <1>1 DEF Ten
  <2>2. /\ \A a : <<a>> # <<>> /\ DOMAIN <<a>> = {1} /\ <<a>>[1] = a
        /\ \A a, b : <<a, b>> # <<>> /\ DOMAIN <<a, b>> = {1, 2}
                     /\ <<a, b>>[1] = a /\ <<a, b>>[2] = b
        /\ \A a, b, c : <<a, b, c>> # <<>> /\ DOMAIN <<a, b, c>> = {1, 2, 3}
                     /\ <<a, b, c>>[1] = a /\ <<a, b, c>>[2] = b /\ <<a, b, c>>[3] = c
    OBVIOUS
  <2>3. CASE n < 10 /\ s = <<n>>
    BY <2>1, <2>2, <2>3
  <2>4. CASE n >= 10 /\ ones = 0 /\ s = <<tens, Ten>>
    BY <2>1, <2>2, <2>4
  <2>5. CASE n >= 10 /\ ones # 0 /\ s = <<tens, Ten, ones>>
    BY <2>1, <2>2, <2>5
  <2>6. CASE s = <<Ten>>
    BY <2>1, <2>2, <2>6
  <2>7. CASE ones # 0 /\ s = <<Ten, ones>>
    BY <2>1, <2>2, <2>7
  <2> QED BY <1>2, <2>3, <2>4, <2>5, <2>6, <2>7
<1>7. ~RoamerdHas(<<Two>>)
  BY DEF RoamerdHas, Two, Ten, Figure
<1> QED BY <1>4, <1>5, <1>6, <1>7, RoamerdTakes, NumeralsAgree DEF NotRead

\* A figure is what it says.
LEMMA FiguresAreRead ==
    ASSUME NEW n \in 0 .. 99
    PROVE  /\ LegacyNumber(<<Figure(n)>>) = n /\ LegacyNumber(<<Decimal(n)>>) = n
           /\ RoamerdHas(<<Figure(n)>>) /\ RoamerdNumber(<<Figure(n)>>) = n
           /\ ~RoamerdHas(<<Decimal(n)>>)
<1>1. /\ Figure(n) >= Figure(0) /\ Figure(n) % 100 = n /\ Figure(n) \in Figure(0) .. Figure(99)
      /\ Figure(n) # Ten /\ Figure(n) \notin 1 .. 9
      /\ Decimal(n) >= Figure(0) /\ Decimal(n) % 100 = n
      /\ Decimal(n) \notin (1 .. Ten) \union (Figure(0) .. Figure(99))
  BY DEF Figure, Decimal, Ten
<1>2. \A c : Len(<<c>>) = 1 /\ <<c>>[1] = c /\ DOMAIN <<c>> = 1 .. 1 /\ <<c>> # <<>>
  OBVIOUS
<1>3. LegacyNumber(<<Figure(n)>>) = n /\ LegacyNumber(<<Decimal(n)>>) = n
  BY <1>1, <1>2 DEF LegacyNumber
<1>4. RoamerdHas(<<Figure(n)>>) /\ ~RoamerdHas(<<Decimal(n)>>)
  BY <1>1, <1>2 DEF RoamerdHas
<1>5. RoamerdNumber(<<Figure(n)>>) = RoamerdDigit(Figure(n))
  BY <1>1, <1>2 DEF RoamerdNumber, RoamerdPart
<1>6. RoamerdDigit(Figure(n)) = n
  BY <1>1 DEF RoamerdDigit
<1> QED BY <1>3, <1>4, <1>5, <1>6

\* The wake loop reads every number below a hundred as it is said, roamerd all that has no
\* liang, and of the other numerals that roamerd takes, of up to three characters, the two
\* make the same delay exactly when the wake loop reads them (intent.py:35-71,
\* policy_engine.py:435-475).
THEOREM DelaysAreRight == DelaysRight
<1>1. ASSUME NEW s \in Numerals PROVE s \in Sayable /\ Len(s) \in 1 .. Longest
  <2>1. PICK k \in 1 .. Longest : s \in [1 .. k -> Characters]
    BY <1>1 DEF Numerals
  <2> QED BY <2>1 DEF Sayable, Longest
<1>2. ASSUME NEW n \in 1 .. 99, NEW s \in Spoken(n) \union {<<Figure(n)>>}
      PROVE  /\ LegacyNumber(s) = n
             /\ IF s = <<Two>> THEN ~RoamerdHas(s) ELSE RoamerdHas(s) /\ RoamerdNumber(s) = n
  <2>1. CASE s \in Spoken(n)
    BY <2>1, SpokenIsRead
  <2>2. CASE s = <<Figure(n)>>
    <3>1. n \in 0 .. 99 /\ Figure(n) # Two
      BY DEF Figure, Two
    <3>2. s # <<Two>>
      BY <2>2, <3>1
    <3> QED BY <2>2, <3>1, <3>2, FiguresAreRead
  <2> QED BY <2>1, <2>2
<1>3. ASSUME NEW s \in Numerals, RoamerdHas(s)
      PROVE  RoamerdNumber(s) = LegacyNumber(s) <=> LegacyNumber(s) # NotRead
  BY <1>1, <1>3, NumeralsAgree
<1> QED BY <1>2, <1>3 DEF DelaysRight

-----------------------------------------------------------------------------
(* Rules, and what is said of both. *)

FirstOf(S) == CHOOSE i \in S : \A j \in S : i <= j

LEMMA FirstIs ==
    ASSUME NEW S \in SUBSET Nat, NEW k \in S, \A j \in S : k <= j
    PROVE  FirstOf(S) = k
<1>1. FirstOf(S) \in S /\ \A j \in S : FirstOf(S) <= j
  BY DEF FirstOf
<1>2. FirstOf(S) <= k /\ k <= FirstOf(S) /\ k \in Nat /\ FirstOf(S) \in Nat
  BY <1>1
<1> QED BY <1>2

LEMMA FirstExists ==
    ASSUME NEW S \in SUBSET Nat, S # {}
    PROVE  FirstOf(S) \in S /\ \A j \in S : FirstOf(S) <= j
<1>1. \E x \in S : \A y \in S : ~(<<y, x>> \in OpToRel(<, Nat))
  BY NatLessThanWellFounded, WFMin
<1>2. \A x, y \in Nat : ~(<<y, x>> \in OpToRel(<, Nat)) => x <= y
  BY DEF OpToRel
<1>3. \E x \in S : \A y \in S : x <= y
  BY <1>1, <1>2
<1> QED BY <1>3 DEF FirstOf

\* What a rule can make of words.
LEMMA RuleActions ==
    ASSUME NEW rules, DOMAIN rules \subseteq Nat, NEW allowed, NEW words
    PROVE  LET hits == Deciding(rules, allowed, words)
           IN  /\ hits = {} => RuleAction(rules, allowed, words) = "none"
               /\ hits # {} => /\ FirstOf(hits) \in hits
                              /\ RuleAction(rules, allowed, words)
                                    = IF rules[FirstOf(hits)].action \in allowed
                                      THEN rules[FirstOf(hits)].action ELSE "invalid"
<1> DEFINE hits == Deciding(rules, allowed, words)
<1>1. hits \in SUBSET Nat
  BY DEF Deciding
<1>2. hits # {} => FirstOf(hits) \in hits
  <2> HIDE DEF hits
  <2> QED BY <1>1, FirstExists
<1> QED BY <1>2 DEF RuleAction, FirstOf

LEMMA SharedActions ==
    ASSUME NEW rules, DOMAIN rules \subseteq Nat, NEW words
    PROVE  RuleAction(Shared(rules), LegacyAllowed, words) \in LegacyAllowed \union {"none"}
<1> DEFINE legacy == Deciding(Shared(rules), LegacyAllowed, words)
<1>1. /\ DOMAIN Shared(rules) \subseteq Nat
      /\ \A i \in DOMAIN Shared(rules) : Shared(rules)[i].action \in LegacyAllowed
  BY DEF Shared
<1>2. legacy \subseteq DOMAIN Shared(rules)
  BY DEF Deciding
<1> QED BY <1>1, <1>2, RuleActions

\* Where roamerd finds no rule, neither does the wake loop.
LEMMA NoRuleIsNone ==
    ASSUME NEW rules, DOMAIN rules \subseteq Nat, NEW words,
           "none" \notin {rules[i].action : i \in DOMAIN rules},
           RuleAction(rules, RoamerdAllowed, words) = "none"
    PROVE  RuleAction(Shared(rules), LegacyAllowed, words) = "none"
<1> DEFINE hits   == Deciding(rules, RoamerdAllowed, words)
           legacy == Deciding(Shared(rules), LegacyAllowed, words)
<1>1. hits = {}
  <2>1. CASE hits # {}
    <3>1. FirstOf(hits) \in DOMAIN rules
      <4>1. hits \subseteq DOMAIN rules
        BY DEF Deciding
      <4>2. FirstOf(hits) \in hits
        BY <2>1, RuleActions
      <4> QED BY <4>1, <4>2
    <3>2. rules[FirstOf(hits)].action # "none"
      BY <3>1
    <3> QED BY <2>1, <3>2, RuleActions
  <2> QED BY <2>1
<1>2. legacy \subseteq hits
  BY DEF Deciding, Shared, LegacyAllowed, RoamerdAllowed
<1>3. legacy = {} /\ DOMAIN Shared(rules) \subseteq Nat
  BY <1>1, <1>2 DEF Shared
<1> QED BY <1>3, RuleActions

\* A reminder is no action of a rule, unless a rule names it.
LEMMA NoRuleReminds ==
    ASSUME NEW rules, DOMAIN rules \subseteq Nat, NEW allowed, NEW words,
           \A i \in DOMAIN rules : rules[i].action # "remind.schedule"
    PROVE  RuleAction(rules, allowed, words) # "remind.schedule"
<1> DEFINE hits == Deciding(rules, allowed, words)
<1>1. hits \subseteq DOMAIN rules
  BY DEF Deciding
<1> QED BY <1>1, RuleActions

\* What roamerd does by a rule that the wake loop may have too, the wake loop does by
\* the same one: what stands before it decides for neither of them.
LEMMA RulesAgree ==
    ASSUME NEW rules, DOMAIN rules \subseteq Nat, NEW words,
           RuleAction(rules, RoamerdAllowed, words) \in LegacyAllowed
    PROVE  RuleAction(Shared(rules), LegacyAllowed, words) = RuleAction(rules, RoamerdAllowed, words)
<1> DEFINE hits   == Deciding(rules, RoamerdAllowed, words)
           first  == FirstOf(hits)
           legacy == Deciding(Shared(rules), LegacyAllowed, words)
<1>1. "none" \notin LegacyAllowed /\ "invalid" \notin LegacyAllowed
  BY DEF LegacyAllowed
<1>2. LegacyAllowed \subseteq RoamerdAllowed
  BY DEF RoamerdAllowed
<1>3. hits \in SUBSET Nat
  BY DEF Deciding
<1>4. hits # {} /\ rules[first].action \in RoamerdAllowed
      /\ RuleAction(rules, RoamerdAllowed, words) = rules[first].action
  BY <1>1 DEF RuleAction, FirstOf
<1>5. first \in hits /\ \A j \in hits : first <= j
  BY <1>3, <1>4, FirstExists
<1>6. /\ DOMAIN Shared(rules) \subseteq DOMAIN rules
      /\ \A i \in DOMAIN Shared(rules) :
            Shared(rules)[i] = rules[i] /\ rules[i].action \in LegacyAllowed
      /\ \A i \in DOMAIN rules : rules[i].action \in LegacyAllowed => i \in DOMAIN Shared(rules)
  BY DEF Shared
<1>7. first \in DOMAIN Shared(rules) /\ rules[first].action \in LegacyAllowed
      /\ rules[first].words \intersect words # {}
  BY <1>4, <1>5, <1>6 DEF Deciding
<1>8. legacy \subseteq hits /\ first \in legacy
  BY <1>6, <1>7 DEF Deciding
<1> HIDE DEF hits, legacy
<1>9. FirstOf(legacy) = first
  <2> HIDE DEF first
  <2> QED BY <1>3, <1>5, <1>8, FirstIs
<1>10. Shared(rules)[first] = rules[first]
  BY <1>6, <1>7
<1>11. RuleAction(Shared(rules), LegacyAllowed, words)
          = IF legacy = {} THEN "none"
            ELSE IF Shared(rules)[FirstOf(legacy)].action \in LegacyAllowed
                 THEN Shared(rules)[FirstOf(legacy)].action ELSE "invalid"
  BY DEF RuleAction, FirstOf, legacy
<1> QED BY <1>4, <1>7, <1>8, <1>9, <1>10, <1>11

\* Amounts: none, a numeral of up to three characters, a figure or a decimal.
Tokens == {<<Figure(n)>> : n \in 0 .. 99} \union {<<Decimal(n)>> : n \in 0 .. 99}
Sensible(u) == \/ u.amount = <<>> \/ u.amount \in Tokens
               \/ u.amount \in Sayable /\ Len(u.amount) \in 1 .. Longest

\* A numeral of up to three characters is all that the search finds.
LEMMA ShortAmount ==
    ASSUME NEW u, u.amount \in Sayable, Len(u.amount) \in 1 .. 3
    PROVE  LegacyAmount(u) = u.amount
<1> DEFINE s == u.amount
<1>1. s \in Sayable /\ Len(s) \in 1 .. 3
      /\ LegacyAmount(u) = SubSeq(s, IF Len(s) > 3 THEN Len(s) - 2 ELSE 1, Len(s))
  BY DEF LegacyAmount
<1> HIDE DEF s
<1>2. \A k \in 1 .. 3 : (IF k > 3 THEN k - 2 ELSE 1) = 1
  OBVIOUS
<1>3. LegacyAmount(u) = SubSeq(s, 1, Len(s))
  BY <1>1, <1>2, Zenon
<1>4. LegacyAmount(u) = s
  BY <1>1, <1>3, SubSeqFull DEF Sayable
<1> QED BY <1>4 DEF s

LEMMA TokenAmount ==
    ASSUME NEW u, u.amount \in Tokens PROVE LegacyAmount(u) = u.amount
<1>1. PICK c \in Nat : u.amount = <<c>>
  BY DEF Tokens, Figure, Decimal
<1>2. <<c>> \in Seq(Nat) /\ Len(<<c>>) = 1
  OBVIOUS
<1>3. LegacyAmount(u) = SubSeq(<<c>>, 1, Len(<<c>>))
  BY <1>1, <1>2 DEF LegacyAmount
<1> QED BY <1>1, <1>2, <1>3, SubSeqFull

\* When both hear a reminder they hear the same one.
LEMMA RemindersAgree ==
    ASSUME NEW u, Sensible(u), RoamerdHas(u.amount), Timed(u)
    PROVE  RoamerdNumber(u.amount) = LegacyNumber(LegacyAmount(u))
<1>1. u.amount # <<>>
  BY DEF Timed
<1>2. CASE u.amount \in Sayable /\ Len(u.amount) \in 1 .. Longest
  <2>1. LegacyAmount(u) = u.amount
    BY <1>2, ShortAmount DEF Longest
  <2> QED BY <1>2, <2>1, NumeralsAgree DEF Timed
<1>3. CASE u.amount \in Tokens
  <2>1. PICK n \in 0 .. 99 : u.amount = <<Figure(n)>> \/ u.amount = <<Decimal(n)>>
    BY <1>3 DEF Tokens
  <2>2. LegacyAmount(u) = u.amount
    BY <1>3, TokenAmount
  <2> QED BY <2>1, <2>2, FiguresAreRead
<1> QED BY <1>1, <1>2, <1>3 DEF Sensible

\* For every list of rules that leaves reminders to the grammar, and every utterance: the two
\* understand the same of it exactly when both hear a reminder in it, or neither does and it
\* is for roamerd nothing, or an action that both can do (intent.py:54-150,
\* policy_engine.py:87-107 and 422-451).
THEOREM MeaningsAgree ==
    ASSUME NEW rules, DOMAIN rules \subseteq Nat, NEW u, Sensible(u),
           \A i \in DOMAIN rules : rules[i].action \notin {"remind.schedule", "none"}
    PROVE  Legacy(u, Shared(Store(rules))) = Roamerd(u, rules) <=>
              IF Timed(u) \/ IsReminder(u) THEN Timed(u) /\ IsReminder(u)
              ELSE Roamerd(u, rules).action \in LegacyAllowed \union {"none"}
<1> DEFINE kept == Store(rules)
           byWakeLoop == RuleAction(Shared(kept), LegacyAllowed, u.words)
           byRoamerd  == RuleAction(kept, RoamerdAllowed, u.words)
<1>1. /\ DOMAIN kept \subseteq Nat
      /\ \A i \in DOMAIN kept : kept[i].action \notin {"remind.schedule", "none"}
  BY DEF Store, DefaultRules, Rule
<1>2. /\ DOMAIN Shared(kept) \subseteq Nat
      /\ \A i \in DOMAIN Shared(kept) : Shared(kept)[i].action # "remind.schedule"
  BY <1>1 DEF Shared
<1> HIDE DEF kept
<1>3. /\ byWakeLoop # "remind.schedule" /\ byRoamerd # "remind.schedule"
      /\ byWakeLoop \in LegacyAllowed \union {"none"}
  BY <1>1, <1>2, NoRuleReminds, SharedActions
<1>4. /\ byRoamerd \in LegacyAllowed => byWakeLoop = byRoamerd
      /\ byRoamerd = "none" => byWakeLoop = byRoamerd
  BY <1>1, RulesAgree, NoRuleIsNone
<1> HIDE DEF byWakeLoop, byRoamerd
<1>5. /\ Timed(u) => Legacy(u, Shared(kept))
                       = Understood("remind.schedule", LegacyNumber(LegacyAmount(u)) * Seconds[u.unit])
      /\ ~Timed(u) => Legacy(u, Shared(kept)) = Understood(byWakeLoop, 0)
  BY DEF Legacy, byWakeLoop
<1>6. /\ IsReminder(u) => Roamerd(u, rules)
                       = Understood("remind.schedule", RoamerdNumber(u.amount) * Seconds[u.unit])
      /\ ~IsReminder(u) => \/ Roamerd(u, rules) = Understood("motion.goto", 0)
                           \/ Roamerd(u, rules) = Understood(byRoamerd, 0)
  BY DEF Roamerd, byRoamerd, kept
<1>7. CASE Timed(u) /\ IsReminder(u)
  <2>1. RoamerdNumber(u.amount) = LegacyNumber(LegacyAmount(u))
    BY <1>7, RemindersAgree DEF IsReminder
  <2> QED BY <1>5, <1>6, <1>7, <2>1 DEF kept
<1>8. CASE Timed(u) /\ ~IsReminder(u)
  <2>1. Roamerd(u, rules).action # "remind.schedule" /\ Legacy(u, Shared(kept)).action = "remind.schedule"
    BY <1>3, <1>5, <1>6, <1>8 DEF Understood
  <2> QED BY <1>8, <2>1 DEF kept
<1>9. CASE ~Timed(u) /\ IsReminder(u)
  <2>1. Roamerd(u, rules).action = "remind.schedule" /\ Legacy(u, Shared(kept)).action # "remind.schedule"
    BY <1>3, <1>5, <1>6, <1>9 DEF Understood
  <2> QED BY <1>9, <2>1 DEF kept
<1>10. CASE ~Timed(u) /\ ~IsReminder(u)
  <2>1. "motion.goto" \notin LegacyAllowed \union {"none"}
    BY DEF LegacyAllowed
  <2>2. Legacy(u, Shared(kept)) = Understood(byWakeLoop, 0)
    BY <1>5, <1>10
  <2>3. CASE Roamerd(u, rules) = Understood("motion.goto", 0)
    <3>1. Roamerd(u, rules).action \notin LegacyAllowed \union {"none"}
          /\ Legacy(u, Shared(kept)).action \in LegacyAllowed \union {"none"}
      BY <1>3, <2>1, <2>2, <2>3 DEF Understood
    <3> QED BY <1>10, <3>1 DEF kept
  <2>4. CASE Roamerd(u, rules) = Understood(byRoamerd, 0)
    <3>1. /\ Roamerd(u, rules).action = byRoamerd /\ Legacy(u, Shared(kept)).action = byWakeLoop
          /\ byWakeLoop = byRoamerd => Legacy(u, Shared(kept)) = Roamerd(u, rules)
      BY <2>2, <2>4 DEF Understood
    <3>2. CASE byRoamerd \in LegacyAllowed \union {"none"}
      BY <1>4, <1>10, <3>1, <3>2 DEF kept
    <3>3. CASE byRoamerd \notin LegacyAllowed \union {"none"}
      BY <1>3, <1>10, <3>1, <3>3 DEF kept
    <3> QED BY <3>2, <3>3
  <2> QED BY <1>6, <1>10, <2>3, <2>4
<1> QED BY <1>7, <1>8, <1>9, <1>10

\* The lists of rules that an update may bring are some of these.
LEMMA ListsAgree == Agreeing = DOMAIN RuleLists
<1>1. ASSUME NEW u \in Utterances PROVE Sensible(u)
  <2>1. u.amount \in Amounts
    BY DEF Utterances
  <2>2. {<<3>>, <<Two>>, <<2, Ten>>, <<1, 2>>} \subseteq Sayable
    BY DEF Sayable, Characters, Two, Ten
  <2>3. {<<Figure(5)>>, <<Decimal(5)>>} \subseteq Tokens
    BY DEF Tokens
  <2>4. \A s \in {<<3>>, <<Two>>, <<2, Ten>>, <<1, 2>>} : Len(s) \in 1 .. Longest
    BY DEF Longest
  <2> QED BY <2>1, <2>2, <2>3, <2>4 DEF Amounts, Sensible
<1>2. ASSUME NEW list \in DOMAIN RuleLists
      PROVE  /\ DOMAIN RuleLists[list] \subseteq Nat
             /\ \A i \in DOMAIN RuleLists[list] :
                   RuleLists[list][i].action \notin {"remind.schedule", "none"}
  BY DEF RuleLists, DefaultRules, Rule
<1>3. ASSUME NEW list \in DOMAIN RuleLists PROVE SameUnderstanding(RuleLists[list])
  BY <1>1, <1>2, MeaningsAgree DEF SameUnderstanding
<1> QED BY <1>3, DelaysAreRight DEF Agreeing

\* Whatever rules an update has brought, roamerd and the wake loop whose place it is to take
\* understand the same of an utterance in the cases that SameUnderstanding tells and in no
\* others, and delays are what is said.
THEOREM UtterancesAreAlike == Spec => []UtterancesAgree
<1>1. TypeOK => UtterancesAgree
  BY ListsAgree DEF TypeOK, UtterancesAgree
<1> QED BY <1>1, TypesHold, PTL
=============================================================================
