--------------------------- MODULE EventBusProofs ---------------------------
(***************************************************************************)
(* Theorems about the event bus, for any number of events and subscribers, *)
(* any sizes of the queues and any limits.                                 *)
(***************************************************************************)
EXTENDS EventBus, FiniteSetTheorems, SequenceTheorems, WellFoundedInduction, TLAPS

-----------------------------------------------------------------------------
(* The invariant. *)

\* The events that may be in the queue of a level: those of that priority that have
\* been published.
Placed(l, m) == {e \in Events : Level(e) = l /\ e.n <= m}

After(n) == {e \in Events : e.n # 0 => n < e.n}

Sorted(s) == \A i, j \in DOMAIN s : j < i /\ s[i].n # 0 => s[j].n < s[i].n

QueueOK == /\ queue \in [Levels -> Seq(Events)]
           /\ \A l \in Levels : queue[l] \in Seq(Placed(l, made))

\* Every publish that waits still finds a number.
CountOK == /\ made \in Nat /\ IsFiniteSet(blocked) /\ made + Cardinality(blocked) <= MaxEvents
           /\ blocked \subseteq [kind : Kinds, owner : Dispatchers \union {"task"}]

\* A dispatcher has an event while a handler runs or it died, and the second one is
\* there only after stop().
DispatchOK ==
    /\ mode \in [Dispatchers -> {"off", "idle", "running", "over", "dead"}]
    /\ current \in [Dispatchers -> Events \union {NoEvent}]
    /\ todo \in [Dispatchers -> SUBSET Subscribers]
    /\ age \in [Dispatchers -> 0 .. Timeout]
    /\ stopped \in BOOLEAN
    /\ \A d \in Dispatchers :
          /\ mode[d] \in {"off", "idle", "over"} => current[d] = NoEvent
          /\ Running(d) => todo[d] # {} /\ current[d] \in Events
          /\ current[d].n <= made
    /\ ~stopped => mode["stop"] = "off"

\* The age the watchdog sees is that of a handler that runs.
WatchOK == /\ watched \in {NoTime} \union Nat
           /\ watched # NoTime => \E d \in Dispatchers : Running(d) /\ age[d] = watched

Spent(d) == IF age[d] <= FastPath THEN age[d] ELSE FastPath
Patience == FastPath * Cardinality(Subscribers)

\* What a CRITICAL event has waited and what the handlers before it may still take.
WaitOK == /\ waited \in Nat /\ waited <= Patience
          /\ ~critical => waited = 0
          /\ \A d \in Dispatchers : critical /\ Lesser(d) =>
                waited + FastPath * Cardinality(todo[d]) <= Patience + Spent(d)

\* While there is one dispatcher the queues are sorted, behind the event it serves.
SortedOK == /\ \A l \in Levels : Sorted(queue[l])
            /\ \A d \in Dispatchers : Running(d) => queue[Level(current[d])] \in Seq(After(current[d].n))

BusInv == /\ QueueOK /\ CountOK /\ DispatchOK /\ WatchOK /\ CriticalFlag /\ WaitOK
          /\ critical \in BOOLEAN
          /\ ~stopped => SortedOK

-----------------------------------------------------------------------------
(* The subscriber being served is one of those that still get the event. *)

LEMMA LeastExists ==
    ASSUME NEW S \in SUBSET Nat, S # {}
    PROVE  Min(S) \in S /\ \A x \in S : Min(S) =< x
<1>1. IsWellFoundedOn(OpToRel(<, Nat), Nat)
  BY NatLessThanWellFounded
<1>2. \E x \in S : \A y \in S : ~(<<y, x>> \in OpToRel(<, Nat))
  BY <1>1, WFMin
<1>3. \A x, y \in Nat : ~(<<y, x>> \in OpToRel(<, Nat)) => x =< y
  BY DEF OpToRel
<1>4. \E x \in S : \A y \in S : x =< y
  BY <1>2, <1>3
<1> QED BY <1>4 DEF Min

LEMMA OneLess ==
    ASSUME NEW d, todo[d] \subseteq Subscribers, todo[d] # {}
    PROVE  /\ Others(d) \subseteq Subscribers
           /\ Cardinality(todo[d]) \in Nat /\ Cardinality(Others(d)) = Cardinality(todo[d]) - 1
<1>1. Subscribers \subseteq Nat /\ IsFiniteSet(Subscribers)
  <2> DEFINE n == Cardinality(Subscribers)
  <2>1. IsFiniteSet(Subscribers) /\ Subscribers = 1 .. n
    BY ConstantsAssumption DEF ConstantsAssumption
  <2>2. n \in Nat
    BY <2>1, FS_CardinalityType
  <2> HIDE DEF n
  <2> QED BY <2>1, <2>2
<1>2. Serving(d) \in todo[d]
  BY <1>1, LeastExists DEF Serving
<1>3. IsFiniteSet(todo[d])
  BY <1>1, FS_Subset
<1> QED BY <1>2, <1>3, FS_RemoveElement, FS_CardinalityType DEF Others

LEMMA NotMore ==
    ASSUME NEW S \in SUBSET Subscribers
    PROVE  Cardinality(S) \in Nat /\ Cardinality(S) <= Cardinality(Subscribers) /\ Cardinality(Subscribers) \in Nat
<1>1. IsFiniteSet(Subscribers)
  BY ConstantsAssumption DEF ConstantsAssumption
<1> QED BY <1>1, FS_Subset, FS_CardinalityType

-----------------------------------------------------------------------------
(* The queues. *)

LEMMA SortedTail ==
    ASSUME NEW s \in Seq(Events), s # <<>>, Sorted(s)
    PROVE  /\ Tail(s) \in Seq(Events) /\ Sorted(Tail(s))
           /\ \A i \in DOMAIN Tail(s) : Tail(s)[i].n # 0 => Head(s).n < Tail(s)[i].n
<1> DEFINE t == Tail(s)
<1>1. /\ DOMAIN t = 1 .. Len(s) - 1 /\ DOMAIN s = 1 .. Len(s) /\ Len(s) \in Nat \ {0}
      /\ \A i \in DOMAIN t : t[i] = s[i + 1]
      /\ t \in Seq(Events) /\ Head(s) = s[1]
  OBVIOUS
<1> HIDE DEF t
<1>2. /\ \A i \in DOMAIN t : i + 1 \in DOMAIN s /\ 1 < i + 1
      /\ 1 \in DOMAIN s /\ \A i, j \in DOMAIN t : j < i => j + 1 < i + 1
  BY <1>1
<1>3. Sorted(t)
  BY <1>1, <1>2 DEF Sorted
<1>4. \A i \in DOMAIN t : t[i].n # 0 => s[1].n < t[i].n
  BY <1>1, <1>2 DEF Sorted
<1> QED BY <1>1, <1>3, <1>4 DEF t

LEMMA SortedAppend ==
    ASSUME NEW s \in Seq(Events), NEW e \in Events, Sorted(s),
           e.n # 0 => \A i \in DOMAIN s : s[i].n < e.n
    PROVE  Sorted(Append(s, e))
<1> DEFINE t == Append(s, e)
<1>1. /\ DOMAIN t = 1 .. Len(s) + 1 /\ DOMAIN s = 1 .. Len(s) /\ Len(s) \in Nat
      /\ \A i \in DOMAIN s : t[i] = s[i]
      /\ t[Len(s) + 1] = e
  OBVIOUS
<1> HIDE DEF t
<1> SUFFICES ASSUME NEW i \in DOMAIN t, NEW j \in DOMAIN t, j < i, t[i].n # 0 PROVE t[j].n < t[i].n
  BY DEF Sorted, t
<1>2. j \in DOMAIN s
  BY <1>1
<1>3. i \in DOMAIN s \/ i = Len(s) + 1
  BY <1>1
<1> QED BY <1>1, <1>2, <1>3 DEF Sorted

LEMMA SortedCons ==
    ASSUME NEW s \in Seq(Events), NEW e \in Events, Sorted(s),
           \A i \in DOMAIN s : s[i].n # 0 => e.n < s[i].n
    PROVE  Sorted(<<e>> \o s)
<1> DEFINE t == <<e>> \o s
<1>1. /\ DOMAIN t = 1 .. Len(s) + 1 /\ DOMAIN s = 1 .. Len(s) /\ Len(s) \in Nat
      /\ \A i \in DOMAIN t : i # 1 => i - 1 \in DOMAIN s /\ t[i] = s[i - 1]
      /\ t[1] = e
  OBVIOUS
<1> HIDE DEF t
<1> SUFFICES ASSUME NEW i \in DOMAIN t, NEW j \in DOMAIN t, j < i, t[i].n # 0 PROVE t[j].n < t[i].n
  BY DEF Sorted, t
<1>2. i # 1 /\ (j # 1 => j - 1 < i - 1)
  BY <1>1
<1> QED BY <1>1, <1>2 DEF Sorted

LEMMA SortedConcat ==
    ASSUME NEW s \in Seq(Events), NEW t \in Seq(Events), Sorted(s), \A i \in DOMAIN t : t[i].n = 0
    PROVE  Sorted(s \o t)
<1> DEFINE u == s \o t
<1>1. /\ DOMAIN u = 1 .. Len(s) + Len(t) /\ DOMAIN s = 1 .. Len(s) /\ DOMAIN t = 1 .. Len(t)
      /\ Len(s) \in Nat /\ Len(t) \in Nat
      /\ \A i \in DOMAIN s : u[i] = s[i]
      /\ \A i \in DOMAIN u : i > Len(s) => i - Len(s) \in DOMAIN t /\ u[i] = t[i - Len(s)]
  OBVIOUS
<1> HIDE DEF u
<1> SUFFICES ASSUME NEW i \in DOMAIN u, NEW j \in DOMAIN u, j < i, u[i].n # 0 PROVE u[j].n < u[i].n
  BY DEF Sorted, u
<1>2. i \in DOMAIN s /\ j \in DOMAIN s
  BY <1>1
<1> QED BY <1>1, <1>2 DEF Sorted

LEMMA LastNIs ==
    ASSUME NEW S, NEW s \in Seq(S), NEW n \in Nat
    PROVE  /\ LastN(s, n) \in Seq(S)
           /\ \E k \in Nat : \A i \in DOMAIN LastN(s, n) : i + k \in DOMAIN s /\ LastN(s, n)[i] = s[i + k]
<1> DEFINE k == IF Len(s) > n THEN Len(s) - n ELSE 0
           t == SubSeq(s, k + 1, Len(s))
<1>1. k \in Nat /\ k <= Len(s) /\ Len(s) \in Nat /\ LastN(s, n) = t
  BY DEF LastN
<1> HIDE DEF k
<1>2. t \in Seq(S) /\ DOMAIN t = 1 .. Len(s) - k /\ \A i \in 1 .. Len(s) - k : t[i] = s[i + k] /\ i + k \in DOMAIN s
  BY <1>1
<1> QED BY <1>1, <1>2

LEMMA SortedLastN ==
    ASSUME NEW s \in Seq(Events), NEW n \in Nat, Sorted(s)
    PROVE  Sorted(LastN(s, n))
<1> DEFINE t == LastN(s, n)
<1>1. t \in Seq(Events)
  BY LastNIs
<1>2. PICK k \in Nat : \A i \in DOMAIN t : i + k \in DOMAIN s /\ t[i] = s[i + k]
  BY LastNIs
<1>3. DOMAIN t = 1 .. Len(t) /\ Len(t) \in Nat
  BY <1>1
<1> HIDE DEF t
<1>4. \A i, j \in DOMAIN t : j < i => j + k < i + k
  BY <1>2, <1>3
<1>5. Sorted(t)
  BY <1>2, <1>4 DEF Sorted
<1> QED BY <1>5 DEF t

\* What the queues of Appended(e) are.
LEMMA Levelled ==
    /\ \A e \in Events : Level(e) \in Levels /\ e.n \in Nat /\ e # NoEvent
    /\ \A kind \in SysKinds : SysEvent(kind) \in Events /\ SysEvent(kind).n = 0 /\ Level(SysEvent(kind)) = SysLevel[kind]
    /\ SysKinds = {"overflow", "handler_timeout", "watchdog"}
    /\ \A kind \in Kinds, n \in Serial : [kind |-> kind, n |-> n] \in Events /\ Level([kind |-> kind, n |-> n]) = LevelOf[kind]
<1>1. Kinds \intersect SysKinds = {} /\ LevelOf \in [Kinds -> Levels] /\ MaxEvents \in Nat
  BY ConstantsAssumption DEF ConstantsAssumption
<1>2. SysKinds = {"overflow", "handler_timeout", "watchdog"}
  BY DEF SysKinds, SysLevel
<1>3. SysLevel \in [SysKinds -> Levels]
  BY DEF SysKinds, SysLevel, Levels
<1>4. ASSUME NEW e \in Events PROVE Level(e) \in Levels /\ e.n \in Nat /\ e # NoEvent
  <2>1. CASE e \in [kind : Kinds, n : Serial]
    <3>1. e.n \in Nat /\ e.n # 0 /\ e.kind \in Kinds
      BY <1>1, <2>1 DEF Serial
    <3> QED BY <1>1, <3>1 DEF Level, NoEvent
  <2>2. CASE e \in [kind : SysKinds, n : {0}]
    <3>1. e.n = 0 /\ e.kind \in SysKinds
      BY <2>2
    <3>2. e.kind # "none"
      BY <1>2, <3>1
    <3> QED BY <1>3, <3>1, <3>2 DEF Level, NoEvent
  <2> QED BY <2>1, <2>2 DEF Events
<1>5. ASSUME NEW kind \in SysKinds
      PROVE  SysEvent(kind) \in Events /\ SysEvent(kind).n = 0 /\ Level(SysEvent(kind)) = SysLevel[kind]
  BY DEF Events, SysEvent, Level
<1>6. ASSUME NEW kind \in Kinds, NEW n \in Serial
      PROVE  [kind |-> kind, n |-> n] \in Events /\ Level([kind |-> kind, n |-> n]) = LevelOf[kind]
  BY <1>1 DEF Events, Level
<1> QED BY <1>2, <1>4, <1>5, <1>6

LEMMA NormalAfterIs ==
    ASSUME NEW S \in SUBSET Events, NEW s \in Seq(S), NEW e \in S, SysEvent("overflow") \in S
    PROVE  /\ NormalAfter(s, <<e>>) \in Seq(S)
           /\ Len(s) < NormalMax => NormalAfter(s, <<e>>) = Append(s, e)
           /\ Sorted(s) /\ (e.n # 0 => \A i \in DOMAIN s : s[i].n < e.n) => Sorted(NormalAfter(s, <<e>>))
<1> DEFINE o == Overflows(Depth - Len(<<e>>))
           t == Append(s, e)
<1>1. s \o <<e>> = t /\ t \in Seq(S) /\ Len(<<e>>) = 1 /\ Len(s) \in Nat
  OBVIOUS
<1>2. o \in Seq(S) /\ \A i \in DOMAIN o : o[i].n = 0
  <2>1. Depth - 1 \in Nat /\ o = [i \in 1 .. (Depth - 1) |-> SysEvent("overflow")]
    BY <1>1, ConstantsAssumption DEF ConstantsAssumption, Overflows
  <2> QED BY <2>1 DEF SysEvent
<1>3. NormalAfter(s, <<e>>) = IF Len(s) < NormalMax THEN t ELSE LastN(t \o o, Len(s))
  BY <1>1 DEF NormalAfter
<1> HIDE DEF o, t
<1>4. t \o o \in Seq(S)
  BY <1>1, <1>2
<1>5. LastN(t \o o, Len(s)) \in Seq(S)
  BY <1>1, <1>4, LastNIs
<1>6. NormalAfter(s, <<e>>) \in Seq(S)
  BY <1>1, <1>3, <1>5
<1>7. ASSUME Sorted(s), e.n # 0 => \A i \in DOMAIN s : s[i].n < e.n PROVE Sorted(NormalAfter(s, <<e>>))
  <2>1. s \in Seq(Events) /\ t \in Seq(Events) /\ o \in Seq(Events) /\ e \in Events /\ t \o o \in Seq(Events)
    <3>1. \A q : q \in Seq(S) => q \in Seq(Events)
      OBVIOUS
    <3> QED BY <1>1, <1>2, <1>4, <3>1
  <2>2. Sorted(t)
    BY <1>7, <2>1, SortedAppend DEF t
  <2>3. Sorted(t \o o)
    BY <1>2, <2>1, <2>2, SortedConcat
  <2>4. Sorted(LastN(t \o o, Len(s)))
    BY <1>1, <2>1, <2>3, SortedLastN
  <2> QED BY <1>3, <2>2, <2>4
<1> QED BY <1>3, <1>6, <1>7 DEF t

LEMMA AppendedIs ==
    ASSUME queue \in [Levels -> Seq(Events)], NEW S \in [Levels -> SUBSET Events],
           \A l \in Levels : queue[l] \in Seq(S[l]),
           NEW e \in Events, e \in S[Level(e)], SysEvent("overflow") \in S["NORMAL"]
    PROVE  /\ Appended(e) \in [Levels -> Seq(Events)] /\ \A l \in Levels : Appended(e)[l] \in Seq(S[l])
           /\ \A l \in {"CRITICAL", "HIGH"} :
                 Appended(e)[l] = IF Level(e) = l THEN Append(queue[l], e) ELSE queue[l]
           /\ Level(e) = "NORMAL" /\ ~Full("NORMAL") =>
                 Appended(e) = [queue EXCEPT !["NORMAL"] = Append(queue["NORMAL"], e)]
           /\ (\A l \in Levels : Sorted(queue[l])) /\ (e.n # 0 => \A l \in Levels : \A i \in DOMAIN queue[l] : queue[l][i].n < e.n)
                 => \A l \in Levels : Sorted(Appended(e)[l])
<1> DEFINE A == Appended(e)
           o == SysEvent("overflow")
           Fresh(l) == e.n # 0 => \A i \in DOMAIN queue[l] : queue[l][i].n < e.n
<1>0. Level(e) \in Levels /\ Level(o) = "NORMAL" /\ o \in Events /\ o.n = 0
  BY Levelled DEF SysLevel
<1>1. Levels = {"CRITICAL", "HIGH", "NORMAL", "LOW"} /\ \A l \in Levels : S[l] \subseteq Events
  BY DEF Levels
<1>2. \A l \in Levels : \A q \in Seq(S[l]) : q \in Seq(Events)
  BY <1>1
<1>3. /\ NormalAfter(queue["NORMAL"], <<o>>) \in Seq(S["NORMAL"])
      /\ Sorted(queue["NORMAL"]) => Sorted(NormalAfter(queue["NORMAL"], <<o>>))
  BY <1>0, <1>1, NormalAfterIs
<1>4. CASE Level(e) = "NORMAL"
  <2>1. A = [queue EXCEPT !["NORMAL"] = NormalAfter(queue["NORMAL"], <<e>>)]
    BY <1>4 DEF Appended
  <2>2. /\ NormalAfter(queue["NORMAL"], <<e>>) \in Seq(S["NORMAL"])
        /\ Len(queue["NORMAL"]) < NormalMax => NormalAfter(queue["NORMAL"], <<e>>) = Append(queue["NORMAL"], e)
        /\ Sorted(queue["NORMAL"]) /\ Fresh("NORMAL") => Sorted(NormalAfter(queue["NORMAL"], <<e>>))
    BY <1>1, <1>4, NormalAfterIs
  <2>3. A \in [Levels -> Seq(Events)] /\ \A l \in Levels : A[l] = IF l = "NORMAL" THEN NormalAfter(queue["NORMAL"], <<e>>) ELSE queue[l]
    BY <1>1, <1>2, <2>1, <2>2
  <2>4. \A l \in Levels : A[l] \in Seq(S[l])
    BY <2>2, <2>3
  <2>5. (\A l \in Levels : Sorted(queue[l]) /\ Fresh(l)) => \A l \in Levels : Sorted(A[l])
    <3> HIDE DEF Fresh, A
    <3> SUFFICES ASSUME \A l \in Levels : Sorted(queue[l]) /\ Fresh(l), NEW l \in Levels PROVE Sorted(A[l])
      OBVIOUS
    <3>1. CASE l = "NORMAL"
      BY <2>2, <2>3, <3>1
    <3>2. CASE l # "NORMAL"
      BY <2>3, <3>2
    <3> QED BY <3>1, <3>2
  <2>6. ~Full("NORMAL") => A = [queue EXCEPT !["NORMAL"] = Append(queue["NORMAL"], e)]
    <3> SUFFICES ASSUME ~Full("NORMAL") PROVE A = [queue EXCEPT !["NORMAL"] = Append(queue["NORMAL"], e)]
      OBVIOUS
    <3>1. Len(queue["NORMAL"]) < NormalMax
      <4>1. MaxSize["NORMAL"] = NormalMax
        BY DEF MaxSize
      <4>2. Len(queue["NORMAL"]) \in Nat /\ NormalMax \in Nat
        BY <1>1, ConstantsAssumption DEF ConstantsAssumption
      <4> QED BY <4>1, <4>2 DEF Full
    <3> QED BY <2>1, <2>2, <3>1
  <2>7. \A l \in {"CRITICAL", "HIGH"} : A[l] = IF Level(e) = l THEN Append(queue[l], e) ELSE queue[l]
    BY <1>1, <1>4, <2>3
  <2> QED BY <2>3, <2>4, <2>5, <2>6, <2>7
<1>5. CASE Level(e) = "LOW" /\ Full("LOW")
  <2> DEFINE n == NormalAfter(queue["NORMAL"], <<o>>)
             t == Append(Tail(queue["LOW"]), e)
  <2>1. A = [queue EXCEPT !["LOW"] = t, !["NORMAL"] = n]
    BY <1>5 DEF Appended
  <2>2. queue["LOW"] # <<>>
    <3>1. MaxSize["LOW"] = LowMax /\ LowMax \in Nat \ {0}
      BY ConstantsAssumption DEF ConstantsAssumption, MaxSize
    <3>2. Len(queue["LOW"]) \in Nat /\ Len(queue["LOW"]) # 0
      BY <1>1, <1>5, <3>1 DEF Full
    <3> QED BY <1>1, <3>2
  <2>3. t \in Seq(S["LOW"])
    BY <1>1, <1>5, <2>2
  <2>4. Sorted(queue["LOW"]) /\ Fresh("LOW") => Sorted(t)
    <3> SUFFICES ASSUME Sorted(queue["LOW"]), Fresh("LOW") PROVE Sorted(t)
      OBVIOUS
    <3> DEFINE s == queue["LOW"]
               r == Tail(s)
    <3>1. s \in Seq(Events) /\ s # <<>> /\ Sorted(s)
      BY <1>1, <2>2
    <3>2. r \in Seq(Events) /\ Sorted(r)
      BY <3>1, SortedTail
    <3>3. \A i \in DOMAIN r : i + 1 \in DOMAIN s /\ r[i] = s[i + 1]
      BY <3>1
    <3>4. e.n # 0 => \A i \in DOMAIN r : r[i].n < e.n
      BY <3>3
    <3> HIDE DEF s, r
    <3>5. Sorted(Append(r, e))
      BY <3>2, <3>4, SortedAppend
    <3> QED BY <3>5 DEF s, r
  <2> HIDE DEF n, t
  <2>5. /\ A["LOW"] = t /\ A["NORMAL"] = n /\ A["CRITICAL"] = queue["CRITICAL"] /\ A["HIGH"] = queue["HIGH"]
        /\ A \in [Levels -> Seq(Events)]
    BY <1>1, <1>2, <1>3, <2>1, <2>3 DEF n
  <2>6. \A l \in Levels : A[l] \in Seq(S[l])
    BY <1>1, <1>3, <2>3, <2>5 DEF n
  <2>7. (\A l \in Levels : Sorted(queue[l]) /\ Fresh(l)) => \A l \in Levels : Sorted(A[l])
    <3> HIDE DEF Fresh, A
    <3> SUFFICES ASSUME \A l \in Levels : Sorted(queue[l]) /\ Fresh(l) PROVE \A l \in Levels : Sorted(A[l])
      OBVIOUS
    <3> QED BY <1>1, <1>3, <2>4, <2>5 DEF n
  <2> QED BY <1>5, <2>5, <2>6, <2>7
<1>6. CASE Level(e) # "NORMAL" /\ ~(Level(e) = "LOW" /\ Full("LOW"))
  <2>1. A = [queue EXCEPT ![Level(e)] = Append(queue[Level(e)], e)]
    BY <1>6 DEF Appended
  <2>2. Append(queue[Level(e)], e) \in Seq(S[Level(e)]) /\ queue[Level(e)] \in Seq(Events)
    BY <1>0
  <2>3. /\ A \in [Levels -> Seq(Events)]
        /\ \A l \in Levels : A[l] = IF l = Level(e) THEN Append(queue[l], e) ELSE queue[l]
    BY <1>0, <1>2, <2>1, <2>2
  <2>4. \A l \in Levels : A[l] \in Seq(S[l])
    BY <2>2, <2>3
  <2>5. (\A l \in Levels : Sorted(queue[l]) /\ Fresh(l)) => \A l \in Levels : Sorted(A[l])
    <3> SUFFICES ASSUME \A l \in Levels : Sorted(queue[l]) /\ Fresh(l), NEW l \in Levels PROVE Sorted(A[l])
      OBVIOUS
    <3>1. queue[l] \in Seq(Events) /\ Sorted(queue[l]) /\ (e.n # 0 => \A i \in DOMAIN queue[l] : queue[l][i].n < e.n)
      OBVIOUS
    <3>2. Sorted(Append(queue[l], e))
      BY <3>1, SortedAppend
    <3> QED BY <2>3, <3>1, <3>2
  <2>6. \A l \in {"CRITICAL", "HIGH"} : A[l] = IF Level(e) = l THEN Append(queue[l], e) ELSE queue[l]
    BY <1>1, <2>3
  <2> QED BY <1>6, <2>3, <2>4, <2>5, <2>6
<1> QED BY <1>4, <1>5, <1>6

-----------------------------------------------------------------------------
(* The steps of the bus: what they do to the queues. *)

LEMMA PlacedGrows ==
    ASSUME NEW l, NEW m \in Nat, NEW k \in Nat, m <= k
    PROVE  Placed(l, m) \subseteq Placed(l, k) /\ \A s : s \in Seq(Placed(l, m)) => s \in Seq(Placed(l, k))
<1>1. Placed(l, m) \subseteq Placed(l, k)
  <2> SUFFICES ASSUME NEW e \in Placed(l, m) PROVE e \in Placed(l, k)
    OBVIOUS
  <2>1. e \in Events /\ Level(e) = l /\ e.n <= m /\ e.n \in Nat
    BY Levelled DEF Placed
  <2> QED BY <2>1 DEF Placed
<1> QED BY <1>1

\* What publishing an event does to the queues.
LEMMA AppendedOK ==
    ASSUME QueueOK, made \in Nat, made' \in Nat, made <= made', CriticalFlag, critical \in BOOLEAN,
           NEW e \in Events, e.n <= made', queue' = Appended(e),
           critical' = (critical \/ Level(e) = "CRITICAL")
    PROVE  QueueOK' /\ CriticalFlag' /\ critical' \in BOOLEAN
<1> DEFINE S == [l \in Levels |-> Placed(l, made')]
<1>1. Level(e) \in Levels /\ e \in S[Level(e)]
  BY Levelled DEF Placed
<1>2. SysEvent("overflow") \in S["NORMAL"]
  BY Levelled DEF Placed, SysLevel, Levels
<1>3. S \in [Levels -> SUBSET Events] /\ queue \in [Levels -> Seq(Events)]
  BY DEF Placed, QueueOK
<1>4. \A l \in Levels : queue[l] \in Seq(S[l])
  BY PlacedGrows DEF QueueOK
<1>5. /\ Appended(e) \in [Levels -> Seq(Events)] /\ \A l \in Levels : Appended(e)[l] \in Seq(S[l])
      /\ \A l \in {"CRITICAL", "HIGH"} : Appended(e)[l] = IF Level(e) = l THEN Append(queue[l], e) ELSE queue[l]
  <2> HIDE DEF S
  <2> QED BY <1>1, <1>2, <1>3, <1>4, AppendedIs
<1>6. QueueOK'
  BY <1>5 DEF QueueOK
<1>7. Append(queue["CRITICAL"], e) # <<>>
  BY <1>3 DEF Levels
<1> QED BY <1>5, <1>6, <1>7 DEF CriticalFlag

LEMMA QueuesStay ==
    ASSUME QueueOK, CriticalFlag, critical \in BOOLEAN, UNCHANGED <<queue, critical, made>>
    PROVE  QueueOK' /\ CriticalFlag' /\ critical' \in BOOLEAN
BY DEF QueueOK, CriticalFlag, Placed

LEMMA FewerBlocked ==
    ASSUME CountOK, blocked' \subseteq blocked, made' = made
    PROVE  CountOK'
<1>1. IsFiniteSet(blocked') /\ Cardinality(blocked') <= Cardinality(blocked)
      /\ Cardinality(blocked') \in Nat /\ Cardinality(blocked) \in Nat
  BY FS_Subset, FS_CardinalityType DEF CountOK
<1>2. MaxEvents \in Nat
  BY ConstantsAssumption DEF ConstantsAssumption
<1> QED BY <1>1, <1>2 DEF CountOK

LEMMA PublishCounts ==
    ASSUME BusInv, NEW kind \in Kinds, NEW owner \in Dispatchers \union {"task"}, Publish(kind, owner)
    PROVE  /\ QueueOK' /\ CriticalFlag' /\ critical' \in BOOLEAN /\ CountOK' /\ made <= made'
           /\ UNCHANGED <<mode, current, todo, age, watched, reported, watchdog, stopped, waited>>
           /\ \/ UNCHANGED <<queue, critical, fate>>
              \/ \E e \in Events : e.n = made + 1 /\ Accept(e)
<1> DEFINE e == [kind |-> kind, n |-> made + 1]
<1>0. /\ MaxEvents \in Nat /\ made \in Nat /\ IsFiniteSet(blocked) /\ Cardinality(blocked) \in Nat
      /\ made + Cardinality(blocked) < MaxEvents
  BY ConstantsAssumption, FS_CardinalityType DEF ConstantsAssumption, BusInv, CountOK, Publish
<1>1. UNCHANGED <<mode, current, todo, age, watched, reported, watchdog, stopped, waited>>
  BY DEF Publish
<1>2. CASE made' = made + 1 /\ Accept(e) /\ blocked' = blocked
  <2>1. made + 1 \in Serial /\ made' \in Nat /\ made <= made' /\ made' + Cardinality(blocked) <= MaxEvents
    BY <1>0, <1>2 DEF Serial
  <2>2. e \in Events /\ e.n = made + 1 /\ e.n <= made'
    BY <1>0, <1>2, <2>1, Levelled
  <2>3. queue' = Appended(e) /\ critical' = (critical \/ Level(e) = "CRITICAL")
    BY <1>2 DEF Accept
  <2> HIDE DEF e
  <2>4. QueueOK' /\ CriticalFlag' /\ critical' \in BOOLEAN
    BY <1>0, <2>1, <2>2, <2>3, AppendedOK DEF BusInv
  <2>5. CountOK'
    BY <1>2, <2>1 DEF BusInv, CountOK
  <2> QED BY <1>1, <1>2, <2>1, <2>2, <2>4, <2>5
<1>3. CASE blocked' = blocked \union {[kind |-> kind, owner |-> owner]} /\ UNCHANGED <<queue, critical, made, fate>>
  <2>1. IsFiniteSet(blocked') /\ Cardinality(blocked') \in Nat /\ Cardinality(blocked') <= Cardinality(blocked) + 1
    <3>1. IsFiniteSet(blocked \union {[kind |-> kind, owner |-> owner]})
          /\ (Cardinality(blocked \union {[kind |-> kind, owner |-> owner]}) = Cardinality(blocked)
              \/ Cardinality(blocked \union {[kind |-> kind, owner |-> owner]}) = Cardinality(blocked) + 1)
      BY <1>0, FS_AddElement
    <3> QED BY <1>0, <1>3, <3>1
  <2>2. CountOK'
    BY <1>0, <1>3, <2>1 DEF BusInv, CountOK
  <2>3. made <= made'
    BY <1>0, <1>3
  <2> QED BY <1>1, <1>3, <2>2, <2>3, QueuesStay DEF BusInv
<1> QED BY <1>2, <1>3 DEF Publish

LEMMA ResumeCounts ==
    ASSUME BusInv, NEW b \in blocked, PublishResumes(b)
    PROVE  /\ QueueOK' /\ CriticalFlag' /\ critical' \in BOOLEAN /\ CountOK' /\ made <= made'
           /\ UNCHANGED <<mode, current, todo, age, watched, reported, watchdog, stopped, waited>>
           /\ \E e \in Events : e.n = made + 1 /\ Accept(e)
<1> DEFINE e == [kind |-> b.kind, n |-> made + 1]
<1>0. /\ MaxEvents \in Nat /\ made \in Nat /\ IsFiniteSet(blocked) /\ Cardinality(blocked) \in Nat
      /\ made + Cardinality(blocked) <= MaxEvents /\ b.kind \in Kinds
  BY ConstantsAssumption, FS_CardinalityType DEF ConstantsAssumption, BusInv, CountOK
<1>1. /\ UNCHANGED <<mode, current, todo, age, watched, reported, watchdog, stopped, waited>>
      /\ blocked' = blocked \ {b} /\ made' = made + 1 /\ Accept(e)
  BY DEF PublishResumes
<1>2. IsFiniteSet(blocked') /\ Cardinality(blocked') = Cardinality(blocked) - 1 /\ Cardinality(blocked') \in Nat
  <2>1. IsFiniteSet(blocked \ {b}) /\ Cardinality(blocked \ {b}) = Cardinality(blocked) - 1
    BY <1>0, FS_RemoveElement
  <2> QED BY <1>1, <2>1, FS_CardinalityType
<1>3. made + 1 \in Serial /\ made' \in Nat /\ made <= made' /\ made' + Cardinality(blocked') <= MaxEvents
  BY <1>0, <1>1, <1>2 DEF Serial
<1>4. e \in Events /\ e.n = made + 1 /\ e.n <= made'
  BY <1>0, <1>1, <1>3, Levelled
<1>5. queue' = Appended(e) /\ critical' = (critical \/ Level(e) = "CRITICAL")
  BY <1>1 DEF Accept
<1> HIDE DEF e
<1>6. QueueOK' /\ CriticalFlag' /\ critical' \in BOOLEAN
  BY <1>0, <1>3, <1>4, <1>5, AppendedOK DEF BusInv
<1>7. CountOK'
  BY <1>1, <1>2, <1>3 DEF BusInv, CountOK
<1> QED BY <1>1, <1>3, <1>4, <1>6, <1>7

LEMMA PopOK ==
    ASSUME BusInv, NEW l \in Levels, NextLevel(l), queue' = [queue EXCEPT ![l] = Tail(queue[l])],
           critical' = StillCritical(queue'), made' = made
    PROVE  /\ QueueOK' /\ CriticalFlag' /\ critical' \in BOOLEAN
           /\ queue[l] # <<>> /\ Head(queue[l]) \in Placed(l, made)
           /\ l # "CRITICAL" => ~critical
<1>0. queue \in [Levels -> Seq(Events)] /\ (\A k \in Levels : queue[k] \in Seq(Placed(k, made))) /\ critical \in BOOLEAN
      /\ (critical <=> queue["CRITICAL"] # <<>>)
  BY DEF BusInv, QueueOK, CriticalFlag
<1>1. queue[l] # <<>> /\ (l # "CRITICAL" => queue["CRITICAL"] = <<>>)
  <2>1. "CRITICAL" \in Levels /\ (l # "CRITICAL" => Rank[l] \in {1, 2, 3}) /\ Rank["CRITICAL"] = 0
    BY DEF Levels, Rank
  <2>2. l # "CRITICAL" => ~(Rank[l] <= Rank["CRITICAL"])
    BY <2>1
  <2> QED BY <2>1, <2>2 DEF NextLevel, Waiting
<1>2. Tail(queue[l]) \in Seq(Placed(l, made)) /\ Tail(queue[l]) \in Seq(Events) /\ Head(queue[l]) \in Placed(l, made)
  BY <1>0, <1>1
<1>3. QueueOK'
  BY <1>0, <1>2 DEF QueueOK, Placed
<1>4. "CRITICAL" \in Levels /\ queue'["CRITICAL"] = IF l = "CRITICAL" THEN Tail(queue[l]) ELSE queue["CRITICAL"]
  BY <1>0 DEF Levels
<1>5. CriticalFlag' /\ critical' \in BOOLEAN
  BY <1>0, <1>1, <1>4 DEF CriticalFlag, StillCritical
<1> QED BY <1>0, <1>1, <1>2, <1>3, <1>5

\* The interrupted event goes back to the front.
LEMMA RequeueOK ==
    ASSUME BusInv, NEW d \in Dispatchers, Lesser(d), queue' = Requeued(current[d]), UNCHANGED <<critical, made>>
    PROVE  /\ QueueOK' /\ CriticalFlag' /\ critical' \in BOOLEAN
           /\ current[d] \in Placed(Level(current[d]), made)
           /\ \A l \in Levels : queue'[l] = IF l = Level(current[d]) THEN <<current[d]>> \o queue[l] ELSE queue[l]
<1> DEFINE e == current[d]
           l == Level(e)
<1>0. queue \in [Levels -> Seq(Events)] /\ (\A k \in Levels : queue[k] \in Seq(Placed(k, made)))
  BY DEF BusInv, QueueOK
<1>1. e \in Events /\ e.n <= made /\ l \in Levels /\ l # "CRITICAL"
  BY Levelled DEF Lesser, BusInv, DispatchOK
<1>2. e \in Placed(l, made)
  BY <1>1 DEF Placed
<1>3. queue' = [queue EXCEPT ![l] = <<e>> \o queue[l]]
  BY DEF Requeued
<1> HIDE DEF e, l
<1>4. <<e>> \o queue[l] \in Seq(Placed(l, made)) /\ <<e>> \o queue[l] \in Seq(Events)
  BY <1>0, <1>1, <1>2
<1>5. \A k \in Levels : queue'[k] = IF k = l THEN <<e>> \o queue[k] ELSE queue[k]
  BY <1>0, <1>1, <1>3
<1>6. QueueOK'
  BY <1>0, <1>1, <1>3, <1>4, <1>5 DEF QueueOK, Placed
<1>7. "CRITICAL" \in Levels
  BY DEF Levels
<1>8. CriticalFlag' /\ critical' \in BOOLEAN
  BY <1>1, <1>5, <1>7 DEF BusInv, CriticalFlag
<1> QED BY <1>2, <1>5, <1>6, <1>8 DEF e, l

LEMMA WatchdogOK ==
    ASSUME BusInv, WatchdogReports
    PROVE  QueueOK' /\ CriticalFlag' /\ critical' \in BOOLEAN
<1> DEFINE e == SysEvent("watchdog")
<1>0. queue \in [Levels -> Seq(Events)] /\ (\A k \in Levels : queue[k] \in Seq(Placed(k, made))) /\ made \in Nat
  BY DEF BusInv, QueueOK, CountOK
<1>1. e \in Events /\ e.n = 0 /\ Level(e) = "CRITICAL"
  BY Levelled DEF SysLevel
<1>2. "CRITICAL" \in Levels /\ e \in Placed("CRITICAL", made)
  BY <1>0, <1>1 DEF Placed, Levels
<1>3. queue' = [queue EXCEPT !["CRITICAL"] = Append(queue["CRITICAL"], e)] /\ critical' = TRUE /\ made' = made
  BY DEF WatchdogReports
<1> HIDE DEF e
<1>4. Append(queue["CRITICAL"], e) # <<>> /\ Append(queue["CRITICAL"], e) \in Seq(Placed("CRITICAL", made))
      /\ Append(queue["CRITICAL"], e) \in Seq(Events)
  <2> DEFINE q == queue["CRITICAL"]
  <2>1. q \in Seq(Events) /\ q \in Seq(Placed("CRITICAL", made))
    BY <1>0, <1>2
  <2> HIDE DEF q
  <2>2. Append(q, e) # <<>> /\ Append(q, e) \in Seq(Placed("CRITICAL", made)) /\ Append(q, e) \in Seq(Events)
    BY <1>1, <1>2, <2>1
  <2> QED BY <2>2 DEF q
<1>5. QueueOK'
  BY <1>0, <1>2, <1>3, <1>4 DEF QueueOK, Placed
<1>6. CriticalFlag' /\ critical' \in BOOLEAN
  BY <1>0, <1>2, <1>3, <1>4 DEF CriticalFlag
<1> QED BY <1>5, <1>6

-----------------------------------------------------------------------------
(* The steps of the bus: what they do to the dispatchers. *)

LEMMA DispatchStays ==
    ASSUME DispatchOK, WatchOK, made \in Nat, made' \in Nat, made <= made',
           UNCHANGED <<mode, current, todo, age, watched, stopped>>
    PROVE  DispatchOK' /\ WatchOK'
<1>1. \A d \in Dispatchers : current[d].n \in Int
  BY Levelled DEF DispatchOK, NoEvent
<1>2. \A d \in Dispatchers : current'[d].n <= made'
  BY <1>1 DEF DispatchOK
<1>3. DispatchOK'
  BY <1>2 DEF DispatchOK, Running
<1>4. WatchOK'
  BY DEF WatchOK, Running
<1> QED BY <1>3, <1>4

\* A dispatcher that is there goes on with the handlers of rest, or is idle.
LEMMA ServeOK ==
    ASSUME DispatchOK, NEW d \in Dispatchers, mode[d] # "off", NEW e, NEW rest \in SUBSET Subscribers,
           rest # {} => e \in Events /\ e.n <= made, made \in Nat,
           Serve(d, e, rest), UNCHANGED <<stopped, made>>
    PROVE  /\ DispatchOK' /\ WatchOK'
           /\ Running(d)' => current'[d] = e /\ todo'[d] = rest /\ age'[d] = 0
           /\ \A c \in Dispatchers \ {d} : mode'[c] = mode[c] /\ current'[c] = current[c] /\ todo'[c] = todo[c] /\ age'[c] = age[c]
<1>0. Timeout \in Nat
  BY ConstantsAssumption DEF ConstantsAssumption
<1>1. /\ current' = [current EXCEPT ![d] = IF rest = {} THEN NoEvent ELSE e]
      /\ todo' = [todo EXCEPT ![d] = rest] /\ age' = [age EXCEPT ![d] = 0]
      /\ mode' = [mode EXCEPT ![d] = IF rest = {} THEN "idle" ELSE "running"]
      /\ watched' = IF rest = {} THEN NoTime ELSE 0
  BY DEF Serve
<1>2. /\ mode' \in [Dispatchers -> {"off", "idle", "running", "over", "dead"}]
      /\ current' \in [Dispatchers -> Events \union {NoEvent}]
      /\ todo' \in [Dispatchers -> SUBSET Subscribers]
      /\ age' \in [Dispatchers -> 0 .. Timeout]
      /\ mode'[d] = (IF rest = {} THEN "idle" ELSE "running") /\ current'[d] = (IF rest = {} THEN NoEvent ELSE e)
      /\ todo'[d] = rest /\ age'[d] = 0
      /\ \A c \in Dispatchers \ {d} : mode'[c] = mode[c] /\ current'[c] = current[c] /\ todo'[c] = todo[c] /\ age'[c] = age[c]
  BY <1>0, <1>1 DEF DispatchOK
<1>3. NoEvent.n = 0 /\ 0 <= made
  BY DEF NoEvent
<1>4. ASSUME NEW c \in Dispatchers
      PROVE  /\ mode'[c] \in {"off", "idle", "over"} => current'[c] = NoEvent
             /\ Running(c)' => todo'[c] # {} /\ current'[c] \in Events
             /\ current'[c].n <= made
  <2>1. CASE c = d
    BY <1>2, <1>3, <2>1 DEF Running
  <2>2. CASE c # d
    BY <1>2, <2>2 DEF DispatchOK, Running
  <2> QED BY <2>1, <2>2
<1>5. ~stopped' => mode'["stop"] = "off"
  BY <1>2 DEF DispatchOK, Dispatchers
<1>6. DispatchOK'
  BY <1>2, <1>4, <1>5 DEF DispatchOK
<1>7. WatchOK'
  BY <1>1, <1>2 DEF WatchOK, Running
<1> QED BY <1>2, <1>6, <1>7 DEF Running

-----------------------------------------------------------------------------
(* The steps of the bus: how long a CRITICAL event has waited. *)

LEMMA LimitsAreNumbers ==
    /\ FastPath \in Nat \ {0} /\ Timeout \in Nat /\ FastPath < Timeout
    /\ Cardinality(Subscribers) \in Nat /\ Patience \in Nat
<1>1. Cardinality(Subscribers) \in Nat
  BY FS_CardinalityType, ConstantsAssumption DEF ConstantsAssumption
<1>2. FastPath \in Nat \ {0} /\ Timeout \in Nat /\ Stall \in Nat /\ Stall > FastPath /\ Timeout > Stall
  BY ConstantsAssumption DEF ConstantsAssumption
<1> QED BY <1>1, <1>2 DEF Patience

\* What the handlers of an event may take is within the patience of the bus.
LEMMA FreshWait ==
    ASSUME NEW S \in SUBSET Subscribers
    PROVE  FastPath * Cardinality(S) <= Patience /\ FastPath * Cardinality(S) \in Nat
<1>1. Cardinality(S) \in Nat /\ Cardinality(S) <= Cardinality(Subscribers) /\ Cardinality(Subscribers) \in Nat
  BY NotMore
<1>2. \A f, a, b \in Nat : a <= b => f * a <= f * b /\ f * a \in Nat
  OBVIOUS
<1> QED BY <1>1, <1>2, LimitsAreNumbers DEF Patience

LEMMA SpentIs ==
    ASSUME NEW d \in Dispatchers, age[d] \in Nat
    PROVE  Spent(d) \in Nat /\ Spent(d) <= FastPath /\ Spent(d) <= age[d]
BY LimitsAreNumbers DEF Spent

\* A CRITICAL event that has just come, or that comes next, has not waited.
LEMMA WaitBegins ==
    ASSUME DispatchOK', waited' = 0, critical' \in BOOLEAN
    PROVE  WaitOK'
<1>1. ASSUME NEW d \in Dispatchers
      PROVE  waited' + FastPath * Cardinality(todo'[d]) <= Patience + Spent(d)'
  <2>1. todo'[d] \in SUBSET Subscribers /\ age'[d] \in Nat
    BY LimitsAreNumbers DEF DispatchOK
  <2>2. FastPath * Cardinality(todo'[d]) <= Patience /\ FastPath * Cardinality(todo'[d]) \in Nat
    BY <2>1, FreshWait
  <2>3. Spent(d)' \in Nat
    BY <2>1, LimitsAreNumbers DEF Spent
  <2> QED BY <2>2, <2>3, LimitsAreNumbers
<1>2. waited' \in Nat /\ waited' <= Patience
  BY LimitsAreNumbers
<1> QED BY <1>1, <1>2 DEF WaitOK

\* Nothing is published, or a CRITICAL event comes.
LEMMA WaitStays ==
    ASSUME BusInv, DispatchOK', critical' \in BOOLEAN, critical => critical',
           UNCHANGED <<mode, current, todo, age, waited>>
    PROVE  WaitOK'
<1>1. CASE critical
  BY <1>1 DEF BusInv, WaitOK, Lesser, Running, Spent
<1>2. CASE ~critical
  <2>1. waited' = 0
    BY <1>2 DEF BusInv, WaitOK
  <2> QED BY <2>1, WaitBegins
<1> QED BY <1>1, <1>2

\* One dispatcher ends a handler or stops, and a CRITICAL event that waits still waits.
LEMMA WaitGoesOn ==
    ASSUME BusInv, DispatchOK', NEW d \in Dispatchers, UNCHANGED <<critical, waited>>,
           \A c \in Dispatchers \ {d} : mode'[c] = mode[c] /\ current'[c] = current[c] /\ todo'[c] = todo[c] /\ age'[c] = age[c],
           Running(d)' => Running(d) /\ current'[d] = current[d] /\ todo'[d] = Others(d)
    PROVE  WaitOK'
<1>0. WaitOK /\ DispatchOK /\ critical \in BOOLEAN
  BY DEF BusInv
<1>1. ASSUME NEW c \in Dispatchers, critical', Lesser(c)'
      PROVE  waited' + FastPath * Cardinality(todo'[c]) <= Patience + Spent(c)'
  <2>1. CASE c # d
    <3>1. Lesser(c) /\ Spent(c)' = Spent(c) /\ todo'[c] = todo[c]
      BY <1>1, <2>1 DEF Lesser, Running, Spent
    <3> QED BY <1>0, <1>1, <3>1 DEF WaitOK
  <2>2. CASE c = d
    <3>1. Lesser(d) /\ todo'[d] = Others(d) /\ todo[d] \subseteq Subscribers /\ todo[d] # {}
      BY <1>0, <1>1, <2>2 DEF Lesser, Running, DispatchOK
    <3> DEFINE n == Cardinality(todo[d])
               m == Cardinality(Others(d))
    <3>2. n \in Nat /\ m = n - 1
      BY <3>1, OneLess
    <3>3. age[d] \in Nat /\ age'[d] \in Nat
      BY LimitsAreNumbers DEF BusInv, DispatchOK
    <3>4. Spent(d) \in Nat /\ Spent(d) <= FastPath
      BY <3>3, SpentIs
    <3>5. Spent(d)' \in Nat
      BY <3>3, LimitsAreNumbers DEF Spent
    <3>6. waited + FastPath * n <= Patience + Spent(d) /\ waited \in Nat
      BY <1>0, <1>1, <3>1 DEF WaitOK
    <3> HIDE DEF n, m
    <3>7. FastPath * m = FastPath * n - FastPath
      BY <3>2, LimitsAreNumbers
    <3>8. FastPath * n \in Nat
      BY <3>2, LimitsAreNumbers
    <3> DEFINE x == FastPath * n
    <3>9. FastPath * m = x - FastPath /\ x \in Nat /\ waited + x <= Patience + Spent(d)
      BY <3>6, <3>7, <3>8
    <3> HIDE DEF x
    <3>10. waited + FastPath * m <= Patience + Spent(d)'
      BY <3>4, <3>5, <3>6, <3>9, LimitsAreNumbers
    <3> QED BY <2>2, <3>1, <3>10 DEF m
  <2> QED BY <2>1, <2>2
<1> QED BY <1>0, <1>1 DEF WaitOK

\* Time passes only while no handler is past the fast path before a CRITICAL event.
LEMMA TickOK ==
    ASSUME BusInv, Tick
    PROVE  DispatchOK' /\ WatchOK' /\ WaitOK'
<1>0. /\ UNCHANGED <<queue, critical, blocked, mode, current, todo, stopped, made>>
      /\ age' = [d \in Dispatchers |-> IF Running(d) THEN age[d] + 1 ELSE age[d]]
      /\ watched' = IF watched = NoTime THEN NoTime ELSE watched + 1
      /\ waited' = IF critical /\ \E d \in Dispatchers : Lesser(d) THEN waited + 1 ELSE waited
  BY DEF Tick
<1>1. DispatchOK /\ WatchOK /\ WaitOK /\ critical \in BOOLEAN /\ age \in [Dispatchers -> 0 .. Timeout]
  BY DEF BusInv, DispatchOK
<1>2. ASSUME NEW d \in Dispatchers, Running(d)
      PROVE  age[d] < Timeout /\ (critical /\ Lesser(d) => age[d] < FastPath)
  <2>1. ~Interruptible(d) /\ ~(age[d] >= Timeout)
    BY <1>2 DEF Tick, Due
  <2>2. age[d] \in Nat
    BY <1>1, LimitsAreNumbers
  <2>3. critical /\ Lesser(d) => ~(age[d] >= FastPath)
    BY <2>1 DEF Interruptible
  <2>4. age[d] < Timeout
    BY <2>1, <2>2, LimitsAreNumbers
  <2>5. ~(age[d] >= FastPath) => age[d] < FastPath
    BY <2>2, LimitsAreNumbers
  <2> QED BY <2>3, <2>4, <2>5
<1>3. age' \in [Dispatchers -> 0 .. Timeout]
  <2>1. ASSUME NEW d \in Dispatchers PROVE (IF Running(d) THEN age[d] + 1 ELSE age[d]) \in 0 .. Timeout
    <3>1. CASE Running(d)
      <4>1. age[d] < Timeout /\ age[d] \in 0 .. Timeout
        BY <1>1, <1>2, <3>1
      <4>2. age[d] + 1 \in 0 .. Timeout
        BY <4>1, LimitsAreNumbers
      <4> QED BY <3>1, <4>2
    <3>2. CASE ~Running(d)
      BY <1>1, <3>2
    <3> QED BY <3>1, <3>2
  <2> QED BY <1>0, <2>1
<1>4. DispatchOK'
  BY <1>0, <1>1, <1>3 DEF DispatchOK, Running
<1>5. WatchOK'
  <2>1. CASE watched = NoTime
    BY <1>0, <1>1, <2>1 DEF WatchOK
  <2>2. CASE watched # NoTime
    <3>1. PICK d \in Dispatchers : Running(d) /\ age[d] = watched
      BY <1>1, <2>2 DEF WatchOK
    <3>2. watched \in Nat /\ watched' = watched + 1
      BY <1>0, <1>1, <2>2 DEF WatchOK
    <3>3. Running(d)' /\ age'[d] = watched'
      BY <1>0, <3>1, <3>2 DEF Running
    <3>4. watched' \in Nat
      BY <3>2
    <3> QED BY <3>3, <3>4 DEF WatchOK
  <2> QED BY <2>1, <2>2
<1>6. WaitOK'
  <2>1. CASE critical /\ \E d \in Dispatchers : Lesser(d)
    <3>1. waited' = waited + 1 /\ waited \in Nat /\ waited' \in Nat
      BY <1>0, <1>1, <2>1 DEF WaitOK
    <3>2. ASSUME NEW d \in Dispatchers, Lesser(d)
          PROVE  waited' + FastPath * Cardinality(todo[d]) <= Patience + Spent(d)' /\ waited' <= Patience
      <4> DEFINE n == Cardinality(todo[d])
                 x == FastPath * n
      <4>1. age[d] \in Nat /\ age[d] < FastPath /\ age'[d] = age[d] + 1
        BY <1>0, <1>1, <1>2, <2>1, <3>2, LimitsAreNumbers DEF Lesser
      <4>2. Spent(d) = age[d] /\ Spent(d)' = age[d] + 1 /\ age[d] + 1 <= FastPath
        BY <4>1, LimitsAreNumbers DEF Spent
      <4>3. todo[d] \subseteq Subscribers /\ todo[d] # {}
        BY <1>1, <3>2 DEF DispatchOK, Lesser
      <4>4. n \in Nat /\ n # 0
        <5>1. IsFiniteSet(todo[d])
          BY <4>3, FS_Subset, ConstantsAssumption DEF ConstantsAssumption
        <5> QED BY <4>3, <5>1, FS_CardinalityType, FS_EmptySet
      <4>5. waited + x <= Patience + Spent(d)
        BY <1>1, <2>1, <3>2 DEF WaitOK
      <4> HIDE DEF n
      <4>6. x \in Nat /\ FastPath <= x
        <5>1. \A f, k \in Nat : k # 0 => f * k \in Nat /\ f <= f * k
          OBVIOUS
        <5> QED BY <4>4, <5>1, LimitsAreNumbers
      <4> HIDE DEF x
      <4>7. waited' + x <= Patience + Spent(d)' /\ waited' <= Patience
        BY <3>1, <4>1, <4>2, <4>5, <4>6, LimitsAreNumbers
      <4> QED BY <4>7 DEF x, n
    <3>3. waited' <= Patience
      BY <2>1, <3>2
    <3> QED BY <1>0, <2>1, <3>1, <3>2, <3>3 DEF WaitOK, Lesser, Running
  <2>2. CASE ~(critical /\ \E d \in Dispatchers : Lesser(d))
    <3>1. waited' = waited
      BY <1>0, <2>2
    <3>2. ~(critical' /\ \E d \in Dispatchers : Lesser(d)')
      BY <1>0, <2>2 DEF Lesser, Running
    <3> QED BY <1>0, <1>1, <3>1, <3>2 DEF WaitOK
  <2> QED BY <2>1, <2>2
<1> QED BY <1>4, <1>5, <1>6

-----------------------------------------------------------------------------
(* The steps of the bus: the order of the queues, before stop(). *)

LEMMA SortedStays ==
    ASSUME SortedOK, queue' = queue, NEW d \in Dispatchers,
           \A c \in Dispatchers \ {d} : mode'[c] = mode[c] /\ current'[c] = current[c],
           Running(d)' => Running(d) /\ current'[d] = current[d]
    PROVE  SortedOK'
<1>1. \A c \in Dispatchers : Running(c)' => Running(c) /\ current'[c] = current[c]
  BY DEF Running
<1> QED BY <1>1 DEF SortedOK, Sorted, After

\* An event that is published comes after all there are.
LEMMA SortedAppended ==
    ASSUME BusInv, SortedOK, NEW e \in Events, e.n = 0 \/ e.n = made + 1,
           queue' = Appended(e) \/ (Level(e) = "CRITICAL" /\ queue' = [queue EXCEPT !["CRITICAL"] = Append(queue["CRITICAL"], e)]),
           \A c \in Dispatchers : Running(c)' => Running(c) /\ current'[c] = current[c]
    PROVE  SortedOK'
<1>0. /\ queue \in [Levels -> Seq(Events)] /\ (\A l \in Levels : queue[l] \in Seq(Placed(l, made)))
      /\ made \in Nat /\ Level(e) \in Levels /\ SysEvent("overflow") \in Events /\ SysEvent("overflow").n = 0
      /\ "CRITICAL" \in Levels
  BY Levelled DEF BusInv, QueueOK, CountOK, Levels
<1>1. e.n # 0 => \A l \in Levels : \A i \in DOMAIN queue[l] : queue[l][i].n < e.n
  <2> SUFFICES ASSUME e.n # 0, NEW l \in Levels, NEW i \in DOMAIN queue[l] PROVE queue[l][i].n < e.n
    OBVIOUS
  <2>1. queue[l][i] \in Placed(l, made)
    BY <1>0
  <2>2. queue[l][i].n \in Nat /\ queue[l][i].n <= made /\ e.n = made + 1
    BY <2>1, Levelled DEF Placed
  <2> QED BY <1>0, <2>2
<1>s. \A l \in Levels : Sorted(queue[l])
  BY DEF SortedOK
<1>2. \A l \in Levels : Sorted(queue'[l])
  <2>1. CASE queue' = Appended(e)
    <3> DEFINE S == [l \in Levels |-> Events]
    <3>1. S \in [Levels -> SUBSET Events] /\ (\A l \in Levels : queue[l] \in Seq(S[l])) /\ e \in S[Level(e)]
          /\ SysEvent("overflow") \in S["NORMAL"]
      BY <1>0 DEF Levels
    <3> HIDE DEF S
    <3>2. \A l \in Levels : Sorted(Appended(e)[l])
      BY <1>0, <1>1, <1>s, <3>1, AppendedIs
    <3> QED BY <2>1, <3>2
  <2>2. CASE Level(e) = "CRITICAL" /\ queue' = [queue EXCEPT !["CRITICAL"] = Append(queue["CRITICAL"], e)]
    <3> DEFINE q == queue["CRITICAL"]
    <3>1. q \in Seq(Events) /\ Sorted(q) /\ (e.n # 0 => \A i \in DOMAIN q : q[i].n < e.n)
      BY <1>0, <1>1, <1>s
    <3> HIDE DEF q
    <3>2. Sorted(Append(q, e))
      BY <3>1, SortedAppend
    <3>3. \A l \in Levels : queue'[l] = IF l = "CRITICAL" THEN Append(q, e) ELSE queue[l]
      BY <1>0, <2>2 DEF q
    <3> QED BY <1>s, <3>2, <3>3
  <2> QED BY <2>1, <2>2
<1>3. ASSUME NEW c \in Dispatchers, Running(c)'
      PROVE  queue'[Level(current'[c])] \in Seq(After(current'[c].n))
  <2> DEFINE l == Level(current[c])
             n == current[c].n
             S == [k \in Levels |-> IF k = l THEN After(n) ELSE Events]
  <2>1. Running(c) /\ current'[c] = current[c] /\ current[c] \in Events /\ n <= made
    BY <1>3 DEF BusInv, DispatchOK
  <2>2. l \in Levels /\ n \in Nat /\ queue[l] \in Seq(After(n)) /\ After(n) \subseteq Events
    BY <2>1, Levelled DEF SortedOK, After
  <2>3. e \in After(n) /\ SysEvent("overflow") \in After(n)
    BY <1>0, <2>1, <2>2 DEF After
  <2> HIDE DEF l, n
  <2>4. S \in [Levels -> SUBSET Events] /\ (\A k \in Levels : queue[k] \in Seq(S[k])) /\ e \in S[Level(e)]
        /\ SysEvent("overflow") \in S["NORMAL"] /\ S[l] = After(n)
    BY <1>0, <2>2, <2>3 DEF Levels
  <2>5. CASE queue' = Appended(e)
    <3> HIDE DEF S
    <3>1. \A k \in Levels : Appended(e)[k] \in Seq(S[k])
      BY <1>0, <2>4, AppendedIs
    <3>2. queue'[l] \in Seq(After(n))
      BY <2>2, <2>4, <2>5, <3>1
    <3> QED BY <2>1, <3>2 DEF l, n
  <2>6. CASE queue' = [queue EXCEPT !["CRITICAL"] = Append(queue["CRITICAL"], e)]
    <3>1. queue'[l] = IF l = "CRITICAL" THEN Append(queue[l], e) ELSE queue[l]
      BY <1>0, <2>2, <2>6
    <3>2. Append(queue[l], e) \in Seq(After(n))
      BY <2>2, <2>3
    <3>3. queue'[l] \in Seq(After(n))
      BY <2>2, <3>1, <3>2
    <3> QED BY <2>1, <3>3 DEF l, n
  <2> QED BY <2>5, <2>6
<1> QED BY <1>2, <1>3 DEF SortedOK

LEMMA SortedPop ==
    ASSUME BusInv, SortedOK, NEW d \in Dispatchers, NEW l \in Levels, queue[l] # <<>>,
           Head(queue[l]) \in Placed(l, made), queue' = [queue EXCEPT ![l] = Tail(queue[l])],
           \A c \in Dispatchers \ {d} : ~Running(c)',
           Running(d)' => current'[d] = Head(queue[l])
    PROVE  SortedOK'
<1> DEFINE q == queue[l]
<1>1. q \in Seq(Events) /\ q # <<>> /\ Sorted(q) /\ Level(Head(q)) = l
  BY DEF BusInv, QueueOK, SortedOK, Placed
<1>2. \A k \in Levels : queue'[k] = IF k = l THEN Tail(q) ELSE queue[k]
  BY DEF BusInv, QueueOK
<1> HIDE DEF q
<1>3. /\ Tail(q) \in Seq(Events) /\ Sorted(Tail(q))
      /\ \A i \in DOMAIN Tail(q) : Tail(q)[i].n # 0 => Head(q).n < Tail(q)[i].n
  BY <1>1, SortedTail
<1>4. Tail(q) \in Seq(After(Head(q).n))
  <2> DEFINE t == Tail(q)
             n == Head(q).n
  <2>1. t \in Seq(Events) /\ \A i \in DOMAIN t : t[i].n # 0 => n < t[i].n
    BY <1>3
  <2> HIDE DEF t, n
  <2>2. \A i \in DOMAIN t : t[i] \in After(n)
    BY <2>1 DEF After
  <2>3. t \in Seq(After(n))
    BY <2>1, <2>2
  <2> QED BY <2>3 DEF t, n
<1>5. \A k \in Levels : Sorted(queue'[k])
  BY <1>2, <1>3 DEF SortedOK
<1>6. Running(d)' => queue'[Level(current'[d])] \in Seq(After(current'[d].n))
  BY <1>1, <1>2, <1>4 DEF q
<1> QED BY <1>5, <1>6 DEF SortedOK

LEMMA SortedRequeued ==
    ASSUME BusInv, SortedOK, NEW d \in Dispatchers, Running(d),
           \A l \in Levels : queue'[l] = IF l = Level(current[d]) THEN <<current[d]>> \o queue[l] ELSE queue[l],
           \A c \in Dispatchers : ~Running(c)'
    PROVE  SortedOK'
<1> DEFINE e == current[d]
           q == queue[Level(e)]
<1>1. e \in Events /\ Level(e) \in Levels
  BY Levelled DEF BusInv, DispatchOK
<1>2. q \in Seq(Events) /\ Sorted(q) /\ q \in Seq(After(e.n))
  BY <1>1 DEF BusInv, QueueOK, SortedOK
<1> HIDE DEF e, q
<1>3. \A i \in DOMAIN q : q[i].n # 0 => e.n < q[i].n
  <2>1. \A i \in DOMAIN q : q[i] \in After(e.n)
    BY <1>2
  <2> QED BY <2>1 DEF After
<1>4. Sorted(<<e>> \o q)
  BY <1>1, <1>2, <1>3, SortedCons
<1> QED BY <1>1, <1>4 DEF SortedOK, e, q

-----------------------------------------------------------------------------
(* The invariant holds. *)

LEMMA BusInit == Init => BusInv
<1> SUFFICES ASSUME Init PROVE BusInv
  OBVIOUS
<1>0. /\ queue = [l \in Levels |-> <<>>] /\ critical = FALSE /\ blocked = {} /\ made = 0 /\ stopped = FALSE
      /\ mode = [d \in Dispatchers |-> IF d = "run" THEN "idle" ELSE "off"]
      /\ current = [d \in Dispatchers |-> NoEvent] /\ todo = [d \in Dispatchers |-> {}]
      /\ age = [d \in Dispatchers |-> 0] /\ watched = NoTime /\ waited = 0
  BY DEF Init
<1>1. QueueOK
  BY <1>0 DEF QueueOK
<1>2. CountOK
  <2>1. MaxEvents \in Nat /\ IsFiniteSet({}) /\ Cardinality({}) = 0
    BY FS_EmptySet, ConstantsAssumption DEF ConstantsAssumption
  <2> QED BY <1>0, <2>1 DEF CountOK
<1>3. DispatchOK
  <2>1. NoEvent.n = 0 /\ "stop" \in Dispatchers /\ 0 \in 0 .. Timeout
    BY LimitsAreNumbers DEF NoEvent, Dispatchers
  <2>2. \A d \in Dispatchers : mode[d] \in {"idle", "off"} /\ current[d] = NoEvent /\ ~Running(d) /\ current[d].n <= made
    BY <1>0, <2>1 DEF Running
  <2>3. current \in [Dispatchers -> Events \union {NoEvent}] /\ todo \in [Dispatchers -> SUBSET Subscribers]
        /\ age \in [Dispatchers -> 0 .. Timeout] /\ mode["stop"] = "off"
        /\ mode \in [Dispatchers -> {"off", "idle", "running", "over", "dead"}]
    BY <1>0, <2>1
  <2> QED BY <1>0, <2>2, <2>3 DEF DispatchOK
<1>4. WatchOK /\ CriticalFlag /\ critical \in BOOLEAN
  BY <1>0 DEF WatchOK, CriticalFlag, Levels
<1>5. WaitOK
  BY <1>0, LimitsAreNumbers DEF WaitOK
<1>6. SortedOK
  BY <1>0 DEF SortedOK, Sorted, Running
<1> QED BY <1>1, <1>2, <1>3, <1>4, <1>5, <1>6 DEF BusInv

\* Before stop() the only dispatcher is run().
LEMMA OneDispatcher ==
    ASSUME BusInv, NEW d \in Dispatchers, ~stopped, mode[d] # "off"
    PROVE  d = "run" /\ \A c \in Dispatchers \ {d} : mode[c] = "off"
BY DEF BusInv, DispatchOK, Dispatchers

LEMMA PublishKeepsInv ==
    ASSUME BusInv, QueueOK', CriticalFlag', critical' \in BOOLEAN, CountOK', made <= made',
           UNCHANGED <<mode, current, todo, age, watched, reported, watchdog, stopped, waited>>,
           UNCHANGED <<queue, critical, fate>> \/ \E e \in Events : e.n = made + 1 /\ Accept(e)
    PROVE  BusInv'
<1>1. DispatchOK' /\ WatchOK'
  BY DispatchStays DEF BusInv, CountOK
<1>2. critical => critical'
  BY DEF Accept
<1>3. WaitOK'
  BY <1>1, <1>2, WaitStays
<1>4. ASSUME ~stopped PROVE SortedOK'
  <2>1. \A c \in Dispatchers : Running(c)' => Running(c) /\ current'[c] = current[c]
    BY DEF Running
  <2>2. SortedOK
    BY <1>4 DEF BusInv
  <2>3. CASE UNCHANGED <<queue, critical, fate>>
    BY <2>2, <2>3 DEF SortedOK, Running, Sorted, After
  <2>4. CASE \E e \in Events : e.n = made + 1 /\ Accept(e)
    BY <2>1, <2>2, <2>4, SortedAppended DEF Accept
  <2> QED BY <2>3, <2>4
<1> QED BY <1>1, <1>3, <1>4 DEF BusInv

LEMMA PopKeepsInv ==
    ASSUME BusInv, NEW d \in Dispatchers, Pop(d)
    PROVE  BusInv'
<1>0. PICK l \in Levels :
         /\ NextLevel(l) /\ queue' = [queue EXCEPT ![l] = Tail(queue[l])]
         /\ critical' = StillCritical(queue')
         /\ \/ UNCHANGED <<mode, current, todo, age, watched, reported>>
            \/ Serve(d, Head(queue[l]), SubscribersOf(Head(queue[l])))
         /\ waited' = IF l = "CRITICAL" THEN 0 ELSE waited
  BY DEF Pop
<1>1. mode[d] = "idle" /\ UNCHANGED <<blocked, watchdog, stopped, made>>
  BY DEF Pop
<1>2. /\ QueueOK' /\ CriticalFlag' /\ critical' \in BOOLEAN
      /\ queue[l] # <<>> /\ Head(queue[l]) \in Placed(l, made)
      /\ l # "CRITICAL" => ~critical
  BY <1>0, <1>1, PopOK
<1>3. CountOK'
  BY <1>1, FewerBlocked DEF BusInv
<1>4. made \in Nat /\ DispatchOK /\ WatchOK /\ WaitOK
  BY DEF BusInv, CountOK
<1>5. SubscribersOf(Head(queue[l])) \subseteq Subscribers /\ Head(queue[l]) \in Events /\ Head(queue[l]).n <= made
  BY <1>2 DEF SubscribersOf, Placed
<1>6. /\ DispatchOK' /\ WatchOK'
      /\ Running(d)' => current'[d] = Head(queue[l])
      /\ \A c \in Dispatchers \ {d} : mode'[c] = mode[c]
  <2>1. CASE UNCHANGED <<mode, current, todo, age, watched, reported>>
    <3>1. DispatchOK' /\ WatchOK'
      BY <1>1, <1>4, <2>1, DispatchStays
    <3> QED BY <1>1, <2>1, <3>1 DEF Running
  <2>2. CASE Serve(d, Head(queue[l]), SubscribersOf(Head(queue[l])))
    <3> DEFINE e == Head(queue[l])
               rest == SubscribersOf(e)
    <3>1. Serve(d, e, rest) /\ e \in Events /\ e.n <= made /\ rest \in SUBSET Subscribers /\ mode[d] # "off"
      BY <1>1, <1>5, <2>2
    <3> HIDE DEF e, rest
    <3>2. /\ DispatchOK' /\ WatchOK' /\ (Running(d)' => current'[d] = e)
          /\ \A c \in Dispatchers \ {d} : mode'[c] = mode[c]
      BY <1>1, <1>4, <3>1, ServeOK
    <3> QED BY <3>2 DEF e
  <2> QED BY <1>0, <2>1, <2>2
<1>7. WaitOK'
  <2>1. waited' = 0
    BY <1>0, <1>2, <1>4 DEF WaitOK
  <2> QED BY <1>2, <1>6, <2>1, WaitBegins
<1>8. ASSUME ~stopped PROVE SortedOK'
  <2>1. \A c \in Dispatchers \ {d} : mode[c] = "off"
    BY <1>1, <1>8, OneDispatcher
  <2>2. \A c \in Dispatchers \ {d} : ~Running(c)'
    BY <1>6, <2>1 DEF Running
  <2>3. SortedOK
    BY <1>8 DEF BusInv
  <2> QED BY <1>0, <1>2, <1>6, <2>2, <2>3, SortedPop
<1> QED BY <1>1, <1>2, <1>3, <1>6, <1>7, <1>8 DEF BusInv

\* A handler ends, and the next one is served.
LEMMA NextHandlerKeepsInv ==
    ASSUME BusInv, NEW d \in Dispatchers, Running(d), Serve(d, current[d], Others(d)),
           QueueOK', CriticalFlag', critical' = critical, UNCHANGED <<stopped, made, waited>>, blocked' \subseteq blocked,
           queue' = queue \/ \E e \in Events : e.n = 0 /\ queue' = Appended(e)
    PROVE  BusInv'
<1>0. made \in Nat /\ DispatchOK /\ critical \in BOOLEAN
  BY DEF BusInv, CountOK
<1>1. /\ mode[d] # "off" /\ current[d] \in Events /\ current[d].n <= made /\ Others(d) \in SUBSET Subscribers
  BY <1>0 DEF Running, DispatchOK, Others
<1>2. /\ DispatchOK' /\ WatchOK'
      /\ Running(d)' => current'[d] = current[d] /\ todo'[d] = Others(d)
      /\ \A c \in Dispatchers \ {d} : mode'[c] = mode[c] /\ current'[c] = current[c] /\ todo'[c] = todo[c] /\ age'[c] = age[c]
  <2> DEFINE e == current[d]
             rest == Others(d)
  <2>1. Serve(d, e, rest) /\ e \in Events /\ e.n <= made /\ rest \in SUBSET Subscribers
    BY <1>1
  <2> HIDE DEF e, rest
  <2>2. /\ DispatchOK' /\ WatchOK'
        /\ Running(d)' => current'[d] = e /\ todo'[d] = rest
        /\ \A c \in Dispatchers \ {d} : mode'[c] = mode[c] /\ current'[c] = current[c] /\ todo'[c] = todo[c] /\ age'[c] = age[c]
    BY <1>0, <1>1, <2>1, ServeOK
  <2> QED BY <2>2 DEF e, rest
<1>3. CountOK'
  BY FewerBlocked DEF BusInv
<1>4. WaitOK'
  BY <1>2, WaitGoesOn
<1>5. ASSUME ~stopped PROVE SortedOK'
  <2>1. SortedOK
    BY <1>5 DEF BusInv
  <2>2. \A c \in Dispatchers : Running(c)' => Running(c) /\ current'[c] = current[c]
    BY <1>2 DEF Running
  <2>3. CASE queue' = queue
    BY <2>1, <2>2, <2>3 DEF SortedOK, Sorted, After
  <2>4. CASE \E e \in Events : e.n = 0 /\ queue' = Appended(e)
    BY <2>1, <2>2, <2>4, SortedAppended
  <2> QED BY <2>3, <2>4
<1> QED BY <1>0, <1>2, <1>3, <1>4, <1>5 DEF BusInv

\* A dispatcher leaves, or comes.
LEMMA ModeKeepsInv ==
    ASSUME BusInv, NEW d \in Dispatchers, ~Running(d), NEW m \in {"idle", "over"},
           current[d] = NoEvent, mode' = [mode EXCEPT ![d] = m],
           UNCHANGED <<queue, critical, blocked, current, todo, age, watched, made, waited>>,
           stopped' \in BOOLEAN, stopped'
    PROVE  BusInv'
<1>0. DispatchOK /\ mode \in [Dispatchers -> {"off", "idle", "running", "over", "dead"}]
  BY DEF BusInv, DispatchOK
<1>1. \A c \in Dispatchers : (Running(c)' <=> Running(c)) /\ mode'[c] = IF c = d THEN m ELSE mode[c]
  BY <1>0 DEF Running
<1>2. DispatchOK'
  BY <1>0, <1>1 DEF DispatchOK
<1>3. WatchOK'
  BY <1>1 DEF BusInv, WatchOK
<1>4. WaitOK'
  BY <1>1 DEF BusInv, WaitOK, Lesser, Spent
<1>5. QueueOK' /\ CriticalFlag' /\ critical' \in BOOLEAN
  BY QueuesStay DEF BusInv
<1>6. CountOK'
  BY FewerBlocked DEF BusInv
<1> QED BY <1>2, <1>3, <1>4, <1>5, <1>6 DEF BusInv

LEMMA InterruptKeepsInv ==
    ASSUME BusInv, NEW d \in Dispatchers, Interrupt(d)
    PROVE  BusInv'
<1>0. /\ Lesser(d) /\ Running(d) /\ queue' = Requeued(current[d]) /\ Serve(d, NoEvent, {}) /\ blocked' \subseteq blocked
      /\ UNCHANGED <<critical, watchdog, stopped, made, fate, waited>>
  BY DEF Interrupt, Interruptible, Lesser
<1>1. /\ QueueOK' /\ CriticalFlag' /\ critical' \in BOOLEAN
      /\ \A l \in Levels : queue'[l] = IF l = Level(current[d]) THEN <<current[d]>> \o queue[l] ELSE queue[l]
  BY <1>0, RequeueOK
<1>2. /\ DispatchOK' /\ WatchOK' /\ mode'[d] = "idle"
      /\ \A c \in Dispatchers \ {d} : mode'[c] = mode[c] /\ current'[c] = current[c] /\ todo'[c] = todo[c] /\ age'[c] = age[c]
  <2>1. made \in Nat /\ DispatchOK /\ mode[d] # "off" /\ {} \in SUBSET Subscribers
    BY <1>0 DEF BusInv, CountOK, Running
  <2>2. mode'[d] = "idle"
    BY <1>0, <2>1 DEF Serve, DispatchOK
  <2> QED BY <1>0, <2>1, <2>2, ServeOK
<1>3. ~Running(d)'
  BY <1>2 DEF Running
<1>4. WaitOK'
  BY <1>0, <1>2, <1>3, WaitGoesOn
<1>5. CountOK'
  BY <1>0, FewerBlocked DEF BusInv
<1>6. ASSUME ~stopped PROVE SortedOK'
  <2>1. \A c \in Dispatchers \ {d} : mode[c] = "off"
    BY <1>0, <1>6, OneDispatcher DEF Running
  <2>2. \A c \in Dispatchers : ~Running(c)'
    BY <1>2, <1>3, <2>1 DEF Running
  <2>3. SortedOK
    BY <1>6 DEF BusInv
  <2> QED BY <1>0, <1>1, <2>2, <2>3, SortedRequeued
<1> QED BY <1>0, <1>1, <1>2, <1>4, <1>5, <1>6 DEF BusInv

LEMMA TimeoutKeepsInv ==
    ASSUME BusInv, NEW d \in Dispatchers, HandlerTimesOut(d)
    PROVE  BusInv'
<1> DEFINE e == SysEvent("handler_timeout")
<1>0. /\ Running(d) /\ queue' = Appended(e) /\ blocked' \subseteq blocked /\ UNCHANGED <<critical, stopped, made, waited>>
  BY DEF HandlerTimesOut
<1>1. e \in Events /\ e.n = 0 /\ Level(e) = "NORMAL"
  BY Levelled DEF SysLevel
<1>2. made \in Nat /\ critical \in BOOLEAN /\ DispatchOK
  BY DEF BusInv, CountOK
<1> HIDE DEF e
<1>3. QueueOK' /\ CriticalFlag' /\ critical' \in BOOLEAN
  <2>1. critical' = (critical \/ Level(e) = "CRITICAL") /\ e.n <= made' /\ made' \in Nat /\ made <= made'
    BY <1>0, <1>1, <1>2
  <2> QED BY <1>0, <1>1, <1>2, <2>1, AppendedOK DEF BusInv
<1>4. CASE Serve(d, current[d], Others(d))
  BY <1>0, <1>1, <1>3, <1>4, NextHandlerKeepsInv
<1>5. CASE mode' = [mode EXCEPT ![d] = "dead"] /\ watched' = NoTime /\ UNCHANGED <<current, todo, age>>
  <2>1. /\ mode'[d] = "dead" /\ \A c \in Dispatchers \ {d} : mode'[c] = mode[c]
        /\ mode' \in [Dispatchers -> {"off", "idle", "running", "over", "dead"}]
    BY <1>2, <1>5 DEF DispatchOK
  <2>2. ~Running(d)' /\ \A c \in Dispatchers : Running(c)' => Running(c)
    BY <2>1 DEF Running
  <2>3. ~stopped' => mode'["stop"] = "off"
    <3>1. mode[d] # "off"
      BY <1>0 DEF Running
    <3> QED BY <1>0, <1>2, <2>1, <3>1 DEF DispatchOK, Dispatchers
  <2>4. DispatchOK'
    BY <1>0, <1>2, <1>5, <2>1, <2>2, <2>3 DEF DispatchOK
  <2>5. WatchOK'
    BY <1>5 DEF WatchOK
  <2>6. WaitOK'
    BY <1>0, <1>5, <2>1, <2>2, <2>4, WaitGoesOn
  <2>7. CountOK'
    BY <1>0, FewerBlocked DEF BusInv
  <2>8. ASSUME ~stopped PROVE SortedOK'
    <3>1. SortedOK /\ \A c \in Dispatchers : Running(c)' => Running(c) /\ current'[c] = current[c]
      BY <1>5, <2>2, <2>8 DEF BusInv
    <3> QED BY <1>0, <1>1, <3>1, SortedAppended
  <2> QED BY <1>0, <1>3, <2>4, <2>5, <2>6, <2>7, <2>8 DEF BusInv
<1> QED BY <1>4, <1>5 DEF HandlerTimesOut

LEMMA WatchdogKeepsInv ==
    ASSUME BusInv, WatchdogReports
    PROVE  BusInv'
<1> DEFINE e == SysEvent("watchdog")
<1>0. /\ UNCHANGED <<blocked, mode, current, todo, age, watched, stopped, made, fate, waited>> /\ critical' = TRUE
      /\ queue' = [queue EXCEPT !["CRITICAL"] = Append(queue["CRITICAL"], e)]
  BY DEF WatchdogReports
<1>1. QueueOK' /\ CriticalFlag' /\ critical' \in BOOLEAN
  BY WatchdogOK
<1>2. DispatchOK' /\ WatchOK' /\ CountOK'
  <2>1. made \in Nat /\ made <= made'
    BY <1>0 DEF BusInv, CountOK
  <2> QED BY <1>0, <2>1, DispatchStays, FewerBlocked DEF BusInv
<1>3. WaitOK'
  BY <1>0, <1>1, <1>2, WaitStays
<1>4. ASSUME ~stopped PROVE SortedOK'
  <2>1. e \in Events /\ e.n = 0 /\ Level(e) = "CRITICAL"
    BY Levelled DEF SysLevel
  <2>2. SortedOK /\ \A c \in Dispatchers : Running(c)' => Running(c) /\ current'[c] = current[c]
    BY <1>0, <1>4 DEF BusInv, Running
  <2> HIDE DEF e
  <2> QED BY <1>0, <2>1, <2>2, SortedAppended
<1> QED BY <1>0, <1>1, <1>2, <1>3, <1>4 DEF BusInv

LEMMA BusStep == BusInv /\ [Next]_vars => BusInv'
<1> SUFFICES ASSUME BusInv, [Next]_vars PROVE BusInv'
  OBVIOUS
<1>1. ASSUME NEW kind \in Kinds, TaskPublishes(kind) PROVE BusInv'
  <2>1. Publish(kind, "task")
    BY <1>1 DEF TaskPublishes
  <2> QED BY <2>1, PublishCounts, PublishKeepsInv
<1>2. ASSUME NEW d \in Dispatchers, NEW kind \in Kinds, HandlerPublishes(d, kind) PROVE BusInv'
  <2>1. Publish(kind, d)
    BY <1>2 DEF HandlerPublishes
  <2> QED BY <2>1, PublishCounts, PublishKeepsInv
<1>3. ASSUME NEW b \in blocked, PublishResumes(b) PROVE BusInv'
  BY <1>3, ResumeCounts, PublishKeepsInv
<1>4. ASSUME NEW d \in Dispatchers, Pop(d) PROVE BusInv'
  BY <1>4, PopKeepsInv
<1>5. ASSUME NEW d \in Dispatchers, Leave(d) PROVE BusInv'
  <2>1. /\ mode[d] = "idle" /\ ~Running(d) /\ mode' = [mode EXCEPT ![d] = "over"] /\ stopped /\ stopped' = stopped
        /\ UNCHANGED <<queue, critical, blocked, current, todo, age, watched, made, waited>>
    BY <1>5 DEF Leave, Running
  <2>2. current[d] = NoEvent /\ stopped \in BOOLEAN
    BY <2>1 DEF BusInv, DispatchOK
  <2> QED BY <2>1, <2>2, ModeKeepsInv
<1>6. ASSUME NEW d \in Dispatchers, HandlerEnds(d) PROVE BusInv'
  <2>1. /\ Running(d) /\ Serve(d, current[d], Others(d))
        /\ UNCHANGED <<queue, critical, blocked, watchdog, stopped, made, waited>>
    BY <1>6 DEF HandlerEnds
  <2>2. QueueOK' /\ CriticalFlag'
    BY <2>1, QueuesStay DEF BusInv
  <2> QED BY <2>1, <2>2, NextHandlerKeepsInv
<1>7. ASSUME NEW d \in Dispatchers, Interrupt(d) PROVE BusInv'
  BY <1>7, InterruptKeepsInv
<1>8. ASSUME NEW d \in Dispatchers, HandlerTimesOut(d) PROVE BusInv'
  BY <1>8, TimeoutKeepsInv
<1>9. CASE WatchdogReports
  BY <1>9, WatchdogKeepsInv
<1>10. CASE Stop
  <2>1. /\ ~stopped /\ stopped' = TRUE /\ mode' = [mode EXCEPT !["stop"] = "idle"] /\ "stop" \in Dispatchers
        /\ UNCHANGED <<queue, critical, blocked, current, todo, age, watched, made, waited>>
    BY <1>10 DEF Stop, Dispatchers
  <2>2. mode["stop"] = "off" /\ ~Running("stop") /\ current["stop"] = NoEvent
    BY <2>1 DEF BusInv, DispatchOK, Running
  <2> QED BY <2>1, <2>2, ModeKeepsInv
<1>11. CASE Tick
  <2>1. UNCHANGED <<queue, critical, blocked, mode, current, todo, stopped, made>>
    BY <1>11 DEF Tick
  <2>2. DispatchOK' /\ WatchOK' /\ WaitOK'
    BY <1>11, TickOK
  <2>3. QueueOK' /\ CriticalFlag' /\ critical' \in BOOLEAN /\ CountOK'
    BY <2>1, QueuesStay, FewerBlocked DEF BusInv
  <2>4. ~stopped' => SortedOK'
    BY <2>1 DEF BusInv, SortedOK, Running, Sorted, After
  <2> QED BY <2>2, <2>3, <2>4 DEF BusInv
<1>12. CASE WatchdogEnds \/ UNCHANGED vars
  <2>1. UNCHANGED <<queue, critical, blocked, mode, current, todo, age, watched, stopped, made, waited>>
    BY <1>12 DEF WatchdogEnds, vars
  <2>2. QueueOK' /\ CriticalFlag' /\ critical' \in BOOLEAN /\ CountOK'
    BY <2>1, QueuesStay, FewerBlocked DEF BusInv
  <2>3. DispatchOK' /\ WatchOK'
    BY <2>1, DispatchStays DEF BusInv, CountOK
  <2>4. WaitOK'
    BY <2>1, <2>2, <2>3, WaitStays
  <2>5. ~stopped' => SortedOK'
    BY <2>1 DEF BusInv, SortedOK, Running, Sorted, After
  <2> QED BY <2>2, <2>3, <2>4, <2>5 DEF BusInv
<1> QED BY <1>1, <1>2, <1>3, <1>4, <1>5, <1>6, <1>7, <1>8, <1>9, <1>10, <1>11, <1>12 DEF Next, Dispatch

-----------------------------------------------------------------------------
(* The theorems. *)

\* A CRITICAL event waits behind lesser handlers for at most the fast path of each
\* subscriber, whatever the handlers do, how many of them there are, whether the
\* watchdog publishes one more, and during stop() with its second dispatcher
\* (event_bus.py: the fast path of _run_handler).
THEOREM CriticalIsSoon == Spec => []CriticalSoon
<1>1. BusInv => CriticalSoon
  BY DEF BusInv, WaitOK, Patience, CriticalSoon
<1> QED BY <1>1, BusInit, BusStep, PTL DEF Spec

\* Until stop() brings a second dispatcher, events of one priority are dispatched in
\* the order they were accepted, for any sizes of the queues (event_bus.py: publish,
\* _pop_next_locked, _requeue_front).
THEOREM OrderIsKept == Spec => [](~stopped => OrderKept)
<1>1. BusInv => (~stopped => OrderKept)
  <2> SUFFICES ASSUME BusInv, ~stopped, NEW l \in Levels, NEW i \in DOMAIN queue[l], queue[l][i].n # 0
               PROVE  /\ \A j \in DOMAIN queue[l] : j < i => queue[l][j].n < queue[l][i].n
                      /\ \A d \in Dispatchers : (Running(d) /\ Level(current[d]) = l) => current[d].n < queue[l][i].n
    BY DEF OrderKept
  <2>1. SortedOK
    BY DEF BusInv
  <2>2. ASSUME NEW d \in Dispatchers, Running(d), Level(current[d]) = l PROVE current[d].n < queue[l][i].n
    <3>1. queue[l] \in Seq(After(current[d].n))
      BY <2>1, <2>2 DEF SortedOK
    <3>2. queue[l][i] \in After(current[d].n)
      BY <3>1
    <3> QED BY <3>2 DEF After
  <2> QED BY <2>1, <2>2 DEF SortedOK, Sorted
<1> QED BY <1>1, BusInit, BusStep, PTL DEF Spec

\* _critical_arrived is set exactly while a CRITICAL event is queued.
THEOREM FlagIsExact == Spec => []CriticalFlag
<1>1. BusInv => CriticalFlag
  BY DEF BusInv
<1> QED BY <1>1, BusInit, BusStep, PTL DEF Spec

-----------------------------------------------------------------------------
(* Nothing vanishes. *)

LEMMA MembersAre ==
    ASSUME NEW q, NEW e
    PROVE  e \in Members(q) <=> \E l \in Levels : \E i \in DOMAIN q[l] : q[l][i] = e
BY DEF Members

\* A level that gets an event, in front or behind, keeps those it has.
LEMMA LongerKeeps ==
    ASSUME NEW s \in Seq(Events), NEW x \in Events
    PROVE  /\ \A i \in DOMAIN s : \E j \in DOMAIN Append(s, x) : Append(s, x)[j] = s[i]
           /\ \A i \in DOMAIN s : \E j \in DOMAIN (<<x>> \o s) : (<<x>> \o s)[j] = s[i]
           /\ \E j \in DOMAIN (<<x>> \o s) : (<<x>> \o s)[j] = x
<1> DEFINE t == Append(s, x)
           u == <<x>> \o s
<1>1. /\ \A i \in DOMAIN s : i \in DOMAIN t /\ t[i] = s[i]
      /\ \A i \in DOMAIN s : i + 1 \in DOMAIN u /\ u[i + 1] = s[i]
      /\ 1 \in DOMAIN u /\ u[1] = x
  OBVIOUS
<1> HIDE DEF t, u
<1>2. /\ \A i \in DOMAIN s : \E j \in DOMAIN t : t[j] = s[i]
      /\ \A i \in DOMAIN s : \E j \in DOMAIN u : u[j] = s[i]
      /\ \E j \in DOMAIN u : u[j] = x
  BY <1>1
<1> QED BY <1>2 DEF t, u

\* Publishing drops events of the bounded levels only, and none when there is room.
LEMMA AppendedLoses ==
    ASSUME BusInv, NEW x \in Events, queue' = Appended(x), NEW e \in Members(queue) \ Members(queue')
    PROVE  Level(e) \in Bounded /\ ~(Level(x) = "NORMAL" /\ ~Full("NORMAL"))
<1>0. queue \in [Levels -> Seq(Events)] /\ (\A l \in Levels : queue[l] \in Seq(Placed(l, made))) /\ Level(x) \in Levels
  BY Levelled DEF BusInv, QueueOK
<1> DEFINE S == [l \in Levels |-> Events]
<1>1. S \in [Levels -> SUBSET Events] /\ (\A l \in Levels : queue[l] \in Seq(S[l])) /\ x \in S[Level(x)]
      /\ SysEvent("overflow") \in S["NORMAL"]
  BY <1>0, Levelled DEF Levels
<1> HIDE DEF S
<1>2. /\ \A l \in {"CRITICAL", "HIGH"} : Appended(x)[l] = IF Level(x) = l THEN Append(queue[l], x) ELSE queue[l]
      /\ Level(x) = "NORMAL" /\ ~Full("NORMAL") =>
            Appended(x) = [queue EXCEPT !["NORMAL"] = Append(queue["NORMAL"], x)]
  BY <1>0, <1>1, AppendedIs
<1>p. PICK l \in Levels : \E i \in DOMAIN queue[l] : queue[l][i] = e
  BY MembersAre
<1>3. PICK i \in DOMAIN queue[l] : queue[l][i] = e
  BY <1>p
<1>4. queue[l] \in Seq(Events) /\ e \in Placed(l, made)
  BY <1>0, <1>3
<1>5. Level(e) = l
  BY <1>4 DEF Placed
<1>6. ASSUME queue'[l] = Append(queue[l], x) \/ queue'[l] = queue[l] PROVE FALSE
  <2>1. \E j \in DOMAIN queue'[l] : queue'[l][j] = e
    BY <1>3, <1>4, <1>6, LongerKeeps
  <2> QED BY <2>1, MembersAre
<1>7. l \notin {"CRITICAL", "HIGH"}
  BY <1>2, <1>6
<1>8. ~(Level(x) = "NORMAL" /\ ~Full("NORMAL"))
  <2> SUFFICES ASSUME Level(x) = "NORMAL", ~Full("NORMAL") PROVE FALSE
    OBVIOUS
  <2>1. queue' = [queue EXCEPT !["NORMAL"] = Append(queue["NORMAL"], x)]
    BY <1>2
  <2>2. queue'[l] = IF l = "NORMAL" THEN Append(queue[l], x) ELSE queue[l]
    BY <1>0, <2>1
  <2> QED BY <1>6, <2>2
<1> QED BY <1>5, <1>7, <1>8 DEF Levels, Bounded

Fated(e) == \/ e \in Held' \/ fate'[e.n] = "ended"
            \/ Level(e) \in Bounded /\ fate'[e.n] = "dropped"

LEMMA HeldAre ==
    ASSUME BusInv, NEW e \in Held, e.n # 0
    PROVE  e \in Events /\ e.n \in Serial /\ e.n <= made /\ e.n \in Nat
           /\ (e \in Members(queue) \/ \E d \in Dispatchers : e = current[d])
<1>1. e \in Members(queue) \/ \E d \in Dispatchers : e = current[d]
  BY DEF Held
<1>2. e \in Events /\ e.n <= made
  <2>1. CASE e \in Members(queue)
    <3>p. PICK l \in Levels : \E i \in DOMAIN queue[l] : queue[l][i] = e
      BY <2>1, MembersAre
    <3>1. PICK i \in DOMAIN queue[l] : queue[l][i] = e
      BY <3>p
    <3>2. queue[l] \in Seq(Placed(l, made))
      BY DEF BusInv, QueueOK
    <3>3. e \in Placed(l, made)
      BY <3>1, <3>2
    <3> QED BY <3>3 DEF Placed
  <2>2. CASE \E d \in Dispatchers : e = current[d]
    <3>1. PICK d \in Dispatchers : e = current[d]
      BY <2>2
    <3>2. e # NoEvent
      BY DEF NoEvent
    <3> QED BY <3>1, <3>2 DEF BusInv, DispatchOK
  <2> QED BY <1>1, <2>1, <2>2
<1>3. e.n \in Serial
  BY <1>2 DEF Events
<1> QED BY <1>1, <1>2, <1>3, Levelled

LEMMA HeldStays ==
    ASSUME NEW e \in Held, UNCHANGED current, Members(queue) \subseteq Members(queue)'
    PROVE  e \in Held'
BY DEF Held

LEMMA AcceptFates ==
    ASSUME BusInv, NEW x \in Events, x.n = made + 1, Accept(x), UNCHANGED current, NEW e \in Held, e.n # 0
    PROVE  Fated(e)
<1>1. e \in Events /\ e.n \in Serial /\ e.n # x.n /\ (e \in Members(queue) \/ \E d \in Dispatchers : e = current[d])
  <2>1. made \in Nat
    BY DEF BusInv, CountOK
  <2> QED BY <2>1, HeldAre
<1>2. CASE e \in Members(queue) \ Members(queue')
  <2>1. Level(e) \in Bounded
    BY <1>2, AppendedLoses DEF Accept
  <2>2. e.n \in DroppedBy(queue')
    BY <1>1, <1>2 DEF DroppedBy
  <2>3. fate'[e.n] = FateWith(DroppedBy(queue'), "dropped")[e.n]
    BY <1>1 DEF Accept, FateWith
  <2>4. fate'[e.n] = "dropped"
    BY <1>1, <2>2, <2>3 DEF FateWith
  <2> QED BY <2>1, <2>4 DEF Fated
<1>3. CASE e \notin Members(queue) \ Members(queue')
  <2>1. e \in Held'
    BY <1>1, <1>3 DEF Held, Members
  <2> QED BY <2>1 DEF Fated
<1> QED BY <1>2, <1>3

LEMMA PopFates ==
    ASSUME BusInv, NEW d \in Dispatchers, Pop(d), NEW e \in Held, e.n # 0
    PROVE  Fated(e)
<1>0. /\ e \in Events /\ e.n \in Serial /\ mode[d] = "idle"
      /\ (e \in Members(queue) \/ \E c \in Dispatchers : e = current[c])
      /\ queue \in [Levels -> Seq(Events)] /\ current \in [Dispatchers -> Events \union {NoEvent}]
      /\ current[d] = NoEvent
  BY HeldAre DEF Pop, BusInv, DispatchOK, QueueOK
<1>1. PICK l \in Levels :
         /\ NextLevel(l) /\ queue' = [queue EXCEPT ![l] = Tail(queue[l])]
         /\ \/ /\ SubscribersOf(Head(queue[l])) = {} /\ fate' = FateWith({Head(queue[l]).n}, "ended") /\ UNCHANGED current
            \/ /\ SubscribersOf(Head(queue[l])) # {} /\ current' = [current EXCEPT ![d] = Head(queue[l])]
  BY DEF Pop, Serve
<1>2. ASSUME NEW c \in Dispatchers, e = current[c] PROVE e \in Held'
  <2>1. c # d
    BY <1>0, <1>2 DEF NoEvent
  <2>2. current'[c] = e
    BY <1>0, <1>1, <1>2, <2>1
  <2> QED BY <2>2 DEF Held
<1>3. ASSUME e \in Members(queue) PROVE Fated(e)
  <2>p. PICK k \in Levels : \E i \in DOMAIN queue[k] : queue[k][i] = e
    BY <1>3, MembersAre
  <2>1. PICK i \in DOMAIN queue[k] : queue[k][i] = e
    BY <2>p
  <2>2. CASE k # l
    <3>1. queue'[k] = queue[k]
      BY <1>0, <1>1, <2>2
    <3>2. \E j \in DOMAIN queue'[k] : queue'[k][j] = e
      BY <2>1, <3>1
    <3>3. e \in Members(queue')
      BY <3>2, MembersAre
    <3> QED BY <3>3 DEF Fated, Held, Members
  <2>3. CASE k = l /\ i # 1
    <3> DEFINE q == queue[l]
               t == Tail(q)
    <3>1. q \in Seq(Events) /\ i \in DOMAIN q /\ q[i] = e /\ q # <<>> /\ queue'[l] = t
      BY <1>0, <1>1, <2>1, <2>3 DEF NextLevel, Waiting
    <3>2. i - 1 \in DOMAIN t /\ t[i - 1] = q[i]
      <4> HIDE DEF q
      <4>1. /\ DOMAIN t = 1 .. Len(q) - 1 /\ DOMAIN q = 1 .. Len(q) /\ Len(q) \in Nat
            /\ \A j \in DOMAIN t : t[j] = q[j + 1]
        BY <3>1
      <4> HIDE DEF t
      <4>2. i - 1 \in DOMAIN t /\ (i - 1) + 1 = i
        BY <2>3, <3>1, <4>1
      <4> QED BY <4>1, <4>2
    <3> HIDE DEF q, t
    <3>3. \E j \in DOMAIN queue'[l] : queue'[l][j] = e
      BY <3>1, <3>2
    <3>4. e \in Members(queue')
      BY <3>3, MembersAre
    <3> QED BY <3>4 DEF Fated, Held, Members
  <2>4. CASE k = l /\ i = 1
    <3>1. Head(queue[l]) = e
      BY <1>0, <2>1, <2>4
    <3>2. CASE fate' = FateWith({Head(queue[l]).n}, "ended")
      BY <1>0, <3>1, <3>2 DEF Fated, FateWith
    <3>3. CASE current' = [current EXCEPT ![d] = Head(queue[l])]
      <4>1. current'[d] = e
        BY <1>0, <3>1, <3>3
      <4> QED BY <4>1 DEF Fated, Held
    <3> QED BY <1>1, <3>2, <3>3
  <2> QED BY <2>2, <2>3, <2>4
<1> QED BY <1>0, <1>2, <1>3 DEF Fated

\* The event of a handler that ends, or is taken off for good.
LEMMA ServeFates ==
    ASSUME BusInv, NEW d \in Dispatchers, Serve(d, current[d], Others(d)), fate' = Ended(d),
           Members(queue) \subseteq Members(queue)', NEW e \in Held, e.n # 0
    PROVE  Fated(e)
<1>0. /\ e.n \in Serial /\ (e \in Members(queue) \/ \E c \in Dispatchers : e = current[c])
      /\ current \in [Dispatchers -> Events \union {NoEvent}]
  BY HeldAre DEF BusInv, DispatchOK
<1>1. CASE e \in Members(queue)
  BY <1>1 DEF Fated, Held
<1>2. ASSUME NEW c \in Dispatchers, e = current[c] PROVE Fated(e)
  <2>1. CASE c = d /\ Others(d) = {}
    <3>1. fate'[e.n] = "ended"
      BY <1>0, <1>2, <2>1 DEF Ended, FateWith
    <3> QED BY <3>1 DEF Fated
  <2>2. CASE c # d \/ Others(d) # {}
    <3>1. current'[c] = e
      BY <1>0, <1>2, <2>2 DEF Serve
    <3> QED BY <3>1 DEF Fated, Held
  <2> QED BY <2>1, <2>2
<1> QED BY <1>0, <1>1, <1>2

LEMMA LongerHolds ==
    ASSUME queue \in [Levels -> Seq(Events)], NEW x \in Events, NEW l \in Levels,
           queue' = [queue EXCEPT ![l] = Append(queue[l], x)] \/ queue' = [queue EXCEPT ![l] = <<x>> \o queue[l]]
    PROVE  Members(queue) \subseteq Members(queue)' /\ (queue' = [queue EXCEPT ![l] = <<x>> \o queue[l]] => x \in Members(queue'))
<1>1. ASSUME NEW e \in Members(queue) PROVE e \in Members(queue')
  <2>p. PICK k \in Levels : \E i \in DOMAIN queue[k] : queue[k][i] = e
    BY MembersAre
  <2>1. PICK i \in DOMAIN queue[k] : queue[k][i] = e
    BY <2>p
  <2>2. queue[k] \in Seq(Events) /\ (queue'[k] = queue[k] \/ queue'[k] = Append(queue[k], x) \/ queue'[k] = <<x>> \o queue[k])
    OBVIOUS
  <2>3. \E j \in DOMAIN queue'[k] : queue'[k][j] = e
    <3> DEFINE s == queue[k]
               r == queue'[k]
    <3>1. s \in Seq(Events) /\ i \in DOMAIN s /\ s[i] = e /\ (r = s \/ r = Append(s, x) \/ r = <<x>> \o s)
      BY <2>1, <2>2
    <3> HIDE DEF s, r
    <3>2. /\ \A h \in DOMAIN s : \E j \in DOMAIN Append(s, x) : Append(s, x)[j] = s[h]
          /\ \A h \in DOMAIN s : \E j \in DOMAIN (<<x>> \o s) : (<<x>> \o s)[j] = s[h]
      BY <3>1, LongerKeeps
    <3> DEFINE t == Append(s, x)
               u == <<x>> \o s
    <3>3. /\ r = s \/ r = t \/ r = u
          /\ \E j \in DOMAIN t : t[j] = s[i]
          /\ \E j \in DOMAIN u : u[j] = s[i]
      BY <3>1, <3>2
    <3> HIDE DEF t, u
    <3>4. \E j \in DOMAIN r : r[j] = e
      BY <3>1, <3>3
    <3> QED BY <3>4 DEF r
  <2> QED BY <2>3, MembersAre
<1>2. ASSUME queue' = [queue EXCEPT ![l] = <<x>> \o queue[l]] PROVE x \in Members(queue')
  <2>1. queue'[l] = <<x>> \o queue[l] /\ queue[l] \in Seq(Events)
    BY <1>2
  <2>2. \E j \in DOMAIN queue'[l] : queue'[l][j] = x
    BY <2>1, LongerKeeps
  <2> QED BY <2>2, MembersAre
<1> QED BY <1>1, <1>2 DEF Members

LEMMA FateStep ==
    ASSUME BusInv, Next, NEW e \in Held, e.n # 0
    PROVE  Fated(e)
<1>0. queue \in [Levels -> Seq(Events)] /\ current \in [Dispatchers -> Events \union {NoEvent}]
  BY DEF BusInv, QueueOK, DispatchOK
<1>1. ASSUME NEW kind \in Kinds, NEW owner \in Dispatchers \union {"task"}, Publish(kind, owner) PROVE Fated(e)
  <2>1. /\ UNCHANGED current
        /\ \/ UNCHANGED queue
           \/ \E x \in Events : x.n = made + 1 /\ Accept(x)
    BY <1>1, PublishCounts
  <2>2. CASE UNCHANGED queue
    BY <2>1, <2>2 DEF Fated, Held, Members
  <2>3. CASE \E x \in Events : x.n = made + 1 /\ Accept(x)
    BY <2>1, <2>3, AcceptFates
  <2> QED BY <2>1, <2>2, <2>3
<1>2. ASSUME NEW b \in blocked, PublishResumes(b) PROVE Fated(e)
  BY <1>2, ResumeCounts, AcceptFates
<1>3. ASSUME NEW d \in Dispatchers, Pop(d) PROVE Fated(e)
  BY <1>3, PopFates
<1>4. ASSUME NEW d \in Dispatchers, HandlerEnds(d) PROVE Fated(e)
  <2>1. Serve(d, current[d], Others(d)) /\ fate' = Ended(d) /\ queue' = queue
    BY <1>4 DEF HandlerEnds
  <2>2. Members(queue) \subseteq Members(queue)'
    BY <2>1 DEF Members
  <2> QED BY <2>1, <2>2, ServeFates
<1>5. ASSUME NEW d \in Dispatchers, Interrupt(d) PROVE Fated(e)
  <2> DEFINE x == current[d]
             l == Level(x)
  <2>1. /\ queue' = [queue EXCEPT ![l] = <<x>> \o queue[l]] /\ Running(d)
        /\ current' = [current EXCEPT ![d] = NoEvent]
    BY <1>5 DEF Interrupt, Interruptible, Lesser, Requeued, Serve
  <2>2. x \in Events /\ l \in Levels
    BY <2>1, Levelled DEF BusInv, DispatchOK
  <2> HIDE DEF x, l
  <2>3. Members(queue) \subseteq Members(queue)' /\ x \in Members(queue)'
    <3>1. Members(queue) \subseteq Members(queue)' /\ x \in Members(queue')
      BY <1>0, <2>1, <2>2, LongerHolds
    <3> QED BY <3>1 DEF Members
  <2>4. e \in Members(queue) \/ e = x \/ \E c \in Dispatchers \ {d} : e = current[c]
    BY HeldAre DEF x
  <2>5. \A c \in Dispatchers \ {d} : current'[c] = current[c]
    BY <1>0, <2>1
  <2> QED BY <2>3, <2>4, <2>5 DEF Fated, Held
<1>6. ASSUME NEW d \in Dispatchers, HandlerTimesOut(d) PROVE Fated(e)
  <2> DEFINE x == SysEvent("handler_timeout")
  <2>1. queue' = Appended(x) /\ x \in Events /\ Level(x) = "NORMAL"
    BY <1>6, Levelled DEF HandlerTimesOut, SysLevel
  <2> HIDE DEF x
  <2>2. CASE Full("NORMAL")
    <3>1. UNCHANGED current /\ fate' = FateWith(DroppedBy(queue'), "dropped")
      BY <1>6, <2>2 DEF HandlerTimesOut
    <3>2. e.n \in Serial /\ (e \in Members(queue) \/ \E c \in Dispatchers : e = current[c])
      BY HeldAre
    <3>3. CASE e \in Members(queue) \ Members(queue')
      <4>1. Level(e) \in Bounded
        BY <2>1, <3>3, AppendedLoses
      <4>2. e.n \in DroppedBy(queue')
        BY <3>3 DEF DroppedBy
      <4>3. fate'[e.n] = "dropped"
        BY <3>1, <3>2, <4>2 DEF FateWith
      <4> QED BY <4>1, <4>3 DEF Fated
    <3>4. CASE e \notin Members(queue) \ Members(queue')
      BY <3>1, <3>2, <3>4 DEF Fated, Held, Members
    <3> QED BY <3>3, <3>4
  <2>3. CASE ~Full("NORMAL")
    <3>1. Serve(d, current[d], Others(d)) /\ fate' = Ended(d)
      BY <1>6, <2>3 DEF HandlerTimesOut
    <3>2. Members(queue) \subseteq Members(queue')
      BY <2>1, <2>3, AppendedLoses
    <3> QED BY <3>1, <3>2, ServeFates DEF Members
  <2> QED BY <2>2, <2>3
<1>7. CASE WatchdogReports
  <2> DEFINE x == SysEvent("watchdog")
  <2>1. queue' = [queue EXCEPT !["CRITICAL"] = Append(queue["CRITICAL"], x)] /\ UNCHANGED current
    BY <1>7 DEF WatchdogReports
  <2>2. x \in Events /\ "CRITICAL" \in Levels
    BY Levelled DEF Levels
  <2> HIDE DEF x
  <2>3. Members(queue) \subseteq Members(queue)'
    BY <1>0, <2>1, <2>2, LongerHolds
  <2> QED BY <2>1, <2>3, HeldStays DEF Fated
<1>8. CASE Stop \/ Tick \/ WatchdogEnds \/ \E d \in Dispatchers : Leave(d)
  <2>1. UNCHANGED <<queue, current>>
    BY <1>8 DEF Stop, Tick, WatchdogEnds, Leave
  <2> QED BY <2>1 DEF Fated, Held, Members
<1> QED BY <1>1, <1>2, <1>3, <1>4, <1>5, <1>6, <1>7, <1>8 DEF Next, Dispatch, TaskPublishes, HandlerPublishes

\* An accepted event stays queued or in dispatch until its dispatch ends; only a full
\* NORMAL or LOW queue drops one.  So it is for any sizes of the queues, also when the
\* fast path puts an event back, a handler times out or stop() drains the queues
\* (event_bus.py: publish, _run_handler, stop).
THEOREM NoEventVanishes == Spec => NothingVanishes
<1>1. BusInv /\ [Next]_vars =>
        [\A e \in Held : e.n # 0 =>
            \/ e \in Held' \/ fate'[e.n] = "ended"
            \/ Level(e) \in Bounded /\ fate'[e.n] = "dropped"]_vars
  BY FateStep DEF Fated
<1> QED BY <1>1, BusInit, BusStep, PTL DEF Spec, NothingVanishes

-----------------------------------------------------------------------------
(* The variables keep their types. *)

LogOK == reported \in BOOLEAN /\ watchdog \in {"awake", "gone"} /\ fate \in [Serial -> Fates]

LEMMA LogStep == BusInv /\ LogOK /\ [Next]_vars => LogOK'
<1> SUFFICES ASSUME BusInv, LogOK, [Next]_vars PROVE LogOK'
  OBVIOUS
<1>f. ASSUME NEW ns, NEW what \in Fates PROVE FateWith(ns, what) \in [Serial -> Fates]
  BY DEF FateWith, LogOK
<1>g. \A d \in Dispatchers : Ended(d) \in [Serial -> Fates]
  BY <1>f DEF Ended, LogOK, Fates
<1>1. ASSUME NEW e, Accept(e), UNCHANGED <<reported, watchdog>> PROVE LogOK'
  <2>1. FateWith(DroppedBy(queue'), "dropped") \in [Serial -> Fates]
    BY <1>f DEF Fates
  <2>2. fate' \in [Serial -> Fates]
    BY <1>1, <2>1 DEF Accept, Fates
  <2> QED BY <1>1, <2>2 DEF LogOK
<1>2. ASSUME NEW kind \in Kinds, NEW owner, Publish(kind, owner) PROVE LogOK'
  <2>1. CASE \E e : Accept(e)
    BY <1>1, <1>2, <2>1 DEF Publish
  <2>2. CASE fate' = fate
    BY <1>2, <2>2 DEF Publish, LogOK
  <2> QED BY <1>2, <2>1, <2>2 DEF Publish
<1>3. ASSUME NEW b \in blocked, PublishResumes(b) PROVE LogOK'
  BY <1>1, <1>3 DEF PublishResumes
<1>4. ASSUME NEW d \in Dispatchers, Dispatch(d) PROVE LogOK'
  <2>1. reported' \in BOOLEAN /\ watchdog' \in {"awake", "gone"}
    BY <1>4 DEF Dispatch, Pop, Leave, HandlerEnds, Interrupt, HandlerTimesOut, Serve, LogOK
  <2>2. fate' \in [Serial -> Fates]
    BY <1>4, <1>f, <1>g DEF Dispatch, Pop, Leave, HandlerEnds, Interrupt, HandlerTimesOut, LogOK, Fates
  <2> QED BY <2>1, <2>2 DEF LogOK
<1>5. CASE WatchdogReports \/ WatchdogEnds \/ Stop \/ Tick \/ UNCHANGED vars
  BY <1>5 DEF WatchdogReports, WatchdogEnds, Stop, Tick, vars, LogOK
<1> QED BY <1>2, <1>3, <1>4, <1>5 DEF Next, TaskPublishes, HandlerPublishes

\* The variables keep their types: every event is in the queue of its own priority, a
\* handler that runs is never past the handler timeout, and a dispatcher that runs one
\* has an event and a subscriber for it.
THEOREM TypesHold == Spec => []TypeOK
<1>1. Init => LogOK
  BY DEF Init, LogOK, Fates
<1>2. BusInv /\ LogOK => TypeOK
  <2> SUFFICES ASSUME BusInv, LogOK PROVE TypeOK
    OBVIOUS
  <2>1. \A l \in Levels : \A i \in DOMAIN queue[l] : Level(queue[l][i]) = l
    <3> SUFFICES ASSUME NEW l \in Levels, NEW i \in DOMAIN queue[l] PROVE Level(queue[l][i]) = l
      OBVIOUS
    <3>1. queue[l] \in Seq(Placed(l, made))
      BY DEF BusInv, QueueOK
    <3>2. queue[l][i] \in Placed(l, made)
      BY <3>1
    <3> QED BY <3>2 DEF Placed
  <2>2. made \in 0 .. MaxEvents
    <3>1. Cardinality(blocked) \in Nat /\ MaxEvents \in Nat
      BY FS_CardinalityType, ConstantsAssumption DEF ConstantsAssumption, BusInv, CountOK
    <3> QED BY <3>1 DEF BusInv, CountOK
  <2>3. watched \in {NoTime} \union 0 .. Timeout
    <3>1. watched # NoTime => \E d \in Dispatchers : age[d] = watched
      BY DEF BusInv, WatchOK
    <3> QED BY <3>1 DEF BusInv, DispatchOK
  <2>4. \A d \in Dispatchers : Running(d) => todo[d] # {} /\ current[d] # NoEvent
    BY Levelled DEF BusInv, DispatchOK
  <2> QED BY <2>1, <2>2, <2>3, <2>4 DEF TypeOK, LogOK, BusInv, QueueOK, CountOK, DispatchOK, WaitOK
<1> QED BY <1>1, <1>2, BusInit, BusStep, LogStep, PTL DEF Spec

-----------------------------------------------------------------------------
(* Each event is in one place. *)

\* No numbered event is twice in a queue.
Distinct(s) == \A i, j \in DOMAIN s : s[i].n # 0 /\ s[i] = s[j] => i = j

Open == {e \in Held : e.n # 0}

OnceOK == /\ \A l \in Levels : Distinct(queue[l])
          /\ \A d \in Dispatchers : Shown(d) => current[d] \notin Members(queue)
          /\ \A c, d \in Dispatchers : c # d /\ Shown(d) => current[c] # current[d]

\* A number stands for one event, and that of an open event is accepted and not ended.
FateOK == /\ \A x, y \in Open : x.n = y.n => x = y
          /\ \A e \in Open : fate[e.n] = "accepted"
          /\ fate \in [Serial -> Fates]
          /\ \A n \in Serial : fate[n] = "ended" => n <= made

\* What is left of s, from some place on, is what t holds; system events aside.
Shift(s, t) ==
    \E k \in Nat : /\ \A i \in DOMAIN t : t[i].n # 0 => i + k \in DOMAIN s /\ t[i] = s[i + k]
                   /\ \A j \in DOMAIN s : j > k => \E i \in DOMAIN t : t[i] = s[j]

LEMMA ShiftNone == ASSUME NEW s \in Seq(Events) PROVE Shift(s, s)
<1>1. /\ \A i \in DOMAIN s : i + 0 \in DOMAIN s /\ s[i] = s[i + 0]
      /\ DOMAIN s \subseteq Nat
  OBVIOUS
<1>2. \A j \in DOMAIN s : \E i \in DOMAIN s : s[i] = s[j]
  OBVIOUS
<1> QED BY <1>1, <1>2 DEF Shift

LEMMA ShiftTail == ASSUME NEW s \in Seq(Events), s # <<>> PROVE Shift(s, Tail(s))
<1> DEFINE t == Tail(s)
<1>1. /\ DOMAIN t = 1 .. Len(s) - 1 /\ DOMAIN s = 1 .. Len(s) /\ Len(s) \in Nat \ {0}
      /\ \A i \in DOMAIN t : t[i] = s[i + 1]
  OBVIOUS
<1> HIDE DEF t
<1>2. \A i \in DOMAIN t : i + 1 \in DOMAIN s /\ t[i] = s[i + 1]
  BY <1>1
<1>3. ASSUME NEW j \in DOMAIN s, j > 1 PROVE \E i \in DOMAIN t : t[i] = s[j]
  <2>1. j - 1 \in DOMAIN t /\ t[j - 1] = s[j]
    BY <1>1, <1>3
  <2> QED BY <2>1
<1>4. Shift(s, t)
  BY <1>2, <1>3 DEF Shift
<1> QED BY <1>4 DEF t

LEMMA LastNShift ==
    ASSUME NEW s \in Seq(Events), NEW o \in Seq(Events), \A i \in DOMAIN o : o[i].n = 0,
           NEW n \in Nat
    PROVE  Shift(s, LastN(s \o o, n))
<1> DEFINE u == s \o o
           k == IF Len(u) > n THEN Len(u) - n ELSE 0
           t == SubSeq(u, k + 1, Len(u))
<1>1. /\ u \in Seq(Events)
      /\ DOMAIN u = 1 .. Len(s) + Len(o) /\ DOMAIN s = 1 .. Len(s) /\ DOMAIN o = 1 .. Len(o)
      /\ Len(s) \in Nat /\ Len(o) \in Nat /\ Len(u) = Len(s) + Len(o)
      /\ \A i \in DOMAIN s : u[i] = s[i]
      /\ \A i \in DOMAIN u : i > Len(s) => i - Len(s) \in DOMAIN o /\ u[i] = o[i - Len(s)]
  OBVIOUS
<1>2. LastN(u, n) = t
  <2>1. Len(u) \in Nat
    BY <1>1
  <2> QED BY <2>1 DEF LastN
<1> HIDE DEF u
<1>3. k \in Nat /\ k <= Len(u) /\ Len(u) \in Nat
  BY <1>1
<1> HIDE DEF k
<1>4. DOMAIN t = 1 .. Len(u) - k /\ \A i \in 1 .. Len(u) - k : t[i] = u[i + k] /\ i + k \in DOMAIN u
  BY <1>1, <1>3
<1> HIDE DEF t
<1>5. ASSUME NEW i \in DOMAIN t, t[i].n # 0 PROVE i + k \in DOMAIN s /\ t[i] = s[i + k]
  <2>1. i + k \in DOMAIN u /\ t[i] = u[i + k]
    BY <1>4
  <2>2. ~(i + k > Len(s))
    BY <1>1, <1>5, <2>1
  <2>3. i + k \in DOMAIN s
    BY <1>1, <2>1, <2>2
  <2> QED BY <1>1, <2>1, <2>3
<1>6. ASSUME NEW j \in DOMAIN s, j > k PROVE \E i \in DOMAIN t : t[i] = s[j]
  <2>1. j - k \in DOMAIN t /\ (j - k) + k = j
    BY <1>1, <1>3, <1>4, <1>6
  <2>2. t[j - k] = u[j]
    BY <1>4, <2>1
  <2> QED BY <1>1, <2>1, <2>2
<1>7. Shift(s, t)
  BY <1>3, <1>5, <1>6 DEF Shift
<1> QED BY <1>2, <1>7 DEF u

\* The events of a queue after one is published.
Fed(l, x) == IF Level(x) = l THEN Append(queue[l], x) ELSE queue[l]

LEMMA NormalShift ==
    ASSUME NEW s \in Seq(Events), NEW e \in Events
    PROVE  Shift(Append(s, e), NormalAfter(s, <<e>>))
<1> DEFINE o == Overflows(Depth - Len(<<e>>))
           t == Append(s, e)
<1>1. s \o <<e>> = t /\ t \in Seq(Events) /\ Len(<<e>>) = 1 /\ Len(s) \in Nat
  OBVIOUS
<1>2. o \in Seq(Events) /\ \A i \in DOMAIN o : o[i].n = 0
  <2>1. Depth - 1 \in Nat /\ o = [i \in 1 .. (Depth - 1) |-> SysEvent("overflow")] /\ SysEvent("overflow") \in Events
    BY <1>1, Levelled, ConstantsAssumption DEF ConstantsAssumption, Overflows
  <2> QED BY <2>1 DEF SysEvent
<1>3. NormalAfter(s, <<e>>) = IF Len(s) < NormalMax THEN t ELSE LastN(t \o o, Len(s))
  BY <1>1 DEF NormalAfter
<1> HIDE DEF o, t
<1>4. Shift(t, LastN(t \o o, Len(s)))
  BY <1>1, <1>2, LastNShift
<1>5. Shift(t, t)
  BY <1>1, ShiftNone
<1>6. Shift(t, NormalAfter(s, <<e>>))
  BY <1>3, <1>4, <1>5
<1> QED BY <1>6 DEF t

\* An overflow of LOW lets NORMAL lose its oldest, but none is added.
LEMMA NormalShiftSystem ==
    ASSUME NEW s \in Seq(Events), NEW e \in Events, e.n = 0
    PROVE  Shift(s, NormalAfter(s, <<e>>))
<1> DEFINE u == NormalAfter(s, <<e>>)
           t == Append(s, e)
<1>1. Shift(t, u)
  BY NormalShift
<1>2. /\ DOMAIN t = 1 .. Len(s) + 1 /\ DOMAIN s = 1 .. Len(s) /\ Len(s) \in Nat
      /\ \A i \in DOMAIN s : t[i] = s[i]
      /\ t[Len(s) + 1] = e
  OBVIOUS
<1> HIDE DEF t, u
<1>3. PICK k \in Nat : /\ \A i \in DOMAIN u : u[i].n # 0 => i + k \in DOMAIN t /\ u[i] = t[i + k]
                       /\ \A j \in DOMAIN t : j > k => \E i \in DOMAIN u : u[i] = t[j]
  BY <1>1 DEF Shift
<1>4. ASSUME NEW i \in DOMAIN u, u[i].n # 0 PROVE i + k \in DOMAIN s /\ u[i] = s[i + k]
  <2>1. i + k \in DOMAIN t /\ u[i] = t[i + k]
    BY <1>3, <1>4
  <2>2. i + k # Len(s) + 1
    BY <1>2, <1>4, <2>1
  <2>3. i + k \in DOMAIN s
    BY <1>2, <2>1, <2>2
  <2> QED BY <1>2, <2>1, <2>3
<1>5. ASSUME NEW j \in DOMAIN s, j > k PROVE \E i \in DOMAIN u : u[i] = s[j]
  <2>1. j \in DOMAIN t /\ t[j] = s[j]
    BY <1>2
  <2> QED BY <1>3, <1>5, <2>1
<1>6. Shift(s, u)
  BY <1>4, <1>5 DEF Shift
<1> QED BY <1>6 DEF u

LEMMA AppendedShift ==
    ASSUME queue \in [Levels -> Seq(Events)], NEW x \in Events
    PROVE  \A l \in Levels : Shift(Fed(l, x), Appended(x)[l])
<1> DEFINE A == Appended(x)
           o == SysEvent("overflow")
<1>0. Level(x) \in Levels /\ o \in Events /\ o.n = 0
  BY Levelled
<1>1. Levels = {"CRITICAL", "HIGH", "NORMAL", "LOW"}
  BY DEF Levels
<1> SUFFICES ASSUME NEW l \in Levels PROVE Shift(Fed(l, x), A[l])
  OBVIOUS
<1>2. queue[l] \in Seq(Events)
  OBVIOUS
<1>3. CASE Level(x) = "NORMAL"
  <2>1. A[l] = IF l = "NORMAL" THEN NormalAfter(queue[l], <<x>>) ELSE queue[l]
    BY <1>3 DEF Appended
  <2> QED BY <1>2, <1>3, <2>1, NormalShift, ShiftNone DEF Fed
<1>4. CASE Level(x) = "LOW" /\ Full("LOW")
  <2> DEFINE n == NormalAfter(queue["NORMAL"], <<o>>)
             t == Append(Tail(queue["LOW"]), x)
  <2>1. A = [queue EXCEPT !["LOW"] = t, !["NORMAL"] = n]
    BY <1>4 DEF Appended
  <2> HIDE DEF n, t
  <2>2. A[l] = IF l = "LOW" THEN t ELSE IF l = "NORMAL" THEN n ELSE queue[l]
    BY <2>1
  <2>3. CASE l = "NORMAL"
    <3>1. Shift(queue[l], n)
      BY <1>0, <1>2, <2>3, NormalShiftSystem DEF n
    <3> QED BY <1>4, <2>2, <2>3, <3>1 DEF Fed
  <2>4. CASE l = "LOW"
    <3>1. queue[l] # <<>>
      <4>1. MaxSize["LOW"] = LowMax /\ LowMax \in Nat \ {0}
        BY ConstantsAssumption DEF ConstantsAssumption, MaxSize
      <4>2. Len(queue[l]) \in Nat /\ Len(queue[l]) # 0
        BY <1>2, <1>4, <2>4, <4>1 DEF Full
      <4> QED BY <1>2, <4>2
    <3>2. Tail(Append(queue[l], x)) = Append(Tail(queue[l]), x) /\ Append(queue[l], x) \in Seq(Events) /\ Append(queue[l], x) # <<>>
      BY <1>2, <3>1, AppendProperties
    <3>3. Shift(Append(queue[l], x), t)
      BY <2>4, <3>2, ShiftTail DEF t
    <3> QED BY <1>4, <2>2, <2>4, <3>3 DEF Fed
  <2>5. CASE l \notin {"LOW", "NORMAL"}
    BY <1>2, <1>4, <2>2, <2>5, ShiftNone DEF Fed
  <2> QED BY <2>3, <2>4, <2>5
<1>5. CASE Level(x) # "NORMAL" /\ ~(Level(x) = "LOW" /\ Full("LOW"))
  <2>1. A = [queue EXCEPT ![Level(x)] = Append(queue[Level(x)], x)]
    BY <1>5 DEF Appended
  <2>2. A[l] = Fed(l, x) /\ Fed(l, x) \in Seq(Events)
    BY <1>2, <2>1 DEF Fed
  <2> QED BY <2>2, ShiftNone
<1> QED BY <1>3, <1>4, <1>5

LEMMA ShiftDistinct ==
    ASSUME NEW s, NEW t \in Seq(Events), Shift(s, t), Distinct(s)
    PROVE  Distinct(t)
<1>1. PICK k \in Nat : \A i \in DOMAIN t : t[i].n # 0 => i + k \in DOMAIN s /\ t[i] = s[i + k]
  BY DEF Shift
<1>2. DOMAIN t \subseteq Nat
  OBVIOUS
<1> SUFFICES ASSUME NEW i \in DOMAIN t, NEW j \in DOMAIN t, t[i].n # 0, t[i] = t[j] PROVE i = j
  BY DEF Distinct
<1>3. i + k \in DOMAIN s /\ j + k \in DOMAIN s /\ s[i + k] = s[j + k] /\ s[i + k].n # 0
  BY <1>1
<1>4. i + k = j + k
  BY <1>3 DEF Distinct
<1> QED BY <1>2, <1>4

LEMMA AppendDistinct ==
    ASSUME NEW s \in Seq(Events), NEW x \in Events, Distinct(s),
           x.n # 0 => \A i \in DOMAIN s : s[i] # x
    PROVE  Distinct(Append(s, x))
<1> DEFINE t == Append(s, x)
<1>1. /\ DOMAIN t = 1 .. Len(s) + 1 /\ DOMAIN s = 1 .. Len(s) /\ Len(s) \in Nat
      /\ \A i \in DOMAIN s : t[i] = s[i]
      /\ t[Len(s) + 1] = x
  OBVIOUS
<1> HIDE DEF t
<1> SUFFICES ASSUME NEW i \in DOMAIN t, NEW j \in DOMAIN t, t[i].n # 0, t[i] = t[j] PROVE i = j
  BY DEF Distinct, t
<1>2. (i \in DOMAIN s \/ i = Len(s) + 1) /\ (j \in DOMAIN s \/ j = Len(s) + 1)
  BY <1>1
<1> QED BY <1>1, <1>2 DEF Distinct

LEMMA ConsDistinct ==
    ASSUME NEW s \in Seq(Events), NEW x \in Events, Distinct(s),
           x.n # 0 => \A i \in DOMAIN s : s[i] # x
    PROVE  Distinct(<<x>> \o s)
<1> DEFINE t == <<x>> \o s
<1>1. /\ DOMAIN t = 1 .. Len(s) + 1 /\ DOMAIN s = 1 .. Len(s) /\ Len(s) \in Nat
      /\ \A i \in DOMAIN t : i # 1 => i - 1 \in DOMAIN s /\ t[i] = s[i - 1]
      /\ t[1] = x
  OBVIOUS
<1> HIDE DEF t
<1> SUFFICES ASSUME NEW i \in DOMAIN t, NEW j \in DOMAIN t, t[i].n # 0, t[i] = t[j] PROVE i = j
  BY DEF Distinct, t
<1>2. CASE i = 1 \/ j = 1
  BY <1>1, <1>2
<1>3. CASE i # 1 /\ j # 1
  <2>1. i - 1 = j - 1
    BY <1>1, <1>3 DEF Distinct
  <2> QED BY <1>1, <2>1
<1> QED BY <1>2, <1>3

\* What is lost is older than what is kept.
LEMMA ShiftOldest ==
    ASSUME NEW s \in Seq(Events), NEW t \in Seq(Events), Shift(s, t), Sorted(s),
           NEW j \in DOMAIN s, \A i \in DOMAIN t : t[i] # s[j],
           NEW i \in DOMAIN t, t[i].n # 0
    PROVE  s[j].n < t[i].n
<1>1. PICK k \in Nat : /\ \A h \in DOMAIN t : t[h].n # 0 => h + k \in DOMAIN s /\ t[h] = s[h + k]
                       /\ \A h \in DOMAIN s : h > k => \E g \in DOMAIN t : t[g] = s[h]
  BY DEF Shift
<1>2. i \in Nat \ {0} /\ j \in Nat
  OBVIOUS
<1>3. i + k \in DOMAIN s /\ t[i] = s[i + k] /\ ~(j > k)
  BY <1>1
<1>4. j < i + k
  BY <1>2, <1>3
<1> QED BY <1>3, <1>4 DEF Sorted

-----------------------------------------------------------------------------
(* What a publish does to the places of the events. *)

\* The queues get x, and may lose the oldest of NORMAL and LOW.
Gives(x) == /\ x \in Events /\ (x.n = 0 \/ x.n = made + 1)
            /\ queue' \in [Levels -> Seq(Events)]
            /\ \A l \in Levels : Shift(Fed(l, x), queue'[l])
            /\ \A l \in {"CRITICAL", "HIGH"} : queue'[l] = Fed(l, x)

LEMMA AppendedGives ==
    ASSUME BusInv, NEW x \in Events, x.n = 0 \/ x.n = made + 1, queue' = Appended(x)
    PROVE  Gives(x)
<1>0. queue \in [Levels -> Seq(Events)] /\ (\A l \in Levels : queue[l] \in Seq(Placed(l, made))) /\ Level(x) \in Levels
  BY Levelled DEF BusInv, QueueOK
<1> DEFINE S == [l \in Levels |-> Events]
<1>1. S \in [Levels -> SUBSET Events] /\ (\A l \in Levels : queue[l] \in Seq(S[l])) /\ x \in S[Level(x)]
      /\ SysEvent("overflow") \in S["NORMAL"]
  BY <1>0, Levelled DEF Levels
<1> HIDE DEF S
<1>2. /\ Appended(x) \in [Levels -> Seq(Events)]
      /\ \A l \in {"CRITICAL", "HIGH"} : Appended(x)[l] = IF Level(x) = l THEN Append(queue[l], x) ELSE queue[l]
  BY <1>0, <1>1, AppendedIs
<1> QED BY <1>0, <1>2, AppendedShift DEF Gives, Fed

LEMMA FedIs ==
    ASSUME BusInv, NEW x \in Events, NEW l \in Levels
    PROVE  /\ Fed(l, x) \in Seq(Events)
           /\ \A i \in DOMAIN Fed(l, x) : Level(Fed(l, x)[i]) = l /\ (Fed(l, x)[i] = x \/ Fed(l, x)[i] \in Members(queue))
           /\ \A e \in Members(queue) \union {x} : Level(e) = l => \E i \in DOMAIN Fed(l, x) : Fed(l, x)[i] = e
<1> DEFINE s == queue[l]
           t == Append(s, x)
<1>1. s \in Seq(Events) /\ s \in Seq(Placed(l, made))
  BY DEF BusInv, QueueOK
<1>2. \A i \in DOMAIN s : Level(s[i]) = l /\ s[i] \in Members(queue)
  <2>1. \A i \in DOMAIN s : s[i] \in Placed(l, made)
    BY <1>1
  <2> QED BY <2>1, MembersAre DEF Placed
<1>3. \A e \in Members(queue) : Level(e) = l => \E i \in DOMAIN s : s[i] = e
  <2> SUFFICES ASSUME NEW e \in Members(queue), Level(e) = l PROVE \E i \in DOMAIN s : s[i] = e
    OBVIOUS
  <2>1. PICK k \in Levels : \E i \in DOMAIN queue[k] : queue[k][i] = e
    BY MembersAre
  <2>2. queue[k] \in Seq(Placed(k, made))
    BY DEF BusInv, QueueOK
  <2>3. e \in Placed(k, made)
    BY <2>1, <2>2
  <2> QED BY <2>1, <2>3 DEF Placed
<1> HIDE DEF s
<1>4. t \in Seq(Events) /\ DOMAIN s \subseteq DOMAIN t /\ (\A i \in DOMAIN s : t[i] = s[i]) /\ Len(s) + 1 \in DOMAIN t
      /\ t[Len(s) + 1] = x /\ (\A i \in DOMAIN t : i \in DOMAIN s \/ i = Len(s) + 1)
  BY <1>1
<1> HIDE DEF t
<1>5. Fed(l, x) = IF Level(x) = l THEN t ELSE s
  BY DEF Fed, s, t
<1>6. CASE Level(x) = l
  <2>1. Fed(l, x) = t
    BY <1>5, <1>6
  <2>2. \A i \in DOMAIN t : Level(t[i]) = l /\ (t[i] = x \/ t[i] \in Members(queue))
    BY <1>2, <1>4, <1>6
  <2>3. \A e \in Members(queue) \union {x} : Level(e) = l => \E i \in DOMAIN t : t[i] = e
    <3> SUFFICES ASSUME NEW e \in Members(queue) \union {x}, Level(e) = l PROVE \E i \in DOMAIN t : t[i] = e
      OBVIOUS
    <3>1. CASE e = x
      BY <1>4, <3>1
    <3>2. CASE e \in Members(queue)
      BY <1>3, <1>4, <3>2
    <3> QED BY <3>1, <3>2
  <2> QED BY <1>4, <2>1, <2>2, <2>3
<1>7. CASE Level(x) # l
  BY <1>1, <1>2, <1>3, <1>5, <1>7
<1> QED BY <1>6, <1>7

LEMMA GivesMembers ==
    ASSUME BusInv, NEW x, Gives(x)
    PROVE  /\ \A e \in Members(queue') : e.n # 0 => e \in Members(queue) \/ e = x
           /\ \A e \in (Members(queue) \union {x}) \ Members(queue') : e \in Events => Level(e) \in Bounded
<1>1. x \in Events
  BY DEF Gives
<1>2. ASSUME NEW e \in Members(queue'), e.n # 0 PROVE e \in Members(queue) \/ e = x
  <2>1. PICK l \in Levels : \E i \in DOMAIN queue'[l] : queue'[l][i] = e
    BY <1>2, MembersAre
  <2>2. Shift(Fed(l, x), queue'[l])
    BY DEF Gives
  <2>3. \E i \in DOMAIN Fed(l, x) : Fed(l, x)[i] = e
    BY <1>2, <2>1, <2>2 DEF Shift
  <2> QED BY <1>1, <2>3, FedIs
<1>3. ASSUME NEW e \in (Members(queue) \union {x}) \ Members(queue'), e \in Events, Level(e) \notin Bounded
      PROVE  FALSE
  <2>1. Level(e) \in {"CRITICAL", "HIGH"} /\ Level(e) \in Levels
    BY <1>3, Levelled DEF Levels, Bounded
  <2>2. queue'[Level(e)] = Fed(Level(e), x)
    BY <2>1 DEF Gives
  <2>3. \E i \in DOMAIN queue'[Level(e)] : queue'[Level(e)][i] = e
    BY <1>1, <2>1, <2>2, FedIs
  <2> QED BY <2>1, <2>3, MembersAre
<1> QED BY <1>2, <1>3

LEMMA MemberLevel ==
    ASSUME BusInv, NEW e \in Members(queue)
    PROVE  e \in Events /\ e.n \in Nat /\ e.n <= made /\ Level(e) \in Levels
           /\ \E i \in DOMAIN queue[Level(e)] : queue[Level(e)][i] = e
<1>1. PICK k \in Levels : \E i \in DOMAIN queue[k] : queue[k][i] = e
  BY MembersAre
<1>2. queue[k] \in Seq(Placed(k, made))
  BY DEF BusInv, QueueOK
<1>3. e \in Placed(k, made)
  BY <1>1, <1>2
<1> QED BY <1>1, <1>3, Levelled DEF Placed

LEMMA GivesDistinct ==
    ASSUME BusInv, OnceOK, NEW x, Gives(x)
    PROVE  \A l \in Levels : Distinct(queue'[l])
<1> SUFFICES ASSUME NEW l \in Levels PROVE Distinct(queue'[l])
  OBVIOUS
<1>1. queue[l] \in Seq(Events) /\ Distinct(queue[l]) /\ x \in Events /\ queue'[l] \in Seq(Events) /\ Shift(Fed(l, x), queue'[l])
  BY DEF BusInv, QueueOK, OnceOK, Gives
<1>2. x.n # 0 => \A i \in DOMAIN queue[l] : queue[l][i] # x
  <2> SUFFICES ASSUME x.n # 0, NEW i \in DOMAIN queue[l], queue[l][i] = x PROVE FALSE
    OBVIOUS
  <2>1. x \in Members(queue) /\ x.n = made + 1 /\ made \in Nat
    BY MembersAre DEF Gives, BusInv, CountOK
  <2> QED BY <2>1, MemberLevel
<1>3. Distinct(Append(queue[l], x))
  BY <1>1, <1>2, AppendDistinct
<1>4. Distinct(Fed(l, x))
  BY <1>1, <1>3 DEF Fed
<1> QED BY <1>1, <1>4, ShiftDistinct

LEMMA GivesOldest ==
    ASSUME BusInv, ~stopped, NEW x, Gives(x),
           NEW e \in (Members(queue) \union {x}) \ Members(queue'), e \in Events,
           NEW f \in Members(queue'), f.n # 0, Level(f) = Level(e)
    PROVE  e.n < f.n
<1> DEFINE l == Level(e)
           s == Fed(l, x)
           t == queue'[l]
<1>1. x \in Events /\ l \in Levels /\ t \in Seq(Events) /\ Shift(s, t) /\ SortedOK /\ made \in Nat
  BY Levelled DEF Gives, BusInv, CountOK
<1>2. s \in Seq(Events)
  BY <1>1, FedIs
<1>3. Sorted(s)
  <2> DEFINE q == queue[l]
  <2>1. q \in Seq(Events) /\ Sorted(q)
    BY <1>1 DEF SortedOK, BusInv, QueueOK
  <2>2. x.n # 0 => \A i \in DOMAIN q : q[i].n < x.n
    <3> SUFFICES ASSUME x.n # 0, NEW i \in DOMAIN q PROVE q[i].n < x.n
      OBVIOUS
    <3>1. q[i] \in Members(queue)
      BY <1>1, MembersAre
    <3> QED BY <1>1, <3>1, MemberLevel DEF Gives
  <2> HIDE DEF q
  <2>3. Sorted(Append(q, x))
    BY <1>1, <2>1, <2>2, SortedAppend
  <2> QED BY <2>1, <2>3 DEF Fed, q
<1>4. PICK j \in DOMAIN s : s[j] = e
  BY <1>1, FedIs
<1>5. \A i \in DOMAIN t : t[i] # e
  BY <1>1, MembersAre
<1>6. PICK i \in DOMAIN t : t[i] = f
  <2>1. PICK k \in Levels : \E i \in DOMAIN queue'[k] : queue'[k][i] = f
    BY MembersAre
  <2>2. Shift(Fed(k, x), queue'[k])
    BY DEF Gives
  <2>3. \E i \in DOMAIN Fed(k, x) : Fed(k, x)[i] = f
    BY <2>1, <2>2 DEF Shift
  <2>4. Level(f) = k
    BY <1>1, <2>3, FedIs
  <2> QED BY <2>1, <2>4
<1> HIDE DEF s, t, l
<1> QED BY <1>1, <1>2, <1>3, <1>4, <1>5, <1>6, ShiftOldest

-----------------------------------------------------------------------------
(* The steps of the delivery. *)

Queued == {e \in Members(queue) : e.n # 0}
Over   == {n \in Serial : fate[n] = "ended"}
Served == [d \in Dispatchers |-> IF Shown(d) THEN current[d] ELSE NoEvent]
Still  == [d \in Dispatchers |-> IF Shown(d) THEN todo[d] ELSE {}]

PlacesOK == BusInv /\ OnceOK /\ FateOK

DeliveryStep == [Delivery!Next]_<<Open, Served, Still, Over, made, stopped>>

LEMMA OpenIs ==
    ASSUME PlacesOK
    PROVE  /\ Delivery!Waiting = Queued
           /\ \A e : e \in Open <=> e \in Queued \/ \E d \in Dispatchers : Shown(d) /\ e = current[d]
           /\ \A e \in Open : e \in Numbered /\ e.n \in Serial /\ e.n \in Nat /\ e.n <= made /\ fate[e.n] = "accepted"
           /\ \A d \in Dispatchers : Shown(d) => current[d] \in Open /\ current[d] \notin Queued
<1>1. \A e \in Open : e \in Events /\ e.n \in Serial /\ e.n \in Nat /\ e.n <= made /\ e.n # 0
  BY HeldAre DEF Open, PlacesOK
<1>2. \A e : e \in Open <=> e \in Queued \/ \E d \in Dispatchers : Shown(d) /\ e = current[d]
  BY DEF Open, Held, Queued, Shown
<1>3. \A d \in Dispatchers : Shown(d) => current[d] \in Open /\ current[d] \notin Queued
  BY <1>2 DEF PlacesOK, OnceOK, Queued
<1>4. Delivery!Waiting = Open \ {Served[d] : d \in Dispatchers}
  BY DEF Delivery!Waiting, Open, Served
<1>5. \A d \in Dispatchers : Served[d] = IF Shown(d) THEN current[d] ELSE NoEvent
  BY DEF Served
<1>6. \A e \in Queued : e # NoEvent
  BY DEF Queued, NoEvent
<1>7. Delivery!Waiting = Queued
  BY <1>2, <1>3, <1>4, <1>5, <1>6
<1> QED BY <1>1, <1>2, <1>3, <1>7 DEF FateOK, PlacesOK, Numbered

\* Nothing a reader of the delivery sees has moved.
LEMMA Hidden ==
    ASSUME Open' = Open, Served' = Served, Still' = Still, Over' = Over, made' = made, stopped' = stopped
    PROVE  DeliveryStep
BY DEF DeliveryStep

LEMMA DispatchersStay ==
    ASSUME UNCHANGED <<current, todo>>
    PROVE  Served' = Served /\ Still' = Still /\ \A d \in Dispatchers : Shown(d)' = Shown(d) /\ current'[d] = current[d]
BY DEF Served, Still, Shown

\* The places of the events after a publish.
LEMMA GivesOnce ==
    ASSUME PlacesOK, NEW x, Gives(x), UNCHANGED current
    PROVE  /\ OnceOK'
           /\ \A e \in Open' : e \in Open \/ e = x
           /\ \A e \in Open : e \in Open' <=> e \notin Members(queue) \ Members(queue')
           /\ x.n # 0 => x \notin Open
<1>1. x \in Events /\ (x.n = 0 \/ x.n = made + 1) /\ made \in Nat
  BY DEF Gives, PlacesOK, BusInv, CountOK
<1>2. x.n # 0 => x \notin Open
  BY <1>1, OpenIs
<1>3. \A d \in Dispatchers : current'[d] = current[d] /\ Shown(d)' = Shown(d)
  BY DEF Shown
<1>4. \A e \in Members(queue') : e.n # 0 => e \in Members(queue) \/ e = x
  BY GivesMembers DEF PlacesOK
<1>5. ASSUME NEW d \in Dispatchers, Shown(d)' PROVE current'[d] \notin Members(queue')
  <2>1. current[d] \in Open /\ current[d].n # 0 /\ current[d] \notin Members(queue)
    BY <1>3, <1>5, OpenIs DEF Open, Queued
  <2> QED BY <1>2, <1>3, <1>4, <2>1
<1>6. \A l \in Levels : Distinct(queue'[l])
  BY GivesDistinct DEF PlacesOK
<1>7. OnceOK'
  BY <1>3, <1>5, <1>6 DEF OnceOK, PlacesOK, Members, Distinct
<1>8. \A e \in Open' : e \in Open \/ e = x
  BY <1>3, <1>4 DEF Open, Held
<1>9. \A e \in Open : e \in Open' <=> e \notin Members(queue) \ Members(queue')
  <2> SUFFICES ASSUME NEW e \in Open PROVE e \in Open' <=> e \notin Members(queue) \ Members(queue')
    OBVIOUS
  <2>1. CASE e \in Members(queue)
    <3>1. \A d \in Dispatchers : e # current'[d]
      BY <1>3, <2>1, OpenIs DEF Open, Queued, Shown
    <3> QED BY <2>1, <3>1 DEF Open, Held
  <2>2. CASE e \notin Members(queue)
    BY <1>3, <2>2 DEF Open, Held
  <2> QED BY <2>1, <2>2
<1> QED BY <1>2, <1>7, <1>8, <1>9

LEMMA GivesLost ==
    ASSUME PlacesOK, NEW x, Gives(x), UNCHANGED <<current, stopped>>, NEW all,
           all = Queued \/ (x.n # 0 /\ all = Queued \union {x}),
           x.n # 0 => x \in all
    PROVE  /\ all \ Open' \subseteq {e \in Numbered : Level(e) \in Bounded}
           /\ ~stopped => \A e \in all \ Open', f \in all \ (all \ Open') :
                             Level(e) = Level(f) => e.n < f.n
           /\ all \ Open' \subseteq all
           /\ Open' = (Open \union all) \ (all \ Open')
<1>1. x \in Events /\ (x.n = 0 \/ x.n = made + 1) /\ made \in Nat
  BY DEF Gives, PlacesOK, BusInv, CountOK
<1>2. \A e \in all : e \in Events /\ e.n # 0 /\ e \in Members(queue) \union {x} /\ e \in Numbered
  BY <1>1, OpenIs DEF Queued, Open, Numbered
<1>3. \A d \in Dispatchers : Shown(d) => current[d] \in Open' /\ current[d] # x /\ current[d] \notin Members(queue)
  BY OpenIs, GivesOnce DEF Open, Queued
<1>4. \A e \in Open' : e \in Members(queue') \/ \E d \in Dispatchers : Shown(d) /\ e = current[d]
  BY DEF Open, Held, Shown
<1>5. \A e \in all : e \in Open' <=> e \in Members(queue')
  <2> SUFFICES ASSUME NEW e \in all PROVE e \in Open' <=> e \in Members(queue')
    OBVIOUS
  <2>1. e \in Members(queue') => e \in Open'
    BY <1>2 DEF Open, Held, Members
  <2>2. e \in Open' => e \in Members(queue')
    BY <1>2, <1>3, <1>4
  <2> QED BY <2>1, <2>2
<1>6. all \ Open' \subseteq {e \in Numbered : Level(e) \in Bounded}
  BY <1>2, <1>5, GivesMembers DEF PlacesOK
<1>7. ~stopped => \A e \in all \ Open', f \in all \ (all \ Open') : Level(e) = Level(f) => e.n < f.n
  BY <1>2, <1>5, GivesOldest DEF PlacesOK
<1>8. \A e \in Open' : e \in Open \union all
  BY GivesOnce DEF Open
<1>9. \A e \in Open : e \notin Queued => e \in Open'
  BY GivesOnce DEF Open, Queued
<1>10. Queued \subseteq all
  OBVIOUS
<1>11. Open' = (Open \union all) \ (all \ Open')
  BY <1>8, <1>9, <1>10
<1> QED BY <1>6, <1>7, <1>11

LEMMA Tiers ==
    /\ \A e \in Numbered : Level(e) \in Levels /\ Urgency[Level(e)] \in Nat
    /\ \A k, l \in Levels : Urgency[k] = Urgency[l] => k = l
    /\ \A l \in Levels : Urgency[l] = Rank[l] /\ (l # "CRITICAL" => Urgency[l] > 0)
<1>1. \A e \in Numbered : Level(e) \in Levels
  BY Levelled DEF Numbered
<1>2. Urgency["CRITICAL"] = 0 /\ Urgency["HIGH"] = 1 /\ Urgency["NORMAL"] = 2 /\ Urgency["LOW"] = 3
      /\ Rank["CRITICAL"] = 0 /\ Rank["HIGH"] = 1 /\ Rank["NORMAL"] = 2 /\ Rank["LOW"] = 3
  BY DEF Urgency, Rank
<1>3. \A l \in Levels : l \in {"CRITICAL", "HIGH", "NORMAL", "LOW"}
  BY DEF Levels
<1> QED BY <1>1, <1>2, <1>3

\* What a full queue loses is what may be lost.
LEMMA LossIsFair ==
    ASSUME NEW lost, NEW waiting \in SUBSET Numbered, lost \subseteq waiting,
           \A e \in lost : Level(e) \in Bounded,
           ~stopped => \A e \in lost, f \in waiting \ lost : Level(e) = Level(f) => e.n < f.n
    PROVE  Delivery!MayGo(lost, waiting)
<1> DEFINE tier == [e \in Numbered |-> Urgency[Level(e)]]
<1>1. \A e, f \in Numbered : tier[e] = tier[f] => Level(e) = Level(f)
  BY Tiers
<1>2. ~stopped => \A e \in lost, f \in waiting \ lost : tier[e] = tier[f] => e.n < f.n
  BY <1>1
<1>3. lost \subseteq waiting \intersect {e \in Numbered : Level(e) \in Bounded}
  OBVIOUS
<1> QED BY <1>2, <1>3 DEF Delivery!MayGo

\* The fates that a publish leaves.
LEMMA DropFates ==
    ASSUME PlacesOK, NEW e \in Open, e \notin Members(queue) \ Members(queue')
    PROVE  e.n \notin DroppedBy(queue')
<1> SUFFICES ASSUME e.n \in DroppedBy(queue') PROVE FALSE
  OBVIOUS
<1>1. PICK y \in Members(queue) \ Members(queue') : y.n = e.n
  BY DEF DroppedBy
<1>2. e.n # 0
  BY DEF Open
<1>3. y \in Open
  BY <1>1, <1>2 DEF Open, Held
<1>4. y = e
  BY <1>1, <1>3 DEF PlacesOK, FateOK
<1> QED BY <1>1, <1>4

LEMMA DropOver ==
    ASSUME PlacesOK, NEW n \in DroppedBy(queue')
    PROVE  n \in Serial /\ n <= made /\ fate[n] = "accepted"
<1>1. PICK y \in Members(queue) \ Members(queue') : y.n = n /\ n # 0
  BY DEF DroppedBy
<1>2. y \in Open
  BY <1>1 DEF Open, Held
<1> QED BY <1>1, <1>2, OpenIs

LEMMA AcceptDelivers ==
    ASSUME PlacesOK, NEW x \in Events, x.n = made + 1, Accept(x), made' = made + 1,
           UNCHANGED <<current, todo, stopped>>
    PROVE  OnceOK' /\ FateOK' /\ DeliveryStep
<1>0. made \in Nat
  BY DEF PlacesOK, BusInv, CountOK
<1>1. Gives(x) /\ x.n # 0
  <2>1. queue' = Appended(x)
    BY DEF Accept
  <2> QED BY <1>0, <2>1, AppendedGives DEF PlacesOK
<1>2. /\ OnceOK'
      /\ \A e \in Open' : e \in Open \/ e = x
      /\ \A e \in Open : e \in Open' <=> e \notin Members(queue) \ Members(queue')
      /\ x \notin Open
  BY <1>1, GivesOnce
<1>3. x \in Numbered /\ x.n \in Serial
  BY <1>1 DEF Numbered, Events
<1>4. \A n \in Serial : fate'[n] = IF n = x.n THEN IF x \in Members(queue') THEN "accepted" ELSE "dropped"
                                   ELSE IF n \in DroppedBy(queue') THEN "dropped" ELSE fate[n]
  BY <1>3 DEF Accept, FateWith
<1>5. fate' \in [Serial -> Fates]
  BY <1>4 DEF Accept, FateWith, Fates, FateOK, PlacesOK
<1>6. Over' = Over
  <2>1. ASSUME NEW n \in Serial PROVE fate'[n] = "ended" <=> fate[n] = "ended"
    <3>1. CASE n = x.n
      <4>1. fate'[n] # "ended"
        BY <1>4, <3>1
      <4>2. fate[n] # "ended"
        BY <1>0, <3>1 DEF PlacesOK, FateOK
      <4> QED BY <4>1, <4>2
    <3>2. CASE n # x.n /\ n \in DroppedBy(queue')
      BY <1>4, <3>2, DropOver
    <3>3. CASE n # x.n /\ n \notin DroppedBy(queue')
      BY <1>4, <3>3
    <3> QED BY <3>1, <3>2, <3>3
  <2> QED BY <2>1 DEF Over
<1>7. FateOK'
  <2>1. ASSUME NEW e \in Open' PROVE fate'[e.n] = "accepted"
    <3>1. CASE e = x
      <4>1. x \in Members(queue')
        <5>1. \A d \in Dispatchers : x # current'[d]
          BY <1>1, <1>2 DEF Open, Held
        <5> QED BY <2>1, <3>1, <5>1 DEF Open, Held
      <4> QED BY <1>3, <1>4, <3>1, <4>1
    <3>2. CASE e \in Open
      <4>1. e.n \in Serial /\ e.n <= made /\ fate[e.n] = "accepted" /\ e.n \in Nat
        BY <3>2, OpenIs
      <4>2. e.n \notin DroppedBy(queue')
        BY <1>2, <2>1, <3>2, DropFates
      <4> QED BY <1>0, <1>4, <4>1, <4>2
    <3> QED BY <1>2, <2>1, <3>1, <3>2
  <2>2. ASSUME NEW e \in Open', NEW f \in Open', e.n = f.n PROVE e = f
    <3>1. (e \in Open \/ e = x) /\ (f \in Open \/ f = x)
      BY <1>2
    <3>2. \A g \in Open : g.n <= made /\ g.n \in Nat
      BY OpenIs
    <3> QED BY <1>0, <2>2, <3>1, <3>2 DEF PlacesOK, FateOK
  <2>3. \A n \in Serial : fate'[n] = "ended" => n <= made'
    <3>1. \A n \in Serial : fate'[n] = "ended" => fate[n] = "ended" /\ n \in Nat
      BY <1>6 DEF Over, Serial
    <3> QED BY <1>0, <3>1 DEF PlacesOK, FateOK
  <2> QED BY <1>5, <2>1, <2>2, <2>3 DEF FateOK
<1>8. Delivery!Accept(x)
  <2> DEFINE all == Queued \union {x}
             lost == all \ Open'
  <2>1. /\ lost \subseteq {e \in Numbered : Level(e) \in Bounded}
        /\ ~stopped => \A e \in lost, f \in all \ lost : Level(e) = Level(f) => e.n < f.n
        /\ lost \subseteq all
        /\ Open' = (Open \union all) \ lost
    BY <1>1, GivesLost
  <2>2. all \subseteq Numbered /\ Open \union all = Open \union {x}
    BY <1>3, OpenIs
  <2> HIDE DEF lost
  <2>3. Delivery!MayGo(lost, all)
    BY <2>1, <2>2, LossIsFair
  <2>4. \E l \in SUBSET (Delivery!Waiting \union {x}) :
           Delivery!MayGo(l, Delivery!Waiting \union {x}) /\ Open' = (Open \union {x}) \ l
    BY <2>1, <2>2, <2>3, OpenIs
  <2> HIDE DEF all
  <2>5. Served' = Served /\ Still' = Still /\ stopped' = stopped
    BY DispatchersStay
  <2> QED BY <1>6, <2>4, <2>5 DEF Delivery!Accept, Open, Served, Still, Over
<1>9. Delivery!Next
  BY <1>3, <1>8 DEF Delivery!Next
<1> QED BY <1>2, <1>7, <1>9 DEF DeliveryStep

\* A dispatcher that dies of an overflow of NORMAL has lost the oldest of it.
LEMMA LossDelivers ==
    ASSUME PlacesOK, NEW x, Gives(x), x.n = 0, made' = made,
           fate' = FateWith(DroppedBy(queue'), "dropped"), UNCHANGED <<current, todo, stopped>>
    PROVE  OnceOK' /\ FateOK' /\ DeliveryStep
<1>0. made \in Nat
  BY DEF PlacesOK, BusInv, CountOK
<1>1. /\ OnceOK'
      /\ \A e \in Open' : e \in Open \/ e = x
      /\ \A e \in Open : e \in Open' <=> e \notin Members(queue) \ Members(queue')
  BY GivesOnce
<1>2. \A e \in Open' : e \in Open /\ e.n \in Serial /\ e.n \notin DroppedBy(queue') /\ fate[e.n] = "accepted"
  <2>1. \A e \in Open' : e.n # 0
    BY DEF Open
  <2> QED BY <1>1, <2>1, DropFates, OpenIs
<1>3. \A n \in Serial : fate'[n] = IF n \in DroppedBy(queue') THEN "dropped" ELSE fate[n]
  BY DEF FateWith
<1>4. \A n \in Serial : fate'[n] = "ended" <=> fate[n] = "ended"
  BY <1>3, DropOver
<1>5. Over' = Over
  BY <1>4 DEF Over
<1>6. fate' \in [Serial -> Fates]
  BY <1>3 DEF FateWith, Fates, FateOK, PlacesOK
<1>7. FateOK'
  BY <1>2, <1>3, <1>4, <1>6 DEF FateOK, PlacesOK
<1>8. Delivery!Lose
  <2> DEFINE lost == Queued \ Open'
  <2>1. /\ lost \subseteq {e \in Numbered : Level(e) \in Bounded}
        /\ ~stopped => \A e \in lost, f \in Queued \ lost : Level(e) = Level(f) => e.n < f.n
        /\ lost \subseteq Queued
        /\ Open' = (Open \union Queued) \ lost
    BY GivesLost
  <2>2. Queued \subseteq Numbered /\ Open \union Queued = Open
    BY OpenIs
  <2> HIDE DEF lost
  <2>3. Delivery!MayGo(lost, Queued)
    BY <2>1, <2>2, LossIsFair
  <2>4. \E l \in SUBSET Delivery!Waiting : Delivery!MayGo(l, Delivery!Waiting) /\ Open' = Open \ l
    BY <2>1, <2>2, <2>3, OpenIs
  <2>5. Served' = Served /\ Still' = Still
    BY DispatchersStay
  <2> QED BY <1>5, <2>4, <2>5 DEF Delivery!Lose, Open, Served, Still, Over
<1>9. Delivery!Next
  BY <1>8 DEF Delivery!Next
<1> QED BY <1>1, <1>7, <1>9 DEF DeliveryStep

LEMMA ServedFirst ==
    ASSUME NEW d, todo[d] \subseteq Subscribers, todo[d] # {}
    PROVE  Serving(d) \in todo[d] /\ \A c \in todo[d] : Serving(d) <= c
<1>1. Subscribers \subseteq Nat
  <2> DEFINE n == Cardinality(Subscribers)
  <2>1. IsFiniteSet(Subscribers) /\ Subscribers = 1 .. n
    BY ConstantsAssumption DEF ConstantsAssumption
  <2>2. n \in Nat
    BY <2>1, FS_CardinalityType
  <2> HIDE DEF n
  <2> QED BY <2>1, <2>2
<1> QED BY <1>1, LeastExists DEF Serving

\* The same numbered events are queued.
Kept == /\ \A l \in Levels : Distinct(queue'[l])
        /\ \A e : e.n # 0 => (e \in Members(queue') <=> e \in Members(queue))

LEMMA ServeDelivers ==
    ASSUME PlacesOK, NEW d \in Dispatchers, Running(d), Serve(d, current[d], Others(d)), fate' = Ended(d),
           Kept, UNCHANGED <<made, stopped>>
    PROVE  OnceOK' /\ FateOK' /\ DeliveryStep
<1>0. /\ current \in [Dispatchers -> Events \union {NoEvent}] /\ todo \in [Dispatchers -> SUBSET Subscribers]
      /\ todo[d] \subseteq Subscribers /\ todo[d] # {} /\ made \in Nat
  BY DEF PlacesOK, BusInv, DispatchOK, CountOK
<1>1. /\ current' = [current EXCEPT ![d] = IF Others(d) = {} THEN NoEvent ELSE current[d]]
      /\ todo' = [todo EXCEPT ![d] = Others(d)]
  BY DEF Serve
<1>2. /\ \A c \in Dispatchers \ {d} : current'[c] = current[c] /\ todo'[c] = todo[c] /\ Shown(c)' = Shown(c)
      /\ todo'[d] = Others(d)
      /\ Others(d) = {} => current'[d] = NoEvent /\ ~Shown(d)'
      /\ Others(d) # {} => current'[d] = current[d] /\ Shown(d)' = Shown(d)
  BY <1>0, <1>1 DEF Shown, NoEvent
<1>3. \A c \in Dispatchers : Shown(c)' => Shown(c) /\ current'[c] = current[c]
  BY <1>2
<1>4. OnceOK'
  <2>1. \A c \in Dispatchers : Shown(c)' => current'[c] \notin Members(queue')
    BY <1>3, OpenIs DEF Kept, Queued, Shown
  <2>2. ASSUME NEW b \in Dispatchers, NEW c \in Dispatchers, b # c, Shown(c)' PROVE current'[b] # current'[c]
    <3>1. current'[b] = current[b] \/ current'[b] = NoEvent
      BY <1>2
    <3>2. current'[c] = current[c] /\ current[c] # NoEvent
      BY <1>3, <2>2 DEF Shown, NoEvent
    <3> QED BY <1>3, <2>2, <3>1, <3>2 DEF PlacesOK, OnceOK
  <2> QED BY <2>1, <2>2 DEF OnceOK, Kept, Members, Distinct
<1>5. Queued' = Queued
  BY DEF Queued, Kept, Members
<1>6. Open' = IF Shown(d) /\ Others(d) = {} THEN Open \ {current[d]} ELSE Open
  <2>1. \A e : e \in Open' <=> e \in Queued \/ \E c \in Dispatchers : Shown(c)' /\ e = current'[c]
    BY <1>5 DEF Open, Held, Queued, Shown
  <2>2. \A e : e \in Open <=> e \in Queued \/ \E c \in Dispatchers : Shown(c) /\ e = current[c]
    BY OpenIs
  <2>3. CASE Shown(d) /\ Others(d) = {}
    <3>1. current[d] \notin Queued /\ \A c \in Dispatchers \ {d} : current[c] # current[d]
      BY <2>3, OpenIs DEF PlacesOK, OnceOK
    <3> QED BY <1>2, <2>1, <2>2, <2>3, <3>1
  <2>4. CASE ~(Shown(d) /\ Others(d) = {})
    <3>1. \A c \in Dispatchers : (Shown(c)' <=> Shown(c)) /\ (Shown(c) => current'[c] = current[c])
      BY <1>2, <2>4
    <3> QED BY <2>1, <2>2, <2>4, <3>1
  <2> QED BY <2>3, <2>4
<1>7. \A n \in Serial : fate'[n] = IF Others(d) = {} /\ n = current[d].n THEN "ended" ELSE fate[n]
  BY DEF Ended, FateWith
<1>8. Over' = IF Shown(d) /\ Others(d) = {} THEN Over \union {current[d].n} ELSE Over
  <2>1. CASE Shown(d) /\ Others(d) = {}
    <3>1. current[d].n \in Serial
      BY <2>1, OpenIs
    <3> QED BY <1>7, <2>1, <3>1 DEF Over
  <2>2. CASE ~(Shown(d) /\ Others(d) = {})
    <3>1. \A n \in Serial : n # 0
      BY DEF Serial
    <3>2. \A n \in Serial : fate'[n] = fate[n]
      BY <1>7, <2>2, <3>1 DEF Shown
    <3> QED BY <2>2, <3>2 DEF Over
  <2> QED BY <2>1, <2>2
<1>9. FateOK'
  <2>1. fate' \in [Serial -> Fates]
    BY DEF Ended, FateWith, Fates, PlacesOK, FateOK
  <2>2. ASSUME NEW e \in Open' PROVE fate'[e.n] = "accepted"
    <3>1. e \in Open /\ e.n \in Serial /\ fate[e.n] = "accepted" /\ e.n # 0
      BY <1>6, OpenIs DEF Open
    <3>2. ~(Others(d) = {} /\ e.n = current[d].n)
      <4> SUFFICES ASSUME Others(d) = {}, e.n = current[d].n PROVE FALSE
        OBVIOUS
      <4>1. Shown(d) /\ current[d] \in Open
        BY <3>1, OpenIs DEF Shown
      <4>2. e = current[d]
        BY <3>1, <4>1 DEF PlacesOK, FateOK
      <4> QED BY <1>6, <4>1, <4>2
    <3> QED BY <1>7, <3>1, <3>2
  <2>3. \A n \in Serial : fate'[n] = "ended" => n <= made'
    <3>1. Shown(d) => current[d].n <= made
      BY OpenIs
    <3>2. \A n \in Serial : n # 0
      BY DEF Serial
    <3> QED BY <1>7, <3>1, <3>2 DEF Shown, PlacesOK, FateOK
  <2>4. \A e, f \in Open' : e.n = f.n => e = f
    BY <1>6 DEF PlacesOK, FateOK
  <2> QED BY <2>1, <2>2, <2>3, <2>4 DEF FateOK
<1>10. DeliveryStep
  <2>1. CASE ~Shown(d)
    <3>1. Served' = Served
      BY <1>2, <2>1 DEF Served
    <3>2. Still' = Still
      BY <1>2, <2>1 DEF Still
    <3> QED BY <1>6, <1>8, <2>1, <3>1, <3>2, Hidden
  <2>2. CASE Shown(d)
    <3>1. Served[d] = current[d] /\ Still[d] = todo[d] /\ current[d] # NoEvent
      BY <2>2 DEF Served, Still, Shown, NoEvent
    <3>2. Serving(d) \in todo[d] /\ \A c \in todo[d] : Serving(d) <= c
      BY <1>0, ServedFirst
    <3>3. Still' = [Still EXCEPT ![d] = todo[d] \ {Serving(d)}]
      <4>1. Still'[d] = Others(d)
        BY <1>2, <2>2 DEF Still
      <4>2. \A c \in Dispatchers \ {d} : Still'[c] = Still[c]
        BY <1>2 DEF Still
      <4> QED BY <4>1, <4>2 DEF Still, Others
    <3>4. Still'[d] = Others(d)
      BY <3>3 DEF Others, Still
    <3>5. Others(d) # {} => Open' = Open /\ Served' = Served /\ Over' = Over
      BY <1>2, <1>6, <1>8 DEF Served
    <3>6. Others(d) = {} => Open' = Open \ {current[d]} /\ Over' = Over \union {current[d].n}
                            /\ Served' = [Served EXCEPT ![d] = NoEvent]
      <4> SUFFICES ASSUME Others(d) = {} PROVE Served' = [Served EXCEPT ![d] = NoEvent]
        BY <1>6, <1>8, <2>2
      <4>1. \A c \in Dispatchers \ {d} : Served'[c] = Served[c]
        BY <1>2 DEF Served
      <4>2. Served'[d] = NoEvent
        BY <1>2 DEF Served
      <4> QED BY <4>1, <4>2 DEF Served
    <3>7. /\ Served[d] # NoEvent
          /\ \E c \in Still[d] : (\A x \in Still[d] : c <= x) /\ Still' = [Still EXCEPT ![d] = Still[d] \ {c}]
          /\ IF Still'[d] # {} THEN Open' = Open /\ Served' = Served /\ Over' = Over
             ELSE /\ Open' = Open \ {Served[d]} /\ Over' = Over \union {Served[d].n}
                  /\ Served' = [Served EXCEPT ![d] = NoEvent]
          /\ made' = made /\ stopped' = stopped
      BY <3>1, <3>2, <3>3, <3>4, <3>5, <3>6
    <3>8. Delivery!Show(d)
      BY <3>7 DEF Delivery!Show, Open, Served, Still, Over
    <3> QED BY <3>8 DEF DeliveryStep, Delivery!Next
  <2> QED BY <2>1, <2>2
<1> QED BY <1>4, <1>9, <1>10

LEMMA Begins ==
    ASSUME NEW d \in Dispatchers, NEW f \in Numbered, Delivery!Begin(d, f) \/ Delivery!Pass(d, f)
    PROVE  DeliveryStep
<1>1. Delivery!Next
  BY DEF Delivery!Next
<1> QED BY <1>1 DEF DeliveryStep

LEMMA PopDelivers ==
    ASSUME PlacesOK, NEW d \in Dispatchers, Pop(d)
    PROVE  OnceOK' /\ FateOK' /\ DeliveryStep
<1>0. /\ current \in [Dispatchers -> Events \union {NoEvent}] /\ todo \in [Dispatchers -> SUBSET Subscribers]
      /\ queue \in [Levels -> Seq(Events)] /\ made \in Nat
      /\ mode[d] = "idle" /\ current[d] = NoEvent /\ ~Shown(d)
      /\ made' = made /\ stopped' = stopped
  BY DEF PlacesOK, BusInv, DispatchOK, CountOK, QueueOK, Pop, Shown, NoEvent
<1>1. PICK l \in Levels :
         /\ NextLevel(l) /\ queue' = [queue EXCEPT ![l] = Tail(queue[l])]
         /\ \/ /\ SubscribersOf(Head(queue[l])) = {} /\ fate' = FateWith({Head(queue[l]).n}, "ended")
               /\ UNCHANGED <<current, todo>>
            \/ /\ SubscribersOf(Head(queue[l])) # {} /\ current' = [current EXCEPT ![d] = Head(queue[l])]
               /\ todo' = [todo EXCEPT ![d] = SubscribersOf(Head(queue[l]))] /\ fate' = fate
  BY DEF Pop, Serve
<1> DEFINE q == queue[l]
           t == Tail(q)
<1>e. PICK e : e = Head(q)
  OBVIOUS
<1>2. q \in Seq(Events) /\ q # <<>> /\ Distinct(q)
  BY <1>0, <1>1 DEF NextLevel, Waiting, PlacesOK, OnceOK
<1>3. /\ t \in Seq(Events) /\ DOMAIN t = 1 .. Len(q) - 1 /\ DOMAIN q = 1 .. Len(q) /\ Len(q) \in Nat \ {0}
      /\ \A i \in DOMAIN t : t[i] = q[i + 1]
      /\ e = q[1]
  BY <1>2, <1>e
<1>4. \A k \in Levels : queue'[k] = IF k = l THEN t ELSE queue[k]
  BY <1>0, <1>1
<1>5. e \in Events /\ e \in Members(queue) /\ Level(e) = l /\ e.n \in Nat
  <2>1. 1 \in DOMAIN q
    BY <1>3
  <2>2. q \in Seq(Placed(l, made))
    BY DEF PlacesOK, BusInv, QueueOK
  <2>3. e \in Placed(l, made)
    BY <1>3, <2>1, <2>2
  <2>4. e \in Members(queue)
    BY <1>3, <2>1, MembersAre
  <2> QED BY <2>3, <2>4, Levelled DEF Placed
<1>6. e.n # 0 => \A i \in DOMAIN t : t[i] # e
  <2> SUFFICES ASSUME e.n # 0, NEW i \in DOMAIN t, t[i] = e PROVE FALSE
    OBVIOUS
  <2>1. i + 1 \in DOMAIN q /\ 1 \in DOMAIN q /\ i + 1 # 1 /\ q[i + 1] = q[1] /\ q[1].n # 0
    BY <1>3
  <2> HIDE DEF q
  <2> QED BY <1>2, <2>1 DEF Distinct
<1>d. \A k \in Levels : Distinct(queue'[k])
  <2>1. Shift(q, t)
    BY <1>2, ShiftTail
  <2>2. Distinct(t)
    BY <1>2, <1>3, <2>1, ShiftDistinct
  <2> HIDE DEF t
  <2> QED BY <1>4, <2>2 DEF PlacesOK, OnceOK
<1>7. \A f : f.n # 0 => (f \in Members(queue') <=> f \in Members(queue) /\ f # e)
  <2> SUFFICES ASSUME NEW f, f.n # 0 PROVE f \in Members(queue') <=> f \in Members(queue) /\ f # e
    OBVIOUS
  <2>1. ASSUME f \in Members(queue') PROVE f \in Members(queue) /\ f # e
    <3>1. PICK k \in Levels : \E i \in DOMAIN queue'[k] : queue'[k][i] = f
      BY <2>1, MembersAre
    <3>2. CASE k = l
      <4>1. PICK i \in DOMAIN t : t[i] = f
        BY <1>4, <3>1, <3>2
      <4>2. i + 1 \in DOMAIN q /\ q[i + 1] = f
        BY <1>3, <4>1
      <4>3. f \in Members(queue)
        BY <4>2, MembersAre
      <4> HIDE DEF t, q
      <4> QED BY <1>6, <4>1, <4>3
    <3>3. CASE k # l
      <4>1. queue[k] \in Seq(Placed(k, made)) /\ \E i \in DOMAIN queue[k] : queue[k][i] = f
        BY <1>4, <3>1, <3>3 DEF PlacesOK, BusInv, QueueOK
      <4>2. f \in Placed(k, made)
        BY <4>1
      <4>3. f # e
        BY <1>5, <3>3, <4>2 DEF Placed
      <4> QED BY <4>1, <4>3, MembersAre
    <3> QED BY <3>2, <3>3
  <2>2. ASSUME f \in Members(queue), f # e PROVE f \in Members(queue')
    <3>p. PICK k \in Levels : \E i \in DOMAIN queue[k] : queue[k][i] = f
      BY <2>2, MembersAre
    <3>1. PICK i \in DOMAIN queue[k] : queue[k][i] = f
      BY <3>p
    <3>2. CASE k = l
      <4>1. i # 1 /\ i - 1 \in DOMAIN t /\ (i - 1) + 1 = i
        BY <1>3, <2>2, <3>1, <3>2
      <4>2. t[i - 1] = f
        BY <1>3, <3>1, <3>2, <4>1
      <4> HIDE DEF t
      <4>3. \E j \in DOMAIN queue'[k] : queue'[k][j] = f
        BY <1>4, <3>2, <4>1, <4>2
      <4> QED BY <4>3, MembersAre
    <3>3. CASE k # l
      <4>1. \E j \in DOMAIN queue'[k] : queue'[k][j] = f
        BY <1>4, <3>1, <3>3
      <4> QED BY <4>1, MembersAre
    <3> QED BY <3>2, <3>3
  <2> QED BY <2>1, <2>2
<1>8. Queued' = Queued \ {e}
  BY <1>7 DEF Queued, Members
<1>9. ~stopped => \A c \in Dispatchers \ {d} : current[c] = NoEvent
  <2>1. ~stopped => \A c \in Dispatchers \ {d} : mode[c] = "off"
    BY <1>0, OneDispatcher DEF PlacesOK
  <2> QED BY <2>1 DEF PlacesOK, BusInv, DispatchOK
<1>10. Delivery!Free(d)
  <2>1. Served[d] = NoEvent /\ (~stopped => \A c \in Dispatchers : Served[c] = NoEvent)
    BY <1>0, <1>9 DEF Served
  <2> QED BY <2>1 DEF Delivery!Free, Served
<1>11. e.n # 0 => Delivery!First(e)
  <2> SUFFICES ASSUME e.n # 0 PROVE Delivery!First(e)
    OBVIOUS
  <2> DEFINE tier == [f \in Numbered |-> Urgency[Level(f)]]
  <2>1. e \in Queued /\ e \in Numbered
    BY <1>5 DEF Queued, Numbered
  <2>2. \A f \in Queued : f \in Numbered /\ f \in Members(queue) /\ Level(f) \in Levels /\ queue[Level(f)] # <<>>
    <3> SUFFICES ASSUME NEW f \in Queued
                 PROVE  f \in Numbered /\ f \in Members(queue) /\ Level(f) \in Levels /\ queue[Level(f)] # <<>>
      OBVIOUS
    <3>1. f \in Members(queue) /\ f \in Numbered
      BY MemberLevel DEF Queued, PlacesOK, Numbered
    <3>2. Level(f) \in Levels /\ \E i \in DOMAIN queue[Level(f)] : queue[Level(f)][i] = f
      BY <3>1, MemberLevel DEF PlacesOK
    <3> QED BY <3>1, <3>2
  <2>3. \A f \in Queued : tier[e] <= tier[f]
    <3> SUFFICES ASSUME NEW f \in Queued PROVE tier[e] <= tier[f]
      OBVIOUS
    <3>1. Rank[l] <= Rank[Level(f)]
      BY <1>1, <2>2 DEF NextLevel, Waiting
    <3> QED BY <1>5, <2>1, <2>2, <3>1, Tiers
  <2>4. ~stopped => \A f \in Queued : tier[f] = tier[e] => e.n <= f.n
    <3> SUFFICES ASSUME ~stopped, NEW f \in Queued, tier[f] = tier[e] PROVE e.n <= f.n
      OBVIOUS
    <3>1. Level(f) = l
      BY <1>5, <2>1, <2>2, Tiers
    <3>2. Sorted(q)
      BY DEF PlacesOK, BusInv, SortedOK
    <3>p. f \in Events /\ f.n \in Nat /\ \E i \in DOMAIN q : q[i] = f
      BY <2>2, <3>1, MemberLevel DEF PlacesOK
    <3>3. PICK i \in DOMAIN q : q[i] = f
      BY <3>p
    <3>4. i = 1 \/ 1 < i
      BY <1>3
    <3>5. 1 \in DOMAIN q
      BY <1>3
    <3> HIDE DEF q
    <3> QED BY <1>3, <1>5, <3>2, <3>3, <3>4, <3>5, <3>p DEF Sorted, Queued
  <2>5. /\ e \in Delivery!Waiting
        /\ \A f \in Delivery!Waiting : tier[e] <= tier[f]
        /\ ~stopped => \A f \in Delivery!Waiting : tier[f] = tier[e] => e.n <= f.n
    BY <2>1, <2>3, <2>4, OpenIs
  <2> QED BY <2>5 DEF Delivery!First
<1>12. CASE SubscribersOf(e) = {}
  <2>1. fate' = FateWith({e.n}, "ended") /\ UNCHANGED <<current, todo>>
    BY <1>1, <1>12, <1>e
  <2>2. Served' = Served /\ Still' = Still /\ \A c \in Dispatchers : Shown(c)' = Shown(c) /\ current'[c] = current[c]
    BY <2>1, DispatchersStay
  <2>3. OnceOK'
    <3>1. \A c \in Dispatchers : Shown(c)' => current'[c] \notin Members(queue')
      BY <1>7, <2>2 DEF PlacesOK, OnceOK, Shown
    <3> QED BY <1>d, <2>2, <3>1 DEF PlacesOK, OnceOK, Members, Distinct
  <2>4. \A f : f \in Open' <=> f \in Open /\ (e.n # 0 => f # e)
    <3>1. \A f : f \in Open' <=> f \in Queued' \/ \E c \in Dispatchers : Shown(c) /\ f = current[c]
      BY <2>2 DEF Open, Held, Queued, Shown
    <3>2. e.n # 0 => \A c \in Dispatchers : Shown(c) => e # current[c]
      BY <1>5 DEF PlacesOK, OnceOK
    <3>3. e.n = 0 => e \notin Queued
      BY DEF Queued
    <3> QED BY <1>8, <3>1, <3>2, <3>3, OpenIs
  <2>5. \A n \in Serial : fate'[n] = IF n = e.n THEN "ended" ELSE fate[n]
    BY <2>1 DEF FateWith
  <2>6. Over' = IF e.n # 0 THEN Over \union {e.n} ELSE Over
    <3>1. CASE e.n = 0
      <4>1. \A n \in Serial : n # 0
        BY DEF Serial
      <4> QED BY <2>5, <3>1, <4>1 DEF Over
    <3>2. CASE e.n # 0
      <4>1. e.n \in Serial
        BY <1>5, <3>2 DEF Events
      <4> QED BY <2>5, <3>2, <4>1 DEF Over
    <3> QED BY <3>1, <3>2
  <2>7. FateOK'
    <3>1. fate' \in [Serial -> Fates]
      BY <2>1 DEF FateWith, Fates, PlacesOK, FateOK
    <3>2. ASSUME NEW f \in Open' PROVE fate'[f.n] = "accepted"
      <4>1. f \in Open /\ f.n \in Serial /\ fate[f.n] = "accepted" /\ f.n # 0
        BY <2>4, OpenIs DEF Open
      <4>2. f.n # e.n
        <5>1. f.n = e.n => e \in Open
          BY <1>5, <4>1 DEF Open, Held
        <5> QED BY <2>4, <4>1, <5>1 DEF PlacesOK, FateOK
      <4> QED BY <2>5, <4>1, <4>2
    <3>3. \A n \in Serial : fate'[n] = "ended" => n <= made'
      BY <1>0, <1>5, <2>5, MemberLevel DEF PlacesOK, FateOK
    <3>4. \A f, g \in Open' : f.n = g.n => f = g
      BY <2>4 DEF PlacesOK, FateOK
    <3> QED BY <3>1, <3>2, <3>3, <3>4 DEF FateOK
  <2>8. CASE e.n = 0
    <3>1. Open' = Open
      BY <2>4, <2>8
    <3> QED BY <1>0, <2>2, <2>3, <2>6, <2>7, <2>8, <3>1, Hidden
  <2>9. CASE e.n # 0
    <3>1. Open' = Open \ {e} /\ Over' = Over \union {e.n} /\ e \in Numbered
      BY <1>5, <2>4, <2>6, <2>9 DEF Numbered
    <3>2. Delivery!Pass(d, e)
      BY <1>0, <1>10, <1>11, <1>12, <2>2, <2>9, <3>1 DEF Delivery!Pass, Open, Served, Still, Over
    <3> QED BY <2>3, <2>7, <3>1, <3>2, Begins
  <2> QED BY <2>8, <2>9
<1>13. CASE SubscribersOf(e) # {}
  <2>1. current' = [current EXCEPT ![d] = e] /\ todo' = [todo EXCEPT ![d] = SubscribersOf(e)] /\ fate' = fate
    BY <1>1, <1>13, <1>e
  <2>2. /\ \A c \in Dispatchers \ {d} : current'[c] = current[c] /\ todo'[c] = todo[c] /\ Shown(c)' = Shown(c)
        /\ current'[d] = e /\ todo'[d] = SubscribersOf(e) /\ (Shown(d)' <=> e.n # 0)
    BY <1>0, <2>1 DEF Shown
  <2>3. OnceOK'
    <3>1. ASSUME NEW c \in Dispatchers, Shown(c)' PROVE current'[c] \notin Members(queue')
      <4>1. CASE c = d
        BY <1>7, <2>2, <3>1, <4>1
      <4>2. CASE c # d
        BY <1>7, <2>2, <3>1, <4>2 DEF PlacesOK, OnceOK, Shown
      <4> QED BY <4>1, <4>2
    <3>2. ASSUME NEW b \in Dispatchers, NEW c \in Dispatchers, b # c, Shown(c)' PROVE current'[b] # current'[c]
      <4>1. \A a \in Dispatchers : current[a].n # 0 => current[a] # e
        BY <1>5 DEF PlacesOK, OnceOK, Shown
      <4>2. CASE c = d
        BY <2>2, <3>2, <4>1, <4>2
      <4>3. CASE b = d
        BY <2>2, <3>2, <4>1, <4>3 DEF Shown
      <4>4. CASE b # d /\ c # d
        BY <2>2, <3>2, <4>4 DEF PlacesOK, OnceOK
      <4> QED BY <4>2, <4>3, <4>4
    <3> QED BY <1>d, <3>1, <3>2 DEF OnceOK, Members, Distinct
  <2>4. Open' = Open
    <3>1. \A f : f \in Open' <=> f \in Queued' \/ \E c \in Dispatchers : Shown(c)' /\ f = current'[c]
      BY DEF Open, Held, Queued, Shown
    <3>2. e \in Queued <=> e.n # 0
      BY <1>5 DEF Queued
    <3>3. (\E c \in Dispatchers : Shown(c)') <=> e.n # 0 \/ \E c \in Dispatchers \ {d} : Shown(c)
      BY <2>2
    <3>4. \A f : (\E c \in Dispatchers : Shown(c)' /\ f = current'[c])
                   <=> (e.n # 0 /\ f = e) \/ \E c \in Dispatchers \ {d} : Shown(c) /\ f = current[c]
      BY <2>2
    <3>5. \A f : f \in Open <=> f \in Queued \/ \E c \in Dispatchers \ {d} : Shown(c) /\ f = current[c]
      BY <1>0, OpenIs
    <3>6. \A f : f \in Queued' <=> f \in Queued /\ f # e
      BY <1>8
    <3>7. \A f : f \in Open' <=> f \in Open
      BY <3>1, <3>2, <3>4, <3>5, <3>6
    <3> QED BY <3>7
  <2>5. Over' = Over
    BY <2>1 DEF Over
  <2>6. FateOK'
    BY <1>0, <2>1, <2>4 DEF PlacesOK, FateOK
  <2>7. CASE e.n = 0
    <3>1. Served' = Served
      BY <1>0, <2>2, <2>7 DEF Served
    <3>2. Still' = Still
      BY <1>0, <2>2, <2>7 DEF Still
    <3> QED BY <1>0, <2>3, <2>4, <2>5, <2>6, <3>1, <3>2, Hidden
  <2>8. CASE e.n # 0
    <3>1. e \in Numbered
      BY <1>5, <2>8 DEF Numbered
    <3>2. Served' = [Served EXCEPT ![d] = e]
      <4>1. Served'[d] = e /\ \A c \in Dispatchers \ {d} : Served'[c] = Served[c]
        BY <2>2, <2>8 DEF Served
      <4> QED BY <4>1 DEF Served
    <3>3. Still' = [Still EXCEPT ![d] = SubscribersOf(e)]
      <4>1. Still'[d] = SubscribersOf(e) /\ \A c \in Dispatchers \ {d} : Still'[c] = Still[c]
        BY <2>2, <2>8 DEF Still
      <4> QED BY <4>1 DEF Still
    <3>4. [f \in Numbered |-> SubscribersOf(f)][e] = SubscribersOf(e)
      BY <3>1
    <3>5. Delivery!Begin(d, e)
      BY <1>0, <1>10, <1>11, <1>13, <2>4, <2>5, <2>8, <3>2, <3>3, <3>4 DEF Delivery!Begin, Open, Served, Still, Over
    <3> QED BY <2>3, <2>6, <3>1, <3>5, Begins
  <2> QED BY <2>7, <2>8
<1> QED BY <1>12, <1>13

LEMMA KeptOnce ==
    ASSUME PlacesOK, Kept, UNCHANGED <<current, todo, fate, made>>
    PROVE  OnceOK' /\ FateOK' /\ Open' = Open /\ Served' = Served /\ Still' = Still /\ Over' = Over
<1>1. Served' = Served /\ Still' = Still /\ \A d \in Dispatchers : Shown(d)' = Shown(d) /\ current'[d] = current[d]
  BY DispatchersStay
<1>2. Open' = Open
  BY <1>1 DEF Open, Held, Kept, Members
<1>3. Over' = Over
  BY DEF Over
<1>4. FateOK'
  BY <1>2 DEF FateOK, PlacesOK
<1>5. \A d \in Dispatchers : Shown(d) => current[d].n # 0 /\ current[d] \notin Members(queue)
  BY DEF Shown, PlacesOK, OnceOK
<1>6. \A d \in Dispatchers : Shown(d)' => current'[d] \notin Members(queue')
  BY <1>1, <1>5 DEF Kept
<1>7. OnceOK'
  BY <1>1, <1>6 DEF OnceOK, Kept, PlacesOK, Members, Distinct
<1> QED BY <1>1, <1>2, <1>3, <1>4, <1>7

LEMMA KeptDelivers ==
    ASSUME PlacesOK, Kept, UNCHANGED <<current, todo, fate, made, stopped>>
    PROVE  OnceOK' /\ FateOK' /\ DeliveryStep
BY KeptOnce, Hidden

LEMMA SameKept ==
    ASSUME PlacesOK, queue' = queue
    PROVE  Kept
BY DEF Kept, PlacesOK, OnceOK

LEMMA SystemKept ==
    ASSUME PlacesOK, NEW x, Gives(x), x.n = 0, Members(queue) \subseteq Members(queue')
    PROVE  Kept
<1>1. \A l \in Levels : Distinct(queue'[l])
  BY GivesDistinct DEF PlacesOK
<1>2. \A e \in Members(queue') : e.n # 0 => e \in Members(queue)
  BY GivesMembers DEF PlacesOK
<1> QED BY <1>1, <1>2 DEF Kept

LEMMA WatchdogDelivers ==
    ASSUME PlacesOK, WatchdogReports
    PROVE  OnceOK' /\ FateOK' /\ DeliveryStep
<1> DEFINE x == SysEvent("watchdog")
<1>1. queue' = [queue EXCEPT !["CRITICAL"] = Append(queue["CRITICAL"], x)]
      /\ UNCHANGED <<current, todo, fate, made, stopped>>
  BY DEF WatchdogReports
<1>2. x \in Events /\ x.n = 0 /\ Level(x) = "CRITICAL" /\ "CRITICAL" \in Levels /\ "HIGH" \in Levels
  BY Levelled DEF SysLevel, Levels
<1> HIDE DEF x
<1>3. queue \in [Levels -> Seq(Events)]
  BY DEF PlacesOK, BusInv, QueueOK
<1>4. \A l \in Levels : queue'[l] = Fed(l, x) /\ Fed(l, x) \in Seq(Events)
  BY <1>1, <1>2, <1>3 DEF Fed
<1>5. queue' \in [Levels -> Seq(Events)]
  BY <1>1, <1>2, <1>3
<1>6. \A l \in Levels : Shift(Fed(l, x), queue'[l])
  BY <1>4, ShiftNone
<1>7. Gives(x)
  BY <1>2, <1>4, <1>5, <1>6 DEF Gives
<1>8. Members(queue) \subseteq Members(queue')
  <2>1. Members(queue) \subseteq Members(queue)'
    BY <1>1, <1>2, <1>3, LongerHolds
  <2> QED BY <2>1 DEF Members
<1> QED BY <1>1, <1>2, <1>7, <1>8, SystemKept, KeptDelivers

LEMMA TimesOutDelivers ==
    ASSUME PlacesOK, NEW d \in Dispatchers, HandlerTimesOut(d)
    PROVE  OnceOK' /\ FateOK' /\ DeliveryStep
<1> DEFINE x == SysEvent("handler_timeout")
<1>1. queue' = Appended(x) /\ x \in Events /\ x.n = 0 /\ Level(x) = "NORMAL" /\ Running(d) /\ UNCHANGED <<made, stopped>>
  BY Levelled DEF HandlerTimesOut, SysLevel
<1> HIDE DEF x
<1>2. Gives(x)
  BY <1>1, AppendedGives DEF PlacesOK
<1>3. CASE Full("NORMAL")
  <2>1. UNCHANGED <<current, todo>> /\ fate' = FateWith(DroppedBy(queue'), "dropped")
    BY <1>3 DEF HandlerTimesOut
  <2> QED BY <1>1, <1>2, <2>1, LossDelivers
<1>4. CASE ~Full("NORMAL")
  <2>1. Serve(d, current[d], Others(d)) /\ fate' = Ended(d)
    BY <1>4 DEF HandlerTimesOut
  <2>2. Members(queue) \subseteq Members(queue')
    BY <1>1, <1>4, AppendedLoses DEF PlacesOK
  <2>3. Kept
    BY <1>1, <1>2, <2>2, SystemKept
  <2> QED BY <1>1, <2>1, <2>3, ServeDelivers
<1> QED BY <1>3, <1>4

LEMMA InterruptDelivers ==
    ASSUME PlacesOK, NEW d \in Dispatchers, Interrupt(d)
    PROVE  OnceOK' /\ FateOK' /\ DeliveryStep
<1>c. PICK x : x = current[d]
  OBVIOUS
<1>0. /\ current \in [Dispatchers -> Events \union {NoEvent}] /\ todo \in [Dispatchers -> SUBSET Subscribers]
      /\ queue \in [Levels -> Seq(Events)] /\ (\A l \in Levels : queue[l] \in Seq(Placed(l, made))) /\ made \in Nat
      /\ Running(d) /\ x \in Events /\ Level(x) \in Levels /\ Level(x) # "CRITICAL"
  <2>1. Running(d) /\ Level(x) # "CRITICAL"
    BY <1>c DEF Interrupt, Interruptible, Lesser
  <2> QED BY <1>c, <2>1, Levelled DEF PlacesOK, BusInv, DispatchOK, CountOK, QueueOK
<1>1. /\ queue' = [queue EXCEPT ![Level(x)] = <<x>> \o queue[Level(x)]]
      /\ current' = [current EXCEPT ![d] = NoEvent] /\ todo' = [todo EXCEPT ![d] = {}]
      /\ UNCHANGED <<fate, made, stopped>>
  BY <1>c DEF Interrupt, Requeued, Serve
<1>2. /\ \A c \in Dispatchers \ {d} : current'[c] = current[c] /\ todo'[c] = todo[c] /\ (Shown(c)' <=> Shown(c))
      /\ current'[d] = NoEvent /\ ~Shown(d)'
      /\ Shown(d) <=> x.n # 0
  BY <1>0, <1>1, <1>c DEF Shown, NoEvent
<1>3. \A l \in Levels : queue'[l] = IF l = Level(x) THEN <<x>> \o queue[l] ELSE queue[l]
  BY <1>0, <1>1
<1>4. x.n # 0 => x \notin Members(queue)
  BY <1>2, <1>c DEF PlacesOK, OnceOK
<1>5. \A l \in Levels : Distinct(queue'[l])
  <2> SUFFICES ASSUME NEW l \in Levels PROVE Distinct(queue'[l])
    OBVIOUS
  <2> DEFINE s == queue[l]
  <2>1. s \in Seq(Events) /\ Distinct(s)
    BY <1>0 DEF PlacesOK, OnceOK
  <2>2. x.n # 0 => \A i \in DOMAIN s : s[i] # x
    BY <1>4, MembersAre
  <2> HIDE DEF s
  <2>3. Distinct(<<x>> \o s)
    BY <1>0, <2>1, <2>2, ConsDistinct
  <2> QED BY <1>3, <2>1, <2>3 DEF s
<1>6. \A e : e \in Members(queue') <=> e \in Members(queue) \/ e = x
  <2>1. Members(queue) \subseteq Members(queue') /\ x \in Members(queue')
    <3>1. Members(queue) \subseteq Members(queue)' /\ x \in Members(queue')
      BY <1>0, <1>1, LongerHolds
    <3> QED BY <3>1 DEF Members
  <2>2. ASSUME NEW e \in Members(queue') PROVE e \in Members(queue) \/ e = x
    <3>p. PICK l \in Levels : \E i \in DOMAIN queue'[l] : queue'[l][i] = e
      BY <2>2, MembersAre
    <3>1. PICK i \in DOMAIN queue'[l] : queue'[l][i] = e
      BY <3>p
    <3>2. CASE l # Level(x)
      <4>1. \E j \in DOMAIN queue[l] : queue[l][j] = e
        BY <1>3, <3>1, <3>2
      <4> QED BY <4>1, MembersAre
    <3>3. CASE l = Level(x)
      <4> DEFINE s == queue[l]
                 t == <<x>> \o s
      <4>1. s \in Seq(Events) /\ i \in DOMAIN t /\ t[i] = e
        BY <1>0, <1>3, <3>1, <3>3
      <4>2. t[1] = x /\ \A j \in DOMAIN t : j # 1 => j - 1 \in DOMAIN s /\ t[j] = s[j - 1]
        BY <1>0, <4>1
      <4> HIDE DEF s, t
      <4>3. e = x \/ \E j \in DOMAIN s : s[j] = e
        BY <4>1, <4>2
      <4> QED BY <4>3, MembersAre DEF s
    <3> QED BY <3>2, <3>3
  <2> QED BY <2>1, <2>2
<1>7. OnceOK'
  <2>1. ASSUME NEW c \in Dispatchers, Shown(c)' PROVE current'[c] \notin Members(queue')
    <3>1. c # d /\ Shown(c) /\ current'[c] = current[c]
      BY <1>2, <2>1
    <3>2. current[c] \notin Members(queue) /\ current[c] # x
      BY <1>c, <3>1 DEF PlacesOK, OnceOK
    <3> QED BY <1>6, <3>1, <3>2
  <2>2. ASSUME NEW b \in Dispatchers, NEW c \in Dispatchers, b # c, Shown(c)' PROVE current'[b] # current'[c]
    <3>1. c # d /\ Shown(c) /\ current'[c] = current[c] /\ current[c] # NoEvent
      BY <1>2, <2>2 DEF Shown, NoEvent
    <3>2. current'[b] = current[b] \/ current'[b] = NoEvent
      BY <1>2
    <3> QED BY <2>2, <3>1, <3>2 DEF PlacesOK, OnceOK
  <2> QED BY <1>5, <2>1, <2>2 DEF OnceOK, Members, Distinct
<1>8. Open' = Open
  <2>1. \A f : f \in Open' <=> f \in Queued' \/ \E c \in Dispatchers : Shown(c)' /\ f = current'[c]
    BY DEF Open, Held, Queued, Shown
  <2>2. \A f : (\E c \in Dispatchers : Shown(c)' /\ f = current'[c]) <=> \E c \in Dispatchers \ {d} : Shown(c) /\ f = current[c]
    BY <1>2
  <2>3. \A f : f \in Queued' <=> f \in Queued \/ (f = x /\ x.n # 0)
    BY <1>6 DEF Queued, Members
  <2>4. \A f : f \in Open <=> f \in Queued \/ (f = x /\ x.n # 0) \/ \E c \in Dispatchers \ {d} : Shown(c) /\ f = current[c]
    BY <1>2, <1>c, OpenIs
  <2>5. \A f : f \in Open' <=> f \in Open
    BY <2>1, <2>2, <2>3, <2>4
  <2> QED BY <2>5
<1>9. FateOK' /\ Over' = Over
  BY <1>1, <1>8 DEF PlacesOK, FateOK, Over
<1>10. DeliveryStep
  <2>1. Served' = [Served EXCEPT ![d] = NoEvent]
    <3>1. Served'[d] = NoEvent /\ \A c \in Dispatchers \ {d} : Served'[c] = Served[c]
      BY <1>2 DEF Served
    <3> QED BY <3>1 DEF Served
  <2>2. Still' = [Still EXCEPT ![d] = {}]
    <3>1. Still'[d] = {} /\ \A c \in Dispatchers \ {d} : Still'[c] = Still[c]
      BY <1>2 DEF Still
    <3> QED BY <3>1 DEF Still
  <2>3. CASE ~Shown(d)
    <3>1. Served[d] = NoEvent /\ Still[d] = {}
      BY <2>3 DEF Served, Still
    <3>2. Served' = Served /\ Still' = Still
      BY <2>1, <2>2, <3>1 DEF Served, Still
    <3> QED BY <1>1, <1>8, <1>9, <3>2, Hidden
  <2>4. CASE Shown(d)
    <3>1. Served[d] = x /\ x # NoEvent /\ x \in Numbered
      BY <1>0, <1>2, <1>c, <2>4 DEF Served, NoEvent, Numbered
    <3>2. [e \in Numbered |-> Urgency[Level(e)]][x] > 0
      BY <1>0, <3>1, Tiers
    <3>3. [e \in Numbered |-> Urgency[Level(e)]][Served[d]] > 0 /\ Served[d] # NoEvent
      BY <3>1, <3>2
    <3>4. Delivery!GiveBack(d)
      BY <1>1, <1>8, <1>9, <2>1, <2>2, <3>3 DEF Delivery!GiveBack, Open, Served, Still, Over
    <3> QED BY <3>4 DEF DeliveryStep, Delivery!Next
  <2> QED BY <2>3, <2>4
<1> QED BY <1>7, <1>9, <1>10

LEMMA DeliveryInit == Init => PlacesOK /\ Delivery!Init
<1> SUFFICES ASSUME Init PROVE PlacesOK /\ Delivery!Init
  OBVIOUS
<1>0. /\ queue = [l \in Levels |-> <<>>] /\ made = 0 /\ stopped = FALSE
      /\ current = [d \in Dispatchers |-> NoEvent] /\ fate = [n \in Serial |-> "none"]
  BY DEF Init
<1>1. \A d \in Dispatchers : current[d] = NoEvent /\ ~Shown(d)
  BY <1>0 DEF Shown, NoEvent
<1>2. Members(queue) = {}
  BY <1>0 DEF Members
<1>3. Open = {}
  BY <1>1, <1>2 DEF Open, Held, NoEvent
<1>4. Over = {}
  BY <1>0 DEF Over
<1>5. OnceOK
  BY <1>0, <1>1 DEF OnceOK, Distinct
<1>6. FateOK
  BY <1>0, <1>3 DEF FateOK, Fates
<1>7. Served = [d \in Dispatchers |-> NoEvent] /\ Still = [d \in Dispatchers |-> {}]
  BY <1>1 DEF Served, Still
<1>8. Delivery!Init
  BY <1>0, <1>3, <1>4, <1>7 DEF Delivery!Init, Open, Over, Served, Still
<1> QED BY <1>5, <1>6, <1>8, BusInit DEF PlacesOK

LEMMA PublishDelivers ==
    ASSUME PlacesOK, NEW kind \in Kinds, NEW owner \in Dispatchers \union {"task"}, Publish(kind, owner)
    PROVE  OnceOK' /\ FateOK' /\ DeliveryStep
<1>1. UNCHANGED <<current, todo, stopped>>
  BY DEF Publish
<1>2. CASE UNCHANGED <<queue, made, fate>>
  BY <1>1, <1>2, SameKept, KeptDelivers
<1>3. CASE ~UNCHANGED <<queue, made, fate>>
  <2>1. made' = made + 1 /\ Accept([kind |-> kind, n |-> made + 1])
    BY <1>3 DEF Publish
  <2>2. made + 1 \in Serial
    <3>1. made \in Nat /\ Cardinality(blocked) \in Nat /\ MaxEvents \in Nat /\ made + Cardinality(blocked) < MaxEvents
      BY FS_CardinalityType, ConstantsAssumption DEF ConstantsAssumption, PlacesOK, BusInv, CountOK, Publish
    <3> QED BY <3>1 DEF Serial
  <2>3. [kind |-> kind, n |-> made + 1] \in Events
    BY <2>2, Levelled
  <2> QED BY <1>1, <2>1, <2>3, AcceptDelivers
<1> QED BY <1>2, <1>3

LEMMA DeliveryNext ==
    ASSUME PlacesOK, [Next]_vars
    PROVE  OnceOK' /\ FateOK' /\ DeliveryStep
<1>1. ASSUME NEW kind \in Kinds, NEW owner \in Dispatchers \union {"task"}, Publish(kind, owner)
      PROVE  OnceOK' /\ FateOK' /\ DeliveryStep
  BY <1>1, PublishDelivers
<1>2. ASSUME NEW b \in blocked, PublishResumes(b) PROVE OnceOK' /\ FateOK' /\ DeliveryStep
  <2>1. \E e \in Events : e.n = made + 1 /\ Accept(e)
    BY <1>2, ResumeCounts DEF PlacesOK
  <2>2. made' = made + 1 /\ UNCHANGED <<current, todo, stopped>>
    BY <1>2 DEF PublishResumes
  <2> QED BY <2>1, <2>2, AcceptDelivers
<1>3. ASSUME NEW d \in Dispatchers, Dispatch(d) PROVE OnceOK' /\ FateOK' /\ DeliveryStep
  <2>1. CASE Pop(d)
    BY <2>1, PopDelivers
  <2>2. CASE Leave(d)
    BY <2>2, SameKept, KeptDelivers DEF Leave
  <2>3. CASE HandlerEnds(d)
    BY <2>3, SameKept, ServeDelivers DEF HandlerEnds
  <2>4. CASE Interrupt(d)
    BY <2>4, InterruptDelivers
  <2>5. CASE HandlerTimesOut(d)
    BY <2>5, TimesOutDelivers
  <2> QED BY <1>3, <2>1, <2>2, <2>3, <2>4, <2>5 DEF Dispatch
<1>4. CASE WatchdogReports
  BY <1>4, WatchdogDelivers
<1>5. CASE WatchdogEnds \/ Tick \/ UNCHANGED vars
  BY <1>5, SameKept, KeptDelivers DEF WatchdogEnds, Tick, vars
<1>6. CASE Stop
  <2>1. UNCHANGED <<queue, current, todo, fate, made>> /\ stopped' = TRUE
    BY <1>6 DEF Stop
  <2>2. OnceOK' /\ FateOK' /\ Open' = Open /\ Served' = Served /\ Still' = Still /\ Over' = Over
    BY <2>1, SameKept, KeptOnce
  <2>3. Delivery!Close
    BY <2>1, <2>2 DEF Delivery!Close, Open, Served, Still, Over
  <2> QED BY <2>2, <2>3 DEF DeliveryStep, Delivery!Next
<1> QED BY <1>1, <1>2, <1>3, <1>4, <1>5, <1>6 DEF Next, TaskPublishes, HandlerPublishes

\* No event is in two places: not twice in the queues, not in a queue while a dispatcher
\* has it, not with both dispatchers of stop(); and a number stands for one event
\* (event_bus.py: _pop_next_locked, _requeue_front, stop).
THEOREM EventsAreOnce == Spec => []OnceOK
<1>1. PlacesOK /\ [Next]_vars => PlacesOK'
  BY DeliveryNext, BusStep DEF PlacesOK
<1>2. PlacesOK => OnceOK
  BY DEF PlacesOK
<1> QED BY <1>1, <1>2, DeliveryInit, PTL DEF Spec

\* The bus implements PriorityDelivery, for any number of events and subscribers, any
\* sizes of the queues and any limits, during stop() as well: the most urgent event
\* first, to one dispatcher at a time and to all of its subscribers, and nothing lost
\* but the oldest of a full NORMAL or LOW queue (event_bus.py: publish, _pop_next,
\* _dispatch, _run_handler, _requeue_front).
THEOREM BusDelivers == Spec => DeliverySpec
<1>1. PlacesOK /\ [Next]_vars => PlacesOK' /\ DeliveryStep
  BY DeliveryNext, BusStep DEF PlacesOK
<1>2. Init => PlacesOK /\ Delivery!Init
  BY DeliveryInit
<1>3. DeliveryStep => [Delivery!Next]_(Delivery!vars)
  BY DEF DeliveryStep, Delivery!vars, Open, Served, Still, Over
<1> QED BY <1>1, <1>2, <1>3, PTL DEF Spec, DeliverySpec, Delivery!Spec
=============================================================================
