-------------------------- MODULE CapabilitiesProofs --------------------------
(***************************************************************************)
(* Theorems about the capability modules, for every number of actions,     *)
(* alarms and cancellations, and any set of action types.                  *)
(***************************************************************************)
EXTENDS Capabilities, FiniteSetTheorems, FunctionTheorems, TLAPS

-----------------------------------------------------------------------------
(***************************************************************************)
(* What may be queued.  The event that asks for the end of an action (t is *)
(* its type, a cancellation or a preemption) stands behind the start of    *)
(* that action, at the same priority, so that it is handled after it.      *)
(***************************************************************************)
Item == [type : {"started", "cancel", "preempt"}, action : Actions]
Start(a) == [type |-> "started", action |-> a]
Stops == {"cancel", "preempt"}
StopFor(t, a) == [type |-> t, action |-> a]

IsQueue(q) == q \in [Levels -> Seq(Item)]

StartIn(q, a) == \E l \in Levels : \E i \in DOMAIN q[l] : q[l][i] = Start(a)

StopIn(q, t, a) == \E l \in Levels : \E i \in DOMAIN q[l] : q[l][i] = StopFor(t, a)

StopBehind(q, t, a, l) ==
    \A m \in Levels : \A i \in DOMAIN q[m] :
        /\ q[m][i] \in {Start(a), StopFor(t, a)} => m = l
        /\ q[m][i] = StopFor(t, a) => \A j \in DOMAIN q[m] : q[m][j] = Start(a) => j < i

\* Nothing changes for the action a: neither start nor stop is new, no stop is lost.
Keeps(q, r, t, a) == /\ StartIn(r, a) => StartIn(q, a)
                     /\ StopIn(r, t, a) <=> StopIn(q, t, a)
                     /\ \A l \in Levels : StopBehind(q, t, a, l) => StopBehind(r, t, a, l)

LEMMA CancelStops == "cancel" \in Stops
BY DEF Stops

LEMMA PreemptStops == "preempt" \in Stops
BY DEF Stops

LEMMA KeepsAll == ASSUME NEW q, NEW t, NEW a PROVE Keeps(q, q, t, a)
BY DEF Keeps

LEMMA KeepsTrans ==
    ASSUME NEW q, NEW r, NEW s, NEW t, NEW a, Keeps(q, r, t, a), Keeps(r, s, t, a)
    PROVE  Keeps(q, s, t, a)
BY DEF Keeps

\* An event e is appended.
LEMMA Appended ==
    ASSUME NEW q, IsQueue(q), NEW e \in Item, NEW l \in Levels,
           NEW r, r = [q EXCEPT ![l] = Append(@, e)], NEW t \in Stops
    PROVE  /\ IsQueue(r)
           /\ \A b \in Actions :
                 /\ e \notin {Start(b), StopFor(t, b)} => Keeps(q, r, t, b)
                 /\ e = StopFor(t, b) => /\ StopIn(r, t, b) /\ (StartIn(r, b) => StartIn(q, b))
                                         /\ StopBehind(q, t, b, l) => StopBehind(r, t, b, l)
                 /\ e = Start(b) /\ ~StopIn(q, t, b) =>
                       ~StopIn(r, t, b) /\ (StopBehind(q, t, b, l) => StopBehind(r, t, b, l))
<1> DEFINE s == Append(q[l], e)
           n == Len(q[l])
<1>1. q[l] \in Seq(Item) /\ r = [q EXCEPT ![l] = s]
  BY DEF IsQueue
<1>2. \A b, c : Start(b) # StopFor(t, c)
  BY DEF Start, StopFor, Stops
<1>3. /\ DOMAIN q[l] = 1 .. n /\ DOMAIN s = 1 .. n + 1
      /\ n \in Nat /\ s[n + 1] = e /\ \A i \in 1 .. n : s[i] = q[l][i]
      /\ s \in Seq(Item)
  BY <1>1
<1> HIDE DEF s, n
<1>4. IsQueue(r) /\ r[l] = s /\ \A m \in Levels \ {l} : r[m] = q[m]
  BY <1>1, <1>3 DEF IsQueue
<1>5. \A m \in Levels : \A i \in DOMAIN r[m] :
         (i \in DOMAIN q[m] /\ r[m][i] = q[m][i]) \/ (m = l /\ i = n + 1 /\ r[m][i] = e)
  BY <1>3, <1>4
<1>6. \A m \in Levels : \A i \in DOMAIN q[m] : i \in DOMAIN r[m] /\ r[m][i] = q[m][i]
  BY <1>3, <1>4
<1>7. n + 1 \in DOMAIN r[l] /\ r[l][n + 1] = e /\ \A i \in DOMAIN q[l] : i < n + 1
  BY <1>3, <1>4
<1> SUFFICES ASSUME NEW b \in Actions
             PROVE  /\ e \notin {Start(b), StopFor(t, b)} => Keeps(q, r, t, b)
                    /\ e = StopFor(t, b) => /\ StopIn(r, t, b) /\ (StartIn(r, b) => StartIn(q, b))
                                            /\ StopBehind(q, t, b, l) => StopBehind(r, t, b, l)
                    /\ e = Start(b) /\ ~StopIn(q, t, b) =>
                          ~StopIn(r, t, b) /\ (StopBehind(q, t, b, l) => StopBehind(r, t, b, l))
  BY <1>4
<1>8. ASSUME e \notin {Start(b), StopFor(t, b)} PROVE Keeps(q, r, t, b)
  <2>1. \A m \in Levels : \A i \in DOMAIN r[m] : r[m][i] \in {Start(b), StopFor(t, b)} =>
            i \in DOMAIN q[m] /\ r[m][i] = q[m][i]
    BY <1>5, <1>8
  <2>2. (StartIn(r, b) => StartIn(q, b)) /\ (StopIn(r, t, b) <=> StopIn(q, t, b))
    BY <1>6, <2>1 DEF StartIn, StopIn
  <2>3. \A k \in Levels : StopBehind(q, t, b, k) => StopBehind(r, t, b, k)
    BY <2>1 DEF StopBehind
  <2> QED BY <2>2, <2>3 DEF Keeps
<1>9. ASSUME e = StopFor(t, b)
      PROVE  /\ StopIn(r, t, b) /\ (StartIn(r, b) => StartIn(q, b))
             /\ StopBehind(q, t, b, l) => StopBehind(r, t, b, l)
  <2>1. e # Start(b)
    BY <1>2, <1>9
  <2>2. StopIn(r, t, b) /\ (StartIn(r, b) => StartIn(q, b))
    BY <1>5, <1>7, <1>9, <2>1 DEF StartIn, StopIn
  <2>3. StopBehind(q, t, b, l) => StopBehind(r, t, b, l)
    BY <1>5, <1>7, <1>9, <2>1 DEF StopBehind
  <2> QED BY <2>2, <2>3
<1>10. ASSUME e = Start(b), ~StopIn(q, t, b)
       PROVE  ~StopIn(r, t, b) /\ (StopBehind(q, t, b, l) => StopBehind(r, t, b, l))
  <2>1. e # StopFor(t, b)
    BY <1>2, <1>10
  <2>2. ~StopIn(r, t, b)
    BY <1>5, <1>10, <2>1 DEF StopIn
  <2>3. StopBehind(q, t, b, l) => StopBehind(r, t, b, l)
    BY <1>5, <2>2 DEF StopBehind, StopIn
  <2> QED BY <2>2, <2>3
<1> QED BY <1>8, <1>9, <1>10

\* A start is appended.
LEMMA StartQueued ==
    ASSUME NEW q, IsQueue(q), NEW a \in Actions, NEW l \in Levels,
           NEW r, r = Queue(q, "started", a, l)
    PROVE  /\ IsQueue(r)
           /\ \A t \in Stops :
                 /\ \A b \in Actions : b # a => Keeps(q, r, t, b)
                 /\ ~StopIn(q, t, a) => /\ ~StopIn(r, t, a)
                                        /\ StopBehind(q, t, a, l) => StopBehind(r, t, a, l)
<1>1. r = [q EXCEPT ![l] = Append(@, Start(a))] /\ Start(a) \in Item
  BY DEF Queue, Start, Item
<1>2. \A t \in Stops, b \in Actions : b # a => Start(a) \notin {Start(b), StopFor(t, b)}
  BY DEF Start, StopFor, Stops
<1>3. IsQueue(r)
  BY <1>1, CancelStops, Appended
<1>4. ASSUME NEW t \in Stops
      PROVE  /\ \A b \in Actions : b # a => Keeps(q, r, t, b)
             /\ ~StopIn(q, t, a) => /\ ~StopIn(r, t, a)
                                    /\ StopBehind(q, t, a, l) => StopBehind(r, t, a, l)
  BY <1>1, <1>2, Appended
<1> QED BY <1>3, <1>4

\* A cancellation or a preemption is appended.
LEMMA StopQueued ==
    ASSUME NEW q, IsQueue(q), NEW type \in Stops, NEW a \in Actions, NEW l \in Levels,
           NEW r, r = Queue(q, type, a, l)
    PROVE  /\ IsQueue(r)
           /\ \A t \in Stops :
                 /\ \A b \in Actions : b # a \/ type # t => Keeps(q, r, t, b)
                 /\ type = t => /\ StopIn(r, t, a) /\ (StartIn(r, a) => StartIn(q, a))
                                /\ StopBehind(q, t, a, l) => StopBehind(r, t, a, l)
<1> DEFINE e == StopFor(type, a)
<1>1. r = [q EXCEPT ![l] = Append(@, e)] /\ e \in Item
  BY DEF Queue, StopFor, Item, Stops
<1>2. \A t \in Stops, b \in Actions : b # a \/ type # t => e \notin {Start(b), StopFor(t, b)}
  BY DEF Start, StopFor, Stops
<1> HIDE DEF e
<1>3. IsQueue(r)
  BY <1>1, CancelStops, Appended
<1>4. ASSUME NEW t \in Stops
      PROVE  \A b \in Actions : b # a \/ type # t => Keeps(q, r, t, b)
  BY <1>1, <1>2, Appended
<1>5. /\ StopIn(r, type, a) /\ (StartIn(r, a) => StartIn(q, a))
      /\ StopBehind(q, type, a, l) => StopBehind(r, type, a, l)
  <2>1. e = StopFor(type, a)
    BY DEF e
  <2> QED BY <1>1, <2>1, Appended
<1> QED BY <1>3, <1>4, <1>5

\* The next event is taken.  With the stop, the start is gone.
LEMMA RestStop ==
    ASSUME IsQueue(queue), NEW l \in Levels, queue[l] # <<>>, NEW t \in Stops
    PROVE  /\ IsQueue(Rest(l))
           /\ \A b \in Actions :
              /\ Head(queue[l]) # StopFor(t, b) => Keeps(queue, Rest(l), t, b)
              /\ \A k \in Levels : Head(queue[l]) = StopFor(t, b) /\ StopBehind(queue, t, b, k) =>
                     ~StartIn(Rest(l), b) /\ StopBehind(Rest(l), t, b, k)
<1> DEFINE s == Tail(queue[l])
           r == [queue EXCEPT ![l] = s]
<1>1. queue[l] \in Seq(Item) /\ Rest(l) = r
  BY DEF IsQueue, Rest
<1>2. /\ DOMAIN queue[l] = 1 .. Len(queue[l]) /\ DOMAIN s = 1 .. Len(queue[l]) - 1
      /\ Len(queue[l]) \in Nat \ {0} /\ Head(queue[l]) = queue[l][1]
      /\ \A i \in DOMAIN s : s[i] = queue[l][i + 1]
  BY <1>1
<1> HIDE DEF s
<1>3. r[l] = s /\ \A m \in Levels \ {l} : r[m] = queue[m]
  BY DEF IsQueue
<1> HIDE DEF r
<1>4. /\ \A i \in DOMAIN r[l] : i + 1 \in DOMAIN queue[l] /\ r[l][i] = queue[l][i + 1] /\ i \in Nat \ {0}
      /\ \A i \in DOMAIN queue[l] : i # 1 =>
            i - 1 \in DOMAIN r[l] /\ r[l][i - 1] = queue[l][i] /\ i \in Nat
      /\ 1 \in DOMAIN queue[l]
  BY <1>2, <1>3
<1>5. \A b, c : Start(b) # StopFor(t, c)
  BY DEF Start, StopFor, Stops
<1>6. ASSUME NEW b \in Actions, NEW k \in Levels, StopBehind(queue, t, b, k)
      PROVE  StopBehind(r, t, b, k)
  <2> SUFFICES ASSUME NEW m \in Levels, NEW i \in DOMAIN r[m]
               PROVE  /\ r[m][i] \in {Start(b), StopFor(t, b)} => m = k
                      /\ r[m][i] = StopFor(t, b) => \A j \in DOMAIN r[m] : r[m][j] = Start(b) => j < i
    BY DEF StopBehind
  <2>1. CASE m = l
    <3>1. i + 1 \in DOMAIN queue[l] /\ r[m][i] = queue[l][i + 1] /\ i \in Nat
      BY <1>4, <2>1
    <3>2. r[m][i] \in {Start(b), StopFor(t, b)} => m = k
      BY <1>6, <2>1, <3>1 DEF StopBehind
    <3>3. ASSUME r[m][i] = StopFor(t, b), NEW j \in DOMAIN r[m], r[m][j] = Start(b) PROVE j < i
      <4>1. j + 1 \in DOMAIN queue[l] /\ queue[l][j + 1] = Start(b) /\ j \in Nat
        BY <1>4, <2>1, <3>3
      <4>2. queue[l][i + 1] = StopFor(t, b)
        BY <3>1, <3>3
      <4>3. j + 1 < i + 1
        BY <1>6, <3>1, <4>1, <4>2 DEF StopBehind
      <4> QED BY <3>1, <4>1, <4>3
    <3> QED BY <3>2, <3>3
  <2>2. CASE m # l
    BY <1>3, <1>6, <2>2 DEF StopBehind
  <2> QED BY <2>1, <2>2
<1>7. ASSUME NEW b \in Actions, queue[l][1] # StopFor(t, b) PROVE Keeps(queue, r, t, b)
  <2>1. StartIn(r, b) => StartIn(queue, b)
    BY <1>3, <1>4 DEF StartIn
  <2>2. StopIn(r, t, b) => StopIn(queue, t, b)
    BY <1>3, <1>4 DEF StopIn
  <2>3. StopIn(queue, t, b) => StopIn(r, t, b)
    <3> SUFFICES ASSUME NEW m \in Levels, NEW i \in DOMAIN queue[m], queue[m][i] = StopFor(t, b)
                 PROVE  StopIn(r, t, b)
      BY DEF StopIn
    <3>1. CASE m = l
      BY <1>4, <1>7, <3>1 DEF StopIn
    <3>2. CASE m # l
      BY <1>3, <3>2 DEF StopIn
    <3> QED BY <3>1, <3>2
  <2> QED BY <1>6, <2>1, <2>2, <2>3 DEF Keeps
<1>8. ASSUME NEW b \in Actions, NEW k \in Levels, queue[l][1] = StopFor(t, b), StopBehind(queue, t, b, k)
      PROVE  ~StartIn(r, b)
  <2>1. l = k /\ \A j \in DOMAIN queue[l] : queue[l][j] = Start(b) => j < 1
    BY <1>4, <1>8 DEF StopBehind
  <2>2. \A j \in DOMAIN queue[l] : queue[l][j] # Start(b)
    BY <1>2, <2>1
  <2>3. \A m \in Levels \ {l} : \A j \in DOMAIN queue[m] : queue[m][j] # Start(b)
    BY <1>8, <2>1 DEF StopBehind
  <2> QED BY <1>3, <1>4, <2>2, <2>3 DEF StartIn
<1>9. IsQueue(r)
  <2>1. s \in Seq(Item)
    BY <1>1 DEF s
  <2> QED BY <2>1 DEF IsQueue, r
<1> QED BY <1>1, <1>2, <1>6, <1>7, <1>8, <1>9

\* An interrupted event goes back to the front.
LEMMA InFrontStop ==
    ASSUME IsQueue(queue), NEW a \in Actions, NEW l \in Levels,
           NEW r, r = [queue EXCEPT ![l] = <<Start(a)>> \o @],
           NEW t \in Stops
    PROVE  IsQueue(r) /\ \A b \in Actions : b # a => Keeps(queue, r, t, b)
<1> DEFINE s == <<Start(a)>> \o queue[l]
<1>1. Start(a) \in Item /\ queue[l] \in Seq(Item)
  BY DEF Item, IsQueue, Start
<1>2. /\ DOMAIN queue[l] = 1 .. Len(queue[l]) /\ DOMAIN s = 1 .. Len(queue[l]) + 1
      /\ Len(queue[l]) \in Nat /\ s[1] = Start(a)
      /\ \A i \in DOMAIN queue[l] : s[i + 1] = queue[l][i]
      /\ s \in Seq(Item)
  BY <1>1
<1>3. r = [queue EXCEPT ![l] = s]
  OBVIOUS
<1> HIDE DEF s
<1>4. IsQueue(r) /\ r[l] = s /\ \A m \in Levels \ {l} : r[m] = queue[m]
  BY <1>2, <1>3 DEF IsQueue
<1> SUFFICES ASSUME NEW b \in Actions, b # a PROVE Keeps(queue, r, t, b)
  BY <1>4
<1>5. Start(a) # Start(b) /\ Start(a) # StopFor(t, b)
  BY DEF Start, StopFor, Stops
<1>6. /\ \A i \in DOMAIN r[l] : r[l][i] \in {Start(b), StopFor(t, b)} =>
            i - 1 \in DOMAIN queue[l] /\ queue[l][i - 1] = r[l][i] /\ i \in Nat
      /\ \A i \in DOMAIN queue[l] : i + 1 \in DOMAIN r[l] /\ r[l][i + 1] = queue[l][i]
  BY <1>2, <1>4, <1>5
<1>7. (StartIn(r, b) => StartIn(queue, b)) /\ (StopIn(r, t, b) => StopIn(queue, t, b))
  BY <1>4, <1>6 DEF StartIn, StopIn
<1>8. StopIn(queue, t, b) => StopIn(r, t, b)
  <2> SUFFICES ASSUME NEW m \in Levels, NEW i \in DOMAIN queue[m], queue[m][i] = StopFor(t, b)
               PROVE  StopIn(r, t, b)
    BY DEF StopIn
  <2>1. CASE m = l
    <3>1. i + 1 \in DOMAIN r[l] /\ r[l][i + 1] = StopFor(t, b)
      BY <1>6, <2>1
    <3> QED BY <3>1 DEF StopIn
  <2>2. CASE m # l
    BY <1>4, <2>2 DEF StopIn
  <2> QED BY <2>1, <2>2
<1>9. ASSUME NEW k \in Levels, StopBehind(queue, t, b, k) PROVE StopBehind(r, t, b, k)
  <2> SUFFICES ASSUME NEW m \in Levels, NEW i \in DOMAIN r[m]
               PROVE  /\ r[m][i] \in {Start(b), StopFor(t, b)} => m = k
                      /\ r[m][i] = StopFor(t, b) => \A j \in DOMAIN r[m] : r[m][j] = Start(b) => j < i
    BY DEF StopBehind
  <2>1. CASE m = l
    <3>1. r[m][i] \in {Start(b), StopFor(t, b)} => m = k
      BY <1>6, <1>9, <2>1 DEF StopBehind
    <3>2. ASSUME r[m][i] = StopFor(t, b), NEW j \in DOMAIN r[m], r[m][j] = Start(b) PROVE j < i
      <4>1. /\ i - 1 \in DOMAIN queue[l] /\ queue[l][i - 1] = StopFor(t, b) /\ i \in Nat
            /\ j - 1 \in DOMAIN queue[l] /\ queue[l][j - 1] = Start(b) /\ j \in Nat
        BY <1>6, <2>1, <3>2
      <4>2. j - 1 < i - 1
        BY <1>9, <4>1 DEF StopBehind
      <4> QED BY <4>1, <4>2
    <3> QED BY <3>1, <3>2
  <2>2. CASE m # l
    BY <1>4, <1>9, <2>2 DEF StopBehind
  <2> QED BY <2>1, <2>2
<1> QED BY <1>7, <1>8, <1>9 DEF Keeps

\* An emergency stop asks every action of motion that runs for a stop.
LEMMA PreemptedStop ==
    ASSUME IsQueue(queue), level \in [Actions -> Levels], Preempt(queue)
    PROVE  /\ IsQueue(queue')
           /\ \A t \in Stops, b \in Actions :
                 IF t = "preempt" /\ OnMotion(b) /\ status[b] \in {"running", "detached"}
                 THEN /\ StopIn(queue', t, b) /\ (StartIn(queue', b) => StartIn(queue, b))
                      /\ StopBehind(queue, t, b, level[b]) => StopBehind(queue', t, b, level[b])
                 ELSE Keeps(queue, queue', t, b)
<1> DEFINE hit == {a \in Actions : OnMotion(a) /\ status[a] \in {"running", "detached"}}
           Asked(l) == SetToSeq({a \in hit : level[a] = l})
           Items(l) == [i \in DOMAIN Asked(l) |-> [type |-> "preempt", action |-> Asked(l)[i]]]
<1>1. \A l \in Levels :
         /\ Items(l) \in Seq(Item)
         /\ \A i \in DOMAIN Items(l) : \E a \in hit : level[a] = l /\ Items(l)[i] = StopFor("preempt", a)
         /\ \A a \in hit : level[a] = l => \E i \in DOMAIN Items(l) : Items(l)[i] = StopFor("preempt", a)
  <2> SUFFICES ASSUME NEW l \in Levels
               PROVE  /\ Items(l) \in Seq(Item)
                      /\ \A i \in DOMAIN Items(l) :
                            \E a \in hit : level[a] = l /\ Items(l)[i] = StopFor("preempt", a)
                      /\ \A a \in hit : level[a] = l =>
                            \E i \in DOMAIN Items(l) : Items(l)[i] = StopFor("preempt", a)
    OBVIOUS
  <2> DEFINE S == {a \in hit : level[a] = l}
             n == Cardinality(S)
             s == SetToSeq(S)
  <2>1. IsFiniteSet(S) /\ S \subseteq Actions
    <3>1. IsFiniteSet(Actions)
      BY FS_Interval, CapabilitiesAssumption DEF Actions
    <3> QED BY <3>1, FS_Subset
  <2>2. S \subseteq hit /\ (\A a \in S : level[a] = l) /\ (\A a \in hit : level[a] = l => a \in S)
    OBVIOUS
  <2>3. Items(l) = [i \in DOMAIN s |-> [type |-> "preempt", action |-> s[i]]]
    OBVIOUS
  <2> HIDE DEF S, hit
  <2>4. n \in Nat /\ \E f \in [1 .. n -> S] : IsInjective(f)
    BY <2>1, FS_CardinalityType DEF ExistsBijection, Bijection, Injection
  <2>5. s \in [1 .. n -> S] /\ IsInjective(s)
    BY <2>4 DEF SetToSeq
  <2>6. s \in Surjection(1 .. n, S)
    <3>1. s \in Injection(1 .. n, S)
      BY <2>5 DEF Injection
    <3>2. Cardinality(1 .. n) = Cardinality(S)
      BY <2>4, FS_Interval
    <3> QED BY <2>1, <3>1, <3>2, FS_Injection
  <2>7. \A a \in S : \E i \in 1 .. n : s[i] = a
    BY <2>6 DEF Surjection
  <2> HIDE DEF n, s
  <2> DEFINE t == [i \in 1 .. n |-> [type |-> "preempt", action |-> s[i]]]
  <2>8. Items(l) = t
    BY <2>3, <2>5
  <2>9. \A i \in 1 .. n : [type |-> "preempt", action |-> s[i]] \in Item
    BY <2>1, <2>5 DEF Item
  <2>10. t \in Seq(Item) /\ DOMAIN t = 1 .. n
    BY <2>4, <2>9
  <2>11. \A i \in DOMAIN t : \E a \in hit : level[a] = l /\ t[i] = StopFor("preempt", a)
    BY <2>2, <2>5 DEF StopFor
  <2>12. \A a \in hit : level[a] = l => \E i \in DOMAIN t : t[i] = StopFor("preempt", a)
    BY <2>2, <2>7 DEF StopFor
  <2> HIDE DEF t, Items
  <2> QED BY <2>8, <2>10, <2>11, <2>12
<1>2. queue' = [l \in Levels |-> queue[l] \o Items(l)]
  BY DEF Preempt
<1>3. \A b \in Actions : b \in hit <=> OnMotion(b) /\ status[b] \in {"running", "detached"}
  OBVIOUS
<1> HIDE DEF Items, hit
<1>4. \A l \in Levels :
         /\ queue'[l] \in Seq(Item)
         /\ \A i \in DOMAIN queue[l] : i \in DOMAIN queue'[l] /\ queue'[l][i] = queue[l][i]
         /\ \A i \in DOMAIN queue'[l] :
               \/ i \in DOMAIN queue[l] /\ queue'[l][i] = queue[l][i]
               \/ /\ \E a \in hit : level[a] = l /\ queue'[l][i] = StopFor("preempt", a)
                  /\ \A j \in DOMAIN queue[l] : j < i
         /\ \A a \in hit : level[a] = l => \E i \in DOMAIN queue'[l] : queue'[l][i] = StopFor("preempt", a)
  <2> SUFFICES ASSUME NEW l \in Levels
               PROVE
         /\ queue'[l] \in Seq(Item)
         /\ \A i \in DOMAIN queue[l] : i \in DOMAIN queue'[l] /\ queue'[l][i] = queue[l][i]
         /\ \A i \in DOMAIN queue'[l] :
               \/ i \in DOMAIN queue[l] /\ queue'[l][i] = queue[l][i]
               \/ /\ \E a \in hit : level[a] = l /\ queue'[l][i] = StopFor("preempt", a)
                  /\ \A j \in DOMAIN queue[l] : j < i
         /\ \A a \in hit : level[a] = l => \E i \in DOMAIN queue'[l] : queue'[l][i] = StopFor("preempt", a)
    OBVIOUS
  <2> DEFINE x == queue[l]
             y == Items(l)
  <2>1. x \in Seq(Item) /\ y \in Seq(Item) /\ queue'[l] = x \o y
    BY <1>1, <1>2 DEF IsQueue
  <2>2. /\ \A i \in DOMAIN y : \E a \in hit : level[a] = l /\ y[i] = StopFor("preempt", a)
        /\ \A a \in hit : level[a] = l => \E i \in DOMAIN y : y[i] = StopFor("preempt", a)
    BY <1>1
  <2> HIDE DEF y
  <2>3. /\ DOMAIN (x \o y) = 1 .. Len(x) + Len(y)
        /\ \A i \in 1 .. Len(x) + Len(y) : (x \o y)[i] = IF i <= Len(x) THEN x[i] ELSE y[i - Len(x)]
        /\ DOMAIN x = 1 .. Len(x) /\ DOMAIN y = 1 .. Len(y) /\ Len(x) \in Nat /\ Len(y) \in Nat
    BY <2>1
  <2> HIDE DEF x
  <2>4. \A i \in DOMAIN x : i \in DOMAIN (x \o y) /\ (x \o y)[i] = x[i]
    BY <2>3
  <2>5. ASSUME NEW i \in DOMAIN (x \o y)
        PROVE  \/ i \in DOMAIN x /\ (x \o y)[i] = x[i]
               \/ /\ \E a \in hit : level[a] = l /\ (x \o y)[i] = StopFor("preempt", a)
                  /\ \A j \in DOMAIN x : j < i
    <3>1. CASE i <= Len(x)
      BY <2>3, <3>1
    <3>2. CASE ~(i <= Len(x))
      <4>1. i - Len(x) \in DOMAIN y /\ (x \o y)[i] = y[i - Len(x)] /\ \A j \in DOMAIN x : j < i
        BY <2>3, <3>2
      <4> QED BY <2>2, <4>1
    <3> QED BY <3>1, <3>2
  <2>6. ASSUME NEW a \in hit, level[a] = l PROVE \E i \in DOMAIN (x \o y) : (x \o y)[i] = StopFor("preempt", a)
    <3>1. PICK i \in DOMAIN y : y[i] = StopFor("preempt", a)
      BY <2>2, <2>6
    <3>2. Len(x) + i \in DOMAIN (x \o y) /\ (x \o y)[Len(x) + i] = y[i]
      BY <2>3
    <3> QED BY <3>1, <3>2
  <2> QED BY <2>1, <2>4, <2>5, <2>6 DEF x
<1>5. IsQueue(queue') /\ \A a \in hit : level[a] \in Levels
  BY <1>2, <1>4 DEF IsQueue, hit
<1> SUFFICES ASSUME NEW t \in Stops, NEW b \in Actions
             PROVE
                 IF t = "preempt" /\ OnMotion(b) /\ status[b] \in {"running", "detached"}
                 THEN /\ StopIn(queue', t, b) /\ (StartIn(queue', b) => StartIn(queue, b))
                      /\ StopBehind(queue, t, b, level[b]) => StopBehind(queue', t, b, level[b])
                 ELSE Keeps(queue, queue', t, b)
  BY <1>5
<1>6. /\ \A a, c : Start(a) # StopFor("preempt", c)
      /\ \A a : StopFor("preempt", a) = StopFor(t, b) => t = "preempt" /\ a = b
      /\ \A a : StopFor("preempt", a) # Start(b)
  BY DEF Start, StopFor, Stops
<1>7. StartIn(queue', b) => StartIn(queue, b)
  BY <1>4, <1>6 DEF StartIn
<1>8. CASE b \in hit /\ t = "preempt"
  <2>1. level[b] \in Levels
    BY <1>5, <1>8
  <2>2. StopIn(queue', t, b)
    BY <1>4, <1>8, <2>1 DEF StopIn
  <2>3. StopBehind(queue, t, b, level[b]) => StopBehind(queue', t, b, level[b])
    <3> SUFFICES ASSUME StopBehind(queue, t, b, level[b]), NEW m \in Levels, NEW i \in DOMAIN queue'[m]
                 PROVE  /\ queue'[m][i] \in {Start(b), StopFor(t, b)} => m = level[b]
                        /\ queue'[m][i] = StopFor(t, b) =>
                              \A j \in DOMAIN queue'[m] : queue'[m][j] = Start(b) => j < i
      BY DEF StopBehind
    <3>1. queue'[m][i] \in {Start(b), StopFor(t, b)} => m = level[b]
      BY <1>4, <1>8, <1>6 DEF StopBehind
    <3>2. ASSUME queue'[m][i] = StopFor(t, b), NEW j \in DOMAIN queue'[m], queue'[m][j] = Start(b)
          PROVE  j < i
      <4>1. j \in DOMAIN queue[m] /\ queue[m][j] = Start(b)
        BY <1>4, <1>8, <1>6, <3>2
      <4> QED BY <1>4, <1>8, <3>2, <4>1 DEF StopBehind
    <3> QED BY <3>1, <3>2
  <2> QED BY <1>3, <1>7, <1>8, <2>2, <2>3
<1>9. CASE ~(b \in hit /\ t = "preempt")
  <2>1. \A m \in Levels : \A i \in DOMAIN queue'[m] : queue'[m][i] \in {Start(b), StopFor(t, b)} =>
           i \in DOMAIN queue[m] /\ queue'[m][i] = queue[m][i]
    BY <1>4, <1>6, <1>9
  <2>2. StopIn(queue', t, b) <=> StopIn(queue, t, b)
    BY <1>4, <2>1 DEF StopIn
  <2>3. \A k \in Levels : StopBehind(queue, t, b, k) => StopBehind(queue', t, b, k)
    BY <2>1 DEF StopBehind
  <2> QED BY <1>3, <1>7, <1>9, <2>2, <2>3 DEF Keeps
<1> QED BY <1>8, <1>9

-----------------------------------------------------------------------------
(***************************************************************************)
(* The types, and that tasks and the camera put an end to actions of their *)
(* own kind only.  Only a goto waits for a resource: the starts of other   *)
(* actions are queued when they are admitted.                              *)
(***************************************************************************)
Statuses == Active \union Terminal \union {"none", "waiting"}

ActionTypeOK ==
    /\ kind \in [Actions -> AllKinds \union {"none"}] /\ status \in [Actions -> Statuses]
    /\ level \in [Actions -> Levels] /\ IsQueue(queue)

OwnKinds ==
    /\ \A a \in Actions : status[a] = "waiting" => kind[a] = "motion.goto"
    /\ busy # NoAction => busy \in Actions /\ kind[busy] = "watch"
    /\ \A a \in listening : a \in Actions /\ kind[a] = "hearing.listen"
    /\ \A a \in scheduled : a \in Actions /\ kind[a] = "remind.schedule"
    /\ announcing \subseteq listening

OwnInv == ActionTypeOK /\ OwnKinds

\* What a step does to actions, when it does not admit one.
Calm ==
    /\ kind' = kind /\ level' = level /\ status' \in [Actions -> Statuses] /\ IsQueue(queue')
    /\ \A a \in Actions : status'[a] = "waiting" => status[a] = "waiting"

LEMMA CalmStep ==
    ASSUME OwnInv, Calm, announcing' \subseteq listening',
           busy' # NoAction => busy' = busy \/ (busy' \in Actions /\ kind[busy'] = "watch"),
           \A a \in listening' : a \in listening \/ (a \in Actions /\ kind[a] = "hearing.listen"),
           \A a \in scheduled' : a \in scheduled \/ (a \in Actions /\ kind[a] = "remind.schedule")
    PROVE  OwnInv'
<1>1. ActionTypeOK'
  BY DEF OwnInv, ActionTypeOK, Calm
<1>2. OwnKinds'
  BY DEF OwnInv, OwnKinds, Calm
<1> QED BY <1>1, <1>2 DEF OwnInv

\* An action ends; the one that waited for it starts, and nothing else is queued.
LEMMA EndedIs ==
    ASSUME OwnInv, NEW a \in Actions, NEW how \in Terminal, NEW q, IsQueue(q), Ended(a, how, q)
    PROVE  /\ kind' = kind /\ level' = level /\ status' \in [Actions -> Statuses] /\ IsQueue(queue')
           /\ \A b \in Actions : status'[b] = "waiting" => status[b] = "waiting"
           /\ \A t \in Stops, b \in Actions : status[b] # "waiting" => Keeps(q, queue', t, b)
<1> DEFINE Waits(w) == status[w] = "waiting" /\ blocker[w] = a
           Starts(w) == Waits(w) /\ \A r \in Resources : r = Resource(kind[w]) => lock[r] \in {NoAction, a}
<1>1. status' = [b \in Actions |-> IF b = a THEN how
                                   ELSE IF Starts(b) THEN "running"
                                   ELSE IF Waits(b) THEN "failed" ELSE status[b]]
      /\ kind' = kind /\ level' = level
  BY DEF Ended
<1>2. queue' = IF \E w \in Actions : Starts(w)
               THEN LET w == CHOOSE w \in Actions : Starts(w)
                    IN  Queue(q, "started", w, level[w])
               ELSE q
  BY DEF Ended
<1>3. \A w : Starts(w) => status[w] = "waiting"
  OBVIOUS
<1> HIDE DEF Waits, Starts
<1>4. how \in Statuses /\ "running" \in Statuses /\ "failed" \in Statuses /\ how # "waiting"
  BY DEF Statuses, Terminal, Active
<1>5. /\ status' \in [Actions -> Statuses]
      /\ \A b \in Actions : status'[b] = "waiting" => status[b] = "waiting"
  BY <1>1, <1>4 DEF OwnInv, ActionTypeOK
<1>6. IsQueue(queue')
      /\ \A t \in Stops, b \in Actions : status[b] # "waiting" => Keeps(q, queue', t, b)
  <2>1. CASE \E w \in Actions : Starts(w)
    <3>1. PICK w \in Actions : Starts(w) /\ queue' = Queue(q, "started", w, level[w])
      BY <1>2, <2>1
    <3>2. level[w] \in Levels
      BY DEF OwnInv, ActionTypeOK
    <3>3. \A b \in Actions : status[b] # "waiting" => b # w
      BY <1>3, <3>1
    <3> QED BY <3>1, <3>2, <3>3, StartQueued
  <2>2. CASE ~\E w \in Actions : Starts(w)
    BY <1>2, <2>2, KeepsAll
  <2> QED BY <2>1, <2>2
<1> QED BY <1>1, <1>5, <1>6

LEMMA EndedCalm ==
    ASSUME OwnInv, NEW a \in Actions, NEW how \in Terminal, NEW q, IsQueue(q), Ended(a, how, q)
    PROVE  Calm
BY EndedIs DEF Calm

LEMMA UnchangedCalm == ASSUME OwnInv, UNCHANGED <<kind, level, status>>, IsQueue(queue') PROVE Calm
BY DEF Calm, OwnInv, ActionTypeOK

\* The event that is dispatched leaves a queue.
LEMMA RestIs ==
    ASSUME OwnInv, NEW l \in Levels, NEW type, NEW a \in Actions, IsNext(l, type, a)
    PROVE  IsQueue(Rest(l))
BY RestStop, CancelStops DEF IsNext, OwnInv, ActionTypeOK

-----------------------------------------------------------------------------
(* One step of each kind. *)

LockTypeOK == /\ lock \in [Resources -> 0 .. MaxActions] /\ blocker \in [Actions -> 0 .. MaxActions]
              /\ timers \in [Actions -> SUBSET {"wait", "cancel", "preempt"}]

\* The request of a new action: only a goto may have to wait.
LEMMA AdmitStep ==
    ASSUME OwnInv, LockTypeOK, NEW a \in Actions, NEW k \in Kinds, NEW l \in Levels,
           Admit(a, k, l)
    PROVE  OwnInv'
<1>1. /\ UNCHANGED <<busy, listening, announcing, scheduled>> /\ kind[a] = "none" /\ k \in AllKinds
      /\ kind' = [kind EXCEPT ![a] = k] /\ level' = [level EXCEPT ![a] = l]
  BY CapabilitiesAssumption DEF Admit, tasks, RequestRunning, RequestWaiting, Create
<1>2. /\ \A b \in Actions : kind'[b] = IF b = a THEN k ELSE kind[b]
      /\ kind' \in [Actions -> AllKinds \union {"none"}] /\ level' \in [Actions -> Levels]
      /\ a \notin scheduled \union listening /\ a # busy
  BY <1>1 DEF OwnInv, ActionTypeOK, OwnKinds, NoAction, Actions, AllKinds
<1>3. CASE RequestRunning(a, k, l)
  <2>1. status' = [status EXCEPT ![a] = "running"] /\ queue' = Queue(queue, "started", a, l)
    BY <1>3 DEF RequestRunning
  <2>2. IsQueue(queue')
    BY <2>1, StartQueued DEF OwnInv, ActionTypeOK
  <2>3. ActionTypeOK'
    BY <1>2, <2>1, <2>2 DEF OwnInv, ActionTypeOK, Statuses, Active
  <2>4. OwnKinds'
    BY <1>1, <1>2, <2>1 DEF OwnInv, ActionTypeOK, OwnKinds
  <2> QED BY <2>3, <2>4 DEF OwnInv
<1>4. CASE RequestWaiting(a, k, l)
  <2> DEFINE b == lock[Resource(k)]
  <2>1. /\ status' = [status EXCEPT ![a] = "waiting", ![b] = "preempting"]
        /\ queue' = Queue(queue, "preempt", b, level[b])
        /\ status[b] \in Active /\ k = "motion.goto" /\ b # NoAction
    BY <1>4 DEF RequestWaiting, Occupied, Admit, MayAskFor
  <2>2. b \in Actions
    BY <2>1 DEF Resource, LockTypeOK, Resources, Actions, NoAction
  <2> HIDE DEF b
  <2>3. /\ status' \in [Actions -> Statuses]
        /\ \A x \in Actions : status'[x] = IF x = b THEN "preempting"
                                          ELSE IF x = a THEN "waiting" ELSE status[x]
    BY <2>1, <2>2 DEF OwnInv, ActionTypeOK, Statuses, Active
  <2>4. IsQueue(queue')
    BY <2>1, <2>2, PreemptStops, StopQueued DEF OwnInv, ActionTypeOK
  <2>5. ActionTypeOK'
    BY <1>2, <2>3, <2>4 DEF ActionTypeOK
  <2>6. OwnKinds'
    BY <1>1, <1>2, <2>1, <2>3 DEF OwnInv, OwnKinds
  <2> QED BY <2>5, <2>6 DEF OwnInv
<1> QED BY <1>3, <1>4 DEF Admit

\* Requests about actions, and the emergency stops.
LEMMA CallStep ==
    ASSUME OwnInv, (\E a \in Actions : Detach(a) \/ Cancel(a)) \/ SafetyEvent \/ StopWord \/ SafetyStop
    PROVE  OwnInv'
<1>1. UNCHANGED <<busy, listening, announcing, scheduled>>
  BY DEF Detach, Cancel, SafetyEvent, StopWord, SafetyStop, tasks
<1>2. ASSUME NEW a \in Actions, Detach(a) PROVE Calm
  BY <1>2 DEF Detach, Calm, OwnInv, ActionTypeOK, Statuses, Active
<1>3. ASSUME NEW a \in Actions, Cancel(a) PROVE Calm
  <2>1. UNCHANGED <<kind, level, status>> /\ queue' = Queue(queue, "cancel", a, level[a])
        /\ level[a] \in Levels
    BY <1>3 DEF Cancel, OwnInv, ActionTypeOK
  <2>2. IsQueue(queue')
    BY <2>1, CancelStops, StopQueued DEF OwnInv, ActionTypeOK
  <2> QED BY <2>1, <2>2, UnchangedCalm
<1>4. ASSUME SafetyEvent PROVE Calm
  BY <1>4, UnchangedCalm DEF SafetyEvent, manager, OwnInv, ActionTypeOK
<1>5. ASSUME StopWord \/ SafetyStop PROVE Calm
  <2>1. Preempt(queue)
    BY <1>5 DEF StopWord, SafetyStop
  <2>2. IsQueue(queue')
    BY <2>1, PreemptedStop DEF OwnInv, ActionTypeOK
  <2> QED BY <2>1, <2>2 DEF Preempt, Calm, OwnInv, ActionTypeOK, Statuses, Active
<1>6. announcing \subseteq listening
  BY DEF OwnInv, OwnKinds
<1> QED BY <1>1, <1>2, <1>3, <1>4, <1>5, <1>6, CalmStep

\* The timers of ActionManager and the orphan scan.
LEMMA TimerStep == ASSUME OwnInv, NEW a \in Actions, Timers(a) PROVE OwnInv'
<1>1. UNCHANGED <<busy, listening, announcing, scheduled>> /\ announcing \subseteq listening
  BY DEF Timers, WaitExpires, CancelExpires, PreemptExpires, Orphaned, tasks, OwnInv, OwnKinds
<1>2. CASE WaitExpires(a)
  <2>1. Calm
    BY <1>2 DEF WaitExpires, Calm, OwnInv, ActionTypeOK, Statuses, Terminal
  <2> QED BY <1>1, <2>1, CalmStep
<1>3. CASE CancelExpires(a) \/ PreemptExpires(a) \/ Orphaned(a)
  <2>1. PICK how \in Terminal : Ended(a, how, queue)
    BY <1>3 DEF CancelExpires, PreemptExpires, Orphaned, Terminal
  <2>2. Calm
    BY <2>1, EndedCalm DEF OwnInv, ActionTypeOK
  <2> QED BY <1>1, <2>2, CalmStep
<1> QED BY <1>2, <1>3 DEF Timers

\* The tasks of listening and reminders.
LEMMA TaskStep == ASSUME OwnInv, NEW a \in Actions, Tasks(a) PROVE OwnInv'
<1>1. /\ UNCHANGED busy /\ listening' \subseteq listening /\ scheduled' \subseteq scheduled
      /\ announcing' \subseteq listening'
  BY DEF Tasks, ListenSpeech, Announced, ListenFails, ReminderFires, OwnInv, OwnKinds
<1>2. Ended(a, "completed", queue) \/ UNCHANGED <<manager, queue>>
  BY DEF Tasks, ListenSpeech, Announced, ListenFails, ListenEnds, ReminderFires
<1>3. Calm
  <2>1. CASE Ended(a, "completed", queue)
    BY <2>1, EndedCalm DEF OwnInv, ActionTypeOK, Terminal
  <2>2. CASE UNCHANGED <<manager, queue>>
    BY <2>2, UnchangedCalm DEF manager, OwnInv, ActionTypeOK
  <2> QED BY <1>2, <2>1, <2>2
<1> QED BY <1>1, <1>3, CalmStep

\* The handlers of the modules.
LEMMA HandlerStep ==
    ASSUME OwnInv, NEW l \in Levels, NEW a \in Actions, Dispatched(l, a) PROVE OwnInv'
<1> USE DEF Dispatched, MotionStarts, MotionPreempted, ListenStarts, ListenCancelled, ReminderStarts,
            ReminderCancelled, CaptureStarts, Sensed, Ignored
<1>1. PICK type : IsNext(l, type, a)
  OBVIOUS
<1>2. Taken(l) \/ \E how \in Terminal : Ended(a, how, Rest(l))
  BY DEF Terminal
<1>3. busy' # NoAction => busy' = busy \/ (busy' \in Actions /\ kind[busy'] = "watch")
  BY DEF tasks
<1>4. /\ \A b \in listening' : b \in listening \/ (b \in Actions /\ kind[b] = "hearing.listen")
      /\ \A b \in scheduled' : b \in scheduled \/ (b \in Actions /\ kind[b] = "remind.schedule")
      /\ announcing' \subseteq listening'
  BY DEF tasks, OwnInv, OwnKinds
<1>5. Calm
  BY <1>1, <1>2, RestIs, EndedCalm, UnchangedCalm DEF Taken, manager
<1> QED BY <1>3, <1>4, <1>5, CalmStep

\* The camera answers or is interrupted.
LEMMA CaptureStep ==
    ASSUME OwnInv, (\E a \in Actions : CaptureEnds(a) \/ Interrupted(a)) \/ Arrives
    PROVE  OwnInv'
<1>1. UNCHANGED <<listening, announcing, scheduled>> /\ busy' \in {busy, NoAction}
  BY DEF CaptureEnds, Interrupted, Arrives, tasks
<1>2. ASSUME NEW a \in Actions, CaptureEnds(a) PROVE Calm
  BY <1>2, EndedCalm DEF CaptureEnds, Terminal, OwnInv, ActionTypeOK
<1>3. ASSUME NEW a \in Actions, Interrupted(a) PROVE Calm
  <2>1. /\ UNCHANGED manager /\ level[a] \in Levels
        /\ queue' = [queue EXCEPT ![level[a]] = <<Start(a)>> \o @]
    BY <1>3 DEF Interrupted, Start, OwnInv, ActionTypeOK
  <2>2. IsQueue(queue')
    BY <2>1, InFrontStop, CancelStops DEF OwnInv, ActionTypeOK
  <2> QED BY <2>1, <2>2, UnchangedCalm DEF manager
<1>4. ASSUME Arrives PROVE Calm
  BY <1>4, UnchangedCalm DEF Arrives, manager, OwnInv, ActionTypeOK
<1>5. announcing \subseteq listening
  BY DEF OwnInv, OwnKinds
<1> QED BY <1>1, <1>2, <1>3, <1>4, <1>5, CalmStep

LEMMA OwnInvStep == OwnInv /\ LockTypeOK /\ [Next]_vars => OwnInv'
<1> SUFFICES ASSUME OwnInv, LockTypeOK, [Next]_vars PROVE OwnInv'
  OBVIOUS
<1>1. CASE Dispatch
  BY <1>1, HandlerStep, CaptureStep, CallStep DEF Dispatch
<1>2. CASE Calls
  BY <1>2, AdmitStep, CallStep DEF Calls
<1>3. CASE Arrives \/ \E a \in Actions : Tasks(a) \/ Timers(a)
  BY <1>3, CaptureStep, TaskStep, TimerStep
<1>4. CASE UNCHANGED vars
  BY <1>4 DEF vars, manager, tasks, OwnInv, ActionTypeOK, OwnKinds
<1> QED BY <1>1, <1>2, <1>3, <1>4 DEF Next

LEMMA OwnInvInit == Init => OwnInv
<1> SUFFICES ASSUME Init PROVE OwnInv
  OBVIOUS
<1>1. <<>> \in Seq(Item)
  OBVIOUS
<1>2. IsQueue(queue)
  BY <1>1 DEF Init, IsQueue
<1>3. ActionTypeOK
  BY <1>2 DEF Init, ActionTypeOK, Statuses, Levels
<1> QED BY <1>3 DEF Init, OwnInv, OwnKinds

\* The event that is dispatched.
LEMMA NextKeeps ==
    ASSUME OwnInv, NEW l \in Levels, NEW type, NEW a \in Actions, IsNext(l, type, a),
           NEW t \in Stops, NEW b \in Actions
    PROVE  /\ type # t \/ b # a => Keeps(queue, Rest(l), t, b)
           /\ type = t => /\ StopIn(queue, t, a)
                          /\ \A k \in Levels : StopBehind(queue, t, a, k) =>
                                ~StartIn(Rest(l), a) /\ StopBehind(Rest(l), t, a, k)
           /\ type = "started" => StartIn(queue, a)
<1>1. IsQueue(queue) /\ queue[l] # <<>> /\ Head(queue[l]) = [type |-> type, action |-> a]
  BY DEF IsNext, OwnInv, ActionTypeOK
<1>2. /\ type = t <=> Head(queue[l]) = StopFor(t, a)
      /\ type # t \/ b # a => Head(queue[l]) # StopFor(t, b)
      /\ type = "started" => Head(queue[l]) = Start(a)
  BY <1>1 DEF StopFor, Start
<1>3. 1 \in DOMAIN queue[l] /\ Head(queue[l]) = queue[l][1]
  BY <1>1 DEF IsQueue
<1>4. (type = t => StopIn(queue, t, a)) /\ (type = "started" => StartIn(queue, a))
  BY <1>2, <1>3 DEF StopIn, StartIn
<1> QED BY <1>1, <1>2, <1>4, RestStop

-----------------------------------------------------------------------------
(* The rest of the types. *)

\* The end of an action hands its lock to the action that waited, or to nobody.
LEMMA EndedLocks ==
    ASSUME LockTypeOK, NEW a \in Actions, NEW how, NEW q, Ended(a, how, q) PROVE LockTypeOK'
<1> DEFINE Starts(w) == (status[w] = "waiting" /\ blocker[w] = a)
               /\ \A r \in Resources : r = Resource(kind[w]) => lock[r] \in {NoAction, a}
           Taker(r) == CHOOSE w \in Actions : Starts(w) /\ Resource(kind[w]) = r
           Takes(r) == \E w \in Actions : Starts(w) /\ Resource(kind[w]) = r
<1>1. /\ lock' = [r \in Resources |-> IF Takes(r) THEN Taker(r)
                                      ELSE IF lock[r] = a THEN NoAction ELSE lock[r]]
      /\ blocker' = [b \in Actions |-> IF blocker[b] = a THEN NoAction ELSE blocker[b]]
      /\ timers' = [b \in Actions |-> IF b = a \/ (status[b] = "waiting" /\ blocker[b] = a)
                                      THEN {} ELSE timers[b]]
  BY DEF Ended
<1>2. \A r \in Resources : Takes(r) => Taker(r) \in Actions
  OBVIOUS
<1>3. NoAction \in 0 .. MaxActions /\ Actions \subseteq 0 .. MaxActions
  BY CapabilitiesAssumption DEF NoAction, Actions
<1> HIDE DEF Takes, Taker, Starts
<1> QED BY <1>1, <1>2, <1>3 DEF LockTypeOK

LEMMA LockTypeStep == LockTypeOK /\ [Next]_vars => LockTypeOK'
<1> SUFFICES ASSUME LockTypeOK, [Next]_vars PROVE LockTypeOK'
  OBVIOUS
<1>1. ASSUME UNCHANGED <<lock, blocker, timers>> PROVE LockTypeOK'
  BY <1>1 DEF LockTypeOK
<1>2. ASSUME UNCHANGED manager PROVE LockTypeOK'
  BY <1>1, <1>2 DEF manager
<1>3. Actions \subseteq 0 .. MaxActions /\ NoAction \in 0 .. MaxActions
  BY CapabilitiesAssumption DEF Actions, NoAction
<1>4. ASSUME NEW a \in Actions, NEW k \in Kinds, NEW l \in Levels, Admit(a, k, l)
      PROVE  LockTypeOK'
  <2>1. CASE RequestRunning(a, k, l)
    BY <1>3, <2>1 DEF RequestRunning, LockTypeOK
  <2>2. CASE RequestWaiting(a, k, l)
    <3>1. lock[Resource(k)] \in 0 .. MaxActions
      BY <1>4, <2>2, CapabilitiesAssumption DEF RequestWaiting, Occupied, Resource, Resources,
         LockTypeOK, AllKinds
    <3> QED BY <1>3, <2>2, <3>1 DEF RequestWaiting, LockTypeOK
  <2> QED BY <1>4, <2>1, <2>2 DEF Admit
<1>5. ASSUME NEW a \in Actions, Detach(a) \/ Cancel(a) PROVE LockTypeOK'
  BY <1>1, <1>5 DEF Detach, Cancel, LockTypeOK
<1>6. CASE SafetyEvent \/ Arrives
  BY <1>2, <1>6 DEF SafetyEvent, Arrives
<1>7. CASE StopWord \/ SafetyStop
  BY <1>7 DEF StopWord, SafetyStop, Preempt, LockTypeOK
<1>8. ASSUME NEW a \in Actions, Timers(a) PROVE LockTypeOK'
  <2>1. CASE WaitExpires(a)
    BY <1>3, <2>1 DEF WaitExpires, LockTypeOK
  <2> QED BY <1>8, <2>1, EndedLocks DEF Timers, CancelExpires, PreemptExpires, Orphaned
<1>9. ASSUME NEW a \in Actions, Tasks(a) \/ CaptureEnds(a) \/ Interrupted(a) PROVE LockTypeOK'
  BY <1>2, <1>9, EndedLocks
     DEF Tasks, ListenSpeech, Announced, ListenEnds, ListenFails, ReminderFires, CaptureEnds, Interrupted
<1>10. ASSUME NEW l \in Levels, NEW a \in Actions, Dispatched(l, a) PROVE LockTypeOK'
  BY <1>2, <1>10, EndedLocks
     DEF Dispatched, MotionStarts, MotionPreempted, ListenStarts, ListenCancelled, ReminderStarts,
         ReminderCancelled, CaptureStarts, Sensed, Ignored, Taken
<1>11. CASE UNCHANGED vars
  BY <1>2, <1>11 DEF vars
<1> QED BY <1>4, <1>5, <1>6, <1>7, <1>8, <1>9, <1>10, <1>11 DEF Next, Calls, Dispatch

TaskTypeOK ==
    /\ busy \in 0 .. MaxActions /\ moving \in 0 .. MaxActions
    /\ \A S \in {listening, announcing, scheduled, acted, transcribed, spoken, calledOff, halted} :
           S \subseteq Actions
    /\ alarms \in 0 .. MaxAlarms /\ cancels \in 0 .. MaxCancels

LEMMA TaskTypeStep == TaskTypeOK /\ [Next]_vars => TaskTypeOK'
<1> SUFFICES ASSUME TaskTypeOK, [Next]_vars PROVE TaskTypeOK'
  OBVIOUS
<1>1. Actions \subseteq 0 .. MaxActions /\ NoAction \in 0 .. MaxActions
  BY CapabilitiesAssumption DEF Actions, NoAction
<1>2. ASSUME NEW a \in Actions, NEW k \in Kinds, NEW l \in Levels, Admit(a, k, l)
      PROVE  TaskTypeOK'
  BY <1>2 DEF Admit, TaskTypeOK, tasks, results, counts
<1>3. CASE Calls
  BY <1>2, <1>3, CapabilitiesAssumption
     DEF Calls, Detach, Cancel, SafetyEvent, StopWord, Requested, TaskTypeOK, tasks, results, counts
<1>4. CASE Arrives \/ \E a \in Actions : Tasks(a) \/ Timers(a)
  BY <1>1, <1>4
     DEF Arrives, Tasks, ListenSpeech, Announced, ListenEnds, ListenFails, ReminderFires,
         Timers, WaitExpires, CancelExpires,
         PreemptExpires, Orphaned, TaskTypeOK, tasks, results, counts
<1>5. ASSUME NEW l \in Levels, NEW a \in Actions, Dispatched(l, a) PROVE TaskTypeOK'
  BY <1>1, <1>5
     DEF Dispatched, MotionStarts, MotionPreempted, ListenStarts, ListenCancelled, ReminderStarts,
         ReminderCancelled, CaptureStarts, Sensed, Ignored, TaskTypeOK, tasks, results, counts
<1>6. CASE SafetyStop \/ \E a \in Actions : CaptureEnds(a) \/ Interrupted(a)
  BY <1>1, <1>6 DEF SafetyStop, CaptureEnds, Interrupted, Requested, TaskTypeOK, tasks, results, counts
<1>7. CASE UNCHANGED vars
  BY <1>7 DEF vars, TaskTypeOK, tasks, results, counts
<1> QED BY <1>3, <1>4, <1>5, <1>6, <1>7 DEF Next, Dispatch

FlagTypeOK == alarm \in BOOLEAN /\ synchronous \in BOOLEAN

LEMMA FlagTypeStep == FlagTypeOK /\ [Next]_vars => FlagTypeOK'
<1> SUFFICES ASSUME FlagTypeOK, [Next]_vars PROVE FlagTypeOK'
  OBVIOUS
<1>1. alarm' \in {alarm, TRUE, FALSE} /\ synchronous' = synchronous
  BY DEF Next, Dispatch, Dispatched, MotionStarts, MotionPreempted, ListenStarts, ListenCancelled,
         ReminderStarts, ReminderCancelled, CaptureStarts, Sensed, Ignored, CaptureEnds, Interrupted,
         SafetyStop, Calls, Admit, Detach, Cancel, SafetyEvent, StopWord, Arrives, Tasks,
         ListenSpeech, Announced, ListenEnds, ListenFails, ReminderFires,
         Timers, WaitExpires, CancelExpires,
         PreemptExpires, Orphaned, vars
<1> QED BY <1>1 DEF FlagTypeOK

-----------------------------------------------------------------------------
LEMMA InvHolds == Spec => [](OwnInv /\ LockTypeOK)
<1>1. Init => LockTypeOK
  BY CapabilitiesAssumption DEF Init, LockTypeOK, NoAction
<1> QED BY <1>1, OwnInvInit, OwnInvStep, LockTypeStep, PTL DEF Spec

\* The state is well typed.
THEOREM TypesHold == Spec => []TypeOK
<1>1. Init => TaskTypeOK
  BY CapabilitiesAssumption DEF Init, TaskTypeOK, NoAction
<1>2. Init => FlagTypeOK
  BY DEF Init, FlagTypeOK
<1>3. OwnInv /\ LockTypeOK /\ TaskTypeOK /\ FlagTypeOK => TypeOK
  BY DEF OwnInv, ActionTypeOK, LockTypeOK, TaskTypeOK, FlagTypeOK, TypeOK, IsQueue, Item,
         Statuses
<1> QED BY <1>1, <1>2, <1>3, InvHolds, TaskTypeStep, FlagTypeStep, PTL DEF Spec

-----------------------------------------------------------------------------
(***************************************************************************)
(* Every preemption of motion is under way until it is answered: this is   *)
(* the safety part of PreemptionAnswered and PreemptedRests.               *)
(***************************************************************************)
\* What was asked to let go, and what is over for that reason but may still move the
\* robot, has its stop in the queue.
PreemptionAsked ==
    \A a \in Actions :
        /\ status[a] = "preempting" => StopIn(queue, "preempt", a)
        /\ status[a] = "preempted" /\ (moving = a \/ StartIn(queue, a)) => StopIn(queue, "preempt", a)

\* An action is started once it runs, and only motion is stopped.
AskInv(a) ==
    /\ kind[a] = "none" <=> status[a] = "none"
    /\ status[a] \in {"none", "waiting"} => ~StartIn(queue, a) /\ ~StopIn(queue, "preempt", a)
    /\ OnMotion(a) => StopBehind(queue, "preempt", a, level[a])
    /\ status[a] \in {"preempting", "preempted"} => OnMotion(a)
    /\ status[a] = "preempting" => StopIn(queue, "preempt", a)
    /\ status[a] = "preempted" /\ (moving = a \/ StartIn(queue, a)) => StopIn(queue, "preempt", a)

LockOwned == \A r \in Resources : lock[r] # NoAction => Resource(kind[lock[r]]) = r

StopInv == LockOwned /\ \A a \in Actions : AskInv(a)

LEMMA AskSame ==
    ASSUME NEW b \in Actions, AskInv(b), kind'[b] = kind[b], level'[b] = level[b],
           status'[b] = status[b], Keeps(queue, queue', "preempt", b), moving' = b => moving = b,
           level[b] \in Levels
    PROVE  AskInv(b)'
BY DEF AskInv, Keeps, OnMotion

\* The action runs, or it is over, but not for a preemption.
LEMMA AskGoes ==
    ASSUME NEW b \in Actions, AskInv(b), kind[b] # "none", kind'[b] = kind[b], level'[b] = level[b],
           status'[b] \notin {"none", "waiting", "preempting", "preempted"},
           OnMotion(b) /\ StopBehind(queue, "preempt", b, level[b]) =>
              StopBehind(queue', "preempt", b, level[b])
    PROVE  AskInv(b)'
BY DEF AskInv, OnMotion

LEMMA EndedAsk ==
    ASSUME OwnInv, StopInv, NEW a \in Actions, NEW how \in Terminal, NEW q, IsQueue(q),
           Ended(a, how, q), kind[a] # "none", status[a] # "waiting", moving' \in {moving, NoAction},
           \A b \in Actions \ {a} : Keeps(queue, q, "preempt", b),
           \A l \in Levels : StopBehind(queue, "preempt", a, l) => StopBehind(q, "preempt", a, l),
           how = "preempted" => OnMotion(a) /\ (moving' = a \/ StartIn(q, a) => StopIn(q, "preempt", a))
    PROVE  StopInv'
<1> DEFINE Waits(w) == status[w] = "waiting" /\ blocker[w] = a
           Starts(w) == Waits(w) /\ \A r \in Resources : r = Resource(kind[w]) => lock[r] \in {NoAction, a}
           Takes(r) == \E w \in Actions : Starts(w) /\ Resource(kind[w]) = r
           Taker(r) == CHOOSE w \in Actions : Starts(w) /\ Resource(kind[w]) = r
<1>1. /\ \A b \in Actions : status'[b] = IF b = a THEN how
                                         ELSE IF Starts(b) THEN "running"
                                         ELSE IF Waits(b) THEN "failed" ELSE status[b]
      /\ kind' = kind /\ level' = level
      /\ \A r \in Resources : lock'[r] = IF Takes(r) THEN Taker(r)
                                         ELSE IF lock[r] = a THEN NoAction ELSE lock[r]
  BY DEF Ended
<1>2. queue' = IF \E w \in Actions : Starts(w)
               THEN LET w == CHOOSE w \in Actions : Starts(w)
                    IN  Queue(q, "started", w, level[w])
               ELSE q
  BY DEF Ended
<1>3. \A w : Waits(w) => status[w] = "waiting"
  OBVIOUS
<1>4. \A w : Starts(w) => Waits(w)
  OBVIOUS
<1>5. \A r : Takes(r) => Taker(r) \in Actions /\ Resource(kind[Taker(r)]) = r
  OBVIOUS
<1> HIDE DEF Waits, Starts, Takes, Taker
<1>6. \A b \in Actions : level[b] \in Levels
  BY DEF OwnInv, ActionTypeOK
<1>7. \A b \in Actions : moving' = b => moving = b
  BY DEF NoAction, Actions
<1>8. \/ queue' = q
      \/ \E w \in Actions : Starts(w) /\ queue' = Queue(q, "started", w, level[w])
  BY <1>2
<1>9. ASSUME NEW b \in Actions
      PROVE  \/ Keeps(q, queue', "preempt", b)
             \/ /\ Starts(b)
                /\ StopBehind(q, "preempt", b, level[b]) /\ ~StopIn(q, "preempt", b) =>
                      StopBehind(queue', "preempt", b, level[b])
  <2>1. CASE queue' = q
    BY <2>1, KeepsAll
  <2>2. ASSUME NEW w \in Actions, Starts(w), queue' = Queue(q, "started", w, level[w]), b # w
        PROVE  Keeps(q, queue', "preempt", b)
    BY <1>6, <2>2, StartQueued, PreemptStops
  <2>3. ASSUME Starts(b), queue' = Queue(q, "started", b, level[b])
        PROVE  StopBehind(q, "preempt", b, level[b]) /\ ~StopIn(q, "preempt", b) =>
                  StopBehind(queue', "preempt", b, level[b])
    BY <1>6, <2>3, StartQueued, PreemptStops
  <2> QED BY <1>8, <2>1, <2>2, <2>3
<1>10. AskInv(a)'
  <2>1. Keeps(q, queue', "preempt", a)
    BY <1>3, <1>4, <1>9
  <2>2. \A l \in Levels : StopBehind(queue, "preempt", a, l) => StopBehind(queue', "preempt", a, l)
    BY <2>1 DEF Keeps
  <2>3. status'[a] = how /\ how \notin {"none", "waiting", "preempting"}
    BY <1>1 DEF Terminal
  <2>4. CASE how = "preempted"
    BY <1>1, <1>6, <2>1, <2>2, <2>3, <2>4 DEF AskInv, StopInv, Keeps, OnMotion
  <2>5. CASE how # "preempted"
    BY <1>1, <1>6, <2>2, <2>3, <2>5, AskGoes DEF StopInv
  <2> QED BY <2>4, <2>5
<1>11. ASSUME NEW b \in Actions, b # a PROVE AskInv(b)'
  <2>1. AskInv(b) /\ kind'[b] = kind[b] /\ level'[b] = level[b] /\ level[b] \in Levels
    BY <1>1, <1>6 DEF StopInv
  <2>2. CASE Waits(b)
    <3>1. status[b] = "waiting" /\ status'[b] \in {"running", "failed"}
      BY <1>1, <1>3, <1>11, <2>2
    <3>2. kind[b] # "none" /\ ~StopIn(queue, "preempt", b)
      BY <2>1, <3>1 DEF AskInv
    <3>3. Keeps(queue, q, "preempt", b) /\ ~StopIn(q, "preempt", b)
      BY <1>11, <3>2 DEF Keeps
    <3>4. StopBehind(queue, "preempt", b, level[b]) => StopBehind(queue', "preempt", b, level[b])
      BY <1>9, <2>1, <3>3 DEF Keeps
    <3> QED BY <2>1, <3>1, <3>2, <3>4, AskGoes
  <2>3. CASE ~Waits(b)
    <3>1. status'[b] = status[b] /\ Keeps(q, queue', "preempt", b)
      BY <1>1, <1>4, <1>9, <1>11, <2>3
    <3>2. Keeps(queue, queue', "preempt", b)
      BY <1>11, <3>1, KeepsTrans
    <3> QED BY <1>7, <2>1, <3>1, <3>2, AskSame
  <2> QED BY <2>2, <2>3
<1>12. LockOwned'
  BY <1>1, <1>5 DEF StopInv, LockOwned
<1> QED BY <1>10, <1>11, <1>12 DEF StopInv

\* Nothing happens to the actions themselves.
LEMMA KeptAsk ==
    ASSUME OwnInv, StopInv, UNCHANGED <<kind, level, status, lock>>,
           \A b \in Actions : Keeps(queue, queue', "preempt", b), moving' \in {moving, NoAction}
    PROVE  StopInv'
<1>1. \A b \in Actions : moving' = b => moving = b
  BY DEF NoAction, Actions
<1>2. \A b \in Actions : AskInv(b)'
  BY <1>1, AskSame DEF StopInv, OwnInv, ActionTypeOK
<1> QED BY <1>2 DEF StopInv, LockOwned

LEMMA AdmitAsk ==
    ASSUME OwnInv, LockTypeOK, StopInv, NEW a \in Actions, NEW k \in Kinds, NEW l \in Levels,
           Admit(a, k, l)
    PROVE  StopInv'
<1>1. /\ UNCHANGED moving /\ kind[a] = "none" /\ k \in AllKinds /\ k # "none"
      /\ \A b \in Actions : /\ kind'[b] = IF b = a THEN k ELSE kind[b]
                            /\ level'[b] = IF b = a THEN l ELSE level[b]
                            /\ level[b] \in Levels
  BY CapabilitiesAssumption
     DEF Admit, RequestRunning, RequestWaiting, Create, OwnInv, ActionTypeOK, AllKinds
<1>2. /\ status[a] = "none" /\ ~StartIn(queue, a) /\ ~StopIn(queue, "preempt", a)
      /\ \A m \in Levels : StopBehind(queue, "preempt", a, m)
  BY <1>1 DEF StopInv, AskInv, StopBehind, StartIn, StopIn
<1>3. \A r \in Resources : lock[r] # NoAction => lock[r] \in Actions /\ lock[r] # a
  <2>1. \A r \in Resources : Resource("none") # r
    BY DEF Resource, Resources
  <2> QED BY <1>1, <2>1 DEF StopInv, LockOwned, LockTypeOK, Actions, NoAction
<1>4. CASE RequestRunning(a, k, l)
  <2>1. /\ queue' = Queue(queue, "started", a, l)
        /\ \A b \in Actions : status'[b] = IF b = a THEN "running" ELSE status[b]
        /\ \A r \in Resources : lock'[r] = IF r = Resource(k) THEN a ELSE lock[r]
    BY <1>4 DEF RequestRunning, OwnInv, ActionTypeOK
  <2>2. /\ \A b \in Actions : b # a => Keeps(queue, queue', "preempt", b)
        /\ StopBehind(queue', "preempt", a, l)
    BY <1>2, <2>1, StartQueued, PreemptStops DEF OwnInv, ActionTypeOK
  <2>3. AskInv(a)'
    BY <1>1, <2>1, <2>2 DEF AskInv
  <2>4. \A b \in Actions : b # a => AskInv(b)'
    BY <1>1, <2>1, <2>2, AskSame DEF StopInv
  <2>5. LockOwned'
    BY <1>1, <1>3, <2>1 DEF StopInv, LockOwned
  <2> QED BY <2>3, <2>4, <2>5 DEF StopInv
<1>5. CASE RequestWaiting(a, k, l)
  <2>1. PICK b :
        /\ b = lock[Resource(k)]
        /\ status' = [status EXCEPT ![a] = "waiting", ![b] = "preempting"]
        /\ queue' = Queue(queue, "preempt", b, level[b])
        /\ k = "motion.goto" /\ b # NoAction /\ UNCHANGED lock
        /\ status[b] \in Active
    BY <1>5 DEF RequestWaiting, Occupied, Admit, MayAskFor
  <2>2. "motion" \in Resources /\ Resource(k) = "motion"
    BY <2>1 DEF Resource, Resources
  <2>3. b \in Actions /\ b # a /\ Resource(kind[b]) = "motion"
    BY <1>3, <2>1, <2>2 DEF StopInv, LockOwned
  <2>4. OnMotion(b)
    <3>1. kind[b] \in AllKinds \union {"none"}
      BY <2>3 DEF OwnInv, ActionTypeOK
    <3> QED BY <2>3, <3>1 DEF OnMotion, Resource, AllKinds
  <2>5. \A c \in Actions : status'[c] = IF c = b THEN "preempting"
                                        ELSE IF c = a THEN "waiting" ELSE status[c]
    BY <2>1, <2>3 DEF OwnInv, ActionTypeOK
  <2>6. /\ \A c \in Actions : c # b => Keeps(queue, queue', "preempt", c)
        /\ StopIn(queue', "preempt", b)
        /\ StopBehind(queue, "preempt", b, level[b]) => StopBehind(queue', "preempt", b, level[b])
    BY <1>1, <2>1, <2>3, StopQueued, PreemptStops DEF OwnInv, ActionTypeOK
  <2>7. AskInv(b)'
    BY <1>1, <2>3, <2>4, <2>5, <2>6 DEF StopInv, AskInv, OnMotion
  <2>8. AskInv(a)'
    BY <1>1, <1>2, <2>3, <2>5, <2>6 DEF AskInv, Keeps
  <2>9. \A c \in Actions : c # a /\ c # b => AskInv(c)'
    BY <1>1, <2>5, <2>6, AskSame DEF StopInv
  <2>10. LockOwned'
    BY <1>1, <1>3, <2>1 DEF StopInv, LockOwned
  <2> QED BY <2>7, <2>8, <2>9, <2>10 DEF StopInv
<1> QED BY <1>4, <1>5 DEF Admit

LEMMA PreemptAsk ==
    ASSUME OwnInv, StopInv, Preempt(queue), moving' \in {moving, NoAction} PROVE StopInv'
<1>1. /\ kind' = kind /\ level' = level /\ lock' = lock
      /\ \A b \in Actions : status'[b] = IF OnMotion(b) /\ status[b] \in {"running", "detached"}
                                         THEN "preempting" ELSE status[b]
  BY DEF Preempt
<1>2. ASSUME NEW b \in Actions PROVE AskInv(b)'
  <2>1. AskInv(b) /\ level[b] \in Levels /\ (moving' = b => moving = b)
    BY DEF StopInv, OwnInv, ActionTypeOK, NoAction, Actions
  <2>2. CASE OnMotion(b) /\ status[b] \in {"running", "detached"}
    <3>1. /\ StopIn(queue', "preempt", b) /\ (StartIn(queue', b) => StartIn(queue, b))
          /\ StopBehind(queue, "preempt", b, level[b]) => StopBehind(queue', "preempt", b, level[b])
      BY <2>2, PreemptedStop, PreemptStops DEF OwnInv, ActionTypeOK
    <3> QED BY <1>1, <2>1, <2>2, <3>1 DEF AskInv, OnMotion
  <2>3. CASE ~(OnMotion(b) /\ status[b] \in {"running", "detached"})
    <3>1. Keeps(queue, queue', "preempt", b)
      BY <2>3, PreemptedStop, PreemptStops DEF OwnInv, ActionTypeOK
    <3>2. status'[b] = status[b] /\ kind'[b] = kind[b] /\ level'[b] = level[b]
      BY <1>1, <2>3
    <3> QED BY <2>1, <3>1, <3>2, AskSame
  <2> QED BY <2>2, <2>3
<1> QED BY <1>1, <1>2 DEF StopInv, LockOwned

\* The status of one action changes, and it is not over for a preemption.
LEMMA StatusAsk ==
    ASSUME OwnInv, StopInv, NEW a \in Actions, NEW s \in {"detached", "failed"},
           status[a] # "none", status' = [status EXCEPT ![a] = s],
           UNCHANGED <<kind, level, lock, queue, moving>>
    PROVE  StopInv'
<1>1. \A b \in Actions : /\ status'[b] = IF b = a THEN s ELSE status[b]
                         /\ AskInv(b) /\ level[b] \in Levels
  BY DEF OwnInv, ActionTypeOK, StopInv
<1>2. AskInv(a)'
  BY <1>1, AskGoes DEF AskInv
<1>3. \A b \in Actions : b # a => AskInv(b)'
  BY <1>1, KeepsAll, AskSame
<1> QED BY <1>2, <1>3 DEF StopInv, LockOwned

LEMMA CallAsk ==
    ASSUME OwnInv, StopInv,
           (\E a \in Actions : Detach(a) \/ Cancel(a)) \/ SafetyEvent \/ StopWord \/ SafetyStop
    PROVE  StopInv'
<1>1. ASSUME NEW a \in Actions, Detach(a) PROVE StopInv'
  BY <1>1, StatusAsk DEF Detach
<1>2. ASSUME NEW a \in Actions, Cancel(a) PROVE StopInv'
  <2>1. queue' = Queue(queue, "cancel", a, level[a]) /\ UNCHANGED <<kind, level, status, lock, moving>>
    BY <1>2 DEF Cancel
  <2>2. \A b \in Actions : Keeps(queue, queue', "preempt", b)
    BY <2>1, StopQueued, PreemptStops, CancelStops DEF OwnInv, ActionTypeOK
  <2> QED BY <2>1, <2>2, KeptAsk
<1>3. CASE SafetyEvent
  BY <1>3, KeptAsk, KeepsAll DEF SafetyEvent, manager
<1>4. CASE StopWord \/ SafetyStop
  BY <1>4, PreemptAsk DEF StopWord, SafetyStop
<1> QED BY <1>1, <1>2, <1>3, <1>4

LEMMA TimerAsk ==
    ASSUME OwnInv, StopInv, NEW a \in Actions, Timers(a) \/ Tasks(a) PROVE StopInv'
<1> USE DEF OwnInv, StopInv
<1>1. AskInv(a) /\ IsQueue(queue) /\ OwnKinds /\ \A b \in Actions : Keeps(queue, queue, "preempt", b)
  BY KeepsAll DEF ActionTypeOK
<1>2. CASE WaitExpires(a)
  BY <1>2, StatusAsk DEF WaitExpires
<1>3. CASE CancelExpires(a) \/ Orphaned(a)
  <2>1. /\ UNCHANGED moving /\ status[a] \in Active
        /\ \E how \in Terminal \ {"preempted"} : Ended(a, how, queue)
    BY <1>3 DEF CancelExpires, Orphaned, Active, Terminal
  <2>2. kind[a] # "none" /\ status[a] # "waiting"
    BY <1>1, <2>1 DEF AskInv, Active
  <2> QED BY <1>1, <2>1, <2>2, EndedAsk
<1>4. CASE PreemptExpires(a)
  <2>1. UNCHANGED moving /\ status[a] = "preempting" /\ Ended(a, "preempted", queue)
        /\ "preempted" \in Terminal
    BY <1>4 DEF PreemptExpires, Terminal
  <2>2. kind[a] # "none" /\ OnMotion(a) /\ StopIn(queue, "preempt", a)
    BY <1>1, <2>1 DEF AskInv
  <2> QED BY <1>1, <2>1, <2>2, EndedAsk
<1>5. CASE ListenSpeech(a) \/ Announced(a) \/ ListenFails(a)
  <2>1. UNCHANGED moving /\ kind[a] = "hearing.listen"
    BY <1>1, <1>5 DEF ListenSpeech, Announced, ListenFails, OwnKinds
  <2>2. CASE UNCHANGED <<manager, queue>>
    BY <1>1, <2>1, <2>2, KeptAsk DEF manager
  <2>3. CASE status[a] = "running" /\ Ended(a, "completed", queue)
    <3>1. "completed" \in Terminal \ {"preempted"} /\ kind[a] # "none" /\ status[a] # "waiting"
      BY <2>1, <2>3 DEF Terminal
    <3> QED BY <1>1, <2>1, <2>3, <3>1, EndedAsk
  <2> QED BY <1>5, <2>2, <2>3 DEF ListenSpeech, Announced, ListenEnds, ListenFails
<1>6. CASE ReminderFires(a)
  BY <1>1, <1>6, KeptAsk DEF ReminderFires, manager
<1> QED BY <1>2, <1>3, <1>4, <1>5, <1>6 DEF Timers, Tasks

LEMMA HandlerAsk ==
    ASSUME OwnInv, StopInv, NEW l \in Levels, NEW a \in Actions, Dispatched(l, a) PROVE StopInv'
<1> USE DEF OwnInv, StopInv
<1>1. AskInv(a) /\ OwnKinds
  OBVIOUS
<1>2. ASSUME NEW type, IsNext(l, type, a), type # "preempt", Taken(l), UNCHANGED moving
      PROVE  StopInv'
  BY <1>2, NextKeeps, PreemptStops, KeptAsk DEF Taken, manager
<1>3. ASSUME NEW type, IsNext(l, type, a), type # "preempt", NEW how \in Terminal \ {"preempted"},
             Ended(a, how, Rest(l)), kind[a] # "none", status[a] # "waiting",
             moving' \in {moving, NoAction}
      PROVE  StopInv'
  <2>1. IsQueue(Rest(l)) /\ \A b \in Actions : Keeps(queue, Rest(l), "preempt", b)
    BY <1>3, RestIs, NextKeeps, PreemptStops
  <2>2. \A m \in Levels : StopBehind(queue, "preempt", a, m) => StopBehind(Rest(l), "preempt", a, m)
    BY <2>1 DEF Keeps
  <2> QED BY <1>3, <2>1, <2>2, EndedAsk
<1>4. ASSUME IsNext(l, "started", a) PROVE kind[a] # "none" /\ status[a] # "waiting"
  BY <1>1, <1>4, NextKeeps, PreemptStops DEF AskInv
<1>5. CASE MotionStarts(l, a)
  <2>1. IsNext(l, "started", a)
    BY <1>5 DEF MotionStarts
  <2>2. CASE moving' = a /\ Taken(l)
    <3>1. /\ \A b \in Actions : Keeps(queue, queue', "preempt", b)
          /\ StartIn(queue, a) /\ UNCHANGED <<kind, level, status, lock>>
      BY <2>1, <2>2, NextKeeps, PreemptStops DEF Taken, manager
    <3>2. \A b \in Actions : b # a => AskInv(b)'
      BY <2>2, <3>1, AskSame DEF ActionTypeOK
    <3>3. AskInv(a)'
      BY <1>1, <3>1 DEF AskInv, Keeps, OnMotion, ActionTypeOK
    <3> QED BY <3>1, <3>2, <3>3 DEF LockOwned
  <2>3. CASE moving' \in {moving, NoAction} /\ \E how \in {"completed", "failed"} : Ended(a, how, Rest(l))
    <3>1. PICK how \in Terminal \ {"preempted"} : Ended(a, how, Rest(l))
      BY <2>3 DEF Terminal
    <3> QED BY <1>3, <1>4, <2>1, <2>3, <3>1
  <2> QED BY <1>5, <2>2, <2>3 DEF MotionStarts
<1>6. CASE MotionPreempted(l, a)
  <2>1. /\ IsNext(l, "preempt", a) /\ OnMotion(a) /\ moving' = NoAction
        /\ Ended(a, "preempted", Rest(l)) /\ "preempted" \in Terminal /\ a # NoAction
    BY <1>6 DEF MotionPreempted, Terminal, Actions, NoAction
  <2>2. /\ IsQueue(Rest(l)) /\ \A b \in Actions \ {a} : Keeps(queue, Rest(l), "preempt", b)
        /\ StopIn(queue, "preempt", a)
        /\ \A k \in Levels : StopBehind(queue, "preempt", a, k) => StopBehind(Rest(l), "preempt", a, k)
    BY <2>1, RestIs, NextKeeps, PreemptStops
  <2>3. ~StartIn(Rest(l), a)
    <3>1. StopBehind(queue, "preempt", a, level[a]) /\ level[a] \in Levels
      BY <1>1, <2>1 DEF AskInv, ActionTypeOK
    <3> QED BY <2>1, <3>1, NextKeeps, PreemptStops
  <2>4. kind[a] # "none" /\ status[a] # "waiting"
    BY <1>1, <2>1, <2>2 DEF AskInv, OnMotion
  <2> QED BY <2>1, <2>2, <2>3, <2>4, EndedAsk
<1>7. CASE ListenStarts(l, a) \/ CaptureStarts(l, a) \/ Ignored(l, a)
  BY <1>2, <1>7 DEF ListenStarts, CaptureStarts, Ignored
<1>8. CASE ListenCancelled(l, a)
  <2>1. kind[a] = "hearing.listen" /\ status[a] # "waiting"
    BY <1>1, <1>8 DEF ListenCancelled, OwnKinds
  <2> QED BY <1>3, <1>8, <2>1 DEF ListenCancelled, Terminal
<1>9. CASE ReminderCancelled(l, a)
  <2>1. kind[a] = "remind.schedule" /\ status[a] # "waiting"
    BY <1>1, <1>9 DEF ReminderCancelled, OwnKinds
  <2> QED BY <1>3, <1>9, <2>1 DEF ReminderCancelled, Terminal
<1>10. CASE ReminderStarts(l, a) \/ Sensed(l, a)
  BY <1>3, <1>4, <1>10 DEF ReminderStarts, Sensed, Terminal, tasks
<1> QED BY <1>5, <1>6, <1>7, <1>8, <1>9, <1>10 DEF Dispatched

LEMMA CaptureAsk ==
    ASSUME OwnInv, StopInv, (\E a \in Actions : CaptureEnds(a) \/ Interrupted(a)) \/ Arrives
    PROVE  StopInv'
<1> USE DEF OwnInv, StopInv
<1>1. ASSUME NEW a \in Actions, CaptureEnds(a) PROVE StopInv'
  <2>1. PICK how \in Terminal \ {"preempted"} : Ended(a, how, queue)
    BY <1>1 DEF CaptureEnds, Terminal
  <2>2. UNCHANGED moving /\ kind[a] = "watch" /\ status[a] # "waiting"
    BY <1>1 DEF CaptureEnds, OwnKinds
  <2> QED BY <2>1, <2>2, EndedAsk, KeepsAll DEF ActionTypeOK
<1>2. ASSUME NEW a \in Actions, Interrupted(a) PROVE StopInv'
  <2>1. /\ UNCHANGED <<kind, level, status, lock, moving>>
        /\ kind[a] = "watch" /\ status[a] # "waiting"
        /\ queue' = [queue EXCEPT ![level[a]] = <<Start(a)>> \o @] /\ level[a] \in Levels
    BY <1>2 DEF Interrupted, manager, OwnKinds, ActionTypeOK, Start
  <2>2. \A b \in Actions : b # a => Keeps(queue, queue', "preempt", b)
    BY <2>1, InFrontStop, PreemptStops DEF ActionTypeOK
  <2>3. \A b \in Actions : b # a => AskInv(b)'
    BY <2>1, <2>2, AskSame DEF ActionTypeOK
  <2>4. AskInv(a)'
    BY <2>1 DEF AskInv, OnMotion
  <2> QED BY <2>1, <2>3, <2>4 DEF LockOwned
<1>3. CASE Arrives
  BY <1>3, KeptAsk, KeepsAll DEF Arrives, manager
<1> QED BY <1>1, <1>2, <1>3

LEMMA StopInvStep == OwnInv /\ LockTypeOK /\ StopInv /\ [Next]_vars => StopInv'
<1> SUFFICES ASSUME OwnInv, LockTypeOK, StopInv, [Next]_vars PROVE StopInv'
  OBVIOUS
<1>1. CASE Dispatch
  BY <1>1, HandlerAsk, CaptureAsk, CallAsk DEF Dispatch
<1>2. CASE Calls
  BY <1>2, AdmitAsk, CallAsk DEF Calls
<1>3. CASE Arrives \/ \E a \in Actions : Tasks(a) \/ Timers(a)
  BY <1>3, CaptureAsk, TimerAsk
<1>4. CASE UNCHANGED vars
  BY <1>4, KeptAsk, KeepsAll DEF vars, manager
<1> QED BY <1>1, <1>2, <1>3, <1>4 DEF Next

LEMMA StopHolds == Spec => []StopInv
<1>1. Init => \A a : /\ ~StartIn(queue, a) /\ ~StopIn(queue, "preempt", a)
                     /\ \A l : StopBehind(queue, "preempt", a, l)
  BY DEF Init, StartIn, StopIn, StopBehind
<1>2. Init => LockOwned
  BY DEF Init, LockOwned
<1>3. Init => StopInv
  BY <1>1, <1>2 DEF Init, StopInv, AskInv
<1> QED BY <1>3, InvHolds, StopInvStep, PTL DEF Spec

\* Whatever the order of starts, preemptions, timers and emergency stops: an action that
\* is asked to let go has a preemption in the queue that will end it, and an action that
\* ended as preempted while the robot still follows it, or may yet start to, has a stop
\* in the queue behind its start.  This is the safety part of PreemptionAnswered and
\* PreemptedRests.
THEOREM PreemptionsAreAsked == Spec => []PreemptionAsked
<1>1. StopInv => PreemptionAsked
  BY DEF StopInv, AskInv, PreemptionAsked
<1> QED BY <1>1, StopHolds, PTL

-----------------------------------------------------------------------------
(***************************************************************************)
(* The cancellation of a listen action or of a reminder finds its task, if *)
(* it has one: the start stands before it in the queue, because such an    *)
(* action never waits for a resource, and nothing starts it again.         *)
(***************************************************************************)
HasTask(a) == kind[a] \in {"hearing.listen", "remind.schedule"}

Tasked(a) == a \in listening \union announcing \union scheduled

CalledOffInv(a) ==
    /\ kind[a] = "none" => ~StopIn(queue, "cancel", a) /\ a \notin calledOff
    /\ HasTask(a) => StopBehind(queue, "cancel", a, level[a])
    /\ HasTask(a) /\ a \in calledOff => ~StartIn(queue, a) /\ ~Tasked(a)

CalledInv == \A a \in Actions : CalledOffInv(a)

\* Nothing happens to the tasks of the action b.
LEMMA CalledSame ==
    ASSUME NEW b \in Actions, CalledOffInv(b), kind'[b] = kind[b], level'[b] = level[b],
           b \in calledOff' => b \in calledOff, Tasked(b)' => Tasked(b),
           HasTask(b) \/ kind[b] = "none" => Keeps(queue, queue', "cancel", b), level[b] \in Levels
    PROVE  CalledOffInv(b)'
BY DEF CalledOffInv, Keeps, HasTask

\* An action ends, and the task of none is new.
LEMMA EndedCalled ==
    ASSUME OwnInv, StopInv, CalledInv, NEW a \in Actions, NEW how \in Terminal, NEW q, IsQueue(q),
           Ended(a, how, q), UNCHANGED calledOff, \A b \in Actions : Tasked(b)' => Tasked(b),
           \A b \in Actions : HasTask(b) \/ kind[b] = "none" => Keeps(queue, q, "cancel", b)
    PROVE  CalledInv'
<1> SUFFICES ASSUME NEW b \in Actions PROVE CalledOffInv(b)'
  BY DEF CalledInv
<1>1. HasTask(b) \/ kind[b] = "none" => status[b] # "waiting"
  BY DEF HasTask, OwnInv, OwnKinds
<1>2. HasTask(b) \/ kind[b] = "none" => Keeps(queue, queue', "cancel", b)
  BY <1>1, EndedIs, CancelStops, KeepsTrans
<1>3. kind' = kind /\ level' = level /\ level[b] \in Levels
  BY EndedIs DEF OwnInv, ActionTypeOK
<1> QED BY <1>2, <1>3, CalledSame DEF CalledInv

\* Nothing ends, and the task of none is new.
LEMMA KeptCalled ==
    ASSUME OwnInv, CalledInv, UNCHANGED <<kind, level, calledOff>>,
           \A b \in Actions : Tasked(b)' => Tasked(b),
           \A b \in Actions : HasTask(b) \/ kind[b] = "none" => Keeps(queue, queue', "cancel", b)
    PROVE  CalledInv'
<1>1. \A b \in Actions : CalledOffInv(b)'
  BY CalledSame DEF CalledInv, OwnInv, ActionTypeOK
<1> QED BY <1>1 DEF CalledInv

\* A new action has no events yet but its start.
LEMMA AdmitCalled ==
    ASSUME OwnInv, LockTypeOK, StopInv, CalledInv, NEW a \in Actions, NEW k \in Kinds,
           NEW l \in Levels, Admit(a, k, l)
    PROVE  CalledInv'
<1>1. /\ kind[a] = "none" /\ UNCHANGED tasks /\ k # "none"
      /\ \A b \in Actions : /\ kind'[b] = IF b = a THEN k ELSE kind[b]
                            /\ level'[b] = IF b = a THEN l ELSE level[b]
                            /\ level[b] \in Levels
  BY CapabilitiesAssumption
     DEF Admit, RequestRunning, RequestWaiting, Create, OwnInv, ActionTypeOK, AllKinds
<1>2. /\ ~StartIn(queue, a) /\ ~StopIn(queue, "cancel", a) /\ a \notin calledOff
      /\ \A m \in Levels : StopBehind(queue, "cancel", a, m)
  BY <1>1 DEF CalledInv, CalledOffInv, StopInv, AskInv, StopBehind, StartIn, StopIn
<1>3. PICK type \in {"started", "preempt"}, c \in Actions, m \in Levels :
         queue' = Queue(queue, type, c, m) /\ (type = "started" => c = a /\ m = l)
         /\ (type = "preempt" => k = "motion.goto")
  <2>1. CASE RequestRunning(a, k, l)
    BY <2>1 DEF RequestRunning
  <2>2. CASE RequestWaiting(a, k, l)
    <3>1. lock[Resource(k)] \in Actions /\ k = "motion.goto"
      BY <2>2 DEF RequestWaiting, Occupied, Admit, MayAskFor, Resource, LockTypeOK, Resources,
         Actions, NoAction
    <3> QED BY <1>1, <2>2, <3>1 DEF RequestWaiting
  <2> QED BY <2>1, <2>2 DEF Admit
<1>4. /\ \A b \in Actions : b # a => Keeps(queue, queue', "cancel", b)
      /\ type = "started" => StopBehind(queue', "cancel", a, l)
  <2>1. CASE type = "started"
    BY <1>2, <1>3, <2>1, StartQueued, CancelStops DEF OwnInv, ActionTypeOK
  <2>2. CASE type = "preempt"
    BY <1>3, <2>2, StopQueued, CancelStops, PreemptStops DEF OwnInv, ActionTypeOK
  <2> QED BY <2>1, <2>2
<1>5. CalledOffInv(a)'
  BY <1>1, <1>2, <1>3, <1>4 DEF CalledOffInv, HasTask, tasks, results
<1>6. \A b \in Actions : b # a => CalledOffInv(b)'
  BY <1>1, <1>4, CalledSame DEF CalledInv, Tasked, tasks, results
<1> QED BY <1>5, <1>6 DEF CalledInv

\* A cancellation is asked for: it is queued behind the start.
LEMMA CancelCalled ==
    ASSUME OwnInv, CalledInv, NEW a \in Actions, Cancel(a) PROVE CalledInv'
<1>1. /\ queue' = Queue(queue, "cancel", a, level[a]) /\ UNCHANGED <<kind, level, tasks>>
      /\ kind[a] # "none" /\ \A b \in Actions : level[b] \in Levels
  BY DEF Cancel, OwnInv, ActionTypeOK
<1>2. /\ \A b \in Actions : b # a => Keeps(queue, queue', "cancel", b)
      /\ StartIn(queue', a) => StartIn(queue, a)
      /\ StopBehind(queue, "cancel", a, level[a]) => StopBehind(queue', "cancel", a, level[a])
  BY <1>1, StopQueued, CancelStops DEF OwnInv, ActionTypeOK
<1>3. CalledOffInv(a)'
  BY <1>1, <1>2 DEF CalledInv, CalledOffInv, HasTask, Tasked, tasks, results
<1>4. \A b \in Actions : b # a => CalledOffInv(b)'
  BY <1>1, <1>2, CalledSame DEF CalledInv, Tasked, tasks, results
<1> QED BY <1>3, <1>4 DEF CalledInv

\* The requests that neither admit nor cancel, and the emergency stops.
LEMMA CallCalled ==
    ASSUME OwnInv, CalledInv, (\E a \in Actions : Detach(a)) \/ SafetyEvent \/ StopWord \/ SafetyStop
    PROVE  CalledInv'
<1>1. UNCHANGED <<kind, level, calledOff, listening, announcing, scheduled>>
  BY DEF Detach, SafetyEvent, StopWord, SafetyStop, Preempt, manager, tasks, results
<1>2. \A b \in Actions : Keeps(queue, queue', "cancel", b)
  <2>1. CASE queue' = queue
    BY <2>1, KeepsAll
  <2>2. CASE Preempt(queue)
    BY <2>2, PreemptedStop, CancelStops DEF OwnInv, ActionTypeOK
  <2> QED BY <2>1, <2>2 DEF Detach, SafetyEvent, StopWord, SafetyStop
<1> QED BY <1>1, <1>2, KeptCalled DEF Tasked

\* Timers and tasks end actions; no task is new.
LEMMA TaskCalled ==
    ASSUME OwnInv, StopInv, CalledInv, NEW a \in Actions, Timers(a) \/ Tasks(a) PROVE CalledInv'
<1>1. UNCHANGED calledOff /\ \A b \in Actions : Tasked(b)' => Tasked(b)
  BY DEF Timers, WaitExpires, CancelExpires, PreemptExpires, Orphaned, Tasks, ListenSpeech,
         Announced, ListenFails, ReminderFires, Tasked, tasks, results
<1>2. \A b \in Actions : Keeps(queue, queue, "cancel", b)
  BY KeepsAll
<1>3. \/ UNCHANGED <<kind, level, queue>>
      \/ \E how \in Terminal : Ended(a, how, queue)
  BY DEF Timers, WaitExpires, CancelExpires, PreemptExpires, Orphaned, Tasks, ListenSpeech,
         Announced, ListenEnds, ListenFails, ReminderFires, Terminal, manager
<1> QED BY <1>1, <1>2, <1>3, EndedCalled, KeptCalled DEF OwnInv, ActionTypeOK

\* The handlers that neither start nor cancel a task.
LEMMA HandlerCalled ==
    ASSUME OwnInv, StopInv, CalledInv, NEW l \in Levels, NEW a \in Actions,
           \/ MotionStarts(l, a) \/ MotionPreempted(l, a) \/ CaptureStarts(l, a) \/ Sensed(l, a)
           \/ (Ignored(l, a) /\ calledOff' = calledOff /\ IsNext(l, "started", a))
    PROVE  CalledInv'
<1> USE DEF MotionStarts, MotionPreempted, CaptureStarts, Sensed, Ignored
<1>1. UNCHANGED calledOff /\ \A b \in Actions : Tasked(b)' => Tasked(b)
  BY DEF Tasked, tasks, results
<1>2. PICK type : IsNext(l, type, a) /\ type # "cancel"
  OBVIOUS
<1>3. IsQueue(Rest(l)) /\ \A b \in Actions : Keeps(queue, Rest(l), "cancel", b)
  BY <1>2, RestIs, NextKeeps, CancelStops
<1>4. Taken(l) \/ \E how \in Terminal : Ended(a, how, Rest(l))
  BY DEF Terminal
<1> QED BY <1>1, <1>3, <1>4, EndedCalled, KeptCalled DEF Taken, manager

\* A task is started: nobody has called it off, for its start was in the queue.
LEMMA StartsCalled ==
    ASSUME OwnInv, StopInv, CalledInv, NEW l \in Levels, NEW a \in Actions,
           ListenStarts(l, a) \/ ReminderStarts(l, a)
    PROVE  CalledInv'
<1>1. /\ IsNext(l, "started", a) /\ HasTask(a) /\ UNCHANGED calledOff
      /\ \A b \in Actions : b # a => (Tasked(b)' => Tasked(b))
  BY DEF ListenStarts, ReminderStarts, HasTask, Tasked, results
<1>2. /\ IsQueue(Rest(l)) /\ StartIn(queue, a)
      /\ \A b \in Actions : Keeps(queue, Rest(l), "cancel", b)
  BY <1>1, RestIs, NextKeeps, CancelStops
<1>3. a \notin calledOff'
  BY <1>1, <1>2 DEF CalledInv, CalledOffInv
<1>4. /\ kind' = kind /\ level' = level /\ \A b \in Actions : level[b] \in Levels
      /\ \A b \in Actions : HasTask(b) \/ kind[b] = "none" => Keeps(queue, queue', "cancel", b)
  <2>1. \A b \in Actions : HasTask(b) \/ kind[b] = "none" => status[b] # "waiting"
    BY DEF HasTask, OwnInv, OwnKinds
  <2>2. CASE Taken(l)
    BY <1>2, <2>2 DEF Taken, manager, OwnInv, ActionTypeOK
  <2>3. CASE Ended(a, "completed", Rest(l))
    <3>1. "completed" \in Terminal
      BY DEF Terminal
    <3> QED BY <1>2, <2>1, <2>3, <3>1, EndedIs, CancelStops, KeepsTrans DEF OwnInv, ActionTypeOK
  <2> QED BY <2>2, <2>3 DEF ListenStarts, ReminderStarts
<1>5. CalledOffInv(a)'
  BY <1>1, <1>3, <1>4 DEF CalledInv, CalledOffInv, HasTask, Keeps
<1>6. \A b \in Actions : b # a => CalledOffInv(b)'
  BY <1>1, <1>4, CalledSame DEF CalledInv
<1> QED BY <1>5, <1>6 DEF CalledInv

\* A cancellation is handled: no start is behind it, and the task, if any, is gone.
LEMMA CancelledCalled ==
    ASSUME OwnInv, StopInv, CalledInv, NEW l \in Levels, NEW a \in Actions,
           \/ ListenCancelled(l, a) \/ ReminderCancelled(l, a)
           \/ (Ignored(l, a) /\ IsNext(l, "cancel", a))
    PROVE  CalledInv'
<1> USE DEF ListenCancelled, ReminderCancelled, Ignored
<1>1. /\ IsNext(l, "cancel", a) /\ calledOff' = calledOff \union {a}
      /\ \A b \in Actions : Tasked(b)' => Tasked(b)
      /\ ~Tasked(a)'
  <2>1. IsNext(l, "cancel", a)
    OBVIOUS
  <2>2. ~IsNext(l, "started", a)
    BY <2>1 DEF IsNext
  <2> QED BY <2>1, <2>2 DEF Tasked, OwnInv, OwnKinds
<1>2. /\ IsQueue(Rest(l)) /\ StopIn(queue, "cancel", a)
      /\ \A b \in Actions : b # a => Keeps(queue, Rest(l), "cancel", b)
      /\ \A k \in Levels : StopBehind(queue, "cancel", a, k) =>
            ~StartIn(Rest(l), a) /\ StopBehind(Rest(l), "cancel", a, k)
  BY <1>1, RestIs, NextKeeps, CancelStops
<1>3. /\ kind' = kind /\ level' = level /\ \A b \in Actions : level[b] \in Levels
      /\ \A b \in Actions : HasTask(b) \/ kind[b] = "none" => Keeps(Rest(l), queue', "cancel", b)
  <2>1. \A b \in Actions : HasTask(b) \/ kind[b] = "none" => status[b] # "waiting"
    BY DEF HasTask, OwnInv, OwnKinds
  <2>2. CASE Taken(l)
    BY <2>2, KeepsAll DEF Taken, manager, OwnInv, ActionTypeOK
  <2>3. CASE Ended(a, "cancelled", Rest(l))
    <3>1. "cancelled" \in Terminal
      BY DEF Terminal
    <3> QED BY <1>2, <2>1, <2>3, <3>1, EndedIs, CancelStops DEF OwnInv, ActionTypeOK
  <2> QED BY <2>2, <2>3
<1>4. CalledOffInv(a)'
  <2>1. kind[a] # "none"
    BY <1>2 DEF CalledInv, CalledOffInv
  <2>2. HasTask(a) => StopBehind(queue', "cancel", a, level[a]) /\ ~StartIn(queue', a)
    BY <1>2, <1>3 DEF CalledInv, CalledOffInv, Keeps
  <2> QED BY <1>1, <1>3, <2>1, <2>2 DEF CalledOffInv, HasTask
<1>5. ASSUME NEW b \in Actions, b # a PROVE CalledOffInv(b)'
  <2>1. HasTask(b) \/ kind[b] = "none" => Keeps(queue, queue', "cancel", b)
    BY <1>2, <1>3, <1>5, KeepsTrans
  <2> QED BY <1>1, <1>3, <1>5, <2>1, CalledSame DEF CalledInv
<1> QED BY <1>4, <1>5 DEF CalledInv

\* The camera answers or is interrupted: its action has no task.
LEMMA CaptureCalled ==
    ASSUME OwnInv, StopInv, CalledInv,
           (\E a \in Actions : CaptureEnds(a) \/ Interrupted(a)) \/ Arrives
    PROVE  CalledInv'
<1>1. UNCHANGED calledOff /\ \A b \in Actions : Tasked(b)' => Tasked(b)
  BY DEF CaptureEnds, Interrupted, Arrives, Tasked, tasks, results
<1>2. ASSUME NEW a \in Actions, CaptureEnds(a) PROVE CalledInv'
  <2>1. PICK how \in Terminal : Ended(a, how, queue)
    BY <1>2 DEF CaptureEnds, Terminal
  <2> QED BY <1>1, <2>1, EndedCalled, KeepsAll DEF OwnInv, ActionTypeOK
<1>3. ASSUME NEW a \in Actions, Interrupted(a) PROVE CalledInv'
  <2>1. /\ UNCHANGED <<kind, level>> /\ kind[a] = "watch" /\ level[a] \in Levels
        /\ queue' = [queue EXCEPT ![level[a]] = <<Start(a)>> \o @]
    BY <1>3 DEF Interrupted, manager, OwnInv, OwnKinds, ActionTypeOK, Start
  <2>2. \A b \in Actions : b # a => Keeps(queue, queue', "cancel", b)
    BY <2>1, InFrontStop, CancelStops DEF OwnInv, ActionTypeOK
  <2>3. ~HasTask(a) /\ kind[a] # "none"
    BY <2>1 DEF HasTask
  <2> QED BY <1>1, <2>1, <2>2, <2>3, KeptCalled
<1>4. CASE Arrives
  BY <1>1, <1>4, KeptCalled, KeepsAll DEF Arrives, manager
<1> QED BY <1>2, <1>3, <1>4

LEMMA CalledInvStep == OwnInv /\ LockTypeOK /\ StopInv /\ CalledInv /\ [Next]_vars => CalledInv'
<1> SUFFICES ASSUME OwnInv, LockTypeOK, StopInv, CalledInv, [Next]_vars PROVE CalledInv'
  OBVIOUS
<1>1. ASSUME NEW l \in Levels, NEW a \in Actions, Dispatched(l, a) PROVE CalledInv'
  <2>1. CASE Ignored(l, a)
    <3>1. CASE IsNext(l, "cancel", a)
      BY <2>1, <3>1, CancelledCalled
    <3>2. CASE ~IsNext(l, "cancel", a)
      BY <2>1, <3>2, HandlerCalled DEF Ignored
    <3> QED BY <3>1, <3>2
  <2> QED BY <1>1, <2>1, HandlerCalled, StartsCalled, CancelledCalled DEF Dispatched
<1>2. CASE Dispatch
  BY <1>1, <1>2, CaptureCalled, CallCalled DEF Dispatch
<1>3. CASE Calls
  BY <1>3, AdmitCalled, CancelCalled, CallCalled DEF Calls
<1>4. CASE Arrives \/ \E a \in Actions : Tasks(a) \/ Timers(a)
  BY <1>4, CaptureCalled, TaskCalled
<1>5. CASE UNCHANGED vars
  BY <1>5, KeptCalled, KeepsAll DEF vars, manager, tasks, results, Tasked
<1> QED BY <1>2, <1>3, <1>4, <1>5 DEF Next

\* However requests, tasks, timers and the dispatcher interleave: an action whose request
\* to be cancelled has been dealt with gives no transcript and does not speak afterwards.
THEOREM CalledOffStaysSilent == Spec => CalledOffIsSilent
<1>1. Init => CalledInv
  BY DEF Init, CalledInv, CalledOffInv, HasTask, StopIn
<1>2. OwnInv /\ CalledInv /\ [Next]_vars =>
         \A a \in calledOff : (a \in transcribed' => a \in transcribed)
                              /\ (a \in spoken' => a \in spoken)
  <2> SUFFICES ASSUME OwnInv, CalledInv, [Next]_vars
               PROVE  \A a \in calledOff : (a \in transcribed' => a \in transcribed)
                                           /\ (a \in spoken' => a \in spoken)
    OBVIOUS
  <2>1. \/ UNCHANGED <<transcribed, spoken>>
        \/ \E b \in Actions : Announced(b) \/ ReminderFires(b)
    <3>1. ASSUME Dispatch PROVE UNCHANGED <<transcribed, spoken>>
      <4>1. ASSUME NEW l \in Levels, NEW a \in Actions, Dispatched(l, a)
            PROVE  UNCHANGED <<transcribed, spoken>>
        BY <4>1 DEF Dispatched, MotionStarts, MotionPreempted, ListenStarts, ListenCancelled,
           ReminderStarts, ReminderCancelled, CaptureStarts, Sensed, Ignored, tasks, results
      <4>2. ASSUME SafetyStop \/ \E a \in Actions : CaptureEnds(a) \/ Interrupted(a)
            PROVE  UNCHANGED <<transcribed, spoken>>
        BY <4>2 DEF CaptureEnds, Interrupted, SafetyStop, tasks, results
      <4> QED BY <3>1, <4>1, <4>2 DEF Dispatch
    <3>2. ASSUME Calls \/ Arrives PROVE UNCHANGED <<transcribed, spoken>>
      BY <3>2 DEF Calls, Admit, Detach, Cancel, SafetyEvent, StopWord, Arrives, tasks, results
    <3>3. ASSUME NEW b \in Actions, Timers(b) \/ ListenSpeech(b) \/ ListenFails(b)
          PROVE  UNCHANGED <<transcribed, spoken>>
      BY <3>3 DEF ListenSpeech, ListenFails, Timers, WaitExpires, CancelExpires, PreemptExpires,
         Orphaned, tasks, results
    <3> QED BY <3>1, <3>2, <3>3 DEF Next, Tasks, tasks, results, vars
  <2>2. \A b \in announcing \union scheduled : b \in Actions /\ HasTask(b) /\ Tasked(b)
    BY DEF OwnInv, OwnKinds, HasTask, Tasked
  <2>3. \A b \in announcing \union scheduled : b \notin calledOff
    BY <2>2 DEF CalledInv, CalledOffInv
  <2> QED BY <2>1, <2>3 DEF Announced, ReminderFires
<1>3. CalledInv /\ OwnInv /\ [Next]_vars =>
         [\A a \in calledOff : /\ a \in transcribed' => a \in transcribed
                               /\ a \in spoken' => a \in spoken]_vars
  BY <1>2
<1>4. Spec => []CalledInv
  BY <1>1, InvHolds, StopHolds, CalledInvStep, PTL DEF Spec
<1> QED BY <1>3, <1>4, InvHolds, PTL DEF Spec, CalledOffIsSilent
=============================================================================
