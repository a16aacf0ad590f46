-------------------------- MODULE ConversationProofs --------------------------
(***************************************************************************)
(* Theorems about the conversation, for every number of open turns, every  *)
(* failure threshold of the circuit and any number of interruptions.       *)
(***************************************************************************)
EXTENDS Conversation, FiniteSetTheorems, FunctionTheorems, SequenceTheorems, TLAPS

-----------------------------------------------------------------------------
(***************************************************************************)
(* The queues of the bus change in three ways: the first event is taken,   *)
(* events are appended, and an interrupted event is put in front again.    *)
(***************************************************************************)
\* The shapes of a queue, told element by element.
LEMMA AppendIs ==
    ASSUME NEW S, NEW q \in Seq(S), NEW e \in S
    PROVE  /\ Append(q, e) \in Seq(S) /\ Len(q) \in Nat /\ DOMAIN q = 1 .. Len(q)
           /\ DOMAIN Append(q, e) = 1 .. Len(q) + 1
           /\ Append(q, e)[Len(q) + 1] = e /\ \A i \in DOMAIN q : Append(q, e)[i] = q[i]
OBVIOUS

LEMMA TailIs ==
    ASSUME NEW S, NEW q \in Seq(S), q # <<>>
    PROVE  /\ Tail(q) \in Seq(S) /\ Len(q) \in Nat \ {0} /\ DOMAIN q = 1 .. Len(q)
           /\ Head(q) = q[1] /\ Head(q) \in S /\ DOMAIN Tail(q) = 1 .. Len(q) - 1
           /\ \A i \in DOMAIN Tail(q) : Tail(q)[i] = q[i + 1]
OBVIOUS

LEMMA InFrontIs ==
    ASSUME NEW S, NEW q \in Seq(S), NEW e \in S
    PROVE  LET f == <<e>> \o q IN
           /\ f \in Seq(S) /\ Len(q) \in Nat /\ DOMAIN q = 1 .. Len(q)
           /\ DOMAIN f = 1 .. Len(q) + 1 /\ f[1] = e /\ \A i \in DOMAIN q : f[i + 1] = q[i]
OBVIOUS

\* What a handler publishes is at most two events, one after the other.
LEMMA PublishIs ==
    ASSUME NEW S, NEW q \in Seq(S), NEW e \in S, NEW f \in S
    PROVE  /\ q \o <<>> = q /\ q \o <<e>> = Append(q, e)
           /\ q \o <<e, f>> = Append(Append(q, e), f)
           /\ q \o (<<>> \o <<e>>) = Append(q, e)
           /\ q \o (<<e>> \o <<f>>) = Append(Append(q, e), f)
<1>1. q \o <<>> = q
  BY ConcatEmptySeq
<1>2. q \o <<e>> = Append(q, e)
  OBVIOUS
<1>3. <<e, f>> \in Seq(S) /\ <<e>> \in Seq(S) /\ <<f>> \in Seq(S) /\ Append(q, e) \in Seq(S)
  OBVIOUS
<1>4. q \o (<<e>> \o <<f>>) = Append(Append(q, e), f)
  <2>1. q \o (<<e>> \o <<f>>) = (q \o <<e>>) \o <<f>>
    BY <1>3, ConcatAssociative
  <2>2. Append(q, e) \o <<f>> = Append(Append(q, e), f)
    BY <1>3
  <2> QED BY <1>2, <2>1, <2>2
<1>5. <<e>> \o <<f>> = <<e, f>>
  <2> DEFINE g == <<e>> \o <<f>>
             h == <<e, f>>
  <2>1. g \in Seq(S) /\ Len(g) = 2 /\ g[1] = e /\ g[2] = f
    BY <1>3
  <2>2. h \in Seq(S) /\ Len(h) = 2 /\ h[1] = e /\ h[2] = f
    BY <1>3
  <2> HIDE DEF g, h
  <2>3. g = h
    BY <2>1, <2>2, SeqEqual
  <2> QED BY <2>3 DEF g, h
<1>6. <<>> \o <<e>> = <<e>>
  BY <1>3, ConcatEmptySeq
<1> QED BY <1>1, <1>2, <1>4, <1>5, <1>6

-----------------------------------------------------------------------------
(* How often a turn is in a queue. *)

At(q, t)    == {i \in DOMAIN q : q[i].turn = t}
Count(q, t) == Cardinality(At(q, t))
Is(e, t)    == IF e.turn = t THEN 1 ELSE 0

LEMMA CountType ==
    ASSUME NEW S, NEW q \in Seq(S), NEW t
    PROVE  IsFiniteSet(At(q, t)) /\ Count(q, t) \in Nat
<1>1. IsFiniteSet(1 .. Len(q)) /\ DOMAIN q = 1 .. Len(q)
  BY FS_Interval
<1>2. IsFiniteSet(At(q, t))
  BY <1>1, FS_Subset DEF At
<1> QED BY <1>2, FS_CardinalityType DEF Count

LEMMA CountAppend ==
    ASSUME NEW S, NEW q \in Seq(S), NEW e \in S, NEW t
    PROVE  Count(Append(q, e), t) = Count(q, t) + Is(e, t)
<1>1. IsFiniteSet(At(q, t)) /\ Count(q, t) \in Nat
  BY CountType
<1>2. At(Append(q, e), t) = IF e.turn = t THEN At(q, t) \union {Len(q) + 1} ELSE At(q, t)
  BY AppendIs DEF At
<1>3. CASE e.turn = t
  <2>1. Len(q) + 1 \notin At(q, t)
    BY AppendIs DEF At
  <2> QED BY <1>1, <1>2, <1>3, <2>1, FS_AddElement DEF Count, Is
<1>4. CASE e.turn # t
  BY <1>1, <1>2, <1>4 DEF Count, Is
<1> QED BY <1>3, <1>4

\* Every element of g but the first is an element of q, one place further.
LEMMA CountShift ==
    ASSUME NEW S, NEW q \in Seq(S), NEW g \in Seq(S), Len(g) = Len(q) + 1,
           \A i \in DOMAIN q : g[i + 1] = q[i], NEW t
    PROVE  Count(g, t) = Count(q, t) + Is(g[1], t)
<1> DEFINE A == At(q, t)
           B == At(g, t)
           f == [i \in A |-> i + 1]
<1>1. /\ IsFiniteSet(A) /\ IsFiniteSet(B) /\ Count(q, t) \in Nat /\ Count(g, t) \in Nat
  BY CountType
<1>2. /\ DOMAIN q = 1 .. Len(q) /\ DOMAIN g = 1 .. Len(q) + 1 /\ Len(q) \in Nat
  OBVIOUS
<1>3. f \in Bijection(A, B \ {1})
  <2>1. f \in [A -> B \ {1}]
    BY <1>2 DEF At
  <2>2. \A i, j \in A : f[i] = f[j] => i = j
    BY <1>2 DEF At
  <2>3. \A k \in B \ {1} : \E i \in A : f[i] = k
    <3> SUFFICES ASSUME NEW k \in B \ {1} PROVE k - 1 \in A /\ f[k - 1] = k
      OBVIOUS
    <3>1. k - 1 \in DOMAIN q /\ g[k] = q[k - 1] /\ k \in Int
      BY <1>2 DEF At
    <3> QED BY <3>1 DEF At
  <2> QED BY <2>1, <2>2, <2>3, Fun_IsBij
<1>4. IsFiniteSet(B \ {1}) /\ Cardinality(B \ {1}) = Count(q, t)
  BY <1>1, <1>3, FS_Bijection DEF ExistsBijection, Count
<1>5. 1 \in B <=> g[1].turn = t
  BY <1>2 DEF At
<1>6. Cardinality(B \ {1}) = IF 1 \in B THEN Count(g, t) - 1 ELSE Count(g, t)
  BY <1>1, FS_RemoveElement DEF Count
<1> QED BY <1>1, <1>4, <1>5, <1>6 DEF Is

LEMMA CountTail ==
    ASSUME NEW S, NEW q \in Seq(S), q # <<>>, NEW t
    PROVE  Count(q, t) = Count(Tail(q), t) + Is(Head(q), t)
<1> DEFINE r == Tail(q)
<1>1. r \in Seq(S) /\ Len(q) = Len(r) + 1 /\ Head(q) = q[1] /\ \A i \in DOMAIN r : q[i + 1] = r[i]
  OBVIOUS
<1> HIDE DEF r
<1>2. Count(q, t) = Count(r, t) + Is(q[1], t)
  BY <1>1, CountShift
<1> QED BY <1>1, <1>2 DEF r

LEMMA CountInFront ==
    ASSUME NEW S, NEW q \in Seq(S), NEW e \in S, NEW t
    PROVE  Count(<<e>> \o q, t) = Count(q, t) + Is(e, t)
<1> DEFINE g == <<e>> \o q
<1>1. g \in Seq(S) /\ Len(g) = Len(q) + 1 /\ g[1] = e /\ \A i \in DOMAIN q : g[i + 1] = q[i]
  OBVIOUS
<1> HIDE DEF g
<1>2. Count(g, t) = Count(q, t) + Is(g[1], t)
  BY <1>1, CountShift
<1> QED BY <1>1, <1>2 DEF g

-----------------------------------------------------------------------------
(* The last news of some kinds in a queue, or what is known already. *)

IsOf(e, K) == e.turn = NoTurn /\ e.kind \in K

LastOf(q, K, known, v) ==
    \/ v = known /\ \A i \in DOMAIN q : ~IsOf(q[i], K)
    \/ \E i \in DOMAIN q : /\ IsOf(q[i], K) /\ q[i].kind = v
                           /\ \A j \in DOMAIN q : IsOf(q[j], K) => j <= i

\* The news of the circuit.
Tells(e) == IsOf(e, Health)
LastNews(q, known, v) == LastOf(q, Health, known, v)

LEMMA LastAppend ==
    ASSUME NEW K, NEW S, NEW q \in Seq(S), NEW e \in S, NEW k, NEW v, LastOf(q, K, k, v)
    PROVE  LastOf(Append(q, e), K, k, IF IsOf(e, K) THEN e.kind ELSE v)
<1> DEFINE a == Append(q, e)
<1>1. /\ Len(q) \in Nat /\ DOMAIN q = 1 .. Len(q) /\ DOMAIN a = 1 .. Len(q) + 1
      /\ a[Len(q) + 1] = e /\ \A i \in DOMAIN q : a[i] = q[i]
  BY AppendIs
<1> HIDE DEF a
<1>2. CASE IsOf(e, K)
  BY <1>1, <1>2 DEF LastOf, a
<1>3. CASE ~IsOf(e, K)
  <2>1. \A i \in DOMAIN a : IsOf(a[i], K) => i \in DOMAIN q
    BY <1>1, <1>3
  <2> QED BY <1>1, <1>3, <2>1 DEF LastOf, a
<1> QED BY <1>2, <1>3

LEMMA LastTail ==
    ASSUME NEW K, NEW S, NEW q \in Seq(S), q # <<>>, NEW k, NEW v, LastOf(q, K, k, v)
    PROVE  LastOf(Tail(q), K, IF IsOf(Head(q), K) THEN Head(q).kind ELSE k, v)
<1> DEFINE r == Tail(q)
           n == IF IsOf(Head(q), K) THEN Head(q).kind ELSE k
<1>1. /\ Len(q) \in Nat \ {0} /\ DOMAIN q = 1 .. Len(q) /\ Head(q) = q[1]
      /\ DOMAIN r = 1 .. Len(q) - 1 /\ \A i \in DOMAIN r : r[i] = q[i + 1]
  BY TailIs
<1> HIDE DEF r
<1>2. CASE v = k /\ \A i \in DOMAIN q : ~IsOf(q[i], K)
  BY <1>1, <1>2 DEF LastOf, r
<1>3. ASSUME NEW i \in DOMAIN q, IsOf(q[i], K), q[i].kind = v,
             \A j \in DOMAIN q : IsOf(q[j], K) => j <= i
      PROVE  LastOf(r, K, n, v)
  <2>1. CASE i = 1
    <3>1. \A j \in DOMAIN r : ~IsOf(r[j], K)
      BY <1>1, <1>3, <2>1
    <3> QED BY <1>1, <1>3, <2>1, <3>1 DEF LastOf
  <2>2. CASE i # 1
    <3>1. i - 1 \in DOMAIN r /\ r[i - 1] = q[i] /\ \A j \in DOMAIN r : IsOf(r[j], K) => j <= i - 1
      BY <1>1, <1>3, <2>2
    <3> QED BY <1>3, <3>1 DEF LastOf
  <2> QED BY <2>1, <2>2
<1> QED BY <1>2, <1>3 DEF LastOf, r

LEMMA LastInFront ==
    ASSUME NEW K, NEW S, NEW q \in Seq(S), NEW e \in S, ~IsOf(e, K), NEW k, NEW v, LastOf(q, K, k, v)
    PROVE  LastOf(<<e>> \o q, K, k, v)
<1> DEFINE f == <<e>> \o q
<1>1. /\ Len(q) \in Nat /\ DOMAIN q = 1 .. Len(q) /\ DOMAIN f = 1 .. Len(q) + 1
      /\ f[1] = e /\ \A i \in DOMAIN q : f[i + 1] = q[i]
  BY InFrontIs
<1> HIDE DEF f
<1>2. \A i \in DOMAIN f : IsOf(f[i], K) => i - 1 \in DOMAIN q /\ f[i] = q[i - 1]
  BY <1>1
<1>3. CASE v = k /\ \A i \in DOMAIN q : ~IsOf(q[i], K)
  BY <1>2, <1>3 DEF LastOf, f
<1>4. ASSUME NEW i \in DOMAIN q, IsOf(q[i], K), q[i].kind = v,
             \A j \in DOMAIN q : IsOf(q[j], K) => j <= i
      PROVE  LastOf(f, K, k, v)
  <2>1. i + 1 \in DOMAIN f /\ f[i + 1] = q[i] /\ \A j \in DOMAIN f : IsOf(f[j], K) => j <= i + 1
    BY <1>1, <1>2, <1>4
  <2> QED BY <1>4, <2>1 DEF LastOf
<1> QED BY <1>3, <1>4 DEF LastOf, f

\* Latest is what LastOf says.
LEMMA LatestIs ==
    ASSUME NEW K, DOMAIN normal \subseteq Int, NEW k, NEW v, LastOf(normal, K, k, v)
    PROVE  Latest(K, k) = v
<1> DEFINE at == {i \in DOMAIN normal : normal[i].turn = NoTurn /\ KindAt(normal, i, K)}
<1>1. \A i \in DOMAIN normal : i \in at <=> IsOf(normal[i], K)
  BY DEF IsOf, KindAt
<1>2. CASE v = k /\ \A i \in DOMAIN normal : ~IsOf(normal[i], K)
  BY <1>1, <1>2 DEF Latest
<1>3. ASSUME NEW i \in DOMAIN normal, IsOf(normal[i], K), normal[i].kind = v,
             \A j \in DOMAIN normal : IsOf(normal[j], K) => j <= i
      PROVE  Latest(K, k) = v
  <2>1. i \in at /\ \A j \in at : j <= i
    BY <1>1, <1>3
  <2>2. \A m \in at : (\A j \in at : j <= m) => m = i
    BY <2>1
  <2>3. (CHOOSE m \in at : \A j \in at : j <= m) = i
    BY <2>1, <2>2
  <2> QED BY <1>3, <2>1, <2>3 DEF Latest
<1> QED BY <1>2, <1>3 DEF LastOf

-----------------------------------------------------------------------------
(***************************************************************************)
(* The invariant.  A queue is known by the events it has (Has), by how     *)
(* often it has each turn (Count) and by its last news (LastNews), and the *)
(* three changes say what becomes of each.                                 *)
(***************************************************************************)
Has(q, e) == \E i \in DOMAIN q : q[i] = e

LEMMA Appended ==
    ASSUME NEW q \in Seq(Normal), NEW e \in Normal
    PROVE  /\ Append(q, e) \in Seq(Normal) /\ Has(Append(q, e), e)
           /\ \A t : Count(Append(q, e), t) = Count(q, t) + Is(e, t) /\ Count(q, t) \in Nat
           /\ \A k, v : LastNews(q, k, v) =>
                           LastNews(Append(q, e), k, IF Tells(e) THEN e.kind ELSE v)
           /\ \A f : Has(q, f) => Has(Append(q, e), f)
<1> DEFINE S == Normal
           a == Append(q, e)
<1>1. q \in Seq(S) /\ e \in S
  OBVIOUS
<1> HIDE DEF S
<1>2. /\ a \in Seq(S) /\ Len(q) \in Nat /\ DOMAIN q = 1 .. Len(q) /\ DOMAIN a = 1 .. Len(q) + 1
      /\ a[Len(q) + 1] = e /\ \A i \in DOMAIN q : a[i] = q[i]
  BY <1>1, AppendIs
<1>3. Has(a, e) /\ \A f : Has(q, f) => Has(a, f)
  <2> HIDE DEF a
  <2> QED BY <1>2 DEF Has
<1>4. \A t : Count(a, t) = Count(q, t) + Is(e, t) /\ Count(q, t) \in Nat
  BY <1>1, CountAppend, CountType
<1>5. \A k, v : LastNews(q, k, v) => LastNews(a, k, IF Tells(e) THEN e.kind ELSE v)
  BY <1>1, LastAppend DEF LastNews, Tells
<1> QED BY <1>2, <1>3, <1>4, <1>5 DEF S

LEMMA Taken ==
    ASSUME NEW q \in Seq(Normal), q # <<>>
    PROVE  /\ Tail(q) \in Seq(Normal) /\ Head(q) \in Normal
           /\ \A t : Count(q, t) = Count(Tail(q), t) + Is(Head(q), t) /\ Count(Tail(q), t) \in Nat
           /\ \A k, v : LastNews(q, k, v) =>
                           LastNews(Tail(q), IF Tells(Head(q)) THEN Head(q).kind ELSE k, v)
           /\ \A f : Has(q, f) => f = Head(q) \/ Has(Tail(q), f)
<1> DEFINE S == Normal
           r == Tail(q)
<1>1. q \in Seq(S)
  OBVIOUS
<1> HIDE DEF S
<1>2. /\ r \in Seq(S) /\ Len(q) \in Nat \ {0} /\ DOMAIN q = 1 .. Len(q)
      /\ Head(q) = q[1] /\ Head(q) \in S /\ DOMAIN r = 1 .. Len(q) - 1
      /\ \A i \in DOMAIN r : r[i] = q[i + 1]
  BY <1>1, TailIs
<1>3. \A f : Has(q, f) => f = Head(q) \/ Has(r, f)
  <2> SUFFICES ASSUME NEW i \in DOMAIN q, i # 1 PROVE i - 1 \in DOMAIN r /\ r[i - 1] = q[i]
    BY <1>2 DEF Has
  <2> HIDE DEF r
  <2> QED BY <1>2
<1>4. \A t : Count(q, t) = Count(r, t) + Is(Head(q), t) /\ Count(r, t) \in Nat
  BY <1>1, <1>2, CountTail, CountType
<1>5. \A k, v : LastNews(q, k, v) => LastNews(r, IF Tells(Head(q)) THEN Head(q).kind ELSE k, v)
  BY <1>1, LastTail DEF LastNews, Tells
<1> QED BY <1>2, <1>3, <1>4, <1>5 DEF S

LEMMA PutInFront ==
    ASSUME NEW q \in Seq(Normal), NEW e \in Normal, ~Tells(e)
    PROVE  /\ <<e>> \o q \in Seq(Normal) /\ Has(<<e>> \o q, e)
           /\ \A t : Count(<<e>> \o q, t) = Count(q, t) + Is(e, t) /\ Count(q, t) \in Nat
           /\ \A k, v : LastNews(q, k, v) => LastNews(<<e>> \o q, k, v)
           /\ \A f : Has(q, f) => Has(<<e>> \o q, f)
<1> DEFINE S == Normal
           g == <<e>> \o q
<1>1. q \in Seq(S) /\ e \in S
  OBVIOUS
<1> HIDE DEF S
<1>2. /\ g \in Seq(S) /\ Len(q) \in Nat /\ DOMAIN q = 1 .. Len(q) /\ DOMAIN g = 1 .. Len(q) + 1
      /\ g[1] = e /\ \A i \in DOMAIN q : g[i + 1] = q[i]
  BY <1>1, InFrontIs
<1>3. Has(g, e) /\ \A f : Has(q, f) => Has(g, f)
  <2>1. \A i \in DOMAIN q : i + 1 \in DOMAIN g
    BY <1>2
  <2> HIDE DEF g
  <2> QED BY <1>2, <2>1 DEF Has
<1>4. \A t : Count(g, t) = Count(q, t) + Is(e, t) /\ Count(q, t) \in Nat
  BY <1>1, CountInFront, CountType
<1>5. \A k, v : LastNews(q, k, v) => LastNews(g, k, v)
  BY <1>1, LastInFront DEF LastNews, Tells
<1> QED BY <1>2, <1>3, <1>4, <1>5 DEF S

PlaceTypeOK ==
    /\ high \in Seq(High) /\ normal \in Seq(Normal)
    /\ busy \in {Free} \union [kind : {"request", "synthesis", "playback"}, turn : Turns]
    /\ hearing \in {Deaf} \union [kind : {"recording"}, turn : Turns]
    /\ speaker \in Turns \union {NoTurn}
CircuitTypeOK ==
    /\ bridge \in Health \union {"unknown"} /\ circuit \in Circuits
    /\ failures \in 0 .. Threshold /\ interrupts \in 0 .. MaxInterrupts
FlagTypeOK == /\ playback \in BOOLEAN /\ available \in BOOLEAN
              /\ cooled \in BOOLEAN /\ probe \in BOOLEAN

PlacesOf(t) == Count(high, t) + Count(normal, t) + Is(busy, t) + Is(hearing, t)
OnlyPlace == \A t \in Turns : PlacesOf(t) <= 1

Told(c) == [closed |-> {"unknown", "healthy"}, half_open |-> {"degraded"},
            open |-> {"unavailable"}][c]
CircuitTold == \E v \in Told(circuit) : LastNews(normal, bridge, v)

SpeakerHeld == speaker # NoTurn =>
                  \/ Has(normal, Event("started", speaker))
                  \/ busy.kind \in {"synthesis", "playback"} /\ busy.turn = speaker

ConvInv == PlaceTypeOK /\ CircuitTypeOK /\ OnlyPlace /\ CircuitTold /\ SpeakerHeld

LEMMA EventIs ==
    /\ \A k \in TurnKinds : \A t \in Turns : Event(k, t) \in Normal
    /\ \A k \in News : Event(k, NoTurn) \in Normal
    /\ \A k : \A t \in Turns : ~Tells(Event(k, t))
    /\ \A k \in Health : Tells(Event(k, NoTurn))
    /\ \A k, t : Event(k, t).kind = k /\ Event(k, t).turn = t
    /\ \A t \in Turns : t # NoTurn
BY DEF Event, Normal, TurnKinds, News, Health, Turns, NoTurn, Tells, IsOf

LEMMA ToldIs == /\ Told("closed") = {"unknown", "healthy"} /\ Told("half_open") = {"degraded"}
                /\ Told("open") = {"unavailable"}
BY DEF Told

LEMMA TypesOfTurns ==
    ASSUME PlaceTypeOK, NEW t \in Turns
    PROVE  /\ Count(high, t) \in Nat /\ Count(normal, t) \in Nat
           /\ Is(busy, t) \in 0 .. 1 /\ Is(hearing, t) \in 0 .. 1
BY CountType DEF PlaceTypeOK, Is

\* Places counts what PlacesOf counts.
LEMMA PlacesAre == ASSUME PlaceTypeOK, NEW t \in Turns PROVE Places(t) = PlacesOf(t)
<1> DEFINE both == {p \in {busy, hearing} : p.turn = t}
<1>1. busy # hearing
  BY DEF PlaceTypeOK, Free, Deaf
<1>2. Places(t) = Count(high, t) + Count(normal, t) + Cardinality(both)
  BY Zenon DEF Places, Count, At
<1>3. /\ both \subseteq {busy, hearing} /\ (busy \in both <=> busy.turn = t)
      /\ (hearing \in both <=> hearing.turn = t)
  OBVIOUS
<1> HIDE DEF both
<1>4. Cardinality(both) = Is(busy, t) + Is(hearing, t)
  <2>1. CASE busy.turn = t /\ hearing.turn = t
    <3>1. both = {busy} \union {hearing}
      BY <1>3, <2>1
    <3>2. IsFiniteSet({busy}) /\ Cardinality({busy}) = 1
      BY FS_Singleton
    <3>3. Cardinality({busy} \union {hearing}) = 1 + 1
      BY <1>1, <3>2, FS_AddElement
    <3> QED BY <2>1, <3>1, <3>3 DEF Is
  <2>2. CASE busy.turn = t /\ hearing.turn # t
    <3>1. both = {busy}
      BY <1>3, <2>2
    <3>2. Cardinality(both) = 1
      BY <3>1, FS_Singleton
    <3> QED BY <2>2, <3>2 DEF Is
  <2>3. CASE busy.turn # t /\ hearing.turn = t
    <3>1. both = {hearing}
      BY <1>3, <2>3
    <3>2. Cardinality(both) = 1
      BY <3>1, FS_Singleton
    <3> QED BY <2>3, <3>2 DEF Is
  <2>4. CASE busy.turn # t /\ hearing.turn # t
    <3>1. both = {}
      BY <1>3, <2>4
    <3> QED BY <2>4, <3>1, FS_EmptySet DEF Is
  <2> QED BY <2>1, <2>2, <2>3, <2>4
<1> QED BY <1>2, <1>4, TypesOfTurns DEF PlacesOf

\* The wake loop records a turn that is nowhere yet, and hands it on; the clock is silent.
LEMMA WakeStep ==
    ASSUME ConvInv, (\E t \in Turns : Wake(t)) \/ Hearing \/ CooldownPasses
    PROVE  ConvInv'
<1> USE DEF ConvInv
<1>1. UNCHANGED <<normal, busy, bridge, circuit, speaker, failures, interrupts>>
  BY DEF Wake, Hearing, ListenFails, Transcribed, CooldownPasses, state, breaker
<1>2. CircuitTypeOK' /\ CircuitTold' /\ SpeakerHeld'
  BY <1>1 DEF CircuitTypeOK, CircuitTold, SpeakerHeld
<1>3. ASSUME NEW t \in Turns, Wake(t) PROVE ConvInv'
  <2>1. hearing' = [kind |-> "recording", turn |-> t] /\ high' = high /\ PlacesOf(t) = 0
    BY <1>3, PlacesAre DEF Wake, Fresh
  <2>2. PlaceTypeOK'
    BY <1>1, <2>1 DEF PlaceTypeOK
  <2>3. \A u \in Turns : PlacesOf(u)' <= 1
    <3> SUFFICES ASSUME NEW u \in Turns PROVE PlacesOf(u)' <= 1
      OBVIOUS
    <3>1. Is(hearing', u) = IF u = t THEN 1 ELSE 0
      BY <2>1 DEF Is
    <3>2. Count(high, u)' = Count(high, u) /\ Count(normal, u)' = Count(normal, u)
          /\ Is(busy, u)' = Is(busy, u)
      BY <1>1, <2>1
    <3> QED BY <2>1, <3>1, <3>2, TypesOfTurns DEF PlacesOf, OnlyPlace
  <2> QED BY <1>2, <2>2, <2>3 DEF OnlyPlace
<1>4. ASSUME NEW t \in Turns, Transcribed(t) PROVE ConvInv'
  <2> DEFINE e == Event("transcript", t)
  <2>1. hearing' = Deaf /\ hearing.turn = t /\ high' = Append(high, e) /\ e \in High /\ e.turn = t
    BY <1>4 DEF Transcribed, High, Event
  <2>2. PlaceTypeOK'
    BY <1>1, <2>1 DEF PlaceTypeOK
  <2>3. \A u \in Turns : PlacesOf(u)' = PlacesOf(u)
    <3> SUFFICES ASSUME NEW u \in Turns PROVE PlacesOf(u)' = PlacesOf(u)
      OBVIOUS
    <3>1. Count(high, u)' = Count(high, u) + Is(e, u)
      <4>1. Count(Append(high, e), u) = Count(high, u) + Is(e, u)
        BY <2>1, CountAppend DEF PlaceTypeOK
      <4> QED BY <2>1, <4>1
    <3>2. Is(e, u) = Is(hearing, u) /\ Is(hearing', u) = 0
      BY <2>1, EventIs DEF Is, Deaf
    <3>3. Count(normal, u)' = Count(normal, u) /\ Is(busy, u)' = Is(busy, u)
      BY <1>1
    <3> QED BY <3>1, <3>2, <3>3, TypesOfTurns DEF PlacesOf
  <2> QED BY <1>2, <2>2, <2>3 DEF OnlyPlace
<1>5. CASE ListenFails
  <2>1. hearing' = Deaf /\ high' = high
    BY <1>5 DEF ListenFails
  <2>2. PlaceTypeOK'
    BY <1>1, <2>1 DEF PlaceTypeOK
  <2>3. \A u \in Turns : PlacesOf(u)' <= 1
    <3> SUFFICES ASSUME NEW u \in Turns PROVE PlacesOf(u)' <= 1
      OBVIOUS
    <3>1. Is(hearing', u) = 0 /\ Count(high, u)' = Count(high, u)
          /\ Count(normal, u)' = Count(normal, u) /\ Is(busy, u)' = Is(busy, u)
      BY <1>1, <2>1, EventIs DEF Is, Deaf
    <3> QED BY <3>1, TypesOfTurns DEF PlacesOf, OnlyPlace
  <2> QED BY <1>2, <2>2, <2>3 DEF OnlyPlace
<1>6. CASE CooldownPasses
  BY <1>1, <1>2, <1>6 DEF CooldownPasses, PlaceTypeOK, OnlyPlace, PlacesOf
<1> QED BY <1>3, <1>4, <1>5, <1>6 DEF Hearing

-----------------------------------------------------------------------------
(* What the handlers publish. *)

\* At most one event of the turn t.
OneOf(t) == {<<>>} \union {<<Event(k, t)>> : k \in TurnKinds}

LEMMA PublishedTurn ==
    ASSUME NEW q \in Seq(Normal), NEW t \in Turns, NEW es \in OneOf(t)
    PROVE  /\ q \o es \in Seq(Normal)
           /\ \A u \in Turns : /\ Count(q \o es, u) \in Nat /\ Count(q, u) \in Nat
                               /\ Count(q \o es, u) <= Count(q, u) + IF u = t THEN 1 ELSE 0
           /\ \A k, v : LastNews(q, k, v) => LastNews(q \o es, k, v)
           /\ \A f : Has(q, f) => Has(q \o es, f)
           /\ \A k \in TurnKinds : es = <<Event(k, t)>> => Has(q \o es, Event(k, t))
<1>1. CASE es = <<>>
  <2>1. q \o es = q /\ \A k \in TurnKinds : es # <<Event(k, t)>>
    BY <1>1, ConcatEmptySeq
  <2>2. \A u : Count(q, u) \in Nat
    BY CountType
  <2> QED BY <2>1, <2>2
<1>2. ASSUME NEW k \in TurnKinds, es = <<Event(k, t)>>
      PROVE  /\ q \o es \in Seq(Normal)
             /\ \A u \in Turns : /\ Count(q \o es, u) \in Nat /\ Count(q, u) \in Nat
                                 /\ Count(q \o es, u) <= Count(q, u) + IF u = t THEN 1 ELSE 0
             /\ \A kn, v : LastNews(q, kn, v) => LastNews(q \o es, kn, v)
             /\ \A f : Has(q, f) => Has(q \o es, f)
             /\ Has(q \o es, Event(k, t))
  <2> DEFINE e == Event(k, t)
  <2>1. e \in Normal /\ ~Tells(e) /\ e.turn = t /\ es = <<e>>
    BY <1>2, EventIs
  <2> HIDE DEF e
  <2>2. q \o es = Append(q, e)
    BY <2>1
  <2>3. \A u : Is(e, u) = IF u = t THEN 1 ELSE 0
    BY <2>1 DEF Is
  <2>4. /\ Append(q, e) \in Seq(Normal) /\ Has(Append(q, e), e)
        /\ \A f : Has(q, f) => Has(Append(q, e), f)
        /\ \A u : Count(Append(q, e), u) = Count(q, u) + Is(e, u) /\ Count(q, u) \in Nat
    BY <2>1, Appended
  <2>5. \A kn, v : LastNews(q, kn, v) => LastNews(Append(q, e), kn, v)
    BY <2>1, Appended
  <2>6. Has(q \o es, e)
    BY <2>2, <2>4
  <2> QED BY <2>2, <2>3, <2>4, <2>5, <2>6 DEF e
<1>3. \A k, j \in TurnKinds : <<Event(k, t)>> = <<Event(j, t)>> => k = j
  BY DEF Event
<1> QED BY <1>1, <1>2, <1>3 DEF OneOf

\* News of the circuit, and perhaps an event of the turn t behind it.
LEMMA PublishedNews ==
    ASSUME NEW q \in Seq(Normal), NEW t \in Turns, NEW h \in Health,
           NEW es \in OneOf(t), NEW r, r = (q \o <<Event(h, NoTurn)>>) \o es
    PROVE  /\ r \in Seq(Normal)
           /\ \A u \in Turns : /\ Count(r, u) \in Nat /\ Count(q, u) \in Nat
                               /\ Count(r, u) <= Count(q, u) + IF u = t THEN 1 ELSE 0
           /\ \A k, v : LastNews(q, k, v) => LastNews(r, k, h)
           /\ \A f : Has(q, f) => Has(r, f)
<1> DEFINE n == Event(h, NoTurn)
           m == q \o <<n>>
<1>1. n \in Normal /\ Tells(n) /\ n.turn = NoTurn /\ n.kind = h
  BY EventIs DEF News
<1> HIDE DEF n
<1>2. m = Append(q, n)
  BY <1>1
<1>3. \A u \in Turns : Is(n, u) = 0
  BY <1>1, EventIs DEF Is
<1>4. /\ m \in Seq(Normal) /\ \A u \in Turns : Count(m, u) = Count(q, u)
      /\ \A k, v : LastNews(q, k, v) => LastNews(m, k, h)
      /\ \A f : Has(q, f) => Has(m, f)
  <2>1. /\ Append(q, n) \in Seq(Normal) /\ \A f : Has(q, f) => Has(Append(q, n), f)
        /\ \A u : Count(Append(q, n), u) = Count(q, u) + Is(n, u) /\ Count(q, u) \in Nat
    BY <1>1, Appended
  <2>2. \A k, v : LastNews(q, k, v) => LastNews(Append(q, n), k, h)
    BY <1>1, Appended
  <2>3. \A u \in Turns : Count(Append(q, n), u) = Count(q, u)
    BY <1>3, <2>1
  <2> QED BY <1>2, <2>1, <2>2, <2>3
<1>5. r = m \o es
  BY DEF n
<1> HIDE DEF m
<1>6. \A u \in Turns : Count(q, u) \in Nat
  BY CountType
<1> QED BY <1>4, <1>5, <1>6, PublishedTurn

\* The order in which a handler composes what it publishes does not matter.
LEMMA NewsAndTurn ==
    ASSUME NEW q \in Seq(Normal), NEW t \in Turns, NEW h \in Health, NEW k \in TurnKinds
    PROVE  LET n == Event(h, NoTurn)
               e == Event(k, t)
           IN  /\ q \o <<n, e>> = (q \o <<n>>) \o <<e>>
               /\ q \o (<<n>> \o <<e>>) = (q \o <<n>>) \o <<e>>
               /\ q \o <<n>> = (q \o <<n>>) \o <<>>
               /\ q \o (<<>> \o <<e>>) = q \o <<e>>
<1> DEFINE n == Event(h, NoTurn)
           e == Event(k, t)
           S == Normal
<1>1. n \in S /\ e \in S /\ q \in Seq(S)
  BY EventIs DEF News
<1> HIDE DEF n, e, S
<1>2. q \o <<n>> = Append(q, n) /\ Append(q, n) \in Seq(S)
  BY <1>1
<1>3. Append(q, n) \o <<e>> = Append(Append(q, n), e) /\ Append(q, n) \o <<>> = Append(q, n)
      /\ q \o <<e>> = Append(q, e)
  BY <1>1, <1>2, PublishIs
<1>4. /\ q \o <<n, e>> = Append(Append(q, n), e) /\ q \o (<<n>> \o <<e>>) = Append(Append(q, n), e)
      /\ q \o (<<>> \o <<e>>) = Append(q, e)
  BY <1>1, PublishIs
<1> QED BY <1>2, <1>3, <1>4 DEF n, e

\* A NORMAL event is taken.
LEMMA NormalTaken ==
    ASSUME ConvInv, NEW kind, NEW t, NEW es, TakeNormal(kind, t, es)
    PROVE  /\ Tail(normal) \in Seq(Normal) /\ normal' = Tail(normal) \o es
           /\ high' = high /\ busy = Free /\ Head(normal) = Event(kind, t)
           /\ Event(kind, t) \in Normal
           /\ \A u \in Turns : /\ Count(normal, u) = Count(Tail(normal), u) + IF u = t THEN 1 ELSE 0
                               /\ Count(Tail(normal), u) \in Nat
           /\ \A v : LastNews(normal, bridge, v) =>
                 LastNews(Tail(normal), IF Tells(Event(kind, t)) THEN kind ELSE bridge, v)
           /\ speaker # NoTurn /\ kind # "started" => Has(Tail(normal), Event("started", speaker))
<1>1. normal \in Seq(Normal) /\ normal # <<>> /\ Head(normal) = Event(kind, t)
      /\ normal' = Tail(normal) \o es /\ high' = high /\ busy = Free
  BY DEF TakeNormal, ConvInv, PlaceTypeOK
<1>2. Event(kind, t).kind = kind /\ Event(kind, t).turn = t
  BY DEF Event
<1>3. \A u : Is(Event(kind, t), u) = IF u = t THEN 1 ELSE 0
  BY <1>2 DEF Is
<1>4. speaker # NoTurn /\ kind # "started" => Has(Tail(normal), Event("started", speaker))
  <2>1. speaker # NoTurn => Has(normal, Event("started", speaker))
    BY <1>1 DEF ConvInv, SpeakerHeld, Free
  <2>2. kind # "started" => Event("started", speaker) # Event(kind, t)
    BY DEF Event
  <2> QED BY <1>1, <2>1, <2>2, Taken
<1> QED BY <1>1, <1>2, <1>3, <1>4, Taken

-----------------------------------------------------------------------------
(* One step of each kind. *)

\* PolicyEngine decides on a transcript.
LEMMA TranscriptStep == ASSUME ConvInv, NEW t \in Turns, HandleTranscript(t) PROVE ConvInv'
<1>1. PICK es \in OneOf(t) :
         /\ TakeHigh("transcript", t, es)
         /\ \/ speaker' = speaker
            \/ speaker' = t /\ es = <<Event("started", t)>>
  BY DEF HandleTranscript, TranscriptIsLocal, TranscriptIsAsked, TranscriptIsDeclined,
         Admitted, LockSpeaker, OneOf, TurnKinds
<1>2. UNCHANGED <<busy, hearing, bridge, circuit, failures, interrupts>>
  BY DEF HandleTranscript, state, breaker
<1>3. /\ high \in Seq(High) /\ high # <<>> /\ Head(high).turn = t /\ high' = Tail(high)
      /\ normal \in Seq(Normal) /\ normal' = normal \o es
  BY <1>1, EventIs DEF TakeHigh, ConvInv, PlaceTypeOK
<1>4. PlaceTypeOK'
  <2>1. high' \in Seq(High) /\ normal' \in Seq(Normal) /\ speaker' \in Turns \union {NoTurn}
    BY <1>1, <1>3, PublishedTurn DEF ConvInv, PlaceTypeOK
  <2> QED BY <1>2, <2>1 DEF ConvInv, PlaceTypeOK
<1>5. OnlyPlace'
  <2> SUFFICES ASSUME NEW u \in Turns PROVE PlacesOf(u)' <= 1
    BY DEF OnlyPlace
  <2>1. Count(high, u) = Count(high', u) + (IF u = t THEN 1 ELSE 0) /\ Count(high', u) \in Nat
    <3>1. Count(high, u) = Count(Tail(high), u) + Is(Head(high), u) /\ Count(Tail(high), u) \in Nat
      <4>1. Tail(high) \in Seq(High)
        BY <1>3
      <4> QED BY <1>3, <4>1, CountTail, CountType
    <3> QED BY <1>3, <3>1 DEF Is
  <2>2. Count(normal', u) <= Count(normal, u) + (IF u = t THEN 1 ELSE 0) /\ Count(normal', u) \in Nat
    BY <1>3, PublishedTurn
  <2>3. PlacesOf(u)' = Count(high', u) + Count(normal', u) + Is(busy, u) + Is(hearing, u)
    BY <1>2 DEF PlacesOf
  <2> QED BY <2>1, <2>2, <2>3, TypesOfTurns DEF ConvInv, OnlyPlace, PlacesOf
<1>6. CircuitTold'
  BY <1>2, <1>3, PublishedTurn DEF ConvInv, CircuitTold
<1>7. SpeakerHeld'
  <2>1. CASE speaker' = speaker
    BY <1>2, <1>3, <2>1, PublishedTurn DEF ConvInv, SpeakerHeld
  <2>2. CASE speaker' = t /\ es = <<Event("started", t)>>
    BY <1>3, <2>2, PublishedTurn DEF SpeakerHeld, TurnKinds
  <2> QED BY <1>1, <2>1, <2>2
<1> QED BY <1>2, <1>4, <1>5, <1>6, <1>7 DEF ConvInv, CircuitTypeOK

\* An event of a turn is taken, and at most one of the same turn is published or handled:
\* OnlyPlace is kept by every NORMAL event.
LEMMA NormalOnlyPlace ==
    ASSUME ConvInv, NEW t, NEW kind, NEW es, TakeNormal(kind, t, es), hearing' = hearing,
           \A u \in Turns : /\ Count(normal', u) \in Nat /\ Is(busy', u) \in 0 .. 1
                            /\ Count(normal', u) + Is(busy', u)
                                  <= Count(Tail(normal), u) + IF u = t THEN 1 ELSE 0
    PROVE  OnlyPlace'
<1> SUFFICES ASSUME NEW u \in Turns PROVE PlacesOf(u)' <= 1
  BY DEF OnlyPlace
<1>1. Count(normal, u) = Count(Tail(normal), u) + (IF u = t THEN 1 ELSE 0)
      /\ Count(Tail(normal), u) \in Nat /\ high' = high
  BY NormalTaken
<1>2. PlacesOf(u)' = Count(high, u) + Count(normal', u) + Is(busy', u) + Is(hearing, u)
  BY <1>1 DEF PlacesOf
<1>3. Count(normal', u) \in Nat /\ Is(busy', u) \in 0 .. 1
      /\ Count(normal', u) + Is(busy', u) <= Count(normal, u)
  BY <1>1
<1> QED BY <1>2, <1>3, TypesOfTurns DEF ConvInv, OnlyPlace, PlacesOf

\* PolicyEngine handles an answer, StateManager an event of a turn.
LEMMA ResponseStep ==
    ASSUME ConvInv, NEW t \in Turns, HandleResponse(t) \/ HandleUnavailable(t)
    PROVE  ConvInv'
<1>1. PICK es \in OneOf(t) : \E kind \in TurnKinds \ {"started"} :
         /\ TakeNormal(kind, t, es)
         /\ \/ speaker' = speaker
            \/ speaker' = t /\ es = <<Event("started", t)>>
  BY DEF HandleResponse, HandleUnavailable, Admitted, LockSpeaker, OneOf, TurnKinds
<1>2. UNCHANGED <<busy, hearing, bridge, circuit, failures, interrupts>>
  BY DEF HandleResponse, HandleUnavailable, state, breaker
<1>3. PICK kind \in TurnKinds \ {"started"} : TakeNormal(kind, t, es)
  BY <1>1
<1> DEFINE r == Tail(normal)
<1>4. /\ r \in Seq(Normal) /\ normal' = r \o es /\ high' = high /\ busy = Free
      /\ \A v : LastNews(normal, bridge, v) => LastNews(r, bridge, v)
      /\ speaker # NoTurn => Has(r, Event("started", speaker))
  BY <1>3, NormalTaken, EventIs
<1>5. /\ normal' \in Seq(Normal)
      /\ \A u \in Turns : /\ Count(normal', u) \in Nat /\ Count(r, u) \in Nat
                          /\ Count(normal', u) <= Count(r, u) + IF u = t THEN 1 ELSE 0
      /\ \A v : LastNews(r, bridge, v) => LastNews(normal', bridge, v)
      /\ \A f : Has(r, f) => Has(normal', f)
      /\ es = <<Event("started", t)>> => Has(normal', Event("started", t))
  <2> HIDE DEF r
  <2> QED BY <1>4, PublishedTurn DEF TurnKinds
<1> HIDE DEF r
<1>6. PlaceTypeOK'
  BY <1>1, <1>2, <1>4, <1>5 DEF ConvInv, PlaceTypeOK
<1>7. OnlyPlace'
  <2>1. \A u \in Turns : Is(busy', u) = 0
    BY <1>2, <1>4, EventIs DEF Is, Free
  <2> QED BY <1>2, <1>3, <1>5, <2>1, NormalOnlyPlace DEF r
<1>8. CircuitTold'
  BY <1>2, <1>4, <1>5 DEF ConvInv, CircuitTold
<1>9. SpeakerHeld'
  BY <1>1, <1>4, <1>5 DEF SpeakerHeld
<1> QED BY <1>2, <1>6, <1>7, <1>8, <1>9 DEF ConvInv, CircuitTypeOK

\* StateManager learns of the circuit, or of a playback.
LEMMA NewsStep ==
    ASSUME ConvInv, HandlePlayback \/ \E status \in Health : HandleHealth(status)
    PROVE  ConvInv'
<1>1. PICK kind \in News : TakeNormal(kind, NoTurn, <<>>)
                           /\ bridge' = IF kind \in Health THEN kind ELSE bridge
  <2>1. CASE HandlePlayback
    BY <2>1 DEF HandlePlayback, News, Health
  <2>2. CASE \E status \in Health : HandleHealth(status)
    BY <2>2 DEF HandleHealth, News, Health
  <2> QED BY <2>1, <2>2
<1>2. UNCHANGED <<busy, hearing, circuit, failures, interrupts, speaker>>
  BY DEF HandlePlayback, HandleHealth, breaker
<1> DEFINE r == Tail(normal)
<1>3. Tells(Event(kind, NoTurn)) <=> kind \in Health
  BY DEF Tells, IsOf, Event
<1>4. /\ r \in Seq(Normal) /\ normal' = r \o <<>> /\ high' = high /\ busy = Free
      /\ \A v : LastNews(normal, bridge, v) =>
            LastNews(r, IF Tells(Event(kind, NoTurn)) THEN kind ELSE bridge, v)
      /\ speaker # NoTurn /\ kind # "started" => Has(r, Event("started", speaker))
      /\ \A u \in Turns : Count(r, u) \in Nat
  BY <1>1, NormalTaken
<1>5. normal' = r
  <2> HIDE DEF r
  <2> QED BY <1>4, ConcatEmptySeq
<1>6. PlaceTypeOK'
  BY <1>2, <1>4, <1>5 DEF ConvInv, PlaceTypeOK
<1>7. OnlyPlace'
  <2>1. \A u \in Turns : Is(busy', u) = 0 /\ u # NoTurn
    BY <1>2, <1>4, EventIs DEF Is, Free
  <2>2. \A u \in Turns : Count(normal', u) = Count(r, u)
    BY <1>5
  <2>3. \A u \in Turns : Count(normal', u) + Is(busy', u) <= Count(r, u) + IF u = NoTurn THEN 1 ELSE 0
    BY <1>4, <2>1, <2>2
  <2>4. \A u \in Turns : Count(normal', u) \in Nat /\ Is(busy', u) \in 0 .. 1
    BY <1>4, <2>1, <2>2
  <2> QED BY <1>1, <1>2, <2>3, <2>4, NormalOnlyPlace
<1>8. CircuitTold'
  <2>1. \A v : LastNews(normal, bridge, v) => LastNews(r, bridge', v)
    BY <1>1, <1>3, <1>4
  <2> QED BY <1>2, <1>5, <2>1 DEF ConvInv, CircuitTold
<1>9. SpeakerHeld'
  <2>1. kind # "started"
    BY <1>1 DEF News, Health
  <2> QED BY <1>2, <1>4, <1>5, <2>1 DEF SpeakerHeld
<1>10. bridge' \in Health \union {"unknown"}
  BY <1>1 DEF ConvInv, CircuitTypeOK
<1> QED BY <1>2, <1>6, <1>7, <1>8, <1>9, <1>10 DEF ConvInv, CircuitTypeOK

\* What becomes of the queue when a handler of CognitionBridge publishes: an event of the
\* turn t at most, after the news h of the circuit if there are any.
Publishes(q, r, es, news, h) ==
    IF news THEN r = (q \o <<Event(h, NoTurn)>>) \o es ELSE r = q \o es

LEMMA BridgePublishes ==
    ASSUME NEW q \in Seq(Normal), NEW t \in Turns, NEW es \in OneOf(t), NEW h \in Health,
           NEW news \in BOOLEAN, NEW r, Publishes(q, r, es, news, h)
    PROVE  /\ r \in Seq(Normal)
           /\ \A u \in Turns : /\ Count(r, u) \in Nat /\ Count(q, u) \in Nat
                               /\ Count(r, u) <= Count(q, u) + IF u = t THEN 1 ELSE 0
           /\ \A k, v : LastNews(q, k, v) => LastNews(r, k, IF news THEN h ELSE v)
           /\ \A f : Has(q, f) => Has(r, f)
<1>1. CASE news
  <2>1. /\ r \in Seq(Normal)
        /\ \A u \in Turns : /\ Count(r, u) \in Nat /\ Count(q, u) \in Nat
                            /\ Count(r, u) <= Count(q, u) + IF u = t THEN 1 ELSE 0
        /\ \A k, v : LastNews(q, k, v) => LastNews(r, k, h)
        /\ \A f : Has(q, f) => Has(r, f)
    BY <1>1, PublishedNews DEF Publishes
  <2> QED BY <1>1, <2>1
<1>2. CASE ~news
  <2>1. r = q \o es
    BY <1>2 DEF Publishes
  <2>2. /\ r \in Seq(Normal)
        /\ \A u \in Turns : /\ Count(r, u) \in Nat /\ Count(q, u) \in Nat
                            /\ Count(r, u) <= Count(q, u) + IF u = t THEN 1 ELSE 0
        /\ \A k, v : LastNews(q, k, v) => LastNews(r, k, v)
        /\ \A f : Has(q, f) => Has(r, f)
    BY <2>1, PublishedTurn
  <2> QED BY <1>2, <2>2
<1> QED BY <1>1, <1>2

\* CognitionBridge sends a request, or refuses it.
LEMMA RequestStep ==
    ASSUME ConvInv, NEW t \in Turns, RequestIsSent(t) \/ RequestIsRefused(t)
    PROVE  ConvInv'
<1> DEFINE news == circuit = "open" /\ cooled
           r == Tail(normal)
           sorry == Event("unavailable", t)
<1>1. /\ Refreshed[1] = IF news THEN "half_open" ELSE circuit
      /\ Refreshed[2] = IF news THEN <<Event("degraded", NoTurn)>> ELSE <<>>
  BY DEF Refreshed
<1>2. UNCHANGED <<hearing, bridge, failures, speaker, interrupts>>
  BY DEF RequestIsSent, RequestIsRefused, state
<1>3. circuit' = IF news THEN "half_open" ELSE circuit
  BY <1>1 DEF RequestIsSent, RequestIsRefused
<1>4. PICK es : TakeNormal("request", t, es)
  BY DEF RequestIsSent, RequestIsRefused
<1>5. /\ r \in Seq(Normal) /\ high' = high /\ busy = Free
      /\ \A v : LastNews(normal, bridge, v) => LastNews(r, bridge, v)
      /\ speaker # NoTurn => Has(r, Event("started", speaker))
      /\ \A u \in Turns : Count(r, u) \in Nat
  BY <1>4, NormalTaken, EventIs
<1>6. \E es2 \in OneOf(t) :
         /\ Publishes(r, normal', es2, news, "degraded")
         /\ (busy' = Event("request", t) /\ es2 = <<>>) \/ busy' = Free
  <2>1. CASE RequestIsSent(t)
    <3>1. normal' = r \o Refreshed[2] /\ busy' = Event("request", t)
      BY <2>1 DEF RequestIsSent, TakeNormal
    <3>2. r \o <<Event("degraded", NoTurn)>> = (r \o <<Event("degraded", NoTurn)>>) \o <<>>
      <4> HIDE DEF r
      <4> QED BY <1>5, NewsAndTurn DEF Health, TurnKinds
    <3> QED BY <1>1, <3>1, <3>2 DEF Publishes, OneOf
  <2>2. CASE RequestIsRefused(t)
    <3>1. normal' = r \o (Refreshed[2] \o <<sorry>>) /\ busy' = Free
      BY <1>5, <2>2 DEF RequestIsRefused, TakeNormal
    <3>2. /\ r \o (<<Event("degraded", NoTurn)>> \o <<sorry>>)
                = (r \o <<Event("degraded", NoTurn)>>) \o <<sorry>>
          /\ r \o (<<>> \o <<sorry>>) = r \o <<sorry>>
      <4> HIDE DEF r
      <4> QED BY <1>5, NewsAndTurn DEF Health, TurnKinds
    <3>3. <<sorry>> \in OneOf(t)
      BY DEF OneOf, TurnKinds
    <3> QED BY <1>1, <3>1, <3>2, <3>3 DEF Publishes
  <2> QED BY <2>1, <2>2
<1>7. PICK es2 \in OneOf(t) : /\ Publishes(r, normal', es2, news, "degraded")
                              /\ (busy' = Event("request", t) /\ es2 = <<>>) \/ busy' = Free
  BY <1>6
<1>8. news \in BOOLEAN /\ "degraded" \in Health
  BY DEF Health
<1>9. /\ normal' \in Seq(Normal)
      /\ \A u \in Turns : /\ Count(normal', u) \in Nat /\ Count(r, u) \in Nat
                          /\ Count(normal', u) <= Count(r, u) + IF u = t THEN 1 ELSE 0
      /\ \A k, v : LastNews(r, k, v) => LastNews(normal', k, IF news THEN "degraded" ELSE v)
      /\ \A f : Has(r, f) => Has(normal', f)
  <2> HIDE DEF r, news
  <2> QED BY <1>5, <1>7, <1>8, BridgePublishes
<1>10. PlaceTypeOK'
  <2>1. busy' \in {Free} \union [kind : {"request", "synthesis", "playback"}, turn : Turns]
    BY <1>7 DEF Event
  <2> QED BY <1>2, <1>5, <1>9, <2>1 DEF ConvInv, PlaceTypeOK
<1>11. OnlyPlace'
  <2>1. CASE busy' = Free
    <3>1. \A u \in Turns : Is(busy', u) = 0
      BY <2>1, EventIs DEF Is, Free
    <3>2. \A u \in Turns : /\ Count(normal', u) \in Nat /\ Is(busy', u) \in 0 .. 1
                            /\ Count(normal', u) + Is(busy', u)
                                  <= Count(Tail(normal), u) + IF u = t THEN 1 ELSE 0
      BY <1>9, <3>1
    <3> QED BY <1>2, <1>4, <3>2, NormalOnlyPlace
  <2>2. CASE busy' = Event("request", t) /\ es2 = <<>>
    <3>1. \A u \in Turns : Is(busy', u) = IF u = t THEN 1 ELSE 0
      BY <2>2 DEF Is, Event
    <3>2. \A u \in Turns : Count(normal', u) <= Count(r, u)
      <4> HIDE DEF r
      <4>1. CASE news
        <5>1. normal' = Append(r, Event("degraded", NoTurn)) /\ Event("degraded", NoTurn) \in Normal
          <6>1. normal' = (r \o <<Event("degraded", NoTurn)>>) \o <<>>
            BY <1>7, <2>2, <4>1 DEF Publishes
          <6>2. Event("degraded", NoTurn) \in Normal
            BY EventIs DEF News, Health
          <6>3. r \o <<Event("degraded", NoTurn)>> = (r \o <<Event("degraded", NoTurn)>>) \o <<>>
            BY <1>5, NewsAndTurn DEF Health, TurnKinds
          <6>4. r \o <<Event("degraded", NoTurn)>> = Append(r, Event("degraded", NoTurn))
            BY <1>5, <6>2, PublishIs
          <6> QED BY <6>1, <6>2, <6>3, <6>4
        <5>2. \A u \in Turns : Is(Event("degraded", NoTurn), u) = 0
          BY EventIs DEF Is
        <5>3. \A u \in Turns : Count(normal', u) = Count(r, u) + Is(Event("degraded", NoTurn), u)
          BY <1>5, <5>1, Appended
        <5> QED BY <1>5, <5>2, <5>3
      <4>2. CASE ~news
        <5>1. normal' = r
          BY <1>5, <1>7, <2>2, <4>2, ConcatEmptySeq DEF Publishes
        <5> QED BY <1>5, <5>1
      <4> QED BY <4>1, <4>2
    <3>3. \A u \in Turns : /\ Count(normal', u) \in Nat /\ Is(busy', u) \in 0 .. 1
                            /\ Count(normal', u) + Is(busy', u)
                                  <= Count(Tail(normal), u) + IF u = t THEN 1 ELSE 0
      BY <1>9, <3>1, <3>2
    <3> QED BY <1>2, <1>4, <3>3, NormalOnlyPlace
  <2> QED BY <1>7, <2>1, <2>2
<1>12. CircuitTold'
  <2>1. PICK v \in Told(circuit) : LastNews(normal, bridge, v)
    BY DEF ConvInv, CircuitTold
  <2>2. LastNews(normal', bridge, IF news THEN "degraded" ELSE v)
    BY <1>5, <1>9, <2>1
  <2>3. (IF news THEN "degraded" ELSE v) \in Told(circuit')
    BY <1>3, <2>1, ToldIs
  <2> QED BY <1>2, <2>2, <2>3 DEF CircuitTold
<1>13. SpeakerHeld'
  BY <1>2, <1>5, <1>9 DEF SpeakerHeld
<1> QED BY <1>2, <1>3, <1>10, <1>11, <1>12, <1>13 DEF ConvInv, CircuitTypeOK, Circuits

\* A handler that waited for the turn t ends: what it publishes takes its place.
LEMMA EndsOnlyPlace ==
    ASSUME ConvInv, NEW t \in Turns, busy.turn = t, busy' = Free, UNCHANGED <<high, hearing>>,
           \A u \in Turns : /\ Count(normal', u) \in Nat
                            /\ Count(normal', u) <= Count(normal, u) + IF u = t THEN 1 ELSE 0
    PROVE  OnlyPlace'
<1> SUFFICES ASSUME NEW u \in Turns PROVE PlacesOf(u)' <= 1
  BY DEF OnlyPlace
<1>1. PlacesOf(u)' = Count(high, u) + Count(normal', u) + Is(busy', u) + Is(hearing, u)
  BY DEF PlacesOf
<1>2. Is(busy', u) = 0 /\ Is(busy, u) = IF u = t THEN 1 ELSE 0
  BY EventIs DEF Is, Free
<1> QED BY <1>1, <1>2, TypesOfTurns DEF ConvInv, OnlyPlace, PlacesOf

\* The service answers, or fails.
LEMMA AnswerStep ==
    ASSUME ConvInv, NEW t \in Turns, RequestSucceeds(t) \/ RequestFails(t)
    PROVE  ConvInv'
<1>1. UNCHANGED <<hearing, bridge, speaker, interrupts>>
  BY DEF RequestSucceeds, RequestFails, state
<1>2. /\ busy.kind = "request" /\ busy.turn = t /\ busy' = Free /\ high' = high
      /\ normal \in Seq(Normal)
  BY DEF RequestSucceeds, RequestFails, Ends, ConvInv, PlaceTypeOK
<1>3. failures' \in 0 .. Threshold
  BY ConstantsAssumption DEF RequestSucceeds, RequestFails, ConvInv, CircuitTypeOK
<1>4. \E news \in BOOLEAN : \E h \in {"healthy", "unavailable"} : \E es \in OneOf(t) :
         /\ Publishes(normal, normal', es, news, h)
         /\ circuit' = IF news THEN (IF h = "healthy" THEN "closed" ELSE "open") ELSE circuit
  <2>1. CASE RequestSucceeds(t)
    <3>1. <<Event("response", t)>> \in OneOf(t)
      BY DEF OneOf, TurnKinds
    <3>2. normal \o <<Event("healthy", NoTurn), Event("response", t)>>
             = (normal \o <<Event("healthy", NoTurn)>>) \o <<Event("response", t)>>
      BY <1>2, NewsAndTurn DEF Health, TurnKinds
    <3>3. CASE probe
      BY <2>1, <3>1, <3>2, <3>3 DEF RequestSucceeds, Ends, Publishes
    <3>4. CASE ~probe
      BY <2>1, <3>1, <3>4 DEF RequestSucceeds, Ends, Publishes
    <3> QED BY <3>3, <3>4
  <2>2. CASE RequestFails(t)
    <3>1. <<Event("unavailable", t)>> \in OneOf(t)
      BY DEF OneOf, TurnKinds
    <3>2. normal \o (<<Event("unavailable", NoTurn)>> \o <<Event("unavailable", t)>>)
             = (normal \o <<Event("unavailable", NoTurn)>>) \o <<Event("unavailable", t)>>
      BY <1>2, NewsAndTurn DEF Health, TurnKinds
    <3>3. CASE circuit = "half_open" \/ failures' >= Threshold
      BY <2>2, <3>1, <3>2, <3>3 DEF RequestFails, Ends, Publishes, Sorry
    <3>4. CASE ~(circuit = "half_open" \/ failures' >= Threshold)
      BY <2>2, <3>1, <3>4 DEF RequestFails, Ends, Publishes, Sorry
    <3> QED BY <3>3, <3>4
  <2> QED BY <2>1, <2>2
<1>5. PICK news \in BOOLEAN, h \in {"healthy", "unavailable"}, es \in OneOf(t) :
         /\ Publishes(normal, normal', es, news, h)
         /\ circuit' = IF news THEN (IF h = "healthy" THEN "closed" ELSE "open") ELSE circuit
  BY <1>4
<1>6. /\ normal' \in Seq(Normal)
      /\ \A u \in Turns : /\ Count(normal', u) \in Nat
                          /\ Count(normal', u) <= Count(normal, u) + IF u = t THEN 1 ELSE 0
      /\ \A k, v : LastNews(normal, k, v) => LastNews(normal', k, IF news THEN h ELSE v)
      /\ \A f : Has(normal, f) => Has(normal', f)
  BY <1>2, <1>5, BridgePublishes DEF Health
<1>7. PlaceTypeOK'
  BY <1>1, <1>2, <1>6 DEF ConvInv, PlaceTypeOK
<1>8. OnlyPlace'
  BY <1>1, <1>2, <1>6, EndsOnlyPlace
<1>9. CircuitTold'
  <2>1. PICK v \in Told(circuit) : LastNews(normal, bridge, v)
    BY DEF ConvInv, CircuitTold
  <2>2. LastNews(normal', bridge, IF news THEN h ELSE v)
    BY <1>6, <2>1
  <2>3. (IF news THEN h ELSE v) \in Told(circuit')
    BY <1>5, <2>1, ToldIs
  <2> QED BY <1>1, <2>2, <2>3 DEF CircuitTold
<1>10. SpeakerHeld'
  BY <1>1, <1>2, <1>6 DEF ConvInv, SpeakerHeld
<1>11. circuit' \in Circuits
  BY <1>5 DEF ConvInv, CircuitTypeOK, Circuits
<1> QED BY <1>1, <1>3, <1>7, <1>8, <1>9, <1>10, <1>11 DEF ConvInv, CircuitTypeOK

\* A speech action is handled from its event on.
LEMMA SpeechStartStep == ASSUME ConvInv, NEW t \in Turns, SpeechStarts(t) PROVE ConvInv'
<1> DEFINE r == Tail(normal)
<1>1. UNCHANGED <<hearing, bridge, circuit, failures, speaker, interrupts>>
      /\ busy' = Event("synthesis", t) /\ TakeNormal("started", t, <<>>)
  BY DEF SpeechStarts, state, breaker
<1>2. /\ r \in Seq(Normal) /\ normal' = r \o <<>> /\ high' = high /\ busy = Free
      /\ Head(normal) = Event("started", t)
      /\ \A v : LastNews(normal, bridge, v) => LastNews(r, bridge, v)
      /\ \A u \in Turns : Count(r, u) \in Nat
  BY <1>1, NormalTaken, EventIs
<1>3. normal' = r
  <2> HIDE DEF r
  <2> QED BY <1>2, ConcatEmptySeq
<1>4. PlaceTypeOK'
  <2>1. busy' \in {Free} \union [kind : {"request", "synthesis", "playback"}, turn : Turns]
    BY <1>1 DEF Event
  <2> QED BY <1>1, <1>2, <1>3, <2>1 DEF ConvInv, PlaceTypeOK
<1>5. OnlyPlace'
  <2>1. \A u \in Turns : Is(busy', u) = IF u = t THEN 1 ELSE 0
    BY <1>1 DEF Is, Event
  <2>2. \A u \in Turns : Count(normal', u) = Count(r, u)
    BY <1>3
  <2>3. \A u \in Turns : /\ Count(normal', u) \in Nat /\ Is(busy', u) \in 0 .. 1
                         /\ Count(normal', u) + Is(busy', u)
                               <= Count(Tail(normal), u) + IF u = t THEN 1 ELSE 0
    BY <1>2, <2>1, <2>2
  <2> QED BY <1>1, <2>3, NormalOnlyPlace
<1>6. CircuitTold'
  BY <1>1, <1>2, <1>3 DEF ConvInv, CircuitTold
<1>7. SpeakerHeld'
  <2>1. speaker # NoTurn => Has(normal, Event("started", speaker))
    BY <1>2 DEF ConvInv, SpeakerHeld, Free
  <2>2. normal \in Seq(Normal) /\ normal # <<>>
    BY <1>1 DEF ConvInv, PlaceTypeOK, TakeNormal
  <2>3. speaker # NoTurn => speaker = t \/ Has(r, Event("started", speaker))
    BY <1>2, <2>1, <2>2, Taken, EventIs
  <2> QED BY <1>1, <1>3, <2>3, EventIs DEF SpeakerHeld
<1> QED BY <1>1, <1>4, <1>5, <1>6, <1>7 DEF ConvInv, CircuitTypeOK

\* It is played, and comes to its end, which gives the speaker back.
LEMMA SpeechStep ==
    ASSUME ConvInv, NEW t \in Turns, SpeechPlays(t) \/ SpeechCompletes(t) \/ SpeechFails(t)
    PROVE  ConvInv'
<1>1. UNCHANGED <<high, hearing, bridge, circuit, failures, interrupts>>
  BY DEF SpeechPlays, SpeechCompletes, SpeechFails, Ends, state, breaker
<1>2. /\ normal \in Seq(Normal) /\ busy.turn = t /\ busy.kind \in {"synthesis", "playback"}
  BY EventIs DEF SpeechPlays, SpeechCompletes, SpeechFails, Ends, ConvInv, PlaceTypeOK
<1>3. PICK e \in {Event("playback_started", NoTurn), Event("playback_over", NoTurn)} :
         normal' = Append(normal, e)
  <2>1. /\ Event("playback_over", NoTurn) \in Normal
        /\ normal \o <<Event("playback_over", NoTurn)>> = Append(normal, Event("playback_over", NoTurn))
    BY <1>2, EventIs, PublishIs DEF News
  <2> QED BY <2>1 DEF SpeechPlays, SpeechCompletes, SpeechFails, Ends
<1>4. e \in Normal /\ ~Tells(e) /\ e.turn = NoTurn
  BY EventIs DEF News, Tells, IsOf, Health, Event
<1>5. /\ Append(normal, e) \in Seq(Normal) /\ \A f : Has(normal, f) => Has(Append(normal, e), f)
      /\ \A u : Count(Append(normal, e), u) = Count(normal, u) + Is(e, u) /\ Count(normal, u) \in Nat
  BY <1>2, <1>4, Appended
<1>6. \A k, v : LastNews(normal, k, v) => LastNews(normal', k, v)
  BY <1>2, <1>3, <1>4, Appended
<1>7. \A u \in Turns : Count(normal', u) = Count(normal, u)
  <2>1. \A u \in Turns : Is(e, u) = 0
    BY <1>4, EventIs DEF Is
  <2> QED BY <1>3, <1>5, <2>1
<1>8. CircuitTold'
  BY <1>1, <1>6 DEF ConvInv, CircuitTold
<1>9. CASE SpeechPlays(t)
  <2>1. busy' = Event("playback", t) /\ speaker' = speaker
    BY <1>9 DEF SpeechPlays
  <2>2. PlaceTypeOK'
    <3>1. busy' \in {Free} \union [kind : {"request", "synthesis", "playback"}, turn : Turns]
      BY <2>1 DEF Event
    <3> QED BY <1>1, <1>3, <1>5, <2>1, <3>1 DEF ConvInv, PlaceTypeOK
  <2>3. OnlyPlace'
    <3> SUFFICES ASSUME NEW u \in Turns PROVE PlacesOf(u)' <= 1
      BY DEF OnlyPlace
    <3>1. PlacesOf(u)' = Count(high, u) + Count(normal', u) + Is(busy', u) + Is(hearing, u)
      BY <1>1 DEF PlacesOf
    <3>2. Is(busy', u) = Is(busy, u) /\ Count(normal', u) = Count(normal, u)
      BY <1>2, <1>7, <2>1, EventIs DEF Is
    <3> QED BY <3>1, <3>2 DEF ConvInv, OnlyPlace, PlacesOf
  <2>4. SpeakerHeld'
    BY <1>2, <1>3, <1>5, <2>1, EventIs DEF ConvInv, SpeakerHeld
  <2> QED BY <1>1, <1>8, <2>2, <2>3, <2>4 DEF ConvInv, CircuitTypeOK
<1>10. CASE SpeechCompletes(t) \/ SpeechFails(t)
  <2>1. busy' = Free /\ speaker' = IF speaker = t THEN NoTurn ELSE speaker
    BY <1>10 DEF SpeechCompletes, SpeechFails, Ends, ReleaseSpeaker
  <2>2. PlaceTypeOK'
    BY <1>1, <1>3, <1>5, <2>1 DEF ConvInv, PlaceTypeOK
  <2>3. OnlyPlace'
    <3>1. \A u \in Turns : /\ Count(normal', u) \in Nat
                            /\ Count(normal', u) <= Count(normal, u) + IF u = t THEN 1 ELSE 0
      BY <1>5, <1>7
    <3> QED BY <1>1, <1>2, <2>1, <3>1, EndsOnlyPlace
  <2>4. SpeakerHeld'
    BY <1>2, <1>3, <1>5, <2>1 DEF ConvInv, SpeakerHeld
  <2> QED BY <1>1, <1>8, <2>2, <2>3, <2>4 DEF ConvInv, CircuitTypeOK
<1> QED BY <1>9, <1>10

\* An interrupted handler leaves its event in front, where it is found again.
LEMMA InterruptStep == ASSUME ConvInv, Interrupt PROVE ConvInv'
<1> DEFINE e == Event(IF busy.kind = "request" THEN "request" ELSE "started", busy.turn)
<1>1. /\ normal' = <<e>> \o normal /\ busy' = Free /\ interrupts' = interrupts + 1
      /\ UNCHANGED <<high, hearing, bridge, circuit, failures, speaker>>
  BY DEF Interrupt, Interrupted, state
<1>2. busy \in [kind : {"request", "synthesis", "playback"}, turn : Turns] /\ normal \in Seq(Normal)
  BY DEF Interrupt, ConvInv, PlaceTypeOK
<1>3. e \in Normal /\ ~Tells(e) /\ e.turn = busy.turn /\ busy.turn \in Turns
      /\ (busy.kind # "request" => e = Event("started", busy.turn))
  BY <1>2, EventIs DEF TurnKinds
<1> HIDE DEF e
<1>4. /\ normal' \in Seq(Normal) /\ Has(normal', e)
      /\ \A u : Count(normal', u) = Count(normal, u) + Is(e, u) /\ Count(normal, u) \in Nat
      /\ \A k, v : LastNews(normal, k, v) => LastNews(normal', k, v)
      /\ \A f : Has(normal, f) => Has(normal', f)
  BY <1>1, <1>2, <1>3, PutInFront
<1>5. PlaceTypeOK'
  BY <1>1, <1>4 DEF ConvInv, PlaceTypeOK
<1>6. OnlyPlace'
  <2>1. \A u \in Turns : Is(e, u) = IF u = busy.turn THEN 1 ELSE 0
    BY <1>3 DEF Is
  <2>2. \A u \in Turns : /\ Count(normal', u) \in Nat
                         /\ Count(normal', u) <= Count(normal, u) + IF u = busy.turn THEN 1 ELSE 0
    BY <1>4, <2>1
  <2> QED BY <1>1, <1>3, <2>2, EndsOnlyPlace
<1>7. CircuitTold'
  BY <1>1, <1>4 DEF ConvInv, CircuitTold
<1>8. SpeakerHeld'
  BY <1>1, <1>3, <1>4 DEF ConvInv, SpeakerHeld
<1>9. interrupts' \in 0 .. MaxInterrupts
  BY <1>1, ConstantsAssumption DEF Interrupt, ConvInv, CircuitTypeOK
<1> QED BY <1>1, <1>5, <1>6, <1>7, <1>8, <1>9 DEF ConvInv, CircuitTypeOK

-----------------------------------------------------------------------------
LEMMA ConvInvInit == Init => ConvInv
<1> SUFFICES ASSUME Init PROVE ConvInv
  OBVIOUS
<1>1. PlaceTypeOK /\ CircuitTypeOK
  BY ConstantsAssumption DEF Init, PlaceTypeOK, CircuitTypeOK, Circuits
<1>2. OnlyPlace
  <2> SUFFICES ASSUME NEW u \in Turns PROVE PlacesOf(u) <= 1
    BY DEF OnlyPlace
  <2>1. At(high, u) = {} /\ At(normal, u) = {}
    BY DEF Init, At
  <2>2. Is(busy, u) = 0 /\ Is(hearing, u) = 0
    BY EventIs DEF Init, Is, Free, Deaf
  <2>3. Count(high, u) = 0 /\ Count(normal, u) = 0
    BY <2>1, FS_EmptySet DEF Count
  <2> QED BY <2>2, <2>3 DEF PlacesOf
<1>3. CircuitTold
  BY ToldIs DEF Init, CircuitTold, LastNews, LastOf
<1> QED BY <1>1, <1>2, <1>3 DEF Init, ConvInv, SpeakerHeld

LEMMA ConvInvStep == ConvInv /\ [Next]_vars => ConvInv'
<1> SUFFICES ASSUME ConvInv, [Next]_vars PROVE ConvInv'
  OBVIOUS
<1>1. CASE (\E t \in Turns : Wake(t)) \/ Hearing \/ CooldownPasses
  BY <1>1, WakeStep
<1>2. CASE DispatchHigh
  BY <1>2, TranscriptStep DEF DispatchHigh
<1>3. CASE DispatchNormal
  BY <1>3, NewsStep, ResponseStep, RequestStep, SpeechStartStep DEF DispatchNormal
<1>4. CASE Waits
  BY <1>4, AnswerStep, SpeechStep DEF Waits
<1>5. CASE Interrupt
  BY <1>5, InterruptStep
<1>6. CASE UNCHANGED vars
  BY <1>6 DEF vars, state, breaker, ConvInv, PlaceTypeOK, CircuitTypeOK, OnlyPlace, PlacesOf,
              CircuitTold, SpeakerHeld
<1> QED BY <1>1, <1>2, <1>3, <1>4, <1>5, <1>6 DEF Next

LEMMA FlagStep == FlagTypeOK /\ [Next]_vars => FlagTypeOK'
<1> SUFFICES ASSUME FlagTypeOK, [Next]_vars PROVE FlagTypeOK'
  OBVIOUS
<1>1. playback' \in BOOLEAN /\ available' \in BOOLEAN
  BY DEF FlagTypeOK, Next, Wake, Hearing, Transcribed, ListenFails, DispatchHigh, HandleTranscript,
         DispatchNormal, HandlePlayback, HandleHealth, HandleResponse, HandleUnavailable,
         RequestIsSent, RequestIsRefused, SpeechStarts, Waits, RequestSucceeds, RequestFails,
         SpeechPlays, SpeechCompletes, SpeechFails, Interrupt, CooldownPasses, state, vars
<1>2. cooled' \in BOOLEAN /\ probe' \in BOOLEAN
  BY DEF FlagTypeOK, Next, Wake, Hearing, Transcribed, ListenFails, DispatchHigh, HandleTranscript,
         DispatchNormal, HandlePlayback, HandleHealth, HandleResponse, HandleUnavailable,
         RequestIsSent, RequestIsRefused, SpeechStarts, Waits, RequestSucceeds, RequestFails,
         SpeechPlays, SpeechCompletes, SpeechFails, Interrupt, CooldownPasses, ProbeAfterwards,
         breaker, vars
<1> QED BY <1>1, <1>2 DEF FlagTypeOK

LEMMA ConvInvHolds == Spec => []ConvInv
BY ConvInvInit, ConvInvStep, PTL DEF Spec

\* The state is well typed.
THEOREM TypesHold == Spec => []TypeOK
<1>1. Init => FlagTypeOK
  BY DEF Init, FlagTypeOK
<1>2. ConvInv /\ FlagTypeOK => TypeOK
  BY DEF ConvInv, PlaceTypeOK, CircuitTypeOK, FlagTypeOK, TypeOK
<1> QED BY <1>1, <1>2, FlagStep, ConvInvHolds, PTL DEF Spec

\* What CognitionBridge last told of its circuit is what the circuit is, for every
\* threshold and however often its probes are interrupted.
THEOREM CircuitIsKnown == Spec => []KnownCircuit
<1>1. ConvInv => KnownCircuit
  <2> SUFFICES ASSUME ConvInv PROVE KnownCircuit
    OBVIOUS
  <2>1. PICK v \in Told(circuit) : LastNews(normal, bridge, v)
    BY DEF ConvInv, CircuitTold
  <2>2. DOMAIN normal \subseteq Int
    BY DEF ConvInv, PlaceTypeOK
  <2>3. Latest(Health, bridge) = v
    BY <2>1, <2>2, LatestIs DEF LastNews
  <2> QED BY <2>1, <2>3 DEF KnownCircuit, Told
<1> QED BY <1>1, ConvInvHolds, PTL

\* A turn is never in two places, so it is not asked twice at a time and gets one answer.
THEOREM TurnsStayOne == Spec => []OnePlace
<1>1. ConvInv => OnePlace
  BY PlacesAre DEF ConvInv, OnlyPlace, OnePlace
<1> QED BY <1>1, ConvInvHolds, PTL

\* The speaker is locked only for a speech action that will still be handled.
THEOREM SpeakerIsUsed == Spec => []SpeakerInUse
<1>1. ConvInv => SpeakerInUse
  BY DEF ConvInv, SpeakerHeld, Has, SpeakerInUse
<1> QED BY <1>1, ConvInvHolds, PTL

-----------------------------------------------------------------------------
(***************************************************************************)
(* The circuit breaker: what its fields say of each other.                 *)
(***************************************************************************)
BreakerExact ==
    /\ probe <=> (busy.kind = "request" /\ circuit = "half_open")
    /\ busy.kind = "request" => circuit # "open"
    /\ circuit = "closed" <=> failures < Threshold
    /\ circuit = "closed" => ~cooled
    /\ circuit = "half_open" => cooled

BreakerInv == PlaceTypeOK /\ CircuitTypeOK /\ FlagTypeOK /\ BreakerExact

\* A handler that is no request takes its event, waits or ends, and leaves the breaker.
LEMMA BreakerAlone ==
    ASSUME BreakerInv, UNCHANGED breaker,
           busy' = busy \/ (busy.kind # "request" /\ busy'.kind # "request")
    PROVE  BreakerExact'
BY DEF BreakerInv, BreakerExact, breaker

\* A request is sent: through a closed circuit, or as the one probe of a half-open one.
LEMMA BreakerRequest ==
    ASSUME BreakerInv, NEW t \in Turns, RequestIsSent(t) \/ RequestIsRefused(t)
    PROVE  BreakerExact'
<1>1. busy = Free /\ UNCHANGED <<failures, cooled>>
  BY DEF RequestIsSent, RequestIsRefused, TakeNormal
<1>2. ~probe
  BY <1>1 DEF BreakerInv, BreakerExact, Free
<1>3. circuit' = IF circuit = "open" /\ cooled THEN "half_open" ELSE circuit
  BY DEF RequestIsSent, RequestIsRefused, Refreshed
<1>4. CASE RequestIsSent(t)
  <2>1. busy'.kind = "request" /\ circuit' # "open" /\ probe' = (circuit' = "half_open")
    BY <1>2, <1>4 DEF RequestIsSent, Event, Barred
  <2> QED BY <1>1, <1>3, <2>1 DEF BreakerInv, BreakerExact, CircuitTypeOK, Circuits
<1>5. CASE RequestIsRefused(t)
  <2>1. busy' = busy /\ probe' = probe
    BY <1>5 DEF RequestIsRefused
  <2> QED BY <1>1, <1>2, <1>3, <2>1 DEF BreakerInv, BreakerExact, CircuitTypeOK, Circuits, Free
<1> QED BY <1>4, <1>5

\* The answer of a probe closes the circuit, its failure opens it, and so does the failure
\* that reaches the threshold.
LEMMA BreakerAnswer ==
    ASSUME BreakerInv, NEW t \in Turns, RequestSucceeds(t) \/ RequestFails(t)
    PROVE  BreakerExact'
<1>1. busy.kind = "request" /\ busy'.kind # "request"
  BY DEF RequestSucceeds, RequestFails, Ends, Free
<1>2. circuit \in {"closed", "half_open"} /\ (probe <=> circuit = "half_open")
  BY <1>1 DEF BreakerInv, BreakerExact, CircuitTypeOK, Circuits
<1>3. CASE RequestSucceeds(t)
  <2>1. failures' = 0 /\ circuit' = "closed" /\ ~cooled' /\ ~probe'
    BY <1>2, <1>3 DEF RequestSucceeds, BreakerInv, BreakerExact
  <2>2. 0 < Threshold
    BY ConstantsAssumption
  <2> QED BY <1>1, <2>1, <2>2 DEF BreakerExact
<1>4. CASE RequestFails(t)
  <2>1. failures' = (IF failures < Threshold THEN failures + 1 ELSE failures)
        /\ failures \in 0 .. Threshold /\ ~probe'
    BY <1>4 DEF RequestFails, BreakerInv, CircuitTypeOK
  <2>2. CASE circuit = "half_open" \/ failures' >= Threshold
    <3>1. circuit' = "open" /\ ~cooled'
      BY <1>4, <2>2 DEF RequestFails
    <3>2. failures' >= Threshold
      BY <2>1, <2>2, ConstantsAssumption DEF BreakerInv, BreakerExact
    <3>3. ~(failures' < Threshold)
      BY <2>1, <3>2, ConstantsAssumption
    <3> QED BY <1>1, <2>1, <3>1, <3>3 DEF BreakerExact
  <2>3. CASE ~(circuit = "half_open" \/ failures' >= Threshold)
    <3>1. circuit' = circuit /\ cooled' = cooled /\ circuit = "closed"
      BY <1>2, <1>4, <2>3 DEF RequestFails
    <3>2. failures' < Threshold
      BY <2>1, <2>3, ConstantsAssumption
    <3> QED BY <1>1, <2>1, <3>1, <3>2 DEF BreakerInv, BreakerExact
  <2> QED BY <2>2, <2>3
<1> QED BY <1>3, <1>4

\* The finally of the handler takes the flag back with the request that it belongs to.
LEMMA BreakerInterrupt == ASSUME BreakerInv, Interrupt PROVE BreakerExact'
BY DEF Interrupt, ProbeAfterwards, Free, BreakerInv, BreakerExact

LEMMA BreakerStep == BreakerInv /\ [Next]_vars => BreakerExact'
<1> SUFFICES ASSUME BreakerInv, [Next]_vars PROVE BreakerExact'
  OBVIOUS
<1>1. CASE (\E t \in Turns : Wake(t)) \/ Hearing
  BY <1>1, BreakerAlone DEF Wake, Hearing, Transcribed, ListenFails
<1>2. CASE DispatchHigh
  BY <1>2, BreakerAlone DEF DispatchHigh, HandleTranscript
<1>3. CASE HandlePlayback \/ \E status \in Health : HandleHealth(status)
  BY <1>3, BreakerAlone DEF HandlePlayback, HandleHealth
<1>4. CASE \E t \in Turns : HandleResponse(t) \/ HandleUnavailable(t)
  BY <1>4, BreakerAlone DEF HandleResponse, HandleUnavailable
<1>5. CASE \E t \in Turns : RequestIsSent(t) \/ RequestIsRefused(t)
  BY <1>5, BreakerRequest
<1>6. CASE \E t \in Turns : SpeechStarts(t)
  <2>1. busy = Free /\ busy'.kind = "synthesis" /\ UNCHANGED breaker
    BY <1>6 DEF SpeechStarts, TakeNormal, Event
  <2> QED BY <2>1, BreakerAlone DEF Free
<1>7. CASE \E t \in Turns : RequestSucceeds(t) \/ RequestFails(t)
  BY <1>7, BreakerAnswer
<1>8. CASE \E t \in Turns : SpeechPlays(t) \/ SpeechCompletes(t) \/ SpeechFails(t)
  <2>1. busy.kind \in {"synthesis", "playback"} /\ busy'.kind \in {"free", "playback"}
        /\ UNCHANGED breaker
    BY <1>8 DEF SpeechPlays, SpeechCompletes, SpeechFails, Ends, Event, Free
  <2> QED BY <2>1, BreakerAlone
<1>9. CASE Interrupt
  BY <1>9, BreakerInterrupt
<1>10. CASE CooldownPasses
  BY <1>10 DEF CooldownPasses, BreakerInv, BreakerExact, FlagTypeOK
<1>11. CASE UNCHANGED vars
  BY <1>11, BreakerAlone DEF vars
<1> QED BY <1>1, <1>2, <1>3, <1>4, <1>5, <1>6, <1>7, <1>8, <1>9, <1>10, <1>11
        DEF Next, DispatchNormal, Waits

\* The probe flag of CognitionBridge is set exactly while a request is at the service
\* through the half-open circuit, so that an interrupted or failed probe never leaves it
\* behind and bars the next one; no request is at the service while the circuit is open;
\* and the circuit is closed exactly while the failures in a row are below the threshold.
THEOREM BreakerIsExact == Spec => []BreakerExact
<1>1. Init => FlagTypeOK /\ BreakerExact
  <2>1. 0 < Threshold
    BY ConstantsAssumption
  <2>2. Init => busy.kind = "free"
    BY DEF Init, Free
  <2> QED BY <2>1, <2>2 DEF Init, FlagTypeOK, BreakerExact
<1>2. ConvInv /\ FlagTypeOK /\ BreakerExact => BreakerInv
  BY DEF ConvInv, BreakerInv
<1> QED BY <1>1, <1>2, FlagStep, BreakerStep, ConvInvHolds, PTL DEF Spec

-----------------------------------------------------------------------------
(***************************************************************************)
(* What the robot is told of its own voice: the news of playback.          *)
(***************************************************************************)
Sounds == {"playback_started", "playback_over"}
SoundKnown == IF playback THEN "playback_started" ELSE "playback_over"

\* The last news of playback, known or still queued, is that it began, while a speech
\* plays; and only while one is handled or, after an interruption, queued again.
PlaybackTold ==
    LET told == Latest(Sounds, SoundKnown) IN
    /\ busy.kind = "playback" => told = "playback_started"
    /\ told = "playback_started" => busy.kind \in {"synthesis", "playback"} \/ Queued({"started"})

SoundTold(v) ==
    /\ LastOf(normal, Sounds, SoundKnown, v)
    /\ busy.kind = "playback" => v = "playback_started"
    /\ v = "playback_started" => busy.kind \in {"synthesis", "playback"} \/ Queued({"started"})

SoundInv == \E v \in Sounds : SoundTold(v)

\* Events that say nothing of playback.
Quiet == {e \in Normal : ~IsOf(e, Sounds)}

LEMMA QuietIs ==
    /\ \A k \in TurnKinds : \A t \in Turns : Event(k, t) \in Quiet
    /\ \A k \in Health : Event(k, NoTurn) \in Quiet
    /\ \A k \in Sounds : IsOf(Event(k, NoTurn), Sounds)
BY EventIs DEF Quiet, IsOf, Sounds, News, Health, NoTurn

\* Such events are appended.
LEMMA QuietAppended ==
    ASSUME NEW q \in Seq(Normal), NEW es \in Seq(Quiet), NEW k, NEW v, LastOf(q, Sounds, k, v)
    PROVE  /\ LastOf(q \o es, Sounds, k, v)
           /\ \A i \in DOMAIN q : i \in DOMAIN (q \o es) /\ (q \o es)[i] = q[i]
<1> DEFINE N == Normal
           r == q \o es
<1>1. Quiet \subseteq N /\ \A e \in Quiet : ~IsOf(e, Sounds)
  BY DEF Quiet
<1>2. es \in Seq(N) /\ q \in Seq(N) /\ \A i \in DOMAIN es : ~IsOf(es[i], Sounds)
  <2>1. \A i \in DOMAIN es : es[i] \in Quiet
    OBVIOUS
  <2>2. es \in Seq(N)
    BY <1>1, <2>1 DEF N
  <2> QED BY <1>1, <2>1, <2>2
<1> HIDE DEF N
<1>3. /\ DOMAIN q = 1 .. Len(q) /\ DOMAIN r = 1 .. Len(q) + Len(es) /\ DOMAIN es = 1 .. Len(es)
      /\ Len(q) \in Nat /\ Len(es) \in Nat
      /\ \A i \in 1 .. Len(q) + Len(es) : r[i] = IF i <= Len(q) THEN q[i] ELSE es[i - Len(q)]
  BY <1>2
<1>4. \A i \in DOMAIN q : i \in DOMAIN r /\ r[i] = q[i]
  BY <1>3
<1>5. \A i \in DOMAIN r : IsOf(r[i], Sounds) => i \in DOMAIN q
  <2> SUFFICES ASSUME NEW i \in DOMAIN r, i \notin DOMAIN q PROVE ~IsOf(r[i], Sounds)
    OBVIOUS
  <2>1. i - Len(q) \in DOMAIN es /\ r[i] = es[i - Len(q)]
    BY <1>3
  <2> QED BY <1>2, <2>1
<1> HIDE DEF r
<1>6. LastOf(r, Sounds, k, v)
  BY <1>4, <1>5 DEF LastOf
<1> QED BY <1>4, <1>6 DEF r

\* An event is taken, and the handler publishes such events.
LEMMA QuietTaken ==
    ASSUME PlaceTypeOK, NEW kind, NEW t, NEW es \in Seq(Quiet), TakeNormal(kind, t, es),
           NEW k, NEW v, LastOf(normal, Sounds, k, v)
    PROVE  /\ LastOf(normal', Sounds, IF IsOf(Event(kind, t), Sounds) THEN kind ELSE k, v)
           /\ kind # "started" /\ Queued({"started"}) => Queued({"started"})'
<1> DEFINE N == Normal
           r == Tail(normal)
<1>1. /\ normal \in Seq(N) /\ normal # <<>> /\ Head(normal) = Event(kind, t)
      /\ normal' = r \o es
  BY DEF PlaceTypeOK, TakeNormal
<1> HIDE DEF N
<1>2. LastOf(r, Sounds, IF IsOf(Event(kind, t), Sounds) THEN kind ELSE k, v)
  <2>1. Event(kind, t).kind = kind
    BY DEF Event
  <2> QED BY <1>1, <2>1, LastTail
<1>3. /\ r \in Seq(N) /\ Len(normal) \in Nat \ {0} /\ DOMAIN normal = 1 .. Len(normal)
      /\ normal[1] = Event(kind, t) /\ DOMAIN r = 1 .. Len(normal) - 1
      /\ \A i \in DOMAIN r : r[i] = normal[i + 1]
  BY <1>1, TailIs
<1> HIDE DEF r
<1>4. /\ LastOf(normal', Sounds, IF IsOf(Event(kind, t), Sounds) THEN kind ELSE k, v)
      /\ \A i \in DOMAIN r : i \in DOMAIN normal' /\ normal'[i] = r[i]
  BY <1>1, <1>2, <1>3, QuietAppended DEF N
<1>5. ASSUME kind # "started", Queued({"started"}) PROVE Queued({"started"})'
  <2>1. PICK i \in DOMAIN normal : normal[i].kind = "started"
    BY <1>5 DEF Queued, KindAt
  <2>2. i # 1
    BY <1>3, <1>5, <2>1 DEF Event
  <2>3. i - 1 \in DOMAIN r /\ r[i - 1] = normal[i]
    BY <1>3, <2>2
  <2> QED BY <1>4, <2>1, <2>3 DEF Queued, KindAt
<1> QED BY <1>4, <1>5

\* A handler takes an event that says nothing of playback and is no speech.
LEMMA SoundTaken ==
    ASSUME PlaceTypeOK, NEW kind, NEW t, NEW es \in Seq(Quiet), TakeNormal(kind, t, es),
           kind # "started", ~IsOf(Event(kind, t), Sounds), UNCHANGED playback, SoundInv,
           busy' = busy \/ busy'.kind = "request"
    PROVE  SoundInv'
<1>1. PICK v \in Sounds : SoundTold(v)
  BY DEF SoundInv
<1>2. LastOf(normal', Sounds, SoundKnown, v) /\ (Queued({"started"}) => Queued({"started"})')
  BY <1>1, QuietTaken DEF SoundTold
<1>3. busy.kind = "free"
  BY DEF TakeNormal, Free
<1>4. v = "playback_started" => Queued({"started"})'
  BY <1>1, <1>2, <1>3 DEF SoundTold
<1>5. SoundKnown' = SoundKnown
  BY DEF SoundKnown
<1>6. busy'.kind # "playback"
  BY <1>3
<1> QED BY <1>1, <1>2, <1>4, <1>5, <1>6 DEF SoundInv, SoundTold

\* Events that say nothing of playback are published, by a handler that is no speech.
LEMMA SoundPublished ==
    ASSUME PlaceTypeOK, NEW es \in Seq(Quiet), normal' = normal \o es,
           UNCHANGED playback, SoundInv,
           busy' = busy \/ (busy.kind \notin {"synthesis", "playback"} /\ busy'.kind # "playback")
    PROVE  SoundInv'
<1>1. PICK v \in Sounds : SoundTold(v)
  BY DEF SoundInv
<1>2. /\ LastOf(normal', Sounds, SoundKnown, v)
      /\ \A i \in DOMAIN normal : i \in DOMAIN normal' /\ normal'[i] = normal[i]
  BY <1>1, QuietAppended DEF SoundTold, PlaceTypeOK
<1>3. Queued({"started"}) => Queued({"started"})'
  BY <1>2 DEF Queued, KindAt
<1>4. SoundKnown' = SoundKnown
  BY DEF SoundKnown
<1> QED BY <1>1, <1>2, <1>3, <1>4 DEF SoundInv, SoundTold

\* The handlers that are no speech.
LEMMA SoundHandler ==
    ASSUME PlaceTypeOK, SoundInv, NEW t \in Turns,
           HandleTranscript(t) \/ HandleResponse(t) \/ HandleUnavailable(t)
           \/ RequestIsSent(t) \/ RequestIsRefused(t)
    PROVE  SoundInv'
<1> DEFINE Q == Seq(Quiet)
<1>1. <<>> \in Q /\ \A k \in TurnKinds : <<Event(k, t)>> \in Q
  BY QuietIs
<1>2. /\ <<Event("degraded", NoTurn)>> \in Q
      /\ <<>> \o <<Event("unavailable", t)>> \in Q
      /\ <<Event("degraded", NoTurn)>> \o <<Event("unavailable", t)>> \in Q
  <2>1. "degraded" \in Health /\ "unavailable" \in TurnKinds
    BY DEF Health, TurnKinds
  <2>2. Event("degraded", NoTurn) \in Quiet /\ Event("unavailable", t) \in Quiet
    BY <2>1, QuietIs
  <2> QED BY <2>2
<1>3. Admitted(t) \in Q
  BY <1>1 DEF Admitted, TurnKinds
<1>4. \A k \in TurnKinds : ~IsOf(Event(k, t), Sounds)
  BY QuietIs DEF Quiet
<1>5. ASSUME HandleTranscript(t) PROVE SoundInv'
  <2>1. UNCHANGED <<busy, playback>> /\ \E es \in Q : normal' = normal \o es
    BY <1>1, <1>3, <1>5
       DEF HandleTranscript, TranscriptIsLocal, TranscriptIsAsked, TranscriptIsDeclined, TakeHigh,
           state, TurnKinds
  <2> QED BY <2>1, SoundPublished
<1>6. ASSUME HandleResponse(t) PROVE SoundInv'
  <2>1. UNCHANGED <<playback, busy>> /\ \E es \in Q : TakeNormal("response", t, es)
    BY <1>1, <1>3, <1>6 DEF HandleResponse, state, TurnKinds
  <2> QED BY <1>4, <2>1, SoundTaken DEF TurnKinds
<1>7. ASSUME HandleUnavailable(t) PROVE SoundInv'
  <2>1. UNCHANGED <<playback, busy>> /\ TakeNormal("unavailable", t, <<>>)
    BY <1>7 DEF HandleUnavailable
  <2> QED BY <1>1, <1>4, <2>1, SoundTaken DEF TurnKinds
<1>8. ASSUME RequestIsSent(t) \/ RequestIsRefused(t) PROVE SoundInv'
  <2>1. UNCHANGED playback /\ \E es \in Q : TakeNormal("request", t, es)
    BY <1>1, <1>2, <1>8 DEF RequestIsSent, RequestIsRefused, Refreshed, state
  <2>2. busy' = busy \/ busy'.kind = "request"
    BY <1>8 DEF RequestIsSent, RequestIsRefused, Event
  <2> QED BY <1>4, <2>1, <2>2, SoundTaken DEF TurnKinds
<1> QED BY <1>5, <1>6, <1>7, <1>8

LEMMA SoundNews ==
    ASSUME PlaceTypeOK, SoundInv, HandlePlayback \/ \E status \in Health : HandleHealth(status)
    PROVE  SoundInv'
<1>1. <<>> \in Seq(Quiet)
  OBVIOUS
<1>2. ASSUME NEW status \in Health, HandleHealth(status) PROVE SoundInv'
  <2>1. ~IsOf(Event(status, NoTurn), Sounds) /\ status # "started"
    BY QuietIs DEF Quiet, Health
  <2> QED BY <1>1, <1>2, <2>1, SoundTaken DEF HandleHealth
<1>3. ASSUME NEW kind \in Sounds, TakeNormal(kind, NoTurn, <<>>),
             playback' = (kind = "playback_started"), UNCHANGED busy
      PROVE  SoundInv'
  <2>1. PICK v \in Sounds : SoundTold(v)
    BY DEF SoundInv
  <2>2. IsOf(Event(kind, NoTurn), Sounds) /\ kind # "started"
    BY QuietIs DEF Sounds
  <2>3. /\ LastOf(normal', Sounds, kind, v)
        /\ Queued({"started"}) => Queued({"started"})'
    BY <1>1, <1>3, <2>1, <2>2, QuietTaken DEF SoundTold
  <2>4. SoundKnown' = kind
    BY <1>3 DEF SoundKnown, Sounds
  <2> QED BY <1>3, <2>1, <2>3, <2>4 DEF SoundInv, SoundTold
<1> QED BY <1>2, <1>3 DEF HandlePlayback, Sounds

\* The service answers, or does not.
LEMMA SoundAnswer ==
    ASSUME PlaceTypeOK, SoundInv, NEW t \in Turns, RequestSucceeds(t) \/ RequestFails(t)
    PROVE  SoundInv'
<1> DEFINE Q == Seq(Quiet)
<1>1. UNCHANGED playback /\ busy.kind = "request" /\ busy' = Free
  BY DEF RequestSucceeds, RequestFails, Ends, state
<1>2. \E es \in Q : normal' = normal \o es
  <2>1. /\ Event("healthy", NoTurn) \in Quiet /\ Event("response", t) \in Quiet
        /\ Event("unavailable", NoTurn) \in Quiet /\ Event("unavailable", t) \in Quiet
    BY QuietIs DEF Health, TurnKinds
  <2>2. /\ <<Event("healthy", NoTurn), Event("response", t)>> \in Q /\ <<Event("response", t)>> \in Q
        /\ <<Event("unavailable", NoTurn)>> \o Sorry(t) \in Q /\ Sorry(t) \in Q
    BY <2>1 DEF Sorry
  <2> QED BY <2>2 DEF RequestSucceeds, RequestFails, Ends
<1> QED BY <1>1, <1>2, SoundPublished DEF Free

\* A speech begins: its news is the last of all; and so is that of its end.
LEMMA SoundSpeech ==
    ASSUME PlaceTypeOK, SoundInv, NEW t \in Turns,
           SpeechStarts(t) \/ SpeechPlays(t) \/ SpeechCompletes(t) \/ SpeechFails(t)
    PROVE  SoundInv'
<1>1. PICK v \in Sounds : SoundTold(v)
  BY DEF SoundInv
<1>2. CASE SpeechStarts(t)
  <2>1. <<>> \in Seq(Quiet) /\ "started" \in TurnKinds
    BY DEF TurnKinds
  <2>2. ~IsOf(Event("started", t), Sounds)
    BY <2>1, QuietIs DEF Quiet
  <2>3. LastOf(normal', Sounds, SoundKnown, v)
    BY <1>1, <1>2, <2>1, <2>2, QuietTaken DEF SpeechStarts, SoundTold
  <2>4. busy'.kind = "synthesis" /\ SoundKnown' = SoundKnown
    BY <1>2 DEF SpeechStarts, Event, SoundKnown, state
  <2> QED BY <2>3, <2>4 DEF SoundInv, SoundTold
<1>3. ASSUME NEW kind \in Sounds, normal' = Append(normal, Event(kind, NoTurn)), UNCHANGED playback,
             busy'.kind = IF kind = "playback_started" THEN "playback" ELSE "free"
      PROVE  SoundInv'
  <2> DEFINE N == Normal
  <2>1. normal \in Seq(N) /\ Event(kind, NoTurn) \in N
    BY EventIs DEF PlaceTypeOK, Sounds, News
  <2> HIDE DEF N
  <2>2. IsOf(Event(kind, NoTurn), Sounds) /\ Event(kind, NoTurn).kind = kind
    BY QuietIs DEF Event
  <2>3. LastOf(normal', Sounds, SoundKnown, kind)
    BY <1>1, <1>3, <2>1, <2>2, LastAppend DEF SoundTold
  <2>4. SoundKnown' = SoundKnown
    BY <1>3 DEF SoundKnown
  <2> QED BY <1>3, <2>3, <2>4 DEF SoundInv, SoundTold, Sounds
<1>4. CASE SpeechPlays(t)
  BY <1>3, <1>4 DEF SpeechPlays, Event, Sounds, state
<1>5. CASE SpeechCompletes(t) \/ SpeechFails(t)
  <2>1. normal' = normal \o <<Event("playback_over", NoTurn)>> /\ UNCHANGED playback /\ busy' = Free
    BY <1>5 DEF SpeechCompletes, SpeechFails, Ends, state
  <2>2. normal' = Append(normal, Event("playback_over", NoTurn))
    <3> DEFINE e == Event("playback_over", NoTurn)
               N == Normal
    <3>1. normal \in Seq(N) /\ e \in N
      BY EventIs DEF PlaceTypeOK, News
    <3> HIDE DEF e, N
    <3>2. normal \o <<e>> = Append(normal, e)
      BY <3>1
    <3> QED BY <2>1, <3>2 DEF e
  <2> QED BY <1>3, <2>1, <2>2 DEF Free, Sounds
<1> QED BY <1>2, <1>4, <1>5

\* An interrupted speech is queued again, before all that was said of it.
LEMMA SoundInterrupt == ASSUME PlaceTypeOK, SoundInv, Interrupt PROVE SoundInv'
<1>1. PICK v \in Sounds : SoundTold(v)
  BY DEF SoundInv
<1>2. busy \in [kind : {"request", "synthesis", "playback"}, turn : Turns]
  BY DEF PlaceTypeOK, Interrupt
<1>3. PICK kind \in {"request", "started"} :
        /\ normal' = <<Event(kind, busy.turn)>> \o normal
        /\ busy.kind \in {"synthesis", "playback"} => kind = "started"
        /\ busy' = Free /\ UNCHANGED playback
  BY DEF Interrupt, Interrupted, state
<1> DEFINE e == Event(kind, busy.turn)
           N == Normal
<1>4. e \in N /\ normal \in Seq(N) /\ ~IsOf(e, Sounds) /\ e.kind = kind
  <2>1. kind \in TurnKinds /\ busy.turn \in Turns
    BY <1>2 DEF TurnKinds
  <2> QED BY <2>1, QuietIs DEF Quiet, PlaceTypeOK, Event
<1> HIDE DEF e, N
<1>5. LastOf(<<e>> \o normal, Sounds, SoundKnown, v)
  BY <1>1, <1>4, LastInFront DEF SoundTold
<1>6. LET f == <<e>> \o normal
      IN  1 \in DOMAIN f /\ f[1] = e /\ \A i \in DOMAIN normal : i + 1 \in DOMAIN f /\ f[i + 1] = normal[i]
  BY <1>4
<1>7. /\ kind = "started" => Queued({"started"})'
      /\ Queued({"started"}) => Queued({"started"})'
  BY <1>3, <1>4, <1>6 DEF Queued, KindAt, e
<1>8. SoundKnown' = SoundKnown /\ busy'.kind = "free" /\ LastOf(normal', Sounds, SoundKnown, v)
  BY <1>3, <1>5 DEF SoundKnown, Free, e
<1> QED BY <1>1, <1>3, <1>7, <1>8 DEF SoundInv, SoundTold

LEMMA SoundInvStep == PlaceTypeOK /\ SoundInv /\ [Next]_vars => SoundInv'
<1> SUFFICES ASSUME PlaceTypeOK, SoundInv, [Next]_vars PROVE SoundInv'
  OBVIOUS
<1>1. ASSUME UNCHANGED <<normal, busy, playback>> PROVE SoundInv'
  BY <1>1 DEF SoundInv, SoundTold, SoundKnown, Queued, KindAt
<1>2. CASE (\E t \in Turns : Wake(t)) \/ Hearing \/ CooldownPasses
  BY <1>1, <1>2 DEF Wake, Hearing, Transcribed, ListenFails, CooldownPasses, state
<1>3. CASE DispatchHigh \/ DispatchNormal
  BY <1>3, SoundHandler, SoundNews, SoundSpeech DEF DispatchHigh, DispatchNormal
<1>4. CASE Waits
  BY <1>4, SoundAnswer, SoundSpeech DEF Waits
<1>5. CASE Interrupt
  BY <1>5, SoundInterrupt
<1>6. CASE UNCHANGED vars
  BY <1>1, <1>6 DEF vars, state
<1> QED BY <1>2, <1>3, <1>4, <1>5, <1>6 DEF Next

\* What StateManager knows of playback, and will know when its queue is handled, is that
\* the robot speaks while a speech plays, and is silent unless a speech is handled or an
\* interrupted one will be: no interruption leaves it mistaken about its own voice.  This
\* is the safety part of Silence.
THEOREM PlaybackIsTold == Spec => []PlaybackTold
<1>1. Init => SoundInv
  <2>1. Init => SoundTold("playback_over")
    BY DEF Init, SoundTold, LastOf, SoundKnown, Free
  <2> QED BY <2>1 DEF SoundInv, Sounds
<1>2. ConvInv => PlaceTypeOK
  BY DEF ConvInv
<1>3. PlaceTypeOK /\ SoundInv => PlaybackTold
  <2> SUFFICES ASSUME PlaceTypeOK, SoundInv PROVE PlaybackTold
    OBVIOUS
  <2>1. PICK v \in Sounds : SoundTold(v)
    BY DEF SoundInv
  <2>2. Latest(Sounds, SoundKnown) = v
    BY <2>1, LatestIs DEF SoundTold, PlaceTypeOK
  <2> QED BY <2>1, <2>2 DEF SoundTold, PlaybackTold
<1> QED BY <1>1, <1>2, <1>3, ConvInvHolds, SoundInvStep, PTL DEF Spec
=============================================================================
