---------------------------- MODULE CaptureProofs ----------------------------
(***************************************************************************)
(* Theorems about the capture of an utterance, for any size of the buffers *)
(* and any of the limits of a recording.                                   *)
(***************************************************************************)
EXTENDS Capture, SequenceTheorems, WellFoundedInduction, TLAPS

-----------------------------------------------------------------------------
(* The chunks of a sequence. *)

LEMMA ToSetIs ==
    ASSUME NEW S, NEW s \in Seq(S)
    PROVE  ToSet(s) \subseteq S /\ ToSet(<<>>) = {}
<1>1. DOMAIN s = 1 .. Len(s) /\ \A i \in DOMAIN s : s[i] \in S
  OBVIOUS
<1> QED BY <1>1 DEF ToSet

LEMMA AppendIs ==
    ASSUME NEW S, NEW s \in Seq(S), NEW x \in S
    PROVE  /\ Append(s, x) \in Seq(S) /\ Append(s, x) # <<>>
           /\ ToSet(Append(s, x)) = ToSet(s) \union {x}
<1> DEFINE t == Append(s, x)
<1>1. /\ DOMAIN t = 1 .. Len(s) + 1 /\ t[Len(s) + 1] = x /\ \A i \in DOMAIN s : t[i] = s[i]
      /\ DOMAIN s = 1 .. Len(s) /\ Len(s) \in Nat /\ t \in Seq(S)
  OBVIOUS
<1>0. t # <<>>
  BY AppendProperties
<1> HIDE DEF t
<1>2. \A i \in DOMAIN t : (i \in DOMAIN s /\ t[i] = s[i]) \/ t[i] = x
  BY <1>1
<1>3. DOMAIN s \subseteq DOMAIN t /\ Len(s) + 1 \in DOMAIN t
  BY <1>1
<1>4. ToSet(t) = ToSet(s) \union {x}
  BY <1>1, <1>2, <1>3 DEF ToSet
<1> QED BY <1>0, <1>1, <1>4 DEF t

LEMMA TailIs ==
    ASSUME NEW S, NEW s \in Seq(S), s # <<>>
    PROVE  /\ Tail(s) \in Seq(S) /\ Head(s) \in S
           /\ Head(s) \in ToSet(s) /\ ToSet(Tail(s)) \subseteq ToSet(s)
<1> DEFINE t == Tail(s)
<1>1. /\ DOMAIN t = 1 .. Len(s) - 1 /\ DOMAIN s = 1 .. Len(s) /\ Len(s) \in Nat \ {0}
      /\ \A i \in DOMAIN t : t[i] = s[i + 1]
      /\ t \in Seq(S) /\ Head(s) = s[1] /\ s[1] \in S
  OBVIOUS
<1> HIDE DEF t
<1>2. (\A i \in DOMAIN t : i + 1 \in DOMAIN s /\ t[i] = s[i + 1]) /\ 1 \in DOMAIN s
  BY <1>1
<1>3. Head(s) \in ToSet(s) /\ ToSet(t) \subseteq ToSet(s)
  BY <1>1, <1>2 DEF ToSet
<1> QED BY <1>1, <1>3 DEF t

LEMMA ConcatAppend ==
    ASSUME NEW p \in Seq(Nat), NEW s \in Seq(Nat), NEW x \in Nat
    PROVE  Append(p \o s, x) = p \o Append(s, x)
<1>1. p \o Append(s, x) = Append(p \o s, x)
  BY SMTT(60)
<1> QED BY <1>1

LEMMA ConcatSwap ==
    ASSUME NEW p \in Seq(Nat), NEW s \in Seq(Nat), NEW x \in Nat
    PROVE  p \o (<<x>> \o s) = Append(p, x) \o s
BY SMTT(60)

LEMMA PushIs ==
    ASSUME NEW S, NEW s \in Seq(S), NEW x \in S, NEW max
    PROVE  Push(s, x, max) \in Seq(S) /\ ToSet(Push(s, x, max)) \subseteq ToSet(s) \union {x}
<1> DEFINE t == Append(s, x)
<1>1. t \in Seq(S) /\ ToSet(t) = ToSet(s) \union {x}
  BY AppendIs
<1>2. t # <<>>
  BY AppendIs
<1>3. Push(s, x, max) = t \/ Push(s, x, max) = Tail(t)
  BY DEF Push
<1> HIDE DEF t
<1>4. Tail(t) \in Seq(S) /\ ToSet(Tail(t)) \subseteq ToSet(t)
  BY <1>1, <1>2, TailIs
<1> QED BY <1>1, <1>3, <1>4

-----------------------------------------------------------------------------
(***************************************************************************)
(* What is carried out is not heard again.  Audible: where a chunk may be  *)
(* that this recording has heard or that a later one can still hear.       *)
(***************************************************************************)
Audible == ToSet(buffer) \union ToSet(live) \union ToSet(snap) \union ToSet(heard) \union InHand

SeqTypeOK == {buffer, live, snap, heard} \subseteq Seq(Nat)

\* Only the wake loop has a reader and its queues.
SourceOK == /\ produced \in Nat
            /\ reader \in {"none", "read", "put", "drop", "block", "dead"}
            /\ setup.source # "preroll" => reader = "none" /\ live = <<>> /\ snap = <<>>

PcOK == /\ pc \in {"idle", "record", "saved", "close", "answered", "cleared", "hung"}
        /\ pc \in {"idle", "answered", "cleared"} => snap = <<>>
        /\ pc = "record" /\ setup.source = "preroll" => capturing = TRUE

\* A chunk that was carried out is nowhere any more, and a pre-roll that has been
\* emptied does not get back what was heard.
EchoOK == /\ Audible \subseteq 1 .. produced
          /\ routed \subseteq 1 .. produced /\ Audible \cap routed = {}
          /\ pc = "cleared" => ToSet(heard) \cap ToSet(buffer) = {}

EchoInv == SeqTypeOK /\ SourceOK /\ PcOK /\ EchoOK

LEMMA EchoInit == Init => EchoInv
<1> SUFFICES ASSUME Init PROVE EchoInv
  OBVIOUS
<1>1. /\ produced = 0 /\ buffer = <<>> /\ live = <<>> /\ snap = <<>> /\ heard = <<>> /\ routed = {}
      /\ pc = "idle" /\ reader = (IF setup.source = "preroll" THEN "read" ELSE "none")
  BY DEF Init
<1>2. ToSet(<<>>) = {} /\ <<>> \in Seq(Nat)
  BY DEF ToSet
<1> QED BY <1>1, <1>2 DEF EchoInv, SeqTypeOK, SourceOK, PcOK, EchoOK, Audible, InHand

\* A step after which nothing can be heard but what could be heard before, or is new.
LEMMA EchoKept ==
    ASSUME EchoInv, UNCHANGED routed, SeqTypeOK', SourceOK', PcOK', produced <= produced',
           Audible' \subseteq Audible \union ((produced + 1) .. produced'),
           pc' = "cleared" => ToSet(heard') \cap ToSet(buffer') = {}
    PROVE  EchoInv'
<1>1. produced \in Nat /\ produced' \in Nat
  BY DEF EchoInv, SourceOK
<1>2. 1 .. produced \subseteq 1 .. produced' /\ (produced + 1) .. produced' \subseteq 1 .. produced'
  BY <1>1
<1>3. \A x \in (produced + 1) .. produced' : x \notin 1 .. produced
  BY <1>1
<1>4. EchoOK'
  BY <1>2, <1>3 DEF EchoInv, EchoOK
<1> QED BY <1>4 DEF EchoInv

LEMMA EchoStep == EchoInv /\ [Next]_vars => EchoInv'
<1> SUFFICES ASSUME EchoInv, [Next]_vars PROVE EchoInv'
  OBVIOUS
<1>0. /\ produced \in Nat /\ buffer \in Seq(Nat) /\ live \in Seq(Nat) /\ snap \in Seq(Nat) /\ heard \in Seq(Nat)
      /\ <<>> \in Seq(Nat) /\ ToSet(<<>>) = {} /\ produced + 1 \in (produced + 1) .. (produced + 1)
      /\ produced + 1 \in Nat /\ produced <= produced + 1
  BY DEF EchoInv, SeqTypeOK, SourceOK, ToSet
<1>h. (reader \in {"put", "drop", "block"} => InHand = {produced})
      /\ (reader' \in {"put", "drop", "block"} => InHand' = {produced'})
      /\ (reader \notin {"put", "drop", "block"} => InHand = {})
      /\ (reader' \notin {"put", "drop", "block"} => InHand' = {})
  BY DEF InHand
\* No sequence gets anything.
<1>1. ASSUME UNCHANGED <<routed, setup, produced, reader, capturing>>,
             buffer' \in {buffer, <<>>}, live' \in {live, <<>>}, snap' \in {snap, <<>>}, heard' \in {heard, <<>>},
             PcOK', pc' = "cleared" => ToSet(heard') \cap ToSet(buffer') = {}
      PROVE  EchoInv'
  <2>1. SeqTypeOK' /\ SourceOK'
    BY <1>0, <1>1 DEF EchoInv, SeqTypeOK, SourceOK
  <2>2. Audible' \subseteq Audible
    BY <1>0, <1>1, <1>h DEF Audible
  <2> QED BY <1>0, <1>1, <2>1, <2>2, EchoKept
<1>2. CASE Read
  <2>1. /\ reader = "read" /\ reader' = "put" /\ produced' = produced + 1 /\ buffer' = Push(buffer, produced + 1, Cap)
        /\ UNCHANGED <<setup, live, capturing, pc, snap, heard, routed>>
    BY <1>2 DEF Read, Produce, recorder
  <2>2. buffer' \in Seq(Nat) /\ ToSet(buffer') \subseteq ToSet(buffer) \union {produced + 1}
    BY <1>0, <2>1, PushIs
  <2>3. SeqTypeOK' /\ SourceOK' /\ PcOK'
    BY <1>0, <2>1, <2>2 DEF EchoInv, SeqTypeOK, SourceOK, PcOK
  <2>4. Audible' \subseteq Audible \union {produced + 1}
    BY <1>h, <2>1, <2>2 DEF Audible
  <2>5. pc' = "cleared" => ToSet(heard') \cap ToSet(buffer') = {}
    <3>1. produced + 1 \notin ToSet(heard)
      BY <1>0 DEF EchoInv, EchoOK, Audible
    <3> QED BY <2>1, <2>2, <3>1 DEF EchoInv, EchoOK
  <2>6. Audible' \subseteq Audible \union ((produced + 1) .. produced')
    BY <1>0, <2>1, <2>4
  <2> QED BY <1>0, <2>1, <2>3, <2>5, <2>6, EchoKept
<1>3. CASE CheckCapturing \/ PutFull
  <2>1. /\ UNCHANGED <<setup, produced, buffer, live, capturing, pc, snap, heard, routed>>
        /\ reader \in {"put", "block"} /\ reader' \in {"put", "drop", "block"}
    BY <1>3 DEF CheckCapturing, PutFull, recorder
  <2>2. Audible' = Audible
    BY <1>h, <2>1 DEF Audible
  <2>3. SeqTypeOK' /\ SourceOK' /\ PcOK'
    BY <2>1 DEF EchoInv, SeqTypeOK, SourceOK, PcOK
  <2>4. pc' = "cleared" => ToSet(heard') \cap ToSet(buffer') = {}
    BY <2>1 DEF EchoInv, EchoOK
  <2> QED BY <1>0, <2>1, <2>2, <2>3, <2>4, EchoKept
<1>4. CASE PutDropping \/ PutBlocking
  <2>1. /\ UNCHANGED <<setup, produced, buffer, capturing, pc, snap, heard, routed>>
        /\ reader \in {"drop", "block"} /\ reader' = "read"
        /\ live' = Push(live, produced, Cap) \/ live' = Append(live, produced)
    BY <1>4 DEF PutDropping, PutBlocking, Queued, recorder
  <2>2. live' \in Seq(Nat) /\ ToSet(live') \subseteq ToSet(live) \union {produced}
    <3>1. /\ Push(live, produced, Cap) \in Seq(Nat)
          /\ ToSet(Push(live, produced, Cap)) \subseteq ToSet(live) \union {produced}
      BY <1>0, PushIs
    <3>2. /\ Append(live, produced) \in Seq(Nat)
          /\ ToSet(Append(live, produced)) \subseteq ToSet(live) \union {produced}
      BY <1>0, AppendIs
    <3>3. CASE live' = Push(live, produced, Cap)
      BY <3>1, <3>3
    <3>4. CASE live' = Append(live, produced)
      BY <3>2, <3>4
    <3> QED BY <2>1, <3>3, <3>4
  <2>3. Audible' \subseteq Audible
    BY <1>h, <2>1, <2>2 DEF Audible
  <2>4. SeqTypeOK' /\ SourceOK' /\ PcOK'
    BY <2>1, <2>2 DEF EchoInv, SeqTypeOK, SourceOK, PcOK
  <2>5. pc' = "cleared" => ToSet(heard') \cap ToSet(buffer') = {}
    BY <2>1 DEF EchoInv, EchoOK
  <2> QED BY <1>0, <2>1, <2>3, <2>4, <2>5, EchoKept
<1>5. CASE ReaderEnds \/ EnsureSource
  <2>1. /\ UNCHANGED <<setup, produced, capturing, pc, snap, heard, routed>>
        /\ reader \in {"read", "dead"} /\ reader' \in {"read", "dead"}
        /\ buffer' \in {buffer, <<>>} /\ live' \in {live, <<>>}
    BY <1>5 DEF ReaderEnds, StreamCloses, EnsureSource, recorder
  <2>2. Audible' \subseteq Audible
    BY <1>0, <1>h, <2>1 DEF Audible
  <2>3. SeqTypeOK' /\ SourceOK' /\ PcOK'
    BY <1>0, <2>1 DEF EchoInv, SeqTypeOK, SourceOK, PcOK
  <2>4. pc' = "cleared" => ToSet(heard') \cap ToSet(buffer') = {}
    BY <1>0, <2>1 DEF EchoInv, EchoOK
  <2> QED BY <1>0, <2>1, <2>2, <2>3, <2>4, EchoKept
<1>6. CASE Open
  <2>1. /\ UNCHANGED <<setup, produced, reader, buffer, routed>> /\ pc' = "record" /\ heard' = <<>>
        /\ \/ setup.source = "preroll" /\ capturing' = TRUE /\ snap' = buffer /\ live' = <<>>
           \/ setup.source # "preroll" /\ UNCHANGED <<capturing, snap, live>>
    BY <1>6 DEF Open, Capture
  <2>2. Audible' \subseteq Audible
    BY <1>0, <1>h, <2>1 DEF Audible
  <2>3. SeqTypeOK' /\ SourceOK' /\ PcOK'
    BY <1>0, <2>1 DEF EchoInv, SeqTypeOK, SourceOK, PcOK
  <2> QED BY <1>0, <2>1, <2>2, <2>3, EchoKept
\* A chunk that could be heard, or is new, is heard.
<1>7. ASSUME NEW chunk \in Nat, Hear(chunk), pc = "record", routed' = routed, produced <= produced', produced' \in Nat,
             {buffer', live', snap'} \subseteq Seq(Nat),
             ToSet(buffer') \union ToSet(live') \union ToSet(snap') \union InHand' \union {chunk}
                 \subseteq Audible \union ((produced + 1) .. produced'),
             setup.source # "preroll" => live' = <<>> /\ snap' = <<>>
      PROVE  EchoInv'
  <2>1. /\ heard' = Append(heard, chunk) /\ UNCHANGED <<setup, reader, capturing>> /\ pc' \in {"record", "close", "saved"}
    BY <1>7 DEF Hear, HearOnset, HearMore, HearSilence, Ended, Saved, GoesOn
  <2>2. heard' \in Seq(Nat) /\ ToSet(heard') = ToSet(heard) \union {chunk}
    BY <1>0, <2>1, AppendIs
  <2>3. SeqTypeOK' /\ SourceOK' /\ PcOK'
    BY <1>7, <2>1, <2>2 DEF EchoInv, SeqTypeOK, SourceOK, PcOK
  <2>4. Audible' \subseteq Audible \union ((produced + 1) .. produced')
    BY <1>7, <2>2 DEF Audible
  <2> QED BY <1>7, <2>1, <2>3, <2>4, EchoKept
<1>8. CASE HearSnapshot
  <2>1. /\ pc = "record" /\ snap # <<>> /\ snap' = Tail(snap) /\ UNCHANGED <<produced, buffer, live>>
        /\ Hear(Head(snap)) /\ routed' = routed /\ reader' = reader
    BY <1>8 DEF HearSnapshot, Hear
  <2>2. /\ Tail(snap) \in Seq(Nat) /\ Head(snap) \in Nat /\ Head(snap) \in ToSet(snap)
        /\ ToSet(Tail(snap)) \subseteq ToSet(snap)
    BY <1>0, <2>1, TailIs
  <2>3. ToSet(buffer') \union ToSet(live') \union ToSet(snap') \union InHand' \union {Head(snap)} \subseteq Audible
    BY <1>h, <2>1, <2>2 DEF Audible
  <2>4. setup.source = "preroll"
    BY <2>1 DEF EchoInv, SourceOK
  <2> QED BY <1>0, <1>7, <2>1, <2>2, <2>3, <2>4
<1>9. CASE HearLive
  <2>1. /\ pc = "record" /\ live # <<>> /\ live' = Tail(live) /\ buffer' = Push(buffer, Head(live), Cap)
        /\ UNCHANGED <<produced, snap>> /\ Hear(Head(live)) /\ routed' = routed /\ reader' = reader
        /\ setup.source = "preroll"
    BY <1>9 DEF HearLive, Hear
  <2>2. /\ Tail(live) \in Seq(Nat) /\ Head(live) \in Nat /\ Head(live) \in ToSet(live)
        /\ ToSet(Tail(live)) \subseteq ToSet(live)
    BY <1>0, <2>1, TailIs
  <2>3. buffer' \in Seq(Nat) /\ ToSet(buffer') \subseteq ToSet(buffer) \union {Head(live)}
    BY <1>0, <2>1, <2>2, PushIs
  <2>4. ToSet(buffer') \union ToSet(live') \union ToSet(snap') \union InHand' \union {Head(live)} \subseteq Audible
    BY <1>h, <2>1, <2>2, <2>3 DEF Audible
  <2> QED BY <1>0, <1>7, <2>1, <2>2, <2>3, <2>4
<1>10. CASE HearStream
  <2>1. /\ pc = "record" /\ produced' = produced + 1 /\ UNCHANGED <<buffer, live, snap>> /\ Hear(produced')
        /\ routed' = routed /\ reader' = reader /\ setup.source = "stream"
    BY <1>10 DEF HearStream, Hear, Produce
  <2>2. reader = "none" /\ live = <<>> /\ snap = <<>>
    BY <2>1 DEF EchoInv, SourceOK
  <2>3. ToSet(buffer') \union ToSet(live') \union ToSet(snap') \union InHand' \union {produced'}
            \subseteq Audible \union ((produced + 1) .. produced')
    BY <1>0, <1>h, <2>1, <2>2 DEF Audible
  <2> QED BY <1>0, <1>7, <2>1, <2>2, <2>3
<1>11. CASE RecordFixed
  <2>1. /\ pc' = "saved" /\ produced' \in produced .. MaxChunks /\ setup.source = "fixed"
        /\ heard' = [i \in 1 .. (produced' - produced) |-> produced + i]
        /\ UNCHANGED <<setup, reader, buffer, live, capturing, snap, routed>>
    BY <1>11 DEF RecordFixed, Saved
  <2>2. produced' \in Nat /\ produced <= produced'
    BY <1>0, <2>1, CaptureAssumption DEF CaptureAssumption
  <2>3. heard' \in Seq(Nat) /\ ToSet(heard') \subseteq (produced + 1) .. produced'
    <3> DEFINE n == produced' - produced
    <3>0. \A p, q \in Nat : p <= q => q - p \in Nat /\ \A i \in 1 .. (q - p) : p + i \in (p + 1) .. q /\ p + i \in Nat
      OBVIOUS
    <3>1. n \in Nat /\ \A i \in 1 .. n : produced + i \in (produced + 1) .. produced' /\ produced + i \in Nat
      BY <1>0, <2>2, <3>0
    <3>2. heard' = [i \in 1 .. n |-> produced + i]
      BY <2>1 DEF n
    <3>4. heard' \in Seq(Nat)
      BY <3>1, <3>2
    <3> QED BY <3>1, <3>2, <3>4 DEF ToSet
  <2>4. reader = "none" /\ live = <<>> /\ snap = <<>>
    BY <2>1 DEF EchoInv, SourceOK
  <2>5. Audible' \subseteq Audible \union ((produced + 1) .. produced')
    BY <1>h, <2>1, <2>3, <2>4 DEF Audible
  <2>6. SeqTypeOK' /\ SourceOK' /\ PcOK'
    BY <1>0, <2>1, <2>2, <2>3 DEF EchoInv, SeqTypeOK, SourceOK, PcOK
  <2> QED BY <2>1, <2>2, <2>5, <2>6, EchoKept
<1>12. CASE SourceEnds \/ StreamEnds \/ FinishOk \/ Transcribe \/ Hangs
  <2>1. /\ UNCHANGED <<setup, source, capturing, snap, heard, routed>> /\ pc' \in {"close", "saved", "hung"}
    BY <1>12 DEF SourceEnds, StreamEnds, Ended, Saved, FinishOk, Transcribe, Answer, Hangs, recorder
  <2> QED BY <1>1, <2>1 DEF source, EchoInv, PcOK
<1>13. CASE FinishFails \/ TranscribeNothing \/ RecordFails \/ TranscribeFails
  <2>1. /\ UNCHANGED <<setup, source, capturing, snap, routed>> /\ pc' = "close" /\ heard' = <<>>
    BY <1>13 DEF FinishFails, TranscribeNothing, RecordFails, TranscribeFails, Fails, ForgetAll
  <2> QED BY <1>1, <2>1 DEF source, PcOK
<1>14. CASE Close
  <2>1. /\ UNCHANGED <<setup, source, routed>> /\ pc' \in {"answered", "idle"} /\ heard' \in {heard, <<>>}
        /\ snap' = <<>> /\ capturing' = FALSE
    BY <1>14 DEF Close, ForgetAll
  <2>2. SeqTypeOK' /\ SourceOK' /\ PcOK'
    BY <1>0, <2>1 DEF source, EchoInv, SeqTypeOK, SourceOK, PcOK
  <2>3. Audible' \subseteq Audible
    BY <1>0, <1>h, <2>1 DEF Audible, source
  <2> QED BY <1>0, <2>1, <2>2, <2>3, EchoKept DEF source
<1>15. CASE Ignore \/ ClearBuffer
  <2>1. /\ UNCHANGED <<setup, produced, reader, live, capturing, snap, routed>> /\ heard' \in {heard, <<>>}
        /\ buffer' \in {buffer, <<>>} /\ pc = "answered"
        /\ pc' = "idle" \/ (pc' = "cleared" /\ buffer' = <<>>)
    BY <1>15 DEF Ignore, ClearBuffer, ForgetAll, source, recorder
  <2>2. PcOK'
    BY <2>1 DEF EchoInv, PcOK
  <2> QED BY <1>0, <1>1, <2>1, <2>2
<1>16. CASE ClearQueue
  <2>1. /\ pc = "cleared" /\ pc' = "idle" /\ live' = <<>> /\ heard' = <<>>
        /\ routed' = routed \union (ToSet(heard) \ InHand)
        /\ UNCHANGED <<setup, produced, reader, buffer, capturing, snap>>
    BY <1>16 DEF ClearQueue, ForgetAll
  <2>2. snap = <<>> /\ ToSet(heard) \cap ToSet(buffer) = {}
    BY <2>1 DEF EchoInv, PcOK, EchoOK
  <2>3. SeqTypeOK' /\ SourceOK' /\ PcOK'
    BY <1>0, <2>1, <2>2 DEF EchoInv, SeqTypeOK, SourceOK, PcOK
  <2>4. Audible' = ToSet(buffer) \union InHand /\ Audible' \subseteq Audible /\ ToSet(heard) \subseteq Audible
    BY <1>0, <1>h, <2>1, <2>2 DEF Audible
  <2>5. EchoOK'
    BY <2>1, <2>2, <2>4 DEF EchoInv, EchoOK
  <2> QED BY <2>3, <2>5 DEF EchoInv
<1>17. CASE UNCHANGED vars
  <2>1. UNCHANGED <<routed, setup, produced, reader, capturing, buffer, live, snap, heard, pc>>
    BY <1>17 DEF vars, source, recorder
  <2> QED BY <1>1, <2>1 DEF EchoInv, PcOK, EchoOK
<1> QED BY <1>2, <1>3, <1>4, <1>5, <1>6, <1>8, <1>9, <1>10, <1>11, <1>12, <1>13, <1>14, <1>15, <1>16, <1>17
        DEF Next, Reader, Recording

\* A command that was carried out is not heard again by a later recording, for any
\* size of the pre-roll and whatever the reader has in its hands when the source is
\* emptied (preroll_audio.py: clear, after a handled command of wake.py).
THEOREM CommandsAreNotHeardAgain == Spec => []NoEcho
<1>1. EchoInv => NoEcho
  BY DEF EchoInv, EchoOK, Audible, NoEcho
<1> QED BY <1>1, EchoInit, EchoStep, PTL DEF Spec

-----------------------------------------------------------------------------
(***************************************************************************)
(* Nothing is lost between the pre-roll and the live queue.  Chain: what   *)
(* this recording has heard and what it is still to hear, in that order.   *)
(***************************************************************************)
Chain == heard \o (snap \o live)

Steps(s) == \A i \in 1 .. (Len(s) - 1) : s[i + 1] - s[i] \in {0, 1}

\* The chain ends with the newest chunk, or with the one before it while the
\* reader has the newest in its hands.
Reaches(s) ==
    s # <<>> => \/ s[Len(s)] = produced
                \/ reader \in {"put", "drop", "block"} /\ s[Len(s)] = produced - 1

\* A reader that decided to drop before the capture began finds an empty queue.
DropOK == pc = "record" /\ reader = "drop" => live = <<>>

ChainOK == ordered => /\ Steps(heard)
                      /\ pc = "record" => Steps(Chain) /\ Reaches(Chain)

GapInv == EchoInv /\ DropOK /\ ChainOK

LEMMA StepsAppend ==
    ASSUME NEW s \in Seq(Nat), NEW x \in Nat, Steps(s), s # <<>> => x - s[Len(s)] \in {0, 1}
    PROVE  Steps(Append(s, x))
<1> DEFINE t == Append(s, x)
<1>1. /\ Len(s) \in Nat /\ Len(t) = Len(s) + 1 /\ t[Len(s) + 1] = x /\ \A i \in 1 .. Len(s) : t[i] = s[i]
      /\ Len(s) # 0 => s # <<>>
  OBVIOUS
<1> HIDE DEF t
<1>2. SUFFICES ASSUME NEW i \in 1 .. (Len(t) - 1) PROVE t[i + 1] - t[i] \in {0, 1}
  BY DEF Steps, t
<1>3. CASE i = Len(s)
  BY <1>1, <1>3
<1>4. CASE i # Len(s)
  <2>1. i \in 1 .. (Len(s) - 1) /\ i \in 1 .. Len(s) /\ i + 1 \in 1 .. Len(s)
    BY <1>1, <1>4
  <2> QED BY <1>1, <2>1 DEF Steps
<1> QED BY <1>3, <1>4

LEMMA StepsOfAPrefix ==
    ASSUME NEW s \in Seq(Nat), NEW t \in Seq(Nat), Steps(s \o t)
    PROVE  Steps(s)
<1> DEFINE u == s \o t
<1>1. Len(s) \in Nat /\ Len(t) \in Nat /\ Len(u) = Len(s) + Len(t) /\ \A i \in 1 .. Len(s) : u[i] = s[i]
  OBVIOUS
<1> HIDE DEF u
<1>2. Steps(u)
  BY DEF u
<1>3. SUFFICES ASSUME NEW i \in 1 .. (Len(s) - 1) PROVE s[i + 1] - s[i] \in {0, 1}
  BY DEF Steps
<1>4. i \in 1 .. Len(s) /\ i + 1 \in 1 .. Len(s) /\ i \in 1 .. (Len(u) - 1)
  BY <1>1
<1> QED BY <1>1, <1>2, <1>4 DEF Steps

LEMMA GapInit == Init => GapInv
<1> SUFFICES ASSUME Init PROVE GapInv
  OBVIOUS
<1>1. heard = <<>> /\ pc = "idle"
  BY DEF Init
<1>2. Steps(<<>>)
  BY DEF Steps
<1> QED BY <1>1, <1>2, EchoInit DEF GapInv, DropOK, ChainOK

\* A step that hears nothing, and after which the chain still reaches the reader.
LEMMA ChainStays ==
    ASSUME GapInv, EchoInv', DropOK', UNCHANGED <<heard, ordered>>,
           pc' = "record" => pc = "record" /\ snap' = snap /\ live' = live /\ (Reaches(Chain) => Reaches(Chain)')
    PROVE  GapInv'
<1>1. Steps(heard)' <=> Steps(heard)
  BY DEF Steps
<1>2. pc' = "record" => Chain' = Chain
  BY DEF Chain
<1>3. pc' = "record" => (Steps(Chain)' <=> Steps(Chain))
  BY <1>2 DEF Steps
<1>4. ChainOK'
  BY <1>1, <1>3 DEF GapInv, ChainOK
<1> QED BY <1>4 DEF GapInv

\* A step after which no recording is going on and what was heard is the same or gone.
LEMMA ChainOver ==
    ASSUME GapInv, EchoInv', pc' # "record", heard' = <<>> \/ UNCHANGED <<heard, ordered>>
    PROVE  GapInv'
<1>1. heard' = <<>> => Steps(heard)'
  BY DEF Steps
<1>2. heard' = heard => (Steps(heard)' <=> Steps(heard))
  BY DEF Steps
<1>3. ChainOK' /\ DropOK'
  BY <1>1, <1>2 DEF GapInv, ChainOK, DropOK
<1> QED BY <1>3 DEF GapInv

\* The reader's chunk is put at the end of the chain.
LEMMA ChainGrows ==
    ASSUME GapInv, EchoInv', UNCHANGED <<heard, snap, ordered, pc, produced>>, live' = Append(live, produced),
           reader \in {"drop", "block"}, reader' = "read", pc = "record"
    PROVE  GapInv'
<1>1. heard \in Seq(Nat) /\ snap \in Seq(Nat) /\ live \in Seq(Nat) /\ produced \in Nat
  BY DEF GapInv, EchoInv, SeqTypeOK, SourceOK
<1>2. Chain \in Seq(Nat) /\ Chain' = Append(Chain, produced)
  <2>1. snap \o live \in Seq(Nat) /\ heard \o (snap \o live) \in Seq(Nat)
    BY <1>1, ConcatProperties
  <2>2. snap \o Append(live, produced) = Append(snap \o live, produced)
    BY <1>1, ConcatAppend
  <2>3. heard \o Append(snap \o live, produced) = Append(heard \o (snap \o live), produced)
    BY <1>1, <2>1, ConcatAppend
  <2> QED BY <2>1, <2>2, <2>3 DEF Chain
<1>3. SUFFICES ASSUME ordered PROVE Steps(heard)' /\ Steps(Chain)' /\ Reaches(Chain)'
  BY DEF GapInv, DropOK, ChainOK
<1>4. Steps(heard) /\ Steps(Chain) /\ Reaches(Chain)
  BY <1>3 DEF GapInv, ChainOK
<1>5. Steps(heard)'
  BY <1>4 DEF Steps
<1> DEFINE s == Chain
<1>6. s \in Seq(Nat) /\ Steps(s) /\ (s # <<>> => s[Len(s)] = produced \/ s[Len(s)] = produced - 1)
  BY <1>2, <1>4 DEF Reaches
<1> HIDE DEF s
<1>7. s # <<>> => produced - s[Len(s)] \in {0, 1}
  <2> SUFFICES ASSUME s # <<>> PROVE produced - s[Len(s)] \in {0, 1}
    OBVIOUS
  <2>1. s[Len(s)] = produced \/ s[Len(s)] = produced - 1
    BY <1>6
  <2> QED BY <1>1, <2>1
<1>8. Steps(Append(s, produced))
  BY <1>1, <1>6, <1>7, StepsAppend
<1>9. Append(s, produced)[Len(Append(s, produced))] = produced
  BY <1>1, <1>6
<1>10. Steps(Chain)'
  BY <1>2, <1>8 DEF s, Steps
<1>11. Reaches(Chain)'
  BY <1>2, <1>9 DEF s, Reaches
<1> QED BY <1>5, <1>10, <1>11

\* The next chunk of the chain is heard.
LEMMA ChainIsHeard ==
    ASSUME GapInv, EchoInv', UNCHANGED <<ordered, produced, reader>>, pc = "record", Chain' = Chain,
           live = <<>> => live' = <<>>
    PROVE  GapInv'
<1>1. /\ heard' \in Seq(Nat) /\ snap' \in Seq(Nat) /\ live' \in Seq(Nat)
  BY DEF EchoInv, SeqTypeOK
<1>2. DropOK'
  BY DEF GapInv, DropOK
<1>3. SUFFICES ASSUME ordered PROVE Steps(heard)' /\ Steps(Chain)' /\ Reaches(Chain)'
  BY <1>2 DEF GapInv, ChainOK
<1>4. Steps(Chain)' /\ Reaches(Chain)'
  BY <1>3 DEF GapInv, ChainOK, Steps, Reaches
<1>5. Steps(heard' \o (snap' \o live'))
  BY <1>4 DEF Chain, Steps
<1>6. snap' \o live' \in Seq(Nat)
  BY <1>1
<1>7. \A s, t \in Seq(Nat) : Steps(s \o t) => Steps(s)
  BY StepsOfAPrefix
<1>8. Steps(heard')
  BY <1>1, <1>5, <1>6, <1>7
<1> QED BY <1>4, <1>8 DEF Steps

LEMMA GapStep == GapInv /\ [Next]_vars => GapInv'
<1> SUFFICES ASSUME GapInv, [Next]_vars PROVE GapInv'
  OBVIOUS
<1>e. EchoInv /\ EchoInv'
  BY EchoStep DEF GapInv
<1>0. /\ produced \in Nat /\ buffer \in Seq(Nat) /\ live \in Seq(Nat) /\ snap \in Seq(Nat) /\ heard \in Seq(Nat)
      /\ <<>> \in Seq(Nat) /\ produced + 1 - 1 = produced
  BY <1>e DEF EchoInv, SeqTypeOK, SourceOK
<1>r. reader # "none" => setup.source = "preroll"
  BY <1>e DEF EchoInv, SourceOK
<1>1. CASE Read
  <2>1. /\ reader = "read" /\ reader' = "put" /\ produced' = produced + 1
        /\ UNCHANGED <<live, pc, snap, heard, ordered>>
    BY <1>1 DEF Read, Produce, recorder
  <2>2. Chain' = Chain
    BY <2>1 DEF Chain
  <2>3. Reaches(Chain) => Reaches(Chain)'
    BY <1>0, <2>1, <2>2 DEF Reaches
  <2>4. DropOK'
    BY <2>1 DEF DropOK
  <2> QED BY <1>e, <2>1, <2>3, <2>4, ChainStays
<1>2. CASE CheckCapturing \/ PutFull
  <2>1. /\ UNCHANGED <<produced, live, pc, snap, heard, ordered>> /\ reader \in {"put", "block"}
        /\ reader' \in {"put", "drop", "block"} /\ (reader' = "drop" => ~capturing)
    BY <1>2 DEF CheckCapturing, PutFull, recorder
  <2>2. Chain' = Chain
    BY <2>1 DEF Chain
  <2>3. Reaches(Chain) => Reaches(Chain)'
    BY <2>1, <2>2 DEF Reaches
  <2>4. DropOK'
    BY <1>e, <1>r, <2>1 DEF DropOK, EchoInv, PcOK
  <2> QED BY <1>e, <2>1, <2>3, <2>4, ChainStays
<1>3. CASE PutDropping \/ PutBlocking
  <2>1. /\ UNCHANGED <<heard, snap, ordered, pc, produced>> /\ reader \in {"drop", "block"} /\ reader' = "read"
        /\ (reader = "drop" => live' = Push(live, produced, Cap))
        /\ (reader = "block" => live' = Append(live, produced))
    BY <1>3 DEF PutDropping, PutBlocking, Queued, recorder
  <2>2. CASE pc = "record"
    <3>1. reader = "drop" => live' = Append(live, produced)
      <4> SUFFICES ASSUME reader = "drop" PROVE live' = Append(live, produced)
        OBVIOUS
      <4>1. live = <<>>
        BY <2>2 DEF GapInv, DropOK
      <4>2. Len(Append(<<>>, produced)) = 1 /\ ~(1 > Cap)
        BY <1>0, CaptureAssumption DEF CaptureAssumption
      <4> QED BY <2>1, <4>1, <4>2 DEF Push
    <3>2. live' = Append(live, produced)
      BY <2>1, <3>1
    <3> QED BY <1>e, <2>1, <2>2, <3>2, ChainGrows
  <2>3. CASE pc # "record"
    BY <1>e, <2>1, <2>3, ChainOver
  <2> QED BY <2>2, <2>3
<1>4. CASE ReaderEnds
  <2>1. /\ UNCHANGED <<produced, live, pc, snap, heard, ordered>> /\ reader = "read" /\ reader' = "dead"
    BY <1>4 DEF ReaderEnds, StreamCloses, recorder
  <2>2. Chain' = Chain
    BY <2>1 DEF Chain
  <2>3. Reaches(Chain) => Reaches(Chain)'
    BY <2>1, <2>2 DEF Reaches
  <2>4. DropOK'
    BY <2>1 DEF DropOK
  <2> QED BY <1>e, <2>1, <2>3, <2>4, ChainStays
<1>5. CASE EnsureSource
  <2>1. UNCHANGED <<heard, ordered, pc>> /\ pc = "idle"
    BY <1>5 DEF EnsureSource, recorder
  <2> QED BY <1>e, <2>1, ChainOver
<1>6. CASE Open
  <2>1. /\ pc = "idle" /\ pc' = "record" /\ heard' = <<>> /\ ordered' = Unbroken /\ UNCHANGED <<produced, reader, setup>>
        /\ \/ snap' = buffer /\ live' = <<>>
           \/ setup.source # "preroll" /\ UNCHANGED <<snap, live>>
    BY <1>6 DEF Open, Capture
  <2>2. setup.source # "preroll" => snap = <<>> /\ live = <<>>
    BY <1>e DEF EchoInv, SourceOK
  <2>3. live' = <<>> /\ snap' \in {buffer, <<>>}
    BY <2>1, <2>2
  <2>4. Chain' = snap'
    BY <1>0, <2>1, <2>3 DEF Chain
  <2>5. DropOK'
    BY <2>3 DEF DropOK
  <2>6. Steps(heard)'
    BY <2>1 DEF Steps
  <2>7. ASSUME ordered' PROVE Steps(Chain)' /\ Reaches(Chain)'
    <3>1. Unbroken
      BY <2>1, <2>7
    <3>2. Len(buffer) \in Nat /\ (buffer # <<>> => Len(buffer) \in 1 .. Len(buffer)) /\ \A i \in 1 .. Len(buffer) : buffer[i] \in Nat
      BY <1>0
    <3>3. buffer # <<>> => buffer[Len(buffer)] = produced
      <4> SUFFICES ASSUME buffer # <<>> PROVE buffer[Len(buffer)] = produced
        OBVIOUS
      <4>1. buffer[Len(buffer)] = produced - Len(buffer) + Len(buffer)
        BY <3>1, <3>2 DEF Unbroken
      <4> QED BY <1>0, <3>2, <4>1
    <3>4. Steps(buffer)
      <4> SUFFICES ASSUME NEW i \in 1 .. (Len(buffer) - 1) PROVE buffer[i + 1] - buffer[i] \in {0, 1}
        BY DEF Steps
      <4>1. i \in 1 .. Len(buffer) /\ i + 1 \in 1 .. Len(buffer)
        BY <3>2
      <4>2. buffer[i] = produced - Len(buffer) + i /\ buffer[i + 1] = produced - Len(buffer) + (i + 1)
        BY <3>1, <4>1 DEF Unbroken
      <4> QED BY <1>0, <3>2, <4>2
    <3>5. Steps(<<>>)
      BY DEF Steps
    <3>6. CASE snap' = buffer
      <4>1. Chain' = buffer
        BY <2>4, <3>6
      <4> QED BY <2>1, <3>3, <3>4, <4>1 DEF Steps, Reaches
    <3>7. CASE snap' = <<>>
      <4>1. Chain' = <<>>
        BY <2>4, <3>7
      <4> QED BY <3>5, <4>1 DEF Steps, Reaches
    <3> QED BY <2>3, <3>6, <3>7
  <2> QED BY <1>e, <2>1, <2>5, <2>6, <2>7 DEF GapInv, ChainOK
<1>7. CASE HearSnapshot
  <2>1. /\ pc = "record" /\ snap # <<>> /\ snap' = Tail(snap) /\ UNCHANGED <<produced, live, reader, ordered>>
        /\ heard' = Append(heard, Head(snap))
    BY <1>7 DEF HearSnapshot, Hear
  <2>2. Append(heard, Head(snap)) \o (Tail(snap) \o live) = heard \o (snap \o live)
    <3> DEFINE x == Head(snap)
               t == Tail(snap)
    <3>1. x \in Nat /\ t \in Seq(Nat) /\ snap = <<x>> \o t
      BY <1>0, <2>1
    <3> HIDE DEF x, t
    <3>2. Append(heard, x) \o (t \o live) = heard \o ((<<x>> \o t) \o live)
      BY <1>0, <3>1
    <3> QED BY <3>1, <3>2 DEF x, t
  <2>3. Chain' = Chain
    BY <2>1, <2>2 DEF Chain
  <2> QED BY <1>e, <2>1, <2>3, ChainIsHeard
<1>8. CASE HearLive
  <2>1. /\ pc = "record" /\ snap = <<>> /\ live # <<>> /\ live' = Tail(live)
        /\ UNCHANGED <<produced, snap, reader, ordered>> /\ heard' = Append(heard, Head(live))
    BY <1>8 DEF HearLive, Hear
  <2>2. Append(heard, Head(live)) \o (<<>> \o Tail(live)) = heard \o (<<>> \o live)
    BY <1>0, <2>1
  <2>3. Chain' = Chain
    BY <2>1, <2>2 DEF Chain
  <2> QED BY <1>e, <2>1, <2>3, ChainIsHeard
<1>9. CASE HearStream
  <2>1. /\ pc = "record" /\ produced' = produced + 1 /\ UNCHANGED <<live, snap, ordered, reader>>
        /\ heard' = Append(heard, produced + 1) /\ setup.source = "stream"
    BY <1>9 DEF HearStream, Hear, Produce
  <2>2. reader = "none" /\ live = <<>> /\ snap = <<>>
    BY <1>e, <2>1 DEF EchoInv, SourceOK
  <2>3. Chain = heard /\ Chain' = heard'
    <3>1. heard \o (<<>> \o <<>>) = heard /\ Append(heard, produced + 1) \o (<<>> \o <<>>) = Append(heard, produced + 1)
      BY <1>0
    <3> QED BY <2>1, <2>2, <3>1 DEF Chain
  <2>4. DropOK'
    BY <2>1, <2>2 DEF DropOK
  <2>5. ASSUME ordered PROVE Steps(heard)' /\ Reaches(Chain)'
    <3>1. Steps(heard) /\ (heard # <<>> => heard[Len(heard)] = produced)
      BY <2>1, <2>2, <2>3, <2>5 DEF GapInv, ChainOK, Reaches
    <3>2. heard # <<>> => (produced + 1) - heard[Len(heard)] \in {0, 1}
      <4> SUFFICES ASSUME heard # <<>> PROVE (produced + 1) - heard[Len(heard)] \in {0, 1}
        OBVIOUS
      <4>1. heard[Len(heard)] = produced
        BY <3>1
      <4> QED BY <1>0, <4>1
    <3>3. produced + 1 \in Nat
      BY <1>0
    <3>4. Steps(Append(heard, produced + 1))
      BY <1>0, <3>1, <3>2, <3>3, StepsAppend
    <3>5. Append(heard, produced + 1)[Len(Append(heard, produced + 1))] = produced + 1
      BY <1>0
    <3>6. Steps(heard)'
      BY <2>1, <3>4 DEF Steps
    <3>7. Reaches(Chain)'
      BY <2>1, <2>3, <3>5 DEF Reaches
    <3> QED BY <3>6, <3>7
  <2>6. Steps(Chain)' <=> Steps(heard)'
    BY <2>3 DEF Steps
  <2> QED BY <1>e, <2>1, <2>4, <2>5, <2>6 DEF GapInv, ChainOK
<1>10. CASE RecordFixed
  <2>1. /\ pc' = "saved" /\ produced' \in produced .. MaxChunks
        /\ heard' = [i \in 1 .. (produced' - produced) |-> produced + i]
    BY <1>10 DEF RecordFixed, Saved
  <2>2. Steps(heard)'
    <3> DEFINE n == produced' - produced
    <3>0. \A p, m, q \in Nat : q \in p .. m => q - p \in Nat
      OBVIOUS
    <3>1. MaxChunks \in Nat /\ produced' \in Nat
      BY <1>e, CaptureAssumption DEF CaptureAssumption, EchoInv, SourceOK
    <3>2. n \in Nat
      BY <1>0, <2>1, <3>0, <3>1
    <3> HIDE DEF n
    <3>3. heard' = [i \in 1 .. n |-> produced + i]
      BY <2>1 DEF n
    <3>4. Len(heard') = n
      BY <3>2, <3>3
    <3> SUFFICES ASSUME NEW i \in 1 .. (Len(heard') - 1) PROVE heard'[i + 1] - heard'[i] \in {0, 1}
      BY DEF Steps
    <3>5. i \in 1 .. n /\ i + 1 \in 1 .. n
      BY <3>2, <3>4
    <3>6. heard'[i] = produced + i /\ heard'[i + 1] = produced + (i + 1)
      BY <3>3, <3>5
    <3> QED BY <1>0, <3>2, <3>5, <3>6
  <2> QED BY <1>e, <2>1, <2>2 DEF GapInv, ChainOK, DropOK
<1>11. CASE SourceEnds \/ StreamEnds \/ FinishOk \/ Transcribe \/ Hangs
  <2>1. UNCHANGED <<heard, ordered>> /\ pc' \in {"close", "saved", "hung"}
    BY <1>11 DEF SourceEnds, StreamEnds, Ended, Saved, FinishOk, Transcribe, Answer, Hangs, recorder
  <2> QED BY <1>e, <2>1, ChainOver
<1>12. CASE FinishFails \/ TranscribeNothing \/ RecordFails \/ TranscribeFails
  <2>1. pc' = "close" /\ heard' = <<>>
    BY <1>12 DEF FinishFails, TranscribeNothing, RecordFails, TranscribeFails, Fails, ForgetAll
  <2> QED BY <1>e, <2>1, ChainOver
<1>13. CASE Close \/ Ignore \/ ClearBuffer \/ ClearQueue
  <2>1. pc' # "record" /\ (heard' = <<>> \/ UNCHANGED <<heard, ordered>>)
    BY <1>13 DEF Close, Ignore, ClearBuffer, ClearQueue, ForgetAll, recorder
  <2> QED BY <1>e, <2>1, ChainOver
<1>14. CASE UNCHANGED vars
  <2>1. UNCHANGED <<heard, snap, live, pc, ordered, produced, reader>>
    BY <1>14 DEF vars, source, recorder
  <2>2. Chain' = Chain
    BY <2>1 DEF Chain
  <2>3. (Reaches(Chain) => Reaches(Chain)') /\ DropOK'
    BY <2>1, <2>2 DEF Reaches, GapInv, DropOK
  <2> QED BY <1>e, <2>1, <2>3, ChainStays
<1> QED BY <1>1, <1>2, <1>3, <1>4, <1>5, <1>6, <1>7, <1>8, <1>9, <1>10, <1>11, <1>12, <1>13, <1>14
        DEF Next, Reader, Recording

\* The hand-over from the pre-roll to the live queue loses nothing, for any size of
\* the pre-roll: a capture that begins on an unbroken pre-roll hears every chunk from
\* there on, in order (preroll_audio.py: capture_iter and _put_live_chunk).
THEOREM HandOverHasNoGap == Spec => []NoGap
<1>1. GapInv => NoGap
  BY DEF GapInv, ChainOK, NoGap, Steps
<1> QED BY <1>1, GapInit, GapStep, PTL DEF Spec

-----------------------------------------------------------------------------
(***************************************************************************)
(* The transcript leaves out no speech.  v stands for the chunks with      *)
(* speech in them, h for what was heard.                                   *)
(***************************************************************************)
Quiet(s, v) == ToSet(s) \cap v = {}

\* s is the end of what was heard, and nothing was said before it.
Behind(h, v, s) == \E p \in Seq(Nat) : h = p \o s /\ Quiet(p, v)

\* s is a part of what was heard, with all of these places in it.
Covers(h, places, s) ==
    \E first, last \in 0 .. Len(h) : s = SubSeq(h, first + 1, last) /\ places \subseteq (first + 1) .. last

LEMMA PartIs ==
    ASSUME NEW r \in Seq(Nat), NEW a \in Nat, NEW b \in Nat, b <= Len(r), a >= 1
    PROVE  /\ SubSeq(r, a, b) \in Seq(Nat)
           /\ \A i \in 1 .. Len(SubSeq(r, a, b)) : SubSeq(r, a, b)[i] = r[a + i - 1] /\ a + i - 1 \in a .. b
           /\ a <= b => Len(SubSeq(r, a, b)) = b - a + 1
<1>1. \A i \in a .. b : r[i] \in Nat
  OBVIOUS
<1> DEFINE s == SubSeq(r, a, b)
<1>2. /\ s \in Seq(Nat) /\ Len(s) = (IF a <= b THEN b - a + 1 ELSE 0)
      /\ \A i \in 1 .. b - a + 1 : s[i] = r[a + i - 1]
  BY <1>1, SubSeqProperties
<1> HIDE DEF s
<1> QED BY <1>2 DEF s

LEMMA ConcatIs ==
    ASSUME NEW s \in Seq(Nat), NEW t \in Seq(Nat)
    PROVE  s \o t \in Seq(Nat) /\ ToSet(s \o t) = ToSet(s) \union ToSet(t)
<1> DEFINE u == s \o t
<1>1. /\ u \in Seq(Nat) /\ DOMAIN u = 1 .. Len(s) + Len(t) /\ DOMAIN s = 1 .. Len(s) /\ DOMAIN t = 1 .. Len(t)
      /\ \A i \in 1 .. Len(s) : u[i] = s[i]
      /\ \A i \in 1 .. Len(t) : u[Len(s) + i] = t[i]
      /\ Len(s) \in Nat /\ Len(t) \in Nat
  OBVIOUS
<1> HIDE DEF u
<1>2. \A i \in DOMAIN u : i \in 1 .. Len(s) \/ (i - Len(s) \in 1 .. Len(t) /\ Len(s) + (i - Len(s)) = i)
  BY <1>1
<1>3. \A i \in DOMAIN u : u[i] \in ToSet(s) \/ u[i] \in ToSet(t)
  <2> TAKE i \in DOMAIN u
  <2>1. CASE i \in 1 .. Len(s)
    BY <1>1, <2>1 DEF ToSet
  <2>2. CASE i - Len(s) \in 1 .. Len(t) /\ Len(s) + (i - Len(s)) = i
    <3>1. u[i] = t[i - Len(s)]
      BY <1>1, <2>2
    <3> QED BY <1>1, <2>2, <3>1 DEF ToSet
  <2> QED BY <1>2, <2>1, <2>2
<1>4. (\A i \in 1 .. Len(s) : i \in DOMAIN u) /\ \A i \in 1 .. Len(t) : Len(s) + i \in DOMAIN u
  BY <1>1
<1>5. \A i \in 1 .. Len(s) : s[i] \in ToSet(u)
  BY <1>1, <1>4 DEF ToSet
<1>6. \A i \in 1 .. Len(t) : t[i] \in ToSet(u)
  BY <1>1, <1>4 DEF ToSet
<1>7. ToSet(u) = ToSet(s) \union ToSet(t)
  BY <1>1, <1>3, <1>5, <1>6 DEF ToSet
<1> QED BY <1>1, <1>7 DEF u

\* What is produced later is not what was heard.
LEMMA QuietStays ==
    ASSUME NEW n \in Nat, NEW m \in Nat, NEW v, NEW w, w \subseteq v \union ((n + 1) .. m),
           NEW s, ToSet(s) \subseteq 1 .. n, Quiet(s, v)
    PROVE  Quiet(s, w)
<1>1. \A x \in 1 .. n : x \notin (n + 1) .. m
  OBVIOUS
<1> QED BY <1>1 DEF Quiet

LEMMA BehindStays ==
    ASSUME NEW n \in Nat, NEW m \in Nat, NEW v, NEW w, w \subseteq v \union ((n + 1) .. m),
           NEW h, ToSet(h) \subseteq 1 .. n, NEW s \in Seq(Nat)
    PROVE  Behind(h, v, s) => Behind(h, w, s)
<1>1. ASSUME NEW p \in Seq(Nat), h = p \o s, Quiet(p, v)
      PROVE  Quiet(p, w)
  <2>1. ToSet(p) \subseteq ToSet(h)
    BY <1>1, ConcatIs
  <2>2. ToSet(p) \subseteq 1 .. n
    BY <2>1
  <2> QED BY <1>1, <2>2, QuietStays
<1> QED BY <1>1 DEF Behind

\* One more chunk, after which s goes on, ...
LEMMA BehindAppend ==
    ASSUME NEW h, NEW v, NEW s \in Seq(Nat), NEW x \in Nat, Behind(h, v, s)
    PROVE  Behind(Append(h, x), v, Append(s, x))
<1>1. PICK p \in Seq(Nat) : h = p \o s /\ Quiet(p, v)
  BY DEF Behind
<1>2. Append(p \o s, x) = p \o Append(s, x)
  BY ConcatAppend
<1> QED BY <1>1, <1>2 DEF Behind

\* ... or, being full, gives up its first.
LEMMA BehindPush ==
    ASSUME NEW h, NEW v, NEW s \in Seq(Nat), NEW x \in Nat, NEW max, Behind(h, v, s), Quiet(Append(h, x), v)
    PROVE  Behind(Append(h, x), v, Push(s, x, max))
<1> DEFINE t == Append(s, x)
<1>1. PICK p \in Seq(Nat) : Append(h, x) = p \o t /\ Quiet(p, v)
  BY BehindAppend DEF Behind
<1>2. t \in Seq(Nat) /\ t # <<>>
  OBVIOUS
<1>3. CASE Push(s, x, max) = t
  BY <1>1, <1>3 DEF Behind
<1>4. CASE Push(s, x, max) = Tail(t)
  <2> HIDE DEF t
  <2> DEFINE y == Head(t)
             r == Tail(t)
             o == Append(p, y)
  <2>1. y \in Nat /\ r \in Seq(Nat) /\ t = <<y>> \o r
    BY <1>2
  <2> HIDE DEF y, r
  <2>0. o \in Seq(Nat)
    BY <2>1
  <2>2. p \o (<<y>> \o r) = o \o r
    BY <2>1, ConcatSwap
  <2>3. Append(h, x) = o \o r
    BY <1>1, <2>1, <2>2
  <2> HIDE DEF o
  <2>4. ToSet(o) \subseteq ToSet(Append(h, x))
    BY <2>0, <2>1, <2>3, ConcatIs
  <2>5. Quiet(o, v)
    BY <2>4 DEF Quiet
  <2>6. Behind(Append(h, x), v, r)
    BY <2>0, <2>3, <2>5 DEF Behind
  <2> QED BY <1>4, <2>6 DEF r
<1> QED BY <1>3, <1>4 DEF Push

-----------------------------------------------------------------------------
(* The first and the last frame with speech. *)

LEMMA ExtremesExist ==
    ASSUME NEW n \in Nat, NEW S \in SUBSET (1 .. n), S # {}
    PROVE  /\ Min(S) \in S /\ Max(S) \in S
           /\ \A x \in S : Min(S) <= x /\ x <= Max(S)
<1>1. IsWellFoundedOn(OpToRel(<, Nat), Nat)
  BY NatLessThanWellFounded
<1>2. \A x, y \in Nat : ~(<<y, x>> \in OpToRel(<, Nat)) => x =< y
  BY DEF OpToRel
<1>3. S \subseteq Nat
  OBVIOUS
<1>4. \E x \in S : \A y \in S : ~(<<y, x>> \in OpToRel(<, Nat))
  BY <1>1, <1>3, WFMin
<1>5. \E x \in S : \A y \in S : x =< y
  BY <1>2, <1>3, <1>4
<1> DEFINE D == {n - x : x \in S}
<1>6. D \subseteq Nat /\ D # {}
  OBVIOUS
<1> HIDE DEF D
<1>7. \E x \in D : \A y \in D : ~(<<y, x>> \in OpToRel(<, Nat))
  BY <1>1, <1>6, WFMin
<1>8. PICK d \in D : \A y \in D : d =< y
  BY <1>2, <1>6, <1>7
<1>9. PICK x \in S : d = n - x
  BY <1>8 DEF D
<1>10. \A y \in S : n - y \in D
  BY DEF D
<1>11. \A y \in S : n - x =< n - y
  BY <1>8, <1>9, <1>10
<1>12. \A y \in S : x >= y
  BY <1>3, <1>11
<1> QED BY <1>5, <1>12 DEF Min, Max

\* What the provider was sent goes on to the end, and all that was said is in it.
LEMMA RealtimeCovers ==
    ASSUME heard \in Seq(Nat), NEW r \in Seq(Nat), Behind(heard, voice, r)
    PROVE  Covers(heard, {i \in DOMAIN heard : heard[i] \in voice}, r)
<1>1. PICK p \in Seq(Nat) : heard = p \o r /\ Quiet(p, voice)
  BY DEF Behind
<1> DEFINE first == Len(p)
           last == Len(heard)
<1>2. /\ first \in 0 .. Len(heard) /\ last \in 0 .. Len(heard) /\ DOMAIN heard = 1 .. last /\ first \in Nat
      /\ \A i \in 1 .. first : heard[i] = p[i] /\ i \in DOMAIN p
  BY <1>1
<1>3. SubSeq(heard, first + 1, last) = r
  BY <1>1
<1> HIDE DEF first, last
<1>4. \A i \in 1 .. first : heard[i] \notin voice
  BY <1>1, <1>2 DEF Quiet, ToSet
<1>5. \A i \in 1 .. last : i \notin 1 .. first => i \in (first + 1) .. last
  BY <1>2
<1>6. {i \in DOMAIN heard : heard[i] \in voice} \subseteq (first + 1) .. last
  BY <1>2, <1>4, <1>5
<1> QED BY <1>2, <1>3, <1>6 DEF Covers

\* What is sent to the ASR goes from the first frame with speech to the last.
LEMMA BatchCovers ==
    ASSUME heard \in Seq(Nat), recorded \in Seq(Nat), Behind(heard, voice, recorded),
           NEW f \in SUBSET DOMAIN recorded, f # {}
    PROVE  Trimmed(recorded, f) \in Seq(Nat) /\ Covers(heard, Places(f), Trimmed(recorded, f))
<1> DEFINE a == Min(f)
           b == Max(f)
           n == Len(recorded)
<1>1. n \in Nat /\ DOMAIN recorded = 1 .. n
  OBVIOUS
<1>2. a \in f /\ b \in f /\ \A i \in f : a <= i /\ i <= b
  BY <1>1, ExtremesExist
<1>3. Trimmed(recorded, f) = SubSeq(recorded, a, b)
  BY DEF Trimmed, Span
<1> HIDE DEF a, b
<1>4. a \in 1 .. n /\ b \in 1 .. n /\ a <= b /\ a \in Nat /\ b \in Nat /\ f \subseteq a .. b
  BY <1>1, <1>2
<1>5. PICK p \in Seq(Nat) : heard = p \o recorded
  BY DEF Behind
<1> DEFINE m == Len(p)
           first == m + a - 1
           last == m + b
<1>6. m \in Nat /\ Len(heard) = m + n
  BY <1>5
<1>7. first \in 0 .. Len(heard) /\ last \in 0 .. Len(heard) /\ first + 1 = m + a
  BY <1>1, <1>4, <1>6
<1>8. SubSeq(heard, m + a, m + b) = SubSeq(recorded, a, b)
  <2> DEFINE s == SubSeq(heard, m + a, m + b)
             t == SubSeq(recorded, a, b)
  <2>1. /\ s \in Seq(Nat) /\ Len(s) = b - a + 1 /\ \A i \in 1 .. (b - a + 1) : s[i] = heard[m + a + i - 1]
    <3> DEFINE c == m + a
               d == m + b
    <3>1. c \in Nat /\ d \in Nat /\ d <= Len(heard) /\ c >= 1 /\ c <= d /\ d - c + 1 = b - a + 1
      BY <1>1, <1>4, <1>6
    <3> HIDE DEF c, d
    <3>2. /\ SubSeq(heard, c, d) \in Seq(Nat) /\ Len(SubSeq(heard, c, d)) = d - c + 1
          /\ \A i \in 1 .. Len(SubSeq(heard, c, d)) : SubSeq(heard, c, d)[i] = heard[c + i - 1]
      BY <3>1, PartIs
    <3> QED BY <3>1, <3>2 DEF c, d
  <2>2. /\ t \in Seq(Nat) /\ Len(t) = b - a + 1 /\ \A i \in 1 .. (b - a + 1) : t[i] = recorded[a + i - 1]
    <3>1. b <= Len(recorded) /\ a >= 1
      BY <1>1, <1>4
    <3> QED BY <1>4, <3>1, PartIs
  <2>3. \A i \in 1 .. (b - a + 1) : heard[m + a + i - 1] = recorded[a + i - 1]
    <3> TAKE i \in 1 .. (b - a + 1)
    <3>1. a + i - 1 \in 1 .. n /\ m + a + i - 1 = m + (a + i - 1)
      BY <1>1, <1>4, <1>6
    <3>2. \A j \in 1 .. n : heard[m + j] = recorded[j]
      BY <1>1, <1>5, <1>6
    <3> QED BY <3>1, <3>2
  <2> HIDE DEF s, t
  <2>4. s = t
    BY <2>1, <2>2, <2>3, SeqEqual
  <2> QED BY <2>4 DEF s, t
<1>9. Places(f) \subseteq (first + 1) .. last
  <2>1. Len(heard) - Len(recorded) = m
    BY <1>1, <1>6
  <2>2. \A i \in a .. b : m + i \in (m + a) .. (m + b)
    BY <1>4, <1>6
  <2>3. Places(f) = {m + i : i \in f}
    BY <2>1 DEF Places
  <2>4. (m + a) .. (m + b) = (first + 1) .. last
    BY <1>7
  <2> QED BY <1>4, <2>2, <2>3, <2>4
<1>10. SubSeq(recorded, a, b) \in Seq(Nat)
  <2>1. b <= Len(recorded) /\ a >= 1
    BY <1>1, <1>4
  <2> QED BY <1>4, <2>1, PartIs
<1> HIDE DEF first
<1> QED BY <1>3, <1>7, <1>8, <1>9, <1>10 DEF Covers

-----------------------------------------------------------------------------
(* The invariant. *)

TextTypeOK == /\ setup \in Setups /\ {prefix, recorded, sent, text} \subseteq Seq(Nat)
              /\ broken \in BOOLEAN

\* Before speech, all was quiet and the padding is the end of it.
PaddingOK == pc = "record" /\ recorded = <<>> => Quiet(heard, voice) /\ Behind(heard, voice, prefix)

\* What is saved goes on to the last chunk that was heard.
SavedOK == pc = "saved" \/ recorded # <<>> => Behind(heard, voice, recorded)

\* A provider that has not failed has all that is saved.
SentOK == setup.realtime /\ ~broken => sent = recorded

\* An answer stands until the recording is closed.
Answered == result \in {"realtime", "batch"}

AnswerOK == Answered => pc = "close" /\ Covers(heard, Spoken, text)

TextInv == EchoInv /\ TextTypeOK /\ PaddingOK /\ SavedOK /\ SentOK /\ AnswerOK

LEMMA QuietEmpty == ASSUME NEW v PROVE Quiet(<<>>, v) /\ Behind(<<>>, v, <<>>)
<1>1. <<>> \in Seq(Nat) /\ ToSet(<<>>) = {}
  BY DEF ToSet
<1>2. <<>> = <<>> \o <<>>
  OBVIOUS
<1>3. Quiet(<<>>, v)
  BY <1>1 DEF Quiet
<1> QED BY <1>1, <1>2, <1>3 DEF Behind

LEMMA TextInit == Init => TextInv
<1> SUFFICES ASSUME Init PROVE TextInv
  OBVIOUS
<1>1. EchoInv
  BY EchoInit
<1>2. /\ setup \in Setups /\ prefix = <<>> /\ recorded = <<>> /\ sent = <<>> /\ text = <<>> /\ broken = FALSE
      /\ pc = "idle" /\ result = "none"
  BY DEF Init
<1>3. <<>> \in Seq(Nat)
  OBVIOUS
<1> QED BY <1>1, <1>2, <1>3 DEF TextInv, TextTypeOK, PaddingOK, SavedOK, SentOK, AnswerOK, Answered

\* Speech is only ever found in new chunks.
VoiceGrows == voice \subseteq voice' /\ voice' \subseteq voice \union ((produced + 1) .. produced')

LEMMA VoiceStep == EchoInv /\ [Next]_vars => VoiceGrows
<1> SUFFICES ASSUME EchoInv, [Next]_vars PROVE VoiceGrows
  OBVIOUS
<1>0. produced \in Nat /\ MaxChunks \in Nat
  BY CaptureAssumption DEF CaptureAssumption, EchoInv, SourceOK
<1>1. CASE Produce
  <2>1. produced' = produced + 1 /\ voice \subseteq voice' /\ voice' \subseteq voice \union {produced + 1}
    BY <1>1 DEF Produce
  <2>2. produced + 1 \in (produced + 1) .. (produced + 1)
    BY <1>0
  <2> QED BY <2>1, <2>2 DEF VoiceGrows
<1>2. CASE RecordFixed
  BY <1>2 DEF RecordFixed, VoiceGrows
<1>3. CASE voice' = voice
  BY <1>3 DEF VoiceGrows
<1>4. Produce \/ RecordFixed \/ voice' = voice
  BY DEF Next, Reader, Recording, Read, CheckCapturing, PutDropping, PutBlocking, PutFull, Queued, ReaderEnds,
         EnsureSource, Open, HearSnapshot, HearLive, HearStream, SourceEnds, StreamEnds, RecordFails, FinishOk, FinishFails,
         Transcribe, TranscribeNothing, TranscribeFails, Hangs, Fails, Answer, Close, Ignore, ClearBuffer, ClearQueue,
         source, vars
<1> QED BY <1>1, <1>2, <1>3, <1>4

\* What was known of a sequence before is known after one more chunk.
LEMMA HeardStays ==
    ASSUME EchoInv, EchoInv', VoiceGrows, NEW s \in Seq(Nat)
    PROVE  /\ Behind(heard, voice, s) => Behind(heard, voice', s)
           /\ Quiet(heard, voice) => Quiet(heard, voice')
<1>1. produced \in Nat /\ produced' \in Nat /\ ToSet(heard) \subseteq 1 .. produced
  BY DEF EchoInv, SourceOK, EchoOK, Audible
<1> DEFINE n == produced
           m == produced'
           w == voice'
<1>2. n \in Nat /\ m \in Nat /\ ToSet(heard) \subseteq 1 .. n /\ w \subseteq voice \union ((n + 1) .. m)
  BY <1>1 DEF VoiceGrows
<1> HIDE DEF n, m, w
<1>3. Behind(heard, voice, s) => Behind(heard, w, s)
  BY <1>2, BehindStays
<1>4. Quiet(heard, voice) => Quiet(heard, w)
  BY <1>2, QuietStays
<1> QED BY <1>3, <1>4 DEF w

\* What was said in it stays the same.
LEMMA SpokenStays ==
    ASSUME EchoInv, VoiceGrows, UNCHANGED <<heard, result, found>>
    PROVE  Spoken' = Spoken
<1>1. produced \in Nat /\ heard \in Seq(Nat) /\ \A i \in DOMAIN heard : heard[i] \in 1 .. produced
  BY DEF EchoInv, SourceOK, SeqTypeOK, EchoOK, Audible, ToSet
<1>2. \A x \in 1 .. produced : x \notin (produced + 1) .. produced'
  BY <1>1
<1>3. \A i \in DOMAIN heard : heard[i] \in voice <=> heard[i] \in voice'
  BY <1>1, <1>2 DEF VoiceGrows
<1>4. {i \in DOMAIN heard : heard[i] \in voice} = {i \in DOMAIN heard : heard[i] \in voice'}
  BY <1>3
<1> QED BY <1>4 DEF Spoken

\* A step of the reader, or of the wake loop after the answer.
LEMMA TextKept ==
    ASSUME TextInv, EchoInv', VoiceGrows, UNCHANGED <<setup, recorder, transcript, result>>,
           pc' = pc \/ (pc = "answered" /\ pc' = "cleared") \/ (pc \in {"record", "saved"} /\ pc' = "hung")
    PROVE  TextInv'
<1>1. UNCHANGED <<heard, prefix, recorded, sent, broken, text, found>>
  BY DEF recorder, transcript
<1>2. prefix \in Seq(Nat) /\ recorded \in Seq(Nat) /\ text \in Seq(Nat)
  BY DEF TextInv, TextTypeOK
<1>3. TextTypeOK' /\ SentOK'
  BY <1>1 DEF TextInv, TextTypeOK, SentOK
<1>4. PaddingOK'
  BY <1>1, <1>2, HeardStays DEF TextInv, PaddingOK
<1>5. SavedOK'
  BY <1>1, <1>2, HeardStays DEF TextInv, SavedOK
<1>6. AnswerOK'
  <2> SUFFICES ASSUME Answered PROVE pc' = "close" /\ Covers(heard', Spoken', text')
    BY DEF AnswerOK, Answered
  <2>1. pc = "close" /\ Covers(heard, Spoken, text)
    BY DEF TextInv, AnswerOK, Answered
  <2>2. Spoken' = Spoken
    BY <1>1, SpokenStays DEF TextInv
  <2> QED BY <1>1, <2>1, <2>2
<1> QED BY <1>3, <1>4, <1>5, <1>6 DEF TextInv

\* A step after which the locals of the recording are gone, or begin.
LEMMA TextOver ==
    ASSUME TextInv, EchoInv', setup' = setup, Fresh, broken' \in BOOLEAN, result' \notin {"realtime", "batch"}, pc' # "saved",
           pc' = "record" => heard' = <<>>
    PROVE  TextInv'
<1>1. prefix' = <<>> /\ recorded' = <<>> /\ sent' = <<>> /\ text' = <<>> /\ <<>> \in Seq(Nat)
  BY DEF Fresh
<1>2. TextTypeOK' /\ SentOK' /\ SavedOK' /\ AnswerOK'
  BY <1>1 DEF TextInv, TextTypeOK, SentOK, SavedOK, AnswerOK, Answered
<1>3. PaddingOK'
  BY <1>1, QuietEmpty DEF PaddingOK
<1> QED BY <1>2, <1>3 DEF TextInv

\* The provider gets these chunks, or has failed for good.
LEMMA EmitIs ==
    ASSUME NEW chunks \in Seq(Nat), Emit(chunks), sent \in Seq(Nat), broken \in BOOLEAN
    PROVE  /\ sent' \in Seq(Nat) /\ broken' \in BOOLEAN
           /\ setup.realtime /\ ~broken' => setup.realtime /\ ~broken /\ sent' = sent \o chunks
<1>1. CASE (~setup.realtime \/ broken) /\ UNCHANGED <<sent, broken>>
  BY <1>1
<1>2. CASE setup.realtime /\ ~broken /\ sent' = sent \o chunks /\ UNCHANGED broken
  BY <1>2
<1>3. CASE /\ setup.realtime /\ ~broken /\ broken' = TRUE
           /\ \E n \in 0 .. (Len(chunks) - 1) : sent' = sent \o SubSeq(chunks, 1, n)
  <2>1. PICK n \in 0 .. (Len(chunks) - 1) : sent' = sent \o SubSeq(chunks, 1, n)
    BY <1>3
  <2>2. n \in Nat /\ n <= Len(chunks) /\ 1 \in Nat /\ 1 >= 1
    OBVIOUS
  <2>3. SubSeq(chunks, 1, n) \in Seq(Nat)
    BY <2>2, PartIs
  <2>4. sent \o SubSeq(chunks, 1, n) \in Seq(Nat)
    BY <2>3
  <2> QED BY <1>3, <2>1, <2>4
<1> QED BY <1>1, <1>2, <1>3 DEF Emit

\* The recorder gets one more chunk.
LEMMA TextHear ==
    ASSUME TextInv, EchoInv', VoiceGrows, pc = "record", NEW chunk \in Nat, Hear(chunk)
    PROVE  TextInv'
<1>1. /\ heard' = Append(heard, chunk) /\ UNCHANGED <<setup, text, found>>
      /\ \/ chunk \in voice' /\ (HearOnset(chunk) \/ HearMore(chunk, TRUE))
         \/ chunk \notin voice' /\ (HearSilence(chunk) \/ HearMore(chunk, FALSE))
  BY DEF Hear, IsSpeech, Probable, transcript
<1>2. /\ heard \in Seq(Nat) /\ prefix \in Seq(Nat) /\ recorded \in Seq(Nat) /\ sent \in Seq(Nat) /\ text \in Seq(Nat)
      /\ broken \in BOOLEAN /\ setup \in Setups /\ <<>> \in Seq(Nat) /\ ~Answered
  BY DEF TextInv, TextTypeOK, EchoInv, SeqTypeOK, AnswerOK, Answered
<1>3. CASE HearSilence(chunk) /\ chunk \notin voice'
  <2>1. /\ recorded = <<>> /\ prefix' = Push(prefix, chunk, Padding) /\ UNCHANGED <<recorded, sent, broken>>
        /\ \/ pc' = "close" /\ result' = "no_speech"
           \/ UNCHANGED <<pc, result>>
    BY <1>3 DEF HearSilence, Ended, GoesOn
  <2>2. prefix' \in Seq(Nat)
    BY <1>2, <2>1, PushIs
  <2>3. TextTypeOK' /\ SentOK' /\ AnswerOK' /\ SavedOK'
    BY <1>1, <1>2, <2>1, <2>2 DEF TextInv, TextTypeOK, SentOK, AnswerOK, Answered, SavedOK
  <2>4. Quiet(heard, voice') /\ Behind(heard, voice', prefix)
    BY <1>2, <2>1, HeardStays DEF TextInv, PaddingOK
  <2>5. Quiet(heard', voice')
    <3>1. ToSet(heard') = ToSet(heard) \union {chunk}
      BY <1>1, <1>2, AppendIs
    <3> QED BY <1>3, <2>4, <3>1 DEF Quiet
  <2>6. Behind(heard', voice', prefix')
    BY <1>1, <1>2, <2>1, <2>4, <2>5, BehindPush
  <2> QED BY <2>3, <2>5, <2>6 DEF TextInv, PaddingOK
<1>4. CASE HearOnset(chunk)
  <2>1. /\ recorded = <<>> /\ recorded' = Append(prefix, chunk) /\ Emit(recorded') /\ prefix' = prefix
        /\ pc' \in {"record", "saved"} /\ result' = result
    BY <1>4 DEF HearOnset, Saved, GoesOn
  <2>2. recorded' \in Seq(Nat) /\ recorded' # <<>>
    <3>1. \A t \in Seq(Nat) : Append(t, chunk) \in Seq(Nat) /\ Append(t, chunk) # <<>>
      BY AppendIs
    <3> QED BY <1>2, <2>1, <3>1
  <2>3. /\ sent' \in Seq(Nat) /\ broken' \in BOOLEAN
        /\ (setup.realtime /\ ~broken' => setup.realtime /\ ~broken /\ sent' = sent \o recorded')
    BY <1>2, <2>1, <2>2, EmitIs
  <2>4. SentOK'
    <3> SUFFICES ASSUME setup.realtime, ~broken' PROVE sent' = recorded'
      BY <1>1 DEF SentOK
    <3>1. sent = <<>> /\ sent' = sent \o recorded'
      BY <2>1, <2>3 DEF TextInv, SentOK
    <3> QED BY <2>2, <3>1
  <2>5. TextTypeOK' /\ AnswerOK' /\ PaddingOK'
    BY <1>1, <1>2, <2>1, <2>2, <2>3 DEF TextTypeOK, AnswerOK, Answered, PaddingOK
  <2>6. Behind(heard, voice', prefix)
    BY <1>2, <2>1, HeardStays DEF TextInv, PaddingOK
  <2>7. SavedOK'
    BY <1>1, <1>2, <2>1, <2>6, BehindAppend DEF SavedOK
  <2> QED BY <2>4, <2>5, <2>7 DEF TextInv
<1>5. CASE HearMore(chunk, TRUE) \/ HearMore(chunk, FALSE)
  <2>1. /\ recorded # <<>> /\ recorded' = Append(recorded, chunk) /\ Emit(<<chunk>>) /\ prefix' = prefix
        /\ pc' \in {"record", "saved"} /\ result' = result
    BY <1>5 DEF HearMore, Saved, GoesOn
  <2>2. recorded' \in Seq(Nat) /\ recorded' # <<>>
    BY <1>2, <2>1, AppendIs
  <2>8. <<chunk>> \in Seq(Nat)
    OBVIOUS
  <2>3. /\ sent' \in Seq(Nat) /\ broken' \in BOOLEAN
        /\ (setup.realtime /\ ~broken' => setup.realtime /\ ~broken /\ sent' = sent \o <<chunk>>)
    BY <1>2, <2>1, <2>8, EmitIs
  <2>4. SentOK'
    <3> SUFFICES ASSUME setup.realtime, ~broken' PROVE sent' = recorded'
      BY <1>1 DEF SentOK
    <3>1. sent = recorded /\ sent' = sent \o <<chunk>>
      BY <2>1, <2>3 DEF TextInv, SentOK
    <3> QED BY <1>2, <2>1, <3>1
  <2>5. TextTypeOK' /\ AnswerOK' /\ PaddingOK'
    BY <1>1, <1>2, <2>1, <2>2, <2>3 DEF TextTypeOK, AnswerOK, Answered, PaddingOK
  <2>6. Behind(heard, voice', recorded)
    BY <1>2, <2>1, HeardStays DEF TextInv, SavedOK
  <2>7. SavedOK'
    BY <1>1, <1>2, <2>1, <2>6, BehindAppend DEF SavedOK
  <2> QED BY <2>4, <2>5, <2>7 DEF TextInv
<1> QED BY <1>1, <1>3, <1>4, <1>5

LEMMA TextStep == TextInv /\ [Next]_vars => TextInv'
<1> SUFFICES ASSUME TextInv, [Next]_vars PROVE TextInv'
  OBVIOUS
<1>e. EchoInv /\ EchoInv' /\ VoiceGrows
  BY EchoStep, VoiceStep DEF TextInv
<1>1. CASE Read \/ CheckCapturing \/ PutDropping \/ PutBlocking \/ PutFull \/ ReaderEnds \/ EnsureSource \/ UNCHANGED vars
  <2>1. UNCHANGED <<setup, recorder, transcript, result, pc>>
    BY <1>1 DEF Read, CheckCapturing, PutDropping, PutBlocking, PutFull, Queued, ReaderEnds, EnsureSource, vars
  <2> QED BY <1>e, <2>1, TextKept
<1>2. CASE ClearBuffer \/ Hangs
  <2>1. /\ UNCHANGED <<setup, recorder, transcript, result>>
        /\ \/ pc = "answered" /\ pc' = "cleared"
           \/ pc \in {"record", "saved"} /\ pc' = "hung"
    BY <1>2 DEF ClearBuffer, Hangs, Waits
  <2> QED BY <1>e, <2>1, TextKept
<1>3. CASE Open
  <2>1. /\ setup' = setup /\ Fresh /\ broken' \in ProviderStarts /\ heard' = <<>> /\ result' = "none" /\ pc' = "record"
    BY <1>3 DEF Open
  <2>2. broken' \in BOOLEAN
    BY <2>1 DEF ProviderStarts
  <2> QED BY <1>e, <2>1, <2>2, TextOver
<1>4. CASE FinishFails \/ TranscribeNothing \/ RecordFails \/ TranscribeFails
  <2>1. setup' = setup /\ Fresh /\ broken' = FALSE /\ result' \in {"failed", "no_speech"} /\ pc' = "close"
    BY <1>4 DEF FinishFails, TranscribeNothing, RecordFails, TranscribeFails, Fails, ForgetAll, Forget
  <2> QED BY <1>e, <2>1, TextOver
<1>5. CASE Close
  <2>1. setup' = setup /\ Fresh /\ broken' = FALSE /\ result' = "none" /\ pc' \in {"answered", "idle"}
    BY <1>5 DEF Close, ForgetAll, Forget
  <2> QED BY <1>e, <2>1, TextOver
<1>6. CASE Ignore \/ ClearQueue
  <2>1. setup' = setup /\ Fresh /\ broken' = FALSE /\ result' = result /\ pc' = "idle" /\ pc # "close"
    BY <1>6 DEF Ignore, ClearQueue, ForgetAll, Forget
  <2>2. result \notin {"realtime", "batch"}
    BY <2>1 DEF TextInv, AnswerOK, Answered
  <2> QED BY <1>e, <2>1, <2>2, TextOver
<1>7. CASE HearSnapshot
  <2>1. pc = "record" /\ snap # <<>> /\ Hear(Head(snap))
    BY <1>7 DEF HearSnapshot
  <2>2. snap \in Seq(Nat)
    BY <1>e DEF EchoInv, SeqTypeOK
  <2>3. Head(snap) \in Nat
    BY <2>1, <2>2
  <2> QED BY <1>e, <2>1, <2>3, TextHear
<1>8. CASE HearLive
  <2>1. pc = "record" /\ live # <<>> /\ Hear(Head(live))
    BY <1>8 DEF HearLive
  <2>2. live \in Seq(Nat)
    BY <1>e DEF EchoInv, SeqTypeOK
  <2>3. Head(live) \in Nat
    BY <2>1, <2>2
  <2> QED BY <1>e, <2>1, <2>3, TextHear
<1>9. CASE HearStream
  <2>1. pc = "record" /\ produced' = produced + 1 /\ Hear(produced')
    BY <1>9 DEF HearStream, Produce
  <2>2. produced + 1 \in Nat /\ Hear(produced + 1)
    BY <1>e, <2>1 DEF EchoInv, SourceOK
  <2> QED BY <1>e, <2>1, <2>2, TextHear
<1>10. CASE SourceEnds \/ StreamEnds
  <2>1. /\ pc = "record" /\ UNCHANGED <<setup, voice, recorder, transcript>>
        /\ \/ recorded = <<>> /\ pc' = "close" /\ result' = "no_speech"
           \/ recorded # <<>> /\ pc' = "saved" /\ result' = result
    BY <1>10 DEF SourceEnds, StreamEnds, Ended, Saved, source
  <2>2. UNCHANGED <<heard, prefix, recorded, sent, broken, text, found>> /\ ~Answered /\ ~Answered'
    BY <2>1 DEF recorder, transcript, TextInv, AnswerOK, Answered
  <2>3. TextTypeOK' /\ SentOK' /\ PaddingOK' /\ AnswerOK'
    BY <2>1, <2>2 DEF TextInv, TextTypeOK, SentOK, PaddingOK, AnswerOK, Answered
  <2>4. SavedOK'
    BY <2>1, <2>2 DEF TextInv, SavedOK
  <2> QED BY <1>e, <2>3, <2>4 DEF TextInv
<1>11. CASE RecordFixed
  <2>1. /\ setup.source = "fixed" /\ UNCHANGED <<setup, prefix, sent, broken, transcript, result>> /\ pc = "record"
        /\ pc' = "saved" /\ recorded' = heard'
    BY <1>11 DEF RecordFixed, Saved
  <2>6. UNCHANGED <<text, found>>
    BY <2>1 DEF transcript
  <2>2. ~setup.realtime
    <3>1. \A source_, mode : Setup(source_, mode).source = source_ /\ Setup(source_, mode).realtime = mode.realtime
      BY DEF Setup
    <3>2. setup \in WakeSetups \union ListenSetups
      BY DEF TextInv, TextTypeOK, Setups
    <3>3. setup \notin WakeSetups
      BY <2>1, <3>1 DEF WakeSetups
    <3>4. setup = Setup("fixed", BatchMode)
      BY <2>1, <3>1, <3>2, <3>3 DEF ListenSetups
    <3>5. BatchMode.realtime = FALSE
      BY DEF BatchMode
    <3> QED BY <3>1, <3>4, <3>5
  <2>3. heard' \in Seq(Nat) /\ ~Answered
    BY <1>e, <2>1 DEF EchoInv, SeqTypeOK, TextInv, AnswerOK, Answered
  <2>4. Behind(heard', voice', heard')
    <3>1. <<>> \in Seq(Nat) /\ heard' = <<>> \o heard'
      BY <2>3
    <3>2. Quiet(<<>>, voice')
      BY QuietEmpty
    <3> QED BY <3>1, <3>2 DEF Behind
  <2>5. TextTypeOK' /\ SentOK' /\ PaddingOK' /\ AnswerOK'
    BY <2>1, <2>2, <2>3, <2>6 DEF TextInv, TextTypeOK, SentOK, PaddingOK, AnswerOK, Answered
  <2>7. SavedOK'
    BY <2>1, <2>4 DEF SavedOK
  <2> QED BY <1>e, <2>5, <2>7 DEF TextInv
<1>12. CASE FinishOk \/ Transcribe
  <2>1. /\ pc = "saved" /\ pc' = "close" /\ UNCHANGED <<setup, voice, recorder>>
        /\ \/ setup.realtime /\ ~broken /\ text' = sent /\ result' = "realtime"
           \/ /\ result' = "batch"
              /\ \E frames \in Detectable(recorded) \ {{}} :
                     text' = Trimmed(recorded, frames) /\ found' = Places(frames)
    BY <1>12 DEF FinishOk, Transcribe, Batch, Answer, source
  <2>2. UNCHANGED <<heard, prefix, recorded, sent, broken>>
    BY <2>1 DEF recorder
  <2>3. heard \in Seq(Nat) /\ recorded \in Seq(Nat) /\ Behind(heard, voice, recorded)
    BY <1>e, <2>1 DEF EchoInv, SeqTypeOK, TextInv, TextTypeOK, SavedOK
  <2>4. ASSUME setup.realtime, ~broken, text' = sent, result' = "realtime"
        PROVE  text' \in Seq(Nat) /\ Covers(heard', Spoken', text')
    <3>1. text' = recorded
      BY <2>4 DEF TextInv, SentOK
    <3>2. Spoken' = {i \in DOMAIN heard : heard[i] \in voice}
      BY <2>1, <2>2, <2>4 DEF Spoken
    <3> QED BY <2>2, <2>3, <3>1, <3>2, RealtimeCovers
  <2>5. ASSUME result' = "batch",
               \E frames \in Detectable(recorded) \ {{}} :
                   text' = Trimmed(recorded, frames) /\ found' = Places(frames)
        PROVE  text' \in Seq(Nat) /\ Covers(heard', Spoken', text')
    <3>1. PICK frames \in Detectable(recorded) \ {{}} : text' = Trimmed(recorded, frames) /\ found' = Places(frames)
      BY <2>5
    <3>2. Spoken' = Places(frames)
      BY <2>5, <3>1 DEF Spoken
    <3>3. frames \in SUBSET DOMAIN recorded /\ frames # {}
      BY DEF Detectable
    <3> QED BY <2>2, <2>3, <3>1, <3>2, <3>3, BatchCovers
  <2>6. text' \in Seq(Nat) /\ Covers(heard', Spoken', text')
    BY <2>1, <2>4, <2>5
  <2>7. TextTypeOK' /\ SentOK' /\ PaddingOK' /\ AnswerOK'
    BY <2>1, <2>2, <2>6 DEF TextInv, TextTypeOK, SentOK, PaddingOK, AnswerOK, Answered
  <2>8. SavedOK'
    BY <2>1, <2>2, <2>3 DEF SavedOK
  <2> QED BY <1>e, <2>7, <2>8 DEF TextInv
<1> QED BY <1>1, <1>2, <1>3, <1>4, <1>5, <1>6, <1>7, <1>8, <1>9, <1>10, <1>11, <1>12
        DEF Next, Reader, Recording

\* What is transcribed is a part of what was heard, without a gap: all that the
\* recorder's VAD found when the realtime provider answered, wherever it may fail, and
\* all that its own VAD found in the file when the batch path did, whatever the two
\* find, for any limits of a recording (endpointing.py: record; realtime_listen.py:
\* stream_chunk; listen.py: transcribe_audio_file).
THEOREM NoSpeechIsLost == Spec => []TranscriptComplete
<1>1. TextInv => TranscriptComplete
  BY DEF TextInv, AnswerOK, Answered, Covers, TranscriptComplete
<1> QED BY <1>1, TextInit, TextStep, PTL DEF Spec

-----------------------------------------------------------------------------
(* Types and bounds. *)

\* A recording that goes on has not reached its limit, and counts no more chunks
\* than it heard; what the reader has in its hands is a chunk.
BoundOK == /\ pc = "record" => /\ Len(heard) < MaxRecord
                               /\ speech <= Len(heard) /\ silence <= Len(heard)
           /\ reader \in {"put", "drop", "block"} => produced >= 1

TypeInv == TypeOK /\ BoundOK

Results == {"none", "realtime", "batch", "no_speech", "failed"}

LEMMA PushBound ==
    ASSUME NEW S, NEW s \in Seq(S), NEW x \in S, NEW max \in Nat, Len(s) <= max
    PROVE  Push(s, x, max) \in Seq(S) /\ Len(Push(s, x, max)) <= max
<1> DEFINE t == Append(s, x)
<1>1. t \in Seq(S) /\ t # <<>> /\ Len(t) = Len(s) + 1 /\ Len(s) \in Nat
  OBVIOUS
<1> HIDE DEF t
<1>2. Tail(t) \in Seq(S) /\ Len(Tail(t)) = Len(s)
  BY <1>1
<1>3. CASE Len(t) > max
  BY <1>2, <1>3 DEF Push, t
<1>4. CASE ~(Len(t) > max)
  <2>1. Push(s, x, max) = t
    BY <1>4 DEF Push, t
  <2> QED BY <1>1, <1>4, <2>1
<1> QED BY <1>3, <1>4

LEMMA PartOf ==
    ASSUME NEW S, NEW r \in Seq(S), NEW a \in Nat \ {0}, NEW b \in Nat, b <= Len(r)
    PROVE  SubSeq(r, a, b) \in Seq(S)
<1>1. \A i \in a .. b : r[i] \in S
  OBVIOUS
<1> QED BY <1>1, SubSeqProperties

\* The chunks of a step that reads the microphone.
LEMMA ProduceIs ==
    ASSUME TypeInv, Produce
    PROVE  /\ produced' = produced + 1 /\ produced' \in 0 .. MaxChunks /\ produced' \in Chunks /\ produced' >= 1
           /\ voice' \subseteq Chunks
<1>1. produced \in 0 .. MaxChunks /\ MaxChunks \in Nat /\ produced < MaxChunks /\ produced' = produced + 1
  BY CaptureAssumption DEF CaptureAssumption, Produce, TypeInv, TypeOK
<1>2. produced' \in 0 .. MaxChunks /\ produced' \in Chunks /\ produced' >= 1
  BY <1>1 DEF Chunks
<1>3. voice' \subseteq voice \union {produced'} /\ voice \subseteq Chunks
  BY DEF Produce, TypeInv, TypeOK
<1> QED BY <1>1, <1>2, <1>3

LEMMA QueueEmptied ==
    ASSUME NEW S, NEW s \in Seq(S), NEW max \in Nat, Len(s) <= max, NEW t \in {s, <<>>}
    PROVE  t \in Seq(S) /\ Len(t) <= max
<1>1. <<>> \in Seq(S) /\ Len(<<>>) = 0 /\ 0 <= max
  OBVIOUS
<1> QED BY <1>1

\* A step that changes only where things are.
LEMMA TypeKept ==
    ASSUME TypeInv, UNCHANGED <<setup, produced, voice, prefix, recorded, speech, silence, sent, transcript>>,
           reader' \in {"none", "read", "put", "drop", "block", "dead"},
           reader' \in {"put", "drop", "block"} => reader \in {"put", "drop", "block"},
           buffer' \in {buffer, <<>>}, live' \in {live, <<>>}, snap' \in {snap, buffer, <<>>},
           heard' \in {heard, <<>>},
           capturing' \in BOOLEAN, broken' \in BOOLEAN, ordered' \in BOOLEAN,
           pc' \in {"idle", "record", "saved", "close", "answered", "cleared", "hung"},
           pc' = "record" => pc = "record" /\ heard' = heard,
           result' \in Results, routed' \subseteq Chunks
    PROVE  TypeInv'
<1>1. <<>> \in Seq(Chunks) /\ Len(<<>>) = 0 /\ Cap \in Nat
  BY CaptureAssumption DEF CaptureAssumption
<1>2. buffer' \in Seq(Chunks) /\ Len(buffer') <= Cap /\ live' \in Seq(Chunks) /\ Len(live') <= Cap
  BY <1>1, QueueEmptied DEF TypeInv, TypeOK, Results, transcript
<1>3. {snap', heard'} \subseteq Seq(Chunks)
  BY <1>1 DEF TypeInv, TypeOK, Results, transcript
<1>4. TypeOK'
  BY <1>2, <1>3 DEF TypeInv, TypeOK, Results, transcript
<1>5. BoundOK'
  BY DEF TypeInv, BoundOK
<1> QED BY <1>4, <1>5 DEF TypeInv

\* A step after which the locals of the recording are empty.
LEMMA TypeFresh ==
    ASSUME TypeInv, Fresh, UNCHANGED <<setup, produced, voice, reader>>,
           buffer' \in {buffer, <<>>}, live' \in {live, <<>>}, snap' \in {snap, buffer, <<>>},
           heard' \in {heard, <<>>},
           capturing' \in BOOLEAN, broken' \in BOOLEAN, ordered' \in BOOLEAN,
           pc' \in {"idle", "record", "saved", "close", "answered", "cleared", "hung"}, pc' = "record" => heard' = <<>>,
           result' \in Results, routed' \subseteq Chunks
    PROVE  TypeInv'
<1>1. <<>> \in Seq(Chunks) /\ Len(<<>>) = 0 /\ Cap \in Nat /\ Padding \in Nat /\ MaxRecord \in Nat \ {0}
  BY CaptureAssumption DEF CaptureAssumption
<1>2. buffer' \in Seq(Chunks) /\ Len(buffer') <= Cap /\ live' \in Seq(Chunks) /\ Len(live') <= Cap
  BY <1>1, QueueEmptied DEF TypeInv, TypeOK, Results, transcript
<1>3. {snap', heard', recorded', sent', text'} \subseteq Seq(Chunks) /\ prefix' \in Seq(Chunks)
  BY <1>1 DEF TypeInv, TypeOK, Results, transcript, Fresh
<1>8. Len(prefix') <= Padding
  <2>1. 0 <= Padding
    BY <1>1
  <2> QED BY <1>1, <2>1 DEF Fresh
<1>4. speech' = 0 /\ silence' = 0 /\ speech' \in 0 .. MaxRecord /\ silence' \in 0 .. MaxRecord
  BY <1>1 DEF Fresh
<1>5. TypeOK'
  BY <1>2, <1>3, <1>4, <1>8 DEF Fresh, TypeInv, TypeOK, Results, transcript
<1>6. pc' = "record" => Len(heard') < MaxRecord /\ speech' <= Len(heard') /\ silence' <= Len(heard')
  <2>1. 0 < MaxRecord
    BY <1>1
  <2> QED BY <1>1, <1>4, <2>1
<1>7. BoundOK'
  BY <1>6 DEF TypeInv, BoundOK
<1> QED BY <1>5, <1>7 DEF TypeInv

\* What a chunk does to the recording.
LEMMA TypeHear ==
    ASSUME TypeInv, pc = "record", NEW chunk \in Chunks, Hear(chunk),
           produced' \in 0 .. MaxChunks, voice' \subseteq Chunks, reader \in {"put", "drop", "block"} => produced' >= 1,
           buffer' \in Seq(Chunks), Len(buffer') <= Cap, live' \in Seq(Chunks), Len(live') <= Cap, snap' \in Seq(Chunks)
    PROVE  TypeInv'
<1>0. /\ heard \in Seq(Chunks) /\ prefix \in Seq(Chunks) /\ recorded \in Seq(Chunks) /\ sent \in Seq(Chunks)
      /\ Len(prefix) <= Padding /\ Padding \in Nat /\ MaxRecord \in Nat /\ Len(heard) \in Nat
      /\ speech \in Nat /\ silence \in Nat /\ Len(heard) < MaxRecord /\ speech <= Len(heard) /\ silence <= Len(heard)
  BY CaptureAssumption DEF CaptureAssumption, TypeInv, TypeOK, Results, BoundOK
<1>1. /\ heard' = Append(heard, chunk) /\ UNCHANGED <<setup, reader, capturing, transcript, ordered, routed>>
      /\ \/ HearOnset(chunk) \/ HearSilence(chunk)
         \/ HearMore(chunk, TRUE) \/ HearMore(chunk, FALSE)
  BY DEF Hear
<1>2. heard' \in Seq(Chunks) /\ Len(heard') = Len(heard) + 1 /\ Len(heard') \in Nat /\ Len(heard') <= MaxRecord
  BY <1>0, <1>1
\* The rest of what has to be shown, whichever way the chunk goes.
<1> DEFINE Rest == /\ prefix' \in Seq(Chunks) /\ Len(prefix') <= Padding
                   /\ recorded' \in Seq(Chunks) /\ sent' \in Seq(Chunks) /\ broken' \in BOOLEAN
                   /\ speech' \in Nat /\ silence' \in Nat /\ speech' <= Len(heard') /\ silence' <= Len(heard')
                   /\ pc' \in {"record", "saved", "close"} /\ result' \in Results
                   /\ (pc' = "record" => Len(heard') < MaxRecord)
<1>3. ASSUME Rest PROVE TypeInv'
  <2>1. speech' \in 0 .. MaxRecord /\ silence' \in 0 .. MaxRecord
    <3>1. \A n \in Nat : n <= Len(heard') => n \in 0 .. MaxRecord
      BY <1>0, <1>2
    <3> QED BY <1>3, <3>1
  <2>2. TypeOK'
    BY <1>1, <1>2, <1>3, <2>1 DEF TypeInv, TypeOK, Results, transcript
  <2>3. BoundOK'
    BY <1>1, <1>3 DEF BoundOK
  <2> QED BY <2>2, <2>3 DEF TypeInv
<1>4. result \in Results /\ broken \in BOOLEAN
  BY DEF TypeInv, TypeOK, Results, transcript
<1>5. ~(Len(heard') >= MaxRecord) => Len(heard') < MaxRecord
  BY <1>0, <1>2
<1>6. CASE HearSilence(chunk)
  <2>1. /\ prefix' = Push(prefix, chunk, Padding) /\ UNCHANGED <<recorded, speech, silence, sent, broken>>
        /\ \/ pc' = "close" /\ result' = "no_speech"
           \/ ~(Len(heard') >= MaxRecord) /\ UNCHANGED <<pc, result>>
    BY <1>6 DEF HearSilence, Ended, GoesOn
  <2>2. prefix' \in Seq(Chunks) /\ Len(prefix') <= Padding
    BY <1>0, <2>1, PushBound
  <2>3. speech' \in Nat /\ silence' \in Nat /\ speech' <= Len(heard') /\ silence' <= Len(heard')
    BY <1>0, <1>2, <2>1
  <2>4. recorded' \in Seq(Chunks) /\ sent' \in Seq(Chunks) /\ broken' \in BOOLEAN
    BY <1>0, <1>4, <2>1
  <2>5. /\ pc' \in {"record", "saved", "close"} /\ result' \in Results
        /\ (pc' = "record" => Len(heard') < MaxRecord)
    BY <1>4, <1>5, <2>1 DEF Results
  <2> QED BY <1>3, <2>2, <2>3, <2>4, <2>5
<1>7. ASSUME NEW chunks \in Seq(Chunks), Emit(chunks)
      PROVE  sent' \in Seq(Chunks) /\ broken' \in BOOLEAN
  <2>1. CASE UNCHANGED <<sent, broken>>
    BY <1>0, <1>4, <2>1
  <2>2. CASE sent' = sent \o chunks /\ UNCHANGED broken
    BY <1>0, <1>4, <2>2
  <2>3. CASE broken' = TRUE /\ \E n \in 0 .. (Len(chunks) - 1) : sent' = sent \o SubSeq(chunks, 1, n)
    <3>1. PICK n \in 0 .. (Len(chunks) - 1) : sent' = sent \o SubSeq(chunks, 1, n)
      BY <2>3
    <3>2. n \in Nat /\ n <= Len(chunks) /\ 1 \in Nat \ {0}
      OBVIOUS
    <3>3. SubSeq(chunks, 1, n) \in Seq(Chunks)
      BY <3>2, PartOf
    <3>4. sent \o SubSeq(chunks, 1, n) \in Seq(Chunks)
      BY <1>0, <3>3
    <3> QED BY <2>3, <3>1, <3>4
  <2> QED BY <1>7, <2>1, <2>2, <2>3 DEF Emit
<1>8. CASE HearOnset(chunk)
  <2>1. /\ recorded' = Append(prefix, chunk) /\ Emit(recorded') /\ prefix' = prefix /\ speech' = 1 /\ silence' = 0
        /\ \/ pc' = "saved" /\ result' = result
           \/ ~(Len(heard') >= MaxRecord) /\ UNCHANGED <<pc, result>>
    BY <1>8 DEF HearOnset, Saved, GoesOn
  <2>2. recorded' \in Seq(Chunks)
    BY <1>0, <2>1, AppendIs
  <2>3. sent' \in Seq(Chunks) /\ broken' \in BOOLEAN
    BY <1>7, <2>1, <2>2
  <2>4. speech' \in Nat /\ silence' \in Nat /\ speech' <= Len(heard') /\ silence' <= Len(heard')
    BY <1>0, <1>2, <2>1
  <2>5. /\ pc' \in {"record", "saved", "close"} /\ result' \in Results
        /\ (pc' = "record" => Len(heard') < MaxRecord)
    BY <1>4, <1>5, <2>1 DEF Results
  <2> QED BY <1>0, <1>3, <2>1, <2>2, <2>3, <2>4, <2>5
<1>9. CASE HearMore(chunk, TRUE) \/ HearMore(chunk, FALSE)
  <2>1. /\ recorded' = Append(recorded, chunk) /\ Emit(<<chunk>>) /\ prefix' = prefix
        /\ \/ speech' = speech + 1 /\ silence' = 0
           \/ silence' = silence + 1 /\ speech' = speech
        /\ \/ pc' = "saved" /\ result' = result
           \/ ~(Len(heard') >= MaxRecord) /\ UNCHANGED <<pc, result>>
    BY <1>9 DEF HearMore, Saved, GoesOn
  <2>2. recorded' \in Seq(Chunks) /\ <<chunk>> \in Seq(Chunks)
    <3>1. recorded' \in Seq(Chunks)
      BY <1>0, <2>1, AppendIs
    <3>2. <<chunk>> \in Seq(Chunks)
      OBVIOUS
    <3> QED BY <3>1, <3>2
  <2>3. sent' \in Seq(Chunks) /\ broken' \in BOOLEAN
    BY <1>7, <2>1, <2>2
  <2>4. speech' \in Nat /\ silence' \in Nat /\ speech' <= Len(heard') /\ silence' <= Len(heard')
    BY <1>0, <1>2, <2>1
  <2>5. /\ pc' \in {"record", "saved", "close"} /\ result' \in Results
        /\ (pc' = "record" => Len(heard') < MaxRecord)
    BY <1>4, <1>5, <2>1 DEF Results
  <2> QED BY <1>0, <1>3, <2>1, <2>2, <2>3, <2>4, <2>5
<1> QED BY <1>1, <1>6, <1>8, <1>9

LEMMA TypeInit == Init => TypeInv
<1> SUFFICES ASSUME Init PROVE TypeInv
  OBVIOUS
<1>1. /\ <<>> \in Seq(Chunks) /\ Len(<<>>) = 0 /\ 0 <= Cap /\ 0 <= Padding /\ 0 \in 0 .. MaxRecord /\ 0 \in 0 .. MaxChunks
  BY CaptureAssumption DEF CaptureAssumption
<1>2. TypeOK
  BY <1>1 DEF Init, TypeOK
<1>3. BoundOK
  BY DEF Init, BoundOK
<1> QED BY <1>2, <1>3 DEF TypeInv

LEMMA TypeStep == TypeInv /\ [Next]_vars => TypeInv'
<1> SUFFICES ASSUME TypeInv, [Next]_vars PROVE TypeInv'
  OBVIOUS
<1>0. /\ Cap \in Nat /\ <<>> \in Seq(Chunks)
      /\ buffer \in Seq(Chunks) /\ Len(buffer) <= Cap /\ live \in Seq(Chunks) /\ Len(live) <= Cap
      /\ snap \in Seq(Chunks) /\ heard \in Seq(Chunks) /\ recorded \in Seq(Chunks) /\ sent \in Seq(Chunks)
      /\ produced \in 0 .. MaxChunks /\ MaxChunks \in Nat /\ voice \subseteq Chunks /\ routed \subseteq Chunks
  BY CaptureAssumption DEF CaptureAssumption, TypeInv, TypeOK, Results
<1>s. /\ found \subseteq Int /\ capturing \in BOOLEAN /\ broken \in BOOLEAN /\ ordered \in BOOLEAN
      /\ result \in Results
      /\ reader \in {"none", "read", "put", "drop", "block", "dead"}
      /\ pc \in {"idle", "record", "saved", "close", "answered", "cleared", "hung"}
  BY DEF TypeInv, TypeOK, Results, transcript
\* The reader.
<1>1. CASE Read
  <2>1. /\ Produce /\ buffer' = Push(buffer, produced', Cap) /\ reader' = "put"
        /\ UNCHANGED <<setup, live, capturing, pc, snap, recorder, transcript, result, ordered, routed>>
    BY <1>1 DEF Read
  <2>2. /\ produced' \in 0 .. MaxChunks /\ produced' \in Chunks /\ produced' >= 1 /\ voice' \subseteq Chunks
    BY <2>1, ProduceIs
  <2>3. buffer' \in Seq(Chunks) /\ Len(buffer') <= Cap
    BY <1>0, <2>1, <2>2, PushBound
  <2>4. TypeOK'
    BY <2>1, <2>2, <2>3 DEF TypeInv, TypeOK, Results, transcript, recorder
  <2>5. BoundOK'
    BY <2>1, <2>2 DEF TypeInv, BoundOK, recorder
  <2> QED BY <2>4, <2>5 DEF TypeInv
<1>2. CASE CheckCapturing \/ PutFull \/ ReaderEnds \/ UNCHANGED vars
  <2>1. /\ UNCHANGED <<setup, produced, voice, buffer, live, capturing, pc, snap, recorder, transcript, result, ordered, routed>>
        /\ \/ reader' \in {"put", "drop", "block"} /\ reader \in {"put", "drop", "block"}
           \/ reader' = "dead" \/ reader' = reader
    BY <1>2 DEF CheckCapturing, PutFull, ReaderEnds, StreamCloses, vars, source
  <2>2. UNCHANGED <<heard, prefix, recorded, speech, silence, sent, broken>>
    BY <2>1 DEF recorder
  <2> QED BY <1>0, <1>s, <2>1, <2>2, TypeKept DEF Results, transcript
<1>3. CASE PutDropping \/ PutBlocking
  <2>1. /\ UNCHANGED <<setup, produced, voice, buffer, capturing, pc, snap, recorder, transcript, result, ordered, routed>>
        /\ reader \in {"drop", "block"} /\ reader' = "read"
        /\ \/ live' = Push(live, produced, Cap)
           \/ Len(live) < Cap /\ live' = Append(live, produced)
    BY <1>3 DEF PutDropping, PutBlocking, Queued
  <2>2. produced \in Chunks
    <3>1. produced >= 1
      BY <2>1 DEF TypeInv, BoundOK
    <3> QED BY <1>0, <3>1 DEF Chunks
  <2>3. live' \in Seq(Chunks) /\ Len(live') <= Cap
    <3>1. Push(live, produced, Cap) \in Seq(Chunks) /\ Len(Push(live, produced, Cap)) <= Cap
      BY <1>0, <2>2, PushBound
    <3>2. Len(live) < Cap => Append(live, produced) \in Seq(Chunks) /\ Len(Append(live, produced)) <= Cap
      BY <1>0, <2>2
    <3> QED BY <2>1, <3>1, <3>2
  <2>4. TypeOK'
    BY <2>1, <2>3 DEF TypeInv, TypeOK, Results, transcript, recorder
  <2>5. BoundOK'
    BY <2>1 DEF TypeInv, BoundOK, recorder
  <2> QED BY <2>4, <2>5 DEF TypeInv
<1>4. CASE EnsureSource
  <2>1. /\ UNCHANGED <<setup, produced, voice, capturing, pc, snap, recorder, transcript, result, ordered, routed>>
        /\ reader' = "read" /\ buffer' = <<>> /\ live' = <<>>
    BY <1>4 DEF EnsureSource
  <2>2. UNCHANGED <<heard, prefix, recorded, speech, silence, sent, broken>>
    BY <2>1 DEF recorder
  <2> QED BY <1>0, <1>s, <2>1, <2>2, TypeKept DEF Results, transcript
\* The recording begins, ...
<1>5. CASE Open
  <2>1. /\ UNCHANGED <<setup, produced, voice, reader, buffer, routed>> /\ pc' = "record" /\ Fresh
        /\ heard' = <<>> /\ result' = "none" /\ broken' \in ProviderStarts /\ ordered' = Unbroken
        /\ \/ capturing' = TRUE /\ snap' = buffer /\ live' = <<>>
           \/ UNCHANGED <<capturing, snap, live>>
    BY <1>5 DEF Open, Capture
  <2>2. broken' \in BOOLEAN /\ ordered' \in BOOLEAN
    BY <2>1 DEF ProviderStarts, Unbroken
  <2>3. capturing' \in BOOLEAN /\ snap' \in {snap, buffer, <<>>} /\ live' \in {live, <<>>}
    BY <1>s, <2>1
  <2> QED BY <1>0, <1>s, <2>1, <2>2, <2>3, TypeFresh DEF Results, transcript
\* ... hears, ...
<1>6. CASE HearSnapshot
  <2>1. /\ pc = "record" /\ snap # <<>> /\ snap' = Tail(snap) /\ UNCHANGED <<produced, voice, buffer, live>>
        /\ Hear(Head(snap))
    BY <1>6 DEF HearSnapshot
  <2>2. Tail(snap) \in Seq(Chunks) /\ Head(snap) \in Chunks
    BY <1>0, <2>1, TailIs
  <2>3. reader \in {"put", "drop", "block"} => produced' >= 1
    BY <2>1 DEF TypeInv, BoundOK
  <2>4. /\ produced' \in 0 .. MaxChunks /\ voice' \subseteq Chunks /\ buffer' \in Seq(Chunks) /\ Len(buffer') <= Cap
        /\ live' \in Seq(Chunks) /\ Len(live') <= Cap /\ snap' \in Seq(Chunks)
    BY <1>0, <2>1, <2>2
  <2> QED BY <2>1, <2>2, <2>3, <2>4, TypeHear
<1>7. CASE HearLive
  <2>1. /\ pc = "record" /\ live # <<>> /\ live' = Tail(live) /\ buffer' = Push(buffer, Head(live), Cap)
        /\ UNCHANGED <<produced, voice, snap>> /\ Hear(Head(live))
    BY <1>7 DEF HearLive
  <2>2. Tail(live) \in Seq(Chunks) /\ Head(live) \in Chunks /\ Len(Tail(live)) <= Len(live)
    <3>1. Len(Tail(live)) <= Len(live)
      BY <1>0, <2>1
    <3> QED BY <1>0, <2>1, <3>1, TailIs
  <2>3. buffer' \in Seq(Chunks) /\ Len(buffer') <= Cap
    BY <1>0, <2>1, <2>2, PushBound
  <2>4. live' \in Seq(Chunks) /\ Len(live') <= Cap
    BY <1>0, <2>1, <2>2
  <2>5. reader \in {"put", "drop", "block"} => produced' >= 1
    BY <2>1 DEF TypeInv, BoundOK
  <2>6. produced' \in 0 .. MaxChunks /\ voice' \subseteq Chunks /\ snap' \in Seq(Chunks)
    BY <1>0, <2>1
  <2> QED BY <2>1, <2>2, <2>3, <2>4, <2>5, <2>6, TypeHear
<1>8. CASE HearStream
  <2>1. /\ pc = "record" /\ Produce /\ UNCHANGED <<buffer, live, snap>> /\ Hear(produced')
    BY <1>8 DEF HearStream
  <2>2. /\ produced' = produced + 1 /\ produced' \in 0 .. MaxChunks /\ produced' \in Chunks /\ produced' >= 1
        /\ voice' \subseteq Chunks
    BY <2>1, ProduceIs
  <2>3. produced + 1 \in Chunks /\ Hear(produced + 1)
    BY <2>1, <2>2
  <2>4. /\ buffer' \in Seq(Chunks) /\ Len(buffer') <= Cap /\ live' \in Seq(Chunks) /\ Len(live') <= Cap
        /\ snap' \in Seq(Chunks)
    BY <1>0, <2>1
  <2> QED BY <2>1, <2>2, <2>3, <2>4, TypeHear
<1>9. CASE RecordFixed
  <2>1. /\ pc = "record" /\ pc' = "saved" /\ produced' \in produced .. MaxChunks
        /\ \E spoken \in SUBSET ((produced + 1) .. produced') : voice' = voice \union spoken
        /\ heard' = [i \in 1 .. (produced' - produced) |-> produced + i] /\ recorded' = heard'
        /\ UNCHANGED <<setup, reader, buffer, live, capturing, snap, prefix, speech, silence, sent, broken, transcript,
                       result, ordered, routed>>
    BY <1>9 DEF RecordFixed, Saved
  <2>2. /\ produced' \in 0 .. MaxChunks /\ produced' - produced \in Nat
        /\ \A i \in 1 .. (produced' - produced) : produced + i \in 1 .. MaxChunks
        /\ (produced + 1) .. produced' \subseteq 1 .. MaxChunks
        /\ (produced >= 1 => produced' >= 1)
    <3>1. \A p \in 0 .. MaxChunks : \A q \in p .. MaxChunks :
             /\ q \in 0 .. MaxChunks /\ q - p \in Nat /\ (p >= 1 => q >= 1)
             /\ (\A i \in 1 .. (q - p) : p + i \in 1 .. MaxChunks) /\ (p + 1) .. q \subseteq 1 .. MaxChunks
      BY <1>0
    <3> QED BY <1>0, <2>1, <3>1
  <2>3. voice' \subseteq Chunks
    BY <1>0, <2>1, <2>2 DEF Chunks
  <2>4. heard' \in Seq(Chunks)
    <3> DEFINE n == produced' - produced
    <3>1. n \in Nat /\ \A i \in 1 .. n : produced + i \in Chunks
      BY <2>2 DEF Chunks
    <3>2. heard' = [i \in 1 .. n |-> produced + i]
      BY <2>1
    <3> HIDE DEF n
    <3> QED BY <3>1, <3>2
  <2>5. TypeOK'
    BY <2>1, <2>2, <2>3, <2>4 DEF TypeInv, TypeOK, Results, transcript
  <2>6. BoundOK'
    BY <2>1, <2>2 DEF TypeInv, BoundOK
  <2> QED BY <2>5, <2>6 DEF TypeInv
<1>10. CASE SourceEnds \/ StreamEnds \/ Hangs
  <2>1. /\ UNCHANGED <<setup, source, capturing, snap, recorder, transcript, ordered, routed>>
        /\ pc' \in {"close", "saved", "hung"} /\ result' \in {result, "no_speech"}
    BY <1>10 DEF SourceEnds, StreamEnds, Hangs, Ended, Saved
  <2>2. /\ UNCHANGED <<heard, prefix, recorded, speech, silence, sent, broken>>
        /\ UNCHANGED <<produced, voice, reader, buffer, live>>
    BY <2>1 DEF recorder, source
  <2> QED BY <1>0, <1>s, <2>1, <2>2, TypeKept DEF Results, transcript
\* ... gives a text, ...
<1>11. CASE FinishOk \/ Transcribe
  <2>1. /\ UNCHANGED <<setup, source, capturing, snap, recorder, ordered, routed>> /\ pc' = "close"
        /\ result' \in Results
        /\ \/ text' = sent /\ found' = found
           \/ \E frames \in Detectable(recorded) \ {{}} : text' = Trimmed(recorded, frames) /\ found' = Places(frames)
    BY <1>11 DEF FinishOk, Transcribe, Answer, Results
  <2>2. ASSUME NEW f \in Detectable(recorded) \ {{}} PROVE Trimmed(recorded, f) \in Seq(Chunks) /\ Places(f) \subseteq Int
    <3>1. DOMAIN recorded = 1 .. Len(recorded) /\ Len(recorded) \in Nat /\ Len(heard) \in Nat
      BY <1>0
    <3>2. f \subseteq 1 .. Len(recorded) /\ f # {}
      BY <3>1 DEF Detectable
    <3>3. Min(f) \in 1 .. Len(recorded) /\ Max(f) \in 1 .. Len(recorded)
      BY <3>1, <3>2, ExtremesExist
    <3>4. Min(f) \in Nat \ {0} /\ Max(f) \in Nat /\ Max(f) <= Len(recorded)
      BY <3>1, <3>3
    <3>5. SubSeq(recorded, Min(f), Max(f)) \in Seq(Chunks)
      BY <1>0, <3>4, PartOf
    <3>6. Places(f) \subseteq Int
      BY <3>1, <3>2 DEF Places
    <3> QED BY <3>5, <3>6 DEF Trimmed, Span
  <2>3. text' \in Seq(Chunks) /\ found' \subseteq Int
    BY <1>0, <1>s, <2>1, <2>2
  <2>4. /\ UNCHANGED <<heard, prefix, recorded, speech, silence, sent, broken>>
        /\ UNCHANGED <<produced, voice, reader, buffer, live>>
    BY <2>1 DEF recorder, source
  <2>5. TypeOK'
    BY <2>1, <2>3, <2>4 DEF TypeInv, TypeOK, Results, transcript
  <2>6. BoundOK'
    BY <2>1, <2>4 DEF TypeInv, BoundOK
  <2> QED BY <2>5, <2>6 DEF TypeInv
<1>12. CASE FinishFails \/ TranscribeNothing \/ RecordFails \/ TranscribeFails
  <2>1. /\ UNCHANGED <<setup, source, capturing, snap, routed>> /\ pc' = "close" /\ heard' = <<>> /\ Fresh
        /\ broken' = FALSE /\ ordered' = TRUE /\ result' \in {"failed", "no_speech"}
    BY <1>12 DEF FinishFails, TranscribeNothing, RecordFails, TranscribeFails, Fails, ForgetAll, Forget
  <2> QED BY <1>0, <1>s, <2>1, TypeFresh DEF Results, source, transcript
\* ... and is over.
<1>13. CASE Close
  <2>1. /\ UNCHANGED <<setup, source, routed>> /\ pc' \in {"answered", "idle"} /\ heard' \in {heard, <<>>} /\ Fresh
        /\ snap' = <<>> /\ capturing' = FALSE /\ broken' = FALSE /\ ordered' \in {ordered, TRUE} /\ result' = "none"
    BY <1>13 DEF Close, ForgetAll, Forget
  <2>2. ordered' \in BOOLEAN
    BY <1>s, <2>1
  <2> QED BY <1>0, <2>1, <2>2, TypeFresh DEF Results, source, transcript
<1>14. CASE Ignore
  <2>1. /\ UNCHANGED <<setup, source, capturing, snap, result, routed>> /\ pc' = "idle" /\ heard' = <<>> /\ Fresh
        /\ broken' = FALSE /\ ordered' = TRUE
    BY <1>14 DEF Ignore, ForgetAll, Forget
  <2> QED BY <1>0, <1>s, <2>1, TypeFresh DEF Results, source, transcript
<1>15. CASE ClearBuffer
  <2>1. /\ UNCHANGED <<setup, produced, voice, reader, live, capturing, snap, recorder, transcript, result, ordered, routed>>
        /\ buffer' = <<>> /\ pc' = "cleared"
    BY <1>15 DEF ClearBuffer
  <2>2. UNCHANGED <<heard, prefix, recorded, speech, silence, sent, broken>>
    BY <2>1 DEF recorder
  <2> QED BY <1>0, <1>s, <2>1, <2>2, TypeKept DEF Results, transcript
<1>16. CASE ClearQueue
  <2>1. /\ UNCHANGED <<setup, produced, voice, reader, buffer, capturing, snap, result>> /\ pc' = "idle" /\ live' = <<>>
        /\ routed' = routed \union (ToSet(heard) \ InHand) /\ heard' = <<>> /\ Fresh /\ broken' = FALSE
        /\ ordered' = TRUE
    BY <1>16 DEF ClearQueue, ForgetAll, Forget
  <2>2. routed' \subseteq Chunks
    BY <1>0, <2>1, ToSetIs
  <2> QED BY <1>0, <1>s, <2>1, <2>2, TypeFresh DEF Results, transcript
<1> QED BY <1>1, <1>2, <1>3, <1>4, <1>5, <1>6, <1>7, <1>8, <1>9, <1>10, <1>11, <1>12, <1>13, <1>14, <1>15, <1>16
        DEF Next, Reader, Recording

\* The pre-roll, the queue and the padding keep their bounds and no recording counts
\* more chunks than its limit, for any of these sizes (preroll_audio.py: the two
\* deques; endpointing.py: record).
THEOREM TypesHold == Spec => []TypeOK
<1>1. TypeInv => TypeOK
  BY DEF TypeInv
<1> QED BY <1>1, TypeInit, TypeStep, PTL DEF Spec
=============================================================================
