----------------------------- MODULE WakeProofs -----------------------------
(***************************************************************************)
(* Theorems about the wake loop and the playback files, for every number   *)
(* of speaking processes, every staleness, window and number of turns.     *)
(***************************************************************************)
EXTENDS Wake, FiniteSetTheorems, TLAPS

-----------------------------------------------------------------------------
(***************************************************************************)
(* The playback files.                                                     *)
(***************************************************************************)

\* A set of marker files: every one belongs to a process and is not older than stale.
IsFiles(f) == /\ DOMAIN f \subseteq 1 .. MaxPlays
              /\ \A i \in DOMAIN f : f[i] \in [left : 0 .. StaleTicks, owner : Procs]

\* A process that speaks has a playback of its own, which was begun.
PlaybackInv == PlaybackTypeOK /\ \A p \in Procs : spk[p] # "idle" => playback[p] \in 1 .. plays

\* What one process, the clock or a reader of the state does to the files.
PlaybackStep ==
    \/ UNCHANGED pvars
    \/ (\E state \in HalfSynced : Leaves(state)) /\ UNCHANGED <<spk, playback, plays>>
    \/ markers' = Aged(markers) /\ UNCHANGED <<json, spk, playback, plays>>
    \/ \E p \in Procs : StartSpeak(p) \/ SpeakerStep(p) \/ (spk[p] # "idle" /\ Dies(p))
    \/ /\ Killed(WakeProcess, Halfway(WakeProcess) \union HalfSynced)
       /\ Goto(WakeProcess, "idle") /\ UNCHANGED plays

\* The count that is written is a number: there are finitely many files.
LEMMA FilesCount ==
    ASSUME NEW f, IsFiles(f) PROVE Cardinality(DOMAIN f) \in Nat
<1>1. IsFiniteSet(1 .. MaxPlays)
  BY FS_Interval, PlaybackAssumption
<1>2. IsFiniteSet(DOMAIN f)
  BY <1>1, FS_Subset DEF IsFiles
<1> QED BY <1>2, FS_CardinalityType

\* Leaving files out keeps the others as they are.
LEMMA RestrictFiles ==
    ASSUME NEW f, IsFiles(f), NEW S \in SUBSET DOMAIN f
    PROVE  IsFiles(Restrict(f, S)) /\ DOMAIN Restrict(f, S) = S
BY DEF IsFiles, Restrict

LEMMA OrphanedFiles ==
    ASSUME NEW f, IsFiles(f), NEW p
    PROVE  IsFiles(Orphaned(f, p)) /\ DOMAIN Orphaned(f, p) = DOMAIN f
<1>1. DOMAIN Orphaned(f, p) = DOMAIN f
  BY DEF Orphaned
<1>2. ASSUME NEW i \in DOMAIN f PROVE Orphaned(f, p)[i] \in [left : 0 .. StaleTicks, owner : Procs]
  <2>1. f[i] \in [left : 0 .. StaleTicks, owner : Procs] /\ 0 \in 0 .. StaleTicks
    BY PlaybackAssumption DEF IsFiles
  <2> QED BY <2>1 DEF Orphaned
<1> QED BY <1>1, <1>2 DEF IsFiles

LEMMA ExitFiles ==
    ASSUME NEW f, IsFiles(f), NEW p
    PROVE  IsFiles(Exit(f, p)) /\ DOMAIN Exit(f, p) = DOMAIN f
BY OrphanedFiles DEF Exit

LEMMA AgedFiles ==
    ASSUME NEW f, IsFiles(f)
    PROVE  IsFiles(Aged(f)) /\ DOMAIN Aged(f) = DOMAIN f
<1>1. DOMAIN Aged(f) = DOMAIN f
  BY DEF Aged
<1>2. ASSUME NEW i \in DOMAIN f PROVE Aged(f)[i] \in [left : 0 .. StaleTicks, owner : Procs]
  <2>1. f[i] \in [left : 0 .. StaleTicks, owner : Procs]
    BY DEF IsFiles
  <2>2. (IF f[i].left = 0 THEN 0 ELSE f[i].left - 1) \in 0 .. StaleTicks
    BY <2>1, PlaybackAssumption
  <2> QED BY <2>1, <2>2 DEF Aged
<1> QED BY <1>1, <1>2 DEF IsFiles

LEMMA WithMarkerFiles ==
    ASSUME PlaybackTypeOK, NEW p \in Procs, playback[p] \in 1 .. MaxPlays
    PROVE  /\ IsFiles(WithMarker(p))
           /\ DOMAIN WithMarker(p) = Fresh \union {playback[p]}
<1>1. Fresh \subseteq DOMAIN markers /\ IsFiles(markers) /\ StaleTicks \in 0 .. StaleTicks
  BY PlaybackAssumption DEF Fresh, PlaybackTypeOK, IsFiles
<1> QED BY <1>1 DEF WithMarker, IsFiles

\* What can be removed: what has expired, or what its own speech removes at its end.
LEMMA FreshFiles ==
    ASSUME PlaybackTypeOK
    PROVE  /\ IsFiles(markers) /\ Fresh \in SUBSET DOMAIN markers
           /\ Generation \in Nat
           /\ \A i \in DOMAIN markers \ Fresh : markers[i].left = 0
           /\ Cardinality(Fresh) \in Nat
<1>1. IsFiles(markers) /\ Fresh \in SUBSET DOMAIN markers
  BY DEF PlaybackTypeOK, IsFiles, Fresh
<1>2. Generation \in Nat
  BY DEF PlaybackTypeOK, Generation
<1>3. \A i \in DOMAIN markers \ Fresh : markers[i].left = 0
  BY PlaybackAssumption DEF PlaybackTypeOK, Fresh
<1>4. Cardinality(Fresh) \in Nat
  BY <1>1, RestrictFiles, FilesCount
<1> QED BY <1>1, <1>2, <1>3, <1>4

\* A process that goes on or goes away has a state and a playback of its own.
LEMMA GotoType ==
    ASSUME PlaybackInv, NEW p \in Procs, NEW state \in SpeakStates,
           state = "idle" \/ spk[p] # "idle", Goto(p, state), plays' = plays,
           IsFiles(markers'), json' \in [count : Nat, generation : Nat]
    PROVE  PlaybackInv'
<1>1. /\ spk \in [Procs -> SpeakStates] /\ playback \in [Procs -> 0 .. MaxPlays]
      /\ plays \in 0 .. MaxPlays
  BY DEF PlaybackInv, PlaybackTypeOK
<1>2. /\ spk' \in [Procs -> SpeakStates] /\ playback' \in [Procs -> 0 .. MaxPlays]
      /\ \A q \in Procs : /\ spk'[q] = IF q = p THEN state ELSE spk[q]
                          /\ playback'[q] = IF q = p /\ state = "idle" THEN 0 ELSE playback[q]
  BY <1>1, PlaybackAssumption DEF Goto
<1>3. \A q \in Procs : spk'[q] # "idle" => playback'[q] \in 1 .. plays
  BY <1>2 DEF PlaybackInv
<1> QED BY <1>1, <1>2, <1>3 DEF PlaybackInv, PlaybackTypeOK, IsFiles

\* What a step of one of the operations that only reads, fails or is killed leaves: what is
\* heard was heard, what is gone had expired or was the process's own to remove, and
\* playback.json is the old one, or counts what was heard.
Keeps(state, p) ==
    /\ state = [files |-> state.files, json |-> state.json]
    /\ IsFiles(state.files)
    /\ state.json \in {json, Synced.json}
    /\ \A i \in DOMAIN state.files : state.files[i].left > 0 => i \in Fresh
    /\ \A i \in DOMAIN markers \ DOMAIN state.files :
          markers[i].left = 0 \/ (spk[p] = "finish" /\ playback[p] = i)

LEMMA SyncedIs ==
    ASSUME PlaybackTypeOK
    PROVE  /\ Synced = [files |-> Restrict(markers, Fresh), json |-> Synced.json]
           /\ Synced.json = [count |-> Cardinality(Fresh), generation |-> Generation]
           /\ Synced.json \in [count : Nat, generation : Nat]
<1>1. DOMAIN Restrict(markers, Fresh) = Fresh /\ Cardinality(Fresh) \in Nat /\ Generation \in Nat
  BY FreshFiles, RestrictFiles
<1> QED BY <1>1 DEF Synced, Written

\* A part of the files, with all that is heard or all but the process's own.
LEMMA PartKeeps ==
    ASSUME PlaybackTypeOK, NEW p \in Procs, NEW kept \in SUBSET DOMAIN markers,
           \A i \in Fresh \ kept : spk[p] = "finish" /\ playback[p] = i,
           NEW j \in {json, Synced.json}
    PROVE  Keeps([files |-> Restrict(markers, kept), json |-> j], p)
<1>1. IsFiles(Restrict(markers, kept)) /\ DOMAIN Restrict(markers, kept) = kept
  BY FreshFiles, RestrictFiles
<1>2. \A i \in kept : Restrict(markers, kept)[i] = markers[i]
  BY DEF Restrict
<1>3. \A i \in DOMAIN markers \ Fresh : markers[i].left = 0
  BY FreshFiles
<1> QED BY <1>1, <1>2, <1>3 DEF Keeps, Fresh

LEMMA UntouchedKeeps ==
    ASSUME PlaybackTypeOK, NEW p \in Procs PROVE Keeps(Untouched, p)
BY FreshFiles DEF Keeps, Untouched, Fresh

\* A sync, whole or cut short.
LEMMA SyncKeeps ==
    ASSUME PlaybackTypeOK, NEW p \in Procs, NEW state \in HalfSynced
    PROVE  Keeps(state, p)
<1>1. Fresh \in SUBSET DOMAIN markers
  BY FreshFiles
<1>2. CASE state = Synced
  BY <1>1, <1>2, SyncedIs, PartKeeps
<1>3. CASE state \in Pruned
  <2>1. PICK kept \in SUBSET DOMAIN markers :
            /\ Fresh \subseteq kept
            /\ state = [files |-> Restrict(markers, kept), json |-> json]
    BY <1>3 DEF Pruned, Untouched
  <2> QED BY <2>1, PartKeeps
<1> QED BY <1>2, <1>3 DEF HalfSynced

\* mark_finished cut short.
LEMMA FinishKeeps ==
    ASSUME PlaybackTypeOK, NEW p \in Procs, spk[p] = "finish", NEW state \in HalfFinished(p)
    PROVE  Keeps(state, p)
<1>1. Others(p) \in SUBSET DOMAIN markers /\ \A i \in Fresh \ Others(p) : playback[p] = i
  BY FreshFiles DEF Others
<1>2. [Synced EXCEPT !.files = Restrict(markers, Others(p))]
          = [files |-> Restrict(markers, Others(p)), json |-> Synced.json]
  BY SyncedIs
<1>3. state \in HalfSynced \/ state = [Synced EXCEPT !.files = Restrict(markers, Others(p))]
  BY DEF HalfFinished
<1> QED BY <1>1, <1>2, <1>3, PartKeeps, SyncKeeps

\* The process that leaves such a state is gone.
LEMMA GoneKeeps ==
    ASSUME NEW p \in Procs, NEW q \in Procs, NEW state, Keeps(state, p)
    PROVE  /\ Keeps([state EXCEPT !.files = Orphaned(@, q)], p)
           /\ Keeps([state EXCEPT !.files = Exit(@, q)], p)
<1>1. IsFiles(state.files) /\ state = [files |-> state.files, json |-> state.json]
  BY DEF Keeps
<1>2. /\ IsFiles(Orphaned(state.files, q)) /\ DOMAIN Orphaned(state.files, q) = DOMAIN state.files
      /\ \A i \in DOMAIN state.files :
            Orphaned(state.files, q)[i].left > 0 => state.files[i].left > 0
  BY <1>1, OrphanedFiles DEF Orphaned, IsFiles
<1>3. [state EXCEPT !.files = Orphaned(@, q)] = [files |-> Orphaned(state.files, q), json |-> state.json]
  BY <1>1
<1>4. Keeps([files |-> Orphaned(state.files, q), json |-> state.json], p)
  BY <1>2 DEF Keeps
<1>5. [state EXCEPT !.files = Exit(@, q)]
          \in {state, [files |-> Orphaned(state.files, q), json |-> state.json]}
  BY <1>1 DEF Exit
<1> QED BY <1>3, <1>4, <1>5

\* mark_started cut short: the marker may be there, and is nobody's when its process dies.
LEMMA MarkKeeps ==
    ASSUME PlaybackInv, NEW p \in Procs, spk[p] = "mark", NEW state \in HalfMarked(p)
    PROVE  /\ \/ Keeps(state, p)
              \/ state = [files |-> WithMarker(p), json |-> Synced.json]
           /\ Keeps([state EXCEPT !.files = Orphaned(@, p)], p)
<1>1. PlaybackTypeOK /\ playback[p] \in 1 .. MaxPlays /\ Fresh \in SUBSET DOMAIN markers
  BY FreshFiles, PlaybackAssumption DEF PlaybackInv, PlaybackTypeOK
<1>2. CASE state \in HalfSynced
  BY <1>1, <1>2, SyncKeeps, GoneKeeps
<1>3. CASE state = [Synced EXCEPT !.files = WithMarker(p)]
  <2> DEFINE f == WithMarker(p)
             gone == Orphaned(f, p)
  <2>1. state = [files |-> f, json |-> Synced.json]
    BY <1>1, <1>3, SyncedIs
  <2>2. IsFiles(f) /\ DOMAIN f = Fresh \union {playback[p]} /\ f[playback[p]].owner = p
    BY <1>1, WithMarkerFiles DEF WithMarker
  <2> HIDE DEF f
  <2>3. IsFiles(gone) /\ DOMAIN gone = Fresh \union {playback[p]} /\ gone[playback[p]].left = 0
    BY <1>1, <2>2, OrphanedFiles DEF Orphaned, IsFiles
  <2> HIDE DEF gone
  <2>4. \A i \in DOMAIN markers \ Fresh : markers[i].left = 0
    BY <1>1, FreshFiles
  <2>5. Keeps([files |-> gone, json |-> Synced.json], p)
    BY <2>3, <2>4 DEF Keeps
  <2>6. [state EXCEPT !.files = Orphaned(@, p)] = [files |-> gone, json |-> Synced.json]
    BY <2>1 DEF gone
  <2> QED BY <2>1, <2>5, <2>6 DEF f
<1> QED BY <1>2, <1>3 DEF HalfMarked

\* Which files may be gone after a step.
Removed == \A i \in DOMAIN markers \ DOMAIN markers' :
               \/ markers[i].left = 0
               \/ \E p \in Procs : spk[p] = "finish" /\ playback[p] = i

LEMMA KeptFiles ==
    ASSUME PlaybackTypeOK, NEW p \in Procs, NEW state, Keeps(state, p), Leaves(state)
    PROVE  IsFiles(markers') /\ json' \in [count : Nat, generation : Nat] /\ Removed
BY SyncedIs DEF Keeps, Leaves, Removed, PlaybackTypeOK

\* What the operations that succeed write.
LEMMA MarkedFiles ==
    ASSUME PlaybackInv, NEW p \in Procs, spk[p] = "mark", NEW j \in [count : Nat, generation : Nat],
           Leaves([files |-> WithMarker(p), json |-> j])
    PROVE  IsFiles(markers') /\ json' \in [count : Nat, generation : Nat] /\ Removed
<1>1. PlaybackTypeOK /\ playback[p] \in 1 .. MaxPlays
  BY PlaybackAssumption DEF PlaybackInv, PlaybackTypeOK
<1> QED BY <1>1, WithMarkerFiles, FreshFiles DEF Leaves, Removed

LEMMA FinishedFiles ==
    ASSUME PlaybackInv, NEW p \in Procs, spk[p] = "finish", NEW generation \in Nat,
           Returns(p, Written(Restrict(markers, Others(p)), generation))
    PROVE  /\ IsFiles(markers') /\ json' \in [count : Nat, generation : Nat] /\ Removed
           /\ DOMAIN markers' = Others(p)
           /\ json' = [count |-> Cardinality(Others(p)), generation |-> generation]
           /\ \A i \in DOMAIN markers' : markers'[i].left > 0 => i \in Fresh
<1> DEFINE f == Restrict(markers, Others(p))
           j == [count |-> Cardinality(Others(p)), generation |-> generation]
<1>1. /\ PlaybackTypeOK /\ Others(p) \in SUBSET DOMAIN markers /\ Others(p) \subseteq Fresh
      /\ \A i \in Fresh \ Others(p) : playback[p] = i
      /\ \A i \in DOMAIN markers \ Fresh : markers[i].left = 0
  BY FreshFiles DEF PlaybackInv, Others
<1>2. IsFiles(f) /\ DOMAIN f = Others(p)
  BY <1>1, FreshFiles, RestrictFiles
<1>3. Written(f, generation) = [files |-> f, json |-> j] /\ j \in [count : Nat, generation : Nat]
  BY <1>2, FilesCount DEF Written
<1> HIDE DEF f, j
<1>4. IsFiles(Exit(f, p)) /\ DOMAIN Exit(f, p) = Others(p)
  BY <1>2, ExitFiles
<1>5. json' = j /\ markers' \in {f, Exit(f, p)}
  BY <1>3 DEF Returns, Leaves, f
<1> QED BY <1>1, <1>2, <1>3, <1>4, <1>5 DEF Removed, j

LEMMA SpeakerStepFiles ==
    ASSUME PlaybackInv, NEW p \in Procs, SpeakerStep(p)
    PROVE  PlaybackInv' /\ Removed
<1>1. PlaybackTypeOK /\ json \in [count : Nat, generation : Nat] /\ Generation \in Nat
  BY FreshFiles DEF PlaybackInv, PlaybackTypeOK
<1>2. ASSUME NEW state, Keeps(state, p), Returns(p, state), spk[p] # "idle", plays' = plays
      PROVE  PlaybackInv' /\ Removed
  <2>1. PICK next \in {"log", "idle"} :
            Goto(p, next) /\ (Leaves(state) \/ Leaves([state EXCEPT !.files = Exit(@, p)]))
    BY <1>2 DEF Returns
  <2>2. IsFiles(markers') /\ json' \in [count : Nat, generation : Nat] /\ Removed
    BY <1>1, <1>2, <2>1, KeptFiles, GoneKeeps
  <2> QED BY <1>2, <2>1, <2>2, GotoType DEF SpeakStates
<1>3. CASE Synthesized(p)
  BY <1>1, <1>3, GotoType, FreshFiles DEF Synthesized, SpeakStates, Removed
<1>4. CASE MarkStarted(p)
  <2>1. Cardinality(DOMAIN WithMarker(p)) \in Nat
    <3>1. playback[p] \in 1 .. MaxPlays
      BY <1>4, PlaybackAssumption DEF MarkStarted, PlaybackInv, PlaybackTypeOK
    <3> QED BY <1>1, <3>1, WithMarkerFiles, FilesCount
  <2>2. IsFiles(markers') /\ json' \in [count : Nat, generation : Nat] /\ Removed
    BY <1>1, <1>4, <2>1, MarkedFiles DEF MarkStarted, Written
  <2> QED BY <1>4, <2>2, GotoType DEF MarkStarted, SpeakStates
<1>5. CASE MarkUnavailable(p)
  <2>1. PICK state \in HalfMarked(p) : Leaves(state)
    BY <1>5 DEF MarkUnavailable
  <2>2. IsFiles(markers') /\ json' \in [count : Nat, generation : Nat] /\ Removed
    BY <1>1, <1>5, <2>1, MarkKeeps, KeptFiles, MarkedFiles, SyncedIs DEF MarkUnavailable
  <2> QED BY <1>5, <2>2, GotoType DEF MarkUnavailable, SpeakStates
<1>6. CASE PlayEnds(p)
  <2>1. CASE Goto(p, "finish") /\ Leaves(Untouched)
    BY <1>1, <1>6, <2>1, UntouchedKeeps, KeptFiles, GotoType DEF PlayEnds, Speaking, SpeakStates
  <2>2. CASE Returns(p, Untouched)
    BY <1>1, <1>2, <1>6, <2>2, UntouchedKeeps DEF PlayEnds, Speaking
  <2> QED BY <1>6, <2>1, <2>2 DEF PlayEnds
<1>7. CASE MarkFinished(p)
  <2> DEFINE g == IF playback[p] \in Fresh /\ Others(p) = {} THEN Generation + 1 ELSE Generation
  <2>1. g \in Nat /\ Returns(p, Written(Restrict(markers, Others(p)), g))
    BY <1>1, <1>7 DEF MarkFinished
  <2> HIDE DEF g
  <2>2. IsFiles(markers') /\ json' \in [count : Nat, generation : Nat] /\ Removed
    BY <1>7, <2>1, FinishedFiles DEF MarkFinished
  <2>3. PICK next \in {"log", "idle"} : Goto(p, next)
    BY <2>1 DEF Returns
  <2> QED BY <1>7, <2>2, <2>3, GotoType DEF MarkFinished, SpeakStates
<1>8. CASE FinishUnavailable(p)
  BY <1>1, <1>2, <1>8, FinishKeeps DEF FinishUnavailable
<1>9. CASE Logged(p)
  <2>1. PICK state \in HalfSynced : Leaves([state EXCEPT !.files = Exit(@, p)])
    BY <1>9 DEF Logged
  <2>2. IsFiles(markers') /\ json' \in [count : Nat, generation : Nat] /\ Removed
    BY <1>1, <2>1, SyncKeeps, GoneKeeps, KeptFiles
  <2> QED BY <1>9, <2>2, GotoType DEF Logged, SpeakStates
<1> QED BY <1>3, <1>4, <1>5, <1>6, <1>7, <1>8, <1>9 DEF SpeakerStep

\* A process is killed: between its operations, or inside the one that comes next.
LEMMA KilledKeeps ==
    ASSUME PlaybackInv, NEW p \in Procs, Killed(p, Halfway(p) \union HalfSynced)
    PROVE  \E state : Keeps(state, p) /\ Leaves(state)
<1>1. PlaybackTypeOK
  BY DEF PlaybackInv
<1>2. PICK state \in Halfway(p) \union HalfSynced : Leaves([state EXCEPT !.files = Orphaned(@, p)])
  BY DEF Killed
<1>3. CASE state = Untouched \/ state \in HalfSynced
  BY <1>1, <1>2, <1>3, UntouchedKeeps, SyncKeeps, GoneKeeps
<1>4. CASE spk[p] = "mark" /\ state \in HalfMarked(p)
  BY <1>2, <1>4, MarkKeeps
<1>5. CASE spk[p] = "finish" /\ state \in HalfFinished(p)
  BY <1>1, <1>2, <1>5, FinishKeeps, GoneKeeps
<1> QED BY <1>2, <1>3, <1>4, <1>5 DEF Halfway

LEMMA DiesIsKilled ==
    ASSUME NEW p \in Procs, Dies(p)
    PROVE  Killed(p, Halfway(p) \union HalfSynced) /\ Goto(p, "idle") /\ UNCHANGED plays
BY DEF Dies, Killed

LEMMA KilledFiles ==
    ASSUME PlaybackInv, NEW p \in Procs, Killed(p, Halfway(p) \union HalfSynced),
           Goto(p, "idle"), plays' = plays
    PROVE  PlaybackInv' /\ Removed
<1>1. PICK state : Keeps(state, p) /\ Leaves(state)
  BY KilledKeeps
<1>2. IsFiles(markers') /\ json' \in [count : Nat, generation : Nat] /\ Removed
  BY <1>1, KeptFiles DEF PlaybackInv
<1> QED BY <1>2, GotoType DEF SpeakStates

LEMMA PlaybackStepFiles ==
    ASSUME PlaybackInv, PlaybackStep
    PROVE  PlaybackInv' /\ Removed
<1>1. /\ IsFiles(markers) /\ json \in [count : Nat, generation : Nat] /\ PlaybackTypeOK
  BY FreshFiles DEF PlaybackInv, PlaybackTypeOK
<1>2. CASE UNCHANGED pvars
  BY <1>2 DEF pvars, PlaybackInv, PlaybackTypeOK, Removed
<1>3. CASE (\E state \in HalfSynced : Leaves(state)) /\ UNCHANGED <<spk, playback, plays>>
  <2>1. IsFiles(markers') /\ json' \in [count : Nat, generation : Nat] /\ Removed
    <3>1. PICK state \in HalfSynced : Leaves(state)
      BY <1>3
    <3>2. Keeps(state, WakeProcess) /\ WakeProcess \in Procs
      BY <1>1, SyncKeeps DEF Procs
    <3> QED BY <1>1, <3>1, <3>2, KeptFiles
  <2> QED BY <1>1, <1>3, <2>1 DEF PlaybackInv, PlaybackTypeOK, IsFiles
<1>4. CASE markers' = Aged(markers) /\ UNCHANGED <<json, spk, playback, plays>>
  <2>1. IsFiles(markers') /\ DOMAIN markers' = DOMAIN markers
    BY <1>1, <1>4, AgedFiles
  <2> QED BY <1>4, <2>1 DEF PlaybackInv, PlaybackTypeOK, IsFiles, Removed
<1>5. ASSUME NEW p \in Procs, StartSpeak(p) PROVE PlaybackInv' /\ Removed
  <2>1. /\ spk \in [Procs -> SpeakStates] /\ playback \in [Procs -> 0 .. MaxPlays]
        /\ plays \in 0 .. MaxPlays /\ MaxPlays \in Nat /\ plays < MaxPlays
    BY <1>5, PlaybackAssumption DEF PlaybackInv, PlaybackTypeOK, StartSpeak
  <2>2. plays' = plays + 1 /\ plays + 1 \in 1 .. MaxPlays
    BY <1>5, <2>1 DEF StartSpeak
  <2>3. /\ spk' \in [Procs -> SpeakStates] /\ playback' \in [Procs -> 0 .. MaxPlays]
        /\ \A q \in Procs : q # p => spk'[q] = spk[q] /\ playback'[q] = playback[q]
        /\ playback'[p] = plays + 1
    BY <1>5, <2>1, <2>2 DEF StartSpeak, SpeakStates
  <2>4. \A q \in Procs : spk'[q] # "idle" => playback'[q] \in 1 .. plays'
    BY <2>1, <2>2, <2>3 DEF PlaybackInv
  <2> QED BY <1>1, <1>5, <2>1, <2>2, <2>3, <2>4
       DEF StartSpeak, PlaybackInv, PlaybackTypeOK, Removed
<1>6. WakeProcess \in Procs
  BY DEF Procs
<1> QED BY <1>2, <1>3, <1>4, <1>5, <1>6, SpeakerStepFiles, DiesIsKilled, KilledFiles DEF PlaybackStep

\* Every step of the wake loop and of its environment is one of those on the files.
LEMMA NextPlayback == ASSUME [Next]_vars PROVE PlaybackStep
<1>1. CASE LoopTop \/ TriggerFails \/ SendFails \/ IntentsRefused \/ WakeDies
  <2>1. ASSUME NEW states, states \subseteq Halfway(WakeProcess) \union HalfSynced,
               ExitWith(Killed(WakeProcess, states))
        PROVE  PlaybackStep
    BY <2>1 DEF ExitWith, Killed, PlaybackStep
  <2>2. ASSUME Leave \/ WakeDies PROVE PlaybackStep
    <3>1. /\ {Untouched} \subseteq Halfway(WakeProcess) \union HalfSynced
          /\ Halfway(WakeProcess) \subseteq Halfway(WakeProcess) \union HalfSynced
          /\ HalfSynced \subseteq Halfway(WakeProcess) \union HalfSynced
      BY DEF Halfway
    <3> QED BY <2>1, <2>2, <3>1 DEF Leave, WakeDies
  <2> QED BY <1>1, <2>2 DEF LoopTop, TriggerFails, SendFails, IntentsRefused, PlaybackStep
<1>2. CASE Look \/ Skip \/ ArmedTop \/ GenerationRead \/ GenerationUnavailable \/ ArmFollowup
  <2>1. Snapshot \/ SnapshotFails => \E state \in HalfSynced : Leaves(state)
    BY DEF Snapshot, SnapshotFails, HalfSynced
  <2>2. /\ Snapshot \/ SnapshotFails \/ UNCHANGED <<markers, json>>
        /\ UNCHANGED <<spk, playback, plays>>
    BY <1>2 DEF Look, CheckPlayback, Skip, ArmedTop, CheckArmed, GenerationRead, CheckGeneration,
                GenerationUnavailable, ArmFollowup, Arm
  <2> QED BY <2>1, <2>2 DEF PlaybackStep, pvars
<1>3. CASE RouteLocal
  BY <1>3 DEF RouteLocal, PlaybackStep, Procs
<1>4. CASE \/ TriggerTimeout \/ ListenFails \/ (\E u \in Utterances : Heard(u)) \/ LocalSpoken
           \/ Answered \/ RouteDiscord \/ Trigger \/ MicFails \/ Restart
  BY <1>4 DEF TriggerTimeout, ListenFails, Heard, LocalSpoken, Answered, RouteDiscord, Trigger,
              MicFails, Restart, PlaybackStep
<1>5. CASE OtherProcesses
  BY <1>5 DEF OtherProcesses, PlaybackStep, Procs
<1>6. CASE Tick
  BY <1>6 DEF Tick, PlaybackStep
<1>7. CASE UNCHANGED vars
  BY <1>7 DEF vars, PlaybackStep
<1> QED BY <1>1, <1>2, <1>3, <1>4, <1>5, <1>6, <1>7 DEF Next, Loop

LEMMA PlaybackInvInit == PlaybackInit => PlaybackInv
<1>1. IsFiniteSet({}) /\ 0 \in 0 .. MaxPlays
  BY FS_EmptySet, PlaybackAssumption
<1> QED BY <1>1 DEF PlaybackInit, PlaybackInv, PlaybackTypeOK, SpeakStates

-----------------------------------------------------------------------------
(***************************************************************************)
(* The loop.  The bound on the local turns is not inductive alone: it      *)
(* needs that the count of the window never falls behind the turns since   *)
(* the last trigger, except where only a trigger can go on, and that no    *)
(* window is open and no command in hand while a reply is awaited.         *)
(***************************************************************************)
WakePlaces == {"top", "look", "skip", "armed", "generation", "wait", "record", "route",
               "speak", "answered", "arm", "down"}

FlagsTypeOK ==
    /\ wpc \in WakePlaces
    /\ mic \in {"up", "dead"} /\ window \in BOOLEAN /\ waiting \in BOOLEAN
    /\ heard \in [local : BOOLEAN, fallback : BOOLEAN]

CountsTypeOK ==
    /\ followup \in 0 .. FollowupTicks /\ interval \in 0 .. IntervalTicks
    /\ turns \in 0 .. (MaxTurns - 1) /\ armed \in Nat \union {NotArmed}
    /\ localTurns \in Nat

ArmedWaits ==
    /\ armed # NotArmed => /\ window = FALSE /\ followup = 0
                           /\ wpc \in {"top", "look", "skip", "armed", "generation", "wait"}
    /\ wpc = "generation" => armed # NotArmed
    /\ followup > 0 => window = TRUE

OnlyTriggerGoesOn ==
    /\ localTurns <= MaxTurns /\ armed = NotArmed /\ followup = 0
    /\ wpc \in {"top", "look", "skip", "armed", "wait"}

TurnsCounted == localTurns <= turns \/ OnlyTriggerGoesOn

CountsInv == CountsTypeOK /\ ArmedWaits /\ TurnsCounted
LoopInv == FlagsTypeOK /\ CountsInv

\* The places, the reader, the window and the command are what they can be.
LEMMA FlagsStep == ASSUME FlagsTypeOK, [Next]_vars PROVE FlagsTypeOK'
<1> USE DEF FlagsTypeOK, WakePlaces
<1>1. InFollowup \in BOOLEAN /\ TRUE \in BOOLEAN /\ FALSE \in BOOLEAN
  BY DEF InFollowup
<1>2. NothingHeard \in [local : BOOLEAN, fallback : BOOLEAN]
  BY DEF NothingHeard
<1>3. ASSUME NEW at \in WakePlaces, NewLoop(at) PROVE FlagsTypeOK'
  BY <1>2, <1>3 DEF NewLoop, StartReader
<1>4. CASE LoopTop \/ TriggerFails \/ SendFails \/ IntentsRefused \/ WakeDies \/ Restart
  <2>1. Leave \/ WakeDies \/ Restart => FlagsTypeOK'
    BY <1>3 DEF Leave, WakeDies, ExitWith, Restart
  <2>2. ASSUME LoopTop, ~Leave PROVE FlagsTypeOK'
    BY <2>2 DEF LoopTop, LeaveFollowup, KeepFollowup, StartReader
  <2> QED BY <1>4, <2>1, <2>2 DEF TriggerFails, SendFails, IntentsRefused
<1>5. CASE Look \/ Skip \/ ArmedTop
  <2>1. ASSUME NEW active, CheckPlayback(active) PROVE FlagsTypeOK'
    BY <2>1 DEF CheckPlayback
  <2>2. ASSUME NEW active, CheckArmed(active) PROVE FlagsTypeOK'
    BY <1>1, <2>2 DEF CheckArmed, Decide
  <2>3. CASE Skip
    BY <2>3 DEF Skip
  <2> QED BY <1>5, <2>1, <2>2, <2>3 DEF Look, ArmedTop
<1>6. CASE GenerationRead \/ GenerationUnavailable \/ ArmFollowup
  <2>1. ASSUME NEW g, CheckGeneration(g) PROVE FlagsTypeOK'
    <3>1. \/ window' = TRUE /\ waiting' = TRUE /\ wpc' = "record"
          \/ window' = window /\ Decide
      BY <2>1 DEF CheckGeneration, EnterFollowup, KeepFollowup
    <3> QED BY <1>1, <2>1, <3>1 DEF CheckGeneration, Decide
  <2>2. ASSUME NEW g, Arm(g) PROVE FlagsTypeOK'
    BY <1>1, <1>2, <2>2 DEF Arm
  <2> QED BY <1>6, <2>1, <2>2 DEF GenerationRead, GenerationUnavailable, ArmFollowup
<1>7. CASE Trigger \/ TriggerTimeout
  BY <1>7 DEF Trigger, TriggerTimeout
<1>8. CASE ListenFails
  BY <1>8 DEF ListenFails, LeaveFollowup, KeepFollowup
<1>9. ASSUME NEW u \in Utterances, Heard(u) PROVE FlagsTypeOK'
  <2>1. u.phrase \in BOOLEAN
    BY DEF Utterances
  <2>2. heard' = heard \/ heard' = [local |-> u.text = "local", fallback |-> u.phrase \/ InFollowup]
    BY <1>9 DEF Heard
  <2>3. heard' \in [local : BOOLEAN, fallback : BOOLEAN]
    <3>1. (u.text = "local") \in BOOLEAN /\ (u.phrase \/ InFollowup) \in BOOLEAN
      BY <1>1, <2>1
    <3>2. ASSUME NEW l \in BOOLEAN, NEW f \in BOOLEAN
          PROVE  [local |-> l, fallback |-> f] \in [local : BOOLEAN, fallback : BOOLEAN]
      OBVIOUS
    <3> QED BY <2>2, <3>1, <3>2 DEF FlagsTypeOK
  <2>4. window' \in {window, TRUE, FALSE}
    BY <1>9 DEF Heard, LeaveFollowup, KeepFollowup, EnterFollowup
  <2>5. wpc' \in {"top", "route"} /\ mic' = mic /\ waiting' = FALSE
    BY <1>9 DEF Heard
  <2> QED BY <2>3, <2>4, <2>5
<1>10. CASE RouteLocal \/ LocalSpoken \/ RouteDiscord
  BY <1>10 DEF RouteLocal, Routed, LocalSpoken, RouteDiscord
<1>11. CASE Answered
  BY <1>2, <1>11 DEF Answered, LeaveFollowup, EnterFollowup
<1>12. CASE MicFails \/ OtherProcesses \/ Tick \/ UNCHANGED vars
  BY <1>12 DEF MicFails, OtherProcesses, Tick, vars, wvars
<1> QED BY <1>4, <1>5, <1>6, <1>7, <1>8, <1>9, <1>10, <1>11, <1>12 DEF Next, Loop

\* A loop that starts afresh has counted nothing.
LEMMA NewLoopInv == ASSUME NEW at \in {"top", "down"}, NewLoop(at) PROVE CountsInv'
<1> USE WakeAssumption DEF CountsTypeOK, NotArmed
<1>1. /\ wpc' = at /\ window' = FALSE /\ followup' = 0 /\ turns' = 0 /\ interval' = 0
      /\ armed' = -1 /\ localTurns' = 0
  BY DEF NewLoop
<1>2. CountsTypeOK'
  BY <1>1
<1> QED BY <1>1, <1>2 DEF CountsInv, ArmedWaits, TurnsCounted

LEMMA LeaveInv ==
    ASSUME TriggerFails \/ SendFails \/ IntentsRefused \/ WakeDies \/ Restart PROVE CountsInv'
BY NewLoopInv DEF TriggerFails, SendFails, IntentsRefused, WakeDies, Restart, Leave, ExitWith

\* The window that is closed, kept or opened from a place where the count is right.
LEMMA WindowInv ==
    ASSUME CountsInv, armed = NotArmed, localTurns <= turns,
           armed' = NotArmed, interval' = interval, localTurns' = localTurns,
           wpc' \in WakePlaces \ {"generation"},
           \/ LeaveFollowup /\ wpc' \in {"top", "look"}
           \/ KeepFollowup /\ turns' = turns
           \/ EnterFollowup /\ turns' = turns
    PROVE  CountsInv'
<1> USE WakeAssumption DEF CountsInv, CountsTypeOK, NotArmed
<1>1. CASE LeaveFollowup /\ wpc' \in {"top", "look"}
  BY <1>1 DEF LeaveFollowup, ArmedWaits, TurnsCounted, OnlyTriggerGoesOn
<1>2. CASE KeepFollowup /\ turns' = turns
  BY <1>2 DEF KeepFollowup, ArmedWaits, TurnsCounted
<1>3. CASE EnterFollowup /\ turns' = turns
  BY <1>3 DEF EnterFollowup, ArmedWaits, TurnsCounted
<1> QED BY <1>1, <1>2, <1>3

\* The loop moves on and neither the window nor a count changes.
LEMMA MoveInv ==
    ASSUME CountsInv, UNCHANGED <<window, followup, turns, armed, interval, localTurns>>,
           \/ wpc' = wpc
           \/ /\ wpc \in {"top", "look", "skip", "armed", "generation", "wait"}
              /\ wpc' \in {"top", "look", "skip", "armed", "wait"}
           \/ /\ wpc \in {"armed", "generation"} /\ wpc' = "record" /\ followup > 0
           \/ /\ wpc = "armed" /\ wpc' = "generation" /\ armed # NotArmed
           \/ /\ wpc \in {"record", "route", "speak", "answered", "arm"}
              /\ wpc' \in {"route", "speak", "answered", "arm"}
    PROVE  CountsInv'
BY DEF CountsInv, CountsTypeOK, ArmedWaits, TurnsCounted, OnlyTriggerGoesOn

\* The head of the loop, up to where it waits for a trigger or records.
LEMMA HeadInv ==
    ASSUME CountsInv, \/ LoopTop \/ Look \/ Skip \/ ArmedTop \/ Trigger \/ TriggerTimeout
    PROVE  CountsInv'
<1>1. CASE LoopTop
  <2>1. CASE Leave
    BY <2>1, NewLoopInv DEF Leave, ExitWith
  <2>2. CASE ~Leave
    <3>1. /\ wpc = "top" /\ wpc' = "look" /\ UNCHANGED <<armed, interval, localTurns>>
          /\ \/ window /\ ~InFollowup /\ LeaveFollowup
             \/ KeepFollowup /\ turns' = turns
      BY <1>1, <2>2 DEF LoopTop
    <3>2. CASE KeepFollowup /\ turns' = turns
      BY <3>1, <3>2, MoveInv DEF KeepFollowup
    <3>3. CASE window /\ ~InFollowup /\ LeaveFollowup
      <4>1. armed = NotArmed
        BY <3>3 DEF CountsInv, ArmedWaits
      <4>2. CASE localTurns <= turns
        BY <3>1, <3>3, <4>1, <4>2, WindowInv DEF WakePlaces
      <4>3. CASE OnlyTriggerGoesOn
        BY WakeAssumption, <3>1, <3>3, <4>1, <4>3
           DEF LeaveFollowup, CountsInv, CountsTypeOK, ArmedWaits, TurnsCounted,
               OnlyTriggerGoesOn, NotArmed
      <4> QED BY <4>2, <4>3 DEF CountsInv, TurnsCounted
    <3> QED BY <3>1, <3>2, <3>3
  <2> QED BY <2>1, <2>2
<1>2. CASE Look \/ Skip \/ TriggerTimeout
  BY <1>2, MoveInv DEF Look, CheckPlayback, Skip, TriggerTimeout
<1>3. CASE ArmedTop
  <2>1. /\ wpc = "armed" /\ UNCHANGED <<window, followup, turns, armed, interval, localTurns>>
        /\ \/ wpc' = "generation" /\ armed # NotArmed
           \/ Decide
    BY <1>3 DEF ArmedTop, CheckArmed
  <2> QED BY <2>1, MoveInv DEF Decide, InFollowup
<1>4. CASE Trigger
  <2>1. CASE wpc' = "top" /\ UNCHANGED <<interval, armed, localTurns>>
    BY <1>4, <2>1, MoveInv DEF Trigger
  <2>2. CASE interval' = IntervalTicks /\ Disarm /\ wpc' = "record" /\ localTurns' = 0
    BY WakeAssumption, <1>4, <2>2
       DEF Trigger, Disarm, CountsInv, CountsTypeOK, ArmedWaits, TurnsCounted, NotArmed
  <2> QED BY <1>4, <2>1, <2>2 DEF Trigger
<1> QED BY <1>1, <1>2, <1>3, <1>4

\* The generation that is awaited from and the one that ends the wait.
LEMMA GenerationInv ==
    ASSUME CountsInv, PlaybackTypeOK, GenerationRead \/ GenerationUnavailable \/ ArmFollowup
    PROVE  CountsInv'
<1>1. Generation \in Nat
  BY FreshFiles
<1>2. ASSUME NEW g \in Nat, CheckGeneration(g) PROVE CountsInv'
  <2>1. wpc = "generation" /\ armed # NotArmed /\ localTurns <= turns
    BY <1>2 DEF CheckGeneration, CountsInv, ArmedWaits, TurnsCounted, OnlyTriggerGoesOn
  <2>2. CASE armed' = NotArmed /\ EnterFollowup /\ wpc' = "record"
    BY WakeAssumption, <1>2, <2>1, <2>2
       DEF CheckGeneration, EnterFollowup, CountsInv, CountsTypeOK, ArmedWaits, TurnsCounted,
           NotArmed
  <2>3. CASE KeepFollowup /\ UNCHANGED armed /\ Decide
    BY <1>2, <2>1, <2>3, MoveInv DEF CheckGeneration, KeepFollowup, Decide, InFollowup
  <2> QED BY <1>2, <2>2, <2>3 DEF CheckGeneration
<1>3. ASSUME NEW g \in Nat, Arm(g) PROVE CountsInv'
  BY WakeAssumption, <1>3
     DEF Arm, CountsInv, CountsTypeOK, ArmedWaits, TurnsCounted, OnlyTriggerGoesOn, NotArmed
<1> QED BY <1>1, <1>2, <1>3 DEF GenerationRead, GenerationUnavailable, ArmFollowup

\* What was recorded, and its answer.
LEMMA AnswerInv ==
    ASSUME CountsInv, \/ ListenFails \/ (\E u \in Utterances : Heard(u)) \/ RouteLocal
                      \/ LocalSpoken \/ Answered \/ RouteDiscord
    PROVE  CountsInv'
<1>1. wpc \in {"record", "answered"} => armed = NotArmed /\ localTurns <= turns
  BY DEF CountsInv, ArmedWaits, TurnsCounted, OnlyTriggerGoesOn
<1>2. CASE ListenFails
  BY <1>1, <1>2, WindowInv DEF ListenFails, WakePlaces
<1>3. ASSUME NEW u \in Utterances, Heard(u) PROVE CountsInv'
  <2>1. wpc = "record" /\ UNCHANGED <<armed, interval, localTurns>> /\ wpc' \in {"top", "route"}
    BY <1>3 DEF Heard
  <2>2. \/ LeaveFollowup /\ wpc' = "top"
        \/ KeepFollowup /\ turns' = turns
        \/ EnterFollowup /\ turns' = turns
    BY <1>3 DEF Heard
  <2> QED BY <1>1, <2>1, <2>2, WindowInv DEF WakePlaces
<1>4. CASE RouteLocal \/ LocalSpoken \/ RouteDiscord
  BY <1>4, MoveInv DEF RouteLocal, Routed, LocalSpoken, RouteDiscord
<1>5. CASE Answered
  <2> USE WakeAssumption DEF CountsInv, CountsTypeOK, NotArmed
  <2>1. wpc = "answered" /\ wpc' = "top" /\ localTurns' = localTurns + 1 /\ UNCHANGED <<armed, interval>>
    BY <1>5 DEF Answered
  <2>2. CASE turns + 1 >= MaxTurns /\ LeaveFollowup
    BY <1>1, <2>1, <2>2 DEF LeaveFollowup, ArmedWaits, TurnsCounted, OnlyTriggerGoesOn
  <2>3. CASE ~(turns + 1 >= MaxTurns) /\ turns' = turns + 1 /\ EnterFollowup
    BY <1>1, <2>1, <2>3 DEF EnterFollowup, ArmedWaits, TurnsCounted
  <2> QED BY <1>5, <2>2, <2>3 DEF Answered
<1> QED BY <1>2, <1>3, <1>4, <1>5

\* What the loop does not do itself touches none of its counts, and time takes the
\* window away but never brings it back.
LEMMA EnvironmentInv ==
    ASSUME CountsInv, MicFails \/ OtherProcesses \/ Tick \/ UNCHANGED vars PROVE CountsInv'
<1>1. CASE MicFails
  BY <1>1, MoveInv DEF MicFails
<1>2. CASE UNCHANGED wvars
  BY <1>2, MoveInv DEF wvars
<1>3. CASE Tick
  BY WakeAssumption, <1>3
     DEF Tick, Down1, CountsInv, CountsTypeOK, ArmedWaits, TurnsCounted, OnlyTriggerGoesOn,
         NotArmed
<1> QED BY <1>1, <1>2, <1>3 DEF OtherProcesses, vars

WakeInv == PlaybackInv /\ LoopInv

LEMMA WakeInvStep == WakeInv /\ [Next]_vars => WakeInv'
<1> SUFFICES ASSUME WakeInv, [Next]_vars PROVE WakeInv'
  OBVIOUS
<1>1. PlaybackInv' /\ PlaybackTypeOK
  BY NextPlayback, PlaybackStepFiles DEF WakeInv, PlaybackInv
<1>2. FlagsTypeOK'
  BY FlagsStep DEF WakeInv, LoopInv
<1>3. CountsInv'
  <2>1. CountsInv
    BY DEF WakeInv, LoopInv
  <2> QED BY <1>1, <2>1, LeaveInv, HeadInv, GenerationInv, AnswerInv, EnvironmentInv
       DEF Next, Loop
<1> QED BY <1>1, <1>2, <1>3 DEF WakeInv, LoopInv

LEMMA WakeInvInit == Init => WakeInv
<1> SUFFICES ASSUME Init PROVE WakeInv
  OBVIOUS
<1>1. PlaybackInv
  BY PlaybackInvInit DEF Init
<1>2. FlagsTypeOK
  BY DEF Init, FlagsTypeOK, WakePlaces, NothingHeard
<1>3. CountsInv
  BY WakeAssumption DEF Init, CountsInv, CountsTypeOK, ArmedWaits, TurnsCounted, NotArmed
<1> QED BY <1>1, <1>2, <1>3 DEF WakeInv, LoopInv

LEMMA WakeInvHolds == Spec => []WakeInv
BY WakeInvInit, WakeInvStep, PTL DEF Spec

\* One accepted trigger leads to at most max_followup_turns local answers, however
\* the windows of the loop and the replies of Discord follow each other.
THEOREM TurnsAreBounded == Spec => [](TypeOK /\ LocalTurnsBounded)
<1>1. WakeInv => TypeOK /\ LocalTurnsBounded
  <2>1. WakeInv => TypeOK
    BY DEF WakeInv, PlaybackInv, LoopInv, FlagsTypeOK, CountsInv, CountsTypeOK, WakePlaces, TypeOK
  <2>2. CountsInv => LocalTurnsBounded
    BY WakeAssumption DEF CountsInv, CountsTypeOK, LocalTurnsBounded, TurnsCounted,
                          OnlyTriggerGoesOn
  <2> QED BY <2>1, <2>2 DEF WakeInv, LoopInv
<1> QED BY <1>1, WakeInvHolds, PTL

\* No process takes away the marker of a speech that another one still plays,
\* whoever is killed inside an operation on the files.
THEOREM MarkersAreKept == Spec => MarkerKept
<1>1. WakeInv /\ [Next]_vars =>
        [\A i \in DOMAIN markers \ DOMAIN markers' :
            \/ markers[i].left = 0
            \/ \E p \in Procs : spk[p] = "finish" /\ playback[p] = i]_vars
  BY NextPlayback, PlaybackStepFiles DEF WakeInv, Removed
<1> QED BY <1>1, WakeInvHolds, PTL DEF Spec, MarkerKept

-----------------------------------------------------------------------------
(***************************************************************************)
(* The generation counts the ends of what is heard.  The end of the last   *)
(* marker is written lazily, by whoever looks next: until then it shows in *)
(* the count of playback.json.  That count is zero while somebody plays    *)
(* only when the operation that began it failed after it wrote the marker, *)
(* and until somebody looks: such an end may go uncounted.                 *)
(***************************************************************************)
Noticed == Active /\ json.count > 0

\* What a step does to the sound and to the generation.
EndsTold ==
    \/ (Active' <=> Active) /\ (Noticed => Noticed') /\ Generation' = Generation
    \/ ~Active /\ Active' /\ Generation' = Generation
    \/ /\ Active /\ ~Active'
       /\ Generation' = Generation + 1 \/ (~Noticed /\ Generation' = Generation)

\* Nobody touches playback.json, and what was heard may end.
LEMMA UnwrittenEnds ==
    ASSUME PlaybackInv, UNCHANGED json, Fresh' \subseteq Fresh
    PROVE  EndsTold
<1>1. json.count \in Nat /\ json.generation \in Nat
  BY DEF PlaybackInv, PlaybackTypeOK
<1>2. Active' => Active
  BY DEF Active
<1>3. CASE Active
  <2>1. Generation = json.generation
    BY <1>3 DEF Generation
  <2>2. Generation' = IF json.count > 0 /\ ~Active' THEN json.generation + 1 ELSE json.generation
    BY DEF Generation
  <2> QED BY <1>1, <1>3, <2>1, <2>2 DEF EndsTold, Noticed
<1>4. CASE ~Active
  <2>1. Generation' = Generation /\ ~Active'
    BY <1>2, <1>4 DEF Generation
  <2> QED BY <1>4, <2>1 DEF EndsTold, Noticed
<1> QED BY <1>3, <1>4

\* The count that is written is zero exactly when nothing is counted.
LEMMA CountOf ==
    ASSUME NEW S, S \subseteq 1 .. MaxPlays
    PROVE  /\ Cardinality(S) \in Nat /\ (Cardinality(S) = 0 <=> S = {})
<1>1. IsFiniteSet(1 .. MaxPlays)
  BY FS_Interval, PlaybackAssumption
<1>2. IsFiniteSet(S)
  BY <1>1, FS_Subset
<1> QED BY <1>2, FS_CardinalityType, FS_EmptySet

\* What is heard is counted and written with the generation: it may end with that, or,
\* when the operation fails half-way, go on with one more or begin.
LEMMA WrittenEnds ==
    ASSUME PlaybackInv, Fresh' \subseteq Fresh \/ Active', json' = Synced.json
    PROVE  EndsTold
<1>1. Fresh \subseteq 1 .. MaxPlays /\ Generation \in Nat
  BY FreshFiles DEF PlaybackInv, PlaybackTypeOK
<1>2. /\ json'.count \in Nat /\ json'.generation = Generation
      /\ json'.count = 0 <=> ~Active
  BY <1>1, CountOf, SyncedIs DEF Active, PlaybackInv
<1>3. Generation' = IF Active /\ ~Active' THEN Generation + 1 ELSE Generation
  BY <1>1, <1>2 DEF Generation
<1>4. Active /\ Active' => Noticed'
  BY <1>2 DEF Noticed
<1>5. (Fresh' \subseteq Fresh => (Active' => Active)) /\ Active \in BOOLEAN /\ Active' \in BOOLEAN
  BY DEF Active
<1> QED BY <1>3, <1>4, <1>5 DEF EndsTold, Noticed

\* What an operation leaves that only reads, fails or is killed.
LEMMA KeptEnds ==
    ASSUME PlaybackInv, NEW p \in Procs, NEW state, Keeps(state, p), Leaves(state)
    PROVE  EndsTold
<1>1. Fresh' \subseteq Fresh
  BY DEF Keeps, Leaves, Fresh
<1> QED BY <1>1, UnwrittenEnds, WrittenEnds DEF Keeps, Leaves

\* mark_started: it is heard from now on.
LEMMA MarkStartedEnds ==
    ASSUME PlaybackInv, NEW p \in Procs, MarkStarted(p)
    PROVE  EndsTold
<1> DEFINE f == WithMarker(p)
<1>1. /\ PlaybackTypeOK /\ playback[p] \in 1 .. MaxPlays /\ Fresh \subseteq 1 .. MaxPlays
      /\ Generation \in Nat
  BY FreshFiles, PlaybackAssumption DEF MarkStarted, PlaybackInv, PlaybackTypeOK
<1>2. IsFiles(f) /\ DOMAIN f = Fresh \union {playback[p]} /\ f[playback[p]].left = StaleTicks
  BY <1>1, WithMarkerFiles DEF WithMarker
<1>3. markers' = f /\ json' = [count |-> Cardinality(DOMAIN f), generation |-> Generation]
  BY DEF MarkStarted, Leaves, Written
<1> HIDE DEF f
<1>4. json'.count \in Nat /\ json'.count # 0 /\ json'.generation = Generation
  BY <1>1, <1>2, <1>3, CountOf
<1>5. playback[p] \in Fresh'
  BY <1>2, <1>3, PlaybackAssumption DEF Fresh
<1>6. Active' /\ Generation' = Generation
  BY <1>4, <1>5 DEF Active, Generation
<1> QED BY <1>4, <1>6 DEF EndsTold, Noticed, Active

\* mark_started that fails: it is heard from now on as well when the marker was written.
LEMMA MarkUnavailableEnds ==
    ASSUME PlaybackInv, NEW p \in Procs, MarkUnavailable(p)
    PROVE  EndsTold
<1>1. PICK state \in HalfMarked(p) : Leaves(state)
  BY DEF MarkUnavailable
<1>2. Keeps(state, p) \/ state = [files |-> WithMarker(p), json |-> Synced.json]
  BY MarkKeeps DEF MarkUnavailable
<1>3. CASE state = [files |-> WithMarker(p), json |-> Synced.json]
  <2>1. WithMarker(p)[playback[p]].left = StaleTicks /\ playback[p] \in DOMAIN WithMarker(p)
    BY DEF WithMarker
  <2>2. playback[p] \in Fresh'
    BY <1>1, <1>3, <2>1, PlaybackAssumption DEF Leaves, Fresh
  <2> QED BY <1>1, <1>3, <2>2, WrittenEnds DEF Leaves, Active
<1> QED BY <1>1, <1>2, <1>3, KeptEnds

\* mark_finished: the others are still heard, unless the process leaves them, or nobody is.
LEMMA MarkFinishedEnds ==
    ASSUME PlaybackInv, NEW p \in Procs, MarkFinished(p)
    PROVE  EndsTold
<1> DEFINE g == IF playback[p] \in Fresh /\ Others(p) = {} THEN Generation + 1 ELSE Generation
<1>1. /\ Fresh \subseteq 1 .. MaxPlays /\ Generation \in Nat /\ Others(p) \subseteq Fresh
  BY FreshFiles DEF PlaybackInv, PlaybackTypeOK, Others
<1>2. g \in Nat /\ Returns(p, Written(Restrict(markers, Others(p)), g)) /\ spk[p] = "finish"
  BY <1>1 DEF MarkFinished
<1>3. /\ DOMAIN markers' = Others(p)
      /\ json' = [count |-> Cardinality(Others(p)), generation |-> g]
  BY <1>2, FinishedFiles
<1>4. json'.count \in Nat /\ (json'.count = 0 <=> Others(p) = {}) /\ json'.generation = g
  BY <1>1, <1>3, CountOf
<1>5. Fresh' \subseteq Others(p)
  BY <1>3 DEF Fresh
<1>6. CASE Others(p) = {}
  <2>1. ~Active' /\ Generation' = g
    BY <1>4, <1>5, <1>6 DEF Active, Generation
  <2>2. Fresh \subseteq {playback[p]}
    BY <1>6 DEF Others
  <2>3. (Active => g = Generation + 1) /\ (~Active => g = Generation)
    BY <1>6, <2>2 DEF Active
  <2> QED BY <2>1, <2>3 DEF EndsTold, Noticed
<1>7. CASE Others(p) # {}
  <2>1. Active /\ g = Generation
    BY <1>1, <1>7 DEF Active
  <2>2. json'.count > 0 /\ Generation' = IF ~Active' THEN Generation + 1 ELSE Generation
    BY <1>4, <1>7, <2>1 DEF Generation
  <2> QED BY <2>1, <2>2 DEF EndsTold, Noticed
<1> QED BY <1>6, <1>7

LEMMA SpeakerEnds ==
    ASSUME PlaybackInv, NEW p \in Procs, SpeakerStep(p)
    PROVE  EndsTold
<1>1. PlaybackTypeOK
  BY DEF PlaybackInv
<1>2. ASSUME NEW state, Keeps(state, p), Returns(p, state) PROVE EndsTold
  BY <1>2, GoneKeeps, KeptEnds DEF Returns
<1>3. CASE Synthesized(p)
  BY <1>3, UnwrittenEnds DEF Synthesized, Fresh
<1>4. CASE PlayEnds(p)
  BY <1>1, <1>2, <1>4, UntouchedKeeps, KeptEnds DEF PlayEnds
<1>5. CASE FinishUnavailable(p)
  BY <1>1, <1>2, <1>5, FinishKeeps DEF FinishUnavailable
<1>6. CASE Logged(p)
  BY <1>1, <1>6, SyncKeeps, GoneKeeps, KeptEnds DEF Logged
<1> QED BY <1>3, <1>4, <1>5, <1>6, MarkStartedEnds, MarkUnavailableEnds, MarkFinishedEnds
     DEF SpeakerStep

LEMMA PlaybackStepEnds ==
    ASSUME PlaybackInv, PlaybackStep
    PROVE  EndsTold
<1>1. /\ PlaybackTypeOK /\ IsFiles(markers) /\ WakeProcess \in Procs
  BY FreshFiles DEF PlaybackInv, Procs
<1>2. ASSUME UNCHANGED <<markers, json>> PROVE EndsTold
  BY <1>2, UnwrittenEnds DEF Fresh
<1>3. CASE \E state \in HalfSynced : Leaves(state)
  BY <1>1, <1>3, SyncKeeps, KeptEnds
<1>4. CASE markers' = Aged(markers) /\ UNCHANGED json
  <2>1. DOMAIN markers' = DOMAIN markers
        /\ \A i \in DOMAIN markers : markers'[i].left > 0 => markers[i].left > 0
    <3>1. \A i \in DOMAIN markers : markers[i].left \in 0 .. StaleTicks
      BY <1>1 DEF IsFiles
    <3>2. \A i \in DOMAIN markers :
              markers'[i].left = IF markers[i].left = 0 THEN 0 ELSE markers[i].left - 1
      BY <1>1, <1>4 DEF Aged, IsFiles
    <3> QED BY <1>1, <1>4, <3>1, <3>2, AgedFiles, PlaybackAssumption
  <2> QED BY <1>4, <2>1, UnwrittenEnds DEF Fresh
<1>5. ASSUME NEW p \in Procs, Killed(p, Halfway(p) \union HalfSynced) PROVE EndsTold
  BY <1>5, KilledKeeps, KeptEnds
<1> QED BY <1>1, <1>2, <1>3, <1>4, <1>5, SpeakerEnds, DiesIsKilled
     DEF PlaybackStep, pvars, StartSpeak

LEMMA EndsInit == PlaybackInit => ~Active /\ Generation = 0 /\ json.count = 0
<1> SUFFICES ASSUME PlaybackInit PROVE ~Active /\ Generation = 0 /\ json.count = 0
  OBVIOUS
<1>1. Fresh = {}
  BY DEF PlaybackInit, Fresh
<1> QED BY <1>1 DEF PlaybackInit, Active, Generation

\* The generation counts the ends of what is heard, each once, for any number of speeches
\* that overlap, expire, end, or lose their process anywhere, inside an operation as well.
\* Only a sound that began in an operation which failed before it counted it, and that
\* nobody looked at while it lasted, may end uncounted.
THEOREM GenerationCounts == Spec => EndsSpec
<1>1. Init => Ends!Init
  BY EndsInit DEF Init, Ends!Init, Noticed
<1>2. WakeInv /\ [Next]_vars
        => [Ends!Begins \/ Ends!Notices \/ Ends!Over]_<<Active, Active /\ json.count > 0, Generation>>
  <2> SUFFICES ASSUME WakeInv, [Next]_vars
               PROVE  [Ends!Begins \/ Ends!Notices \/ Ends!Over]_<<Active, Noticed, Generation>>
    BY DEF Noticed
  <2>1. EndsTold
    BY NextPlayback, PlaybackStepEnds DEF WakeInv
  <2>2. /\ Active \in BOOLEAN /\ Active' \in BOOLEAN /\ Noticed \in BOOLEAN /\ Noticed' \in BOOLEAN
        /\ (Noticed => Active) /\ (Noticed' => Active')
    BY DEF Active, Noticed
  <2>3. CASE (Active' <=> Active) /\ (Noticed => Noticed') /\ Generation' = Generation
    BY <2>2, <2>3 DEF Ends!Notices, Noticed
  <2>4. CASE ~Active /\ Active' /\ Generation' = Generation
    BY <2>2, <2>4 DEF Ends!Begins, Noticed
  <2>5. CASE /\ Active /\ ~Active'
             /\ Generation' = Generation + 1 \/ (~Noticed /\ Generation' = Generation)
    BY <2>2, <2>5 DEF Ends!Over, Noticed
  <2> QED BY <2>1, <2>3, <2>4, <2>5 DEF EndsTold
<1> QED BY <1>1, <1>2, WakeInvHolds, PTL DEF Spec, EndsSpec, Ends!Spec

\* The reply that the wake loop awaits is one that ends after it began to wait: it never
\* waits for a generation that is still to come, so that the next end opens the window.
ArmedKnown == armed # NotArmed => armed <= Generation

LEMMA ArmedStep ==
    ASSUME WakeInv, WakeInv', ArmedKnown, [Next]_vars PROVE ArmedKnown'
<1>1. /\ Generation \in Nat /\ Generation' \in Nat
      /\ armed \in Nat \union {NotArmed} /\ armed' \in Nat \union {NotArmed}
  <2>1. Generation \in Nat /\ Generation' \in Nat
    BY DEF WakeInv, PlaybackInv, PlaybackTypeOK, Generation
  <2> QED BY <2>1 DEF WakeInv, LoopInv, CountsInv, CountsTypeOK
<1>2. Generation <= Generation'
  BY <1>1, NextPlayback, PlaybackStepEnds DEF WakeInv, EndsTold
<1>3. armed' \in {armed, NotArmed, Generation, 0}
  <2>1. CASE ArmFollowup \/ GenerationRead \/ GenerationUnavailable
    BY <2>1 DEF ArmFollowup, Arm, GenerationRead, GenerationUnavailable, CheckGeneration
  <2>2. ASSUME Leave \/ WakeDies \/ Restart PROVE armed' = NotArmed
    BY <2>2 DEF Leave, WakeDies, Restart, ExitWith, NewLoop
  <2>3. CASE LoopTop \/ TriggerFails \/ SendFails \/ IntentsRefused \/ WakeDies \/ Restart
    BY <2>2, <2>3 DEF LoopTop, TriggerFails, SendFails, IntentsRefused
  <2>4. CASE Look \/ Skip \/ ArmedTop \/ TriggerTimeout \/ ListenFails \/ \E u \in Utterances : Heard(u)
    BY <2>4 DEF Look, CheckPlayback, Skip, ArmedTop, CheckArmed, TriggerTimeout, ListenFails, Heard
  <2>5. CASE RouteLocal \/ LocalSpoken \/ Answered \/ RouteDiscord \/ Trigger
    BY <2>5 DEF RouteLocal, LocalSpoken, Answered, RouteDiscord, Trigger, Disarm
  <2>6. CASE MicFails \/ OtherProcesses \/ Tick \/ UNCHANGED vars
    BY <2>6 DEF MicFails, OtherProcesses, Tick, wvars, vars
  <2> QED BY <2>1, <2>3, <2>4, <2>5, <2>6 DEF Next, Loop
<1> QED BY <1>1, <1>2, <1>3 DEF ArmedKnown

\* While the loop awaits a reply from a generation on, that generation is not ahead of the
\* one it will read: with GenerationCounts, the next end of a playback ends the wait.
THEOREM ReplyIsAhead == Spec => []ArmedKnown
<1>1. Init => ArmedKnown
  BY EndsInit DEF Init, ArmedKnown
<1>2. WakeInv /\ WakeInv' /\ ArmedKnown /\ [Next]_vars => ArmedKnown'
  BY ArmedStep
<1> QED BY <1>1, <1>2, WakeInvHolds, PTL DEF Spec
=============================================================================
