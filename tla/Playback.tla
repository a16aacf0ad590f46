------------------------------ MODULE Playback ------------------------------
(***************************************************************************)
(* The playback state of the legacy roamer: files under /run/roamer that   *)
(* every process which speaks writes and the wake loop reads               *)
(* (services/playback_state.py, capabilities/speak.py).                    *)
(*                                                                         *)
(* A playback has a marker file of its own; playback.json keeps how many   *)
(* markers there were and a generation, which grows when the last one      *)
(* goes.  Every operation holds an exclusive flock, so no process sees     *)
(* another one half way; one that fails inside, because a file cannot be   *)
(* written or removed, or whose process is killed there, leaves the files  *)
(* as they are and the lock is dropped.  What has been written can be read *)
(* again.                                                                  *)
(***************************************************************************)
EXTENDS Naturals, FiniteSets, Functions

CONSTANTS
    Speakers,       \* processes that run "roamer speak" once at a time
    WakeProcess,    \* the process of the wake loop, which speaks too
    StaleTicks,     \* playback_stale_after_sec, in ticks
    MaxPlays        \* bound: speeches begun

ASSUME PlaybackAssumption ==
    /\ IsFiniteSet(Speakers) /\ WakeProcess \notin Speakers
    /\ StaleTicks \in Nat \ {0} /\ MaxPlays \in Nat

Procs == Speakers \union {WakeProcess}

VARIABLES
    markers,    \* the marker files: playback_id -> owner and ticks until it is
                \* stale (0 when it has expired or its process is dead)
    json,       \* playback.json: the count of markers and the generation
    spk,        \* where each process is in SpeakCapability.speak
    playback,   \* the playback_id of the speech of each process
    plays       \* speeches begun so far (bounds the model, and makes the ids)

pvars == <<markers, json, spk, playback, plays>>

SpeakStates == {"idle", "synth", "mark", "marked", "unmarked", "finish", "log"}

\* Mutant: expired markers and those of dead processes still count.
FreshOrNot == DOMAIN markers

\* _active_markers_unlocked(prune_stale=True): neither expired nor of a dead process.
Fresh == {i \in DOMAIN markers : markers[i].left > 0}
Active == Fresh # {}

\* Mutant: a marker that is pruned does not count as an end.
GenerationAsWritten == json.generation

\* _sync_snapshot_unlocked: the last marker went without its process saying so.
Generation == IF json.count > 0 /\ ~Active THEN json.generation + 1 ELSE json.generation

\* The files as an operation leaves them.
Leaves(state) == markers' = state.files /\ json' = state.json

Written(files, generation) ==
    [files |-> files,
     json  |-> [count |-> Cardinality(DOMAIN files), generation |-> generation]]

\* Every operation begins with a sync, which writes what it has counted ...
Synced == Written(Restrict(markers, Fresh), Generation)

\* ... and may fail before: then some of the files it prunes are gone, or none.
Untouched == [files |-> markers, json |-> json]
Pruned == {[Untouched EXCEPT !.files = Restrict(@, kept)] :
              kept \in {some \in SUBSET DOMAIN markers : Fresh \subseteq some}}
HalfSynced == Pruned \union {Synced}

\* snapshot: is_active and generation answer what it has just written.
Snapshot == Leaves(Synced)
SnapshotFails == \E state \in Pruned : Leaves(state)

WithMarker(p) ==
    [i \in Fresh \union {playback[p]} |->
        IF i = playback[p] THEN [left |-> StaleTicks, owner |-> p] ELSE markers[i]]

\* The process of p is gone: its markers stay, its pid does not.
Orphaned(files, p) ==
    [i \in DOMAIN files |->
        [files[i] EXCEPT !.left = IF files[i].owner = p THEN 0 ELSE @]]

Goto(p, state) ==
    /\ spk' = [spk EXCEPT ![p] = state]
    /\ playback' = [playback EXCEPT ![p] = IF state = "idle" THEN 0 ELSE @]

PlaybackInit ==
    /\ markers = [i \in {} |-> [left |-> 0, owner |-> WakeProcess]]
    /\ json = [count |-> 0, generation |-> 0]
    /\ spk = [p \in Procs |-> "idle"]
    /\ playback = [p \in Procs |-> 0]
    /\ plays = 0

\* _remove_matching_markers_unlocked: the other markers stay.
Others(p) == Fresh \ {playback[p]}

StartSpeak(p) ==
    /\ spk[p] = "idle" /\ plays < MaxPlays
    /\ plays' = plays + 1
    /\ playback' = [playback EXCEPT ![p] = plays']
    /\ spk' = [spk EXCEPT ![p] = "synth"]
    /\ UNCHANGED <<markers, json>>

\* The TTS driver answers; speak returns at once when it failed.
Synthesized(p) ==
    /\ spk[p] = "synth"
    /\ \E ok \in BOOLEAN : Goto(p, IF ok THEN "mark" ELSE "idle")
    /\ UNCHANGED <<markers, json, plays>>

MarkStarted(p) ==
    /\ spk[p] = "mark"
    /\ Leaves(Written(WithMarker(p), Generation))
    /\ Goto(p, "marked")
    /\ UNCHANGED plays

\* mark_started cut short: also after the marker was written, uncounted by the sync
\* before it.
HalfMarked(p) == HalfSynced \union {[Synced EXCEPT !.files = WithMarker(p)]}

\* It failed: the speech is played all the same, and nobody will finish its marker.
MarkUnavailable(p) ==
    /\ spk[p] = "mark"
    /\ \E state \in HalfMarked(p) : Leaves(state)
    /\ Goto(p, "unmarked")
    /\ UNCHANGED plays

\* AudioCapability.play runs; it has a timeout, so it ends also when aplay hangs.
Speaking(p) == spk[p] \in {"marked", "unmarked"}

\* speak has returned: a process that ran only this speech exits.
Exit(files, p) == IF p = WakeProcess THEN files ELSE Orphaned(files, p)

\* speak goes on to its last log record, when the speech was played, or returns.
Returns(p, state) ==
    \/ Goto(p, "log") /\ Leaves(state)
    \/ Goto(p, "idle") /\ Leaves([state EXCEPT !.files = Exit(@, p)])

\* It returned, played or not.
PlayEnds(p) ==
    /\ Speaking(p)
    /\ \/ spk[p] = "marked" /\ Goto(p, "finish") /\ Leaves(Untouched)
       \/ spk[p] = "unmarked" /\ Returns(p, Untouched)
    /\ UNCHANGED plays

\* Mutant: whoever finishes removes every marker.
MarkFinishedForAll(p) ==
    /\ spk[p] = "finish"
    /\ Returns(p, Written(Restrict(markers, {}), Generation + 1))
    /\ UNCHANGED plays

\* Mutant: the generation does not grow when the last marker is removed.
MarkFinishedSameGeneration(p) ==
    /\ spk[p] = "finish"
    /\ Returns(p, Written(Restrict(markers, Others(p)), Generation))
    /\ UNCHANGED plays

\* The generation grows when this marker was the last; the sync before it has
\* already counted a marker that had expired.
MarkFinished(p) ==
    /\ spk[p] = "finish"
    /\ LET rest == Others(p)
           last == playback[p] \in Fresh /\ rest = {}
           generation == IF last THEN Generation + 1 ELSE Generation
       IN Returns(p, Written(Restrict(markers, rest), generation))
    /\ UNCHANGED plays

\* mark_finished cut short: its marker may stay, or be gone and still counted.
HalfFinished(p) ==
    HalfSynced \union {[Synced EXCEPT !.files = Restrict(markers, Others(p))]}

FinishUnavailable(p) ==
    /\ spk[p] = "finish"
    /\ \E state \in HalfFinished(p) : Returns(p, state)
    /\ UNCHANGED plays

\* The last log record of a played speech reads the generation once more.
Logged(p) ==
    /\ spk[p] = "log"
    /\ \E state \in HalfSynced : Leaves([state EXCEPT !.files = Exit(@, p)])
    /\ Goto(p, "idle")
    /\ UNCHANGED plays

\* Killed: between the operations, or inside the one that comes next.
Halfway(p) ==
    {Untouched}
        \union (IF spk[p] = "mark" THEN HalfMarked(p) ELSE {})
        \union (IF spk[p] = "finish" THEN HalfFinished(p) ELSE {})
        \union (IF spk[p] = "log" THEN HalfSynced ELSE {})

Killed(p, states) ==
    \E state \in states : Leaves([state EXCEPT !.files = Orphaned(@, p)])

Dies(p) ==
    /\ Killed(p, Halfway(p))
    /\ Goto(p, "idle")
    /\ UNCHANGED plays

SpeakerStep(p) == \/ Synthesized(p) \/ MarkStarted(p) \/ MarkUnavailable(p)
                  \/ PlayEnds(p) \/ MarkFinished(p) \/ FinishUnavailable(p)
                  \/ Logged(p)

\* One tick of the wall clock for every marker file.
Aged(files) == [i \in DOMAIN files |->
                  [files[i] EXCEPT !.left = IF @ = 0 THEN 0 ELSE @ - 1]]

PlaybackTypeOK ==
    /\ DOMAIN markers \subseteq 1..MaxPlays
    /\ \A i \in DOMAIN markers :
          markers[i] \in [left : 0..StaleTicks, owner : Procs]
    /\ json \in [count : Nat, generation : Nat]
    /\ spk \in [Procs -> SpeakStates]
    /\ playback \in [Procs -> 0..MaxPlays]
    /\ plays \in 0..MaxPlays

\* The generation counts the ends of what is heard, each once: whether the last
\* marker is removed, expires, or loses its process, also inside an operation, when
\* only a later reader finds out; and speeches that overlap end together
\* (playback_state.py:118-131).  Only a sound that began in an operation which failed
\* before it counted it, and that nobody saw while it lasted, may end uncounted.
Ends == INSTANCE PlaybackEnds WITH audible <- Active,
                                   noticed <- Active /\ json.count > 0,
                                   ends    <- Generation
EndsSpec == Ends!Spec
=============================================================================
