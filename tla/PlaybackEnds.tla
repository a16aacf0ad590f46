---------------------------- MODULE PlaybackEnds ----------------------------
(***************************************************************************)
(* What a listener may rely on who waits for the end of a playback by a    *)
(* number, the generation: sound begins and ends, and the number counts    *)
(* the ends, each of them once, however the sound comes to its end.  A     *)
(* sound that begins unnoticed is noticed when somebody looks; one that is *)
(* over before may go uncounted.                                           *)
(***************************************************************************)
EXTENDS Naturals

VARIABLES audible,  \* somebody is playing
          noticed,  \* and it has been written down
          ends      \* how often the sound has ended

Init == audible = FALSE /\ noticed = FALSE /\ ends = 0

Begins  == ~audible /\ audible' = TRUE /\ noticed' \in BOOLEAN /\ UNCHANGED ends
Notices == audible /\ noticed' = TRUE /\ UNCHANGED <<audible, ends>>
Over    == /\ audible /\ audible' = FALSE /\ noticed' = FALSE
           /\ ends' = ends + 1 \/ (~noticed /\ UNCHANGED ends)

Spec == Init /\ [][Begins \/ Notices \/ Over]_<<audible, noticed, ends>>
=============================================================================
