------------------------------ MODULE Playback ------------------------------
(***************************************************************************)
(* What the reader and the view promise a listener, without a buffer, a    *)
(* cache or a codec: samples are played in the order they were decoded,    *)
(* each once, and none is left out but the last of those not yet played,   *)
(* which an opening removes while nobody reads or plays.                   *)
(***************************************************************************)
EXTENDS Integers, Sequences

VARIABLES
    next,              \* number of the next sample that is decoded
    pipe,              \* the samples decoded and not yet played
    heard,             \* what was played last
    gen,               \* number of openings and seeks
    reading, playing   \* the reader, the view is at work

vars == <<next, pipe, heard, gen, reading, playing>>

Init ==
    /\ next = 0 /\ pipe = << >> /\ heard = << >> /\ gen = 0
    /\ reading = FALSE /\ playing = FALSE

\* The samples from n to m, which belong to a generation.
Frames(n, m, g) == [i \in 1 .. m - n |-> [num |-> n + i - 1, gen |-> g]]

\* Samples of a generation may follow those in the pipe.
Follows(g) ==
    pipe # << >> =>
        LET last == pipe[Len(pipe)]
        IN  last.gen < g \/ (last.gen = g /\ last.num = next - 1)

\* One of the two begins its work, or ends it and has done nothing.
Turn ==
    /\ reading' \in BOOLEAN /\ playing' \in BOOLEAN
    /\ reading' = reading \/ playing' = playing
    /\ UNCHANGED <<next, pipe, heard, gen>>

Decode ==
    /\ reading /\ ~reading'
    /\ next' \in Nat /\ next' > next
    /\ \E g \in 0 .. gen : Follows(g) /\ pipe' = pipe \o Frames(next, next', g)
    /\ UNCHANGED <<heard, gen, playing>>

Play ==
    /\ playing /\ ~playing'
    /\ \E n \in 0 .. Len(pipe) :
          heard' = SubSeq(pipe, 1, n) /\ pipe' = SubSeq(pipe, n + 1, Len(pipe))
    /\ UNCHANGED <<next, gen, reading>>

\* An opening, which may fail, or a seek: what was last in the pipe may be gone.
Cut ==
    /\ ~reading /\ ~playing
    /\ \E n \in 0 .. Len(pipe) : pipe' = SubSeq(pipe, 1, n)
    /\ gen' \in {gen, gen + 1}
    /\ UNCHANGED <<next, heard, reading, playing>>

Next == Turn \/ Decode \/ Play \/ Cut

Spec == Init /\ [][Next]_vars
=============================================================================
