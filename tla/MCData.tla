------------------------------- MODULE MCData -------------------------------
(***************************************************************************)
(* Instances of Buffers and Times for TLC, side by side: the sequential    *)
(* code of data/.                                                          *)
(***************************************************************************)
EXTENDS Buffers, Times

\* Both buffers have none to three channels, of up to two samples.
MCChannels == 3
MCFrames == 2

\* Time in hundredths of a second, and integers of 16 bits: ticks longer than a
\* hundredth, as long, shorter, and no multiple of it.
MCTimeBases == [num : {1, 3}, den : {1, 7, 100, 350, 441}]
MCTimestamps == 0 .. 99
MCDurations == 0 .. 120
MCRates == {1, 8, 44, 100, 441}

DataInit == Init /\ TimesInit

\* A conversion keeps no state and touches no buffer: one of them, next to
\* buffers without channels, stands for all.
DataNext ==
    /\ last.of = "nothing"
    /\ \/ Next /\ UNCHANGED last
       \/ channels = 0 /\ source.channels = 0 /\ TimesNext /\ UNCHANGED vars

DataSpec == DataInit /\ [][DataNext]_<<vars, last>>
=============================================================================
