------------------------------ MODULE MCMedia ------------------------------
(***************************************************************************)
(* Instances of Media for TLC.                                             *)
(***************************************************************************)
EXTENDS Media

\* Frames of one or two samples of every channel.
MCFrameSizes == {Channels, 2 * Channels}

MCStreams == <<"audio">>

\* A film, with the sound track in two languages.
FilmStreams == <<"other", "audio", "audio">>
=============================================================================
