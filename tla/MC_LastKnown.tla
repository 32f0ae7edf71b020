---------------------------- MODULE MC_LastKnown ----------------------------
(* Model-checking instance of LastKnown.                                   *)
EXTENDS LastKnown

\* Running v0.0.1; the checker announces v0.0.9 and then v0.0.10, whose text
\* has the text of v0.0.1 as a prefix.
MCCurrent == VersionString(<<0, 0, 1>>)
MCAnnounced == << <<0, 0, 9>>, <<0, 0, 10>> >>
=============================================================================
