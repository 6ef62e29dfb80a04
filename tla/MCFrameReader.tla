--------------------------- MODULE MCFrameReader ----------------------------
(***************************************************************************)
(* FrameReader over both formats.                                          *)
(***************************************************************************)
EXTENDS FrameReaderFraming

M == INSTANCE MCFragments

Texts == M!Short(3) \cup M!StringsUpTo(4, {49, 59, 91, 93}) \cup M!Long

MCStreams == M!Fragments(Texts)

Verdicts == M!Verdicts(Texts, Limits)

MCScan(s, f, max) == Verdicts[f][s, max]
=============================================================================
