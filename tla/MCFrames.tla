------------------------------ MODULE MCFrames ------------------------------
(***************************************************************************)
(* Frames over both formats.                                               *)
(***************************************************************************)
EXTENDS Frames

M == INSTANCE MCFragments

\* Signs too: a slice is scanned whole, so a number cut short does no harm.
Texts == M!Short(4) \cup M!StringsUpTo(3, {45, 49, 46, 34, 92}) \cup M!Long \cup M!Fragile

MCStreams == M!Fragments(Texts)

Verdicts == M!Verdicts(Texts, Limits)

MCScan(s, f, max) == Verdicts[f][s, max]
=============================================================================
