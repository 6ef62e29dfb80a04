------------------------ MODULE MCFrameReaderClaims -------------------------
(***************************************************************************)
(* FrameReader over text fragments that contradict its documentation.      *)
(***************************************************************************)
EXTENDS FrameReaderClaims

M == INSTANCE MCFragments

\* A comment behind the last record: 1;/**/ and # // (a line comment).
Commented == {<<49, 59, 47, 42, 42, 47>>, <<35, 32, 47, 47>>}

Texts == M!Short(3) \cup M!Fragile \cup Commented

MCStreams == M!Fragments(Texts)

Verdicts == M!Verdicts(Texts, Limits)

MCScan(s, f, max) == Verdicts[f][s, max]

\* skip_separators: "Skips separators and insignificant bytes between records",
\* and next_frame fails "if the stream ends part way through" a record.  Behind
\* the last record, a comment is taken for the beginning of another.
EofIsInsideRecord ==
    answer = "eof" => M!T!SkipIgnored(Remainder, 0) < Len(Remainder)
=============================================================================
