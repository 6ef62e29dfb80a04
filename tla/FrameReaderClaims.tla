------------------------- MODULE FrameReaderClaims -------------------------
(***************************************************************************)
(* What the documentation and the tests of src/core/frames.rs say of       *)
(* FrameReader and its code does not do.  Each is checked by a run that    *)
(* expects TLC to refute it.                                               *)
(***************************************************************************)
EXTENDS FrameReader

\* What is left of the stream at the cursor, were it known.
Remainder == SubSeq(stream, Position + 1, Len(stream))

\* a_stream_is_cut_into_the_same_frames_as_a_slice: "Every chunk size, including
\* one byte at a time, must agree."  What is malformed in pieces is malformed
\* as a whole.
SameErrorsAsSlice ==
    (answer = "malformed" /\ pc = "idle") => Scan(Remainder, format, max_depth).kind = "error"
=============================================================================
