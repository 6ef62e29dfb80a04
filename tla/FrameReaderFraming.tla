------------------------- MODULE FrameReaderFraming -------------------------
(***************************************************************************)
(* FrameReader implements Framing: what a stream is cut into does not      *)
(* depend on how its bytes arrive, on the size of the buffer or on failed  *)
(* reads.  That rests on two properties of the scanner, of the stretches   *)
(* of a stream that a buffer holds one after the other.                    *)
(***************************************************************************)
EXTENDS FrameReader

ASSUME ScanStable == \A f \in Formats : LengthsSettle(f)

ASSUME ErrorStable == \A f \in Formats : ErrorsStay(f)

-----------------------------------------------------------------------------
Whole == INSTANCE Framing

\* Every step of the reader is a step, or none, of an iterator that knows the
\* whole stream.
ImplementsFraming == Whole!Spec

\* The ceiling is exclusive, in both directions, whatever the buffer held when a
\* record came to its end: a record below it is never refused, and one that
\* reaches it is never handed out, unless the caller asked for a buffer that is
\* longer than the ceiling.  A record of exactly max_record_bytes fills the
\* buffer, and fill gives up before it looks for a byte behind it; the comments
\* of with_max_record_bytes and next_frame refuse larger records only.
CeilingIsExclusive ==
    /\ answer = "too_large" =>
           LET v == Scan(SubSeq(stream, Position + 1, Len(stream)), format, max_depth)
           IN  v.kind = "complete" => v.len >= max_record_bytes
    /\ \A i \in 1..Len(frames) :
           Len(frames[i].bytes) < max_record_bytes \/ configured > max_record_bytes
=============================================================================
