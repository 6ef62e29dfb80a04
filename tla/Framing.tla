------------------------------ MODULE Framing ------------------------------
(***************************************************************************)
(* What cutting a list fragment into records promises, whoever does it.    *)
(* The fragment is known as a whole: the next record is the one the        *)
(* scanner finds after the separators that follow the last one.  Frames    *)
(* (a slice) and FrameReader (a stream that arrives in pieces, through a   *)
(* buffer that moves and grows) both implement this specification.         *)
(***************************************************************************)
EXTENDS Records

VARIABLES
    stream,      \* the whole fragment
    format,      \* ... the format it is in
    max_depth,   \* ... and the depth limit, for the scanner
    frames,      \* the records handed out so far
    answer       \* what the last call returned

vars == <<stream, format, max_depth, frames, answer>>

\* The answers that end a framing.
Errors == {"eof", "malformed"}

\* Failures that say nothing about the fragment: a record above the ceiling,
\* an error of the source.
Refusals == {"too_large", "read_failed"}

Init ==
    /\ format \in Formats
    /\ stream \in Streams[format]
    /\ max_depth = DEFAULT_MAX_DEPTH
    /\ frames = <<>>
    /\ answer = "none"

\* The limit is chosen before the first record is asked for.
Configure ==
    /\ answer = "none"
    /\ max_depth' \in Depths
    /\ UNCHANGED <<stream, format, frames, answer>>

\* The next record begins at offset `at`, which is inside the fragment.
RecordAt(at) ==
    /\ at < Len(stream)
    /\ OnlySeparators(stream, EndOf(frames), at)
    /\ stream[at + 1] \notin Separators

FromOffset(at) == SubSeq(stream, at + 1, Len(stream))

Deliver ==
    \E at \in EndOf(frames)..Len(stream) :
        LET v == Scan(FromOffset(at), format, max_depth) IN
        /\ RecordAt(at)
        /\ v.kind = "complete"
        /\ frames' = Append(frames,
                       [at |-> at, bytes |-> SubSeq(stream, at + 1, at + v.len)])
        /\ answer' = "frame"
        /\ UNCHANGED <<stream, format, max_depth>>

Finish ==
    /\ OnlySeparators(stream, EndOf(frames), Len(stream))
    /\ answer' = "end"
    /\ UNCHANGED <<stream, format, max_depth, frames>>

\* The fragment stops inside a record.
Truncated ==
    \E at \in EndOf(frames)..Len(stream) :
        /\ RecordAt(at)
        /\ Scan(FromOffset(at), format, max_depth).kind = "incomplete"
        /\ answer' = "eof"
        /\ UNCHANGED <<stream, format, max_depth, frames>>

\* The next bytes are not the start of a record.
Malformed ==
    \E at \in EndOf(frames)..Len(stream) :
        /\ RecordAt(at)
        /\ Scan(FromOffset(at), format, max_depth).kind = "error"
        /\ answer' = "malformed"
        /\ UNCHANGED <<stream, format, max_depth, frames>>

Refuse ==
    /\ answer' \in Refusals
    /\ UNCHANGED <<stream, format, max_depth, frames>>

\* An iterator that failed ends.
Stop ==
    /\ answer \in Errors
    /\ answer' = "stopped"
    /\ UNCHANGED <<stream, format, max_depth, frames>>

Next == Configure \/ Deliver \/ Finish \/ Truncated \/ Malformed \/ Refuse \/ Stop

Spec == Init /\ [][Next]_vars
=============================================================================
