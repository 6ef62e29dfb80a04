------------------------------- MODULE Frames -------------------------------
(***************************************************************************)
(* Frames of src/core/frames.rs: the iterator over the records of a        *)
(* fragment that is held in memory.  A call of next is one step.           *)
(***************************************************************************)
EXTENDS Records

VARIABLES
    input, pos, format, max_depth, failed,
    frames,            \* history: the records handed out
    answer             \* history: what the last call returned

vars == <<input, pos, format, max_depth, failed, frames, answer>>

Answers == {"none", "frame", "end", "eof", "malformed"}

Init ==
    /\ format \in Formats
    /\ input \in Streams[format]
    /\ pos = 0
    /\ max_depth = DEFAULT_MAX_DEPTH
    /\ failed = FALSE
    /\ frames = <<>>
    /\ answer = "none"

WithMaxDepth ==
    /\ answer = "none"
    /\ max_depth' \in Depths
    /\ UNCHANGED <<input, format, pos, failed, frames, answer>>

\* An iterator that failed yields None and looks at nothing.
Fused ==
    /\ failed
    /\ answer' = "end"
    /\ UNCHANGED <<input, format, pos, max_depth, failed, frames>>

-----------------------------------------------------------------------------
\* Mutant: the iterator does not remember that it failed.
SkipsUnfused(k) == SeparatorRun(SubSeq(input, pos + 1, Len(input)), k)

Skips(k) == ~failed /\ SeparatorRun(SubSeq(input, pos + 1, Len(input)), k)

Rest(k) == SubSeq(input, pos + k + 1, Len(input))

Judged(k) == Scan(Rest(k), format, max_depth)

NoRecord ==
    \E k \in 0..(Len(input) - pos) :
        /\ Skips(k)
        /\ pos + k = Len(input)
        /\ pos' = pos + k
        /\ answer' = "end"
        /\ UNCHANGED <<input, format, max_depth, failed, frames>>

\* Mutant: the byte behind a record is taken for its separator.
DeliverEatsSeparator ==
    \E k \in 0..(Len(input) - pos) :
        /\ Skips(k)
        /\ pos + k < Len(input)
        /\ Judged(k).kind = "complete"
        /\ pos' = pos + k + Judged(k).len + 1
        /\ frames' = Append(frames,
                       [at |-> pos + k, bytes |-> SubSeq(Rest(k), 1, Judged(k).len)])
        /\ answer' = "frame"
        /\ UNCHANGED <<input, format, max_depth, failed>>

Deliver ==
    \E k \in 0..(Len(input) - pos) :
        /\ Skips(k)
        /\ pos + k < Len(input)
        /\ Judged(k).kind = "complete"
        /\ pos' = pos + k + Judged(k).len
        /\ frames' = Append(frames,
                       [at |-> pos + k, bytes |-> SubSeq(Rest(k), 1, Judged(k).len)])
        /\ answer' = "frame"
        /\ UNCHANGED <<input, format, max_depth, failed>>

\* Mutant: short and malformed are confused.
FailAnswerSwapped(k) == IF Judged(k).kind = "incomplete" THEN "malformed" ELSE "eof"

FailAnswer(k) == IF Judged(k).kind = "incomplete" THEN "eof" ELSE "malformed"

\* Mutant: the error is returned again by every call.
FailForgets ==
    \E k \in 0..(Len(input) - pos) :
        /\ Skips(k)
        /\ pos + k < Len(input)
        /\ Judged(k).kind # "complete"
        /\ pos' = pos + k
        /\ answer' = FailAnswer(k)
        /\ UNCHANGED <<input, format, max_depth, failed, frames>>

Fail ==
    \E k \in 0..(Len(input) - pos) :
        /\ Skips(k)
        /\ pos + k < Len(input)
        /\ Judged(k).kind # "complete"
        /\ pos' = pos + k
        /\ failed' = TRUE
        /\ answer' = FailAnswer(k)
        /\ UNCHANGED <<input, format, max_depth, frames>>

Next == WithMaxDepth \/ Fused \/ NoRecord \/ Deliver \/ Fail

Spec == Init /\ [][Next]_vars

\* `for frame in frames`: the caller goes on until it gets None.
LoopSpec == Spec /\ WF_vars(Fused \/ NoRecord \/ Deliver \/ Fail)

-----------------------------------------------------------------------------
TypeOK ==
    /\ format \in Formats
    /\ input \in Streams[format]
    /\ pos \in 0..Len(input)
    /\ max_depth \in Limits
    /\ failed \in BOOLEAN
    /\ frames \in Seq(Frame)
    /\ answer \in Answers

\* After an error the iterator stops: no record is handed out any more, and the
\* error is not repeated.
FailsOnce == [][failed => answer' = "end" /\ frames' = frames]_vars

\* The iterator ends, on every input.
Ends == <>[](answer = "end")

-----------------------------------------------------------------------------
\* Frames implements Framing.  Framing tells the end of the input from an
\* iterator that failed and says no more; the code answers None to both.
Whole == INSTANCE Framing WITH
            stream <- input,
            answer <- IF failed /\ answer = "end" THEN "stopped" ELSE answer

ImplementsFraming == Whole!Spec
=============================================================================
