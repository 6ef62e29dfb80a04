---------------------------- MODULE FrameReader ----------------------------
(***************************************************************************)
(* FrameReader of src/core/frames.rs: it pulls a fragment from a source    *)
(* that implements Read, buffers it, and hands out one record per call of  *)
(* next_frame.                                                             *)
(*                                                                         *)
(* A call runs to its end before the next one begins (&mut self), but it   *)
(* takes several steps: the scan loop, making room, reading.  Each is an   *)
(* action, and the source chooses in every read how many bytes arrive, and *)
(* whether the read is interrupted or fails.  A failed call leaves the     *)
(* reader as it is, and the caller may call again.                         *)
(***************************************************************************)
EXTENDS Records

CONSTANTS
    DEFAULT_BUFFER_BYTES,      \* 64 KiB in the code
    DEFAULT_MAX_RECORD_BYTES,  \* 256 MiB in the code
    MinBufferBytes,            \* with_buffer_size never goes below 64
    BufferSizes,               \* what a caller passes to with_buffer_size
    Ceilings                   \* ... and to with_max_record_bytes

ASSUME SizesAssumption ==
    /\ DEFAULT_BUFFER_BYTES \in Nat \ {0}
    /\ DEFAULT_MAX_RECORD_BYTES \in Nat
    /\ MinBufferBytes \in Nat \ {0}
    /\ BufferSizes \subseteq Nat
    /\ Ceilings \subseteq Nat

VARIABLES
    stream,            \* what the source yields until it ends
    sent,              \* how much of it the source has yielded
    format,
    buf, filled, pos, base_offset, max_depth, max_record_bytes, input_done,
    pc,                \* where the reader is: see Phases
    frames,            \* history: the records handed out
    answer,            \* history: what the last call returned
    configured         \* history: the buffer size the caller asked for

source == <<stream, sent, format>>
settings == <<max_depth, max_record_bytes, configured>>
buffer == <<buf, filled, pos, base_offset>>
history == <<frames, answer>>
vars == <<source, settings, buffer, input_done, pc, history>>

\* "building": no call was made yet; "idle": between calls; the others are
\* the places inside a call of next_frame.
Phases == {"building", "idle", "scan", "fill", "read"}

Answers == {"none", "frame", "end", "eof", "malformed", "too_large", "read_failed"}

MinOf(a, b) == IF a < b THEN a ELSE b
MaxOf(a, b) == IF a < b THEN b ELSE a

Zeros(n) == [i \in 1..n |-> 0]

-----------------------------------------------------------------------------
Init ==
    /\ format \in Formats
    /\ stream \in Streams[format]
    /\ sent = 0
    /\ buf = Zeros(DEFAULT_BUFFER_BYTES)
    /\ filled = 0
    /\ pos = 0
    /\ base_offset = 0
    /\ max_depth = DEFAULT_MAX_DEPTH
    /\ max_record_bytes = DEFAULT_MAX_RECORD_BYTES
    /\ input_done = FALSE
    /\ pc = "building"
    /\ frames = <<>>
    /\ answer = "none"
    /\ configured = DEFAULT_BUFFER_BYTES

\* with_buffer_size
SetBufferSize(bytes) ==
    /\ buf' = Zeros(MaxOf(bytes, MinBufferBytes))
    /\ configured' = MaxOf(bytes, MinBufferBytes)
    /\ UNCHANGED <<source, filled, pos, base_offset, max_depth, max_record_bytes,
                   input_done, pc, history>>

WithBufferSize ==
    /\ pc = "building"
    /\ \E bytes \in BufferSizes : SetBufferSize(bytes)

WithMaxRecordBytes ==
    /\ pc = "building"
    /\ max_record_bytes' \in Ceilings
    /\ UNCHANGED <<source, buffer, max_depth, configured, input_done, pc, history>>

WithMaxDepth ==
    /\ pc = "building"
    /\ max_depth' \in Depths
    /\ UNCHANGED <<source, buffer, max_record_bytes, configured, input_done, pc,
                   history>>

\* A call of next_frame.
NextFrame ==
    /\ pc \in {"building", "idle"}
    /\ pc' = "scan"
    /\ UNCHANGED <<source, settings, buffer, input_done, history>>

Return(what) ==
    /\ pc' = "idle"
    /\ answer' = what

-----------------------------------------------------------------------------
(***************************************************************************)
(* One turn of the loop of next_frame_len.  k separators are stepped over, *)
(* whatever the turn decides next.                                         *)
(***************************************************************************)
Window == SubSeq(buf, pos + 1, filled)

Rest(k) == SubSeq(buf, pos + k + 1, filled)

\* The verdict on what follows the separators.
Judged(k) == Scan(Rest(k), format, max_depth)

Skips(k) == pc = "scan" /\ SeparatorRun(Window, k)

\* Mutant: a value that ends where the buffer does is believed.
UndecidedTrusting(k) == pos + k = filled \/ Judged(k).kind = "incomplete"

\* The value is not whole in the buffer, or ends exactly where the buffer does
\* and might go on.
Undecided(k) ==
    \/ pos + k = filled
    \/ Judged(k).kind = "incomplete"
    \/ /\ Judged(k) = [kind |-> "complete", len |-> filled - pos - k]
       /\ ~input_done

\* next_frame hands out the record and steps over it.
Deliver ==
    \E k \in 0..(filled - pos) :
        LET len == Judged(k).len IN
        /\ Skips(k)
        /\ ~Undecided(k)
        /\ Judged(k).kind = "complete"
        /\ pos' = pos + k + len
        /\ frames' = Append(frames, [at    |-> base_offset + pos + k,
                                     bytes |-> SubSeq(buf, pos + k + 1, pos + k + len)])
        /\ Return("frame")
        /\ UNCHANGED <<source, settings, buf, filled, base_offset, input_done>>

\* Mutant: the byte in error is stepped over, as if to find the next record.
MalformedResyncs ==
    \E k \in 0..(filled - pos) :
        /\ Skips(k)
        /\ ~Undecided(k)
        /\ Judged(k).kind = "error"
        /\ pos' = pos + k + 1
        /\ Return("malformed")
        /\ UNCHANGED <<source, settings, buf, filled, base_offset, input_done, frames>>

Malformed ==
    \E k \in 0..(filled - pos) :
        /\ Skips(k)
        /\ ~Undecided(k)
        /\ Judged(k).kind = "error"
        /\ pos' = pos + k
        /\ Return("malformed")
        /\ UNCHANGED <<source, settings, buf, filled, base_offset, input_done, frames>>

\* Mutant: what is left in the buffer is forgotten.
EndAnswerQuiet(k) == "end"

EndAnswer(k) == IF pos + k = filled THEN "end" ELSE "eof"

\* The source has ended, at a record boundary or inside a record.
Exhausted ==
    \E k \in 0..(filled - pos) :
        /\ Skips(k)
        /\ Undecided(k)
        /\ input_done
        /\ pos' = pos + k
        /\ Return(EndAnswer(k))
        /\ UNCHANGED <<source, settings, buf, filled, base_offset, input_done, frames>>

\* Mutant: the source is asked again after it has ended.
NeedMoreAgain ==
    \E k \in 0..(filled - pos) :
        /\ Skips(k)
        /\ Undecided(k)
        /\ pos' = pos + k
        /\ pc' = "fill"
        /\ UNCHANGED <<source, settings, buf, filled, base_offset, input_done, history>>

NeedMore ==
    \E k \in 0..(filled - pos) :
        /\ Skips(k)
        /\ Undecided(k)
        /\ ~input_done
        /\ pos' = pos + k
        /\ pc' = "fill"
        /\ UNCHANGED <<source, settings, buf, filled, base_offset, input_done, history>>

-----------------------------------------------------------------------------
(***************************************************************************)
(* fill: the bytes not handed out move to the front, the buffer grows when *)
(* they occupy all of it, and one read follows.                            *)
(***************************************************************************)
\* Mutant: the cursors are swapped.
PendingSwapped == pos - filled

Pending == filled - pos

\* Mutant: the test is made before the buffer is compacted.
FullBeforeCompacting == filled = Len(buf)

Full == Pending = Len(buf)

\* Mutant: a record is refused once doubling would pass the ceiling.
AtCeilingEarly == 2 * Len(buf) > max_record_bytes

AtCeiling == Len(buf) >= max_record_bytes

\* Mutant: the buffer doubles past the ceiling.
GrownUncapped == 2 * Len(buf)

Grown == MinOf(2 * Len(buf), max_record_bytes)

\* Mutant: the bytes are not moved.
CompactedInPlace == buf

\* copy_within(pos..filled, 0): what lies behind the moved bytes stays.
Compacted == [i \in 1..Len(buf) |-> IF i <= Pending THEN buf[pos + i] ELSE buf[i]]

Resized(b, n) == [i \in 1..n |-> IF i <= Len(b) THEN b[i] ELSE 0]

\* Mutant: the offset of the buffer in the stream is not advanced.
CompactForgetsOffset ==
    /\ filled' = Pending
    /\ pos' = 0
    /\ base_offset' = base_offset

Compact ==
    /\ filled' = Pending
    /\ pos' = 0
    /\ base_offset' = base_offset + pos

MakeRoom ==
    /\ pc = "fill"
    /\ ~(Full /\ AtCeiling)
    /\ Compact
    /\ buf' = IF Full THEN Resized(Compacted, Grown) ELSE Compacted
    /\ pc' = "read"
    /\ UNCHANGED <<source, settings, input_done, history>>

\* The record in flight does not fit below the ceiling.
RefuseRecord ==
    /\ pc = "fill"
    /\ Full /\ AtCeiling
    /\ Compact
    /\ buf' = Compacted
    /\ Return("too_large")
    /\ UNCHANGED <<source, settings, input_done, frames>>

Room == Len(buf) - filled

\* Ok(n): the source puts n of its next bytes into the free space.
ReadSome ==
    /\ pc = "read"
    /\ \E n \in 1..MinOf(Room, Len(stream) - sent) :
          /\ buf' = [i \in 1..Len(buf) |->
                       IF i \in (filled + 1)..(filled + n)
                       THEN stream[sent + i - filled]
                       ELSE buf[i]]
          /\ filled' = filled + n
          /\ sent' = sent + n
    /\ pc' = "scan"
    /\ UNCHANGED <<stream, format, settings, pos, base_offset, input_done, history>>

\* Mutant: the end of the source is not noted.
ReadNothingIgnored ==
    /\ pc = "read"
    /\ sent = Len(stream) \/ Room = 0
    /\ pc' = "scan"
    /\ UNCHANGED <<source, settings, buffer, input_done, history>>

\* Ok(0): the source has ended, or was given no space.
ReadNothing ==
    /\ pc = "read"
    /\ sent = Len(stream) \/ Room = 0
    /\ input_done' = TRUE
    /\ pc' = "scan"
    /\ UNCHANGED <<source, settings, buffer, history>>

\* ErrorKind::Interrupted: the inner loop reads again.
ReadInterrupted ==
    /\ pc = "read"
    /\ UNCHANGED vars

ReadFailed ==
    /\ pc = "read"
    /\ Return("read_failed")
    /\ UNCHANGED <<source, settings, buffer, input_done, frames>>

-----------------------------------------------------------------------------
ScanStep == Deliver \/ Malformed \/ Exhausted \/ NeedMore
FillStep == MakeRoom \/ RefuseRecord
ReadStep == ReadSome \/ ReadNothing \/ ReadInterrupted \/ ReadFailed

Next ==
    \/ WithBufferSize \/ WithMaxRecordBytes \/ WithMaxDepth
    \/ NextFrame
    \/ Deliver \/ Malformed \/ Exhausted \/ NeedMore
    \/ MakeRoom \/ RefuseRecord
    \/ ReadSome \/ ReadNothing \/ ReadInterrupted \/ ReadFailed

Spec == Init /\ [][Next]_vars

\* The builders take the reader by value, so a caller may use them between
\* calls too.
LateWithBufferSize ==
    /\ pc = "idle"
    /\ \E bytes \in BufferSizes : SetBufferSize(bytes)

LateSpec == Init /\ [][Next \/ LateWithBufferSize]_vars

\* The code of a call runs until it returns; a read is not interrupted for
\* ever, and a source that is asked again and again does not fail for ever.
Progress ==
    /\ WF_vars(ScanStep)
    /\ WF_vars(FillStep)
    /\ WF_vars(ReadSome \/ ReadNothing \/ ReadFailed)

FairSpec == Spec /\ Progress

\* A caller that goes on calling.
LoopSpec == FairSpec /\ WF_vars(NextFrame) /\ SF_vars(ReadSome \/ ReadNothing)

-----------------------------------------------------------------------------
\* The shape of the state: a byte buffer, natural cursors (filled - pos stays a
\* number), the phase and the answers the reader can be in.
TypeOK ==
    /\ format \in Formats
    /\ stream \in Streams[format]
    /\ sent \in 0..Len(stream)
    /\ buf \in Seq(Byte)
    /\ filled \in Nat
    /\ pos \in Nat
    /\ base_offset \in Nat
    /\ max_depth \in Limits
    /\ max_record_bytes \in Nat
    /\ configured \in Nat
    /\ input_done \in BOOLEAN
    /\ pc \in Phases
    /\ frames \in Seq(Frame)
    /\ answer \in Answers

\* position()
Position == base_offset + pos

\* The cursors of the reader are offsets into its buffer, so no slice of it is
\* out of bounds.
CursorsInBounds ==
    /\ pos <= filled
    /\ filled <= Len(buf)

\* Compacting, growing and reading never misplace a byte: what the buffer holds
\* below `filled` is the stretch of the stream that base_offset names, and its
\* end is where the source stands.
BufferHoldsStream ==
    /\ base_offset + filled = sent
    /\ \A i \in 1..filled : buf[i] = stream[base_offset + i]

\* A read is never handed an empty slice, whose Ok(0) fill would take for the
\* end of the input: the input is done only when the source is.
EndOfInputIsReal ==
    /\ pc = "read" => filled < Len(buf)
    /\ input_done => sent = Len(stream)

\* However the bytes arrive and whatever fails in between, the frames handed
\* out are the bytes of the stream in order, with separators only between them
\* and in front of the cursor: nothing is lost, repeated or split.
NothingLost ==
    /\ Tiles(stream, frames)
    /\ EndOf(frames) <= Position
    /\ OnlySeparators(stream, EndOf(frames), Position)

\* next_frame says that the stream is over only when every byte of it was
\* handed out or separates records.
EndMeansEverything ==
    answer = "end" => OnlySeparators(stream, EndOf(frames), Len(stream))

\* The buffer outgrows what the caller asked for only up to the ceiling.
BufferIsBounded == Len(buf) <= MaxOf(configured, max_record_bytes)

\* The buffer doubles for a record in flight and for nothing else: it is never
\* more than twice as long as the longest record seen, or the one it is
\* waiting for, unless the caller asked for more.
BufferFollowsRecords ==
    \/ Len(buf) <= configured
    \/ Len(buf) <= 2 * Pending
    \/ \E i \in 1..Len(frames) : Len(buf) <= 2 * Len(frames[i].bytes)

\* A call that failed for what the stream holds fails the same way ever after:
\* the reader does not resume in the middle of a record.
ErrorIsFinal ==
    [][(answer \in {"eof", "malformed", "too_large"}) => answer' = answer]_vars

\* Every call of next_frame returns.
EveryCallReturns == pc = "scan" ~> pc = "idle"

\* A caller that goes on calling gets to the end of the stream, to an error in
\* it, or to a record above the ceiling, even if reads fail on the way.
StreamIsDrained == <>(answer \in {"end", "eof", "malformed", "too_large"})
=============================================================================
