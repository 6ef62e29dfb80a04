---------------------------- MODULE FramesProofs ----------------------------
(***************************************************************************)
(* Theorems about Frames, for every set of fragments and every scanner     *)
(* whose verdicts are in range.                                            *)
(***************************************************************************)
EXTENDS Frames, SequenceTheorems, TLAPS

(***************************************************************************)
(* Between the last record and the cursor lie separators only, and an      *)
(* iterator that failed has said so.                                       *)
(***************************************************************************)
CursorInv ==
    /\ TypeOK
    /\ EndOf(frames) \in 0..pos
    /\ OnlySeparators(input, EndOf(frames), pos)
    /\ failed => answer \in {"eof", "malformed", "end"}

LEMMA InputType ==
    ASSUME TypeOK
    PROVE  input \in Seq(Byte) /\ Len(input) \in Nat
BY StreamsAreByteStrings, LenProperties DEF TypeOK

\* What is left behind k separators, as a stretch of the input.
LEMMA RestType ==
    ASSUME TypeOK, NEW k \in 0..(Len(input) - pos)
    PROVE  /\ Rest(k) \in Seq(Byte)
           /\ Len(Rest(k)) = Len(input) - pos - k
           /\ \A i \in 1..(Len(input) - pos - k) : Rest(k)[i] = input[pos + k + i]
<1>1. input \in Seq(Byte) /\ Len(input) \in Nat /\ pos \in 0..Len(input)
  BY InputType DEF TypeOK
<1>2. \A i \in (pos + k + 1)..Len(input) : input[i] \in Byte
  BY <1>1, ElementOfSeq
<1> QED
  BY <1>1, <1>2, SubSeqProperties DEF Rest

LEMMA JudgedInRange ==
    ASSUME TypeOK, NEW k \in 0..(Len(input) - pos), pos + k < Len(input)
    PROVE  /\ Judged(k) \in Verdict
           /\ Judged(k).kind = "complete" => Judged(k).len \in 1..(Len(input) - pos - k)
<1> DEFINE i == pos + k + 1
<1>1. input \in Streams[format] /\ format \in Formats /\ max_depth \in Limits
  BY DEF TypeOK
<1>2. /\ Len(input) \in Nat /\ pos \in 0..Len(input)
      /\ i \in 1..Len(input) /\ Len(input) \in i..Len(input)
      /\ Len(input) + 1 - i = Len(input) - pos - k
  BY InputType DEF TypeOK
<1>3. Judged(k) = Scan(SubSeq(input, i, Len(input)), format, max_depth)
  BY DEF Judged, Rest
<1> HIDE DEF i
<1> QED
  BY <1>1, <1>2, <1>3, ScanInRange DEF AnswersInRange

\* The bytes of a record, as a stretch of the input.
LEMMA RecordBytes ==
    ASSUME TypeOK, NEW k \in 0..(Len(input) - pos),
           NEW n \in 1..(Len(input) - pos - k)
    PROVE  /\ SubSeq(Rest(k), 1, n) = SubSeq(input, pos + k + 1, pos + k + n)
           /\ SubSeq(Rest(k), 1, n) \in Seq(Byte)
           /\ Len(SubSeq(Rest(k), 1, n)) = n
<1>1. input \in Seq(Byte) /\ Len(input) \in Nat /\ pos \in 0..Len(input)
  BY InputType DEF TypeOK
<1> DEFINE taken == SubSeq(Rest(k), 1, n)
           stretch == SubSeq(input, pos + k + 1, pos + k + n)
<1>2. /\ taken \in Seq(Byte) /\ Len(taken) = n
      /\ \A i \in 1..n : taken[i] = Rest(k)[i]
  <2>1. \A i \in 1..n : Rest(k)[i] \in Byte
    BY RestType, ElementOfSeq, <1>1
  <2> QED
    BY <2>1, <1>1, RestType, SubSeqProperties
<1>3. /\ stretch \in Seq(Byte) /\ Len(stretch) = n
      /\ \A i \in 1..n : stretch[i] = input[pos + k + i]
  <2>1. \A i \in (pos + k + 1)..(pos + k + n) : input[i] \in Byte
    BY <1>1, ElementOfSeq
  <2> QED
    BY <2>1, <1>1, SubSeqProperties
<1>4. \A i \in 1..n : taken[i] = stretch[i]
  BY <1>1, <1>2, <1>3, RestType
<1> HIDE DEF taken, stretch
<1>5. taken = stretch
  BY <1>2, <1>3, <1>4, SeqEqual
<1> QED
  BY <1>2, <1>5 DEF taken, stretch

\* The separators stepped over extend the gap behind the last record.
LEMMA SkipStep ==
    ASSUME CursorInv, NEW k \in 0..(Len(input) - pos), Skips(k)
    PROVE  /\ OnlySeparators(input, EndOf(frames), pos + k)
           /\ EndOf(frames) \in 0..(pos + k)
           /\ pos + k \in 0..Len(input)
           /\ pos + k < Len(input) => input[pos + k + 1] \notin Separators
<1>1. Len(input) \in Nat /\ pos \in 0..Len(input)
  BY InputType DEF CursorInv, TypeOK
<1>2. /\ Len(Rest(0)) = Len(input) - pos
      /\ \A i \in 1..(Len(input) - pos) : Rest(0)[i] = input[pos + i]
  BY <1>1, RestType DEF CursorInv
<1>3. SeparatorRun(Rest(0), k)
  BY <1>1 DEF Skips, Rest
<1>4. \A i \in (pos + 1)..(pos + k) : input[i] \in Separators
  <2>1. \A i \in (pos + 1)..(pos + k) : i - pos \in 1..k /\ pos + (i - pos) = i
    BY <1>1
  <2> QED
    BY <1>1, <1>2, <1>3, <2>1 DEF SeparatorRun
<1>5. pos + k < Len(input) => input[pos + k + 1] \notin Separators
  BY <1>1, <1>2, <1>3 DEF SeparatorRun
<1> QED
  BY <1>1, <1>4, <1>5 DEF CursorInv, OnlySeparators

LEMMA CursorInit == Init => CursorInv
<1> SUFFICES ASSUME Init PROVE CursorInv
  OBVIOUS
<1>1. input \in Seq(Byte) /\ Len(input) \in Nat
  BY StreamsAreByteStrings, LenProperties DEF Init
<1>2. frames \in Seq(Frame) /\ EndOf(frames) = 0
  BY EmptySeq DEF Init, EndOf
<1>3. TypeOK
  <2>1. pos \in 0..Len(input) /\ input \in Streams[format]
    BY <1>1 DEF Init
  <2>2. format \in Formats /\ max_depth \in Limits /\ failed \in BOOLEAN /\ answer \in Answers
    BY DEF Init, Limits, Answers
  <2> QED
    BY <1>2, <2>1, <2>2 DEF TypeOK
<1> QED
  BY <1>2, <1>3 DEF Init, CursorInv, OnlySeparators

LEMMA DeliveredFrame ==
    ASSUME CursorInv, NEW k \in 0..(Len(input) - pos), pos + k < Len(input),
           Judged(k).kind = "complete",
           frames' = Append(frames,
               [at |-> pos + k, bytes |-> SubSeq(Rest(k), 1, Judged(k).len)])
    PROVE  /\ frames' \in Seq(Frame)
           /\ EndOf(frames') = pos + k + Judged(k).len
           /\ pos + k + Judged(k).len \in 0..Len(input)
<1> DEFINE n == Judged(k).len
           f == [at |-> pos + k, bytes |-> SubSeq(Rest(k), 1, n)]
<1>1. /\ Len(input) \in Nat /\ pos \in 0..Len(input) /\ frames \in Seq(Frame)
      /\ n \in 1..(Len(input) - pos - k)
  BY InputType, JudgedInRange DEF CursorInv, TypeOK
<1>2. f.bytes \in Seq(Byte) /\ Len(f.bytes) = n
  BY <1>1, RecordBytes DEF CursorInv
<1>3. f \in Frame /\ FrameEnd(f) = pos + k + n
  BY <1>1, <1>2 DEF Frame, FrameEnd
<1> HIDE DEF f, n
<1>4. frames' = Append(frames, f)
  BY DEF f, n
<1>5. frames' \in Seq(Frame) /\ frames' # <<>> /\ frames'[Len(frames')] = f
  BY <1>1, <1>3, <1>4, AppendProperties
<1>6. EndOf(frames') = pos + k + n
  BY <1>3, <1>5 DEF EndOf
<1>7. pos + k + n \in 0..Len(input)
  BY <1>1
<1> QED
  BY <1>5, <1>6, <1>7 DEF n

LEMMA CursorStep == CursorInv /\ [Next]_vars => CursorInv'
<1> SUFFICES ASSUME CursorInv, [Next]_vars PROVE CursorInv'
  OBVIOUS
<1>0. Len(input) \in Nat
  BY InputType DEF CursorInv
<1>1. CASE NoRecord \/ Fail
  <2>1. PICK k \in 0..(Len(input) - pos) :
          /\ Skips(k) /\ pos' = pos + k
          /\ UNCHANGED <<input, format, max_depth, frames>>
          /\ \/ failed' = failed /\ answer' = "end"
             \/ answer' \in {"eof", "malformed"} /\ failed' \in BOOLEAN
    BY <1>1 DEF NoRecord, Fail, FailAnswer
  <2>2. ~failed
    BY <2>1 DEF Skips
  <2> QED
    BY <1>0, <2>1, <2>2, SkipStep DEF CursorInv, TypeOK, Answers
<1>2. CASE Deliver
  <2>1. PICK k \in 0..(Len(input) - pos) :
          /\ Skips(k)
          /\ pos + k < Len(input)
          /\ Judged(k).kind = "complete"
          /\ pos' = pos + k + Judged(k).len
          /\ frames' = Append(frames,
               [at |-> pos + k, bytes |-> SubSeq(Rest(k), 1, Judged(k).len)])
    BY <1>2 DEF Deliver
  <2>2. answer' = "frame" /\ UNCHANGED <<input, format, max_depth, failed>>
    BY <1>2 DEF Deliver
  <2>3. /\ frames' \in Seq(Frame)
        /\ EndOf(frames') = pos' /\ pos' \in 0..Len(input)
    BY <2>1, DeliveredFrame
  <2>4. ~failed
    BY <2>1 DEF Skips
  <2>5. TypeOK'
    BY <2>2, <2>3 DEF CursorInv, TypeOK, Answers
  <2>6. EndOf(frames)' = EndOf(frames')
    BY DEF EndOf
  <2>7. OnlySeparators(input, pos, pos)'
    <3>1. pos' \in Nat
      BY <1>0, <2>3
    <3>2. \A n \in Nat : (n + 1)..n = {}
      OBVIOUS
    <3> QED
      BY <3>1, <3>2 DEF OnlySeparators
  <2> QED
    BY <1>0, <2>2, <2>3, <2>4, <2>5, <2>6, <2>7 DEF CursorInv
<1>3. CASE WithMaxDepth \/ Fused \/ UNCHANGED vars
  BY <1>3 DEF WithMaxDepth, Fused, vars, CursorInv, TypeOK, Limits, Answers
<1> QED
  BY <1>1, <1>2, <1>3 DEF Next

LEMMA CursorAlways == Spec => []CursorInv
BY CursorInit, CursorStep, PTL DEF Spec

\* The cursor stays inside the input, and what was handed out are byte strings.
THEOREM TypeCorrect == Spec => []TypeOK
BY CursorAlways, PTL DEF CursorInv

\* An error is returned once, and nothing after it.
THEOREM ErrorIsReturnedOnce == Spec => FailsOnce
<1>1. CursorInv /\ [Next]_vars =>
        [failed => answer' = "end" /\ frames' = frames]_vars
  BY DEF CursorInv, Next, WithMaxDepth, Fused, NoRecord, Deliver, Fail, Skips, vars
<1> QED
  BY <1>1, CursorAlways, PTL DEF Spec, FailsOnce

-----------------------------------------------------------------------------
\* The operators of Records mean the same inside Framing.
LEMMA SameRecords ==
    /\ Whole!Separators = Separators
    /\ \A fs : Whole!EndOf(fs) = EndOf(fs)
    /\ \A s, from, to : Whole!OnlySeparators(s, from, to) <=> OnlySeparators(s, from, to)
BY DEF Whole!Separators, Separators, Whole!EndOf, EndOf, Whole!FrameEnd, FrameEnd,
       Whole!OnlySeparators, OnlySeparators

\* A record seems to begin behind k separators, and one does.
LEMMA RecordStart ==
    ASSUME CursorInv, NEW k \in 0..(Len(input) - pos), Skips(k), pos + k < Len(input)
    PROVE  /\ pos + k \in EndOf(frames)..Len(input)
           /\ Whole!RecordAt(pos + k)
           /\ Whole!FromOffset(pos + k) = Rest(k)
<1>1. Len(input) \in Nat /\ pos \in Nat
  BY InputType DEF CursorInv, TypeOK
<1>2. /\ OnlySeparators(input, EndOf(frames), pos + k)
      /\ EndOf(frames) \in 0..(pos + k)
      /\ input[pos + k + 1] \notin Separators
  BY SkipStep
<1> QED
  BY <1>1, <1>2, SameRecords DEF Whole!RecordAt, Whole!FromOffset, Rest

LEMMA FramingStep == CursorInv /\ [Next]_vars => [Whole!Next]_(Whole!vars)
<1> SUFFICES ASSUME CursorInv, [Next]_vars PROVE [Whole!Next]_(Whole!vars)
  OBVIOUS
<1> DEFINE shown == IF failed /\ answer = "end" THEN "stopped" ELSE answer
<1>0. Len(input) \in Nat /\ pos \in Nat
  BY InputType DEF CursorInv, TypeOK
<1>1. CASE WithMaxDepth
  <2>1. Whole!Configure
    BY <1>1 DEF WithMaxDepth, Whole!Configure
  <2> QED
    BY <2>1 DEF Whole!Next
<1>2. CASE Fused
  <2>1. shown' = "stopped" /\ UNCHANGED <<input, format, max_depth, frames>>
    BY <1>2 DEF Fused
  <2>2. shown \in {"eof", "malformed", "stopped"}
    BY <1>2 DEF Fused, CursorInv
  <2>3. CASE shown = "stopped"
    BY <2>1, <2>3 DEF Whole!vars
  <2>4. CASE shown # "stopped"
    <3>1. Whole!Stop
      BY <2>1, <2>2, <2>4 DEF Whole!Stop, Whole!Errors
    <3> QED
      BY <3>1 DEF Whole!Next
  <2> QED
    BY <2>3, <2>4
<1>3. CASE NoRecord
  <2>1. PICK k \in 0..(Len(input) - pos) : Skips(k) /\ pos + k = Len(input)
    BY <1>3 DEF NoRecord
  <2>2. OnlySeparators(input, EndOf(frames), Len(input))
    BY <2>1, SkipStep
  <2>3. ~failed'
    BY <1>3, <2>1 DEF NoRecord, Skips
  <2>4. Whole!Finish
    BY <1>3, <2>2, <2>3, SameRecords DEF NoRecord, Whole!Finish
  <2> QED
    BY <2>4 DEF Whole!Next
<1>4. CASE Deliver
  <2>1. PICK k \in 0..(Len(input) - pos) :
          /\ Skips(k)
          /\ pos + k < Len(input)
          /\ Judged(k).kind = "complete"
          /\ frames' = Append(frames,
               [at |-> pos + k, bytes |-> SubSeq(Rest(k), 1, Judged(k).len)])
    BY <1>4 DEF Deliver
  <2> DEFINE at == pos + k
             n == Judged(k).len
  <2>2. /\ at \in EndOf(frames)..Len(input)
        /\ Whole!RecordAt(at)
        /\ Scan(Whole!FromOffset(at), format, max_depth) = Judged(k)
    BY <2>1, RecordStart DEF Judged
  <2>3. SubSeq(Rest(k), 1, n) = SubSeq(input, at + 1, at + n)
    BY <2>1, JudgedInRange, RecordBytes DEF CursorInv
  <2>4. /\ frames' = Append(frames, [at |-> at, bytes |-> SubSeq(input, at + 1, at + n)])
        /\ shown' = "frame"
        /\ UNCHANGED <<input, format, max_depth>>
    BY <1>4, <2>1, <2>3 DEF Deliver
  <2>5. Whole!Deliver
    <3> HIDE DEF at
    <3> QED
      BY <2>1, <2>2, <2>4, SameRecords DEF Whole!Deliver
  <2> QED
    BY <2>5 DEF Whole!Next
<1>5. CASE Fail
  <2>1. PICK k \in 0..(Len(input) - pos) :
          /\ Skips(k)
          /\ pos + k < Len(input)
          /\ Judged(k).kind # "complete"
          /\ answer' = FailAnswer(k)
    BY <1>5 DEF Fail
  <2> DEFINE at == pos + k
  <2>2. /\ at \in EndOf(frames)..Len(input)
        /\ Whole!RecordAt(at)
        /\ Scan(Whole!FromOffset(at), format, max_depth) = Judged(k)
    BY <2>1, RecordStart DEF Judged
  <2>3. Judged(k).kind \in {"incomplete", "error"}
    BY <2>1, JudgedInRange DEF CursorInv, Verdict
  <2>4. UNCHANGED <<input, format, max_depth, frames>>
    BY <1>5 DEF Fail
  <2> HIDE DEF at
  <2>5. CASE Judged(k).kind = "incomplete"
    <3>1. shown' = "eof"
      BY <2>1, <2>5 DEF FailAnswer
    <3>2. Whole!Truncated
      BY <2>2, <2>4, <2>5, <3>1, SameRecords DEF Whole!Truncated
    <3> QED
      BY <3>2 DEF Whole!Next
  <2>6. CASE Judged(k).kind = "error"
    <3>1. shown' = "malformed"
      BY <2>1, <2>6 DEF FailAnswer
    <3>2. Whole!Malformed
      BY <2>2, <2>4, <2>6, <3>1, SameRecords DEF Whole!Malformed
    <3> QED
      BY <3>2 DEF Whole!Next
  <2> QED
    BY <2>3, <2>5, <2>6
<1>6. CASE UNCHANGED vars
  BY <1>6 DEF vars, Whole!vars
<1> QED
  BY <1>1, <1>2, <1>3, <1>4, <1>5, <1>6 DEF Next

\* Frames implements Framing: the iterator over a slice hands out the records of
\* the fragment in order, ends where they end, and fails where the next bytes are
\* no record or not all of one.
THEOREM FramesImplementsFraming == Spec => ImplementsFraming
<1>1. Init => Whole!Init
  BY DEF Init, Formats, Whole!Init, Whole!Formats
<1> QED
  BY <1>1, FramingStep, CursorAlways, PTL DEF Spec, ImplementsFraming, Whole!Spec
=============================================================================
