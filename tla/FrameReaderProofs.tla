------------------------- MODULE FrameReaderProofs -------------------------
(***************************************************************************)
(* Theorems about FrameReader, for every set of streams, every scanner     *)
(* whose verdicts are in range, and all sizes.                             *)
(***************************************************************************)
EXTENDS FrameReaderFraming, SequenceTheorems, TLAPS

(***************************************************************************)
(* The part of the state that is not history is inductive by itself.       *)
(***************************************************************************)
BufferInv ==
    /\ TypeOK
    /\ CursorsInBounds
    /\ BufferHoldsStream
    /\ EndOfInputIsReal
    /\ Len(buf) > 0
    /\ pc = "building" => filled = 0 /\ answer = "none"

\* Streams are sequences of bytes, so what is said of sequences applies.
LEMMA StreamType ==
    ASSUME TypeOK
    PROVE  /\ stream \in Seq(Byte)
           /\ Len(stream) \in Nat
           /\ Len(buf) \in Nat
BY StreamsAreByteStrings, LenProperties DEF TypeOK

\* The buffers the code builds: filled with zeros, moved, resized, read into.
LEMMA ZerosType ==
    ASSUME NEW n \in Nat
    PROVE  Zeros(n) \in Seq(Byte) /\ Len(Zeros(n)) = n
BY DEF Zeros, Byte

LEMMA CompactedType ==
    ASSUME BufferInv
    PROVE  /\ Compacted \in Seq(Byte)
           /\ Len(Compacted) = Len(buf)
           /\ \A i \in 1..Pending : Compacted[i] = buf[pos + i]
BY StreamType DEF Compacted, Pending, BufferInv, TypeOK, CursorsInBounds

LEMMA ResizedType ==
    ASSUME NEW b \in Seq(Byte), NEW n \in Nat
    PROVE  /\ Resized(b, n) \in Seq(Byte)
           /\ Len(Resized(b, n)) = n
           /\ \A i \in 1..n : i <= Len(b) => Resized(b, n)[i] = b[i]
<1>1. Len(b) \in Nat /\ \A i \in 1..Len(b) : b[i] \in Byte
  BY ElementOfSeq, LenProperties
<1> QED
  BY <1>1 DEF Resized, Byte

\* What is scanned is a stretch of the stream: from the cursor to the last
\* byte the source has sent.
LEMMA RestIsStretch ==
    ASSUME BufferInv, NEW k \in 0..(filled - pos)
    PROVE  /\ Rest(k) = SubSeq(stream, Position + k + 1, sent)
           /\ Rest(k) \in Seq(Byte)
           /\ Len(Rest(k)) = filled - pos - k
           /\ \A i \in 1..(filled - pos - k) : Rest(k)[i] = stream[Position + k + i]
<1> USE DEF BufferInv, TypeOK, CursorsInBounds, BufferHoldsStream, Position
<1>1. /\ stream \in Seq(Byte)
      /\ Len(stream) \in Nat
      /\ Len(buf) \in Nat
  BY StreamType
<1>2. \A i \in (pos + k + 1)..filled : buf[i] \in Byte
  BY <1>1, ElementOfSeq
<1>3. /\ Rest(k) \in Seq(Byte)
      /\ Len(Rest(k)) = filled - pos - k
      /\ \A i \in 1..(filled - pos - k) : Rest(k)[i] = buf[pos + k + i]
  BY <1>1, <1>2, SubSeqProperties DEF Rest
<1> DEFINE stretch == SubSeq(stream, Position + k + 1, sent)
<1>4. \A i \in (Position + k + 1)..sent : stream[i] \in Byte
  BY <1>1, ElementOfSeq
<1>5. /\ stretch \in Seq(Byte)
      /\ Len(stretch) = filled - pos - k
      /\ \A i \in 1..(filled - pos - k) : stretch[i] = stream[Position + k + i]
  BY <1>1, <1>4, SubSeqProperties
<1>6. \A i \in 1..(filled - pos - k) : buf[pos + k + i] = stream[Position + k + i]
  BY <1>1
<1>7. Rest(k) = stretch
  <2> HIDE DEF stretch
  <2>1. Len(Rest(k)) = Len(stretch)
    BY <1>3, <1>5
  <2>2. \A i \in 1..Len(Rest(k)) : Rest(k)[i] = stretch[i]
    BY <1>3, <1>5, <1>6
  <2> QED
    BY <1>3, <1>5, <2>1, <2>2, SeqEqual
<1> QED
  BY <1>3, <1>5, <1>7

\* A verdict on bytes the buffer holds is in range.
LEMMA JudgedInRange ==
    ASSUME BufferInv, NEW k \in 0..(filled - pos), pos + k # filled
    PROVE  /\ Judged(k) \in Verdict
           /\ Judged(k).kind = "complete" => Judged(k).len \in 1..(filled - pos - k)
<1> USE DEF BufferInv, TypeOK, CursorsInBounds, BufferHoldsStream, Position
<1> DEFINE i == Position + k + 1
<1>1. stream \in Streams[format] /\ format \in Formats /\ max_depth \in Limits
  OBVIOUS
<1>2. i \in 1..Len(stream) /\ sent \in i..Len(stream)
  <2>1. Len(stream) \in Nat
    BY StreamType
  <2>2. k < filled - pos
    OBVIOUS
  <2> QED
    BY <2>1, <2>2
<1>3. Judged(k) = Scan(SubSeq(stream, i, sent), format, max_depth)
  BY RestIsStretch DEF Judged
<1>4. sent + 1 - i = filled - pos - k
  OBVIOUS
<1> HIDE DEF i
<1> QED
  BY <1>1, <1>2, <1>3, <1>4, ScanInRange DEF AnswersInRange

-----------------------------------------------------------------------------
LEMMA BufferInit == Init => BufferInv
<1> SUFFICES ASSUME Init PROVE BufferInv
  OBVIOUS
<1> USE DEF Init
<1>1. buf \in Seq(Byte) /\ Len(buf) = DEFAULT_BUFFER_BYTES /\ Len(buf) > 0
  BY ZerosType, SizesAssumption
<1>2. stream \in Seq(Byte) /\ Len(stream) \in Nat
  BY StreamsAreByteStrings, LenProperties
<1>3. frames \in Seq(Frame)
  BY EmptySeq
<1>4. TypeOK
  <2>1. /\ sent \in 0..Len(stream) /\ filled \in Nat /\ pos \in Nat
        /\ base_offset \in Nat /\ max_record_bytes \in Nat /\ configured \in Nat
    BY <1>2, SizesAssumption
  <2>2. /\ stream \in Streams[format] /\ format \in Formats /\ max_depth \in Limits /\ input_done \in BOOLEAN
        /\ pc \in Phases /\ answer \in Answers
    BY DEF Limits, Phases, Answers
  <2> QED
    BY <1>1, <1>3, <2>1, <2>2 DEF TypeOK
<1> QED
  BY <1>1, <1>2, <1>4 DEF BufferInv, CursorsInBounds, BufferHoldsStream, EndOfInputIsReal

\* A turn of the loop that moves the cursor, within what is filled, and leaves
\* the buffer alone.
LEMMA CursorStep ==
    ASSUME BufferInv,
           UNCHANGED <<stream, format, sent, buf, filled, base_offset, max_depth,
                       max_record_bytes, configured, input_done>>,
           pos' \in pos..filled,
           pc' \in {"idle", "fill"},
           frames' \in Seq(Frame),
           answer' \in Answers
    PROVE  BufferInv'
BY DEF BufferInv, TypeOK, CursorsInBounds, BufferHoldsStream, EndOfInputIsReal, Phases

\* Compaction: the pending bytes are at the front of what is now the buffer.
LEMMA CompactStep ==
    ASSUME BufferInv,
           UNCHANGED <<stream, format, sent, max_depth, max_record_bytes, configured,
                       input_done, frames>>,
           Compact,
           buf' \in Seq(Byte), Pending <= Len(buf'), Len(buf') > 0,
           \A i \in 1..Pending : buf'[i] = buf[pos + i],
           pc' = "idle" \/ (pc' = "read" /\ Pending < Len(buf')),
           answer' \in Answers
    PROVE  BufferInv'
<1>1. /\ filled \in Nat /\ pos \in Nat /\ base_offset \in Nat /\ Pending \in Nat
      /\ Pending = filled - pos
  BY DEF BufferInv, TypeOK, CursorsInBounds, Pending
<1>2. \A i \in 1..Pending : buf'[i] = stream[base_offset + pos + i]
  <2> SUFFICES ASSUME NEW i \in 1..Pending
               PROVE  buf'[i] = stream[base_offset + pos + i]
    OBVIOUS
  <2>1. buf'[i] = buf[pos + i] /\ pos + i \in 1..filled
    BY <1>1
  <2>2. buf[pos + i] = stream[base_offset + (pos + i)]
    BY <2>1 DEF BufferInv, BufferHoldsStream
  <2> QED
    BY <1>1, <2>1, <2>2
<1>3. TypeOK'
  BY <1>1 DEF Compact, BufferInv, TypeOK, Phases
<1>4. CursorsInBounds' /\ EndOfInputIsReal' /\ Len(buf') > 0
  BY <1>1 DEF Compact, BufferInv, CursorsInBounds, EndOfInputIsReal
<1>5. BufferHoldsStream'
  BY <1>1, <1>2 DEF Compact, BufferInv, BufferHoldsStream, TypeOK
<1> QED
  BY <1>3, <1>4, <1>5 DEF BufferInv

LEMMA FrameType ==
    ASSUME BufferInv, NEW k \in 0..(filled - pos), pos + k # filled,
           Judged(k).kind = "complete"
    PROVE  [at    |-> base_offset + pos + k,
            bytes |-> SubSeq(buf, pos + k + 1, pos + k + Judged(k).len)] \in Frame
<1> DEFINE len == Judged(k).len
<1>1. len \in 1..(filled - pos - k)
  BY JudgedInRange
<1> HIDE DEF len
<1>2. \A i \in (pos + k + 1)..(pos + k + len) : buf[i] \in Byte
  BY <1>1, ElementOfSeq, StreamType DEF BufferInv, TypeOK, CursorsInBounds
<1>3. SubSeq(buf, pos + k + 1, pos + k + len) \in Seq(Byte)
  BY <1>1, <1>2, SubSeqProperties DEF BufferInv, TypeOK
<1> QED
  BY <1>3 DEF Frame, BufferInv, TypeOK, len

LEMMA BufferStep == BufferInv /\ [Next]_vars => BufferInv'
<1> SUFFICES ASSUME BufferInv, [Next]_vars PROVE BufferInv'
  OBVIOUS
<1> USE DEF source, settings, buffer, history
<1>0. CASE UNCHANGED vars
  BY <1>0 DEF vars, BufferInv, TypeOK, CursorsInBounds, BufferHoldsStream, EndOfInputIsReal
<1>1. CASE WithBufferSize
  <2>1. PICK bytes \in BufferSizes : SetBufferSize(bytes)
    BY <1>1 DEF WithBufferSize
  <2> DEFINE size == MaxOf(bytes, MinBufferBytes)
  <2>2. size \in Nat \ {0}
    BY SizesAssumption DEF MaxOf
  <2>3. buf' = Zeros(size) /\ configured' = size
    BY <2>1 DEF SetBufferSize
  <2> HIDE DEF size
  <2>4. buf' \in Seq(Byte) /\ Len(buf') = size
    BY <2>2, <2>3, ZerosType
  <2> QED
    BY <1>1, <2>1, <2>2, <2>3, <2>4
    DEF WithBufferSize, SetBufferSize, BufferInv, TypeOK, CursorsInBounds,
        BufferHoldsStream, EndOfInputIsReal
<1>2. CASE WithMaxRecordBytes
  BY <1>2, SizesAssumption
  DEF WithMaxRecordBytes, BufferInv, TypeOK, CursorsInBounds, BufferHoldsStream,
      EndOfInputIsReal
<1>3. CASE WithMaxDepth
  BY <1>3
  DEF WithMaxDepth, Limits, BufferInv, TypeOK, CursorsInBounds, BufferHoldsStream,
      EndOfInputIsReal
<1>4. CASE NextFrame
  BY <1>4
  DEF NextFrame, BufferInv, TypeOK, CursorsInBounds, BufferHoldsStream,
      EndOfInputIsReal, Phases
<1>5. CASE Deliver
  <2>1. PICK k \in 0..(filled - pos) :
          /\ pos + k # filled
          /\ Judged(k).kind = "complete"
          /\ pos' = pos + k + Judged(k).len
          /\ frames' = Append(frames,
               [at    |-> base_offset + pos + k,
                bytes |-> SubSeq(buf, pos + k + 1, pos + k + Judged(k).len)])
    BY <1>5 DEF Deliver, Undecided
  <2> DEFINE len == Judged(k).len
  <2>a. len \in 1..(filled - pos - k) /\ pos' = pos + k + len
    BY <2>1, JudgedInRange
  <2> HIDE DEF len
  <2>2. pos' \in pos..filled
    BY <2>a DEF BufferInv, TypeOK, CursorsInBounds
  <2>3. frames' \in Seq(Frame)
    BY <2>1, FrameType, AppendProperties DEF BufferInv, TypeOK
  <2> QED
    BY <1>5, <2>2, <2>3, CursorStep DEF Deliver, Return, Answers
<1>6. CASE Malformed \/ Exhausted \/ NeedMore
  <2>1. PICK k \in 0..(filled - pos) : pos' = pos + k
    BY <1>6 DEF Malformed, Exhausted, NeedMore
  <2>2. pos' \in pos..filled
    BY <2>1 DEF BufferInv, TypeOK, CursorsInBounds
  <2>3. /\ pc' \in {"idle", "fill"}
        /\ answer' \in Answers
        /\ frames' = frames
        /\ UNCHANGED <<stream, format, sent, buf, filled, base_offset, max_depth,
                       max_record_bytes, configured, input_done>>
    BY <1>6 DEF Malformed, Exhausted, EndAnswer, NeedMore, Return, Answers, BufferInv, TypeOK
  <2> QED
    BY <2>2, <2>3, CursorStep DEF BufferInv, TypeOK
<1>7. CASE MakeRoom
  <2>1. /\ buf' \in Seq(Byte)
        /\ Pending < Len(buf')
        /\ \A i \in 1..Pending : buf'[i] = buf[pos + i]
    <3>1. Pending \in 0..Len(buf) /\ Len(buf) \in Nat \ {0} /\ max_record_bytes \in Nat
      BY StreamType DEF Pending, BufferInv, TypeOK, CursorsInBounds
    <3>2. CASE Full
      <4> DEFINE size == Grown
      <4>1. size \in Nat /\ size > Len(buf)
        BY <1>7, <3>1, <3>2 DEF MakeRoom, AtCeiling, Grown, MinOf
      <4>2. buf' = Resized(Compacted, size)
        BY <1>7, <3>2 DEF MakeRoom
      <4> HIDE DEF size
      <4>3. /\ Compacted \in Seq(Byte) /\ Len(Compacted) = Len(buf)
            /\ \A i \in 1..Pending : Compacted[i] = buf[pos + i]
        BY CompactedType
      <4>4. /\ buf' \in Seq(Byte) /\ Len(buf') = size
            /\ \A i \in 1..size : i <= Len(buf) => buf'[i] = Compacted[i]
        BY <4>1, <4>2, <4>3, ResizedType
      <4> QED
        BY <3>1, <4>1, <4>3, <4>4
    <3>3. CASE ~Full
      BY <1>7, <3>1, <3>3, CompactedType DEF MakeRoom, Full
    <3> QED
      BY <3>2, <3>3
  <2>2. Pending <= Len(buf') /\ Len(buf') > 0
    BY <2>1, StreamType, LenProperties DEF Pending, BufferInv, TypeOK, CursorsInBounds
  <2>3. answer' \in Answers
    BY <1>7 DEF MakeRoom, BufferInv, TypeOK
  <2> QED
    BY <1>7, <2>1, <2>2, <2>3, CompactStep DEF MakeRoom
<1>8. CASE RefuseRecord
  <2>1. /\ buf' \in Seq(Byte)
        /\ Pending <= Len(buf')
        /\ Len(buf') > 0
        /\ \A i \in 1..Pending : buf'[i] = buf[pos + i]
    BY <1>8, CompactedType, StreamType DEF RefuseRecord, Full, BufferInv
  <2> QED
    BY <1>8, <2>1, CompactStep DEF RefuseRecord, Return, Answers, BufferInv, TypeOK
<1>9. CASE ReadSome
  <2>1. PICK n \in 1..MinOf(Room, Len(stream) - sent) :
          /\ buf' = [i \in 1..Len(buf) |->
                       IF i \in (filled + 1)..(filled + n)
                       THEN stream[sent + i - filled]
                       ELSE buf[i]]
          /\ filled' = filled + n
          /\ sent' = sent + n
    BY <1>9 DEF ReadSome
  <2>2. /\ stream \in Seq(Byte) /\ Len(stream) \in Nat /\ Len(buf) \in Nat
        /\ filled \in 0..Len(buf) /\ sent \in 0..Len(stream)
        /\ base_offset + filled = sent
    BY StreamType DEF BufferInv, TypeOK, CursorsInBounds, BufferHoldsStream
  <2>3. n \in Nat \ {0} /\ filled + n <= Len(buf) /\ sent + n <= Len(stream)
    BY <2>2 DEF Room, MinOf
  <2>4. /\ \A i \in 1..Len(stream) : stream[i] \in Byte
        /\ \A i \in 1..Len(buf) : buf[i] \in Byte
    BY <2>2, ElementOfSeq DEF BufferInv, TypeOK
  <2>5. buf' \in Seq(Byte) /\ Len(buf') = Len(buf)
    <3>1. ASSUME NEW i \in 1..Len(buf), i \in (filled + 1)..(filled + n)
          PROVE  stream[sent + i - filled] \in Byte
      <4>1. sent + i - filled \in 1..Len(stream)
        BY <2>2, <2>3, <3>1
      <4> QED
        BY <2>4, <4>1
    <3>2. \A i \in 1..Len(buf) : (IF i \in (filled + 1)..(filled + n)
                                  THEN stream[sent + i - filled]
                                  ELSE buf[i]) \in Byte
      BY <2>4, <3>1
    <3> DEFINE e(i) == IF i \in (filled + 1)..(filled + n)
                       THEN stream[sent + i - filled]
                       ELSE buf[i]
    <3>3. buf' = [i \in 1..Len(buf) |-> e(i)]
      BY <2>1
    <3>4. \A i \in 1..Len(buf) : e(i) \in Byte
      BY <3>2
    <3> HIDE DEF e
    <3> QED
      BY <2>2, <3>3, <3>4
  <2>6. \A i \in 1..filled' : buf'[i] = stream[base_offset' + i]
    <3> SUFFICES ASSUME NEW i \in 1..filled'
                 PROVE  buf'[i] = stream[base_offset' + i]
      OBVIOUS
    <3>0. base_offset' = base_offset /\ base_offset \in Nat
      BY <1>9 DEF ReadSome, BufferInv, TypeOK
    <3>1. /\ base_offset' = base_offset /\ base_offset \in Nat
          /\ i \in 1..(filled + n) /\ i \in 1..Len(buf)
      BY <2>1, <2>2, <2>3, <3>0
    <3>2. CASE i <= filled
      <4>1. buf'[i] = buf[i]
        BY <2>1, <2>2, <3>1, <3>2
      <4>2. buf[i] = stream[base_offset + i]
        BY <2>2, <3>1, <3>2 DEF BufferInv, BufferHoldsStream
      <4> QED
        BY <3>1, <4>1, <4>2
    <3>3. CASE i > filled
      <4>1. buf'[i] = stream[sent + i - filled]
        BY <2>1, <2>2, <3>1, <3>3
      <4>2. sent + i - filled = base_offset + i
        BY <2>2, <3>1
      <4> QED
        BY <3>1, <4>1, <4>2
    <3> QED
      BY <2>2, <3>1, <3>2, <3>3
  <2>7. /\ pc' \in Phases
        /\ pc' # "read" /\ pc' # "building"
        /\ UNCHANGED <<stream, format, pos, base_offset, max_depth, max_record_bytes,
                       configured, input_done, frames, answer>>
    BY <1>9 DEF ReadSome, Phases
  <2>8. /\ filled' \in Nat /\ sent' \in 0..Len(stream)
        /\ filled <= filled' /\ filled' <= Len(buf')
        /\ base_offset + filled' = sent'
        /\ base_offset \in Nat
    BY <2>1, <2>2, <2>3, <2>5 DEF BufferInv, TypeOK
  <2>9. TypeOK'
    BY <2>5, <2>7, <2>8 DEF BufferInv, TypeOK
  <2>10. CursorsInBounds'
    BY <2>2, <2>7, <2>8 DEF BufferInv, TypeOK, CursorsInBounds
  <2>11. BufferHoldsStream'
    BY <2>6, <2>7, <2>8 DEF BufferHoldsStream
  <2>12. EndOfInputIsReal'
    <3>1. ~input_done'
      BY <1>9, <2>2, <2>3, <2>7 DEF BufferInv, EndOfInputIsReal
    <3> QED
      BY <2>7, <3>1 DEF EndOfInputIsReal
  <2>13. Len(buf') > 0
    BY <2>5 DEF BufferInv
  <2> QED
    BY <2>7, <2>9, <2>10, <2>11, <2>12, <2>13 DEF BufferInv
<1>10. CASE ReadNothing
  BY <1>10
  DEF ReadNothing, Room, BufferInv, TypeOK, CursorsInBounds, BufferHoldsStream,
      EndOfInputIsReal, Phases
<1>11. CASE ReadInterrupted
  BY <1>11, <1>0 DEF ReadInterrupted
<1>12. CASE ReadFailed
  BY <1>12
  DEF ReadFailed, Return, BufferInv, TypeOK, CursorsInBounds, BufferHoldsStream,
      EndOfInputIsReal, Phases, Answers
<1> QED
  BY <1>0, <1>1, <1>2, <1>3, <1>4, <1>5, <1>6, <1>7, <1>8, <1>9, <1>10, <1>11, <1>12
  DEF Next

LEMMA BufferAlways == Spec => []BufferInv
BY BufferInit, BufferStep, PTL DEF Spec

\* The state has its type in every behaviour; a record handed out is a byte
\* string at a stream offset.
THEOREM TypeCorrect == Spec => []TypeOK
BY BufferAlways, PTL DEF BufferInv

\* Compacting, growing and reading keep the buffer a window on the stream: the
\* cursors are inside it, its bytes are the stream's, and the end of the input
\* is never taken from a read without space.
THEOREM BufferCorrect ==
    Spec => [](CursorsInBounds /\ BufferHoldsStream /\ EndOfInputIsReal)
BY BufferAlways, PTL DEF BufferInv

-----------------------------------------------------------------------------
(***************************************************************************)
(* Memory.                                                                 *)
(***************************************************************************)
BoundInv ==
    /\ BufferIsBounded
    /\ pc = "building" => Len(buf) <= configured

LEMMA BoundStep == BufferInv /\ BoundInv /\ [Next]_vars => BoundInv'
<1> SUFFICES ASSUME BufferInv, BoundInv, [Next]_vars PROVE BoundInv'
  OBVIOUS
<1> USE DEF source, settings, buffer, history
<1>a. /\ Len(buf) \in Nat /\ configured \in Nat /\ max_record_bytes \in Nat
  BY StreamType DEF BufferInv, TypeOK
<1>0. CASE UNCHANGED vars
  BY <1>0 DEF vars, BoundInv, BufferIsBounded
<1>1. CASE WithBufferSize
  <2>1. PICK bytes \in BufferSizes : SetBufferSize(bytes)
    BY <1>1 DEF WithBufferSize
  <2> DEFINE size == MaxOf(bytes, MinBufferBytes)
  <2>2. size \in Nat
    BY SizesAssumption DEF MaxOf
  <2>3. buf' = Zeros(size) /\ configured' = size /\ max_record_bytes' = max_record_bytes
    BY <2>1 DEF SetBufferSize
  <2> HIDE DEF size
  <2>4. Len(buf') = configured'
    BY <2>2, <2>3, ZerosType
  <2> QED
    BY <1>a, <2>2, <2>3, <2>4 DEF BoundInv, BufferIsBounded, MaxOf
<1>2. CASE WithMaxRecordBytes
  BY <1>a, <1>2, SizesAssumption DEF WithMaxRecordBytes, BoundInv, BufferIsBounded, MaxOf
<1>3. CASE MakeRoom
  <2>1. Len(buf') <= MaxOf(Len(buf), max_record_bytes)
    <3> DEFINE size == Grown
    <3>1. size \in Nat /\ size <= max_record_bytes
      BY <1>a DEF Grown, MinOf
    <3>2. buf' = IF Full THEN Resized(Compacted, size) ELSE Compacted
      BY <1>3 DEF MakeRoom
    <3> HIDE DEF size
    <3>3. Compacted \in Seq(Byte) /\ Len(Compacted) = Len(buf)
      BY CompactedType
    <3>4. Len(Resized(Compacted, size)) = size
      BY <3>1, <3>3, ResizedType
    <3>5. Len(buf') \in {size, Len(buf)}
      BY <3>2, <3>3, <3>4
    <3> QED
      BY <1>a, <3>1, <3>5 DEF MaxOf
  <2>2. Len(buf') \in Nat /\ pc' = "read" /\ UNCHANGED <<configured, max_record_bytes>>
    <3>1. BufferInv'
      BY BufferStep
    <3> QED
      BY <1>3, <3>1, LenProperties DEF MakeRoom, BufferInv, TypeOK
  <2> QED
    BY <1>a, <2>1, <2>2 DEF BoundInv, BufferIsBounded, MaxOf
<1>4. CASE RefuseRecord
  BY <1>4, CompactedType DEF RefuseRecord, Return, BoundInv, BufferIsBounded
<1>5. CASE ReadSome
  <2>1. Len(buf') = Len(buf)
    BY <1>5, <1>a DEF ReadSome
  <2> QED
    BY <1>5, <2>1 DEF ReadSome, BoundInv, BufferIsBounded
<1>6. CASE \/ WithMaxDepth \/ NextFrame \/ Deliver \/ Malformed \/ Exhausted \/ NeedMore
           \/ ReadNothing \/ ReadInterrupted \/ ReadFailed
  BY <1>6
  DEF WithMaxDepth, NextFrame, Deliver, Malformed, Exhausted, NeedMore, ReadNothing,
      ReadInterrupted, ReadFailed, Return, vars, BoundInv, BufferIsBounded
<1> QED
  BY <1>0, <1>1, <1>2, <1>3, <1>4, <1>5, <1>6 DEF Next

\* The memory a reader holds never exceeds the larger of the buffer size and the
\* ceiling its caller chose, whatever lengths the stream claims.
THEOREM MemoryIsBounded == Spec => []BufferIsBounded
<1>1. Init => BoundInv
  BY ZerosType, SizesAssumption DEF Init, BoundInv, BufferIsBounded, MaxOf
<1> QED
  BY <1>1, BoundStep, BufferAlways, PTL DEF Spec, BoundInv

-----------------------------------------------------------------------------
(***************************************************************************)
(* The records handed out.                                                 *)
(***************************************************************************)

\* A frame that follows the last one, with separators between, extends a tiling.
LEMMA AppendTiles ==
    ASSUME NEW s \in Seq(Byte), NEW fs \in Seq(Frame), NEW f \in Frame,
           Tiles(s, fs),
           EndOf(fs) <= f.at,
           FrameEnd(f) <= Len(s),
           f.bytes = SubSeq(s, f.at + 1, FrameEnd(f)),
           OnlySeparators(s, EndOf(fs), f.at)
    PROVE  Tiles(s, Append(fs, f)) /\ EndOf(Append(fs, f)) = FrameEnd(f)
<1> DEFINE gs == Append(fs, f)
<1>1. /\ gs \in Seq(Frame) /\ gs # <<>>
      /\ Len(gs) = Len(fs) + 1 /\ Len(fs) \in Nat
      /\ \A i \in 1..Len(fs) : gs[i] = fs[i]
      /\ gs[Len(fs) + 1] = f
  BY AppendProperties, LenProperties
<1>2. fs = <<>> <=> Len(fs) = 0
  BY EmptySeq
<1> HIDE DEF gs
<1>3. EndOf(gs) = FrameEnd(f)
  BY <1>1 DEF EndOf
<1>4. GapStart(gs, Len(fs) + 1) = EndOf(fs)
  BY <1>1, <1>2 DEF GapStart, EndOf
<1>5. \A i \in 1..Len(fs) : GapStart(gs, i) = GapStart(fs, i)
  BY <1>1 DEF GapStart
<1>6. Tiles(s, gs)
  <2> SUFFICES ASSUME NEW i \in 1..Len(gs)
               PROVE  /\ GapStart(gs, i) <= gs[i].at
                      /\ FrameEnd(gs[i]) <= Len(s)
                      /\ gs[i].bytes = SubSeq(s, gs[i].at + 1, FrameEnd(gs[i]))
                      /\ OnlySeparators(s, GapStart(gs, i), gs[i].at)
    BY DEF Tiles
  <2>1. CASE i = Len(fs) + 1
    BY <2>1, <1>1, <1>4
  <2>2. CASE i # Len(fs) + 1
    <3>1. i \in 1..Len(fs)
      BY <2>2, <1>1
    <3> QED
      BY <3>1, <1>1, <1>5 DEF Tiles
  <2> QED
    BY <2>1, <2>2
<1> QED
  BY <1>3, <1>6 DEF gs

\* Where the last frame ends is an offset.
LEMMA EndOfType ==
    ASSUME NEW fs \in Seq(Frame)
    PROVE  EndOf(fs) \in Nat
<1>1. CASE fs = <<>>
  BY <1>1 DEF EndOf
<1>2. CASE fs # <<>>
  <2>1. Len(fs) \in 1..Len(fs)
    BY <1>2, EmptySeq
  <2>2. fs[Len(fs)] \in Frame
    BY <2>1, ElementOfSeq
  <2> QED
    BY <1>2, <2>2, LenProperties DEF EndOf, FrameEnd, Frame
<1> QED
  BY <1>1, <1>2

FramesInv ==
    /\ NothingLost
    /\ EndMeansEverything

\* Stepping over separators keeps the bytes not handed out separators.
LEMMA SkipStep ==
    ASSUME BufferInv, NothingLost,
           NEW k \in 0..(filled - pos), SeparatorRun(Window, k)
    PROVE  /\ OnlySeparators(stream, EndOf(frames), Position + k)
           /\ EndOf(frames) \in Nat
           /\ EndOf(frames) <= Position + k
<1>1. /\ Position \in Nat /\ EndOf(frames) \in Nat /\ EndOf(frames) <= Position
  BY EndOfType DEF Position, NothingLost, BufferInv, TypeOK
<1>2. \A i \in 1..(filled - pos) : Window[i] = stream[Position + i]
  <2>1. Window = Rest(0)
    BY DEF Window, Rest, BufferInv, TypeOK
  <2>2. 0 \in 0..(filled - pos)
    BY DEF BufferInv, TypeOK, CursorsInBounds
  <2>3. filled - pos - 0 = filled - pos /\ Position + 0 = Position
    BY <1>1 DEF BufferInv, TypeOK
  <2> QED
    BY <2>1, <2>2, <2>3, RestIsStretch
<1>3. \A i \in 1..k : stream[Position + i] \in Separators
  BY <1>2 DEF SeparatorRun, BufferInv, TypeOK
<1>4. ASSUME NEW b \in (EndOf(frames) + 1)..(Position + k)
      PROVE  stream[b] \in Separators
  <2>1. CASE b <= Position
    BY <2>1, <1>1 DEF NothingLost, OnlySeparators
  <2>2. CASE b > Position
    <3>1. b - Position \in 1..k /\ Position + (b - Position) = b
      BY <2>2, <1>1
    <3> QED
      BY <3>1, <1>3
  <2> QED
    BY <2>1, <2>2, <1>1
<1> QED
  BY <1>1, <1>4 DEF OnlySeparators

\* A record handed out: where it lies, and that its bytes are the stream's.
LEMMA DeliveredFrame ==
    ASSUME BufferInv, NEW k \in 0..(filled - pos), pos + k # filled,
           Judged(k).kind = "complete",
           NEW f,
           f = [at    |-> base_offset + pos + k,
                bytes |-> SubSeq(buf, pos + k + 1, pos + k + Judged(k).len)]
    PROVE  /\ f \in Frame
           /\ f.at = Position + k
           /\ FrameEnd(f) = Position + k + Judged(k).len
           /\ FrameEnd(f) <= sent
           /\ f.bytes = SubSeq(stream, f.at + 1, FrameEnd(f))
<1> DEFINE len == Judged(k).len
           at == Position + k
           taken == SubSeq(buf, pos + k + 1, pos + k + len)
           given == SubSeq(stream, at + 1, at + len)
<1>1. f \in Frame
  BY FrameType
<1>2. len \in 1..(filled - pos - k)
  BY JudgedInRange
<1>3. f.at = at /\ f.bytes = taken
  BY DEF Position, BufferInv, TypeOK
<1> HIDE DEF len
<1>4. /\ filled \in 0..Len(buf) /\ sent \in 0..Len(stream) /\ pos \in 0..filled
      /\ base_offset \in Nat /\ Len(buf) \in Nat /\ Len(stream) \in Nat
      /\ stream \in Seq(Byte) /\ buf \in Seq(Byte)
      /\ at = base_offset + pos + k /\ sent = base_offset + filled
  BY StreamType DEF Position, BufferInv, TypeOK, CursorsInBounds, BufferHoldsStream
<1>5. /\ taken \in Seq(Byte) /\ Len(taken) = len
      /\ \A i \in 1..len : taken[i] = buf[pos + k + i]
  <2> DEFINE m == pos + k
  <2>1. m \in Nat /\ len \in Nat \ {0}
    BY <1>2, <1>4
  <2> HIDE DEF m
  <2>2. \A i \in (m + 1)..(m + len) : buf[i] \in Byte
    BY <1>2, <1>4, <2>1, ElementOfSeq DEF m
  <2>3. /\ SubSeq(buf, m + 1, m + len) \in Seq(Byte)
        /\ Len(SubSeq(buf, m + 1, m + len)) = len
        /\ \A i \in 1..len : SubSeq(buf, m + 1, m + len)[i] = buf[m + i]
    BY <2>1, <2>2, SubSeqProperties
  <2> QED
    BY <2>3 DEF m
<1>6. /\ given \in Seq(Byte) /\ Len(given) = len
      /\ \A i \in 1..len : given[i] = stream[at + i]
  <2>1. at \in Nat /\ at + len <= Len(stream) /\ len \in Nat \ {0}
    BY <1>2, <1>4
  <2> HIDE DEF at
  <2>2. \A i \in (at + 1)..(at + len) : stream[i] \in Byte
    BY <1>2, <1>4, <2>1, ElementOfSeq
  <2>3. /\ given \in Seq(Byte)
        /\ Len(given) = IF at + 1 <= at + len THEN at + len - (at + 1) + 1 ELSE 0
        /\ \A i \in 1..(at + len - (at + 1) + 1) : given[i] = stream[at + 1 + i - 1]
    BY <2>1, <2>2, SubSeqProperties
  <2> HIDE DEF given
  <2> QED
    BY <2>1, <2>3
<1>7. ASSUME NEW i \in 1..len
      PROVE  buf[pos + k + i] = stream[at + i]
  <2>1. pos + k + i \in 1..filled /\ base_offset + (pos + k + i) = at + i
    BY <1>2, <1>4
  <2> QED
    BY <2>1 DEF BufferInv, BufferHoldsStream
<1>8. taken = given
  <2> HIDE DEF taken, given
  <2>1. Len(taken) = Len(given) /\ \A i \in 1..Len(taken) : taken[i] = given[i]
    BY <1>5, <1>6, <1>7
  <2> QED
    BY <1>5, <1>6, <2>1, SeqEqual
<1>9. FrameEnd(f) = at + len
  BY <1>3, <1>5 DEF FrameEnd
<1>10. at + len <= sent
  BY <1>2, <1>4
<1> QED
  BY <1>1, <1>3, <1>8, <1>9, <1>10 DEF len

LEMMA FramesStep == BufferInv /\ FramesInv /\ [Next]_vars => FramesInv'
<1> SUFFICES ASSUME BufferInv, FramesInv, [Next]_vars PROVE FramesInv'
  OBVIOUS
<1> USE DEF source, settings, buffer, history
<1>0. ASSUME UNCHANGED <<stream, format, pos, base_offset, frames>>,
             answer' = answer \/ answer' # "end"
      PROVE  FramesInv'
  BY <1>0 DEF FramesInv, NothingLost, EndMeansEverything, Position, OnlySeparators
<1>1. CASE Deliver
  <2>1. PICK k \in 0..(filled - pos) :
          /\ SeparatorRun(Window, k)
          /\ pos + k # filled
          /\ Judged(k).kind = "complete"
          /\ pos' = pos + k + Judged(k).len
          /\ frames' = Append(frames,
               [at    |-> base_offset + pos + k,
                bytes |-> SubSeq(buf, pos + k + 1, pos + k + Judged(k).len)])
    BY <1>1 DEF Deliver, Undecided, Skips
  <2> DEFINE len == Judged(k).len
             f == [at    |-> base_offset + pos + k,
                   bytes |-> SubSeq(buf, pos + k + 1, pos + k + len)]
  <2>2. len \in 1..(filled - pos - k)
    BY <2>1, JudgedInRange
  <2>3. /\ f \in Frame /\ f.at = Position + k
        /\ FrameEnd(f) = Position + k + len /\ FrameEnd(f) <= sent
        /\ f.bytes = SubSeq(stream, f.at + 1, FrameEnd(f))
    BY <2>1, DeliveredFrame
  <2>4. frames' = Append(frames, f) /\ pos' = pos + k + len
    BY <2>1
  <2> HIDE DEF f, len
  <2>5. /\ OnlySeparators(stream, EndOf(frames), f.at)
        /\ EndOf(frames) <= f.at
    BY <2>1, <2>3, SkipStep DEF FramesInv
  <2>6. Tiles(stream, frames') /\ EndOf(frames') = Position + k + len
    <3>1. stream \in Seq(Byte) /\ frames \in Seq(Frame) /\ Tiles(stream, frames)
      BY StreamType DEF BufferInv, TypeOK, FramesInv, NothingLost
    <3>2. FrameEnd(f) <= Len(stream)
      BY <2>2, <2>3, StreamType DEF BufferInv, TypeOK, Position
    <3> QED
      BY <2>3, <2>4, <2>5, <3>1, <3>2, AppendTiles
  <2>7. Position' = Position + k + len /\ Position' \in Nat
    <3>1. base_offset' = base_offset /\ base_offset \in Nat /\ pos \in Nat
      BY <1>1 DEF Deliver, BufferInv, TypeOK
    <3> QED
      BY <2>2, <2>4, <3>1 DEF Position
  <2>8. UNCHANGED stream /\ answer' = "frame"
    BY <1>1 DEF Deliver, Return
  <2>9. OnlySeparators(stream, EndOf(frames'), Position')
    BY <2>6, <2>7 DEF OnlySeparators
  <2> QED
    BY <2>6, <2>7, <2>8, <2>9 DEF FramesInv, NothingLost, EndMeansEverything
<1>2. CASE Malformed \/ Exhausted \/ NeedMore
  <2>1. PICK k \in 0..(filled - pos) :
          /\ SeparatorRun(Window, k)
          /\ pos' = pos + k
          /\ answer' = "end" => answer = "end" \/ (pos + k = filled /\ input_done)
    BY <1>2 DEF Malformed, Exhausted, EndAnswer, NeedMore, Skips, Return
  <2>2. UNCHANGED <<stream, format, base_offset, frames>>
    BY <1>2 DEF Malformed, Exhausted, NeedMore
  <2>3. /\ OnlySeparators(stream, EndOf(frames), Position + k)
        /\ EndOf(frames) <= Position + k
    BY <2>1, SkipStep DEF FramesInv
  <2>4. Position' = Position + k
    BY <2>1, <2>2 DEF Position, BufferInv, TypeOK
  <2>5. ASSUME answer' = "end"
        PROVE  OnlySeparators(stream, EndOf(frames), Len(stream))
    <3>1. CASE answer = "end"
      BY <3>1 DEF FramesInv, EndMeansEverything
    <3>2. CASE pos + k = filled /\ input_done
      <4>1. Position + k = Len(stream)
        BY <3>2 DEF Position, BufferInv, TypeOK, BufferHoldsStream, EndOfInputIsReal
      <4> QED
        BY <2>3, <4>1
    <3> QED
      BY <2>1, <2>5, <3>1, <3>2
  <2> QED
    BY <2>2, <2>3, <2>4, <2>5 DEF FramesInv, NothingLost, EndMeansEverything
<1>3. CASE MakeRoom \/ RefuseRecord
  <2>1. /\ UNCHANGED <<stream, format, frames>>
        /\ answer' = answer \/ answer' # "end"
        /\ Compact
    BY <1>3 DEF MakeRoom, RefuseRecord, Return
  <2>2. Position' = Position
    BY <2>1 DEF Compact, Position, BufferInv, TypeOK
  <2> QED
    BY <2>1, <2>2 DEF FramesInv, NothingLost, EndMeansEverything
<1>4. CASE \/ WithBufferSize \/ WithMaxRecordBytes \/ WithMaxDepth \/ NextFrame
           \/ ReadSome \/ ReadNothing \/ ReadInterrupted \/ ReadFailed
  BY <1>0, <1>4
  DEF WithBufferSize, SetBufferSize, WithMaxRecordBytes, WithMaxDepth, NextFrame,
      ReadSome, ReadNothing, ReadInterrupted, ReadFailed, Return, vars
<1>5. CASE UNCHANGED vars
  BY <1>0, <1>5 DEF vars
<1> QED
  BY <1>1, <1>2, <1>3, <1>4, <1>5 DEF Next

LEMMA FramesInit == Init => FramesInv
<1> SUFFICES ASSUME Init PROVE FramesInv
  OBVIOUS
<1>1. Len(frames) = 0 /\ EndOf(frames) = 0 /\ Position = 0
  BY EmptySeq DEF Init, EndOf, Position
<1> QED
  BY <1>1 DEF Init, FramesInv, NothingLost, EndMeansEverything, Tiles, OnlySeparators

LEMMA FramesAlways == Spec => []FramesInv
BY BufferAlways, FramesInit, FramesStep, PTL DEF Spec

\* However the bytes arrive and whatever fails in between, the records handed out
\* are the stream's bytes in order, with separators only left out.
THEOREM RecordsTileTheStream == Spec => []NothingLost
BY FramesAlways, PTL DEF FramesInv

\* The end of the stream is reported only when everything was handed out.
THEOREM EndIsTheEnd == Spec => []EndMeansEverything
BY FramesAlways, PTL DEF FramesInv

-----------------------------------------------------------------------------
(***************************************************************************)
(* What the reader decides on the bytes it holds is what Framing decides   *)
(* on the whole stream.                                                    *)
(***************************************************************************)
FromCursor(k) == SubSeq(stream, Position + k + 1, Len(stream))

\* The operators of Records mean the same inside Framing.
LEMMA SameRecords ==
    /\ Whole!Separators = Separators
    /\ Whole!EndOf(frames) = EndOf(frames)
    /\ \A from, to : Whole!OnlySeparators(stream, from, to) <=> OnlySeparators(stream, from, to)
BY DEF Whole!Separators, Separators, Whole!EndOf, EndOf, Whole!FrameEnd, FrameEnd,
       Whole!OnlySeparators, OnlySeparators

\* A record seems to begin k bytes behind the cursor, and one does.
LEMMA RecordStart ==
    ASSUME BufferInv, NothingLost,
           NEW k \in 0..(filled - pos), SeparatorRun(Window, k), pos + k # filled
    PROVE  /\ Position + k \in EndOf(frames)..Len(stream)
           /\ Whole!RecordAt(Position + k)
           /\ Whole!FromOffset(Position + k) = FromCursor(k)
<1>1. /\ OnlySeparators(stream, EndOf(frames), Position + k)
      /\ EndOf(frames) \in Nat
      /\ EndOf(frames) <= Position + k
  BY SkipStep
<1>2. /\ Position = base_offset + pos /\ base_offset \in Nat /\ pos \in Nat
      /\ filled \in Nat /\ sent = base_offset + filled /\ sent <= Len(stream)
      /\ Len(stream) \in Nat
  BY StreamType DEF Position, BufferInv, TypeOK, BufferHoldsStream
<1>3. Position + k < Len(stream)
  BY <1>2
<1>4. stream[Position + k + 1] \notin Separators
  <2>1. /\ Window = Rest(0) /\ 0 \in 0..(filled - pos)
        /\ Position + 0 = Position /\ filled - pos - 0 = filled - pos
    BY <1>2 DEF Window, Rest, BufferInv, CursorsInBounds
  <2>2. /\ Len(Window) = filled - pos
        /\ \A i \in 1..(filled - pos) : Window[i] = stream[Position + i]
    BY <2>1, RestIsStretch
  <2>3. k < Len(Window) /\ k + 1 \in 1..(filled - pos) /\ Position + (k + 1) = Position + k + 1
    BY <1>2, <2>2
  <2> QED
    BY <2>2, <2>3 DEF SeparatorRun
<1>5. Position + k \in EndOf(frames)..Len(stream)
  BY <1>1, <1>2, <1>3
<1>6. Whole!RecordAt(Position + k)
  BY <1>1, <1>3, <1>4, SameRecords DEF Whole!RecordAt
<1>7. Whole!FromOffset(Position + k) = FromCursor(k)
  BY DEF Whole!FromOffset, FromCursor
<1> QED
  BY <1>5, <1>6, <1>7

\* The stretch of the stream that was judged, among the stretches of the stream.
LEMMA JudgedStretch ==
    ASSUME BufferInv, NEW k \in 0..(filled - pos), pos + k # filled
    PROVE  /\ <<Position + k + 1, sent, Len(stream)>> \in Stretches(stream)
           /\ Judged(k) = Scan(SubSeq(stream, Position + k + 1, sent), format, max_depth)
           /\ sent + 1 - (Position + k + 1) = filled - pos - k
           /\ stream \in Streams[format] /\ format \in Formats /\ max_depth \in Limits
<1>1. /\ Position = base_offset + pos /\ base_offset \in Nat /\ pos \in Nat
      /\ filled \in Nat /\ sent = base_offset + filled /\ sent <= Len(stream)
      /\ Len(stream) \in Nat /\ stream \in Streams[format] /\ format \in Formats /\ max_depth \in Limits
  BY StreamType DEF Position, BufferInv, TypeOK, BufferHoldsStream
<1>2. Judged(k) = Scan(SubSeq(stream, Position + k + 1, sent), format, max_depth)
  BY RestIsStretch DEF Judged
<1>3. /\ Position + k + 1 \in 1..Len(stream) /\ sent \in 1..Len(stream)
      /\ Len(stream) \in 1..Len(stream) /\ Position + k + 1 <= sent
  BY <1>1
<1> QED
  BY <1>1, <1>2, <1>3 DEF Stretches

LEMMA DecidedIsComplete ==
    ASSUME BufferInv, NEW k \in 0..(filled - pos), ~Undecided(k),
           Judged(k).kind = "complete"
    PROVE  Scan(FromCursor(k), format, max_depth) = Judged(k)
<1>1. pos + k # filled
  BY DEF Undecided
<1> DEFINE t == <<Position + k + 1, sent, Len(stream)>>
<1>2. /\ t \in Stretches(stream)
      /\ Judged(k) = Scan(SubSeq(stream, Position + k + 1, sent), format, max_depth)
      /\ sent + 1 - (Position + k + 1) = filled - pos - k
      /\ stream \in Streams[format] /\ format \in Formats /\ max_depth \in Limits
  BY <1>1, JudgedStretch
<1>3. Judged(k) \in Verdict /\ Judged(k).len \in 1..(filled - pos - k)
  BY <1>1, JudgedInRange
<1>4. CASE Judged(k).len < filled - pos - k
  BY <1>2, <1>4, ScanStable DEF FromCursor, LengthsSettle
<1>5. CASE Judged(k).len = filled - pos - k
  <2>1. Judged(k) = [kind |-> "complete", len |-> filled - pos - k]
    BY <1>3, <1>5 DEF Verdict
  <2>2. sent = Len(stream)
    BY <2>1 DEF Undecided, BufferInv, EndOfInputIsReal
  <2> QED
    BY <1>2, <2>2 DEF FromCursor
<1> QED
  BY <1>3, <1>4, <1>5 DEF BufferInv, TypeOK

LEMMA DecidedIsError ==
    ASSUME BufferInv, NEW k \in 0..(filled - pos), ~Undecided(k),
           Judged(k).kind = "error"
    PROVE  Scan(FromCursor(k), format, max_depth).kind = "error"
<1>1. pos + k # filled
  BY DEF Undecided
<1> DEFINE t == <<Position + k + 1, sent, Len(stream)>>
<1>2. /\ t \in Stretches(stream)
      /\ Judged(k) = Scan(SubSeq(stream, Position + k + 1, sent), format, max_depth)
      /\ stream \in Streams[format] /\ format \in Formats /\ max_depth \in Limits
  BY <1>1, JudgedStretch
<1> QED
  BY <1>2, ErrorStable DEF FromCursor, ErrorsStay

LEMMA FramingStep ==
    BufferInv /\ FramesInv /\ [Next]_vars => [Whole!Next]_(Whole!vars)
<1> SUFFICES ASSUME BufferInv, FramesInv, [Next]_vars
             PROVE  [Whole!Next]_(Whole!vars)
  OBVIOUS
<1> USE DEF source, settings, buffer, history
<1>0. ASSUME UNCHANGED <<stream, format, max_depth, frames, answer>>
      PROVE  UNCHANGED Whole!vars
  BY <1>0 DEF Whole!vars
<1>1. CASE WithMaxDepth
  <2>1. Whole!Configure
    BY <1>1 DEF WithMaxDepth, Whole!Configure, BufferInv
  <2> QED
    BY <2>1 DEF Whole!Next
<1>2. CASE Deliver
  <2>1. PICK k \in 0..(filled - pos) :
          /\ SeparatorRun(Window, k)
          /\ ~Undecided(k)
          /\ Judged(k).kind = "complete"
          /\ frames' = Append(frames,
               [at    |-> base_offset + pos + k,
                bytes |-> SubSeq(buf, pos + k + 1, pos + k + Judged(k).len)])
    BY <1>2 DEF Deliver, Skips
  <2>2. pos + k # filled
    BY <2>1 DEF Undecided
  <2> DEFINE f == [at    |-> base_offset + pos + k,
                   bytes |-> SubSeq(buf, pos + k + 1, pos + k + Judged(k).len)]
             at == Position + k
             len == Judged(k).len
  <2>3. /\ at \in EndOf(frames)..Len(stream)
        /\ Whole!RecordAt(at)
        /\ Whole!FromOffset(at) = FromCursor(k)
    BY <2>1, <2>2, RecordStart DEF FramesInv
  <2>4. Scan(FromCursor(k), format, max_depth) = Judged(k)
    BY <2>1, DecidedIsComplete
  <2>5. /\ f.at = at /\ f.bytes = SubSeq(stream, f.at + 1, FrameEnd(f))
        /\ FrameEnd(f) = at + len
    BY <2>1, <2>2, DeliveredFrame
  <2>6. f = [at |-> at, bytes |-> SubSeq(stream, at + 1, at + len)]
    <3> DEFINE taken == SubSeq(buf, pos + k + 1, pos + k + len)
    <3>1. f = [at |-> base_offset + pos + k, bytes |-> taken]
      OBVIOUS
    <3>2. base_offset + pos + k = at /\ taken = SubSeq(stream, at + 1, at + len)
      BY <2>5
    <3> QED
      BY <3>1, <3>2
  <2>7. /\ frames' = Append(frames, [at |-> at, bytes |-> SubSeq(stream, at + 1, at + len)])
        /\ answer' = "frame"
        /\ UNCHANGED <<stream, format, max_depth>>
    BY <1>2, <2>1, <2>6 DEF Deliver, Return
  <2>8. Whole!Deliver
    <3> HIDE DEF at, f
    <3> QED
      BY <2>1, <2>3, <2>4, <2>7, SameRecords DEF Whole!Deliver
  <2> QED
    BY <2>8 DEF Whole!Next
<1>3. CASE Malformed
  <2>1. PICK k \in 0..(filled - pos) :
          SeparatorRun(Window, k) /\ ~Undecided(k) /\ Judged(k).kind = "error"
    BY <1>3 DEF Malformed, Skips
  <2>2. pos + k # filled
    BY <2>1 DEF Undecided
  <2> DEFINE at == Position + k
  <2>3. /\ at \in EndOf(frames)..Len(stream)
        /\ Whole!RecordAt(at)
        /\ Whole!FromOffset(at) = FromCursor(k)
    BY <2>1, <2>2, RecordStart DEF FramesInv
  <2>4. Scan(FromCursor(k), format, max_depth).kind = "error"
    BY <2>1, DecidedIsError
  <2>5. answer' = "malformed" /\ UNCHANGED <<stream, format, max_depth, frames>>
    BY <1>3 DEF Malformed, Return
  <2> HIDE DEF at
  <2>6. Whole!Malformed
    BY <2>3, <2>4, <2>5, SameRecords DEF Whole!Malformed
  <2> QED
    BY <2>6 DEF Whole!Next
<1>4. CASE Exhausted
  <2>1. PICK k \in 0..(filled - pos) :
          /\ SeparatorRun(Window, k) /\ Undecided(k) /\ input_done
          /\ answer' = IF pos + k = filled THEN "end" ELSE "eof"
    BY <1>4 DEF Exhausted, EndAnswer, Skips, Return
  <2>2. UNCHANGED <<stream, format, max_depth, frames>>
    BY <1>4 DEF Exhausted
  <2>3. sent = Len(stream)
    BY <2>1 DEF BufferInv, EndOfInputIsReal
  <2>4. CASE pos + k = filled
    <3>1. Position + k = Len(stream)
      BY <2>3, <2>4 DEF Position, BufferInv, TypeOK, BufferHoldsStream
    <3>2. OnlySeparators(stream, EndOf(frames), Len(stream))
      BY <2>1, <3>1, SkipStep DEF FramesInv
    <3>3. Whole!Finish
      BY <2>1, <2>2, <2>4, <3>2, SameRecords DEF Whole!Finish
    <3> QED
      BY <3>3 DEF Whole!Next
  <2>5. CASE pos + k # filled
    <3> DEFINE at == Position + k
    <3>1. /\ at \in EndOf(frames)..Len(stream)
          /\ Whole!RecordAt(at)
          /\ Whole!FromOffset(at) = FromCursor(k)
      BY <2>1, <2>5, RecordStart DEF FramesInv
    <3>2. Judged(k).kind = "incomplete"
      BY <2>1, <2>5 DEF Undecided
    <3>3. Scan(FromCursor(k), format, max_depth) = Judged(k)
      BY <2>3, <2>5, JudgedStretch DEF FromCursor
    <3> HIDE DEF at
    <3>4. Whole!Truncated
      BY <2>1, <2>2, <2>5, <3>1, <3>2, <3>3, SameRecords DEF Whole!Truncated
    <3> QED
      BY <3>4 DEF Whole!Next
  <2> QED
    BY <2>4, <2>5
<1>5. CASE RefuseRecord \/ ReadFailed
  <2>1. Whole!Refuse
    BY <1>5 DEF RefuseRecord, ReadFailed, Return, Whole!Refuse, Whole!Refusals
  <2> QED
    BY <2>1 DEF Whole!Next
<1>6. CASE \/ WithBufferSize \/ WithMaxRecordBytes \/ NextFrame \/ NeedMore \/ MakeRoom
           \/ ReadSome \/ ReadNothing \/ ReadInterrupted \/ UNCHANGED vars
  BY <1>0, <1>6
  DEF WithBufferSize, SetBufferSize, WithMaxRecordBytes, NextFrame, NeedMore, MakeRoom,
      ReadSome, ReadNothing, ReadInterrupted, vars
<1> QED
  BY <1>1, <1>2, <1>3, <1>4, <1>5, <1>6 DEF Next

\* FrameReader implements Framing: the records a caller gets, the end of the
\* stream and the errors in it are those of the stream as a whole.
THEOREM ReaderImplementsFraming == Spec => ImplementsFraming
<1>1. Init => Whole!Init
  BY DEF Init, Formats, Whole!Init, Whole!Formats
<1> QED
  BY <1>1, FramingStep, BufferAlways, FramesAlways, PTL
  DEF Spec, ImplementsFraming, Whole!Spec

-----------------------------------------------------------------------------
(***************************************************************************)
(* A reader that reported an error is stuck at it: the cursor is at the    *)
(* record in error, and another call finds what the last one found.        *)
(***************************************************************************)
Ahead == SubSeq(stream, Position + 1, sent)

\* No byte the reader would step over is at the cursor.
AtRecord == pos # filled => stream[Position + 1] \notin Separators

Waiting ==
    /\ AtRecord
    /\ ~input_done
    /\ \/ pos = filled
       \/ Scan(Ahead, format, max_depth).kind = "incomplete"
       \/ Scan(Ahead, format, max_depth) = [kind |-> "complete", len |-> filled - pos]

StuckInv ==
    /\ pc = "fill" => Waiting
    /\ answer = "too_large" =>
          /\ pc \in {"idle", "scan", "fill"}
          /\ Waiting
          /\ filled - pos = Len(buf)
          /\ Len(buf) >= max_record_bytes
    /\ answer = "eof" =>
          /\ pc \in {"idle", "scan"}
          /\ AtRecord /\ input_done /\ pos # filled
          /\ Scan(Ahead, format, max_depth).kind = "incomplete"
    /\ answer = "malformed" =>
          /\ pc \in {"idle", "scan"}
          /\ AtRecord /\ pos # filled
          /\ Scan(Ahead, format, max_depth).kind = "error"

\* What the loop sees when k separators are stepped over.
LEMMA LoopView ==
    ASSUME BufferInv, NEW k \in 0..(filled - pos), SeparatorRun(Window, k)
    PROVE  /\ pos + k # filled => stream[Position + k + 1] \notin Separators
           /\ Judged(k) = Scan(SubSeq(stream, Position + k + 1, sent), format, max_depth)
           /\ AtRecord => k = 0
<1>1. /\ Position = base_offset + pos /\ base_offset \in Nat /\ pos \in Nat
      /\ filled \in Nat /\ sent = base_offset + filled /\ pos <= filled
  BY DEF Position, BufferInv, TypeOK, BufferHoldsStream, CursorsInBounds
<1>2. /\ Len(Window) = filled - pos
      /\ \A i \in 1..(filled - pos) : Window[i] = stream[Position + i]
  <2>1. /\ Window = Rest(0) /\ 0 \in 0..(filled - pos)
        /\ Position + 0 = Position /\ filled - pos - 0 = filled - pos
    BY <1>1 DEF Window, Rest
  <2> QED
    BY <2>1, RestIsStretch
<1>3. ASSUME pos + k # filled
      PROVE  stream[Position + k + 1] \notin Separators
  <2>1. k < Len(Window) /\ k + 1 \in 1..(filled - pos) /\ Position + (k + 1) = Position + k + 1
    BY <1>1, <1>2, <1>3
  <2> QED
    BY <1>2, <2>1 DEF SeparatorRun
<1>4. Judged(k) = Scan(SubSeq(stream, Position + k + 1, sent), format, max_depth)
  BY RestIsStretch DEF Judged
<1>5. ASSUME AtRecord, k # 0
      PROVE  FALSE
  <2>1. 1 \in 1..k /\ 1 \in 1..(filled - pos) /\ pos # filled
    BY <1>1, <1>5
  <2>2. Window[1] \in Separators
    BY <2>1 DEF SeparatorRun
  <2> QED
    BY <1>2, <1>5, <2>1, <2>2 DEF AtRecord
<1> QED
  BY <1>3, <1>4, <1>5

LEMMA StuckStep == BufferInv /\ StuckInv /\ [Next]_vars => StuckInv'
<1> SUFFICES ASSUME BufferInv, StuckInv, [Next]_vars PROVE StuckInv'
  OBVIOUS
<1> USE DEF source, settings, buffer, history
<1>a. /\ Position = base_offset + pos /\ base_offset \in Nat /\ pos \in Nat
      /\ filled \in Nat /\ sent = base_offset + filled /\ pos <= filled
      /\ filled <= Len(buf) /\ Len(buf) \in Nat \ {0}
  BY StreamType DEF Position, BufferInv, TypeOK, BufferHoldsStream, CursorsInBounds
<1>0. ASSUME UNCHANGED <<stream, format, sent, filled, pos, base_offset, max_depth, input_done>>
      PROVE  /\ Waiting' <=> Waiting
             /\ AtRecord' <=> AtRecord
             /\ Ahead' = Ahead
  BY <1>0 DEF Waiting, AtRecord, Ahead, Position
<1>1. CASE WithBufferSize \/ WithMaxRecordBytes \/ WithMaxDepth
  <2>1. answer' = "none" /\ pc' = "building"
    BY <1>1 DEF WithBufferSize, SetBufferSize, WithMaxRecordBytes, WithMaxDepth, BufferInv
  <2> QED
    BY <2>1 DEF StuckInv
<1>2. CASE NextFrame
  <2>1. /\ UNCHANGED <<stream, format, sent, filled, pos, base_offset, max_depth, input_done>>
        /\ UNCHANGED <<buf, max_record_bytes, answer>>
        /\ pc' = "scan"
    BY <1>2 DEF NextFrame
  <2> QED
    BY <1>0, <2>1 DEF StuckInv
<1>3. CASE Deliver
  <2>1. answer' = "frame" /\ pc' = "idle"
    BY <1>3 DEF Deliver, Return
  <2> QED
    BY <2>1 DEF StuckInv
<1>4. CASE Malformed \/ Exhausted \/ NeedMore
  <2>1. PICK k \in 0..(filled - pos) : SeparatorRun(Window, k) /\ pos' = pos + k
                /\ \/ /\ Malformed /\ ~Undecided(k) /\ Judged(k).kind = "error"
                      /\ answer' = "malformed" /\ pc' = "idle"
                   \/ /\ Exhausted /\ Undecided(k) /\ input_done /\ pc' = "idle"
                      /\ answer' = IF pos + k = filled THEN "end" ELSE "eof"
                   \/ /\ NeedMore /\ Undecided(k) /\ ~input_done /\ pc' = "fill"
                      /\ answer' = answer
    BY <1>4 DEF Malformed, Exhausted, EndAnswer, NeedMore, Skips, Return
  <2>2. UNCHANGED <<stream, format, sent, filled, base_offset, max_depth, input_done, buf,
                    max_record_bytes>>
    BY <1>4 DEF Malformed, Exhausted, NeedMore
  <2>3. Position' = Position + k
    BY <1>a, <2>1, <2>2 DEF Position
  <2>4. Ahead' = SubSeq(stream, Position + k + 1, sent)
    BY <2>2, <2>3 DEF Ahead
  <2>5. Judged(k) = Scan(Ahead', format', max_depth')
    BY <2>1, <2>2, <2>4, LoopView
  <2>6. AtRecord'
    BY <1>a, <2>1, <2>2, <2>3, LoopView DEF AtRecord
  <2>7. (pos + k = filled) <=> (pos' = filled')
    BY <2>1, <2>2
  <2>8. CASE answer' = "malformed" /\ pc' = "idle" /\ ~Undecided(k) /\ Judged(k).kind = "error"
    BY <2>5, <2>6, <2>7, <2>8 DEF StuckInv, Undecided
  <2>9. CASE Undecided(k) /\ input_done /\ pc' = "idle"
             /\ answer' = IF pos + k = filled THEN "end" ELSE "eof"
    BY <2>2, <2>5, <2>6, <2>7, <2>9 DEF StuckInv, Undecided
  <2>10. CASE Undecided(k) /\ ~input_done /\ pc' = "fill" /\ answer' = answer
    <3>1. filled - pos - k = filled' - pos'
      BY <1>a, <2>1, <2>2
    <3>2. Waiting'
      BY <2>2, <2>5, <2>6, <2>7, <2>10, <3>1 DEF Waiting, Undecided
    <3>3. answer # "eof"
      BY <2>10 DEF StuckInv
    <3>4. answer # "malformed"
      <4>1. SUFFICES ASSUME answer = "malformed" PROVE FALSE
        OBVIOUS
      <4>2. AtRecord /\ pos # filled /\ Scan(Ahead, format, max_depth).kind = "error"
        BY <4>1 DEF StuckInv
      <4>3. k = 0
        BY <2>1, <4>2, LoopView
      <4>4. Position + k + 1 = Position + 1
        BY <1>a, <4>3
      <4>5. Judged(k).kind = "error"
        BY <2>2, <2>4, <2>5, <4>2, <4>4 DEF Ahead
      <4> QED
        BY <1>a, <2>10, <4>2, <4>3, <4>5 DEF Undecided
    <3>5. ASSUME answer = "too_large"
          PROVE  filled' - pos' = Len(buf') /\ Len(buf') >= max_record_bytes'
      <4>1. AtRecord
        BY <3>5 DEF StuckInv, Waiting
      <4>2. k = 0
        BY <2>1, <4>1, LoopView
      <4> QED
        BY <1>a, <2>1, <2>2, <3>5, <4>2 DEF StuckInv
    <3> QED
      BY <2>10, <3>2, <3>3, <3>4, <3>5 DEF StuckInv
  <2> QED
    BY <2>1, <2>8, <2>9, <2>10
<1>5. CASE MakeRoom
  <2>1. pc' = "read" /\ answer' = answer
    BY <1>5 DEF MakeRoom
  <2>2. answer \notin {"eof", "malformed"}
    BY <1>5 DEF MakeRoom, StuckInv
  <2>3. answer # "too_large"
    <3>1. max_record_bytes \in Nat
      BY DEF BufferInv, TypeOK
    <3>2. Full => Len(buf) < max_record_bytes
      BY <1>5, <1>a, <3>1 DEF MakeRoom, AtCeiling
    <3>3. answer = "too_large" => Full /\ Len(buf) >= max_record_bytes
      BY DEF StuckInv, Full, Pending
    <3> QED
      BY <1>a, <3>1, <3>2, <3>3
  <2> QED
    BY <2>1, <2>2, <2>3 DEF StuckInv
<1>6. CASE RefuseRecord
  <2>1. /\ pc' = "idle" /\ answer' = "too_large"
        /\ UNCHANGED <<stream, format, sent, max_depth, input_done, max_record_bytes>>
        /\ Compact /\ Full /\ Len(buf) >= max_record_bytes /\ buf' = Compacted
        /\ Waiting
    BY <1>6 DEF RefuseRecord, AtCeiling, Return, StuckInv
  <2>2. /\ Position' = Position /\ filled' - pos' = filled - pos
        /\ (pos' = filled' <=> pos = filled)
    BY <1>a, <2>1 DEF Compact, Position, Pending
  <2>3. Ahead' = Ahead
    BY <2>1, <2>2 DEF Ahead
  <2>4. Waiting'
    BY <2>1, <2>2, <2>3 DEF Waiting, AtRecord
  <2>5. Len(buf') = Len(buf) /\ filled - pos = Len(buf)
    BY <2>1, CompactedType DEF Full, Pending
  <2> QED
    BY <2>1, <2>2, <2>4, <2>5 DEF StuckInv
<1>7. CASE ReadSome \/ ReadNothing \/ ReadFailed
  <2>1. /\ pc' \in {"idle", "scan"}
        /\ answer' \in {answer, "read_failed"}
        /\ answer \notin {"too_large", "eof", "malformed"}
    BY <1>7 DEF ReadSome, ReadNothing, ReadFailed, Return, StuckInv
  <2> QED
    BY <2>1 DEF StuckInv
<1>8. CASE ReadInterrupted \/ UNCHANGED vars
  <2>1. UNCHANGED vars
    BY <1>8 DEF ReadInterrupted
  <2> QED
    BY <1>0, <2>1 DEF vars, StuckInv
<1> QED
  BY <1>1, <1>2, <1>3, <1>4, <1>5, <1>6, <1>7, <1>8 DEF Next

LEMMA StuckAlways == Spec => []StuckInv
<1>1. Init => StuckInv
  BY DEF Init, StuckInv
<1> QED
  BY <1>1, StuckStep, BufferAlways, PTL DEF Spec

\* A record that was refused reaches the ceiling.
LEMMA RefusalReachesCeiling ==
    ASSUME BufferInv, StuckInv, answer = "too_large",
           Scan(FromCursor(0), format, max_depth).kind = "complete"
    PROVE  Scan(FromCursor(0), format, max_depth).len >= max_record_bytes
<1> DEFINE v == Scan(FromCursor(0), format, max_depth)
<1>1. v.len >= max_record_bytes
  <2>0. v.kind = "complete"
    OBVIOUS
  <2>1. /\ filled - pos = Len(buf) /\ Len(buf) >= max_record_bytes /\ Len(buf) \in Nat \ {0}
        /\ max_record_bytes \in Nat /\ 0 \in 0..(filled - pos) /\ pos + 0 # filled
        /\ pos # filled /\ Position + 0 + 1 = Position + 1 /\ filled - pos - 0 = Len(buf)
    BY StreamType DEF StuckInv, BufferInv, TypeOK, CursorsInBounds, Position
  <2>2. /\ <<Position + 0 + 1, sent, Len(stream)>> \in Stretches(stream)
        /\ sent + 1 - (Position + 0 + 1) = filled - pos - 0
        /\ stream \in Streams[format] /\ format \in Formats /\ max_depth \in Limits
    BY <2>1, JudgedStretch
  <2>3. v = Scan(SubSeq(stream, Position + 1, Len(stream)), format, max_depth)
    BY <2>1 DEF FromCursor
  <2> DEFINE w == Scan(Ahead, format, max_depth)
  <2>4. v.len < Len(buf) => w = v
    BY <2>1, <2>2, <2>3, ScanStable DEF Ahead, LengthsSettle
  <2>5. v.len \in Nat
    <3>1. /\ Position + 1 \in 1..Len(stream)
          /\ Len(stream) \in (Position + 1)..Len(stream)
      BY <2>1, StreamType DEF Position, BufferInv, TypeOK, BufferHoldsStream
    <3> QED
      BY <2>2, <2>3, <3>1, ScanInRange DEF AnswersInRange
  <2>6. w.kind = "incomplete" \/ w = [kind |-> "complete", len |-> Len(buf)]
    BY <2>1 DEF StuckInv, Waiting
  <2> HIDE DEF v, w
  <2>7. ~(v.len < Len(buf))
    BY <2>0, <2>1, <2>4, <2>6
  <2> QED
    BY <2>1, <2>5, <2>7
<1> QED
  BY <1>1

(***************************************************************************)
(* A record handed out of a buffer that is not longer than the ceiling     *)
(* leaves room behind it: a byte that follows it, or what the last read    *)
(* did not fill.                                                           *)
(***************************************************************************)
AllBelowCeiling ==
    \A i \in 1..Len(frames) :
        Len(frames[i].bytes) < max_record_bytes \/ configured > max_record_bytes

CeilingInv ==
    /\ input_done => filled < Len(buf)
    /\ pc \in {"building", "fill", "read"} => ~input_done
    /\ pc = "building" => frames = <<>>
    /\ AllBelowCeiling

\* What is handed out is below the ceiling, or the caller asked for a longer
\* buffer.
LEMMA DeliveredBelowCeiling ==
    ASSUME BufferInv, BufferIsBounded, CeilingInv,
           NEW k \in 0..(filled - pos), ~Undecided(k), Judged(k).kind = "complete",
           NEW f,
           f = [at    |-> base_offset + pos + k,
                bytes |-> SubSeq(buf, pos + k + 1, pos + k + Judged(k).len)]
    PROVE  Len(f.bytes) < max_record_bytes \/ configured > max_record_bytes
<1> DEFINE len == Judged(k).len
<1>1. pos + k # filled /\ (Judged(k) # [kind |-> "complete", len |-> filled - pos - k] \/ input_done)
  BY DEF Undecided
<1>2. len \in 1..(filled - pos - k) /\ Judged(k) \in Verdict
  BY <1>1, JudgedInRange
<1>3. /\ filled \in Nat /\ pos \in Nat /\ base_offset \in Nat /\ max_record_bytes \in Nat
      /\ configured \in Nat /\ Len(buf) \in Nat /\ filled <= Len(buf) /\ pos <= filled
  BY StreamType DEF BufferInv, TypeOK, CursorsInBounds
<1>4. len < filled - pos - k \/ filled < Len(buf)
  <2>1. len = filled - pos - k => Judged(k) = [kind |-> "complete", len |-> filled - pos - k]
    BY <1>2 DEF Verdict
  <2>2. len # filled - pos - k \/ input_done
    BY <1>1, <2>1
  <2>3. input_done => filled < Len(buf)
    BY DEF CeilingInv
  <2> HIDE DEF len
  <2> QED
    BY <1>2, <1>3, <2>2, <2>3
<1>7. k \in Nat
  BY <1>3
<1> DEFINE n == Len(f.bytes)
<1>5. n = len
  <2>1. f \in Frame /\ f.at = Position + k /\ FrameEnd(f) = Position + k + len
    BY <1>1, DeliveredFrame
  <2>2. n \in Nat /\ Position \in Nat
    BY <1>3, <2>1, LenProperties DEF Frame, Position
  <2>3. FrameEnd(f) = f.at + n
    BY DEF FrameEnd
  <2> HIDE DEF len, n
  <2>4. len \in Nat
    BY <1>2, <1>3, <1>7
  <2>5. Position + k + n = Position + k + len
    BY <2>1, <2>3
  <2> QED
    BY <1>7, <2>2, <2>4, <2>5
<1>6. configured <= max_record_bytes => Len(buf) <= max_record_bytes
  BY <1>3 DEF BufferIsBounded, MaxOf
<1> HIDE DEF len, n
<1>8. len < Len(buf)
  BY <1>2, <1>3, <1>4, <1>7
<1>9. len \in Nat
  BY <1>2, <1>3, <1>7
<1>10. n < max_record_bytes \/ configured > max_record_bytes
  BY <1>3, <1>5, <1>6, <1>8, <1>9
<1> QED
  BY <1>10 DEF n

\* No step ends that: the end of the input is noted by a read that had room.
LEMMA CeilingStep == BufferInv /\ BoundInv /\ CeilingInv /\ [Next]_vars => CeilingInv'
<1> SUFFICES ASSUME BufferInv, BoundInv, CeilingInv, [Next]_vars PROVE CeilingInv'
  OBVIOUS
<1> USE DEF source, settings, buffer, history
<1>a. /\ filled \in Nat /\ Len(buf) \in Nat \ {0} /\ frames \in Seq(Frame)
  BY StreamType DEF BufferInv, TypeOK
<1>b. ASSUME UNCHANGED <<frames, max_record_bytes, configured>>
      PROVE  AllBelowCeiling'
  BY <1>b DEF CeilingInv, AllBelowCeiling
<1>1. CASE WithBufferSize \/ WithMaxRecordBytes \/ WithMaxDepth
  <2>1. pc = "building" /\ UNCHANGED <<pc, frames, input_done>>
    BY <1>1 DEF WithBufferSize, SetBufferSize, WithMaxRecordBytes, WithMaxDepth
  <2> QED
    BY <2>1 DEF CeilingInv, AllBelowCeiling
<1>2. CASE NextFrame \/ Malformed \/ Exhausted \/ NeedMore
  <2>1. /\ UNCHANGED <<frames, max_record_bytes, configured, input_done, filled, buf>>
        /\ pc' \in {"scan", "idle"} \/ (pc' = "fill" /\ ~input_done)
    <3>1. CASE NextFrame
      BY <3>1 DEF NextFrame
    <3>2. CASE Malformed \/ Exhausted
      BY <3>2 DEF Malformed, Exhausted, Return
    <3>3. CASE NeedMore
      BY <3>3 DEF NeedMore
    <3> QED
      BY <1>2, <3>1, <3>2, <3>3
  <2> QED
    BY <1>b, <2>1 DEF CeilingInv
<1>3. CASE Deliver
  <2>1. PICK k \in 0..(filled - pos) :
              /\ ~Undecided(k) /\ Judged(k).kind = "complete"
              /\ frames' = Append(frames,
                     [at    |-> base_offset + pos + k,
                      bytes |-> SubSeq(buf, pos + k + 1, pos + k + Judged(k).len)])
              /\ UNCHANGED <<max_record_bytes, configured, input_done, filled, buf>>
              /\ pc' = "idle"
    BY <1>3 DEF Deliver, Return
  <2> DEFINE f == [at    |-> base_offset + pos + k,
                   bytes |-> SubSeq(buf, pos + k + 1, pos + k + Judged(k).len)]
  <2>2. Len(f.bytes) < max_record_bytes \/ configured > max_record_bytes
    BY <2>1, DeliveredBelowCeiling DEF BoundInv
  <2>3. frames' = Append(frames, f)
    BY <2>1
  <2> HIDE DEF f
  <2>4. AllBelowCeiling'
    <3>1. /\ Len(frames') = Len(frames) + 1 /\ Len(frames) \in Nat
          /\ \A i \in 1..Len(frames') : frames'[i] = IF i <= Len(frames) THEN frames[i] ELSE f
      BY <1>a, <2>3
    <3>2. \A i \in 1..Len(frames) :
             Len(frames[i].bytes) < max_record_bytes \/ configured > max_record_bytes
      BY DEF CeilingInv, AllBelowCeiling
    <3> SUFFICES ASSUME NEW i \in 1..Len(frames')
                 PROVE  Len(frames'[i].bytes) < max_record_bytes \/ configured > max_record_bytes
      BY <2>1 DEF AllBelowCeiling
    <3> QED
      BY <2>2, <3>1, <3>2
  <2> QED
    BY <2>1, <2>4 DEF CeilingInv
<1>4. CASE MakeRoom \/ RefuseRecord \/ ReadSome
  <2>1. UNCHANGED <<frames, max_record_bytes, configured, input_done>> /\ pc' # "building"
    BY <1>4 DEF MakeRoom, RefuseRecord, ReadSome, Return
  <2>2. ~input_done
    BY <1>4 DEF MakeRoom, RefuseRecord, ReadSome, CeilingInv
  <2> QED
    BY <1>b, <2>1, <2>2 DEF CeilingInv
<1>5. CASE ReadNothing
  <2>1. UNCHANGED <<frames, max_record_bytes, configured, filled, buf>> /\ pc' = "scan"
        /\ pc = "read"
    BY <1>5 DEF ReadNothing
  <2>2. filled < Len(buf)
    BY <2>1 DEF BufferInv, EndOfInputIsReal
  <2> QED
    BY <1>b, <2>1, <2>2 DEF CeilingInv
<1>6. CASE ReadFailed \/ ReadInterrupted \/ UNCHANGED vars
  <2>1. UNCHANGED <<frames, max_record_bytes, configured, input_done, filled, buf>>
        /\ pc' \in {pc, "idle"}
    BY <1>6 DEF ReadFailed, ReadInterrupted, Return, vars
  <2> QED
    BY <1>b, <2>1 DEF CeilingInv
<1> QED
  BY <1>1, <1>2, <1>3, <1>4, <1>5, <1>6 DEF Next

\* A record below the ceiling is never refused, and one that reaches it is never
\* handed out of a buffer that the caller did not ask to be longer.
THEOREM CeilingDecides == Spec => []CeilingIsExclusive
<1>1. BufferInv /\ StuckInv /\ CeilingInv => CeilingIsExclusive
  <2> SUFFICES ASSUME BufferInv, StuckInv, CeilingInv PROVE CeilingIsExclusive
    OBVIOUS
  <2>1. FromCursor(0) = SubSeq(stream, Position + 1, Len(stream))
    BY DEF FromCursor, BufferInv, TypeOK, Position
  <2> QED
    BY <2>1, RefusalReachesCeiling DEF CeilingIsExclusive, CeilingInv, AllBelowCeiling
<1>2. Init => CeilingInv
  BY SizesAssumption DEF Init, CeilingInv, AllBelowCeiling
<1>3. Init => BoundInv
  BY ZerosType, SizesAssumption DEF Init, BoundInv, BufferIsBounded, MaxOf
<1> QED
  BY <1>1, <1>2, <1>3, CeilingStep, BoundStep, BufferAlways, StuckAlways, PTL DEF Spec

\* An error in the stream, or a refused record, is the last thing a reader
\* reports: it does not resume in the middle of a record.
THEOREM ErrorsAreFinal == Spec => ErrorIsFinal
<1>1. BufferInv /\ StuckInv /\ [Next]_vars
        => [(answer \in {"eof", "malformed", "too_large"}) => answer' = answer]_vars
  <2> SUFFICES ASSUME BufferInv, StuckInv, Next,
                      answer \in {"eof", "malformed", "too_large"}
               PROVE  answer' = answer
    OBVIOUS
  <2> USE DEF source, settings, buffer, history
  <2>0. /\ AtRecord /\ pos # filled /\ pc \in {"idle", "scan", "fill"}
        /\ pc = "fill" => answer = "too_large"
        /\ answer = "too_large" => filled - pos = Len(buf) /\ Len(buf) >= max_record_bytes
    BY StreamType DEF StuckInv, Waiting, BufferInv, TypeOK
  <2>1. CASE Deliver \/ Malformed \/ Exhausted \/ NeedMore
    <3>1. PICK k \in 0..(filled - pos) : SeparatorRun(Window, k)
                  /\ \/ ~Undecided(k) /\ Judged(k).kind = "complete"
                     \/ /\ ~Undecided(k) /\ Judged(k).kind = "error"
                        /\ answer' = "malformed"
                     \/ /\ Undecided(k) /\ input_done
                        /\ answer' = IF pos + k = filled THEN "end" ELSE "eof"
                     \/ Undecided(k) /\ ~input_done /\ answer' = answer
      BY <2>1 DEF Deliver, Malformed, Exhausted, EndAnswer, NeedMore, Skips, Return
    <3>2. k = 0
      BY <2>0, <3>1, LoopView
    <3>3. pos + k # filled /\ filled - pos - k = filled - pos /\ Position + k + 1 = Position + 1
      BY <2>0, <3>2 DEF BufferInv, TypeOK, Position
    <3>4. Judged(k) = Scan(Ahead, format, max_depth)
      BY <3>1, <3>3, LoopView DEF Ahead
    <3>5. answer = "too_large" => Undecided(k) /\ ~input_done
      BY <2>0, <3>3, <3>4 DEF StuckInv, Waiting, Undecided
    <3>6. answer = "eof" => Undecided(k) /\ input_done
      BY <3>4 DEF StuckInv, Undecided
    <3>7. answer = "malformed" => ~Undecided(k) /\ Judged(k).kind = "error"
      BY <3>3, <3>4 DEF StuckInv, Undecided
    <3> QED
      BY <3>1, <3>3, <3>5, <3>6, <3>7
  <2>2. CASE MakeRoom \/ RefuseRecord
    BY <2>0, <2>2 DEF MakeRoom, RefuseRecord, Return
  <2>3. CASE NextFrame
    BY <2>3 DEF NextFrame
  <2>4. CASE WithBufferSize \/ WithMaxRecordBytes \/ WithMaxDepth
    BY <2>0, <2>4 DEF WithBufferSize, WithMaxRecordBytes, WithMaxDepth
  <2>5. CASE ReadSome \/ ReadNothing \/ ReadInterrupted \/ ReadFailed
    BY <2>0, <2>5 DEF ReadSome, ReadNothing, ReadInterrupted, ReadFailed
  <2> QED
    BY <2>1, <2>2, <2>3, <2>4, <2>5 DEF Next
<1> QED
  BY <1>1, BufferAlways, StuckAlways, PTL DEF Spec, ErrorIsFinal

-----------------------------------------------------------------------------
(***************************************************************************)
(* Growth: the first g bytes of the record at the cursor were all that the *)
(* buffer held when it last grew, and it grows to twice that; by stability *)
(* the record is at least as long.                                         *)
(***************************************************************************)
Unsettled(g) ==
    LET v == Scan(SubSeq(stream, Position + 1, Position + g), format, max_depth)
    IN  v.kind = "incomplete" \/ v = [kind |-> "complete", len |-> g]

GrewFor(g) == AtRecord /\ Unsettled(g) /\ Len(buf) <= 2 * g

GrewForFrame == \E i \in 1..Len(frames) : Len(buf) <= 2 * Len(frames[i].bytes)

GrowthInv ==
    \/ Len(buf) <= configured
    \/ GrewForFrame
    \/ \E g \in 1..(filled - pos) : GrewFor(g)

\* A record that the buffer grew for is at least as long as what was in it.
LEMMA GrewForRecord ==
    ASSUME BufferInv, NEW g \in 1..(filled - pos), GrewFor(g),
           NEW k \in 0..(filled - pos), SeparatorRun(Window, k)
    PROVE  /\ k = 0
           /\ Judged(k).kind = "complete" => Judged(k).len \in Nat /\ g <= Judged(k).len
<1>1. k = 0
  BY LoopView DEF GrewFor
<1> SUFFICES ASSUME Judged(k).kind = "complete"
             PROVE  Judged(k).len \in Nat /\ g <= Judged(k).len
  BY <1>1
<1>2. /\ Position = base_offset + pos /\ base_offset \in Nat /\ pos \in Nat
      /\ filled \in Nat /\ sent = base_offset + filled /\ sent <= Len(stream)
      /\ Len(stream) \in Nat /\ g \in Nat \ {0} /\ Position \in Nat
  BY StreamType DEF Position, BufferInv, TypeOK, BufferHoldsStream
<1>3. pos + k # filled /\ filled - pos - k = filled - pos /\ Position + k + 1 = Position + 1
  BY <1>1, <1>2
<1>4. Judged(k).len \in 1..(filled - pos)
  BY <1>3, JudgedInRange
<1> DEFINE long == Scan(SubSeq(stream, Position + 1, sent), format, max_depth)
           short == Scan(SubSeq(stream, Position + 1, Position + g), format, max_depth)
           t == <<Position + 1, Position + g, sent>>
<1>5. Judged(k) = long
  BY <1>3, LoopView
<1>6. t \in Stretches(stream)
  <2>1. Position + 1 \in 1..Len(stream) /\ Position + g \in 1..Len(stream) /\ sent \in 1..Len(stream)
        /\ Position + 1 <= Position + g /\ Position + g <= sent
    BY <1>2
  <2> QED
    BY <2>1 DEF Stretches
<1>7. long.kind = "complete" /\ long.len < g => short = long
  <2>1. stream \in Streams[format] /\ format \in Formats /\ max_depth \in Limits
    BY DEF BufferInv, TypeOK
  <2>2. Position + g + 1 - (Position + 1) = g
    BY <1>2
  <2> QED
    BY <1>6, <2>1, <2>2, ScanStable DEF LengthsSettle
<1>8. short.kind = "incomplete" \/ short = [kind |-> "complete", len |-> g]
  BY DEF GrewFor, Unsettled
<1> HIDE DEF long, short
<1>9. ~(long.len < g)
  BY <1>2, <1>5, <1>7, <1>8
<1> QED
  BY <1>2, <1>4, <1>5, <1>9

LEMMA GrowthStep ==
    BufferInv /\ BoundInv' /\ StuckInv /\ GrowthInv /\ [Next]_vars => GrowthInv'
<1> SUFFICES ASSUME BufferInv, BoundInv', StuckInv, GrowthInv, [Next]_vars PROVE GrowthInv'
  OBVIOUS
<1> USE DEF source, settings, buffer, history
<1>a. /\ Position = base_offset + pos /\ base_offset \in Nat /\ pos \in Nat
      /\ filled \in Nat /\ sent = base_offset + filled /\ pos <= filled
      /\ filled <= Len(buf) /\ Len(buf) \in Nat \ {0} /\ frames \in Seq(Frame)
  BY StreamType DEF Position, BufferInv, TypeOK, BufferHoldsStream, CursorsInBounds
\* A step that leaves the record where it is, with at least as much of it there.
<1>b. ASSUME Len(buf') = Len(buf), UNCHANGED <<stream, format, max_depth, configured, frames>>,
             Position' = Position, filled' - pos' \in Nat, filled' - pos' >= filled - pos
      PROVE  GrowthInv'
  <2>1. GrewForFrame => GrewForFrame'
    BY <1>b DEF GrewForFrame
  <2>2. ASSUME NEW g \in 1..(filled - pos), GrewFor(g)
        PROVE  g \in 1..(filled' - pos') /\ GrewFor(g)'
    <3>1. g \in 1..(filled' - pos')
      BY <1>a, <1>b
    <3>2. AtRecord' /\ Unsettled(g)'
      BY <1>a, <1>b, <2>2 DEF GrewFor, AtRecord, Unsettled
    <3> QED
      BY <1>b, <2>2, <3>1, <3>2 DEF GrewFor
  <2> QED
    BY <1>b, <2>1, <2>2 DEF GrowthInv
<1>1. CASE WithBufferSize \/ WithMaxRecordBytes \/ WithMaxDepth
  <2>1. pc' = "building"
    BY <1>1 DEF WithBufferSize, SetBufferSize, WithMaxRecordBytes, WithMaxDepth
  <2> QED
    BY <2>1 DEF BoundInv, GrowthInv
<1>2. CASE \/ NextFrame \/ ReadNothing \/ ReadInterrupted \/ ReadFailed \/ UNCHANGED vars
  <2>1. UNCHANGED <<buf, stream, format, max_depth, configured, frames, filled, pos, base_offset>>
    BY <1>2 DEF NextFrame, ReadNothing, ReadInterrupted, ReadFailed, vars
  <2> QED
    BY <1>a, <1>b, <2>1 DEF Position
<1>3. CASE Malformed \/ Exhausted \/ NeedMore
  <2>1. PICK k \in 0..(filled - pos) : SeparatorRun(Window, k) /\ pos' = pos + k
    BY <1>3 DEF Malformed, Exhausted, NeedMore, Skips
  <2>2. UNCHANGED <<buf, stream, format, max_depth, configured, frames, filled, base_offset>>
    BY <1>3 DEF Malformed, Exhausted, NeedMore
  <2>3. CASE \E g \in 1..(filled - pos) : GrewFor(g)
    <3>1. k = 0
      BY <2>1, <2>3, GrewForRecord
    <3> QED
      BY <1>a, <1>b, <2>1, <2>2, <3>1 DEF Position
  <2> QED
    BY <2>2, <2>3 DEF GrowthInv, GrewForFrame
<1>4. CASE Deliver
  <2>1. PICK k \in 0..(filled - pos) :
          /\ SeparatorRun(Window, k)
          /\ ~Undecided(k)
          /\ Judged(k).kind = "complete"
          /\ frames' = Append(frames,
               [at    |-> base_offset + pos + k,
                bytes |-> SubSeq(buf, pos + k + 1, pos + k + Judged(k).len)])
    BY <1>4 DEF Deliver, Skips
  <2>2. pos + k # filled /\ UNCHANGED <<buf, configured>>
    BY <1>4, <2>1 DEF Undecided, Deliver
  <2> DEFINE f == [at    |-> base_offset + pos + k,
                   bytes |-> SubSeq(buf, pos + k + 1, pos + k + Judged(k).len)]
             n == Len(frames)
  <2>3. f \in Frame /\ f.at = Position + k /\ FrameEnd(f) = Position + k + Judged(k).len
    BY <2>1, <2>2, DeliveredFrame
  <2>4. frames' = Append(frames, f)
    BY <2>1
  <2> HIDE DEF f
  <2>5. /\ n \in Nat /\ Len(frames') = n + 1 /\ frames'[n + 1] = f
        /\ \A i \in 1..n : frames'[i] = frames[i]
    BY <1>a, <2>3, <2>4, AppendProperties, LenProperties
  <2> HIDE DEF n
  <2>6. GrewForFrame => GrewForFrame'
    BY <2>2, <2>5 DEF GrewForFrame, n
  <2>7. CASE \E g \in 1..(filled - pos) : GrewFor(g)
    <3>1. PICK g \in 1..(filled - pos) : GrewFor(g)
      BY <2>7
    <3>2. Judged(k).len \in Nat /\ g <= Judged(k).len /\ g \in Nat
      BY <1>a, <2>1, <3>1, GrewForRecord
    <3>3. Len(f.bytes) = Judged(k).len
      <4> DEFINE len == Len(f.bytes)
                 judged == Judged(k).len
      <4>1. len \in Nat /\ f.at + len = Position + k + judged
        BY <2>3, LenProperties DEF FrameEnd, Frame
      <4>2. judged \in Nat
        BY <3>2
      <4> HIDE DEF len, judged
      <4>3. len = judged
        BY <1>a, <2>3, <4>1, <4>2
      <4> QED
        BY <4>3 DEF len, judged
    <3>4. Len(buf') <= 2 * Len(f.bytes)
      <4>1. Len(buf) <= 2 * g
        BY <3>1 DEF GrewFor
      <4> QED
        BY <1>a, <2>2, <3>2, <3>3, <4>1
    <3>5. GrewForFrame'
      BY <2>5, <3>4 DEF GrewForFrame
    <3> QED
      BY <3>5 DEF GrowthInv
  <2> QED
    BY <2>2, <2>6, <2>7 DEF GrowthInv
<1>5. CASE (MakeRoom /\ ~Full) \/ RefuseRecord
  <2>1. Compact /\ buf' = Compacted /\ UNCHANGED <<stream, format, max_depth, configured, frames>>
    BY <1>5 DEF MakeRoom, RefuseRecord
  <2> QED
    BY <1>a, <1>b, <2>1, CompactedType DEF Compact, Pending, Position
<1>6. CASE MakeRoom /\ Full
  <2> DEFINE g == filled - pos
  <2>1. Waiting /\ Compact /\ buf' = Resized(Compacted, Grown)
        /\ UNCHANGED <<stream, format, max_depth>>
    BY <1>6 DEF MakeRoom, StuckInv
  <2>2. /\ g = Len(buf) /\ g \in Nat \ {0} /\ Position' = Position /\ filled' = g /\ pos' = 0
        /\ Position + g = sent /\ filled' - pos' = g
    BY <1>a, <1>6, <2>1 DEF Compact, Full, Pending, Position
  <2>3. Len(buf') <= 2 * g
    <3> DEFINE size == Grown
    <3>1. size \in Nat /\ size <= 2 * Len(buf)
      BY <1>a DEF Grown, MinOf, BufferInv, TypeOK
    <3>2. buf' = Resized(Compacted, size)
      BY <2>1
    <3> HIDE DEF size
    <3>3. Len(buf') = size
      BY <3>1, <3>2, CompactedType, ResizedType
    <3> QED
      BY <2>2, <3>1, <3>3
  <2> HIDE DEF g
  <2>4. AtRecord'
    BY <1>a, <2>1, <2>2 DEF Waiting, AtRecord, g
  <2>5. Unsettled(g)'
    <3>1. pos # filled
      BY <1>a, <2>2 DEF g
    <3>2. \/ Scan(Ahead, format, max_depth).kind = "incomplete"
          \/ Scan(Ahead, format, max_depth) = [kind |-> "complete", len |-> g]
      BY <2>1, <3>1 DEF Waiting, g
    <3>3. Ahead = SubSeq(stream, Position + 1, Position + g)
      BY <2>2 DEF Ahead
    <3>4. Unsettled(g)
      BY <3>2, <3>3 DEF Unsettled
    <3>5. g' = g
      BY <2>2 DEF g
    <3> QED
      BY <2>1, <2>2, <3>4, <3>5 DEF Unsettled
  <2>6. g' = g
    BY <2>2 DEF g
  <2>7. GrewFor(g)' /\ g \in 1..(filled' - pos')
    BY <2>2, <2>3, <2>4, <2>5, <2>6 DEF GrewFor
  <2> QED
    BY <2>6, <2>7 DEF GrowthInv
<1>7. CASE ReadSome
  <2>1. Len(buf') = Len(buf) /\ UNCHANGED <<stream, format, max_depth, configured, frames, pos, base_offset>>
    BY <1>7, <1>a DEF ReadSome
  <2>2. filled' \in Nat /\ filled' >= filled
    <3>1. PICK n \in 1..MinOf(Room, Len(stream) - sent) : filled' = filled + n
      BY <1>7 DEF ReadSome
    <3>2. n \in Nat
      <4>1. MinOf(Room, Len(stream) - sent) \in Int
        BY <1>a, StreamType DEF MinOf, Room, BufferInv, TypeOK
      <4> QED
        BY <4>1
    <3> QED
      BY <1>a, <3>1, <3>2
  <2>3. filled' - pos' \in Nat /\ filled' - pos' >= filled - pos
    <3> DEFINE more == filled'
    <3>1. more \in Nat /\ more >= filled /\ pos' = pos
      BY <2>1, <2>2
    <3> HIDE DEF more
    <3>2. more - pos \in Nat /\ more - pos >= filled - pos
      BY <1>a, <3>1
    <3> QED
      BY <3>1, <3>2 DEF more
  <2>4. Position' = Position
    BY <2>1 DEF Position
  <2> QED
    BY <1>b, <2>1, <2>3, <2>4
<1> QED
  BY <1>1, <1>2, <1>3, <1>4, <1>5, <1>6, <1>7 DEF Next

\* The buffer grows for records only: it is at most twice as long as a record that
\* was handed out or is in flight, unless its caller asked for more (fill,
\* frames.rs:280).
THEOREM GrowthFollowsRecords == Spec => []BufferFollowsRecords
<1>1. Init => BoundInv /\ GrowthInv
  BY ZerosType, SizesAssumption DEF Init, BoundInv, BufferIsBounded, MaxOf, GrowthInv
<1>2. BufferInv /\ BoundInv /\ StuckInv /\ GrowthInv /\ [Next]_vars => BoundInv' /\ GrowthInv'
  BY BoundStep, GrowthStep
<1>3. BufferInv /\ GrowthInv => BufferFollowsRecords
  <2> SUFFICES ASSUME BufferInv, GrowthInv PROVE BufferFollowsRecords
    OBVIOUS
  <2>1. ASSUME NEW g \in 1..(filled - pos), GrewFor(g)
        PROVE  Len(buf) <= 2 * Pending
    BY <2>1, StreamType DEF GrewFor, Pending, BufferInv, TypeOK, CursorsInBounds
  <2> QED
    BY <2>1 DEF GrowthInv, GrewForFrame, BufferFollowsRecords
<1> QED
  BY <1>1, <1>2, <1>3, BufferAlways, StuckAlways, PTL DEF Spec
=============================================================================
