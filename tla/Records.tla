------------------------------ MODULE Records ------------------------------
(***************************************************************************)
(* What the two framers of src/core/frames.rs share: byte strings, the    *)
(* verdict of the value scanner, and the separators between records.       *)
(*                                                                         *)
(* The scanner itself is the parameter Scan, so that everything said of    *)
(* framing here holds for the text and for the binary format alike.        *)
(* Module Scanner translates the scanner of the crate, and the MC modules  *)
(* put it in the place of Scan.                                            *)
(***************************************************************************)
EXTENDS Naturals, Sequences

CONSTANTS
    Streams,      \* for each format, the byte strings that may be framed
    Scan(_, _, _),       \* scan_value_with_max_depth: slice, format, depth limit
    DEFAULT_MAX_DEPTH,   \* 128 in the code
    Depths               \* the limits a caller passes to with_max_depth

Byte == 0..255

\* YsonFormat
Formats == {"Text", "Binary"}

\* `;` and u8::is_ascii_whitespace: tab, line feed, form feed, return, space.
Separators == {59, 9, 10, 12, 13, 32}

\* Result<Scan, YsonError>; `len` means something for "complete" only.
Verdict == [kind : {"complete", "incomplete", "error"}, len : Nat]

\* Every depth limit a framer can be set to.
Limits == Depths \cup {DEFAULT_MAX_DEPTH}

ASSUME StreamsAreByteStrings ==
    \A f \in Formats : \A s \in Streams[f] : s \in Seq(Byte)

\* A complete value is a non-empty prefix of the slice that was scanned.
AnswersInRange(f) ==
    \A d \in Limits : \A s \in Streams[f] :
      \A i \in 1..Len(s) : \A j \in i..Len(s) :
        LET v == Scan(SubSeq(s, i, j), f, d)
        IN  /\ v \in Verdict
            /\ v.kind = "complete" => v.len \in 1..(j + 1 - i)

ASSUME ScanInRange == \A f \in Formats : AnswersInRange(f)

\* The bytes from t[1] to t[2], and those up to t[3] that more reads turn them
\* into.
Stretches(s) ==
    {t \in (1..Len(s)) \X (1..Len(s)) \X (1..Len(s)) : t[1] <= t[2] /\ t[2] <= t[3]}

\* Once a byte follows a complete value, its length is settled: it is the same
\* for every longer stretch, and no shorter stretch beyond the value's last byte
\* says otherwise.
LengthsSettle(f) ==
    \A d \in Limits : \A s \in Streams[f] : \A t \in Stretches(s) :
        LET short == Scan(SubSeq(s, t[1], t[2]), f, d)
            long  == Scan(SubSeq(s, t[1], t[3]), f, d)
            length == t[2] + 1 - t[1]
        IN  /\ short.kind = "complete" /\ short.len < length => long = short
            /\ long.kind = "complete" /\ long.len < length => short = long

\* An error is not a short read: more bytes do not cure it.
ErrorsStay(f) ==
    \A d \in Limits : \A s \in Streams[f] : \A t \in Stretches(s) :
        Scan(SubSeq(s, t[1], t[2]), f, d).kind = "error"
            => Scan(SubSeq(s, t[1], t[3]), f, d).kind = "error"

-----------------------------------------------------------------------------
\* k is the number of bytes skip_separators steps over at the front of s.
SeparatorRun(s, k) ==
    /\ \A i \in 1..k : s[i] \in Separators
    /\ k < Len(s) => s[k + 1] \notin Separators

\* Bytes from+1 to to of s all lie between records.
OnlySeparators(s, from, to) ==
    \A i \in (from + 1)..to : s[i] \in Separators

-----------------------------------------------------------------------------
(***************************************************************************)
(* The history of a framer: the records it handed out, each with the       *)
(* stream offset it claims and the bytes the caller saw.                   *)
(***************************************************************************)
Frame == [at : Nat, bytes : Seq(Byte)]

FrameEnd(f) == f.at + Len(f.bytes)

EndOf(fs) == IF fs = <<>> THEN 0 ELSE FrameEnd(fs[Len(fs)])

\* Where the gap in front of the i-th frame begins.
GapStart(fs, i) == IF i = 1 THEN 0 ELSE FrameEnd(fs[i - 1])

\* The frames lie in the stream in order and carry its bytes, and what is
\* left out between them is separators only.
Tiles(s, fs) ==
    \A i \in 1..Len(fs) :
        /\ GapStart(fs, i) <= fs[i].at
        /\ FrameEnd(fs[i]) <= Len(s)
        /\ fs[i].bytes = SubSeq(s, fs[i].at + 1, FrameEnd(fs[i]))
        /\ OnlySeparators(s, GapStart(fs, i), fs[i].at)
=============================================================================
