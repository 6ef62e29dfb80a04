---------------------------- MODULE GrowingInput ----------------------------
(***************************************************************************)
(* A buffer that grows byte by byte, and what the scanner says of it each  *)
(* time: the way FrameReader uses scan_value_with_max_depth.               *)
(***************************************************************************)
EXTENDS Scanner

CONSTANTS
    Alphabets,    \* [format, bytes]: a format, and bytes an input is made of
    MaxDepth,     \* the depth limit
    MaxLength     \* bound on the length of the input

ASSUME InputAssumption ==
    /\ Alphabets \subseteq [format : Formats, bytes : SUBSET Byte]
    /\ MaxDepth \in Nat

VARIABLES
    alphabet,     \* the format and the bytes of this input
    input,
    scanned       \* the scanner's verdict on the input

vars == <<alphabet, input, scanned>>

Scan(s) == ScanValue(s, alphabet.format, MaxDepth)

Init ==
    /\ alphabet \in Alphabets
    /\ input = <<>>
    /\ scanned = Scan(input)

Arrive ==
    /\ Len(input) < MaxLength
    /\ \E b \in alphabet.bytes : input' = Append(input, b)
    /\ scanned' = Scan(input')
    /\ UNCHANGED alphabet

Next == Arrive

Spec == Init /\ [][Next]_vars

-----------------------------------------------------------------------------
\* Once a byte follows a complete value its length is settled, whatever arrives
\* later: the framer may hand the record out.
LengthIsSettled ==
    [][(scanned.kind = "complete" /\ scanned.len < Len(input)) => scanned' = scanned]_vars

\* ... and a value found later with more than one byte behind it was found as
\* soon as the first of them had arrived: no record is held back.
FoundInTime ==
    [][(scanned'.kind = "complete" /\ scanned'.len < Len(input)) => scanned = scanned']_vars

\* In binary, a malformed value stays malformed: no amount of further input can
\* fix it, and none is waited for.
BinaryErrorIsNotShort ==
    [][(alphabet.format = "Binary" /\ scanned.kind = "error")
          => scanned'.kind = "error"]_vars
=============================================================================
