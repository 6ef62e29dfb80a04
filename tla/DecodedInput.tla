---------------------------- MODULE DecodedInput ----------------------------
(***************************************************************************)
(* What the value reader makes of an input that grows: every prefix is     *)
(* given to it too, and so is every frame the scanner finds, the way the   *)
(* caller of a framer decodes it.                                          *)
(***************************************************************************)
EXTENDS GrowingInput, Reader

Read(s) == ReadValue(s, alphabet.format, MaxDepth)

\* The frame that is handed out.
Frame == SubSeq(input, 1, scanned.len)

\* A quoted string whose escapes make no sense: the scanner steps over it.
HasBadEscape(s) ==
    \E p \in 0..(Len(s) - 1) :
        /\ At(s, p) = QUOTE
        /\ LET close == ClosingQuote(s, p + 1)
           IN  ~Failed(close) /\ Failed(DecodeEscapes(Slice(s, p + 1, close.at - 1)))

\* The scanner and the value reader accept the same inputs, at the same depths,
\* find the same end and tell short from malformed alike.  All they may differ in
\* is that the reader rejects an escape.
ScannerAndReaderAgree ==
    LET read == Read(input)
    IN  \/ CASE scanned.kind = "complete" -> Extent(read) = Found("Value", scanned.len)
             [] scanned.kind = "incomplete" -> read.kind = "eof"
             [] scanned.kind = "error" -> read.kind = "bad"
        \/ alphabet.format = "Text" /\ HasBadEscape(input) /\ Failed(read)

\* Every frame decodes on its own: the reader accepts it, uses all of it, and
\* finds the value it finds with the rest of the input behind it.
FramesDecode ==
    scanned.kind = "complete" =>
        LET decoded == Read(Frame)
        IN  \/ Extent(decoded) = Found("Value", scanned.len) /\ decoded = Read(input)
            \/ alphabet.format = "Text" /\ HasBadEscape(Frame) /\ Failed(decoded)
=============================================================================
