------------------------------- MODULE Input -------------------------------
(***************************************************************************)
(* Bytes, places in a string of bytes, and what a step of the tokenizer or *)
(* of a walk over tokens comes to.                                         *)
(*                                                                         *)
(* A step starts at an offset p of the input (the number of bytes in front *)
(* of it) and yields a result: the kind of what it found and the offset    *)
(* behind it, or one of the two ways to fail.                              *)
(***************************************************************************)
EXTENDS Integers, Sequences

-----------------------------------------------------------------------------
(* Bytes. *)
Byte == 0..255
Whitespace == {9, 10, 12, 13, 32}
Digit == 48..57
Alphabetic == (65..90) \cup (97..122)
HexDigit == Digit \cup (65..70) \cup (97..102)
NEWLINE == 10   QUOTE == 34    ENTITY == 35   PERCENT == 37
STAR == 42      PLUS == 43     MINUS == 45    DOT == 46     SLASH == 47
SEMI == 59      LT == 60       EQ == 61       GT == 62
LBRACK == 91    BACKSLASH == 92   RBRACK == 93   UNDERSCORE == 95
LBRACE == 123   RBRACE == 125
LOWER_E == 101  UPPER_E == 69  LOWER_U == 117  LOWER_X == 120

At(s, p) == s[p + 1]

Inside(s, p) == p < Len(s)

\* The offset behind the longest run of bytes of class C that starts at p.
RunEnd(s, p, C) ==
    CHOOSE q \in p..Len(s) :
        /\ \A r \in p..(q - 1) : At(s, r) \in C
        /\ Inside(s, q) => At(s, q) \notin C

Slice(s, from, to) == SubSeq(s, from + 1, to)

-----------------------------------------------------------------------------
(* Results. *)
Found(kind, p) == [kind |-> kind, at |-> p]
Eof == [kind |-> "eof", at |-> 0]      \* YsonError::Eof and UnexpectedEof
Bad == [kind |-> "bad", at |-> 0]      \* every other error

Failed(r) == r.kind \in {"eof", "bad"}

\* The `?` of the code: a failure is returned at once.
Then(r, Continue(_)) == IF Failed(r) THEN r ELSE Continue(r)
=============================================================================
