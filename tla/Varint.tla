------------------------------- MODULE Varint -------------------------------
(***************************************************************************)
(* Variable-length integers and the zigzag encoding of signed ones: both   *)
(* directions of src/core/varint.rs.                                       *)
(***************************************************************************)
EXTENDS Input

CONSTANTS
    Int64Max, Uint64Max,   \* the number ranges (2^63 - 1 and 2^64 - 1)
    VarintBytes            \* bytes of the longest varint (10)

ASSUME VarintAssumption ==
    /\ Int64Max \in Nat /\ Uint64Max \in Nat /\ Int64Max <= Uint64Max
    /\ VarintBytes \in Nat \ {0}

\* A varint is short, or malformed, or a value.
Got(kind, p, value) == [kind |-> kind, at |-> p, value |-> value]

\* The number whose groups of seven bits are in these bytes, the lowest first.
Groups(b) ==
    LET number[n \in 0..Len(b)] ==
            IF n = 0 THEN 0 ELSE 128 * number[n - 1] + (b[Len(b) + 1 - n] % 128)
    IN  number[Len(b)]

\* read_uvarint: the varint at p.  Seven bits of payload in each byte, the high
\* bit set in all but the last; the longest varint has a single bit left in its
\* last byte.
Uvarint(s, p) ==
    LET last == RunEnd(s, p, 128..255)
        limit == p + VarintBytes - 1
    IN  CASE last > limit -> Got("bad", 0, 0)
          [] last <= limit /\ ~Inside(s, last) -> Got("eof", 0, 0)
          [] last = limit /\ Inside(s, last) /\ At(s, last) > 1 -> Got("bad", 0, 0)
          [] OTHER -> Got("Uint64", last + 1, Groups(Slice(s, p, last + 1)))

\* write_uvarint
WriteUvarint(val) ==
    LET bytes[v \in Nat] ==
            IF v >= 128 THEN <<128 + (v % 128)>> \o bytes[v \div 128] ELSE <<v>>
    IN  bytes[val]

\* The sign goes to the lowest bit; the shift wraps at the width of the type.
Zigzag(val) ==
    LET shifted == (2 * val) % (Uint64Max + 1)
    IN  IF val < 0 THEN Uint64Max - shifted ELSE shifted

\* What read_varint makes of the payload.
Unzigzag(u) == IF u % 2 = 0 THEN u \div 2 ELSE -(u \div 2) - 1

\* write_varint
WriteVarint(val) == WriteUvarint(Zigzag(val))
=============================================================================
