------------------------------ MODULE Scanner ------------------------------
(***************************************************************************)
(* Where a value ends: the tokenizer of src/core/reader.rs, where it does  *)
(* not look at what a token holds, and the scanner of src/core/scan.rs, in *)
(* both formats, with the depth limit.                                     *)
(***************************************************************************)
EXTENDS Varint

CONSTANT
    DoubleBytes            \* bytes of a binary double (8)

ASSUME DoubleAssumption == DoubleBytes \in Nat

-----------------------------------------------------------------------------
Scalars == {"Entity", "Boolean", "Int64", "Uint64", "Double", "String"}

Structural ==
    [b \in {LBRACK, RBRACK, LBRACE, RBRACE, LT, GT, EQ, SEMI, ENTITY} |->
        CASE b = LBRACK -> "BeginList"        [] b = RBRACK -> "EndList"
          [] b = LBRACE -> "BeginMap"         [] b = RBRACE -> "EndMap"
          [] b = LT     -> "BeginAttributes"  [] b = GT     -> "EndAttributes"
          [] b = EQ     -> "KeyValueSeparator"
          [] b = SEMI   -> "ItemSeparator"    [] b = ENTITY -> "Entity"]

-----------------------------------------------------------------------------
(* Text: insignificant bytes. *)
LineCommentEnd(s, p) == RunEnd(s, p + 2, (0..255) \ {NEWLINE})

\* Where a block comment closes, or the end of the input.
BlockCommentEnd(s, p) ==
    LET ends == {q \in (p + 4)..Len(s) : At(s, q - 2) = STAR /\ At(s, q - 1) = SLASH}
    IN  IF ends = {} THEN Len(s) ELSE CHOOSE q \in ends : \A r \in ends : q <= r

Opens(s, q, b) == Inside(s, q + 1) /\ At(s, q) = SLASH /\ At(s, q + 1) = b

SkipIgnored(s, p) ==
    LET skip[from \in 0..Len(s)] ==
            LET q == RunEnd(s, from, Whitespace)
            IN  IF Opens(s, q, SLASH) THEN skip[LineCommentEnd(s, q)]
                ELSE IF Opens(s, q, STAR) THEN skip[BlockCommentEnd(s, q)]
                ELSE q
    IN  skip[p]

-----------------------------------------------------------------------------
(* Text: numbers, as the standard library parses them. *)
Numeral(base, ds) ==
    LET number[n \in 0..Len(ds)] ==
            IF n = 0 THEN 0 ELSE base * number[n - 1] + (ds[n] - 48)
    IN  number[Len(ds)]

AllDigits(b) == \A i \in 1..Len(b) : b[i] \in Digit

Signed(b, Signs) == b # <<>> /\ b[1] \in Signs
WithoutSign(b, Signs) == IF Signed(b, Signs) THEN Tail(b) ELSE b

\* str::parse::<u64> and str::parse::<i64>
ParsesU64(b) ==
    LET ds == WithoutSign(b, {PLUS})
    IN  ds # <<>> /\ AllDigits(ds) /\ Numeral(10, ds) <= Uint64Max

ParsesI64(b) ==
    LET ds == WithoutSign(b, {PLUS, MINUS})
    IN  /\ ds # <<>> /\ AllDigits(ds)
        /\ Numeral(10, ds) <= Int64Max + (IF Signed(b, {MINUS}) THEN 1 ELSE 0)

\* str::parse::<f64>: digits with at most one point among them, at least one
\* digit, and an exponent.
Mantissa(m) ==
    /\ \E d \in 1..Len(m) : m[d] \in Digit
    /\ \E d \in 1..Len(m) :
          /\ \A i \in 1..Len(m) : i # d => m[i] \in Digit
          /\ m[d] \in Digit \cup {DOT}

Exponent(e) ==
    e = <<>> \/ /\ e[1] \in {LOWER_E, UPPER_E}
                /\ LET ds == WithoutSign(Tail(e), {PLUS, MINUS})
                   IN  ds # <<>> /\ AllDigits(ds)

ParsesF64(b) ==
    LET u == WithoutSign(b, {PLUS, MINUS})
    IN  \E m \in 1..Len(u) : Mantissa(Slice(u, 0, m)) /\ Exponent(Slice(u, m, Len(u)))

TextNumber(s, p) ==
    LET q == RunEnd(s, p, Digit \cup {PLUS, MINUS, DOT, LOWER_E, UPPER_E})
        b == Slice(s, p, q)
        isUnsigned == Inside(s, q) /\ At(s, q) = LOWER_U
        hasDotOrExp == \E i \in 1..Len(b) : b[i] \in {DOT, LOWER_E, UPPER_E}
    IN  CASE isUnsigned  -> IF ParsesU64(b) THEN Found("Uint64", q + 1) ELSE Bad
          [] ~isUnsigned /\ hasDotOrExp -> IF ParsesF64(b) THEN Found("Double", q) ELSE Bad
          [] OTHER -> IF ParsesI64(b) THEN Found("Int64", q)
                      ELSE IF ParsesU64(b) THEN Found("Uint64", q) ELSE Bad

-----------------------------------------------------------------------------
(* Text: the other tokens. *)

\* The body of a quoted string ends at the first quote no backslash precedes;
\* backslashes pair with the byte that follows them.
ClosingQuote(s, p) ==
    LET close[cursor \in 0..(Len(s) + 1)] ==
            IF ~Inside(s, cursor) THEN Eof
            ELSE IF At(s, cursor) = QUOTE THEN Found("String", cursor + 1)
            ELSE close[IF At(s, cursor) = BACKSLASH THEN cursor + 2 ELSE cursor + 1]
    IN  close[p]

UnquotedString(s, p) ==
    Found("String", RunEnd(s, p, Alphabetic \cup Digit \cup {UNDERSCORE, MINUS, DOT}))

Specials ==
    {[word |-> <<102, 97, 108, 115, 101>>, kind |-> "Boolean"],   \* false
     [word |-> <<116, 114, 117, 101>>,     kind |-> "Boolean"],   \* true
     [word |-> <<45, 105, 110, 102>>,      kind |-> "Double"],    \* -inf
     [word |-> <<110, 97, 110>>,           kind |-> "Double"],    \* nan
     [word |-> <<105, 110, 102>>,          kind |-> "Double"]}    \* inf

StartsWith(s, p, w) == p + Len(w) <= Len(s) /\ Slice(s, p, p + Len(w)) = w

SpecialValue(s, p) ==
    LET whole == {w \in Specials : StartsWith(s, p + 1, w.word)}
        short == {w \in Specials : StartsWith(w.word, 0, Slice(s, p + 1, Len(s)))}
    IN  IF whole # {} THEN LET w == CHOOSE w \in whole : TRUE
                           IN  Found(w.kind, p + 1 + Len(w.word))
        ELSE IF short # {} THEN Eof ELSE Bad

TextToken(s, p) ==
    LET b == At(s, p) IN
    CASE b \in DOMAIN Structural -> Found(Structural[b], p + 1)
      [] b = QUOTE -> ClosingQuote(s, p + 1)
      [] b \in Digit \cup {PLUS, MINUS} -> TextNumber(s, p)
      [] b = PERCENT -> SpecialValue(s, p)
      [] b \in Alphabetic \cup {UNDERSCORE} -> UnquotedString(s, p)
      [] OTHER -> Bad

-----------------------------------------------------------------------------
(* Binary. *)

As(kind, r) == IF Failed(r) THEN r ELSE [r EXCEPT !.kind = kind]

\* Mutant: a payload that has not arrived is malformed.
PayloadStrict(kind, s, p, n) == IF p + n <= Len(s) THEN Found(kind, p + n) ELSE Bad

\* n bytes of payload at p.
Payload(kind, s, p, n) == IF p + n <= Len(s) THEN Found(kind, p + n) ELSE Eof

\* The zigzag encoding has the sign in the lowest bit.
BinaryString(s, p) ==
    LET length == Uvarint(s, p)
    IN  CASE Failed(length) -> length
          [] ~Failed(length) /\ length.value % 2 = 1 -> Bad
          [] OTHER -> Payload("String", s, length.at, length.value \div 2)

BinaryToken(s, p) ==
    LET b == At(s, p) IN
    CASE b = 1 -> BinaryString(s, p + 1)
      [] b = 2 -> As("Int64", Uvarint(s, p + 1))
      [] b = 3 -> Payload("Double", s, p + 1, DoubleBytes)
      [] b \in {4, 5} -> Found("Boolean", p + 1)
      [] b = 6 -> As("Uint64", Uvarint(s, p + 1))
      [] b \in DOMAIN Structural -> Found(Structural[b], p + 1)
      [] OTHER -> Bad

-----------------------------------------------------------------------------
(* The tokenizer. *)
Formats == {"Text", "Binary"}

\* Where the next meaningful byte is.
Meaningful(s, p, fmt) == IF fmt = "Text" THEN SkipIgnored(s, p) ELSE p

\* peek_byte yields b.  At the end of the input it fails with Eof, and so does
\* the token that would be taken instead.
PeekIs(s, p, fmt, b) ==
    LET q == Meaningful(s, p, fmt) IN Inside(s, q) /\ At(s, q) = b

\* Behind a peeked byte that is a token by itself.
Behind(s, p, fmt) == Meaningful(s, p, fmt) + 1

\* A token of another kind is malformed.
Expect(kind, r) == IF Failed(r) \/ r.kind = kind THEN r ELSE Bad

\* skip_token: what a quoted string holds is not looked at.
SkipToken(s, p, fmt) ==
    LET q == Meaningful(s, p, fmt)
    IN  IF ~Inside(s, q) THEN Eof
        ELSE IF fmt = "Text" THEN TextToken(s, q) ELSE BinaryToken(s, q)

-----------------------------------------------------------------------------
(***************************************************************************)
(* scan_one, scan_items and scan_pairs: the end of one value.  `max` is    *)
(* the depth limit, and `walk` has the results of the calls that one of    *)
(* them makes, a further turn of a loop among them.                        *)
(***************************************************************************)
Call == [of : {"one", "items", "pairs"}, at : Nat, end : Byte, depth : Nat]

CallOne(p, depth) == [of |-> "one", at |-> p, end |-> 0, depth |-> depth]
CallItems(p, depth) == [of |-> "items", at |-> p, end |-> RBRACK, depth |-> depth]
CallPairs(p, end, depth) == [of |-> "pairs", at |-> p, end |-> end, depth |-> depth]

\* Mutant: a list does not count as a level.
ScanNodeShallow(walk, s, p, fmt, depth) ==
    Then(SkipToken(s, p, fmt), LAMBDA token :
        CASE token.kind \in Scalars -> Found("Value", token.at)
          [] token.kind = "BeginList" -> walk[CallItems(token.at, depth)]
          [] token.kind = "BeginMap" -> walk[CallPairs(token.at, RBRACE, depth + 1)]
          [] OTHER -> Bad)

\* Mutant: a token out of place counts as a value.
ScanNodeLenient(walk, s, p, fmt, depth) ==
    Then(SkipToken(s, p, fmt), LAMBDA token :
        CASE token.kind = "BeginList" -> walk[CallItems(token.at, depth + 1)]
          [] token.kind = "BeginMap" -> walk[CallPairs(token.at, RBRACE, depth + 1)]
          [] OTHER -> Found("Value", token.at))

ScanNode(walk, s, p, fmt, depth) ==
    Then(SkipToken(s, p, fmt), LAMBDA token :
        CASE token.kind \in Scalars -> Found("Value", token.at)
          [] token.kind = "BeginList" -> walk[CallItems(token.at, depth + 1)]
          [] token.kind = "BeginMap" -> walk[CallPairs(token.at, RBRACE, depth + 1)]
          [] OTHER -> Bad)

ScanOne(walk, s, p, fmt, depth, max) ==
    IF depth > max THEN Bad
    ELSE IF ~PeekIs(s, p, fmt, LT) THEN ScanNode(walk, s, p, fmt, depth)
    ELSE Then(walk[CallPairs(Behind(s, p, fmt), GT, depth + 1)], LAMBDA attributes :
              ScanNode(walk, s, attributes.at, fmt, depth))

ScanItems(walk, s, p, fmt, depth, max) ==
    CASE depth > max -> Bad
      [] depth <= max /\ PeekIs(s, p, fmt, RBRACK) -> Found("Value", Behind(s, p, fmt))
      [] depth <= max /\ PeekIs(s, p, fmt, SEMI) -> walk[CallItems(Behind(s, p, fmt), depth)]
      [] OTHER -> Then(walk[CallOne(p, depth)], LAMBDA item : walk[CallItems(item.at, depth)])

ScanPairs(walk, s, p, fmt, end, depth, max) ==
    CASE depth > max -> Bad
      [] depth <= max /\ PeekIs(s, p, fmt, end) -> Found("Value", Behind(s, p, fmt))
      [] depth <= max /\ PeekIs(s, p, fmt, SEMI) ->
            walk[CallPairs(Behind(s, p, fmt), end, depth)]
      [] OTHER ->
            Then(Expect("String", SkipToken(s, p, fmt)), LAMBDA key :
            Then(Expect("KeyValueSeparator", SkipToken(s, key.at, fmt)), LAMBDA equals :
            Then(walk[CallOne(equals.at, depth)], LAMBDA value :
                walk[CallPairs(value.at, end, depth)])))

ScanCall(walk, s, fmt, max, c) ==
    CASE c.of = "one"   -> ScanOne(walk, s, c.at, fmt, c.depth, max)
      [] c.of = "items" -> ScanItems(walk, s, c.at, fmt, c.depth, max)
      [] c.of = "pairs" -> ScanPairs(walk, s, c.at, fmt, c.end, c.depth, max)

\* The results of all calls that have less than n others inside each other.
Walks(s, fmt, max) ==
    LET walk[n \in Nat] ==
            [c \in Call |-> IF n = 0 THEN Eof ELSE ScanCall(walk[n - 1], s, fmt, max, c)]
    IN  walk

\* A call is behind a byte that the call around it has taken, but for that of
\* an item: no walk comes to more calls than these.
MaxCalls(s) == 2 * Len(s) + 2

\* Mutant: insignificant bytes behind the value are counted to it.
VerdictOfTrailing(s, r) ==
    CASE r.kind = "eof" -> [kind |-> "incomplete", len |-> 0]
      [] r.kind = "bad" -> [kind |-> "error", len |-> 0]
      [] OTHER -> [kind |-> "complete", len |-> SkipIgnored(s, r.at)]

\* Mutant: a value is believed when two bytes follow it.
VerdictOfHesitant(s, r) ==
    CASE r.kind = "bad" -> [kind |-> "error", len |-> 0]
      [] ~Failed(r) /\ r.at + 2 <= Len(s) -> [kind |-> "complete", len |-> r.at]
      [] OTHER -> [kind |-> "incomplete", len |-> 0]

\* The result of the walk as the caller sees it: both spellings of "the input
\* stopped" ask for more.
VerdictOf(s, r) ==
    CASE r.kind = "eof" -> [kind |-> "incomplete", len |-> 0]
      [] r.kind = "bad" -> [kind |-> "error", len |-> 0]
      [] OTHER -> [kind |-> "complete", len |-> r.at]

\* scan_value_with_max_depth
ScanValue(s, fmt, max) == VerdictOf(s, Walks(s, fmt, max)[MaxCalls(s)][CallOne(0, 0)])
=============================================================================
