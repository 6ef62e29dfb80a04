------------------------------- MODULE Reader -------------------------------
(***************************************************************************)
(* The value reader of src/core/reader.rs: the tokens with what they hold, *)
(* and the walk that builds a tree of them.                                *)
(***************************************************************************)
EXTENDS Scanner, YsonValue

CONSTANT
    Spelling     \* the doubles, by their bytes, and the name of each: its
                 \* shortest decimal form, or nan, inf, -inf

ASSUME SpellingAssumption ==
    /\ \A d \in DOMAIN Spelling : Len(d) = DoubleBytes
    /\ \A d, e \in DOMAIN Spelling : Spelling[d] = Spelling[e] => d = e

-----------------------------------------------------------------------------
(* decode_escapes *)
\* Mutant: an escape that is a letter decodes to the letter.
NoLetters == <<>>

Letters ==
    [b \in {97, 98, 102, 110, 114, 116, 118} |->
        CASE b = 97  -> 7    [] b = 98  -> 8    [] b = 102 -> 12
          [] b = 110 -> 10   [] b = 114 -> 13   [] b = 116 -> 9   [] b = 118 -> 11]

Octal == 48..55

\* u8::from_str_radix takes a sign in front of a digit.
IsHexPair(h) == h[1] \in HexDigit \cup {PLUS} /\ h[2] \in HexDigit

HexPair(h) ==
    LET digit(d) == CASE d \in Digit -> d - 48 [] d \in 65..70 -> d - 55
                      [] d \in 97..102 -> d - 87 [] d = PLUS -> 0
    IN  16 * digit(h[1]) + digit(h[2])

\* Up to three octal digits, the third one if the number still fits a byte.
OctalEnd(b, p) ==
    CHOOSE q \in (p + 1)..(p + 3) :
        LET takes(r) == /\ r <= Len(b) /\ \A i \in p..(r - 1) : At(b, i) \in Octal
                        /\ Numeral(8, Slice(b, p, r)) <= 255
        IN  takes(q) /\ \A r \in (q + 1)..(p + 3) : ~takes(r)

HexEscape(b, p) ==
    IF ~Inside(b, p + 2) THEN Eof
    ELSE LET h == Slice(b, p + 1, p + 3)
         IN  IF IsHexPair(h) THEN Got("String", p + 3, HexPair(h)) ELSE Bad

OctalEscape(b, p) ==
    LET q == OctalEnd(b, p) IN Got("String", q, Numeral(8, Slice(b, p, q)))

\* The byte an escape stands for, p being behind the backslash.
Escape(b, p) ==
    CASE ~Inside(b, p) -> Eof
      [] Inside(b, p) /\ At(b, p) = LOWER_X -> HexEscape(b, p)
      [] Inside(b, p) /\ At(b, p) \in Octal -> OctalEscape(b, p)
      [] Inside(b, p) /\ At(b, p) \in DOMAIN Letters ->
            Got("String", p + 1, Letters[At(b, p)])
      [] OTHER -> Got("String", p + 1, At(b, p))

\* What the bytes behind an escape or a byte decode to, with that in front.
DecodeEscapes(b) ==
    LET decode[p \in Nat] ==
            LET Before(r, byte) == Then(r, LAMBDA rest :
                    Got("String", rest.at, <<byte>> \o rest.value))
            IN  IF ~Inside(b, p) THEN Got("String", p, <<>>)
                ELSE IF At(b, p) # BACKSLASH THEN Before(decode[p + 1], At(b, p))
                ELSE Then(Escape(b, p + 1), LAMBDA byte : Before(decode[byte.at], byte.value))
    IN  decode[0]

-----------------------------------------------------------------------------
(* What a token holds. *)

\* The double of that name; one that has none in this instance is left open.
NamedDouble(name) ==
    IF \E d \in DOMAIN Spelling : Spelling[d] = name
    THEN CHOOSE d \in DOMAIN Spelling : Spelling[d] = name ELSE <<>>

Integer(b) ==
    LET value == Numeral(10, WithoutSign(b, {PLUS, MINUS}))
    IN  IF Signed(b, {MINUS}) THEN -value ELSE value

\* The value of a text token spelled b that is no quoted string.
TextNode(kind, b) ==
    LET unmarked == IF b[1] = PERCENT THEN Tail(b) ELSE b
        unsuffixed == IF b[Len(b)] = LOWER_U THEN Slice(b, 0, Len(b) - 1) ELSE b
    IN  CASE kind = "Entity"  -> Entity
          [] kind = "Boolean" -> Boolean(b[2] = 116)          \* %true
          [] kind = "Int64"   -> Int64(Integer(b))
          [] kind = "Uint64"  -> Uint64(Integer(unsuffixed))
          [] kind = "Double"  -> Double(NamedDouble(unmarked))
          [] kind = "String"  -> String(b)

\* The value of the binary token whose tag is at p and that ends at q.
BinaryNode(kind, s, p, q) ==
    LET number == Uvarint(s, p + 1)
    IN  CASE kind = "Entity"  -> Entity
          [] kind = "Boolean" -> Boolean(At(s, p) = 5)
          [] kind = "Int64"   -> Int64(Unzigzag(number.value))
          [] kind = "Uint64"  -> Uint64(number.value)
          [] kind = "Double"  -> Double(Slice(s, p + 1, q))
          [] kind = "String"  -> String(Slice(s, number.at, q))

Token(kind, p, node) == [kind |-> kind, at |-> p, node |-> node]

\* next_token: skip_token, and a scalar with its value.
NextToken(s, p, fmt) ==
    LET q == Meaningful(s, p, fmt) IN
    Then(SkipToken(s, p, fmt), LAMBDA token :
        CASE token.kind \notin Scalars -> token
          [] token.kind \in Scalars /\ fmt = "Binary" ->
                Token(token.kind, token.at, BinaryNode(token.kind, s, q, token.at))
          [] token.kind \in Scalars /\ fmt = "Text" /\ At(s, q) = QUOTE ->
                Then(DecodeEscapes(Slice(s, q + 1, token.at - 1)), LAMBDA body :
                    Token("String", token.at, String(body.value)))
          [] OTHER -> Token(token.kind, token.at,
                            TextNode(token.kind, Slice(s, q, token.at))))

-----------------------------------------------------------------------------
(***************************************************************************)
(* read_value_at, read_node and read_pairs: the calls are those of the     *)
(* scanner.  A turn of a loop has the items or entries of the turns behind *)
(* it, where a later entry replaces an earlier one with its key, and the   *)
(* limit that the code checks in front of a loop is checked in each turn.  *)
(***************************************************************************)
ReadNode(walk, s, p, fmt, depth) ==
    Then(NextToken(s, p, fmt), LAMBDA token :
        CASE token.kind \in Scalars -> token
          [] token.kind = "BeginList" ->
                Then(walk[CallItems(token.at, depth + 1)],
                     LAMBDA items : Token("List", items.at, List(items.value)))
          [] token.kind = "BeginMap" ->
                Then(walk[CallPairs(token.at, RBRACE, depth + 1)],
                     LAMBDA entries : Token("Map", entries.at, Map(entries.value)))
          [] OTHER -> Bad)

WithItem(item, rest) == Got("Items", rest.at, <<item.value>> \o rest.value)

ReadItems(walk, s, p, fmt, depth, max) ==
    CASE depth > max -> Bad
      [] depth <= max /\ PeekIs(s, p, fmt, RBRACK) -> Got("Items", Behind(s, p, fmt), <<>>)
      [] depth <= max /\ PeekIs(s, p, fmt, SEMI) -> walk[CallItems(Behind(s, p, fmt), depth)]
      [] OTHER ->
            Then(walk[CallOne(p, depth)], LAMBDA item :
            Then(walk[CallItems(item.at, depth)], LAMBDA rest :
                WithItem(item, rest)))

WithEntry(key, value, rest) ==
    Got("Pairs", rest.at, Extend(Insert(Empty, key.node.String, value.value), rest.value))

ReadPairs(walk, s, p, fmt, end, depth, max) ==
    CASE depth > max -> Bad
      [] depth <= max /\ PeekIs(s, p, fmt, end) -> Got("Pairs", Behind(s, p, fmt), Empty)
      [] depth <= max /\ PeekIs(s, p, fmt, SEMI) ->
            walk[CallPairs(Behind(s, p, fmt), end, depth)]
      [] OTHER ->
            Then(Expect("String", NextToken(s, p, fmt)), LAMBDA key :
            Then(Expect("KeyValueSeparator", NextToken(s, key.at, fmt)), LAMBDA equals :
            Then(walk[CallOne(equals.at, depth)], LAMBDA value :
            Then(walk[CallPairs(value.at, end, depth)], LAMBDA rest :
                WithEntry(key, value, rest)))))

ReadValueAt(walk, s, p, fmt, depth, max) ==
    IF depth > max THEN Bad
    ELSE IF ~PeekIs(s, p, fmt, LT)
    THEN Then(ReadNode(walk, s, p, fmt, depth), LAMBDA body :
             Got("Value", body.at, Plain(body.node)))
    ELSE Then(walk[CallPairs(Behind(s, p, fmt), GT, depth + 1)], LAMBDA attributes :
         Then(ReadNode(walk, s, attributes.at, fmt, depth), LAMBDA body :
             Got("Value", body.at, Attributed(Some(attributes.value), body.node))))

ReadCall(walk, s, fmt, max, c) ==
    CASE c.of = "one"   -> ReadValueAt(walk, s, c.at, fmt, c.depth, max)
      [] c.of = "items" -> ReadItems(walk, s, c.at, fmt, c.depth, max)
      [] c.of = "pairs" -> ReadPairs(walk, s, c.at, fmt, c.end, c.depth, max)

\* As for the scanner.
Reads(s, fmt, max) ==
    LET walk[n \in Nat] ==
            [c \in Call |-> IF n = 0 THEN Eof ELSE ReadCall(walk[n - 1], s, fmt, max, c)]
    IN  walk

\* read_value_with_max_depth
ReadValue(s, fmt, max) == Reads(s, fmt, max)[MaxCalls(s)][CallOne(0, 0)]

\* Whether a value was read, where it ends, and how reading failed.
Extent(r) == [kind |-> r.kind, at |-> r.at]
=============================================================================
