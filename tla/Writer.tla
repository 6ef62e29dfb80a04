------------------------------- MODULE Writer -------------------------------
(***************************************************************************)
(* The writer of src/core/writer.rs: how each scalar is spelled, and the   *)
(* walk over a value tree.  What is written is the bytes that are appended *)
(* to the buffer, up to where the depth limit stops the walk.              *)
(***************************************************************************)
EXTENDS Reader
LOCAL INSTANCE SequencesExt

-----------------------------------------------------------------------------
\* The values directly below a value, and all values of its tree.
Children(v) ==
    (IF v.attributes = None THEN {} ELSE Range(The(v.attributes)))
      \cup (CASE Is("List", v.node) -> Range(v.node.List)
              [] Is("Map", v.node)  -> Range(v.node.Map)
              [] OTHER -> {})

RECURSIVE Subtrees(_)
Subtrees(v) == {v} \cup UNION {Subtrees(child) : child \in Children(v)}

-----------------------------------------------------------------------------
(* Scalars.  External: itoa, and from_utf8. *)
RECURSIVE Itoa(_)
Itoa(i) ==
    CASE i < 0       -> <<MINUS>> \o Itoa(-i)
      [] i \in 0..9  -> <<48 + i>>
      [] OTHER       -> Itoa(i \div 10) \o <<48 + (i % 10)>>

Continuation == 128..191

\* The bytes of one character.
Character(c) ==
    CASE Len(c) = 1 -> c[1] < 128
      [] Len(c) = 2 -> c[1] \in 194..223 /\ c[2] \in Continuation
      [] Len(c) = 3 -> /\ c[1] \in 224..239 /\ c[2] \in Continuation /\ c[3] \in Continuation
                       /\ c[1] = 224 => c[2] >= 160
                       /\ c[1] = 237 => c[2] < 160
      [] Len(c) = 4 -> /\ c[1] \in 240..244 /\ \A i \in 2..4 : c[i] \in Continuation
                       /\ c[1] = 240 => c[2] >= 144
                       /\ c[1] = 244 => c[2] < 144
      [] OTHER -> FALSE

RECURSIVE Utf8(_)
Utf8(b) ==
    b = <<>> \/ \E n \in 1..4 :
                   n <= Len(b) /\ Character(Slice(b, 0, n)) /\ Utf8(Slice(b, n, Len(b)))

WriteBool(v, fmt) ==
    CASE fmt = "Binary" -> <<IF v THEN 5 ELSE 4>>
      [] fmt = "Text" /\ v -> <<PERCENT, 116, 114, 117, 101>>
      [] OTHER -> <<PERCENT, 102, 97, 108, 115, 101>>

WriteI64(v, fmt) == IF fmt = "Binary" THEN <<2>> \o WriteVarint(v) ELSE Itoa(v)

WriteU64(v, fmt) ==
    IF fmt = "Binary" THEN <<6>> \o WriteUvarint(v) ELSE Itoa(v) \o <<LOWER_U>>

NotFinite == {<<110, 97, 110>>, <<105, 110, 102>>, <<45, 105, 110, 102>>}   \* nan inf -inf

WriteF64(v, fmt) ==
    IF fmt = "Binary" THEN <<3>> \o v
    ELSE IF Spelling[v] \in NotFinite THEN <<PERCENT>> \o Spelling[v]
    ELSE IF \E i \in DOMAIN Spelling[v] : Spelling[v][i] \in {DOT, LOWER_E, UPPER_E}
    THEN Spelling[v] ELSE Spelling[v] \o <<DOT, 48>>

-----------------------------------------------------------------------------
(* Strings. *)
HexDigits == <<48, 49, 50, 51, 52, 53, 54, 55, 56, 57, 97, 98, 99, 100, 101, 102>>

HexEscaped(b) == <<BACKSLASH, LOWER_X, HexDigits[1 + (b \div 16)], HexDigits[1 + (b % 16)]>>

Escaped ==
    [b \in {QUOTE, BACKSLASH, 10, 13, 9} |->
        CASE b = QUOTE -> <<BACKSLASH, QUOTE>>  [] b = BACKSLASH -> <<BACKSLASH, BACKSLASH>>
          [] b = 10 -> <<BACKSLASH, 110>>       [] b = 13 -> <<BACKSLASH, 114>>
          [] b = 9  -> <<BACKSLASH, 116>>]

\* Mutant: bytes above ASCII pass through.
QuotedByteRaw(b, ascii_only) ==
    CASE b \in DOMAIN Escaped -> Escaped[b]
      [] b \in (32..126) \ DOMAIN Escaped -> <<b>>
      [] OTHER -> IF b < 32 THEN HexEscaped(b) ELSE <<b>>

QuotedByte(b, ascii_only) ==
    CASE b \in DOMAIN Escaped -> Escaped[b]
      [] b \in (32..126) \ DOMAIN Escaped -> <<b>>
      [] OTHER -> IF ascii_only \/ b < 32 THEN HexEscaped(b) ELSE <<b>>

WriteQuoted(v, ascii_only) ==
    <<QUOTE>> \o FlattenSeq([i \in DOMAIN v |-> QuotedByte(v[i], ascii_only)]) \o <<QUOTE>>

WriteBinaryString(v) == <<1>> \o WriteVarint(Len(v)) \o v

\* Mutant: an unquoted string may begin with any of its characters.
IsSafeUnquotedAnywhere(b) ==
    /\ b # <<>>
    /\ \A i \in DOMAIN b : b[i] \in Alphabetic \cup Digit \cup {UNDERSCORE, MINUS, DOT}

IsSafeUnquoted(b) ==
    /\ b # <<>> /\ b[1] \in Alphabetic \cup {UNDERSCORE}
    /\ \A i \in DOMAIN b : b[i] \in Alphabetic \cup Digit \cup {UNDERSCORE, MINUS, DOT}

\* write_string and write_bytes
WriteString(v, fmt) ==
    CASE fmt = "Binary" -> WriteBinaryString(v)
      [] fmt = "Text" /\ IsSafeUnquoted(v) -> v
      [] OTHER -> WriteQuoted(v, ~Utf8(v))

WriteBytes(v, fmt) == IF fmt = "Binary" THEN WriteBinaryString(v) ELSE WriteQuoted(v, TRUE)

\* The scalars of a tree, strings aside.
WriteScalar(node, fmt) ==
    CASE Is("Entity", node)  -> <<ENTITY>>
      [] Is("Boolean", node) -> WriteBool(node.Boolean, fmt)
      [] Is("Int64", node)   -> WriteI64(node.Int64, fmt)
      [] Is("Uint64", node)  -> WriteU64(node.Uint64, fmt)
      [] Is("Double", node)  -> WriteF64(node.Double, fmt)

-----------------------------------------------------------------------------
(* Trees. *)

\* What has been written, and whether the walk went to its end.
Wrote(out) == [ok |-> TRUE, out |-> out]
LimitExceeded == [ok |-> FALSE, out |-> <<>>]

Following(out, w) == [w EXCEPT !.out = out \o @]

\* Mutant: the closing bracket is written whatever came of the parts.
ClosingAnyhow(refused, close) == <<close>>

Closing(refused, close) == IF refused = {} THEN <<close>> ELSE <<>>

\* The parts between two brackets, up to the first that is refused.
Enclosed(open, parts, close) ==
    LET refused == {i \in DOMAIN parts : ~parts[i].ok}
        last == IF refused = {} THEN Len(parts)
                ELSE CHOOSE i \in refused : \A j \in refused : i <= j
        separated(i) == IF i = 1 THEN parts[i].out ELSE <<SEMI>> \o parts[i].out
    IN  [ok |-> refused = {},
         out |-> <<open>> \o FlattenSeq([i \in 1..last |-> separated(i)])
                   \o Closing(refused, close)]

RECURSIVE WriteValueAt(_, _, _, _)

\* The entries of a map or of attributes, in the order of a BTreeMap.
WriteEntries(entries, fmt, depth, max) ==
    LET keys == SetToSortSeq(DOMAIN entries, Precedes)
    IN  [i \in DOMAIN keys |->
            Following(WriteString(keys[i], fmt) \o <<EQ>>,
                   WriteValueAt(entries[keys[i]], fmt, depth, max))]

\* Mutant: the items of a list are not a level further down.
WriteItemsLevel(items, fmt, depth, max) ==
    [i \in DOMAIN items |-> WriteValueAt(items[i], fmt, depth - 1, max)]

WriteItems(items, fmt, depth, max) ==
    [i \in DOMAIN items |-> WriteValueAt(items[i], fmt, depth, max)]

WriteNodeAt(node, fmt, depth, max) ==
    CASE depth > max -> LimitExceeded
      [] depth <= max /\ Is("String", node) -> Wrote(WriteString(node.String, fmt))
      [] depth <= max /\ Is("List", node) ->
            Enclosed(LBRACK, WriteItems(node.List, fmt, depth + 1, max), RBRACK)
      [] depth <= max /\ Is("Map", node) ->
            Enclosed(LBRACE, WriteEntries(node.Map, fmt, depth + 1, max), RBRACE)
      [] OTHER -> Wrote(WriteScalar(node, fmt))

WriteAttributes(attributes, fmt, depth, max) ==
    IF attributes = None THEN Wrote(<<>>)
    ELSE Enclosed(LT, WriteEntries(The(attributes), fmt, depth + 1, max), GT)

WriteValueAt(value, fmt, depth, max) ==
    IF depth > max THEN LimitExceeded
    ELSE LET attributes == WriteAttributes(value.attributes, fmt, depth, max)
         IN  IF attributes.ok
             THEN Following(attributes.out, WriteNodeAt(value.node, fmt, depth, max))
             ELSE attributes

\* write_value_with_max_depth
WriteValue(value, fmt, max) == WriteValueAt(value, fmt, 0, max)
=============================================================================
