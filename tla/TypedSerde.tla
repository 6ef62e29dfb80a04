----------------------------- MODULE TypedSerde -----------------------------
(***************************************************************************)
(* Values of Rust types through serde: the calls that derived Serialize    *)
(* and Deserialize impls make, with what Serializer and Deserializer do at *)
(* each.  A document is a sequence of tokens, and scalars stand for        *)
(* themselves.  Not to be seen here are depth limits, errors of syntax,    *)
(* and documents other than those that were written.                       *)
(***************************************************************************)
EXTENDS Integers, SequencesExt, TLC

(* A type is of a kind, has the types it is made of, and for structs and      *)
(* enums the names of those.  A variant of an enum is a type: "empty" if it   *)
(* holds nothing, "record" if it has named fields, and else what it holds.    *)
Type(kind, of, names) == [kind |-> kind, of |-> of, names |-> names]

\* A value: what it is, and its parts; an entry of a map is named for its key.
Value(atom, of) == [atom |-> atom, of |-> of]

Number == {"1"}
Punctuation == {"<", ">", "[", "]", "{", "}", "=", ";", "#", "eof"}
IsText(t) == t \notin Number \cup Punctuation

Absent == Value("None", <<>>)
Held(v) == Value("Some", <<v>>)

\* strip_prefix('@'), and the `@` put back.
AttributeName == ("@a" :> "a") @@ ("@b" :> "b")
AttributeField(name) == "@" \o name

IsAttribute(name) == name \in DOMAIN AttributeName
Attributes(T) == {i \in DOMAIN T.names : IsAttribute(T.names[i])}
Body(T) == {i \in DOMAIN T.names : T.names[i] = "$value"}

\* A struct whose fields are not the entries of a map.
IsFlat(T) == T.kind = "struct" /\ Attributes(T) \cup Body(T) # {}

-----------------------------------------------------------------------------
(* Encoding: what is written, and the flag is_writing_attributes. *)
Put(e, tokens) == [e EXCEPT !.out = @ \o tokens]
Cleared(e) == [e EXCEPT !.flag = FALSE]

Part(key, type, value) == [key |-> key, type |-> type, value |-> value]

RECURSIVE Ser(_, _, _)

\* Between two brackets: items, or the values of keys.
SerParts(open, parts, close, e) ==
    LET one(i, so_far) ==
            Ser(parts[i].type, parts[i].value,
                Put(so_far, (IF i = 1 THEN <<>> ELSE <<";">>) \o parts[i].key))
        all == FoldLeft(LAMBDA so_far, i : one(i, so_far), Put(e, <<open>>),
                        [i \in DOMAIN parts |-> i])
    IN  Put(all, <<close>>)

\* The fields of a struct that have a name here, in the order of declaration.
Fields(T, v, names) ==
    LET field(i) == Part(<<names[i], "=">>, T.of[i], v.of[i])
        order == SetToSortSeq(DOMAIN names, <)
    IN  [k \in DOMAIN order |-> field(order[k])]

\* A struct with attribute fields or a $value, in an order that is allowed.
SerFlat(T, v, e) ==
    LET plain == DOMAIN T.names \ (Attributes(T) \cup Body(T))
        stripped == [i \in Attributes(T) |-> AttributeName[T.names[i]]]
        attributed == IF Attributes(T) = {} THEN e
                      ELSE SerParts("<", Fields(T, v, stripped), ">", e)
    IN  CASE Body(T) # {} ->
                LET b == CHOOSE i \in Body(T) : TRUE IN Ser(T.of[b], v.of[b], attributed)
          [] Body(T) = {} /\ plain # {} ->
                SerParts("{", Fields(T, v, Restrict(T.names, plain)), "}", attributed)
          [] OTHER -> Put(attributed, <<"#">>)

\* Mutant: the flag stays set.
SerMapFlagged(parts, e) ==
    IF e.flag THEN SerParts("<", parts, ">", e) ELSE SerParts("{", parts, "}", e)

\* A map, or a struct that is one, where attributes are written.
SerMap(parts, e) ==
    IF e.flag THEN SerParts("<", parts, ">", Cleared(e)) ELSE SerParts("{", parts, "}", e)

SerVariant(T, v, e) ==
    LET i == CHOOSE n \in DOMAIN T.names : T.names[n] = v.atom
    IN  IF T.of[i].kind = "empty" THEN Put(e, <<v.atom>>)
        ELSE Put(Ser(T.of[i], v.of[1], Put(e, <<"{", v.atom, "=">>)), <<"}">>)

Ser(T, v, e) ==
    LET items == [i \in DOMAIN v.of |->
                     Part(<<>>, IF T.kind = "tuple" THEN T.of[i] ELSE T.of[1], v.of[i])]
        entries == [i \in DOMAIN v.of |-> Part(<<v.of[i].atom, "=">>, T.of[1], v.of[i].of[1])]
        fields == Fields(T, v, T.names)
    IN  CASE T.kind \in {"number", "text"} -> Put(e, <<v.atom>>)
          [] T.kind = "unit"    -> Put(e, <<"#">>)
          [] T.kind = "option"  -> IF v = Absent THEN Put(e, <<"#">>) ELSE Ser(T.of[1], v.of[1], e)
          [] T.kind = "newtype" -> Ser(T.of[1], v.of[1], e)
          [] T.kind \in {"list", "tuple"} -> SerParts("[", items, "]", e)
          [] T.kind = "map"     -> SerMap(entries, e)
          [] T.kind = "record"  -> SerParts("{", fields, "}", e)
          [] T.kind = "struct"  -> IF IsFlat(T) /\ ~e.flag THEN SerFlat(T, v, e) ELSE SerMap(fields, e)
          [] T.kind = "enum"    -> SerVariant(T, v, e)
          [] T.kind = "wrapper" ->
                Ser(T.of[2], v.of[2], Ser(T.of[1], v.of[1], [e EXCEPT !.flag = TRUE]))

\* to_vec
Written(T, v) == Ser(T, v, [out |-> <<>>, flag |-> FALSE]).out

-----------------------------------------------------------------------------
(* Decoding: the tokens ahead, the flag is_reading_attributes, what was read. *)
Error == Value("Err", <<>>)
Failed(d) == d.got = Error
Refused(d) == [d EXCEPT !.got = Error]
Got(d, value) == [d EXCEPT !.got = value]
Flagged(d, flag) == [d EXCEPT !.flag = flag]

Ahead(d) == Head(d.ahead)
Consumed(d) == IF Ahead(d) = "eof" THEN d ELSE [d EXCEPT !.ahead = Tail(@)]

\* `?`, and going on
Then(d, next(_)) == IF Failed(d) THEN d ELSE next(d)
Expecting(t, d) == IF Ahead(d) = t THEN Consumed(d) ELSE Refused(d)

\* Past one token, and if it is a bracket, past its pair: the brackets of what
\* was written always match.
Past(d) ==
    LET number(of, n) == Len(SelectSeq(SubSeq(d.ahead, 1, n), LAMBDA t : t \in of))
        ends == {n \in DOMAIN d.ahead :
                    number({"<", "[", "{"}, n) = number({">", "]", "}"}, n)}
        end == CHOOSE n \in ends : \A m \in ends : n <= m
    IN  IF Ahead(d) = "eof" \/ ends = {} THEN Refused(d)
        ELSE [d EXCEPT !.ahead = SubSeq(@, end + 1, Len(@))]

SkipAttributes(d) == IF Ahead(d) = "<" THEN Past(d) ELSE d

\* How every typed method begins but those of options and flat structs.
Ordinary(d) == IF d.flag THEN d ELSE SkipAttributes(d)

RECURSIVE Separators(_)
Separators(d) == IF Ahead(d) = ";" THEN Separators(Consumed(d)) ELSE d

CloseContainer(end, d) == Expecting(end, Separators(d))

Ignored == Type("ignored", <<>>, <<>>)

\* The type of the value of a key.
Under(T, key) ==
    IF T.kind = "map" THEN T.of[1]
    ELSE IF key \notin ToSet(T.names) THEN Ignored
    ELSE T.of[CHOOSE i \in DOMAIN T.names : T.names[i] = key]

Empty(T) == Value(T.kind, <<>>)

\* What a visitor makes of the entries that were read: all of them, or the fields.
Collected(T, d) ==
    LET given(i) == {k \in DOMAIN d.got.of : d.got.of[k].atom = T.names[i]}
        missing(i) == IF T.of[i].kind = "option" THEN Absent ELSE Error
        field(i) == IF given(i) = {} THEN missing(i)
                    ELSE d.got.of[CHOOSE k \in given(i) : TRUE].of[1]
        fields == [i \in DOMAIN T.names |-> field(i)]
    IN  CASE T.kind = "map" -> d
          [] \E i \in DOMAIN fields : fields[i] = Error \/ Cardinality(given(i)) > 1 -> Refused(d)
          [] OTHER -> Got(d, Value(T.kind, fields))

RECURSIVE De(_, _), DeItems(_, _, _), DeEntries(_, _, _, _, _)

\* Elements, as many as are asked for: a Vec takes all, a tuple so many.
DeItems(T, items, d) ==
    LET here == Separators(d)
        enough == Ahead(here) = "]" \/ (T.kind = "tuple" /\ Len(items) = Len(T.of))
        item == De(IF T.kind = "tuple" THEN T.of[Len(items) + 1] ELSE T.of[1], here)
    IN  IF enough THEN Got(here, Value(T.kind, items))
        ELSE Then(item, LAMBDA r : DeItems(T, Append(items, r.got), r))

\* Keys and values up to the end byte; `sigil` is put in front of a name before
\* the visitor sees it, and a name that has one is no call to the deserializer.
DeEntries(T, sigil, end, entries, d) ==
    LET here == Separators(d)
        name == sigil \o Ahead(here)
        value == Then(Expecting("=", Consumed(here)), LAMBDA r : De(Under(T, name), r))
    IN  CASE Ahead(here) = end -> Got(Consumed(here), Value(T.kind, entries))
          [] ~IsText(Ahead(here)) \/ (d.flag /\ sigil = "") -> Refused(here)
          [] OTHER -> Then(value, LAMBDA r :
                          DeEntries(T, sigil, end, Append(entries, Value(name, <<r.got>>)), r))

\* FlatStructAccess: attributes, and then a map, `#`, or a body of its own.
DeFlat(T, d) ==
    LET attributes == IF Ahead(d) = "<" THEN DeEntries(T, "@", ">", <<>>, Consumed(d))
                      ELSE Got(d, Empty(T))
        body(r) == CASE Ahead(r) = "{" -> DeEntries(T, "", "}", r.got.of, Consumed(r))
                     [] Ahead(r) = "#" -> Consumed(r)
                     [] OTHER -> Then(De(Under(T, "$value"), r), LAMBDA b :
                            Got(b, Value(T.kind, Append(r.got.of, Value("$value", <<b.got>>)))))
    IN  Then(Then(attributes, body), LAMBDA r : Collected(T, r))

\* A list; the visitor of a newtype struct takes one of one element.
DeList(T, d) ==
    LET asked == IF T.kind = "newtype" THEN Type("tuple", T.of, <<>>) ELSE T
        short(r) == asked.kind = "tuple" /\ Len(r.got.of) < Len(asked.of)
    IN  IF T.kind \notin {"list", "tuple", "newtype"} THEN Refused(d)
        ELSE Then(DeItems(asked, <<>>, Consumed(d)), LAMBDA r :
                 IF short(r) THEN Refused(r)
                 ELSE CloseContainer("]", Got(r, Value(T.kind, r.got.of))))

\* deserialize_any, in place of every typed method.  Attributes it meets are
\* behind others, which were skipped, and are handed out as those of a flat
\* struct are: to what takes a map.
DeAny(T, d) ==
    LET clear == Flagged(d, FALSE)
        mapped == T.kind \in {"map", "record", "struct"}
        end == IF d.flag THEN ">" ELSE "}"
        keyed == IF d.flag /\ Ahead(d) # "<" THEN Got(clear, Empty(T))
                 ELSE DeEntries(T, "", end, <<>>, Consumed(clear))
        scalar == CASE T.kind = "number" -> Ahead(d) \in Number
                    [] T.kind = "text"   -> IsText(Ahead(d))
                    [] T.kind = "unit"   -> Ahead(d) = "#"
                    [] OTHER -> FALSE
    IN  CASE ~d.flag /\ Ahead(d) = "<" ->
                IF mapped \/ T.kind = "ignored" THEN DeFlat(T, d) ELSE Refused(d)
          [] mapped /\ (d.flag \/ Ahead(d) = "{") -> Then(keyed, LAMBDA r : Collected(T, r))
          [] T.kind = "ignored" -> IF d.flag /\ Ahead(d) # "<" THEN clear ELSE Past(clear)
          [] ~d.flag /\ scalar -> Got(Consumed(d), Value(Ahead(d), <<>>))
          [] ~d.flag /\ Ahead(d) = "[" -> DeList(T, d)
          [] OTHER -> Refused(d)

\* Mutant: `#` is left to the value.
DeOptionSome(T, d) ==
    LET held(r) == Then(De(T.of[1], r), LAMBDA s : Got(s, Held(s.got)))
    IN  CASE d.flag /\ Ahead(d) = "<" -> Flagged(held(d), FALSE)
          [] d.flag -> Got(Flagged(d, FALSE), Absent)
          [] OTHER -> held(SkipAttributes(d))

DeOption(T, d) ==
    LET held(r) == Then(De(T.of[1], r), LAMBDA s : Got(s, Held(s.got)))
        r == SkipAttributes(d)
    IN  CASE d.flag /\ Ahead(d) = "<" -> Flagged(held(d), FALSE)
          [] d.flag -> Got(Flagged(d, FALSE), Absent)
          [] ~d.flag /\ Ahead(r) = "#" -> Got(Consumed(r), Absent)
          [] OTHER -> held(r)

RECURSIVE Dropped(_)
Dropped(d) == IF Ahead(d) \in {";", "}", "eof"} THEN d ELSE Dropped(Consumed(d))

\* A variant that holds something is a map of one entry; what is left of that
\* entry is dropped.  Its name is read by a typed method, too.
DeEnum(T, d) ==
    LET r == Ordinary(d)
        wrapped == Ahead(r) = "{"
        name == Ordinary(IF wrapped THEN Consumed(r) ELSE r)
        held(i, q) ==
            CASE T.of[i].kind # "empty" -> De(T.of[i], q)
              [] OTHER -> Expecting("#", q)
        found == {i \in DOMAIN T.names : T.names[i] = Ahead(name)}
        variant(i) ==
            IF T.of[i].kind = "empty" /\ ~wrapped THEN Got(Consumed(name), Value(T.names[i], <<>>))
            ELSE Then(Then(Expecting("=", Consumed(name)), LAMBDA q : held(i, q)), LAMBDA q :
                 Got(q, Value(T.names[i], IF T.of[i].kind = "empty" THEN <<>> ELSE <<q.got>>)))
        closed(q) == LET rest == Dropped(q) IN
            Expecting("}", IF Ahead(rest) = ";" THEN Consumed(rest) ELSE rest)
    IN  CASE found = {} \/ r.flag -> Refused(r)
          [] OTHER -> Then(variant(CHOOSE i \in found : TRUE), LAMBDA q :
                          IF wrapped THEN closed(q) ELSE q)

\* AttributesWrapperAccess: the attributes, and then the value.
DeWrapper(T, d) ==
    Then(De(T.of[1], Flagged(d, TRUE)), LAMBDA a :
    Then(De(T.of[2], Flagged(a, FALSE)), LAMBDA v :
         Got(v, Value("wrapper", <<a.got, v.got>>))))

\* Mutant: a newtype struct is read as what it holds.
DeTransparent(T, d) ==
    CASE T.kind = "newtype" -> Then(De(T.of[1], d), LAMBDA r : Got(r, Value("newtype", <<r.got>>)))
      [] T.kind = "option"  -> DeOption(T, d)
      [] T.kind = "wrapper" -> DeWrapper(T, d)
      [] T.kind = "enum"    -> DeEnum(T, d)
      [] IsFlat(T)          -> DeFlat(T, d)
      [] OTHER              -> DeAny(T, Ordinary(d))

De(T, d) == CASE T.kind = "option"  -> DeOption(T, d)
              [] T.kind = "wrapper" -> DeWrapper(T, d)
              [] T.kind = "enum"    -> DeEnum(T, d)
              [] IsFlat(T)          -> DeFlat(T, d)
              [] OTHER              -> DeAny(T, Ordinary(d))

\* from_slice: a value, or an error.
Read(T, tokens) ==
    LET d == De(T, [ahead |-> Append(tokens, "eof"), flag |-> FALSE, got |-> Absent])
    IN  IF Ahead(d) = "eof" THEN d.got ELSE Error
=============================================================================
