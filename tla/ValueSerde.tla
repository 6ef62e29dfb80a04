----------------------------- MODULE ValueSerde -----------------------------
(***************************************************************************)
(* YsonValue through serde: the calls its Serialize and Deserialize impls  *)
(* (src/surface/value.rs) make, with what Serializer and Deserializer do   *)
(* at each, and the functions of src/lib.rs around them.                   *)
(***************************************************************************)
EXTENDS Writer
LOCAL INSTANCE SequencesExt

-----------------------------------------------------------------------------
(* Encoding. *)

\* Mutant: every byte string goes through serialize_bytes.
SerializeBytesQuoted(v, fmt) == WriteBytes(v, fmt)

\* YsonBytes, through serialize_str or serialize_bytes.
SerializeBytes(v, fmt) == IF Utf8(v) THEN WriteString(v, fmt) ELSE WriteBytes(v, fmt)

\* Compound: the elements or entries between their brackets.
Compound(open, parts, close) ==
    <<open>> \o FlattenSeq([i \in DOMAIN parts |->
                   IF i = 1 THEN parts[i] ELSE <<SEMI>> \o parts[i]]) \o <<close>>

RECURSIVE SerializeValue(_, _)

\* YsonEntries
SerializeEntries(open, entries, close, fmt) ==
    LET keys == SetToSortSeq(DOMAIN entries, Precedes)
    IN  Compound(open,
            [i \in DOMAIN keys |-> SerializeBytes(keys[i], fmt) \o <<EQ>>
                                     \o SerializeValue(entries[keys[i]], fmt)], close)

SerializeNode(node, fmt) ==
    CASE Is("String", node) -> SerializeBytes(node.String, fmt)
      [] Is("List", node) ->
            Compound(LBRACK, [i \in DOMAIN node.List |-> SerializeValue(node.List[i], fmt)],
                     RBRACK)
      [] Is("Map", node) -> SerializeEntries(LBRACE, node.Map, RBRACE, fmt)
      [] OTHER -> WriteScalar(node, fmt)

\* The wrapper turns the map of attributes into the brackets of attributes.
SerializeValue(value, fmt) ==
    (IF value.attributes = None THEN <<>>
     ELSE SerializeEntries(LT, The(value.attributes), GT, fmt)) \o SerializeNode(value.node, fmt)

-----------------------------------------------------------------------------
(***************************************************************************)
(* Decoding.  visit_map is given the entries one at a time, with the       *)
(* attributes' names behind an @ and a body that is no map named $value;   *)
(* what it has made of them so far is its state.                           *)
(***************************************************************************)
AT_SIGN == 64
DollarValue == <<36, 118, 97, 108, 117, 101>>

IsAttributeKey(key) == key # <<>> /\ key[1] = AT_SIGN

Fresh == [attributes |-> Empty, plain_map |-> Empty, body_node |-> None]

\* A second body is refused before its value is read.
Takes(visited, key) == key = DollarValue => visited.body_node = None

Visit(visited, key, value) ==
    CASE IsAttributeKey(key) ->
            [visited EXCEPT !.attributes = Insert(@, Tail(key), value)]
      [] key = DollarValue ->
            [visited EXCEPT !.body_node = Some(value.node),
                            !.attributes = IF value.attributes = None THEN @
                                           ELSE Extend(@, The(value.attributes))]
      [] OTHER -> [visited EXCEPT !.plain_map = Insert(@, key, value)]

TwoBodies(visited) == visited.body_node # None /\ visited.plain_map # Empty

Present(attributes) == IF attributes = Empty THEN None ELSE Some(attributes)

\* The tree that visit_map returns.
Rebuilt(visited) ==
    Attributed(Present(visited.attributes),
        CASE visited.body_node # None -> The(visited.body_node)
          [] visited.body_node = None
               /\ (visited.plain_map # Empty \/ visited.attributes = Empty) ->
                Map(visited.plain_map)
          [] OTHER -> Entity)

VisitEnd(p, visited) == IF TwoBodies(visited) THEN Bad ELSE Got("Value", p, Rebuilt(visited))

RECURSIVE DeserializeAny(_, _, _, _, _), DeserializeItems(_, _, _, _, _, _),
          FlatAttributes(_, _, _, _, _, _), MapBody(_, _, _, _, _, _)

\* The value of an entry of the map, `=` in front of it.
EntryValue(s, p, fmt, open, max) ==
    Then(Expect("KeyValueSeparator", NextToken(s, p, fmt)), LAMBDA equals :
        DeserializeAny(s, equals.at, fmt, open, max))

\* deserialize_any of YsonValue's visitor; `open` counts the accesses in use.
DeserializeAny(s, p, fmt, open, max) ==
    IF PeekIs(s, p, fmt, LT)
    THEN IF open + 1 > max THEN Bad
         ELSE FlatAttributes(s, Behind(s, p, fmt), fmt, open + 1, max, Fresh)
    ELSE Then(NextToken(s, p, fmt), LAMBDA token :
            CASE token.kind \in Scalars -> Got("Value", token.at, Plain(token.node))
              [] token.kind = "BeginList" ->
                    IF open + 1 > max THEN Bad
                    ELSE DeserializeItems(s, token.at, fmt, open + 1, max, <<>>)
              [] token.kind = "BeginMap" ->
                    IF open + 1 > max THEN Bad
                    ELSE MapBody(s, token.at, fmt, open + 1, max, Fresh)
              [] OTHER -> Bad)

\* visit_seq over a CommaSeparated, and close_container.
DeserializeItems(s, p, fmt, open, max, items) ==
    CASE PeekIs(s, p, fmt, RBRACK) ->
            Got("Value", Behind(s, p, fmt), Plain(List(items)))
      [] PeekIs(s, p, fmt, SEMI) ->
            DeserializeItems(s, Behind(s, p, fmt), fmt, open, max, items)
      [] OTHER -> Then(DeserializeAny(s, p, fmt, open, max), LAMBDA item :
            DeserializeItems(s, item.at, fmt, open, max, Append(items, item.value)))

\* visit_map over a CommaSeparated and close_container, or over the body of a
\* FlatStructAccess, which takes the brace itself.
MapBody(s, p, fmt, open, max, visited) ==
    CASE PeekIs(s, p, fmt, RBRACE) -> VisitEnd(Behind(s, p, fmt), visited)
      [] PeekIs(s, p, fmt, SEMI) -> MapBody(s, Behind(s, p, fmt), fmt, open, max, visited)
      [] OTHER ->
            Then(Expect("String", NextToken(s, p, fmt)), LAMBDA key :
                IF ~Takes(visited, key.node.String) THEN Bad
                ELSE Then(EntryValue(s, key.at, fmt, open, max), LAMBDA value :
                    MapBody(s, value.at, fmt, open, max,
                            Visit(visited, key.node.String, value.value))))

\* FlatStructAccess between the attributes and the body.
FlatBetween(s, p, fmt, open, max, visited) ==
    CASE PeekIs(s, p, fmt, LBRACE) -> MapBody(s, Behind(s, p, fmt), fmt, open, max, visited)
      [] PeekIs(s, p, fmt, ENTITY) -> VisitEnd(Behind(s, p, fmt), visited)
      [] OTHER -> Then(DeserializeAny(s, p, fmt, open, max), LAMBDA value :
            VisitEnd(value.at, Visit(visited, DollarValue, value.value)))

\* FlatStructAccess in the attributes.
FlatAttributes(s, p, fmt, open, max, visited) ==
    CASE PeekIs(s, p, fmt, GT) -> FlatBetween(s, Behind(s, p, fmt), fmt, open, max, visited)
      [] PeekIs(s, p, fmt, SEMI) ->
            FlatAttributes(s, Behind(s, p, fmt), fmt, open, max, visited)
      [] OTHER ->
            Then(Expect("String", NextToken(s, p, fmt)), LAMBDA name :
            Then(EntryValue(s, name.at, fmt, open, max), LAMBDA value :
                FlatAttributes(s, value.at, fmt, open, max,
                    Visit(visited, <<AT_SIGN>> \o name.node.String, value.value))))

\* Deserializer::end
End(s, r, fmt) == IF Meaningful(s, r.at, fmt) = Len(s) THEN r ELSE Bad

\* from_slice, with the depth limit of its Deserializer.
FromSlice(s, fmt, max) ==
    Then(DeserializeAny(s, 0, fmt, 0, max), LAMBDA value : End(s, value, fmt))
=============================================================================
