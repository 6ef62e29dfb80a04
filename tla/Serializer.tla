----------------------------- MODULE Serializer -----------------------------
(***************************************************************************)
(* Serializer and Compound of src/surface/ser.rs, driven by the calls that *)
(* Serialize implementations make, and WithAttributes, the one among them  *)
(* the crate has itself (src/surface/attributes.rs).                       *)
(*                                                                         *)
(* A call that is handed a value serializes it by further calls on the     *)
(* same Serializer, in the middle of its own: it is one action up to       *)
(* there, and what follows when the value is written is part of the next   *)
(* call on the same Compound, or an action of its own where the code does  *)
(* more.  The output is kept as a Document: what a reader of it has open   *)
(* and expects.                                                            *)
(***************************************************************************)
EXTENDS Document

CONSTANTS
    Calls,         \* what callers write in each slot, see Slot
    MaxNesting,    \* bound on compounds that are open at once
    MaxFields      \* bound on the fields of a struct

\* The kinds of value a caller can write: with one token, or through a compound.
ValueKinds == {"string", "scalar", "entity", "seq", "map", "struct", "variant", "wrapper"}

\* The places a value can be written in.
Slots == {"key", "attributes", "attributed", "plain"}

ASSUME CallerAssumption ==
    /\ Calls \in [Slots -> SUBSET ValueKinds]
    /\ MaxNesting \in Nat /\ MaxFields \in Nat

VARIABLES
    output,                   \* a Document
    is_writing_attributes,
    stack,                    \* the compounds that are open
    status                    \* history: "open", "done", "refused"

vars == <<output, is_writing_attributes, stack, status>>

StructStates == {"Start", "Attrs", "Body", "Value"}

Modes == {"Seq", "Map", "Attr", "AttrWrapper", "VariantSeq", "VariantMap",
          "Struct", "NewtypeVariant"}

\* The trait of serde the caller drives a compound through.
Traits == {"seq", "map", "struct", "none"}

\* "idle": between two calls; "key", "value": inside a call that writes one;
\* "keyed": a key was written, its value has to follow.
Turns == {"idle", "key", "keyed", "value"}

\* What a struct calls a field: @name, $value, or anything else.
FieldKinds == {"attribute", "value", "plain"}

\* `fields`, `attributed` and `base` are history: the fields given so far, whether
\* the value being written has attributes already, and the levels of the output it
\* was begun at.
Compound == [mode : Modes, trait : Traits, first : BOOLEAN, state : StructStates,
             turn : Turns, fields : Seq(FieldKinds), attributed : BOOLEAN, base : Nat]

-----------------------------------------------------------------------------
Top == stack[Len(stack)]
Below == SubSeq(stack, 1, Len(stack) - 1)

\* A value is being asked for.
Wanted == status = "open" /\ (stack # <<>> => Top.turn \in {"key", "value"})

\* What the value that is asked for will be: a map key, the attributes of a
\* WithAttributes, a value that has attributes already, or none of these.
Slot ==
    IF stack = <<>> THEN "plain"
    ELSE CASE Top.turn = "key" -> "key"
           [] Top.mode = "AttrWrapper" /\ Top.fields = <<"attribute">> -> "attributes"
           [] Top.mode = "AttrWrapper" /\ Top.fields # <<"attribute">> -> "attributed"
           [] Top.mode = "Struct" /\ Top.state = "Value"
                 /\ (Top.attributed \/ Top.fields[1] = "attribute") -> "attributed"
           [] OTHER -> "plain"

Asked(call) == Wanted /\ call \in Calls[Slot]

\* The compound s[Len(s)] goes on once its key or value is written.
Resumed(s) ==
    [s EXCEPT ![Len(s)].turn = IF @ = "key" THEN "keyed" ELSE "idle"]

\* A value is complete, with the compounds s around it.
Complete(s) ==
    IF s = <<>> THEN stack' = s /\ status' = "done"
                ELSE stack' = Resumed(s) /\ status' = status

Push(mode, trait, turn) ==
    /\ Len(stack) < MaxNesting
    /\ stack' = Append(stack,
          [mode |-> mode, trait |-> trait, first |-> TRUE, state |-> "Start",
           turn |-> turn, fields |-> <<>>, attributed |-> Slot = "attributed",
           base |-> Len(output)])
    /\ UNCHANGED status

\* A key, and what separates it from the value that follows.
Keyed(d) == Feed(Feed(d, "string"), "KeyValueSeparator")

\* check_first
Separated(d, first) == IF first THEN d ELSE Feed(d, "ItemSeparator")

-----------------------------------------------------------------------------
Init ==
    /\ output = NewFragment
    /\ is_writing_attributes = FALSE
    /\ stack = <<>>
    /\ status = "open"

(* Values of one token. *)

\* serialize_i8 .. serialize_f64, serialize_bool: "scalar"; serialize_char,
\* serialize_str, serialize_bytes, serialize_unit_variant: "string";
\* serialize_none, serialize_unit, serialize_unit_struct: "entity".
SerializeAtom ==
    /\ \E atom \in Atoms :
          /\ Asked(atom)
          /\ output' = Feed(output, atom)
    /\ Complete(stack)
    /\ UNCHANGED is_writing_attributes

-----------------------------------------------------------------------------
(* Lists, and the variants of an enum. *)

\* serialize_seq, serialize_tuple, serialize_tuple_struct
SerializeSeq ==
    /\ Asked("seq")
    /\ Push("Seq", "seq", "idle")
    /\ output' = Feed(output, "BeginList")
    /\ UNCHANGED is_writing_attributes

SerializeTupleVariant ==
    /\ Asked("variant")
    /\ Push("VariantSeq", "seq", "idle")
    /\ output' = Feed(Keyed(Feed(output, "BeginMap")), "BeginList")
    /\ UNCHANGED is_writing_attributes

SerializeStructVariant ==
    /\ Asked("variant")
    /\ Push("VariantMap", "struct", "idle")
    /\ output' = Feed(Keyed(Feed(output, "BeginMap")), "BeginMap")
    /\ UNCHANGED is_writing_attributes

SerializeNewtypeVariant ==
    /\ Asked("variant")
    /\ Push("NewtypeVariant", "none", "value")
    /\ output' = Keyed(Feed(output, "BeginMap"))
    /\ UNCHANGED is_writing_attributes

\* What serialize_newtype_variant does behind its value.
NewtypeVariantEnd ==
    /\ status = "open" /\ stack # <<>>
    /\ Top.mode = "NewtypeVariant" /\ Top.turn = "idle"
    /\ Complete(Below)
    /\ output' = Feed(output, "EndMap")
    /\ UNCHANGED is_writing_attributes

\* The caller is between two calls on a compound of this trait.
Driving(trait) ==
    status = "open" /\ stack # <<>> /\ Top.trait = trait /\ Top.turn = "idle"

SerializeElement ==
    /\ Driving("seq")
    /\ output' = Separated(output, Top.first)
    /\ stack' = [stack EXCEPT ![Len(stack)].first = FALSE, ![Len(stack)].turn = "value"]
    /\ UNCHANGED <<is_writing_attributes, status>>

SeqEnd ==
    /\ Driving("seq")
    /\ output' = IF Top.mode = "VariantSeq" THEN Feed(Feed(output, "EndList"), "EndMap")
                                            ELSE Feed(output, "EndList")
    /\ Complete(Below)
    /\ UNCHANGED is_writing_attributes

-----------------------------------------------------------------------------
(* Maps. *)

\* Mutant: the flag stays for the value behind the attributes.
SerializeMapKeepsFlag ==
    /\ Asked("map")
    /\ IF is_writing_attributes
       THEN Push("Attr", "map", "idle") /\ output' = Feed(output, "BeginAttributes")
       ELSE Push("Map", "map", "idle") /\ output' = Feed(output, "BeginMap")
    /\ UNCHANGED is_writing_attributes

SerializeMap ==
    /\ Asked("map")
    /\ IF is_writing_attributes
       THEN Push("Attr", "map", "idle") /\ output' = Feed(output, "BeginAttributes")
       ELSE Push("Map", "map", "idle") /\ output' = Feed(output, "BeginMap")
    /\ is_writing_attributes' = FALSE

SerializeKey ==
    /\ Driving("map")
    /\ output' = Separated(output, Top.first)
    /\ stack' = [stack EXCEPT ![Len(stack)].first = FALSE, ![Len(stack)].turn = "key"]
    /\ UNCHANGED <<is_writing_attributes, status>>

SerializeValue ==
    /\ status = "open" /\ stack # <<>> /\ Top.turn = "keyed"
    /\ output' = Feed(output, "KeyValueSeparator")
    /\ stack' = [stack EXCEPT ![Len(stack)].turn = "value"]
    /\ UNCHANGED <<is_writing_attributes, status>>

MapEnd ==
    /\ Driving("map")
    /\ output' = Feed(output, IF Top.mode = "Attr" THEN "EndAttributes" ELSE "EndMap")
    /\ Complete(Below)
    /\ UNCHANGED is_writing_attributes

-----------------------------------------------------------------------------
(* Structs. *)

\* serialize_struct under the name of WithAttributes, whose attributes will be
\* a compound too.
SerializeWrapper ==
    /\ Asked("wrapper")
    /\ Len(stack) + 1 < MaxNesting
    /\ Push("AttrWrapper", "struct", "idle")
    /\ UNCHANGED <<output, is_writing_attributes>>

\* Mutant: a struct is a map, even where attributes are asked for.
SerializeStructIgnoresFlag ==
    /\ Asked("struct")
    /\ Push("Struct", "struct", "idle")
    /\ output' = output
    /\ is_writing_attributes' = FALSE

SerializeStruct ==
    /\ Asked("struct")
    /\ IF is_writing_attributes
       THEN Push("Attr", "struct", "idle") /\ output' = Feed(output, "BeginAttributes")
       ELSE Push("Struct", "struct", "idle") /\ output' = output
    /\ is_writing_attributes' = FALSE

\* The two fields of WithAttributes.
WrapperField ==
    /\ Driving("struct") /\ Top.mode = "AttrWrapper" /\ Len(Top.fields) < 2
    /\ LET field == IF Top.fields = <<>> THEN "attribute" ELSE "value" IN
          /\ is_writing_attributes' = (is_writing_attributes \/ field = "attribute")
          /\ stack' = [stack EXCEPT ![Len(stack)].turn = "value",
                                    ![Len(stack)].fields = Append(@, field)]
    /\ UNCHANGED <<output, status>>

\* A field of a struct that is written as attributes, or of a struct variant:
\* its name has no meaning.
NamedField ==
    /\ Driving("struct") /\ Top.mode \in {"Attr", "VariantMap"}
    /\ output' = Keyed(Separated(output, Top.first))
    /\ stack' = [stack EXCEPT ![Len(stack)].first = FALSE, ![Len(stack)].turn = "value"]
    /\ UNCHANGED <<is_writing_attributes, status>>

-----------------------------------------------------------------------------
(***************************************************************************)
(* write_struct_field: the brackets a field needs in front of it, and      *)
(* which orders are legal.                                                 *)
(***************************************************************************)
\* Mutant: a struct goes back to its start with its $value.
NextStateForgets == [attribute |-> "Attrs", value |-> "Start", plain |-> "Body"]

NextState == [attribute |-> "Attrs", value |-> "Value", plain |-> "Body"]

\* Mutant: $value is refused behind attributes.
LegalBareValue(state, kind) ==
    CASE kind = "attribute" -> state \in {"Start", "Attrs"}
      [] kind = "value"     -> state = "Start"
      [] kind = "plain"     -> state # "Value"

Legal(state, kind) ==
    CASE kind = "attribute" -> state \in {"Start", "Attrs"}
      [] kind = "value"     -> state \in {"Start", "Attrs"}
      [] kind = "plain"     -> state # "Value"

\* The attributes end where the body begins.
Bodied(d, state) == IF state = "Attrs" THEN Feed(d, "EndAttributes") ELSE d

\* Mutant: the first plain field behind attributes is not the first of its map.
BracketedLate(d, state, kind, first) ==
    CASE kind = "attribute" ->
            Separated(IF state = "Start" THEN Feed(d, "BeginAttributes") ELSE d, first)
      [] kind = "value" -> Bodied(d, state)
      [] kind = "plain" ->
            IF state = "Body" THEN Separated(d, first)
                              ELSE Separated(Feed(Bodied(d, state), "BeginMap"), first)

\* What stands in front of a field of this kind; a bracket opened for it makes
\* it the first.
Bracketed(d, state, kind, first) ==
    CASE kind = "attribute" ->
            IF state = "Start" THEN Feed(d, "BeginAttributes") ELSE Separated(d, first)
      [] kind = "value" -> Bodied(d, state)
      [] kind = "plain" ->
            IF state = "Body" THEN Separated(d, first) ELSE Feed(Bodied(d, state), "BeginMap")

\* A caller that does not attribute a value twice gives a struct in such a place
\* no attribute fields.
StructField(kind) ==
    /\ Driving("struct") /\ Top.mode = "Struct" /\ Len(Top.fields) < MaxFields
    /\ kind = "attribute" /\ Top.attributed => "wrapper" \in Calls["attributed"]
    /\ Legal(Top.state, kind)
    /\ LET d == Bracketed(output, Top.state, kind, Top.first) IN
          output' = IF kind = "value" THEN d ELSE Keyed(d)
    /\ stack' = [stack EXCEPT ![Len(stack)] =
                    [Top EXCEPT !.state = NextState[kind],
                                !.first = IF kind = "value" THEN @ ELSE FALSE,
                                !.turn = "value",
                                !.fields = Append(@, kind)]]
    /\ UNCHANGED <<is_writing_attributes, status>>

\* The field does not fit the shape: an error, and the caller gives up.
RefuseField(kind) ==
    /\ Driving("struct") /\ Top.mode = "Struct" /\ Len(Top.fields) < MaxFields
    /\ ~Legal(Top.state, kind)
    /\ status' = "refused"
    /\ stack' = [stack EXCEPT ![Len(stack)].fields = Append(@, kind)]
    /\ UNCHANGED <<output, is_writing_attributes>>

\* SerializeStruct::end of a struct: every case leaves one value behind.
Closed(d, state) ==
    CASE state = "Start" -> Feed(Feed(d, "BeginMap"), "EndMap")
      [] state = "Attrs" -> Feed(Feed(d, "EndAttributes"), "entity")
      [] state = "Body"  -> Feed(d, "EndMap")
      [] state = "Value" -> d

StructEnd ==
    /\ Driving("struct")
    /\ Top.mode = "AttrWrapper" => Len(Top.fields) = 2
    /\ output' = CASE Top.mode = "Struct" -> Closed(output, Top.state)
                   [] Top.mode = "Attr" -> Feed(output, "EndAttributes")
                   [] Top.mode = "VariantMap" -> Feed(Feed(output, "EndMap"), "EndMap")
                   [] Top.mode = "AttrWrapper" -> output
    /\ Complete(Below)
    /\ UNCHANGED is_writing_attributes

-----------------------------------------------------------------------------
\* The caller goes on with the same Serializer: it puts a `;` behind the value
\* and serializes another.
Separate ==
    /\ status = "done"
    /\ output' = Feed(output, "ItemSeparator")
    /\ status' = "open"
    /\ UNCHANGED <<is_writing_attributes, stack>>

\* After an error the output is abandoned for a new Serializer.
Abandon ==
    /\ status = "refused"
    /\ output' = NewFragment
    /\ is_writing_attributes' = FALSE
    /\ stack' = <<>>
    /\ status' = "open"

Next ==
    \/ SerializeAtom
    \/ SerializeSeq \/ SerializeTupleVariant \/ SerializeStructVariant
    \/ SerializeNewtypeVariant \/ NewtypeVariantEnd
    \/ SerializeElement \/ SeqEnd
    \/ SerializeMap \/ SerializeKey \/ SerializeValue \/ MapEnd
    \/ SerializeWrapper \/ SerializeStruct \/ WrapperField \/ NamedField
    \/ \E kind \in FieldKinds : StructField(kind) \/ RefuseField(kind)
    \/ StructEnd
    \/ Separate \/ Abandon

Spec == Init /\ [][Next]_vars

-----------------------------------------------------------------------------
\* The callers the crate is meant for: keys are strings, attributes are a map or
\* a struct, and no value is attributed twice.
OrderlyCallers ==
    /\ Calls["key"] \subseteq {"string"}
    /\ Calls["attributes"] \subseteq {"map", "struct"}
    /\ "wrapper" \notin Calls["attributed"]

\* The shape of the state: a compound with another on top of it is in the middle
\* of a call, and a struct is at its start until its first field.
TypeOK ==
    /\ output \in Document
    /\ is_writing_attributes \in BOOLEAN
    /\ stack \in Seq(Compound) /\ Len(stack) <= MaxNesting
    /\ \A i \in 1..Len(stack) :
          /\ i < Len(stack) => stack[i].turn \in {"key", "value"}
          /\ stack[i].mode = "Struct" =>
                (stack[i].state = "Start" <=> stack[i].fields = <<>>)
    /\ status \in {"open", "done", "refused"}

\* "Every struct shape serializes to a valid YSON value, or to an error"
\* (tests/struct_shape_tests.rs): whatever calls are made and in whatever order
\* fields arrive, no token is ever out of place, and a value that was serialized
\* is there as a whole, with nothing more.
OutputIsValid == output # Rejected /\ (status = "done" => output = Whole)

\* The flag that turns a map into attributes is set while the attributes of a
\* WithAttributes are asked for, and at no other time: neither the value behind
\* them nor a later one sees it.
FlagIsForAttributes ==
    is_writing_attributes =>
        stack # <<>> /\ Top.mode = "AttrWrapper" /\ Top.fields = <<"attribute">>

\* Every value is written where it belongs: what a struct calls @name into the
\* attributes, a plain field into the map behind them, and the value of a
\* WithAttributes behind attributes that are there.
ValuesLand ==
    (Wanted /\ stack # <<>> /\ output # Rejected) =>
        LET l == Innermost(output)
            inside == IF Top.mode = "Attr" \/ (Top.mode = "Struct" /\ Top.state = "Attrs")
                      THEN "attributes" ELSE "map"
        IN  CASE Slot = "attributes" -> TakesAttributes(l)
              [] Slot = "attributed" -> l.want = "node"
              [] Slot = "plain" /\ (Top.trait = "seq" \/ Top.state = "Value") ->
                    TakesAttributes(l)
              [] Slot = "key" -> l.kind = inside /\ TakesKey(l)
              [] OTHER -> l = [kind |-> inside, want |-> "value"]

\* Attributes first, then either one $value or plain fields.
InOrder(fields) ==
    \E n \in 0..Len(fields) :
        /\ \A i \in 1..n : fields[i] = "attribute"
        /\ \/ \A i \in (n + 1)..Len(fields) : fields[i] = "plain"
           \/ n + 1 = Len(fields) /\ fields[n + 1] = "value"

\* A struct is refused as soon as its fields are out of order, and only then.
RefusedOutOfOrder ==
    \A i \in 1..Len(stack) :
        stack[i].mode = "Struct" =>
            (InOrder(stack[i].fields) <=> ~(status = "refused" /\ i = Len(stack)))
=============================================================================
