---------------------------- MODULE Deserializer ----------------------------
(***************************************************************************)
(* Deserializer (src/surface/de.rs) and the access objects it hands to     *)
(* visitors (src/surface/access.rs), over a well-formed document that may  *)
(* be cut short.  The document is not fixed beforehand: `consumed` is what *)
(* the tokens read so far leave open, and each next token is any that fits *)
(* there.                                                                  *)
(*                                                                         *)
(* The caller is a Deserialize implementation and its visitors.  `asked`   *)
(* is the method it is about to call; a visitor that is given an access    *)
(* object goes on to call it, and may ask for less than there is in a list *)
(* or a map.  An access object is a frame of `stack`.                      *)
(***************************************************************************)
EXTENDS Document, FiniteSets

CONSTANTS
    Asks,         \* the methods callers use in each slot, see Slot
    Unseparated,  \* `;` may be missing between items, as the reader allows
    max_depth,
    MaxLevels,    \* bound on the brackets that are open at once
    MaxOpen       \* bound on the frames that are open at once

\* deserialize_any; the methods that skip attributes and do the same (of which
\* deserialize_struct without attribute fields is one); deserialize_struct with
\* attribute fields; deserialize_struct of a WithAttributes.
Methods == {"any", "typed", "option", "enum", "flat", "wrapper"}

\* The places a value can be read for.
Slots == {"key", "variant", "attributes", "body", "plain"}

ASSUME AsksAssumption ==
    /\ Asks \in [Slots -> SUBSET Methods]
    /\ Unseparated \in BOOLEAN
    /\ max_depth \in Nat /\ MaxLevels \in Nat /\ MaxOpen \in Nat

VARIABLES
    consumed,                 \* a Document
    ahead,                    \* the next token
    is_reading_attributes,
    depth,
    stack,                    \* access objects, and calls with more to do
    asked,
    status

vars == <<consumed, ahead, is_reading_attributes, depth, stack, asked, status>>

Accesses == {"list", "map", "attributes", "flat", "wrapper", "enum", "option", "skip"}

FlatStates == {"Attributes", "Between", "Body", "ValueOnly", "Done"}

\* "idle": the visitor has the turn; "seek": inside next_key or next_element;
\* "over": None was returned; "closing": the visitor is done.
Turns == {"idle", "seek", "key", "keyed", "value", "over", "variant", "tagged", "unit",
          "last", "closing"}

\* count: state of an AttributesWrapperAccess, attr_depth of skip_attributes.
Access == [access : Accesses, turn : Turns, state : FlatStates, count : Nat,
           is_value_only : BOOLEAN, is_map_wrapped : BOOLEAN]

\* "trailing": end() found more; the other ways to fail are errors of a call.
\* "longer": the visitor read less than there is; "mismatch": it refused a value.
Failures == {"short", "limit", "unexpected", "longer", "mismatch", "trailing"}

-----------------------------------------------------------------------------
(* The document. *)

\* Inside brackets any number of `;` may stand before, between and after items.
Took(d, t) ==
    LET l == Innermost(d)
        inside == l.kind # "fragment" /\ l.want \in {"first", "more"}
    IN  IF inside /\ t = "ItemSeparator" THEN Expect(d, "first")
        ELSE Feed(IF inside /\ Unseparated THEN Expect(d, "first") ELSE d, t)

Following(d) ==
    {"eof"} \cup {t \in Tokens : Took(d, t) # Rejected /\ Len(Took(d, t)) <= MaxLevels}

\* next_token, of a token that was peeked at
Consume ==
    /\ ahead # "eof"
    /\ consumed' = Took(consumed, ahead)
    /\ ahead' \in Following(consumed')

Stay == UNCHANGED <<consumed, ahead>>

-----------------------------------------------------------------------------
(* Frames. *)

Top == stack[Len(stack)]
Below == SubSeq(stack, 1, Len(stack) - 1)

\* It is up to a frame of these, in this turn.
At(accesses, turn) ==
    /\ status = "reading" /\ asked = "nothing" /\ stack # <<>>
    /\ Top.access \in accesses /\ Top.turn = turn

\* What a frame t asks a value for: a map key, the name of a variant, the
\* attributes of a WithAttributes, a body behind attributes, or none of these.
SlotOf(t) ==
    CASE t.turn \in {"key", "variant"} -> t.turn
      [] t.turn = "value" /\ (t.access = "option" \/ (t.access = "wrapper" /\ t.count = 1)) -> "attributes"
      [] t.turn = "value" /\ (t.is_value_only \/ (t.access = "wrapper" /\ t.count = 2)) -> "body"
      [] OTHER -> "plain"

Slot == IF stack = <<>> THEN "plain" ELSE SlotOf(Top)

\* One of these methods is called, or goes on after skip_attributes.
Asking(methods) ==
    /\ status = "reading" /\ asked \in methods
    /\ stack # <<>> => Top.access # "skip"

\* The methods a caller may use in this slot, with s around it.
Choice(slot, s) ==
    {m \in Asks[slot] : m \in {"option", "enum"} => Len(s) < MaxOpen}

\* The frame s[Len(s)] asks for a value.
AskIn(s) == stack' = s /\ asked' \in Choice(SlotOf(s[Len(s)]), s)

\* What a frame does next when it has its value.
Then == [key |-> "keyed", variant |-> "tagged", value |-> "idle"]

\* A value is read, with the frames s around it.
Complete(s) ==
    /\ asked' = "nothing"
    /\ IF s = <<>>
       THEN stack' = s /\ status' = "read"
       ELSE LET t == s[Len(s)] IN
            /\ stack' = [s EXCEPT ![Len(s)].turn =
                            IF t.access = "enum" /\ @ = "value" THEN "closing" ELSE Then[@]]
            /\ UNCHANGED status

NewFrame(access, turn, state, count, wrapped) ==
    [access |-> access, turn |-> turn, state |-> state, count |-> count,
     is_value_only |-> FALSE, is_map_wrapped |-> wrapped]

\* Every error leaves all calls where they are.
Fail(failure) == status' = failure /\ UNCHANGED <<stack, asked>>

\* The next token is not what it has to be.
Refuse == Stay /\ Fail(IF ahead = "eof" THEN "short" ELSE "unexpected")

\* Mutant: the counter is only looked at.
EnterUncounted(frame, next) ==
    /\ depth' = depth
    /\ IF depth >= max_depth
       THEN Fail("limit")
       ELSE stack' = Append(stack, frame) /\ asked' = next /\ UNCHANGED status

\* enter_recursion for a frame; the counter is raised before it is looked at.
Enter(frame, next) ==
    /\ depth' = depth + 1
    /\ IF depth' > max_depth
       THEN Fail("limit")
       ELSE stack' = Append(stack, frame) /\ asked' = next /\ UNCHANGED status

leave_recursion == depth' = depth - 1

Init ==
    /\ consumed = NewFragment
    /\ ahead \in Following(consumed)
    /\ is_reading_attributes = FALSE
    /\ depth = 0
    /\ stack = <<>>
    /\ asked \in Asks["plain"]
    /\ status = "reading"

-----------------------------------------------------------------------------
(* deserialize_any, where attributes are not what is read. *)

AnyAtom ==
    /\ Asking({"any", "typed"}) /\ ~is_reading_attributes /\ ahead \in Atoms
    /\ Consume
    /\ Complete(stack)
    /\ UNCHANGED <<is_reading_attributes, depth>>

\* The visitors of keys and of the names of variants take no container.
AnyContainer ==
    /\ Asking({"any", "typed"}) /\ ~is_reading_attributes /\ ahead \in {"BeginList", "BeginMap"}
    /\ Slot \notin {"key", "variant"}
    /\ Consume
    /\ Enter(NewFrame(Bracket(ahead), "idle", "Done", 0, FALSE), "nothing")
    /\ UNCHANGED is_reading_attributes

AnyUnexpected ==
    /\ Asking({"any", "typed"}) /\ ~is_reading_attributes
    /\ ahead \notin Atoms \cup {"BeginList", "BeginMap", "BeginAttributes"}
    /\ Refuse
    /\ UNCHANGED <<is_reading_attributes, depth>>

\* The visitor of a typed value refuses what is there.
Mismatch ==
    /\ Asking({"typed"}) /\ ahead # "eof"
    /\ Fail("mismatch")
    /\ Stay
    /\ UNCHANGED <<is_reading_attributes, depth>>

-----------------------------------------------------------------------------
(* deserialize_any, where they are. *)

\* Mutant: the flag is looked at and kept.
AnyAttributesKept ==
    /\ Asking({"any", "typed"}) /\ is_reading_attributes /\ ahead = "BeginAttributes"
    /\ Consume
    /\ Enter(NewFrame("attributes", "idle", "Done", 0, FALSE), "nothing")
    /\ UNCHANGED is_reading_attributes

\* Attributes are a map.
AnyAttributes ==
    /\ Asking({"any", "typed"}) /\ is_reading_attributes /\ ahead = "BeginAttributes"
    /\ Consume
    /\ Enter(NewFrame("attributes", "idle", "Done", 0, FALSE), "nothing")
    /\ is_reading_attributes' = FALSE

\* EmptyMapAccess: and if there are none, an empty map.
AnyNoAttributes ==
    /\ Asking({"any", "typed"}) /\ is_reading_attributes /\ ahead # "BeginAttributes"
    /\ IF ahead = "eof" THEN Fail("short") ELSE Complete(stack)
    /\ is_reading_attributes' = FALSE
    /\ Stay /\ UNCHANGED depth

-----------------------------------------------------------------------------
(* skip_attributes, in front of the call that is still to be made. *)

SkipAttributes ==
    /\ Asking({"typed", "option", "enum"}) /\ ~is_reading_attributes /\ ahead = "BeginAttributes"
    /\ Consume
    /\ Enter(NewFrame("skip", "idle", "Done", 1, FALSE), asked)
    /\ UNCHANGED is_reading_attributes

Skipping == status = "reading" /\ stack # <<>> /\ Top.access = "skip"

\* attr_depth behind the next token
Counted ==
    CASE ahead = "BeginAttributes" -> Top.count + 1
      [] ahead = "EndAttributes" -> Top.count - 1
      [] OTHER -> Top.count

SkipToken ==
    /\ Skipping /\ ahead # "eof" /\ Counted # 0
    /\ Consume
    /\ IF Counted > max_depth
       THEN Fail("limit")
       ELSE stack' = [stack EXCEPT ![Len(stack)].count = Counted] /\ UNCHANGED <<asked, status>>
    /\ UNCHANGED <<is_reading_attributes, depth>>

\* Mutant: the level that was entered for the attributes is not left.
SkipEndStays ==
    /\ Skipping /\ ahead = "EndAttributes" /\ Counted = 0
    /\ Consume
    /\ stack' = Below
    /\ UNCHANGED <<is_reading_attributes, depth, asked, status>>

SkipEnd ==
    /\ Skipping /\ ahead = "EndAttributes" /\ Counted = 0
    /\ Consume
    /\ leave_recursion
    /\ stack' = Below
    /\ UNCHANGED <<is_reading_attributes, asked, status>>

SkipShort ==
    /\ Skipping /\ ahead = "eof"
    /\ Refuse
    /\ UNCHANGED <<is_reading_attributes, depth>>

-----------------------------------------------------------------------------
(* deserialize_option *)

\* Of the attributes, which are there or not.
OptionOfAttributes ==
    /\ Asking({"option"}) /\ is_reading_attributes
    /\ IF ahead = "BeginAttributes"
       THEN /\ AskIn(Append(stack, NewFrame("option", "value", "Done", 0, FALSE)))
            /\ UNCHANGED <<is_reading_attributes, status>>
       ELSE /\ is_reading_attributes' = FALSE
            /\ IF ahead = "eof" THEN Fail("short") ELSE Complete(stack)
    /\ Stay /\ UNCHANGED depth

\* What it does behind visit_some.
OptionEnd ==
    /\ At({"option"}, "idle")
    /\ is_reading_attributes' = FALSE
    /\ Complete(Below)
    /\ Stay /\ UNCHANGED depth

OptionNone ==
    /\ Asking({"option"}) /\ ~is_reading_attributes /\ ahead = "entity"
    /\ Consume
    /\ Complete(stack)
    /\ UNCHANGED <<is_reading_attributes, depth>>

\* visit_some, with the same Deserializer and nothing to do behind it
OptionSome ==
    /\ Asking({"option"}) /\ ~is_reading_attributes /\ ahead \notin {"BeginAttributes", "entity"}
    /\ IF ahead = "eof" THEN Fail("short")
                        ELSE asked' \in Choice(Slot, stack) /\ UNCHANGED <<stack, status>>
    /\ Stay /\ UNCHANGED <<is_reading_attributes, depth>>

-----------------------------------------------------------------------------
(* AttributesWrapperAccess *)

Wrapper ==
    /\ Asking({"wrapper"})
    /\ Enter(NewFrame("wrapper", "idle", "Done", 0, FALSE), "nothing")
    /\ Stay /\ UNCHANGED is_reading_attributes

\* The first element it is asked for, and the second.
WrapperElement ==
    /\ At({"wrapper"}, "idle") /\ Top.count < 2
    /\ is_reading_attributes' = (Top.count = 0)
    /\ AskIn([stack EXCEPT ![Len(stack)].count = @ + 1, ![Len(stack)].turn = "value"])
    /\ Stay /\ UNCHANGED <<depth, status>>

WrapperEnd ==
    /\ At({"wrapper"}, "idle") /\ Top.count = 2
    /\ leave_recursion
    /\ Complete(Below)
    /\ Stay /\ UNCHANGED is_reading_attributes

-----------------------------------------------------------------------------
(* CommaSeparated, and close_container behind it. *)

Containers == {"list", "map", "attributes"}

Closer == [list |-> "EndList", map |-> "EndMap", attributes |-> "EndAttributes"]

Turn(turn) == stack' = [stack EXCEPT ![Len(stack)].turn = turn] /\ UNCHANGED <<asked, status>>

\* next_element and next_key
NextItem ==
    /\ At(Containers \cup {"flat"}, "idle")
    /\ Turn("seek")
    /\ Stay /\ UNCHANGED <<is_reading_attributes, depth>>

\* A `;` is stepped over, here and behind the visitor.
Semicolon ==
    /\ \/ At(Containers, "seek")
       \/ At(Containers, "closing")
       \/ At({"flat"}, "seek") /\ Top.state \in {"Attributes", "Body"}
    /\ ahead = "ItemSeparator"
    /\ Consume
    /\ UNCHANGED <<is_reading_attributes, depth, stack, asked, status>>

ItemsOver ==
    /\ At(Containers, "seek") /\ ahead = Closer[Top.access]
    /\ Turn("over")
    /\ Stay /\ UNCHANGED <<is_reading_attributes, depth>>

AdvanceToItem ==
    /\ At(Containers, "seek") /\ ahead \notin {"ItemSeparator", Closer[Top.access]}
    /\ IF ahead = "eof" THEN Fail("short")
       ELSE /\ AskIn([stack EXCEPT ![Len(stack)].turn =
                         IF Top.access = "list" THEN "value" ELSE "key"])
            /\ UNCHANGED status
    /\ Stay /\ UNCHANGED <<is_reading_attributes, depth>>

\* Mutant: a `=` is wanted in front of $value too.
NextValueEquals ==
    /\ At({"map", "attributes", "flat"}, "keyed")
    /\ IF ahead = "KeyValueSeparator"
       THEN Consume /\ AskIn([stack EXCEPT ![Len(stack)].turn = "value"]) /\ UNCHANGED status
       ELSE Refuse
    /\ UNCHANGED <<is_reading_attributes, depth>>

\* next_value, of a FlatStructAccess too
NextValue ==
    /\ At({"map", "attributes", "flat"}, "keyed")
    /\ IF Top.is_value_only
       THEN Stay /\ AskIn([stack EXCEPT ![Len(stack)].turn = "value"]) /\ UNCHANGED status
       ELSE IF ahead = "KeyValueSeparator"
       THEN Consume /\ AskIn([stack EXCEPT ![Len(stack)].turn = "value"]) /\ UNCHANGED status
       ELSE Refuse
    /\ UNCHANGED <<is_reading_attributes, depth>>

\* The visitor returns, after the last item or before, and the access is dropped.
VisitorReturns ==
    /\ At(Containers, "idle") \/ At(Containers, "over")
    /\ leave_recursion
    /\ Turn("closing")
    /\ Stay /\ UNCHANGED is_reading_attributes

\* Mutant: whatever is left is taken for the terminator.
CloseContainerBlindly ==
    /\ At(Containers, "closing") /\ ahead \notin {"ItemSeparator", "eof"}
    /\ Consume
    /\ Complete(Below)
    /\ UNCHANGED <<is_reading_attributes, depth>>

CloseContainer ==
    /\ At(Containers, "closing") /\ ahead # "ItemSeparator"
    /\ IF ahead = Closer[Top.access]
       THEN Consume /\ Complete(Below)
       ELSE Stay /\ Fail(IF ahead = "eof" THEN "short" ELSE "longer")
    /\ UNCHANGED <<is_reading_attributes, depth>>

-----------------------------------------------------------------------------
(* FlatStructAccess: attributes and body as the entries of one map. *)

FlatEntered(t) ==
    CASE t = "BeginAttributes" -> "Attributes"
      [] t = "BeginMap" -> "Body"
      [] t = "entity" -> "Done"
      [] OTHER -> "ValueOnly"

\* Asked for a struct with attribute fields, or for anything where attributes are.
Flat ==
    /\ Asking({"flat"}) \/ (Asking({"any"}) /\ ~is_reading_attributes /\ ahead = "BeginAttributes")
    /\ LET state == FlatEntered(ahead) IN
          IF ahead = "eof" /\ depth < max_depth
          THEN Stay /\ depth' = depth + 1 /\ Fail("short")
          ELSE /\ Enter(NewFrame("flat", "idle", state, 0, FALSE), "nothing")
               /\ IF state = "ValueOnly" \/ depth = max_depth THEN Stay ELSE Consume
    /\ UNCHANGED is_reading_attributes

FlatTo(state, turn) ==
    /\ stack' = [stack EXCEPT ![Len(stack)].state = state, ![Len(stack)].turn = turn]
    /\ UNCHANGED <<asked, status>>

\* The visitor has its key without a call.
FlatKey(state, is_value_only) ==
    /\ stack' = [stack EXCEPT ![Len(stack)] =
                   [Top EXCEPT !.state = state, !.turn = "keyed", !.is_value_only = is_value_only]]
    /\ UNCHANGED <<asked, status>>

\* An attribute's name goes to the visitor behind an `@`, as bytes.
FlatAttributes ==
    /\ At({"flat"}, "seek") /\ Top.state = "Attributes" /\ ahead # "ItemSeparator"
    /\ CASE ahead = "EndAttributes" -> Consume /\ FlatTo("Between", "seek")
         [] ahead = "string"        -> Consume /\ FlatKey("Attributes", FALSE)
         [] OTHER                   -> Refuse
    /\ UNCHANGED <<is_reading_attributes, depth>>

FlatBetween ==
    /\ At({"flat"}, "seek") /\ Top.state = "Between"
    /\ CASE ahead = "BeginMap" -> Consume /\ FlatTo("Body", "seek")
         [] ahead = "entity"   -> Consume /\ FlatTo("Done", "over")
         [] ahead = "eof"      -> Stay /\ Fail("short")
         [] OTHER              -> Stay /\ FlatTo("ValueOnly", "seek")
    /\ UNCHANGED <<is_reading_attributes, depth>>

FlatBody ==
    /\ At({"flat"}, "seek") /\ Top.state = "Body" /\ ahead # "ItemSeparator"
    /\ CASE ahead = "EndMap" -> Consume /\ FlatTo("Done", "over")
         [] ahead = "eof"    -> Stay /\ Fail("short")
         [] OTHER            -> /\ Stay /\ UNCHANGED status
                                /\ AskIn([stack EXCEPT ![Len(stack)].turn = "key",
                                                       ![Len(stack)].is_value_only = FALSE])
    /\ UNCHANGED <<is_reading_attributes, depth>>

\* Mutant: the key of the body is returned again.
FlatValueOnlyAgain ==
    /\ At({"flat"}, "seek") /\ Top.state = "ValueOnly"
    /\ FlatKey("ValueOnly", TRUE)
    /\ Stay /\ UNCHANGED <<is_reading_attributes, depth>>

\* A body that is not a map is the one entry $value.
FlatValueOnly ==
    /\ At({"flat"}, "seek") /\ Top.state = "ValueOnly"
    /\ FlatKey("Done", TRUE)
    /\ Stay /\ UNCHANGED <<is_reading_attributes, depth>>

FlatDone ==
    /\ At({"flat"}, "seek") /\ Top.state = "Done"
    /\ Turn("over")
    /\ Stay /\ UNCHANGED <<is_reading_attributes, depth>>

\* Visitors of structs and of YsonValue ask until there is no more.
FlatReturns ==
    /\ At({"flat"}, "over")
    /\ leave_recursion
    /\ Complete(Below)
    /\ Stay /\ UNCHANGED is_reading_attributes

-----------------------------------------------------------------------------
(* deserialize_enum and EnumAccess *)

\* A map is opened for the variant and its content; anything else is the variant.
Enum ==
    /\ Asking({"enum"}) /\ (ahead = "BeginAttributes" => is_reading_attributes)
    /\ IF ahead = "eof"
       THEN Stay /\ Fail("short")
       ELSE /\ AskIn(Append(stack, NewFrame("enum", "variant", "Done", 0, ahead = "BeginMap")))
            /\ UNCHANGED status
            /\ IF ahead = "BeginMap" THEN Consume ELSE Stay
    /\ UNCHANGED <<is_reading_attributes, depth>>

\* unit_variant; in a map it has `#` for its content.
UnitVariant ==
    /\ At({"enum"}, "tagged")
    /\ IF ~Top.is_map_wrapped THEN Stay /\ Turn("closing")
       ELSE IF ahead = "KeyValueSeparator" THEN Consume /\ Turn("unit")
       ELSE Refuse
    /\ UNCHANGED <<is_reading_attributes, depth>>

UnitContent ==
    /\ At({"enum"}, "unit")
    /\ IF ahead = "entity" THEN Consume /\ Turn("closing")
       ELSE Refuse
    /\ UNCHANGED <<is_reading_attributes, depth>>

\* newtype_variant_seed, tuple_variant, struct_variant; an enum that is a key has
\* variants without content only.
ContentVariant ==
    /\ At({"enum"}, "tagged")
    /\ Below # <<>> => stack[Len(Below)].turn # "key"
    /\ IF ahead = "KeyValueSeparator"
       THEN /\ Consume
            /\ AskIn([stack EXCEPT ![Len(stack)].turn = "value"])
            /\ UNCHANGED status
       ELSE Refuse
    /\ UNCHANGED <<is_reading_attributes, depth>>

EnumReturns ==
    /\ At({"enum"}, "closing") /\ ~Top.is_map_wrapped
    /\ Complete(Below)
    /\ Stay /\ UNCHANGED <<is_reading_attributes, depth>>

\* What the visitor left in the map is dropped, up to a `;`, and one `;`.
EnumDrops ==
    /\ At({"enum"}, "closing") /\ Top.is_map_wrapped /\ ahead \notin {"EndMap", "eof"}
    /\ Consume
    /\ Turn(IF ahead = "ItemSeparator" THEN "last" ELSE "closing")
    /\ UNCHANGED <<is_reading_attributes, depth>>

EnumEnd ==
    /\ \/ At({"enum"}, "last")
       \/ At({"enum"}, "closing") /\ Top.is_map_wrapped /\ ahead \in {"EndMap", "eof"}
    /\ IF ahead = "EndMap" THEN Consume /\ Complete(Below)
       ELSE Refuse
    /\ UNCHANGED <<is_reading_attributes, depth>>

-----------------------------------------------------------------------------
\* end
End ==
    /\ status = "read"
    /\ status' = IF ahead = "eof" THEN "ended" ELSE "trailing"
    /\ UNCHANGED <<consumed, ahead, is_reading_attributes, depth, stack, asked>>

\* A Deserializer for another input.
New ==
    /\ status \in Failures \cup {"ended"}
    /\ consumed' = NewFragment
    /\ ahead' \in Following(NewFragment)
    /\ is_reading_attributes' = FALSE
    /\ depth' = 0
    /\ stack' = <<>>
    /\ asked' \in Asks["plain"]
    /\ status' = "reading"

Next ==
    \/ AnyAtom \/ AnyContainer \/ AnyUnexpected \/ Mismatch
    \/ AnyAttributes \/ AnyNoAttributes
    \/ SkipAttributes \/ SkipToken \/ SkipEnd \/ SkipShort
    \/ OptionOfAttributes \/ OptionEnd \/ OptionNone \/ OptionSome
    \/ Wrapper \/ WrapperElement \/ WrapperEnd
    \/ NextItem \/ Semicolon \/ ItemsOver \/ AdvanceToItem \/ NextValue
    \/ VisitorReturns \/ CloseContainer
    \/ Flat \/ FlatAttributes \/ FlatBetween \/ FlatBody \/ FlatValueOnly
    \/ FlatDone \/ FlatReturns
    \/ Enum \/ UnitVariant \/ UnitContent \/ ContentVariant
    \/ EnumReturns \/ EnumDrops \/ EnumEnd
    \/ End \/ New

Spec == Init /\ [][Next]_vars

-----------------------------------------------------------------------------
\* The shape of the state.
TypeOK ==
    /\ consumed \in Document /\ consumed # Rejected
    /\ ahead \in Following(consumed)
    /\ is_reading_attributes \in BOOLEAN
    /\ depth \in Nat
    /\ stack \in Seq(Access)
    /\ asked \in Methods \cup {"nothing"}
    /\ status \in {"reading", "read", "ended"} \cup Failures
    /\ asked = "nothing" \/ status # "read"

Skips == stack # <<>> /\ Top.access = "skip"

\* The bracket a frame has opened, and has to close.
Holds(f) ==
    CASE f.access \in Containers -> f.access
      [] f.access = "flat" /\ f.state = "Attributes" -> "attributes"
      [] f.access = "flat" /\ f.state = "Body" -> "map"
      [] f.access = "enum" /\ f.is_map_wrapped -> "map"
      [] OTHER -> "nothing"

\* How many of the first n frames of s have one.
Held(s, n) == Cardinality({i \in 1..n : Holds(s[i]) # "nothing"})

\* The brackets that are open in the document are those that the calls in
\* progress have opened and will close, one by one, whatever their visitors
\* read: no call reads past the end of its container, or leaves some of it.  A
\* value that was read was all there, and nothing else was read.
InStep ==
    /\ (status = "reading" /\ ~Skips) =>
          /\ Len(consumed) = 1 + Held(stack, Len(stack))
          /\ consumed[1].kind = "fragment"
          /\ \A i \in 1..Len(stack) :
                Holds(stack[i]) # "nothing" =>
                   consumed[1 + Held(stack, i)].kind = Holds(stack[i])
    /\ status \in {"read", "ended"} => consumed = Whole

\* A value is asked for where the document has one, a key where it has a key, and
\* the name of a variant where it has either.
AskedInPlace ==
    (asked # "nothing" /\ ~Skips /\ status = "reading") =>
        LET l == Innermost(consumed)
        IN  CASE Slot = "key" -> TakesKey(l)
              [] Slot = "variant" -> TakesKey(l) \/ TakesNode(l)
              [] OTHER -> TakesNode(l)

\* The flag that turns a value into its attributes is set while the attributes
\* of a WithAttributes are asked for, and at no other time; what a WithAttributes
\* calls its attributes is not stepped over.
FlagIsForAttributes ==
    status = "reading" =>
        /\ is_reading_attributes => stack # <<>> /\ Slot = "attributes" /\ asked # "nothing"
        /\ (Skips /\ Len(stack) > 1) => SlotOf(stack[Len(stack) - 1]) # "attributes"

\* A call that has raised the counter, and not lowered it yet.
Counts(f) ==
    /\ f.access \notin {"enum", "option"}
    /\ ~(f.access \in Containers /\ f.turn = "closing")

\* The recursion counter is the number of calls in progress that count.
DepthIsNesting ==
    status \in {"reading", "read", "ended"} =>
        /\ depth = Cardinality({i \in 1..Len(stack) : Counts(stack[i])})
        /\ depth <= max_depth

\* In a well-formed document nothing is out of place, unless for an enum: reading
\* any value, a struct or a WithAttributes does not fail on what the value reader
\* accepts.
OnlyEnumsAreSurprised ==
    status = "unexpected" => stack # <<>> /\ Top.access = "enum"
=============================================================================
