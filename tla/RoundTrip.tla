----------------------------- MODULE RoundTrip -----------------------------
(***************************************************************************)
(* to_vec and from_slice (src/lib.rs): a value of a type is written, and   *)
(* what was written is read, as that type or as one that is to accept it.  *)
(***************************************************************************)
EXTENDS TypedSerde

CONSTANTS
    Types,   \* the types of the values
    Lengths  \* of the lists and maps in them

VARIABLES
    type, value,
    written,  \* the output of to_vec, in tokens
    reading,  \* the type given to from_slice, see Reading
    answer    \* its result

vars == <<type, value, written, reading, answer>>

Keys == <<"a", "b">>

\* Sequences with an element from each of these sets.
Product(sets) ==
    {s \in [DOMAIN sets -> UNION ToSet(sets)] : \A i \in DOMAIN s : s[i] \in sets[i]}

RECURSIVE ValuesOf(_)

ValuesOf(T) ==
    LET part == [i \in DOMAIN T.of |-> ValuesOf(T.of[i])]
        items == UNION {Product([i \in 1 .. n |-> part[1]]) : n \in Lengths}
        entries(s) == [i \in DOMAIN s |-> Value(Keys[i], <<s[i]>>)]
        variants(i) == IF T.of[i].kind = "empty" THEN {Value(T.names[i], <<>>)}
                       ELSE {Value(T.names[i], <<v>>) : v \in part[i]}
    IN  CASE T.kind = "number" -> {Value("1", <<>>)}
          [] T.kind = "text"   -> {Value("x", <<>>)}
          [] T.kind = "unit"   -> {Value("#", <<>>)}
          [] T.kind = "empty"  -> {}
          [] T.kind = "option" -> {Absent} \cup {Held(v) : v \in part[1]}
          [] T.kind = "list"   -> {Value("list", s) : s \in items}
          [] T.kind = "map"    -> {Value("map", entries(s)) : s \in items}
          [] T.kind = "enum"   -> UNION {variants(i) : i \in DOMAIN T.names}
          [] OTHER             -> {Value(T.kind, s) : s \in Product(part)}

-----------------------------------------------------------------------------
(* Which types come back. *)
RECURSIVE Nullable(_), Attributed(_), Stacked(_), Mapped(_), Faithful(_)

\* May be written as `#`.
Nullable(T) ==
    \/ T.kind \in {"unit", "option"}
    \/ T.kind = "newtype" /\ Nullable(T.of[1])
    \/ IsFlat(T) /\ Attributes(T) = {} /\ \E b \in Body(T) : Nullable(T.of[b])

\* May be written with attributes in front.
Attributed(T) ==
    \/ T.kind = "wrapper"
    \/ T.kind \in {"option", "newtype"} /\ Attributed(T.of[1])
    \/ IsFlat(T) /\ (Attributes(T) # {} \/ \E b \in Body(T) : Attributed(T.of[b]))

\* May be written with attributes in front of attributes.
Stacked(T) ==
    \/ T.kind = "wrapper" /\ Attributed(T.of[2])
    \/ T.kind \in {"option", "newtype"} /\ Stacked(T.of[1])
    \/ /\ IsFlat(T)
       /\ \E b \in Body(T) :
              IF Attributes(T) # {} THEN Attributed(T.of[b]) ELSE Stacked(T.of[b])

\* May be written as a map.
Mapped(T) ==
    \/ T.kind \in {"map", "record"}
    \/ T.kind = "enum" /\ \E i \in DOMAIN T.of : T.of[i].kind # "empty"
    \/ T.kind \in {"option", "newtype"} /\ Mapped(T.of[1])
    \/ T.kind = "wrapper" /\ Mapped(T.of[2])
    \/ T.kind = "struct" /\ \A b \in Body(T) : Mapped(T.of[b])

FitsOption(T) == ~Nullable(T) /\ ~Attributed(T)

\* A body with attributes needs others in front of it, for the struct takes the
\* first that it meets.
FitsBody(T, attributes) ==
    IF Attributed(T) THEN attributes # {}
    ELSE ~Mapped(T) /\ (Nullable(T) => T.kind = "option")

FitsAttributes(T) == T.kind = "map" \/ (T.kind = "struct" /\ ~IsFlat(T))

Faithful(T) ==
    /\ T.kind # "newtype"
    /\ \A i \in DOMAIN T.of : Faithful(T.of[i])
    /\ T.kind = "option" => FitsOption(T.of[1])
    /\ IsFlat(T) => \A b \in Body(T) : FitsBody(T.of[b], Attributes(T))
    /\ T.kind = "wrapper" => FitsAttributes(T.of[1])

-----------------------------------------------------------------------------
(* Writing, and reading. *)
Option(T) == Type("option", <<T>>, <<>>)
Array(T, n) == Type("tuple", [i \in 1 .. n |-> T], <<>>)
FewerFields(T, i) == Type("struct", RemoveAt(T.of, i), RemoveAt(T.names, i))

\* A type to read as, and the value to expect.
Reading(as, value_read) == [as |-> as, expected |-> value_read]

\* What was written of a value v of type T is read as T; as something that may
\* be missing; without its attributes, if they are one list (what steps over them
\* steps over one list only); by a struct that lacks one field; and a list as an
\* array.
Readings(T, v) ==
    {Reading(T, v), Reading(Option(T), Held(v))}
    \cup {Reading(T.of[2], v.of[2]) :
              w \in IF T.kind = "wrapper" /\ ~Attributed(T.of[2]) THEN {T} ELSE {}}
    \cup {Reading(Array(T.of[1], n),
                 IF n = Len(v.of) THEN Value("tuple", v.of) ELSE Error) :
              n \in IF T.kind = "list" THEN Lengths ELSE {}}
    \cup {Reading(FewerFields(T, i), Value("struct", RemoveAt(v.of, i))) :
              i \in IF T.kind = "struct" /\ Len(T.of) > 1 THEN DOMAIN T.of ELSE {}}

Unread == Reading(Ignored, Error)

Init == /\ type \in Types /\ value \in ValuesOf(type)
        /\ written = <<>> /\ reading = Unread /\ answer = Error

to_vec == /\ written = <<>>
          /\ written' = Written(type, value)
          /\ UNCHANGED <<type, value, reading, answer>>

from_slice ==
    /\ written # <<>> /\ reading = Unread
    /\ reading' \in Readings(type, value)
    /\ answer' = Read(reading'.as, written)
    /\ UNCHANGED <<type, value, written>>

Next == to_vec \/ from_slice

Spec == Init /\ [][Next]_vars

-----------------------------------------------------------------------------
(* Properties. *)

\* Every value of a faithful type is read as it was written, however its
\* options, enums, attributes and bodies are put inside each other: the flag
\* for attributes, which both sides keep between calls, never reaches a value
\* it is not for.  A reader that knows less, or expects more, finds what it
\* knows: one for which the value may be missing, one that does not care for
\* attributes, and a struct that lacks a field, whose value is skipped whatever
\* it is.  An array is read from a list of its length and from no other.
RoundTrips ==
    (reading # Unread /\ Faithful(type) /\ Faithful(reading.as)) => answer = reading.expected

\* The other types have a value that does not come back: a newtype struct (its
\* visitor takes no scalar and no map), an Option of what may be `#` or have
\* attributes (which it skips before it looks), a `$value` of what is written
\* as a map (its keys are taken for fields) or as `#`, or with attributes where
\* the struct has none of its own (it takes them for its own), and attributes
\* that are a struct with attributes.
NoOtherTypeDoes ==
    reading = Unread /\ ~Faithful(type) =>
        \E v \in ValuesOf(type) : Read(type, Written(type, v)) # v

RECURSIVE Alike(_, _), Displaced(_), Has(_, _)

\* The same, or nothing where there was something.
Alike(v, w) ==
    \/ v = w
    \/ v.atom = "Some" /\ w = Absent
    \/ v.atom = "map" /\ w = Value("map", <<>>)
    \/ /\ v.atom = w.atom /\ Len(v.of) = Len(w.of)
       /\ \A i \in DOMAIN v.of : Alike(v.of[i], w.of[i])

\* Some reader in it steps over attributes in front of others.
Displaced(T) ==
    \/ T.kind = "option" /\ Stacked(T.of[1])
    \/ IsFlat(T) /\ Attributes(T) = {} /\ \E b \in Body(T) : Stacked(T.of[b])
    \/ \E i \in DOMAIN T.of : Displaced(T.of[i])

Has(T, kind) == T.kind = kind \/ \E i \in DOMAIN T.of : Has(T.of[i], kind)

\* What does not come back is refused or comes back with less: it is never
\* taken for something that was not there, and has no field or element too few.
\* (A newtype of lists may be: one that holds [[]] is read as one that holds [].
\* So may attributes, where two lists of them stand in a row and the first is
\* stepped over: the type that wrote the first is given the second.)
NeverAnother ==
    (reading # Unread /\ answer # Error) =>
        /\ answer \in ValuesOf(reading.as)
        /\ \/ Has(type, "newtype") \/ Displaced(reading.as)
           \/ reading.expected = Error \/ Alike(reading.expected, answer)
=============================================================================
