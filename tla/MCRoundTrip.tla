---------------------------- MODULE MCRoundTrip ----------------------------
(***************************************************************************)
(* Types of three scalars, every way to build a type of one of them, every *)
(* way to build one of those, and some of a third level.                   *)
(***************************************************************************)
EXTENDS RoundTrip

Scalar(kind) == Type(kind, <<>>, <<>>)
Scalars == {Scalar("number"), Scalar("text"), Scalar("unit")}

Count == Scalar("number")
MapOf(T) == Type("map", <<T>>, <<>>)
Struct(of, names) == Type("struct", of, names)
Enum(of, names) == Type("enum", of, names)
Wrapper(attributes, T) == Type("wrapper", <<attributes, T>>, <<>>)

Over(T) ==
    {Option(T), Type("newtype", <<T>>, <<>>), Type("list", <<T>>, <<>>),
     Type("tuple", <<T, Count>>, <<>>), MapOf(T),
     Struct(<<T, Option(Count)>>, <<"a", "b">>),
     Struct(<<T>>, <<"@a">>), Struct(<<Count, T>>, <<"@a", "a">>),
     Struct(<<T>>, <<"$value">>), Struct(<<Count, T>>, <<"@a", "$value">>),
     Enum(<<Scalar("empty"), T>>, <<"x", "y">>),
     Enum(<<Type("record", <<T, Count>>, <<"a", "b">>)>>, <<"y">>),
     Wrapper(MapOf(Count), T), Wrapper(T, Count), Wrapper(Struct(<<T>>, <<"a">>), Count)}

\* Attributes are written between brackets.
RECURSIVE Writable(_)
Writable(T) ==
    /\ \A i \in DOMAIN T.of : Writable(T.of[i])
    /\ T.kind = "wrapper" => T.of[1].kind \in {"map", "struct"}

Above(types) == {T \in UNION {Over(S) : S \in types} : Writable(T)}

First == Above(Scalars)
Second == Above(First)
Third == Above(Second)

MCTypes == Scalars \cup First \cup Second \cup Third
MCLengths == 0 .. 2
=============================================================================
