---------------------------- MODULE MCSerializer ----------------------------
(***************************************************************************)
(* Serializer with the callers the crate is meant for, and with others     *)
(* whose types compile as well.                                            *)
(***************************************************************************)
EXTENDS Serializer

\* Keys are strings, attributes are a map or a struct, and no value is
\* attributed twice.
OrderlyCalls ==
    [key        |-> {"string"},
     attributes |-> {"map", "struct"},
     attributed |-> ValueKinds \ {"wrapper"},
     plain      |-> ValueKinds]

\* Attributes that are an Option may be None.
OptionalAttributes == [OrderlyCalls EXCEPT !["attributes"] = @ \cup {"entity"}]

\* A value with attributes may hold another.
NestedAttributes == [OrderlyCalls EXCEPT !["attributed"] = ValueKinds]
=============================================================================
