--------------------------- MODULE MCDeserializer ---------------------------
(***************************************************************************)
(* Deserializer with the callers the crate is meant for.                   *)
(***************************************************************************)
EXTENDS Deserializer

\* Keys are strings or enums, the attributes of a WithAttributes a map, a struct
\* without attribute fields of its own, anything, or an Option of these.
OrderlyAsks ==
    [key        |-> {"any", "typed", "enum"},
     variant    |-> {"typed"},
     attributes |-> {"any", "typed", "option"},
     body       |-> Methods,
     plain      |-> Methods]
=============================================================================
