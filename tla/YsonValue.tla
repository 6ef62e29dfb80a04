----------------------------- MODULE YsonValue -----------------------------
(***************************************************************************)
(* The value tree of src/core/node.rs.  A byte string is a sequence of     *)
(* bytes, a map a function from keys to values, and an Option the set of   *)
(* what it holds.                                                          *)
(***************************************************************************)
EXTENDS Integers, Sequences, TLC

None == {}
Some(x) == {x}
The(option) == CHOOSE x \in option : TRUE

\* YsonNode: a record of one field, named for the variant.
Entity == [Entity |-> <<>>]
Boolean(b) == [Boolean |-> b]
Int64(i) == [Int64 |-> i]
Uint64(i) == [Uint64 |-> i]
Double(d) == [Double |-> d]
String(b) == [String |-> b]
List(items) == [List |-> items]
Map(entries) == [Map |-> entries]

Is(variant, node) == DOMAIN node = {variant}

\* YsonValue
Attributed(attributes, node) == [attributes |-> attributes, node |-> node]
Plain(node) == Attributed(None, node)

Empty == <<>>     \* YsonMap::new

\* BTreeMap::insert and extend: what is put in replaces what is there.
Insert(entries, key, value) == (key :> value) @@ entries
Extend(entries, more) == more @@ entries

\* The order of a BTreeMap's keys: that of their bytes.
Precedes(k, l) ==
    \E n \in 0..Len(k) :
        /\ n <= Len(l) /\ SubSeq(k, 1, n) = SubSeq(l, 1, n)
        /\ IF n = Len(k) THEN n < Len(l) ELSE n < Len(l) /\ k[n + 1] < l[n + 1]
=============================================================================
