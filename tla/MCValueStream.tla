--------------------------- MODULE MCValueStream ---------------------------
(***************************************************************************)
(* Eight-bit integers, short strings over bytes of every class, and small  *)
(* trees.                                                                  *)
(***************************************************************************)
EXTENDS ValueStream

\* 0.0  -0.0  1e-7  nan  inf  -inf, the bytes of some being separators.
MCSpelling ==
    (<<0, 0>> :> <<48, 46, 48>>) @@ (<<0, 128>> :> <<45, 48, 46, 48>>)
      @@ (<<59, 93>> :> <<49, 101, 45, 55>>) @@ (<<248, 127>> :> <<110, 97, 110>>)
      @@ (<<240, 127>> :> <<105, 110, 102>>) @@ (<<240, 255>> :> <<45, 105, 110, 102>>)

StringsUpTo(n, bytes) == UNION {[1..m -> bytes] : m \in 0..n}

\* Control characters, with an escape of their own or without, what may stand in
\* an unquoted string, the end of printable ASCII, and bytes of UTF-8.
Bytes == {0, 9, 10, 13, 31, 34, 45, 48, 59, 92, 95, 97, 126, 127, 128, 169, 195, 255}

\* An escape and what may be taken for part of it.
Tricky == {10, 34, 48, 92, 120, 195, 169}

Scalar ==
    {Entity, Boolean(TRUE), Boolean(FALSE)}
      \cup {Int64(i) : i \in (-Int64Max - 1)..Int64Max}
      \cup {Uint64(i) : i \in 0..Uint64Max}
      \cup {Double(d) : d \in DOMAIN Spelling}
      \cup {String(b) : b \in StringsUpTo(2, Bytes) \cup StringsUpTo(3, Tricky)}

a == <<97>>
AtA == <<64, 97>>     \* @a
SemicolonB == <<59, 98>>

One == Plain(Int64(1))
Marked == Attributed(Some(a :> One), Entity)        \* <a=1>#
BeforeMap == Attributed(Some(a :> One), Map(Empty)) \* <a=1>{}
BeforeNothing == Attributed(Some(Empty), Entity)    \* <>#
Twice == Plain(List(<<BeforeMap>>))                 \* [<a=1>{}]

Few == {One, Marked, BeforeMap, BeforeNothing}

Leaves ==
    {Attributed(attributes, node) :
        attributes \in {None, Some(Empty), Some(a :> One)},
        node \in {Entity, Int64(1), String(<<59>>), Map(Empty), List(<<>>)}}

Maps(keys, values) == UNION {[K -> values] : K \in SUBSET keys}

\* Keys that flattening gives a meaning, side by side with those it does not.
Nodes ==
    {List(<<v>>) : v \in Leaves} \cup {List(<<v, w>>) : v, w \in Few}
      \cup {Map(k :> v) : k \in {a, AtA, DollarValue, SemicolonB}, v \in Leaves}
      \cup {Map(m) : m \in Maps({a, AtA, DollarValue}, Few)
                      \cup Maps({SemicolonB, a, <<>>}, {One, Twice})}

Trees ==
    {Attributed(attributes, node) :
        attributes \in {None, Some(Empty)} \cup {Some(a :> v) : v \in Few},
        node \in Nodes}

Deep ==
    UNION {{Plain(List(<<v>>)), Plain(Map(a :> v)), Attributed(Some(a :> v), List(<<v>>))} :
              v \in {Attributed(attributes, node) :
                        attributes \in {None, Some(a :> Twice)},
                        node \in {List(<<v>>) : v \in Few \cup {Twice}}}}

MCFirst == {Plain(node) : node \in Scalar} \cup Trees \cup Deep

\* One that is refused at a low limit, after part of it has been written.
MCLater == {Twice}
=============================================================================
