---------------------------- MODULE MCFragments ----------------------------
(***************************************************************************)
(* List fragments for the framers, and the verdict of the scanner on every *)
(* stretch of one.                                                         *)
(***************************************************************************)
EXTENDS Naturals, Sequences, TLC

T == INSTANCE Scanner WITH
        Int64Max <- 7, Uint64Max <- 15, VarintBytes <- 2, DoubleBytes <- 2

StringsUpTo(n, alphabet) == UNION {[1..m -> alphabet] : m \in 0..n}

\* Text over 1 ; [ ] and a space: a scalar that may go on, lists, separators.
Short(n) == StringsUpTo(n, {49, 59, 91, 93, 32})

\* Longer fragments, with records that outgrow the buffers.
Long == {
    <<91, 49, 59, 49, 93, 59, 49>>,                \* [1;1];1
    <<59, 32, 91, 91, 93, 93, 32, 49, 49>>,        \*  ; [[]] 11
    <<91, 91, 91, 93, 93, 93>>,                    \* [[[]]]
    <<123, 97, 61, 49, 125, 123, 97>>,             \* {a=1}{a
    <<60, 97, 61, 35, 62, 35, 59, 35>>,            \* <a=#>#;#
    <<34, 59, 92, 34, 34, 59, 49>>,                \* ";\"";1
    <<49, 59, 37, 110, 97, 110, 59>>,              \* 1;%nan;
    <<49, 59, 37, 110, 49, 59>>,                   \* 1;%n1;
    <<49, 117, 49, 59, 49>>}                       \* 1u1;1

\* Fragments whose tokens, cut short, are taken for malformed ones.
Fragile == {
    <<45, 49, 59, 49>>,                            \* -1;1
    <<49, 101, 49>>,                               \* 1e1
    <<47, 42, 59, 42, 47, 49, 59, 49>>}            \* /*;*/1;1

\* Binary: records name their lengths, payload may look like separators, and a
\* length may promise more than the fragment or the ceiling holds.
Binary == {
    <<1, 4, 59, 59, 59, 2, 2>>,              \* a string ";;", then 1
    <<3, 59, 32, 59, 5, 4>>,                 \* a double of separators, true, false
    <<91, 4, 59, 6, 129, 1, 93, 59, 35>>,    \* a list of two items, #
    <<60, 1, 2, 97, 61, 35, 62, 123, 125>>,  \* attributes on an empty map
    <<91, 91, 5, 93, 93, 32, 10, 4>>,        \* depth 2, whitespace, false
    <<35, 59, 1, 130, 1, 97, 97>>,           \* #, a string of 65 bytes cut short
    <<35, 59, 1, 1, 97>>,                    \* a negative length
    <<2, 128, 2, 35>>, <<2, 128, 128, 35>>,  \* varints that are too long
    <<4, 59, 7, 5>>, <<1, 4, 32>>}           \* an unknown tag; a payload cut short

Fragments(texts) == [Text |-> texts, Binary |-> Binary]

\* The non-empty stretches of the strings in S.
Substrings(S) ==
    UNION {{SubSeq(s, i, j) : i \in 1..Len(s), j \in 1..Len(s)} : s \in S}

\* A table, since TLC would scan a stretch again in every state (@@ makes it
\* compute the table once).
Verdicts(texts, limits) ==
    [f \in {"Text", "Binary"} |->
        [t \in Substrings(Fragments(texts)[f]) \X limits |-> T!ScanValue(t[1], f, t[2])] @@ <<>>]
    @@ <<>>
=============================================================================
