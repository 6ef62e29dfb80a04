----------------------------- MODULE MCScanner -----------------------------
(***************************************************************************)
(* Both formats, a few bytes at a time.                                    *)
(***************************************************************************)
EXTENDS RewrittenInput

\* 1.1, -1.1 and nan.
MCSpelling ==
    (<<1, 0>> :> <<49, 46, 49>>) @@ (<<1, 59>> :> <<45, 49, 46, 49>>)
      @@ (<<93, 7>> :> <<110, 97, 110>>)

In(format, sets) == {[format |-> format, bytes |-> b] : b \in sets}

TextAlphabets == {
    {49, 59, 91, 93, 32},          \* 1 ; [ ] and space
    {97, 59, 61, 123, 125},        \* a ; = { }
    {97, 35, 61, 60, 62},          \* a # = < >
    {91, 125, 62, 93, 97},         \* [ } > ] a
    {37, 110, 97, 45, 34},         \* % n a - "
    {49, 50, 117, 43, 34},         \* 1 2 u + "
    {49, 45, 46, 101, 59},         \* 1 - . e ;
    {34, 92, 120, 52, 103},        \* " \ x 4 g
    {34, 92, 55, 49, 110},         \* " \ 7 1 n
    {47, 42, 35, 10, 34}}          \* / * # newline "

\* Payload bytes and varint bytes double as structure: a length of two counts
\* the `;` and `[` behind it as data.
BinaryAlphabets == {
    {1, 2, 4, 59, 91},             \* string, int64, false ; [
    {1, 0, 61, 123, 125},          \* string, empty length, = { }
    {1, 4, 61, 60, 62},            \* string, false, = < >
    {6, 129, 3, 91, 93},           \* varints of two bytes, double, list
    {32, 47, 5, 10, 59},           \* what text would skip
    {1, 2, 93, 62, 7}}             \* terminators out of place, an unknown tag

MCAlphabets == In("Text", TextAlphabets) \cup In("Binary", BinaryAlphabets)
=============================================================================
