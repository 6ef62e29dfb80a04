# yson-rs in TLA+

Specifications of the yson-rs crate (YSON text and binary: a tokenizer, a DOM, a
serde layer and a framer for list fragments), the TLC configurations that check
them on small instances, and proofs about them that TLAPS checks.  Every
definition is translated from the code under `src/src/`; the file `PROJECT.json`
says from which lines.

To run: `tlc -config X.cfg M` for a run of the table below, and `tlapm M.tla` for the
proofs, with `FrameReaderProofs`, `FramesProofs`, `DocumentProofs`,
`SerializerProofs`, `DeserializerProofs`, `DeserializerDocumentProofs`,
`TokenizerProofs` and `ScannerProofs` for `M`.

## 1. The system

| Component | Code | State | Operations | Hard part |
|---|---|---|---|---|
| **FrameReader** | `core/frames.rs:148-316` | a buffer with three cursors (`pos`, `filled`, `base_offset`), `input_done`, a depth limit and a record ceiling | three builders, `next_frame`, with a scan loop and `fill` (compact, grow, refuse, read, retry) inside it | records straddle reads; a read may be short, be interrupted or fail; the buffer moves and grows under the cursors; the end of the input is noticed one turn late |
| **Frames** | `core/frames.rs:52-125` | a slice, a cursor, `failed` | `with_max_depth`, `next` | the error is reported once; must agree with FrameReader |
| **Scanner** | `core/scan.rs` | none (a walk over tokens) | `scan_value_with_max_depth` | asked about prefixes: short, malformed and complete-so-far must be told apart |
| **Reader, tokenizer** | `core/reader.rs`, `core/token.rs` | a slice and a cursor | `next_token`, `skip_token`, `peek_byte`, `read_value` | two formats behind one interface; depth limit |
| **Varint** | `core/varint.rs` | none | `read_uvarint`, `read_varint`, encoder | the tenth byte; a prefix cut short |
| **Writer** | `core/writer.rs` | an output buffer that may hold earlier records | `write_value`, `write_token` | depth is counted differently from the reader; it fails with part of a value written |
| **Serializer** | `surface/ser.rs` | output, format, `is_writing_attributes`; per container `first`, its kind and a `StructState` | the calls serde's Serialize impls make | flattened attribute structs: fields arrive one by one and must fit one of three shapes |
| **Deserializer** | `surface/de.rs`, `surface/access.rs` | a reader, a recursion counter, `is_reading_attributes`; per container an access object | the calls serde's Visitors make | foreign visitors may read part of a container; the counter must balance |
| **WithAttributes** | `surface/attributes.rs` | attributes, value | a marker struct through both | a side channel between two components |
| **YsonValue** | `core/node.rs`, `surface/value.rs` | a tree | accessors, `visit_map`, `Serialize` | attributes flattened into map keys and back |
| **API, errors, formats** | `lib.rs`, `core/mod.rs`, `core/error.rs`, `core/format.rs` | none | convenience functions | none |

How they interact.  A framer calls the scanner on the unread part of its slice
or buffer and hands the bytes it names to the caller; the scanner drives the
tokenizer (`skip_token`, `peek_byte`); the caller decodes a frame with the value
reader or the deserializer, which drive the tokenizer again.  The serializer and
the writer produce what those read.  All calls are synchronous, with `&mut`
access, in one thread; the concurrency of this crate is that between a
FrameReader and its source, and between serde's callbacks and the state they
find.  Nothing is persisted.

What makes each part correct.

* Framing: every byte is handed out exactly once, in order, in the record it
  belongs to, whatever the source does; the end is reported only at the end; an
  error is not stepped over; memory stays below the ceiling; every call returns.
* Scanner: a verdict a framer acts on is final (a settled length, an error), and
  the decoder accepts what the scanner accepts, to the same byte.
* Writer, serializer: what is written is one well-formed value that reads back
  to what was given, for every order of calls serde may make, or an error.
* Deserializer: each container is consumed to its own terminator whatever the
  visitor does; counters and flags are back where they were when a value is done.
* YsonValue: the tree survives the flattened form.

The hazards, each at its line with the properties that watch it, are in
`PROJECT.json`.

## 2. The modules

| Module | Models | Uses |
|---|---|---|
| `Records` | separators, the scanner's verdict, what a framer asks of it, the history of a framer | parameter `Scan` |
| `FrameReader` | `FrameReader` | `Records` |
| `Frames` | `Frames` | `Records`, `Framing` |
| `Framing` | abstract: how a fragment that is known as a whole is cut | `Records` |
| `FrameReaderFraming` | the refinement `FrameReader => Framing` | `FrameReader`, `Framing` |
| `FrameReaderProofs` | theorems about FrameReader | `FrameReaderFraming` |
| `FramesProofs` | theorems about Frames | `Frames` |
| `FrameReaderClaims` | statements of the docs that FrameReader does not meet | `FrameReader` |
| `Input` | bytes, character classes, the two ways a walk over them fails | |
| `Varint` | both directions of both varints | `Input` |
| `Scanner` | tokenizer, `skip_token`, `scan_value`, both formats | `Varint` |
| `YsonValue` | the tree | |
| `Reader` | the values of tokens, escapes, `read_value` | `Scanner`, `YsonValue` |
| `Writer` | `Writer`, spelling by spelling, its walk over a tree, and the parts of a tree | `Reader` |
| `GrowingInput` | the scanner asked about every prefix of an input | `Scanner` |
| `DecodedInput` | what the reader makes of these prefixes and of the frames in them | `GrowingInput`, `Reader` |
| `RewrittenInput` | what was read, written again in either format | `DecodedInput`, `Writer` |
| `TokenizerProofs` | lemmas: where a token ends, and which bytes it depends on | `Scanner` |
| `ScannerProofs` | theorems about the scanner, and about the reader beside it | `DecodedInput`, `TokenizerProofs`, `Records` |
| `ValueSerde` | `YsonValue` through serde: what is written, and how it is rebuilt | `Writer` |
| `ValueStream` | trees written into one buffer, framed, and read back both ways | `ValueSerde` |
| `TypedSerde` | values of Rust types through serde | |
| `RoundTrip` | `to_vec`, then `from_slice`, for every value of a type | `TypedSerde` |
| `Document` | what a reader of tokens has open, and what may come next | |
| `Serializer` | `Serializer`, `Compound`, and `Serialize` of `WithAttributes` | `Document` |
| `Deserializer` | `Deserializer`, its access objects, and `Deserialize` of `WithAttributes` | `Document` |
| `DocumentProofs` | lemmas: what a token does to a document | `Document` |
| `SerializerProofs` | theorems about Serializer | `Serializer`, `DocumentProofs` |
| `DeserializerProofs` | theorems about the calls of Deserializer | `Deserializer`, `DocumentProofs` |
| `DeserializerDocumentProofs` | theorems about its calls and its document together | `DeserializerProofs` |
| `MC*` | instances for TLC; `MCFragments` puts `Scanner` in the place of `Scan` | |

### FrameReader

The variables are the fields of the struct (`buf`, `filled`, `pos`,
`base_offset`, `format`, `max_depth`, `max_record_bytes`, `input_done`), the
source (`stream`, `sent`), `pc` for where in a call the reader is, and three
history variables (`frames`, `answer`, `configured`).  A call of `next_frame` is
several steps, since the source acts in the middle of it:

| Action | Code |
|---|---|
| `WithBufferSize`, `WithMaxRecordBytes`, `WithMaxDepth` | the builders |
| `NextFrame` | the call |
| `Deliver`, `Malformed`, `Exhausted`, `NeedMore` | one turn of the loop of `next_frame_len` (249-276): separators are skipped, the scanner is asked, and the turn ends in a record, an error, the end of the input, or `fill` |
| `MakeRoom`, `RefuseRecord` | `fill` up to the read (280-299): compaction, then growth or refusal |
| `ReadSome`, `ReadNothing`, `ReadInterrupted`, `ReadFailed` | the read and its outcomes (301-313) |

A short read is `ReadSome` with any number of bytes; `Ok(0)` is possible when the
source has ended *or the slice it is given is empty*, as `Read` has it, so that a
full buffer would be taken for the end of the stream: that this does not happen
is part of the theorem `BufferCorrect` (`EndOfInputIsReal`).  The offset of an error inside the record and the wording
of errors are left out.

### Scanner

A token of the text or of the binary format is a kind, the offset behind it, and
whether it fails because the input ends (`eof`) or because it is malformed
(`bad`).  Like `skip_token`, `Scanner` steps over strings without decoding them.

`scan_one`, `scan_items` and `scan_pairs` call each other and themselves.  A `Call`
is one of these with its arguments; `ScanOne`, `ScanItems` and `ScanPairs` are what
such a call comes to, given what the calls it makes come to; and `Walks(s, ...)[n]`
has the results of all calls that have less than `n` others inside each other.
`ScanValue` asks for `MaxCalls(s)` of them, which always suffice (`MaxCallsSuffice`).
Loops over bytes are written in the same way or as the first place where they stop, so
that `Scanner` can be reasoned about, and so is `Reader`.  The operators of `Writer`,
`ValueSerde` and `TypedSerde` are recursive like the code, and TLC alone evaluates
them.

### Reader, Writer and the tree

`Reader` adds what `next_token` and `read_value` make of the same bytes: numbers of
`Int64Max` and `Uint64Max`, strings with their escapes decoded, and the tree.
`ReadValueAt`, `ReadNode`, `ReadItems` and `ReadPairs` translate `read_value` and
what it calls, and the scanner's operators translate `scan_one` and what it calls;
that the two agree is a property, and a theorem.  They are given what the calls
they make come to, as in the scanner: `Reads` has these results, of as many calls
inside each other as the scanner makes, which suffice too (`MaxCallsSufficeToRead`).  A double is its bytes; the table
`Spelling` says which decimal text goes with which bytes.  A tree (`YsonValue`) is
the enum of `node.rs` with one field per variant, and its maps are functions from
byte strings.

`Writer` is the other direction: how each scalar and string is spelled
(`IsSafeUnquoted`, `WriteQuoted` with the escapes it chooses), and `WriteValue`, which returns what is in the buffer also when the depth
limit refuses the tree part of the way.  `ValueSerde` follows a tree through the
`Serialize` impls, which choose between `serialize_str` and `serialize_bytes`, and
back through `deserialize_any`, `FlatStructAccess` and `visit_map`: the flattened
entries, one by one, into attributes, `$value` and a map (`Visit`, `VisitEnd`).

`ValueStream` composes them with framing.  `Write` and `Serialize` append a tree
and a `;` to one buffer; a tree that `Write` refuses leaves its beginning there and
ends the writing; `NextFrame` and `NoFrame` are `Frames::next` on that buffer, each
frame read with `Reader` and with `from_slice`.

### Types

`TypedSerde` keeps the values the two machines below leave out.  A type is a scalar,
an option, a newtype, a list, a tuple, a map, a struct (flat if it has `@`-fields or
a `$value`), an enum whose variants hold nothing, a value or a record, or a
`WithAttributes`.  `Ser(T, v, e)` are the tokens the derived `Serialize` of `T` has
`Serializer` write, with `is_writing_attributes` passed along as the field of the
struct is; `De(T, d)` is what the derived `Deserialize` gets from `Deserializer`
over those tokens, with `is_reading_attributes`.  `Collected` and `Under` stand for
derived visitors, which are not in this repository: a missing field is an error
unless its type is an `Option`, a field given twice is one, an unknown key is read
as `IgnoredAny`, and a newtype struct is built from a list of one.  Attributes may
stand behind others: `DeAny`, which is reached once a first list was stepped over,
hands a second to what takes a map as a flat struct's are (`DeFlat`).  `RoundTrip`
writes each value of each type and reads it as that type, as an `Option` of it,
without its attributes if these are one list, as a struct that lacks a field, or, a
list, as an array.

### Document

The serializer's output and the deserializer's input are not kept as bytes or
tokens but as a stack of open brackets, each with what it wants next (`first`,
`key`, `equals`, `value`, `node` behind attributes, `more`).  `Feed(d, t)` is the
document after one more token, or `Rejected`.  Brackets and separators go by their
names in `TokenKind`; a string, any other one-token value and `#` (`entity`) are
told apart, and their spelling is not.  It is translated from
`read_value_at`, `read_node` and `read_pairs`, with exactly one `;` between items,
where the reader takes any number, none included: what a serializer writes has to
pass the stricter test, and `Deserializer` loosens it (`Took`).

### Serializer

Variables: `output` (a `Document`), `is_writing_attributes`, and `stack`, the
compounds that are open, each with its mode, `first`, `StructState`, and where the
caller is in it.  The caller is serde's `Serialize` code, chosen freely step by
step within `Calls`, the kinds of value it may write as a key, as the attributes
of a `WithAttributes`, as a value that has attributes already, or elsewhere.  A
call that is handed a value (`serialize_field(k, v)`) is in progress while `v` is
written by calls of its own: it is one action up to there, and ends with the
value.  Of a compound's fields `fields`, `attributed` and `base` (how many brackets
were open when it began) are history: no guard reads them but those that say what
the caller does.

| Action | Code (`surface/ser.rs`) |
|---|---|
| `SerializeAtom` | every `serialize_*` that writes one token (109-178) |
| `SerializeSeq`, `SerializeTupleVariant`, `SerializeElement`, `SeqEnd` | lists and tuple variants, the three traits that share them (195-232, 415-452) |
| `SerializeNewtypeVariant`, `NewtypeVariantEnd` | before and behind its value (180-193) |
| `SerializeMap`, `SerializeKey`, `SerializeValue`, `MapEnd` | 234-248, 457-473 |
| `SerializeStruct`, `SerializeWrapper`, `SerializeStructVariant` | 250-288 |
| `StructField`, `RefuseField` | `write_struct_field` (345-409), by its three tables `Legal`, `Bracketed`, `NextState` |
| `NamedField`, `WrapperField`, `StructEnd` | the other modes of `serialize_field` and `end` (480-550) |
| `Separate`, `Abandon` | the caller goes on with the same serializer, or with a new one after an error |

`serialize_some` and `serialize_newtype_struct` hand their value on and leave no
trace.

### Deserializer

Variables: `consumed` (the `Document` read so far) and `ahead`, the next token,
which may be any that fits, or the end of a document cut short;
`is_reading_attributes`, `depth`, and `stack`, the access objects and the calls
that have more to do when a value is read; `asked`, the method about to be called.
The caller is serde's `Deserialize` code and its visitors, chosen freely within
`Asks`, the methods used for a key, the name of a variant, the attributes of a
`WithAttributes`, a body, or any other value.  A visitor of a list or map may stop
anywhere.

| Action | Code (`surface/de.rs`, `surface/access.rs`) |
|---|---|
| `AnyAtom`, `AnyContainer`, `AnyUnexpected`, `Mismatch` | `deserialize_any` and the methods that come to it (de 159-202); the visitor may refuse |
| `AnyAttributes`, `AnyNoAttributes` | the same with `is_reading_attributes` set (de 163-172, access 253-266) |
| `SkipAttributes`, `SkipToken`, `SkipEnd`, `SkipShort` | `skip_attributes`, token by token (de 119-138) |
| `OptionOfAttributes`, `OptionEnd`, `OptionNone`, `OptionSome` | `deserialize_option` (de 204-229) |
| `Wrapper`, `WrapperElement`, `WrapperEnd` | `AttributesWrapperAccess` (access 270-310) |
| `NextItem`, `Semicolon`, `ItemsOver`, `AdvanceToItem`, `NextValue` | `CommaSeparated` (access 317-392), one turn of its loop each |
| `VisitorReturns`, `CloseContainer` | the drop of the access, then `close_container` (de 79-117) |
| `Flat...` | `FlatStructAccess`, one turn of its loop each (access 39-170) |
| `Enum`, `UnitVariant`, `UnitContent`, `ContentVariant`, `Enum...` | `deserialize_enum` and `EnumAccess` (de 255-296, access 172-251) |
| `End`, `New` | `end`, and a new `Deserializer` |

## 3. The runs

| Run | Question | Instance |
|---|---|---|
| `reader` | is every stream cut as `Framing` says, whatever its source does, with all safety properties of the buffer; does every call return, and does a caller that goes on reach the end? | every text fragment of up to 3 bytes over five characters and of up to 4 over four of them, 9 longer ones, 11 binary ones; with fairness |
| `frames` | does the iterator over a slice cut the same way, report an error once and end? | as `reader` |
| `scan` | are the scanner's verdicts final, does the reader agree with them, does a frame decode alone, and is it the same when written again? | every input of up to 6 bytes over 16 alphabets of 5 bytes |
| `values` | is what Writer or serde writes of trees framed and read back as it was, whatever is refused on the way? | every scalar, every string of 2 bytes over 18 and of 3 over 7, trees three levels deep over keys that flattening gives a meaning; limits 0 to 2; two records |
| `types` | which types come back from `to_vec` and `from_slice`, and what happens to the others? | every type three levels deep of fifteen ways to build one from another, with every value of up to two items or keys |
| `serializer` | is what an orderly caller writes one well-formed value, with everything where it belongs? | four compounds deep, three fields to a struct, in any order |
| `deserializer` | is every value read to its end and no further, whatever is asked for and wherever visitors stop? | three brackets deep, depth limit 3 |
| `claim_*` | statements of the docs and tests the code does not meet | see section 6 |

Properties of `reader`: `BufferHoldsStream` (the buffer is a window on the
stream), `NothingLost` (records tile the stream), `EndMeansEverything`, `BufferIsBounded` (by the ceiling),
`BufferFollowsRecords` (by twice the largest record), `CeilingIsExclusive`
(only a record that reaches the ceiling is refused, and none that reaches it is
handed out, unless the buffer was asked to be longer than the ceiling),
`ErrorIsFinal`, and `ImplementsFraming`, the strongest: the same fragment is
cut into the same records, with the same answer at the end, as if it had been
there as a whole.  `EveryCallReturns` and `StreamIsDrained` are its liveness.

Properties of `scan`: `LengthIsSettled` and `FoundInTime` (a complete value with
a byte behind it stays as it is, and was found as soon as there was one),
`BinaryErrorIsNotShort`, `ScannerAndReaderAgree` (same acceptance, same end,
short and malformed told alike, at the depth limit too), `FramesDecode` (a frame
decodes on its own, to the value that is read with the rest of the input behind it),
and `Transcodes` (a value that was read, however it was spelled, is the same value
when it is written in either format and read again).  The two that compare scanner and
reader make one exception, a quoted string with a malformed escape, which the
scanner steps over and the reader rejects.

Properties of `values`: `ReadsBack` (each frame is the tree that was written, and
through serde that tree as flattening leaves it, with nothing left in it that serde
would take for a flattened one again), `FramesAreRecords` (a torn record
is taken for the start of one, never for one), `EncodersAgree` (Writer and serde
write the same bytes), `TextIsUtf8` (also in the middle of a refused tree),
and `LimitsNest` (how the four ways to count depth relate).

Properties of `types`: `RoundTrips` (every value of a `Faithful` type comes back,
readers that know less of it find what they know, and an array is read from a list
of its length only), `NoOtherTypeDoes` (`Faithful` rules out nothing without need)
and `NeverAnother` (an answer is a whole value of the type that was asked for, and
what does not come back is an error or lacks something: it never gains anything
but attributes that were written behind those it lost).
`Faithful` is the answer of the run:

* no newtype struct, anywhere;
* no `Option` of what may itself be `#` or may have attributes;
* no `$value` of what may be written as a map (an enum with content included), or
  as `#` unless it is an `Option`;
* but any `$value` with attributes in a struct that has `@`-fields, and none in one
  that has not, which takes them for its own;
* in `WithAttributes`, attributes that are a map or a struct without `@`-fields
  and `$value`, and any value, one with attributes of its own included.

Types that are not written as YSON at all are outside the run: attributes that are
neither a map nor a struct (`claim_none` has the case of an `Option`).  Two lists of
attributes in a row, which `tests/attribute_tests.rs:98` reads back, are in it.  They
are also the exception of `NeverAnother`: where an `Option`, or a struct with a
`$value` and no `@`-fields, stands in front of two lists (`Displaced`), it steps over
the first, and whoever wrote the first is given the second.

Properties of `serializer`: `OutputIsValid` (no token is ever out of place, and a
caller that is done has written one whole value), `FlagIsForAttributes` (the side channel between `WithAttributes` and
the map it redirects reaches nothing else), `ValuesLand` (an `@name` is in the
attributes, a plain field in the map behind them, a body behind its attributes)
and `RefusedOutOfOrder` (a struct is refused exactly when its fields are in no
order a document has).

Properties of `deserializer`: `InStep` (the brackets open in the document are
those that calls in progress have opened, so that no call ends in the middle of
its container or behind it, and a value that was read is read whole),
`AskedInPlace`, `FlagIsForAttributes` (attributes are read where they are asked
for, and only there), `DepthIsNesting` (the counter against the calls that
count), and `OnlyEnumsAreSurprised` (reading anything but an enum never trips over
a well-formed document).

The orderly callers of these two runs (`OrderlyCalls`, `OrderlyAsks`): keys are
strings or, when read, enums without content; the attributes of a `WithAttributes`
are a map or a struct that has no attribute fields of its own, or, when read, an
`Option` of these; no value is attributed twice when written; visitors of structs
and of `YsonValue` read to the end, and take each value they are given a key for.
What happens outside is in section 6; values that are attributed twice are in the
run `types`, since a document of these two machines is one the value reader takes.

### Bounds

| Code | Model | Why it is enough |
|---|---|---|
| default buffer 64 KiB, at least 64 bytes | 3, or 2, at least 1 | fragments are 2 to 3 buffers long, so that records straddle reads, buffers are compacted with something in front, and grow more than once |
| ceiling 256 MiB | 5, and 1 or 4 by the builder | above, at and below the buffer, and not a power of two times it, so that growth is capped |
| depth 128 | 2, and 1 by the builder | one list inside another is refused or accepted |
| `i64`, `u64` | maxima 127 and 255 (7 and 15 in `reader`, `frames`) | every number of the width is written and read in `values`; numbers of two and three digits are in and out of range, and so is the last byte of a varint |
| varints of 10 bytes | 2 | the last byte may overflow or go on too long |
| doubles of 8 bytes | 2 | cut short at each place |
| calls of the scanner, or of the reader, inside each other (none but the depth limit in the code) | `MaxCalls(s)`, `2 * Len(s) + 2` | a call is behind a byte that the call around it took, or is that of an item; `MaxCallsSuffice` and `MaxCallsSufficeToRead` prove that it is never felt |
| inputs | 6 bytes (`MaxLength`) | the longest token (`%true`-like words apart), a list of two items, a map entry, attributes on a value |
| strings | 2 or 3 bytes in `values` | an escape and the byte behind it, one and two characters of UTF-8, cut or whole |
| records in a buffer (`MaxRecords`) | 2 | a torn record behind a whole one |
| depth limits in `values` | 0 to 2, and 8 to read with | each kind of nesting is refused at one and accepted at the next |
| items and keys of a value in `types` | 0 to 2 | a separator, and none; too few, enough and too many for an array |
| nesting of types | 3 | each way to build a type inside each other, and that in a list, an option or a struct |
| nesting of compounds (none in the code) | 4 | one in each mode inside one in each other, with a value below; a struct remembers nothing of what is further out |
| fields of a struct | 3 | attribute, attribute, body, and every wrong order of the three kinds |
| brackets in a document read | 3 | attributes in a list in a map; a container in which a visitor stops early, inside another, with something behind it |
| depth limit of the deserializer, 128 | 3 | reached by wrappers, options and brackets together; brackets alone do not, so that `attr_depth` of `skip_attributes` stays below it |
| calls that open no bracket (`MaxOpen`) | 4 | Options and enums inside each other |

### Fairness

`Progress` is weak fairness of the code inside a call, which runs until it
returns, and of the outcomes of a read other than `Interrupted`: a source is not
interrupted for ever.  `LoopSpec` adds a caller that goes on calling (weak) and a
source that, asked again and again, does not always fail (strong, since a failed
read leaves the phase in which a read is enabled).  Nothing is assumed of how
many bytes a read brings.  For `Frames`, the caller goes on until it gets `None`.

`CHECK_DEADLOCK FALSE` stands only where an input has reached `MaxLength`.

## 4. The proofs

A theorem holds for every value of the constants: the bounds of the runs
(`MaxNesting`, `MaxFields`, `MaxLevels`, `MaxOpen`, sizes, streams) are arbitrary.
Every safety invariant and action property of `reader`, `frames`, `serializer` and
`deserializer` is a theorem, and so is every property of `scan` but `Transcodes`, for
inputs of every length over every alphabet and for every depth limit.

### Framing

| Theorem of `FrameReaderProofs` | Says |
|---|---|
| `TypeCorrect` | `[]TypeOK` |
| `BufferCorrect` | the buffer is a window on the stream, its cursors are in bounds, and an empty read is the end of the source |
| `MemoryIsBounded` | the buffer outgrows neither the ceiling nor the size asked for |
| `RecordsTileTheStream` | nothing is lost, repeated or split |
| `EndIsTheEnd` | `Ok(None)` only with everything handed out |
| `ReaderImplementsFraming` | `FrameReader` refines `Framing` |
| `CeilingDecides` | a record refused for its size reaches the ceiling, and one handed out does not, unless the buffer was asked to be longer |
| `ErrorsAreFinal` | an error of the stream is returned by every later call |
| `GrowthFollowsRecords` | the buffer is at most twice as long as a record, or as asked for |

| Theorem of `FramesProofs` | Says |
|---|---|
| `TypeCorrect` | `[]TypeOK` |
| `ErrorIsReturnedOnce` | `FailsOnce`: an error is the last thing the iterator yields, once |
| `FramesImplementsFraming` | `Frames` refines `Framing` too |

Assumptions: streams are byte strings (`StreamsAreByteStrings`), sizes are
naturals and the buffer is not empty (`SizesAssumption`: the code's
`with_buffer_size` never goes below 64 and the default is a constant), a complete
value is a non-empty prefix (`ScanInRange`); for `CeilingDecides`,
`GrowthFollowsRecords` and the refinement of `FrameReader` also that a verdict of the
scanner stands under longer input (`ScanStable`), and for that refinement that its
errors do (`ErrorStable`).
TLC evaluates all of them for the translated scanner on every run of a framer.  They
are assumptions since a framer is proved for any scanner; for the translated one,
`ScannerAnswersInRange` and `ScannerLengthsSettle` prove `ScanInRange` and
`ScanStable` of all streams of bytes, and `BinaryScannerErrorsStay` proves
`ErrorStable` of binary ones.  `ErrorStable` does *not* hold of text in which a
number or a comment may be cut short (section 6, `claim_chunks`); on such fragments
the refinement fails, and the fragments of `reader` avoid them.  So what the
theorems about FrameReader leave open is `ErrorStable` of its text streams.
`Frames` has the whole input before it, so that its theorems need no stability.

The argument.  No property is inductive alone.

* `BufferInv` = type, cursors in bounds, the buffer is a window on the stream, an
  empty read is the end.  The window needs the cursors (compaction copies
  `pos..filled`), the cursors need the window's arithmetic, and that
  `ReadNothing` means the end needs that `MakeRoom` leaves room, which holds
  since the buffer has at least one byte and doubles when full.
* `BoundInv` adds that a reader not yet called has the buffer it was given: the
  ceiling may be set after the buffer.
* `FramesInv` = tiles, end: separators stepped over in the buffer are separators
  of the stream by the window.
* `StuckInv`: after an error of the stream the reader's cursors stay such that
  the next call takes the same turn.
* `GrowthInv`: `BufferFollowsRecords` forgets why the buffer grew, and a short
  record might be handed out of a long buffer.  So the invariant remembers it:
  the buffer is as asked for, or twice a record handed out, or twice the `g` bytes
  it held when it last grew, on which the scanner could not settle.  By
  `ScanStable` the record that is found there later has at least `g` bytes.
* The refinement maps each turn of the loop to a step of `Framing`: by the
  window the slice given to the scanner is a stretch of the stream, and by
  stability the verdict on the stretch is the verdict on all that is left.
* `CeilingInv`: every record handed out is below the ceiling, or the buffer was asked
  to be longer; and once the input is over there is room left in the buffer, since
  the read that found nothing had some.  So a record handed out is always shorter
  than the buffer: either the input is over, or a byte follows it there.
* For `Frames`, `CursorInv`: between the last record and the cursor lie separators
  only, and an iterator that failed has said so.

### Scanner and reader

| Theorem of `ScannerProofs` | Says |
|---|---|
| `MaxCallsSuffice` | a walk that may make more calls inside each other comes to the same: the bound of the model is never felt |
| `VerdictInRange` | a verdict is one of the three, and a value found is a non-empty part of the input |
| `LengthIsSettledHolds` | once a byte follows a value, its length stays as it is |
| `FoundInTimeHolds` | a value with more than one byte behind it was found as soon as the first of them was there |
| `BinaryErrorIsNotShortHolds` | in binary, an error stays one under further input |
| `ScannerFindsRecordAlone` | the bytes of a record, scanned alone, are found to be that record |
| `ScannerAnswersInRange`, `ScannerLengthsSettle`, `BinaryScannerErrorsStay` | what `Records` and `FrameReaderFraming` assume of a scanner, for every stream of bytes (the last in binary) |
| `ReaderAgreesWithScanner` | of any bytes, `read_value` accepts what the scanner accepts, to the same byte, and tells short from malformed as it does; it may also reject a bad escape |
| `ScannerAndReaderAgreeHolds` | the same, of every prefix of a growing input |
| `MaxCallsSufficeToRead` | a reader that may make more calls inside each other reads the same value, or fails too, for the same reason unless there is a bad escape |
| `ReaderReadsRecordAlone` | the bytes of a record, read alone, are the value that is read with everything behind them, or are rejected with it |
| `FramesDecodeHolds` | every frame decodes on its own, whole, to that value |

Assumptions: the widths of varints and doubles are naturals (`VarintAssumption`,
`DoubleAssumption`), and inputs are made of bytes (`InputAssumption`); nothing is
assumed of their length, and the depth limit is any natural number.  `Reader` assumes
of the table of doubles that no two have one name (`SpellingAssumption`); no proof
needs it.

The argument.

* Induction.  The library's induction theorems take an operator, which the provers
  cannot instantiate.  `TokenizerProofs` begins with the same in terms of sets and
  functions, from the least element of a set of numbers (`LeastOf`): `Induct`,
  `InductDown`, and that a recursive function on numbers is what its definition
  says (`RecursionUp`, `RecursionDown`).
* Tokens.  Every token ends behind where it begins and inside the input, or fails
  (`SkipTokenInRange`).  Two inputs that share their first bytes have the same token
  wherever it ends in front of the last byte they share, or, if the second input
  ends there, with it (`PrefixesAgree`): a quoted string or a binary token is known
  by its own bytes, a word or a number by the byte that ends it.  In binary a
  malformed token is so by the bytes up to its fault (`BinaryPrefixesAgree`), which
  is what is false in text.
* Walks.  `Progress`: a call ends behind the next meaningful byte, or fails for
  want of one.  So the calls inside each other move forward, but for that of an
  item, which is where the 2 in `MaxCalls` comes from, and each call has a rank.
* Two walks, side by side.  `Agree(u, v, L, fails, fmt)` is what two inputs have in
  common: what is settled in `u`, that is, ends up to `L` or fails in one of the
  ways `fails`, is the same in `v`.  By induction over the rank, what is settled of
  a call in `u` is what it comes to in `v` (`WalksCorrespond`, from one lemma for
  each of the three functions and one for a node), in any walk with as many calls
  or more.  `MaxCallsSuffice` is the case of one input, `LengthIsSettled` and
  `FoundInTime` those of an input and a longer or a shorter one with nothing in
  `fails`, and `BinaryErrorIsNotShort` that with malformed results in it.
* The reader beside the scanner.  The reader's token is the scanner's with a value
  (`NextTokenIs`), or an escape in it is bad.  A result of the reader `Reaches` one
  of the scanner if it ends in the same place, or fails in the same way, or fails
  where an escape may be bad; `Follow` says so of every call of two walks with
  equally many calls inside each other.  One lemma for each of the four functions
  carries it from the calls they make to their own result, and `ReadsFollow` is the
  induction.  It needs `Progress` of the scanner, since the reader looks at a byte
  where the scanner takes a token.
* Two readers, of a record alone and with more behind it.  Where
  the scanner finds something, the reader may still reject an escape, and where it
  goes on is then not known from the reader.  So `Alike` has three walks, and says
  that whatever the scanner finds up to the end of the record, both readers make the
  same of it, be it a value or a rejection (`Copies`).  The tokens there have the
  same values (`NextTokensAgree`), since a word or a number is known by the byte
  behind it or by the end of the record, and the rest by its own bytes.
  `CopiesHold` is the induction; with `ReaderAgreesWithScanner` on either side it
  gives `ReaderReadsRecordAlone`.  With one input in both places it gives
  `MaxCallsSufficeToRead`.
* `BufferInv`, that the input is a string of bytes and `scanned` is its verdict,
  makes these facts about `GrowingInput` and `DecodedInput`.

### Serializer

| Theorem of `SerializerProofs` | Says |
|---|---|
| `TypeCorrect` | `[]TypeOK` |
| `OutputAlwaysValid` | no token is out of place, and a caller that is done wrote one whole value |
| `FlagStaysWithAttributes` | `is_writing_attributes` reaches the attributes of a `WithAttributes` and nothing else |
| `ValuesAlwaysLand` | `@name`s among attributes, plain fields in the map, a body behind its attributes |
| `RefusedIffOutOfOrder` | a struct is refused exactly when its fields come in no order a document has |

All are of *orderly callers* (`OrderlyCallers`), as the run is: keys are strings,
attributes are a map or a struct, no value is attributed twice.  It is a hypothesis
of the theorems and not an assumption on the constants, since the module is also
run with other callers, of whom `OutputIsValid` does not hold (`claim_none`).  The
callers of `serializer` meet it.

The argument.  Output and stack are told apart by `base`.  `Bracketing`: each
compound has its own levels of the output open, from its `base`, of the kinds it
will close.  `Calling`: every compound but the innermost is in the middle of a call
that was handed a value, and a map is written between `<` and `>` just where a
`WithAttributes` asked for it.  `Fits`: the innermost level wants what the innermost
compound writes next, which for a struct depends on `StructState`, on the fields
given and on whether attributes are in front of it.  When a compound ends, the level
below has its value and wants what the compound below goes on with, for each of the
nine modes it may have (`Behind`, `After`).  A field that is refused leaves all this
one step behind (`Refused`); that the order of fields is then one that no document
has (`IllegalOutOfOrder`), and is not otherwise (`LegalFits`), comes from what each
`StructState` says of the fields given so far (`FieldsFit`).

### Deserializer

| Theorem | Says |
|---|---|
| `TypeCorrect` (`DeserializerProofs`) | `[]TypeOK` |
| `DepthAlwaysNesting` | the recursion counter is the number of calls in progress that count, below the limit |
| `FlagStaysWithAttributes` | `is_reading_attributes` is set just while the attributes of a `WithAttributes` are asked for |
| `CallsStayInStep` (`DeserializerDocumentProofs`) | `InStep`: calls in progress and open brackets match, and a value that was read was read whole |
| `AlwaysAskedInPlace` | a key is asked for where a key is, a value where a value is |
| `NothingElseIsSurprised` | only an enum finds a token out of place |

`TypeCorrect` and `DepthAlwaysNesting` hold of every caller and every input.  The
others are of orderly callers, who use for a key `deserialize_any`, a typed method or
an enum, for the name of a variant a typed method, for the attributes of a
`WithAttributes` any of these but an enum, or an `Option`, and anything elsewhere
(`OrderlyCallers`, met by `OrderlyAsks`).  The last three also ask that items be
separated (`Separated`), as the grammar has it: without a `;` an enum drops too much
and `InStep` is false, which `claim_enum` shows.

The argument.  A stack is its last frame on top of the others, and each action
pushes, changes or pops that frame.

* `CallsInv`: each frame has a turn that its access object can have (`Shaped`), all
  but the last wait for a value (`Waiting`), the last one does if a value is asked
  for, and the counter is the number of frames that count (`Counting`).
* `FlagInv`: what is asked for is a method of the slot the last frame asks in, the
  flag is set just when that slot is the attributes of a `WithAttributes`, and no
  skipping began there.
* `DocumentInv`: the frames have the brackets they opened, in order (`Matches`),
  and the innermost of them is the innermost of the document (`Reach`).  What is in
  each place is of a kind that may be there (`Suited`), so that it is known what the
  frame below goes on to read when a value ends (`WasRead`): behind the attributes
  of a `WithAttributes` a node, behind a key a `=`, elsewhere the end of an item.
  While a frame has the turn, the innermost level wants, and the next token is, what
  that frame goes on with in each of its states (`TurnFits`); while something is
  asked for, it is there (`IsThere`).  While attributes are skipped the frames match
  the levels below those that are skipped, and `attr_depth` is the number of
  attribute levels among these (`Discarding`), not of all brackets: a list inside
  is stepped over without being counted, and the skipping still ends at the right
  `>`, since a `>` inside a list cannot come.
* `InStep` needs all of this: that a container is closed by its own bracket follows
  from `Matches`, that nothing else was read in it from `TurnFits`, and that the
  visitor of an enum leaves no more than one `;` in its map from `EnumFits`.

The invariants of these three proofs were model-checked on the runs' instances
before they were proved.

### Only model-checked

Liveness (`EveryCallReturns`, `StreamIsDrained`, `Ends`), which needs `ENABLED`.

What the writer, value trees and types compute (`Transcodes`, and the invariants of
`values` and `types`): they are `RECURSIVE` operators, over trees and types, which the provers
have no access to.  They are round trips (`Transcodes`, `ReadsBack`, `RoundTrips`)
or compare two encoders of the same tree (`EncodersAgree`, `LimitsNest`), so that
their proofs would be inductions over trees, or over types.  Of the reader's side of
them, that a record is read alone as it is in its buffer is proved above.

## 5. Not modelled

* Builders called between two calls are outside `Spec` (in `LateSpec` for
  `with_buffer_size`, see `claim_late`); `into_inner` gives the source back and
  ends the reader's life.
* Error offsets and messages, and whether bytes are borrowed or owned.
* How the digits of a double and its bits correspond (`ryu`, `str::parse`): a table
  of a few stands for it.
* `write_token` and the other one-token calls of `Writer`, which append what
  `WriteScalar` and `Enclosed` say; `to_string`, which is `to_vec` with a check that
  cannot fail on text (`TextIsUtf8`, for trees).
* Errors of foreign `Serialize` code, and keys that are not strings.
* What a caller does with a Deserializer after an error, which leaves its counter
  as it is; visitors that take a variant's name and leave its content.
* In `types`: depth limits, `serde(flatten)`, `serde(default)` and other attributes
  than `rename`, and documents that were not written by this crate (those are the
  inputs of `deserializer`, without values).
* Accessors of `node.rs`, re-exports, benches, examples, fuzz drivers.

## 6. Where documentation and code part

| Run | Document | Code |
|---|---|---|
| `claim_chunks` | `frames.rs:439`: every chunk size must agree; `scan.rs:40`: no further input can fix an error | a text number or comment cut by a read (`-`, `1e`, `/`) is malformed |
| `claim_comment` | `frames.rs:18`, `frames.rs:233`: the stream fails if it ends inside a record | a comment behind the last record is taken for the start of one |
| `claim_late` | `frames.rs:185`: sets the buffer size | between two calls it drops buffered bytes and leaves the cursors outside the buffer |
| `claim_none` | `struct_shape_tests.rs:11`: everything emitted is readable | attributes that are `None` are written as `#` in front of the value, and the value, if it is a map, between `<` and `>` |
| `claim_enum` | `de.rs:76`: whoever opens a container closes it, and a container longer than what was read is an error | an enum drops what is left of its map without counting brackets: `{A=# b=#}`, without a `;`, is read as `A`, and in `{A=# b={c=d}}` the inner `}` ends the enum |

These have no run of their own:

* `frames.rs:193` says that records larger than the ceiling are refused, and
  `frames.rs:233` those that exceed it.  Both ways the code parts from it: a record
  of *exactly* `max_record_bytes` is refused, and the error says that it exceeds the
  limit, since the scanner's word is not taken while the record ends where the
  buffer does (`frames.rs:259`) and `fill` gives up before it would read the byte
  behind it, or find none (`frames.rs:291`); and the ceiling is looked at only when
  the buffer is full, so that a larger record is handed out if the buffer was asked
  to be longer.  `CeilingIsExclusive` says what holds, and `CeilingDecides` proves it.
* `scan.rs:265`, a test, has the scanner and the reader accept the same; the
  scanner does not look at escapes.  It is the exception in `ScannerAndReaderAgree`
  and `FramesDecode`.
* `node.rs:34` tells a value without attributes from one with empty ones; through
  serde `<>1` is read as `1`, and `<>#` as an empty map.  `<a=b>{}` is read as
  `<a=b>#`, which `value.rs:200` says.  `Flattened` is exactly what is lost.
* `lib.rs:177` has `to_vec` fail when a depth limit is exceeded; the serializer has
  none, so it writes what the reader's limit refuses.
* `attribute_tests.rs:98` has a `WithAttributes` inside another come back, and it
  does (`RoundTrips`); `coverage_tests.rs:413` reads two lists of attributes in a row
  as those of one `YsonValue`.  But what is written so, `<a=1><b=2>3`, is no YSON to
  the value reader, nor a record to the framers: both reject the second `<`.  And a
  typed reader that does not care for attributes steps over one list only
  (`de.rs:119`): an integer is not read from it, and a map is given `@b` and `$value`
  for keys.
* A newtype struct is written as its content (`ser.rs:162`) and read by
  `deserialize_any` (`de.rs:322`), whose visitor is handed the content and takes
  only a list of one: `struct Id(u64)` is never read back.  `Some` of a
  `WithAttributes` or of a struct with `@`-fields loses the attributes without an
  error (`de.rs:217`), and a `$value` that is a map is read as plain fields
  (`access.rs:119`).  `NoOtherTypeDoes` has them all.

## 7. Plan

1. Framing and scanner (done), with proofs for both framers.
2. Serializer and deserializer as machines (done, with proofs).
3. Writer, value reader, value trees through serde, and their composition with
   framing (done, model-checked).
4. Round trips of types (done, model-checked).
5. Proofs of every safety property of the framers, the serializer and the
   deserializer (done).
6. Proofs that the scanner is what the framers take it for (done).
7. Proofs that the reader accepts what the scanner accepts, and reads a frame as it
   reads the buffer (done).

Left: the writer as functions on the depth of a tree, and with it a proof of
`Transcodes`; an abstract specification of the deserializer's callers, who see
values and not tokens.
