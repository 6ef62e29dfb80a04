---------------------------- MODULE ValueStream ----------------------------
(***************************************************************************)
(* A list fragment of value trees: a program writes trees into one buffer, *)
(* with Writer or through serde, a `;` behind each, truncates what a       *)
(* refused tree has left, and another frames the buffer and decodes each   *)
(* frame, with Reader and through serde.                                   *)
(***************************************************************************)
EXTENDS ValueSerde
LOCAL INSTANCE SequencesExt

CONSTANTS
    First, Later, \* the trees that may be written as first and as later records
    MaxRecords,   \* bound on the records of a buffer
    Limits,       \* depth limits that Writer is given
    MaxDepth      \* DEFAULT_MAX_DEPTH, and the limit of Deserializer

VARIABLES
    format,
    out,          \* the buffer
    written,      \* the trees written, in order
    torn,         \* a tree that was refused, part of which is in the buffer
    pos,          \* Frames: how far it has got, ...
    frames,       \* ... the frames, and what is read from each, ...
    stopped       \* ... and the scanner's last verdict, if it has failed

vars == <<format, out, written, torn, pos, frames, stopped>>

Init ==
    /\ format \in Formats
    /\ out = <<>> /\ written = <<>> /\ torn = None
    /\ pos = 0 /\ frames = <<>> /\ stopped = "no"

\* The program goes on writing before anything is read.
MayWrite == torn = None /\ Len(written) < MaxRecords /\ frames = <<>> /\ stopped = "no"

Candidates == IF written = <<>> THEN First ELSE Later

Accepted(value, bytes) ==
    /\ written' = Append(written, value)
    /\ out' = out \o bytes \o <<SEMI>>
    /\ UNCHANGED torn

Refused(value, bytes) ==
    /\ torn' = Some(value)
    /\ out' = out \o bytes
    /\ UNCHANGED written

Write ==
    /\ MayWrite
    /\ \E value \in Candidates, max \in Limits :
          LET w == WriteValue(value, format, max)
          IN  IF w.ok THEN Accepted(value, w.out) ELSE Refused(value, w.out)
    /\ UNCHANGED <<format, pos, frames, stopped>>

\* Serializer::with_buffer on the same buffer.
Serialize ==
    /\ MayWrite
    /\ \E value \in Candidates : Accepted(value, SerializeValue(value, format))
    /\ UNCHANGED <<format, pos, frames, stopped>>

-----------------------------------------------------------------------------
(* The buffer is framed by Frames. *)
\* skip_separators
Start == RunEnd(out, pos, {SEMI} \cup Whitespace)

Rest == Slice(out, Start, Len(out))

Decoded(frame) ==
    [bytes  |-> frame,
     reader |-> ReadValue(frame, format, MaxDepth),
     serde  |-> FromSlice(frame, format, MaxDepth)]

NextFrame ==
    /\ stopped = "no" /\ Start < Len(out)
    /\ LET scanned == ScanValue(Rest, format, MaxDepth)
       IN  /\ scanned.kind = "complete"
           /\ frames' = Append(frames, Decoded(Slice(Rest, 0, scanned.len)))
           /\ pos' = Start + scanned.len
    /\ UNCHANGED <<format, out, written, torn, stopped>>

NoFrame ==
    /\ stopped = "no" /\ Start < Len(out)
    /\ LET scanned == ScanValue(Rest, format, MaxDepth)
       IN  /\ scanned.kind # "complete"
           /\ stopped' = scanned.kind
    /\ UNCHANGED <<format, out, written, torn, pos, frames>>

Next == Write \/ Serialize \/ NextFrame \/ NoFrame

Spec == Init /\ [][Next]_vars

-----------------------------------------------------------------------------
(* What is written is what is read. *)

\* A tree serde cannot take for a flattened one.
OrdinaryKey(key) == ~IsAttributeKey(key) /\ key # DollarValue
Ordinary(v) ==
    \A u \in Subtrees(v) : Is("Map", u.node) => \A key \in DOMAIN u.node.Map : OrdinaryKey(key)

\* Flattening loses attributes that are empty, and whether attributes stand
\* before an empty map or before nothing.
RECURSIVE Flattened(_)
Flattened(v) ==
    LET each(entries) == [key \in DOMAIN entries |-> Flattened(entries[key])]
        node == CASE Is("List", v.node) ->
                        List([i \in DOMAIN v.node.List |-> Flattened(v.node.List[i])])
                  [] Is("Map", v.node) -> Map(each(v.node.Map))
                  [] OTHER -> v.node
    IN  CASE v.attributes = None -> Plain(node)
          [] v.attributes = Some(Empty) -> Plain(IF node = Entity THEN Map(Empty) ELSE node)
          [] OTHER -> Attributed(Some(each(The(v.attributes))),
                                 IF node = Map(Empty) THEN Entity ELSE node)

\* A tree read through serde has neither empty attributes nor a key that would
\* be flattened, so that it changes no more when it is passed on, an empty map
\* behind attributes apart.
Settled(v) == Ordinary(v) /\ \A u \in Subtrees(v) : u.attributes # Some(Empty)

\* The tree read from a frame is the tree written as that record, whichever of
\* the two wrote it; read through serde, it is that tree as flattening leaves it,
\* and if serde takes it for a flattened one, still a tree that is settled.
ReadsBack ==
    \A i \in DOMAIN frames :
        LET whole(value) == Got("Value", Len(frames[i].bytes), value)
        IN  /\ frames[i].reader = whole(written[i])
            /\ Ordinary(written[i]) => frames[i].serde = whole(Flattened(written[i]))
            /\ ~Failed(frames[i].serde) => Settled(frames[i].serde.value)

\* Framing finds the records that were written and no others, to the end of the
\* buffer: what a refused tree has left in it is taken for the start of a record.
FramesAreRecords ==
    /\ Len(frames) <= Len(written)
    /\ Start = Len(out) => Len(frames) = Len(written) /\ torn = None
    /\ stopped # "no" => Len(frames) = Len(written) /\ torn # None /\ stopped = "incomplete"

\* Writer and serde write the same bytes.
EncodersAgree ==
    torn = None =>
        out = FlattenSeq([i \in DOMAIN written |-> SerializeValue(written[i], format) \o <<SEMI>>])

\* Text output is UTF-8, whatever the strings and keys hold and wherever a tree
\* was given up.
TextIsUtf8 == format = "Text" => Utf8(out)

Succeeds(r) == ~Failed(r)

\* The depth limits of the two that read and the two that write, which count
\* differently: what Reader takes at a limit, Writer writes, what Writer writes,
\* Reader takes with one more, and serde takes no more than Reader, and at twice
\* the limit no less.
LimitsNest ==
    (written # <<>> /\ frames = <<>> /\ torn = None) =>
        LET value == written[Len(written)]
            bytes == SerializeValue(value, format)
        IN  \A m \in Limits :
                /\ Succeeds(ReadValue(bytes, format, m)) => WriteValue(value, format, m).ok
                /\ WriteValue(value, format, m).ok => Succeeds(ReadValue(bytes, format, m + 1))
                /\ Succeeds(FromSlice(bytes, format, m)) => Succeeds(ReadValue(bytes, format, m))
                /\ (Ordinary(value) /\ Succeeds(ReadValue(bytes, format, m)))
                      => Succeeds(FromSlice(bytes, format, 2 * m))
=============================================================================
