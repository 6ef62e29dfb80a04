--------------------------- MODULE RewrittenInput ---------------------------
(***************************************************************************)
(* What was read is written again: every value found in a growing input,   *)
(* in both formats.                                                        *)
(***************************************************************************)
EXTENDS DecodedInput, Writer

Named(v) == Is("Double", v.node) => v.node.Double \in DOMAIN Spelling

ReadsAs(v, bytes, fmt) ==
    ReadValue(bytes, fmt, MaxDepth) = Got("Value", Len(bytes), v)

Rewrites(r) ==
    (~Failed(r) /\ \A v \in Subtrees(r.value) : Named(v)) =>
        \A fmt \in Formats : ReadsAs(r.value, WriteValue(r.value, fmt, MaxDepth).out, fmt)

\* However a value was spelled in its frame, it is the same value when it is
\* written again, in either format, and read back.
Transcodes == scanned.kind = "complete" => Rewrites(Read(Frame))
=============================================================================
