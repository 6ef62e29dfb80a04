------------------------------ MODULE Document ------------------------------
(***************************************************************************)
(* What the value reader makes of tokens as they are written: the brackets *)
(* that are open and what may come next in the innermost one.  A list      *)
(* fragment is a sequence of values, a value is attributes, if any, and    *)
(* then exactly one node.                                                  *)
(*                                                                         *)
(* Stricter than the reader in one point: items are separated by one `;`,  *)
(* where the reader takes any number of them.                              *)
(***************************************************************************)
EXTENDS Naturals, Sequences

\* A string, and every other value that is one token.
Atoms == {"string", "scalar", "entity"}

\* The brackets and separators, [ ] { } < > = ; by the names of TokenKind.
Closing == {"EndList", "EndMap", "EndAttributes"}

Tokens == Atoms \cup Closing \cup
    {"BeginList", "BeginMap", "BeginAttributes", "KeyValueSeparator", "ItemSeparator"}

Kinds == {"fragment", "list", "map", "attributes"}

\* "first": nothing inside the bracket yet; "node": attributes were read.
Wants == {"first", "key", "equals", "value", "node", "more"}

Level == [kind : Kinds, want : Wants]

Document == Seq(Level)

NewFragment == <<[kind |-> "fragment", want |-> "value"]>>

\* What is left of a document in which a token was out of place.
Rejected == <<>>

-----------------------------------------------------------------------------
Innermost(d) == d[Len(d)]

Outside(d) == SubSeq(d, 1, Len(d) - 1)

Expect(d, want) == [d EXCEPT ![Len(d)].want = want]

Bracket(t) == CASE t \in {"BeginList", "EndList"} -> "list"
                [] t \in {"BeginMap", "EndMap"} -> "map"
                [] t \in {"BeginAttributes", "EndAttributes"} -> "attributes"

Paired(l) == l.kind \in {"map", "attributes"}

TakesKey(l) == l.want = "key" \/ (l.want = "first" /\ Paired(l))

TakesNode(l) == l.want \in {"value", "node"} \/ (l.want = "first" /\ ~Paired(l))

TakesAttributes(l) == TakesNode(l) /\ l.want # "node"

\* The innermost bracket may be closed.
Closable(l) == l.want \in {"first", "more"}

Feed(d, t) ==
    IF d = Rejected THEN Rejected
    ELSE LET l == Innermost(d) IN
         CASE t = "string" /\ TakesKey(l) -> Expect(d, "equals")
           [] t \in Atoms /\ TakesNode(l) -> Expect(d, "more")
           [] t \in {"BeginList", "BeginMap"} /\ TakesNode(l) ->
                 Append(d, [kind |-> Bracket(t), want |-> "first"])
           [] t = "BeginAttributes" /\ TakesAttributes(l) ->
                 Append(d, [kind |-> "attributes", want |-> "first"])
           [] t \in Closing /\ Closable(l) /\ l.kind = Bracket(t) ->
                 Expect(Outside(d), IF t = "EndAttributes" THEN "node" ELSE "more")
           [] t = "KeyValueSeparator" /\ l.want = "equals" -> Expect(d, "value")
           [] t = "ItemSeparator" /\ l.want = "more" ->
                 Expect(d, IF Paired(l) THEN "key" ELSE "value")
           [] OTHER -> Rejected

\* A fragment that ends with a whole value.
Whole == <<[kind |-> "fragment", want |-> "more"]>>
=============================================================================
