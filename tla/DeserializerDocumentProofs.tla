--------------------- MODULE DeserializerDocumentProofs ---------------------
(***************************************************************************)
(* Theorems about Deserializer and its document, for every nesting, every  *)
(* depth limit and all orderly callers: the calls in progress and the      *)
(* brackets that are open are in step, and what is asked for is there.     *)
(*                                                                         *)
(* The frames of the stack have the brackets they opened, in order         *)
(* (Matches), each is of a kind that its place has (Suited), and the       *)
(* innermost level wants, and the next token is, what the innermost frame  *)
(* goes on to read (Reading).  DeserializerProofs says the rest.           *)
(***************************************************************************)
EXTENDS DeserializerProofs

\* Items are separated, as the grammar has it.
Separated == ~Unseparated

-----------------------------------------------------------------------------
Opened(f) == IF Holds(f) = "nothing" THEN 0 ELSE 1

\* The number of levels in the document down to the last bracket of s.
Reach(s) == 1 + Held(s, Len(s))

\* The frames of s have their brackets among the levels of d, in order.
Matches(s, d) ==
    /\ d[1].kind = "fragment"
    /\ \A i \in 1..Len(s) :
          Holds(s[i]) # "nothing" => d[1 + Held(s, i)].kind = Holds(s[i])

\* The frames there are in each place: a key that is not read at once is an enum
\* without content, and the attributes of a WithAttributes are read as such.
Suits(slot, f) ==
    /\ CASE slot = "key" -> f.access = "enum" /\ ~f.is_map_wrapped
         [] slot = "variant" -> f.access = "skip"
         [] slot = "attributes" -> f.access \in {"attributes", "option"}
         [] OTHER -> f.access \notin {"attributes", "option"}
    /\ (f.access = "enum" /\ f.turn = "value") => f.is_map_wrapped

Suited(s) ==
    \A i \in 1..Len(s) : Suits(IF i = 1 THEN "plain" ELSE SlotOf(s[i - 1]), s[i])

\* What a frame f in this slot asks for: a key, a key that is behind the bracket of
\* an enum, or a node.
PlaceOf(slot, f) ==
    CASE SlotOf(f) = "key" -> "key"
      [] SlotOf(f) = "variant" ->
            IF f.is_map_wrapped THEN "name" ELSE IF slot = "key" THEN "key" ELSE "node"
      [] OTHER -> "node"

Place(s) == IF s = <<>> THEN "node" ELSE PlaceOf(SlotIn(Front(s)), Last(s))

\* The next token does not belong to the brackets around it.
Ready(t) == t \notin Closing \cup {"ItemSeparator"}

IsNode(l, t) == TakesNode(l) /\ Ready(t)

IsKey(l, t) == TakesKey(l) /\ t = "string"

\* What is asked for is there.
IsThere(place, l, t) ==
    CASE place = "key" -> IsKey(l, t)
      [] place = "name" -> TakesKey(l)
      [] place = "node" -> IsNode(l, t)

\* It was read: behind the attributes of a WithAttributes comes its body.
WasRead(s, l, t) ==
    IF SlotIn(s) = "attributes" THEN IsNode(l, t)
    ELSE l.want = IF Place(s) = "node" THEN "more" ELSE "equals"

\* What the innermost frame goes on with is there.
FlatFits(f, l, t) ==
    IF f.turn = "keyed"
    THEN IF f.is_value_only THEN IsNode(l, t) ELSE l.want = "equals"
    ELSE CASE f.state \in {"Attributes", "Body"} -> Closable(l)
           [] f.state = "Between" -> l.want = "node"
           [] f.state = "ValueOnly" -> IsNode(l, t)
           [] f.state = "Done" -> l.want = "more"

EnumFits(slot, f, l) ==
    IF f.is_map_wrapped
    THEN l.want = CASE f.turn = "tagged" -> "equals"
                    [] f.turn = "unit" -> "value"
                    [] f.turn = "closing" -> "more"
                    [] f.turn = "last" -> "first"
    ELSE l.want = IF slot = "key" THEN "equals" ELSE "more"

TurnFits(slot, f, l, t) ==
    CASE f.access \in Containers ->
            IF f.turn = "keyed" THEN l.want = "equals" ELSE Closable(l)
      [] f.access = "flat" -> FlatFits(f, l, t)
      [] f.access = "wrapper" -> IF f.count = 2 THEN l.want = "more" ELSE IsNode(l, t)
      [] f.access = "option" -> IsNode(l, t)
      [] f.access = "enum" -> EnumFits(slot, f, l)

\* A frame f on top of b, which opened the innermost bracket if it opened one.
OnTop(b, f, d) ==
    /\ Suited(b) /\ Suits(SlotIn(b), f)
    /\ Matches(b, d) /\ Len(d) = Reach(b) + Opened(f)
    /\ Holds(f) # "nothing" => Innermost(d).kind = Holds(f)

Reading(s, d, a, t) ==
    /\ Suited(s) /\ Matches(s, d) /\ Len(d) = Reach(s)
    /\ IF a = "nothing" THEN TurnFits(SlotIn(Front(s)), Last(s), Innermost(d), t)
                        ELSE IsThere(Place(s), Innermost(d), t)

\* Behind the frames b attributes are skipped, up to a node; the first level that
\* is skipped is one of attributes, as are count of them.
Skipped(d, n) == {i \in (n + 1)..Len(d) : d[i].kind = "attributes"}

Discarding(b, f, d) ==
    /\ Suited(b) /\ Matches(b, d) /\ Place(b) = "node"
    /\ Len(d) > Reach(b) /\ d[Reach(b) + 1].kind = "attributes"
    /\ f.count = Cardinality(Skipped(d, Reach(b)))

DocumentInv ==
    /\ status = "reading" =>
          IF IsSkip(stack) THEN Discarding(Front(stack), Last(stack), consumed)
                           ELSE Reading(stack, consumed, asked, ahead)
    /\ status \in {"read", "ended"} => consumed = Whole
    /\ OnlyEnumsAreSurprised

IInv == CallsInv /\ FlagInv /\ DocumentInv

-----------------------------------------------------------------------------
(***************************************************************************)
(* What the definitions above say of a frame f on top of b.                *)
(***************************************************************************)
Holding(s, n) == {i \in 1..n : Holds(s[i]) # "nothing"}

LEMMA HoldingFinite ==
    ASSUME NEW s, NEW n \in Nat
    PROVE  /\ IsFiniteSet(Holding(s, n)) /\ Held(s, n) = Cardinality(Holding(s, n))
           /\ Held(s, n) \in Nat
<1>1. IsFiniteSet(1..n)
  BY FS_Interval
<1>2. IsFiniteSet(Holding(s, n))
  BY <1>1, FS_Subset DEF Holding
<1> QED
  BY <1>2, FS_CardinalityType DEF Held, Holding

LEMMA HeldGrows ==
    ASSUME NEW s, NEW m \in Nat, NEW n \in Nat, m <= n
    PROVE  Held(s, m) <= Held(s, n)
<1>1. Holding(s, m) \subseteq Holding(s, n)
  BY DEF Holding
<1>2. Cardinality(Holding(s, m)) <= Cardinality(Holding(s, n))
  BY <1>1, HoldingFinite, FS_Subset
<1> QED
  BY <1>2, HoldingFinite

LEMMA HeldPush ==
    ASSUME NEW b \in Seq(Access), NEW f \in Access
    PROVE  /\ \A i \in 1..Len(b) : Held(Append(b, f), i) = Held(b, i)
           /\ Held(Append(b, f), Len(b) + 1) = Held(b, Len(b)) + Opened(f)
<1> DEFINE s == Append(b, f)
           n == Len(b)
<1>1. n \in Nat /\ s[n + 1] = f /\ \A i \in 1..n : s[i] = b[i]
  BY Pushed
<1> HIDE DEF s
<1>2. ASSUME NEW i \in 1..n PROVE Held(s, i) = Held(b, i)
  <2>1. \A j \in 1..i : s[j] = b[j]
    BY <1>1
  <2>2. {j \in 1..i : Holds(s[j]) # "nothing"} = {j \in 1..i : Holds(b[j]) # "nothing"}
    BY <2>1
  <2> QED
    BY <2>2 DEF Held
<1>3. Held(s, n + 1) = Held(b, n) + Opened(f)
  <2>1. IsFiniteSet(Holding(b, n)) /\ Held(b, n) = Cardinality(Holding(b, n)) /\ Held(b, n) \in Nat
    BY <1>1, HoldingFinite
  <2>2. Held(s, n + 1) = Cardinality(Holding(s, n + 1))
    BY DEF Held, Holding
  <2>3. n + 1 \notin Holding(b, n)
    BY <1>1 DEF Holding
  <2>4. CASE Holds(f) = "nothing"
    <3>1. Holding(s, n + 1) = Holding(b, n)
      BY <1>1, <2>4 DEF Holding
    <3> QED
      BY <2>1, <2>2, <2>4, <3>1 DEF Opened
  <2>5. CASE Holds(f) # "nothing"
    <3>1. Holding(s, n + 1) = Holding(b, n) \cup {n + 1}
      BY <1>1, <2>5 DEF Holding
    <3>2. Cardinality(Holding(s, n + 1)) = Cardinality(Holding(b, n)) + 1
      BY <2>1, <2>3, <3>1, FS_AddElement
    <3> QED
      BY <2>1, <2>2, <2>5, <3>2 DEF Opened
  <2> QED
    BY <2>4, <2>5
<1> QED
  BY <1>2, <1>3 DEF s

LEMMA ReachAlone == Reach(<<>>) = 1
<1> DEFINE s == <<>>
<1>1. Len(s) = 0
  BY EmptySeq
<1> HIDE DEF s
<1>2. {i \in 1..Len(s) : Holds(s[i]) # "nothing"} = {}
  BY <1>1
<1>3. Held(s, Len(s)) = 0
  <2>1. Held(s, Len(s)) = Cardinality({})
    BY <1>2, Zenon DEF Held
  <2> QED
    BY <2>1, FS_EmptySet
<1> QED
  BY <1>3 DEF Reach, s

LEMMA ReachType ==
    ASSUME NEW s \in Seq(Access)
    PROVE  Reach(s) \in Nat /\ Reach(s) >= 1
<1>1. Held(s, Len(s)) \in Nat
  BY LenProperties, HoldingFinite
<1> QED
  BY <1>1 DEF Reach

LEMMA ReachPush ==
    ASSUME NEW b \in Seq(Access), NEW f \in Access
    PROVE  Reach(Append(b, f)) = Reach(b) + Opened(f) /\ Opened(f) \in {0, 1}
<1>1. Len(Append(b, f)) = Len(b) + 1 /\ Held(Append(b, f), Len(b) + 1) = Held(b, Len(b)) + Opened(f)
  BY Pushed, HeldPush
<1>2. Held(b, Len(b)) \in Nat
  BY LenProperties, HoldingFinite
<1>3. Opened(f) \in {0, 1}
  BY DEF Opened
<1> QED
  BY <1>1, <1>2, <1>3 DEF Reach

LEMMA MatchesPush ==
    ASSUME NEW b \in Seq(Access), NEW f \in Access, NEW d
    PROVE  Matches(Append(b, f), d) <=>
              Matches(b, d) /\ (Holds(f) # "nothing" => d[Reach(b) + 1].kind = Holds(f))
<1> DEFINE s == Append(b, f)
           n == Len(b)
<1>1. n \in Nat /\ Len(s) = n + 1 /\ s[n + 1] = f /\ \A i \in 1..n : s[i] = b[i]
  BY Pushed
<1>2. /\ \A i \in 1..n : Held(s, i) = Held(b, i)
      /\ Held(s, n + 1) = Held(b, n) + Opened(f) /\ Held(b, n) \in Nat
  BY <1>1, HeldPush, HoldingFinite
<1> HIDE DEF s
<1>3. \A i \in 1..(n + 1) : i \in 1..n \/ i = n + 1
  BY <1>1
<1>4. n + 1 \in 1..(n + 1) /\ \A i \in 1..n : i \in 1..(n + 1)
  BY <1>1
<1>5. Holds(f) # "nothing" => 1 + Held(s, n + 1) = Reach(b) + 1
  BY <1>2 DEF Reach, Opened
<1>6. ASSUME Matches(s, d)
      PROVE  Matches(b, d) /\ (Holds(f) # "nothing" => d[Reach(b) + 1].kind = Holds(f))
  BY <1>1, <1>2, <1>4, <1>5, <1>6 DEF Matches
<1>7. ASSUME Matches(b, d), Holds(f) # "nothing" => d[Reach(b) + 1].kind = Holds(f)
      PROVE  Matches(s, d)
  BY <1>1, <1>2, <1>3, <1>5, <1>7 DEF Matches
<1> QED
  BY <1>6, <1>7 DEF s

\* Only the kinds of the levels matter, as far as s reaches.
LEMMA MatchesAgree ==
    ASSUME NEW s \in Seq(Access), NEW d, NEW e, Matches(s, d),
           \A i \in 1..Reach(s) : e[i].kind = d[i].kind
    PROVE  Matches(s, e)
<1>1. Len(s) \in Nat /\ Held(s, Len(s)) \in Nat
  BY LenProperties, HoldingFinite
<1>2. e[1].kind = d[1].kind
  BY <1>1 DEF Reach
<1>3. ASSUME NEW i \in 1..Len(s) PROVE 1 + Held(s, i) \in 1..Reach(s)
  <2>1. i \in Nat /\ i <= Len(s) /\ Held(s, i) \in Nat
    BY <1>1, HoldingFinite
  <2>2. Held(s, i) <= Held(s, Len(s))
    BY <1>1, <2>1, HeldGrows
  <2> QED
    BY <1>1, <2>1, <2>2 DEF Reach
<1> QED
  BY <1>2, <1>3 DEF Matches

LEMMA SuitedPush ==
    ASSUME NEW b \in Seq(Access), NEW f \in Access
    PROVE  Suited(Append(b, f)) <=> Suited(b) /\ Suits(SlotIn(b), f)
<1> DEFINE s == Append(b, f)
           n == Len(b)
<1>1. n \in Nat /\ Len(s) = n + 1 /\ s[n + 1] = f /\ \A i \in 1..n : s[i] = b[i]
  BY Pushed
<1>2. (b = <<>> <=> n = 0)
  BY EmptySeq
<1> HIDE DEF s
<1>3. \A i \in 1..(n + 1) : i \in 1..n \/ i = n + 1
  BY <1>1
<1>4. n + 1 \in 1..(n + 1) /\ \A i \in 1..n : i \in 1..(n + 1)
  BY <1>1
<1>5. SlotIn(b) = IF n + 1 = 1 THEN "plain" ELSE SlotOf(s[n + 1 - 1])
  BY <1>1, <1>2 DEF SlotIn, Last
<1>6. ASSUME NEW i \in 1..n
      PROVE  (IF i = 1 THEN "plain" ELSE SlotOf(s[i - 1])) = IF i = 1 THEN "plain" ELSE SlotOf(b[i - 1])
  <2>1. i # 1 => i - 1 \in 1..n
    BY <1>1
  <2> QED
    BY <1>1, <2>1
<1>7. ASSUME Suited(s) PROVE Suited(b) /\ Suits(SlotIn(b), f)
  <2>1. Suits(SlotIn(b), f)
    BY <1>1, <1>4, <1>5, <1>7 DEF Suited
  <2>2. Suited(b)
    BY <1>1, <1>4, <1>6, <1>7 DEF Suited
  <2> QED
    BY <2>1, <2>2
<1>8. ASSUME Suited(b), Suits(SlotIn(b), f) PROVE Suited(s)
  <2>1. ASSUME NEW i \in 1..(n + 1)
        PROVE  Suits(IF i = 1 THEN "plain" ELSE SlotOf(s[i - 1]), s[i])
    <3>1. CASE i \in 1..n
      BY <1>1, <1>6, <1>8, <3>1 DEF Suited
    <3>2. CASE i = n + 1
      BY <1>1, <1>5, <1>8, <3>2
    <3> QED
      BY <1>3, <3>1, <3>2
  <2> QED
    BY <1>1, <2>1 DEF Suited
<1> QED
  BY <1>7, <1>8 DEF s

LEMMA PlacePush ==
    ASSUME NEW b \in Seq(Access), NEW f \in Access
    PROVE  Place(Append(b, f)) = PlaceOf(SlotIn(b), f) /\ SlotIn(Append(b, f)) = SlotOf(f)
<1>1. Append(b, f) # <<>> /\ Last(Append(b, f)) = f /\ Front(Append(b, f)) = b
  BY Pushed
<1> QED
  BY <1>1 DEF Place, SlotIn

LEMMA ReadingPush ==
    ASSUME NEW b \in Seq(Access), NEW f \in Access, NEW d, NEW a, NEW t
    PROVE  Reading(Append(b, f), d, a, t) <=>
              /\ OnTop(b, f, d)
              /\ a = "nothing" => TurnFits(SlotIn(b), f, Innermost(d), t)
              /\ a # "nothing" => IsThere(PlaceOf(SlotIn(b), f), Innermost(d), t)
<1> DEFINE s == Append(b, f)
<1>1. s # <<>> /\ Last(s) = f /\ Front(s) = b
  BY Pushed
<1>2. /\ Suited(s) <=> Suited(b) /\ Suits(SlotIn(b), f)
      /\ Matches(s, d) <=> Matches(b, d) /\ (Holds(f) # "nothing" => d[Reach(b) + 1].kind = Holds(f))
      /\ Reach(s) = Reach(b) + Opened(f)
      /\ Place(s) = PlaceOf(SlotIn(b), f)
  BY SuitedPush, MatchesPush, ReachPush, PlacePush
<1>3. (Holds(f) # "nothing" /\ Len(d) = Reach(b) + Opened(f)) => Innermost(d) = d[Reach(b) + 1]
  BY DEF Opened, Innermost
<1> HIDE DEF s
<1> QED
  BY <1>1, <1>2, <1>3 DEF Reading, OnTop, s

-----------------------------------------------------------------------------
(***************************************************************************)
(* The next token, by what the innermost level wants.                      *)
(***************************************************************************)
Openings == {"BeginList", "BeginMap", "BeginAttributes"}

LEMMA NextTaken ==
    ASSUME Separated, NEW d, NEW t, Sound(d, t)
    PROVE  LET l == Innermost(d) IN
           \/ t = "eof"
           \/ t = "ItemSeparator" /\ l.want \in {"first", "more"} /\ Took(d, t) # Rejected
           \/ t \in Tokens \ {"ItemSeparator"} /\ Takes(l, t)
              /\ Took(d, t) = Feed(d, t) /\ Feed(d, t) # Rejected
<1> DEFINE l == Innermost(d)
<1>1. t = "eof" \/ (t \in Tokens /\ Took(d, t) # Rejected)
  BY DEF Sound, Following
<1>2. d \in Document /\ d # Rejected
  BY DEF Sound, Founded
<1>3. ~Unseparated
  BY DEF Separated
<1>4. CASE t \in Tokens \ {"ItemSeparator"}
  <2>1. Took(d, t) = Feed(d, t)
    BY <1>3, <1>4 DEF Took
  <2>2. CASE Feed(d, t) # Rejected
    BY <1>2, <1>4, <2>1, <2>2, FeedTakes
  <2>3. CASE Feed(d, t) = Rejected
    BY <1>1, <1>4, <2>1, <2>3 DEF Tokens, Atoms, Closing
  <2> QED
    BY <2>2, <2>3
<1>5. CASE t = "ItemSeparator"
  <2>1. t \in Tokens /\ Took(d, t) # Rejected
    BY <1>1, <1>5
  <2>2. CASE l.kind # "fragment" /\ l.want \in {"first", "more"}
    BY <1>5, <2>1, <2>2
  <2>3. CASE ~(l.kind # "fragment" /\ l.want \in {"first", "more"})
    <3>1. Took(d, t) = Feed(d, t)
      BY <1>3, <2>3 DEF Took
    <3>2. Takes(l, t)
      BY <1>2, <2>1, <3>1, FeedTakes
    <3>3. l.want = "more"
      BY <1>5, <3>2 DEF Takes, Atoms, Closing
    <3> QED
      BY <1>5, <2>1, <3>3
  <2> QED
    BY <2>2, <2>3
<1> QED
  BY <1>1, <1>4, <1>5

LEMMA NextNode ==
    ASSUME Separated, NEW d, NEW t, Sound(d, t),
           Innermost(d).want \in {"value", "node"} \/ IsNode(Innermost(d), t)
    PROVE  /\ IsNode(Innermost(d), t)
           /\ t \in {"eof"} \cup Atoms \cup Openings
           /\ t = "BeginAttributes" => TakesAttributes(Innermost(d))
<1> DEFINE l == Innermost(d)
<1>1. \/ t = "eof"
      \/ t = "ItemSeparator" /\ l.want \in {"first", "more"}
      \/ t # "ItemSeparator" /\ Takes(l, t)
  BY NextTaken
<1>2. TakesNode(l) /\ t # "ItemSeparator"
  <2>1. CASE l.want \in {"value", "node"}
    BY <1>1, <2>1 DEF TakesNode
  <2>2. CASE IsNode(l, t)
    BY <2>2 DEF IsNode, Ready
  <2> QED
    BY <2>1, <2>2
<1>3. ~TakesKey(l)
  BY <1>2 DEF TakesKey, TakesNode
<1> HIDE DEF l
<1>4. t \in Closing => l.want \in {"first", "more"}
  BY <1>1 DEF Takes, Closing, Atoms, Closable
<1>5. t \notin Closing
  <2>1. l.want \in {"value", "node"} => t \notin Closing
    BY <1>4
  <2>2. IsNode(l, t) => t \notin Closing
    BY DEF IsNode, Ready
  <2> QED
    BY <2>1, <2>2 DEF l
<1>6. t \in {"eof"} \cup Atoms \cup Openings /\ (t = "BeginAttributes" => TakesAttributes(l))
  BY <1>1, <1>2, <1>3, <1>5 DEF Takes, TakesNode, Openings, Atoms, Closing
<1>7. IsNode(l, t)
  BY <1>2, <1>5 DEF IsNode, Ready
<1> QED
  BY <1>6, <1>7 DEF l

LEMMA NextEquals ==
    ASSUME Separated, NEW d, NEW t, Sound(d, t), Innermost(d).want = "equals"
    PROVE  t \in {"eof", "KeyValueSeparator"}
<1> DEFINE l == Innermost(d)
<1>1. t = "eof" \/ Takes(l, t)
  BY NextTaken
<1> HIDE DEF l
<1> QED
  BY <1>1 DEF Takes, TakesKey, TakesNode, TakesAttributes, Closable, Atoms, l

\* In a list comes a value, in a map a key, or the end or a `;`.
LEMMA NextItems ==
    ASSUME Separated, NEW d, NEW t, Sound(d, t), Closable(Innermost(d)),
           NEW kind \in Containers, Innermost(d).kind = kind
    PROVE  \/ t \in {"eof", "ItemSeparator", Closer[kind]}
           \/ /\ Innermost(d).want = "first"
              /\ IF kind = "list" THEN IsNode(Innermost(d), t) ELSE IsKey(Innermost(d), t)
<1> DEFINE l == Innermost(d)
<1>1. t \in {"eof", "ItemSeparator"} \/ Takes(l, t)
  BY NextTaken
<1>2. l.want \in {"first", "more"} /\ l.kind = kind /\ (Paired(l) <=> kind # "list")
  BY DEF Closable, Paired, Containers
<1> HIDE DEF l
<1>3. CASE t \in Closing /\ l.kind = Bracket(t)
  <2>1. t = Closer[kind]
    BY <1>2, <1>3 DEF Closing, Bracket, Closer, Containers
  <2> QED
    BY <2>1
<1>4. CASE t = "string" /\ TakesKey(l)
  <2>1. kind # "list" /\ l.want = "first"
    BY <1>2, <1>4 DEF TakesKey
  <2> QED
    BY <1>4, <2>1 DEF IsKey, l
<1>5. CASE t \in Atoms \cup Openings /\ TakesNode(l)
  <2>1. kind = "list" /\ l.want = "first"
    BY <1>2, <1>5 DEF TakesNode
  <2>2. Ready(t)
    BY <1>5 DEF Ready, Atoms, Openings, Closing
  <2> QED
    BY <1>5, <2>1, <2>2 DEF IsNode, l
<1> QED
  BY <1>1, <1>2, <1>3, <1>4, <1>5 DEF Takes, TakesAttributes, Openings

-----------------------------------------------------------------------------
(***************************************************************************)
(* What the document is when a token was read.                             *)
(***************************************************************************)
\* e has n levels, of the kinds that d has there, and l is the innermost.
Levels(d, e, n, l) ==
    /\ Len(e) = n /\ Innermost(e) = l
    /\ \A i \in 1..n : i <= Len(d) => e[i].kind = d[i].kind

LEMMA WantingLevels ==
    ASSUME NEW d, Founded(d), NEW n \in 1..Len(d), NEW e, NEW want, Wanting(d, e, n, want)
    PROVE  Levels(d, e, n, [kind |-> d[n].kind, want |-> want])
<1>1. Len(d) \in Nat
  BY FoundedType
<1>2. /\ Len(e) = n /\ e[n] = [kind |-> d[n].kind, want |-> want]
      /\ \A i \in 1..(n - 1) : e[i] = d[i]
  BY DEF Wanting
<1>3. \A i \in 1..n : e[i].kind = d[i].kind
  <2>1. \A i \in 1..n : i = n \/ i \in 1..(n - 1)
    BY <1>1
  <2>2. e[n].kind = d[n].kind
    BY <1>2
  <2> QED
    BY <1>2, <2>1, <2>2
<1> QED
  BY <1>2, <1>3 DEF Levels, Innermost

LEMMA EnteredLevels ==
    ASSUME NEW d, Founded(d), NEW e, NEW kind, NEW want, Entered(d, e, kind, want)
    PROVE  Levels(d, e, Len(d) + 1, [kind |-> kind, want |-> want])
<1>1. Len(d) \in Nat
  BY FoundedType
<1>2. /\ Len(e) = Len(d) + 1 /\ e[Len(d) + 1] = [kind |-> kind, want |-> want]
      /\ \A i \in 1..Len(d) : e[i] = d[i]
  BY DEF Entered
<1> QED
  BY <1>1, <1>2 DEF Levels, Innermost

\* What every step that consumes a token starts from.
LEMMA Reads ==
    ASSUME Separated, CallsInv, Consume
    PROVE  /\ Founded(consumed) /\ Sound(consumed, ahead) /\ Sound(consumed', ahead')
           /\ consumed \in Document /\ Len(consumed) \in Nat /\ Len(consumed) > 0
           /\ Len(consumed) \in 1..Len(consumed) /\ Innermost(consumed) = consumed[Len(consumed)]
           /\ ahead \in Tokens /\ consumed' = Took(consumed, ahead) /\ Founded(consumed')
           /\ ahead # "ItemSeparator" =>
                 Takes(Innermost(consumed), ahead) /\ consumed' = Feed(consumed, ahead)
<1>1. Sound(consumed, ahead) /\ Founded(consumed)
  BY DEF CallsInv, Sound
<1>2. /\ consumed \in Document /\ Len(consumed) \in Nat /\ Len(consumed) > 0
      /\ Len(consumed) \in 1..Len(consumed) /\ Innermost(consumed) = consumed[Len(consumed)]
  BY <1>1, FoundedType
<1>3. ahead # "eof" /\ consumed' = Took(consumed, ahead)
  BY DEF Consume
<1>4. Sound(consumed', ahead')
  BY <1>1, ConsumeSound
<1>5. /\ ahead \in Tokens
      /\ ahead # "ItemSeparator" =>
            Takes(Innermost(consumed), ahead) /\ Took(consumed, ahead) = Feed(consumed, ahead)
  BY <1>1, <1>3, NextTaken DEF Tokens
<1> QED
  BY <1>1, <1>2, <1>3, <1>4, <1>5 DEF Sound

LEMMA ReadAtom ==
    ASSUME Separated, CallsInv, Consume, ahead \in Atoms, TakesNode(Innermost(consumed))
    PROVE  Levels(consumed, consumed', Len(consumed),
                  [kind |-> Innermost(consumed).kind, want |-> "more"])
<1>1. ahead # "ItemSeparator"
  BY DEF Atoms
<1>2. Wanting(consumed, consumed', Len(consumed), "more")
  BY <1>1, Reads, FeedAtom
<1> QED
  BY <1>2, Reads, WantingLevels

LEMMA ReadKey ==
    ASSUME Separated, CallsInv, Consume, ahead = "string", TakesKey(Innermost(consumed))
    PROVE  Levels(consumed, consumed', Len(consumed),
                  [kind |-> Innermost(consumed).kind, want |-> "equals"])
<1>1. Wanting(consumed, consumed', Len(consumed), "equals")
  BY Reads, FeedKey
<1> QED
  BY <1>1, Reads, WantingLevels

LEMMA ReadEquals ==
    ASSUME Separated, CallsInv, Consume, Innermost(consumed).want = "equals"
    PROVE  Levels(consumed, consumed', Len(consumed),
                  [kind |-> Innermost(consumed).kind, want |-> "value"])
<1>1. ahead = "KeyValueSeparator"
  BY Reads, NextEquals DEF Consume
<1>2. Wanting(consumed, consumed', Len(consumed), "value")
  BY <1>1, Reads, FeedEquals
<1> QED
  BY <1>2, Reads, WantingLevels

LEMMA ReadOpening ==
    ASSUME Separated, CallsInv, Consume, ahead \in Openings
    PROVE  /\ Levels(consumed, consumed', Len(consumed) + 1,
                     [kind |-> Bracket(ahead), want |-> "first"])
           /\ TakesNode(Innermost(consumed))
<1>1. TakesNode(Innermost(consumed))
      /\ (ahead = "BeginAttributes" => TakesAttributes(Innermost(consumed)))
  BY Reads DEF Takes, TakesAttributes, Openings, Atoms, Closing
<1>2. consumed' = Feed(consumed, ahead)
  BY Reads DEF Openings
<1>3. Entered(consumed, consumed', Bracket(ahead), "first")
  BY <1>1, <1>2, Reads, FeedOpening DEF Openings
<1> QED
  BY <1>1, <1>3, Reads, EnteredLevels

LEMMA ReadClosing ==
    ASSUME Separated, CallsInv, Consume, ahead \in Closing
    PROVE  /\ Len(consumed) - 1 \in 1..Len(consumed)
           /\ Innermost(consumed).kind = Bracket(ahead)
           /\ Levels(consumed, consumed', Len(consumed) - 1,
                     [kind |-> consumed[Len(consumed) - 1].kind,
                      want |-> IF ahead = "EndAttributes" THEN "node" ELSE "more"])
<1>1. Closable(Innermost(consumed)) /\ Innermost(consumed).kind = Bracket(ahead)
  BY Reads DEF Takes, Atoms, Closing
<1>2. consumed' = Feed(consumed, ahead)
  BY Reads DEF Closing
<1>3. Len(consumed) > 1
  <2>1. Innermost(consumed).kind # "fragment"
    BY <1>1 DEF Bracket, Closing
  <2> QED
    BY <2>1, Reads DEF Founded
<1> DEFINE want == IF ahead = "EndAttributes" THEN "node" ELSE "more"
<1>4. Wanting(consumed, consumed', Len(consumed) - 1, want)
  BY <1>1, <1>2, <1>3, Reads, FeedClosing
<1>5. Len(consumed) - 1 \in 1..Len(consumed)
  BY <1>3, Reads
<1> HIDE DEF want
<1>6. Levels(consumed, consumed', Len(consumed) - 1,
             [kind |-> consumed[Len(consumed) - 1].kind, want |-> want])
  BY <1>4, <1>5, Reads, WantingLevels
<1> QED
  BY <1>1, <1>5, <1>6 DEF want

LEMMA ReadSeparator ==
    ASSUME Separated, CallsInv, Consume, ahead = "ItemSeparator"
    PROVE  /\ \E want \in Wants :
                 Levels(consumed, consumed', Len(consumed),
                        [kind |-> Innermost(consumed).kind, want |-> want])
           /\ Innermost(consumed).kind # "fragment" =>
                 Levels(consumed, consumed', Len(consumed),
                        [kind |-> Innermost(consumed).kind, want |-> "first"])
<1> DEFINE l == Innermost(consumed)
<1>1. consumed' = Took(consumed, ahead) /\ l.want \in {"first", "more"}
  BY Reads, NextTaken DEF Takes, Atoms, Closing
<1>2. CASE l.kind # "fragment"
  <2>1. consumed' = Expect(consumed, "first")
    BY <1>1, <1>2 DEF Took
  <2>2. "first" \in Wants
    BY DEF Wants
  <2>3. Wanting(consumed, consumed', Len(consumed), "first")
    BY <2>1, <2>2, Reads, ExpectType
  <2>4. Levels(consumed, consumed', Len(consumed), [kind |-> l.kind, want |-> "first"])
    BY <2>3, Reads, WantingLevels
  <2> QED
    BY <2>2, <2>4
<1>3. CASE l.kind = "fragment"
  <2>1. consumed' = Feed(consumed, ahead)
    BY <1>1, <1>3 DEF Took, Separated
  <2>2. Feed(consumed, ahead) # Rejected /\ ahead \in Tokens /\ consumed \in Document /\ consumed # Rejected
    BY <2>1, Reads DEF Founded
  <2>3. l.want = "more"
    <3>1. Takes(l, ahead)
      BY <2>2, FeedTakes
    <3> QED
      BY <3>1 DEF Takes, Atoms, Closing
  <2> DEFINE want == IF Paired(l) THEN "key" ELSE "value"
  <2>4. Wanting(consumed, consumed', Len(consumed), want)
    BY <2>1, <2>3, Reads, FeedSeparator
  <2>5. want \in Wants
    BY DEF Wants
  <2> HIDE DEF want
  <2>6. Levels(consumed, consumed', Len(consumed), [kind |-> l.kind, want |-> want])
    BY <2>4, Reads, WantingLevels
  <2> QED
    BY <1>3, <2>5, <2>6
<1> QED
  BY <1>2, <1>3

-----------------------------------------------------------------------------
(***************************************************************************)
(* What a step does to the frames and their brackets.                      *)
(***************************************************************************)
LEMMA AtDocument ==
    ASSUME CallsInv, DocumentInv, NEW accesses, NEW turn, At(accesses, turn)
    PROVE  /\ OnTop(Front(stack), Top, consumed)
           /\ TurnFits(SlotIn(Front(stack)), Top, Innermost(consumed), ahead)
<1> DEFINE b == Front(stack)
           f == Top
<1>1. /\ b \in Seq(Access) /\ f \in Access /\ stack = Append(b, f)
      /\ status = "reading" /\ asked = "nothing" /\ ~IsSkip(stack)
  BY AtTop
<1>2. Reading(stack, consumed, asked, ahead)
  BY <1>1 DEF DocumentInv
<1> HIDE DEF b, f
<1> QED
  BY <1>1, <1>2, ReadingPush DEF b, f

LEMMA AskingDocument ==
    ASSUME CallsInv, DocumentInv, NEW methods \in SUBSET Methods, Asking(methods)
    PROVE  /\ Suited(stack) /\ Matches(stack, consumed) /\ Len(consumed) = Reach(stack)
           /\ IsThere(Place(stack), Innermost(consumed), ahead)
<1>1. status = "reading" /\ asked # "nothing" /\ ~IsSkip(stack)
  BY AskingTop
<1> QED
  BY <1>1 DEF DocumentInv, Reading

\* A frame g is on top of b now.
LEMMA OnTopNow ==
    ASSUME NEW b \in Seq(Access), NEW g \in Access, g.access # "skip",
           stack' = Append(b, g), status' = "reading", OnTop(b, g, consumed'),
           asked' = "nothing" => TurnFits(SlotIn(b), g, Innermost(consumed'), ahead'),
           asked' # "nothing" => IsThere(PlaceOf(SlotIn(b), g), Innermost(consumed'), ahead')
    PROVE  DocumentInv'
<1>1. Reading(Append(b, g), consumed', asked', ahead')
  BY ReadingPush
<1>2. ~IsSkip(stack')
  BY Pushed DEF IsSkip
<1> QED
  BY <1>1, <1>2 DEF DocumentInv, OnlyEnumsAreSurprised

\* f becomes g, and may open or close a bracket.
LEMMA OnTopChanged ==
    ASSUME NEW b \in Seq(Access), NEW f \in Access, NEW g \in Access, NEW d, NEW e, Founded(d),
           OnTop(b, f, d), Suits(SlotIn(b), g),
           NEW l, Levels(d, e, Len(d) - Opened(f) + Opened(g), l),
           Holds(g) # "nothing" => l.kind = Holds(g)
    PROVE  OnTop(b, g, e)
<1>1. /\ Reach(b) \in Nat /\ Reach(b) >= 1 /\ Opened(f) \in {0, 1} /\ Opened(g) \in {0, 1}
      /\ Len(d) = Reach(b) + Opened(f) /\ Suited(b) /\ Matches(b, d)
  BY ReachType, ReachPush DEF OnTop
<1>2. /\ Len(e) = Reach(b) + Opened(g) /\ Innermost(e) = l
      /\ \A i \in 1..Len(e) : i <= Len(d) => e[i].kind = d[i].kind
  BY <1>1 DEF Levels
<1>3. \A i \in 1..Reach(b) : e[i].kind = d[i].kind
  BY <1>1, <1>2
<1>4. Matches(b, e)
  BY <1>1, <1>3, MatchesAgree
<1> QED
  BY <1>1, <1>2, <1>4 DEF OnTop

\* A new frame g on top of s, which may open a bracket.
LEMMA OnTopEntered ==
    ASSUME NEW s \in Seq(Access), NEW g \in Access, NEW d, NEW e, Founded(d),
           Suited(s), Matches(s, d), Len(d) = Reach(s), Suits(SlotIn(s), g),
           NEW l, Levels(d, e, Len(d) + Opened(g), l),
           Holds(g) # "nothing" => l.kind = Holds(g)
    PROVE  OnTop(s, g, e)
<1>1. Reach(s) \in Nat /\ Opened(g) \in {0, 1}
  BY ReachType, ReachPush
<1>2. /\ Len(e) = Reach(s) + Opened(g) /\ Innermost(e) = l
      /\ \A i \in 1..Len(e) : i <= Len(d) => e[i].kind = d[i].kind
  BY <1>1 DEF Levels
<1>3. \A i \in 1..Reach(s) : e[i].kind = d[i].kind
  BY <1>1, <1>2
<1>4. Matches(s, e)
  BY <1>3, MatchesAgree
<1> QED
  BY <1>2, <1>4 DEF OnTop

LEMMA SameLevels ==
    ASSUME NEW d
    PROVE  Levels(d, d, Len(d), Innermost(d))
BY DEF Levels

\* A frame of b has the value it waited for.
LEMMA ReceivedFits ==
    ASSUME NEW slot, NEW f \in Access, Shaped(f), Waits(f), Suits(slot, f), NEW l, NEW t,
           IF SlotOf(f) = "attributes" THEN IsNode(l, t)
           ELSE l.want = IF PlaceOf(slot, f) = "node" THEN "more" ELSE "equals"
    PROVE  /\ TurnFits(slot, Received(f), l, t)
           /\ Suits(slot, Received(f)) /\ Holds(Received(f)) = Holds(f)
<1> DEFINE g == Received(f)
<1>1. /\ g \in Access /\ g.access = f.access /\ f.access # "skip" /\ g.state = f.state
      /\ g.count = f.count /\ g.is_value_only = f.is_value_only
      /\ g.is_map_wrapped = f.is_map_wrapped
      /\ g.turn = CASE f.turn = "key" -> "keyed"
                    [] f.turn = "variant" -> "tagged"
                    [] OTHER -> IF f.access = "enum" THEN "closing" ELSE "idle"
  BY ReceivedType
<1>2. f.turn \in {"key", "variant", "value"} /\ f.access \in Accesses /\ f.state \in FlatStates
  BY DEF Waits, Access
<1> HIDE DEF g
<1>3. Holds(g) = Holds(f)
  BY <1>1 DEF Holds
<1>4. g.turn # "value"
  BY <1>1, <1>2
<1>5. Suits(slot, g)
  BY <1>1, <1>4 DEF Suits
<1>6. TurnFits(slot, g, l, t)
  <2>1. CASE f.access \in Containers
    <3>1. SlotOf(f) = (IF f.turn = "key" THEN "key" ELSE "plain")
      BY <1>2, <2>1 DEF Shaped, SlotOf, Containers
    <3>2. l.want = IF f.turn = "key" THEN "equals" ELSE "more"
      BY <3>1 DEF PlaceOf
    <3>3. g.turn = (IF f.turn = "key" THEN "keyed" ELSE "idle") /\ g.access \in Containers
      BY <1>1, <1>2, <2>1 DEF Shaped, Containers
    <3> QED
      BY <3>2, <3>3 DEF TurnFits, Closable, Containers
  <2>2. CASE f.access = "flat"
    <3>1. /\ f.turn \in {"key", "value"} /\ (f.turn = "key" => f.state = "Body" /\ ~f.is_value_only)
          /\ f.turn = "value" => f.state \in {"Attributes", "Body"} \/ f.state = "Done"
      BY <1>2, <2>2 DEF Shaped, FlatShaped, FlatStates
    <3>2. SlotOf(f) \in (IF f.turn = "key" THEN {"key"} ELSE {"body", "plain"})
      BY <2>2, <3>1 DEF SlotOf
    <3>3. l.want = IF f.turn = "key" THEN "equals" ELSE "more"
      BY <3>1, <3>2 DEF PlaceOf
    <3>4. g.turn = (IF f.turn = "key" THEN "keyed" ELSE "idle") /\ g.access = "flat"
      BY <1>1, <2>2, <3>1
    <3>5. FlatFits(g, l, t)
      BY <1>1, <3>1, <3>3, <3>4 DEF FlatFits, Closable
    <3> QED
      BY <3>4, <3>5 DEF TurnFits, Containers
  <2>3. CASE f.access = "wrapper"
    <3>1. f.turn = "value" /\ f.count \in 1..2 /\ ~f.is_value_only
      BY <1>2, <2>3 DEF Shaped
    <3>2. SlotOf(f) = IF f.count = 1 THEN "attributes" ELSE "body"
      BY <2>3, <3>1 DEF SlotOf
    <3>3. IF f.count = 1 THEN IsNode(l, t) ELSE l.want = "more"
      BY <3>1, <3>2 DEF PlaceOf
    <3> QED
      BY <1>1, <2>3, <3>1, <3>3 DEF TurnFits, Containers
  <2>4. CASE f.access = "option"
    <3>1. f.turn = "value" /\ ~f.is_value_only
      BY <1>2, <2>4 DEF Shaped
    <3>2. SlotOf(f) = "attributes"
      BY <2>4, <3>1 DEF SlotOf
    <3> QED
      BY <1>1, <2>4, <3>2 DEF TurnFits, Containers
  <2>5. CASE f.access = "enum"
    <3>1. f.turn \in {"variant", "value"} /\ ~f.is_value_only /\ (f.turn = "value" => f.is_map_wrapped)
      BY <1>2, <2>5 DEF Shaped, Suits
    <3>2. SlotOf(f) = IF f.turn = "variant" THEN "variant" ELSE "plain"
      BY <2>5, <3>1 DEF SlotOf
    <3>3. g.turn = (IF f.turn = "variant" THEN "tagged" ELSE "closing") /\ g.access = "enum"
      BY <1>1, <2>5, <3>1
    <3>4. EnumFits(slot, g, l)
      <4>1. CASE f.turn = "variant"
        <5>1. l.want = IF f.is_map_wrapped \/ slot = "key" THEN "equals" ELSE "more"
          BY <3>2, <4>1 DEF PlaceOf
        <5> QED
          BY <1>1, <3>3, <4>1, <5>1 DEF EnumFits
      <4>2. CASE f.turn = "value"
        <5>1. l.want = "more" /\ f.is_map_wrapped
          BY <3>1, <3>2, <4>2 DEF PlaceOf
        <5> QED
          BY <1>1, <3>3, <4>2, <5>1 DEF EnumFits
      <4> QED
        BY <3>1, <4>1, <4>2
    <3> QED
      BY <3>3, <3>4 DEF TurnFits, Containers
  <2> QED
    BY <1>1, <1>2, <2>1, <2>2, <2>3, <2>4, <2>5 DEF Accesses, Containers
<1> QED
  BY <1>3, <1>5, <1>6 DEF g

\* A value was read, with the frames s around it.
LEMMA CompleteDocument ==
    ASSUME status = "reading", NEW s \in Seq(Access), Waiting(s), Complete(s),
           Suited(s), Matches(s, consumed'), Len(consumed') = Reach(s), Founded(consumed'),
           WasRead(s, Innermost(consumed'), ahead')
    PROVE  DocumentInv'
<1> DEFINE e == consumed'
           l == Innermost(e)
<1>1. CASE s = <<>>
  <2>1. asked' = "nothing" /\ status' = "read" /\ stack' = s
    BY <1>1 DEF Complete
  <2>2. Len(e) = 1
    BY <1>1, ReachAlone
  <2>3. l.want = "more"
    BY <1>1 DEF WasRead, SlotIn, Place
  <2>4. e \in Document /\ e[1].kind = "fragment"
    BY DEF Founded
  <2>5. e[1] = [kind |-> "fragment", want |-> "more"]
    <3>1. 1 \in 1..Len(e) /\ l = e[1]
      BY <2>2 DEF Innermost
    <3> QED
      BY <2>3, <2>4, <3>1, LevelType
  <2>6. e = Whole
    <3> DEFINE r == e[1]
    <3>1. e \in Seq(Level)
      BY <2>4 DEF Document
    <3>2. r \in Level
      BY <2>5 DEF Level, Kinds, Wants
    <3>3. e = <<r>>
      <4>1. <<r>> \in Seq(Level) /\ Len(<<r>>) = 1 /\ <<r>>[1] = r
        BY <3>2
      <4>2. \A i \in 1..Len(e) : e[i] = <<r>>[i]
        BY <2>2, <4>1
      <4> QED
        BY <2>2, <3>1, <4>1, <4>2, SeqEqual
    <3> QED
      BY <2>5, <3>3 DEF Whole
  <2> QED
    BY <2>1, <2>6 DEF DocumentInv, OnlyEnumsAreSurprised
<1>2. CASE s # <<>>
  <2> DEFINE b == Front(s)
             f == Last(s)
             g == Received(f)
  <2>1. s = Append(b, f) /\ b \in Seq(Access) /\ f \in Access
    BY <1>2, Split
  <2> HIDE DEF b, f
  <2>2. Waiting(b) /\ Shaped(f) /\ Waits(f)
    BY <2>1, WaitingPush
  <2>3. asked' = "nothing" /\ status' = "reading" /\ stack' = Append(b, g)
    BY <2>1, <2>2, CompleteOn
  <2>4. /\ Suited(b) /\ Suits(SlotIn(b), f) /\ Matches(b, e)
        /\ Holds(f) # "nothing" => e[Reach(b) + 1].kind = Holds(f)
        /\ Len(e) = Reach(b) + Opened(f)
        /\ Place(s) = PlaceOf(SlotIn(b), f) /\ SlotIn(s) = SlotOf(f)
    BY <2>1, SuitedPush, MatchesPush, ReachPush, PlacePush
  <2>5. IF SlotOf(f) = "attributes" THEN IsNode(l, ahead')
        ELSE l.want = IF PlaceOf(SlotIn(b), f) = "node" THEN "more" ELSE "equals"
    BY <2>4 DEF WasRead
  <2>6. /\ TurnFits(SlotIn(b), g, l, ahead') /\ Suits(SlotIn(b), g) /\ Holds(g) = Holds(f)
    BY <2>1, <2>2, <2>4, <2>5, ReceivedFits
  <2>7. g \in Access /\ g.access # "skip"
    BY <2>1, <2>2, ReceivedType
  <2>8. Holds(g) # "nothing" => l.kind = Holds(g)
    BY <2>4, <2>6 DEF Opened, Innermost
  <2> HIDE DEF g
  <2>9. OnTop(b, g, e)
    BY <2>4, <2>6, <2>8 DEF OnTop, Opened
  <2> QED
    BY <2>1, <2>3, <2>6, <2>7, <2>9, OnTopNow
<1> QED
  BY <1>1, <1>2

\* The last frame is done, and closed its bracket if it had one.
LEMMA CompleteBelow ==
    ASSUME CallsInv, CallsInv', DocumentInv, NEW accesses, NEW turn, At(accesses, turn),
           Complete(Below), NEW l, Levels(consumed, consumed', Len(consumed) - Opened(Top), l),
           WasRead(Front(stack), l, ahead')
    PROVE  DocumentInv'
<1> DEFINE b == Front(stack)
<1>1. /\ b \in Seq(Access) /\ Waiting(b) /\ Below = b /\ Top \in Access /\ status = "reading"
  BY AtTop
<1>2. OnTop(b, Top, consumed)
  BY AtDocument
<1> HIDE DEF b
<1>3. /\ Suited(b) /\ Matches(b, consumed) /\ Len(consumed) = Reach(b) + Opened(Top)
      /\ Reach(b) \in Nat /\ Opened(Top) \in {0, 1}
  BY <1>1, <1>2, ReachType, ReachPush DEF OnTop
<1>4. /\ Len(consumed') = Reach(b) /\ Innermost(consumed') = l
      /\ \A i \in 1..Reach(b) : consumed'[i].kind = consumed[i].kind
  BY <1>3 DEF Levels
<1>5. Matches(b, consumed')
  BY <1>1, <1>3, <1>4, MatchesAgree
<1>6. Founded(consumed')
  BY DEF CallsInv, Sound
<1> QED
  BY <1>1, <1>3, <1>4, <1>5, <1>6, CompleteDocument DEF b

\* A value was read at once.
LEMMA CompleteHere ==
    ASSUME CallsInv, CallsInv', DocumentInv, NEW methods \in SUBSET Methods, Asking(methods),
           Complete(stack), NEW l, Levels(consumed, consumed', Len(consumed), l),
           WasRead(stack, l, ahead')
    PROVE  DocumentInv'
<1>1. stack \in Seq(Access) /\ Waiting(stack) /\ status = "reading"
  BY AskingTop
<1>2. Suited(stack) /\ Matches(stack, consumed) /\ Len(consumed) = Reach(stack) /\ Reach(stack) \in Nat
  BY <1>1, AskingDocument, ReachType
<1>3. /\ Len(consumed') = Reach(stack) /\ Innermost(consumed') = l
      /\ \A i \in 1..Reach(stack) : consumed'[i].kind = consumed[i].kind
  BY <1>2 DEF Levels
<1>4. Matches(stack, consumed')
  BY <1>1, <1>2, <1>3, MatchesAgree
<1>5. Founded(consumed')
  BY DEF CallsInv, Sound
<1> QED
  BY <1>1, <1>2, <1>3, <1>4, <1>5, CompleteDocument

LEMMA FailDocument ==
    ASSUME NEW failure \in Failures \ {"unexpected"}, Fail(failure)
    PROVE  DocumentInv'
BY DEF Fail, Failures, DocumentInv, OnlyEnumsAreSurprised

\* A token that is out of place, for an enum; or there is none.
LEMMA RefuseDocument ==
    ASSUME Refuse, ahead = "eof" \/ (stack # <<>> /\ Top.access = "enum")
    PROVE  DocumentInv'
<1>1. /\ status' = (IF ahead = "eof" THEN "short" ELSE "unexpected") /\ stack' = stack
  BY DEF Refuse, Fail
<1> QED
  BY <1>1 DEF DocumentInv, OnlyEnumsAreSurprised, Top

\* The last frame goes on as g, and may ask for a value.
LEMMA FrameDocument ==
    ASSUME CallsInv, DocumentInv, NEW accesses, NEW turn, At(accesses, turn),
           NEW g \in Access, g.access = Top.access, g.is_map_wrapped = Top.is_map_wrapped,
           (g.access = "enum" /\ g.turn = "value") => g.is_map_wrapped,
           stack' = Append(Front(stack), g), status' = status,
           NEW l, Levels(consumed, consumed', Len(consumed) - Opened(Top) + Opened(g), l),
           Holds(g) # "nothing" => l.kind = Holds(g),
           asked' = "nothing" => TurnFits(SlotIn(Front(stack)), g, l, ahead'),
           asked' # "nothing" => IsThere(PlaceOf(SlotIn(Front(stack)), g), l, ahead')
    PROVE  DocumentInv'
<1> DEFINE b == Front(stack)
<1>1. /\ b \in Seq(Access) /\ Top \in Access /\ status = "reading" /\ Top.access # "skip"
  BY AtTop
<1>2. OnTop(b, Top, consumed) /\ Founded(consumed)
  BY AtDocument DEF CallsInv, Sound
<1> HIDE DEF b
<1>3. Suits(SlotIn(b), g)
  BY <1>2 DEF OnTop, Suits
<1>4. OnTop(b, g, consumed')
  BY <1>1, <1>2, <1>3, OnTopChanged
<1>5. Innermost(consumed') = l
  BY DEF Levels
<1> QED
  BY <1>1, <1>4, <1>5, OnTopNow DEF b

\* Its turn changes, and no bracket is opened or closed.
LEMMA TurnDocument ==
    ASSUME CallsInv, DocumentInv, NEW accesses, NEW turn, At(accesses, turn),
           NEW next \in Turns \ {"key", "variant", "value"}, Turn(next),
           NEW l, Levels(consumed, consumed', Len(consumed), l),
           l.kind = Innermost(consumed).kind,
           TurnFits(SlotIn(Front(stack)), [Top EXCEPT !.turn = next], l, ahead')
    PROVE  DocumentInv'
<1> DEFINE g == [Top EXCEPT !.turn = next]
<1>1. stack \in Seq(Access) /\ stack # <<>> /\ Top \in Access /\ Front(stack) \in Seq(Access)
      /\ asked = "nothing"
  BY AtTop
<1>2. /\ g \in Access /\ g.access = Top.access /\ g.turn = next /\ g.state = Top.state
      /\ g.is_map_wrapped = Top.is_map_wrapped
  BY <1>1, Turned
<1>3. stack' = Append(Front(stack), g) /\ asked' = asked /\ status' = status
  BY <1>1, TopTurn DEF Turn
<1> HIDE DEF g
<1>4. Holds(g) = Holds(Top) /\ Opened(g) = Opened(Top) /\ Opened(g) \in {0, 1}
  BY <1>2 DEF Holds, Opened
<1>5. Holds(g) # "nothing" => l.kind = Holds(g)
  BY <1>4, AtDocument DEF OnTop
<1>6. Len(consumed) - Opened(Top) + Opened(g) = Len(consumed)
  <2>1. Len(consumed) \in Nat
    BY FoundedType DEF CallsInv, Sound
  <2> QED
    BY <1>4, <2>1
<1>7. g.turn # "value"
  BY <1>2
<1>8. TurnFits(SlotIn(Front(stack)), g, l, ahead')
  BY DEF g
<1>9. Levels(consumed, consumed', Len(consumed) - Opened(Top) + Opened(g), l)
  BY <1>6
<1> QED
  BY <1>1, <1>2, <1>3, <1>5, <1>7, <1>8, <1>9, FrameDocument

\* It asks for a key or a value, and no bracket is opened or closed.
LEMMA AskDocument ==
    ASSUME CallsInv, DocumentInv, NEW accesses, NEW turn, At(accesses, turn),
           NEW next \in {"key", "value"}, AskIn([stack EXCEPT ![Len(stack)].turn = next]),
           status' = status, (Top.access = "enum" /\ next = "value") => Top.is_map_wrapped,
           NEW l, Levels(consumed, consumed', Len(consumed), l),
           l.kind = Innermost(consumed).kind,
           IF next = "key" THEN IsKey(l, ahead') ELSE IsNode(l, ahead')
    PROVE  DocumentInv'
<1> DEFINE g == [Top EXCEPT !.turn = next]
<1>1. stack \in Seq(Access) /\ stack # <<>> /\ Top \in Access /\ Front(stack) \in Seq(Access)
  BY AtTop
<1>2. /\ g \in Access /\ g.access = Top.access /\ g.turn = next /\ g.state = Top.state
      /\ g.is_map_wrapped = Top.is_map_wrapped
  <2>1. next \in Turns
    BY DEF Turns
  <2> QED
    BY <1>1, <2>1, Turned
<1>3. AskIn(Append(Front(stack), g))
  BY <1>1, TopTurn DEF Turns
<1> HIDE DEF g
<1>4. stack' = Append(Front(stack), g) /\ asked' # "nothing"
  BY <1>1, <1>2, <1>3, Pushed, AskInType
<1>5. Holds(g) = Holds(Top) /\ Opened(g) = Opened(Top) /\ Opened(g) \in {0, 1}
  BY <1>2 DEF Holds, Opened
<1>6. Holds(g) # "nothing" => l.kind = Holds(g)
  BY <1>5, AtDocument DEF OnTop
<1>7. Len(consumed) - Opened(Top) + Opened(g) = Len(consumed)
  <2>1. Len(consumed) \in Nat
    BY FoundedType DEF CallsInv, Sound
  <2> QED
    BY <1>5, <2>1
<1>8. IsThere(PlaceOf(SlotIn(Front(stack)), g), l, ahead')
  <2>1. PlaceOf(SlotIn(Front(stack)), g) = IF next = "key" THEN "key" ELSE "node"
    <3>1. CASE next = "key"
      <4>1. SlotOf(g) = "key"
        BY <1>2, <3>1 DEF SlotOf
      <4> QED
        BY <3>1, <4>1 DEF PlaceOf
    <3>2. CASE next = "value"
      <4>1. SlotOf(g) \notin {"key", "variant"}
        BY <1>2, <3>2 DEF SlotOf
      <4> QED
        BY <3>2, <4>1 DEF PlaceOf
    <3> QED
      BY <3>1, <3>2
  <2> QED
    BY <2>1 DEF IsThere
<1>9. Levels(consumed, consumed', Len(consumed) - Opened(Top) + Opened(g), l)
  BY <1>7
<1> QED
  BY <1>1, <1>2, <1>4, <1>6, <1>8, <1>9, FrameDocument

\* A call that was asked for has a frame of its own.
LEMMA EnterDocument ==
    ASSUME CallsInv, DocumentInv, NEW methods \in SUBSET Methods, Asking(methods),
           NEW g \in Access, g.access # "skip", Suits(SlotIn(stack), g),
           stack' = Append(stack, g), status' = status,
           NEW l, Levels(consumed, consumed', Len(consumed) + Opened(g), l),
           Holds(g) # "nothing" => l.kind = Holds(g),
           asked' = "nothing" => TurnFits(SlotIn(stack), g, l, ahead'),
           asked' # "nothing" => IsThere(PlaceOf(SlotIn(stack), g), l, ahead')
    PROVE  DocumentInv'
<1>1. stack \in Seq(Access) /\ status = "reading" /\ Founded(consumed)
  BY AskingTop DEF CallsInv, Sound
<1>2. Suited(stack) /\ Matches(stack, consumed) /\ Len(consumed) = Reach(stack)
  BY AskingDocument
<1>3. OnTop(stack, g, consumed')
  BY <1>1, <1>2, OnTopEntered
<1>4. Innermost(consumed') = l
  BY DEF Levels
<1> QED
  BY <1>1, <1>3, <1>4, OnTopNow

LEMMA ShapedVariant ==
    ASSUME NEW f \in Access, Shaped(f), f.turn = "variant"
    PROVE  f.access = "enum"
<1>1. f.access \in Accesses /\ f.state \in FlatStates
  BY DEF Access
<1> QED
  BY <1>1 DEF Shaped, FlatShaped, Accesses, FlatStates

\* Who asks for what, and where.
LEMMA AskedThere ==
    ASSUME OrderlyCallers, CallsInv, FlagInv, DocumentInv, NEW methods \in SUBSET Methods,
           Asking(methods)
    PROVE  /\ SlotIn(stack) = "key" =>
                 asked \in {"any", "typed", "enum"} /\ IsKey(Innermost(consumed), ahead)
                 /\ Place(stack) = "key"
           /\ SlotIn(stack) = "variant" =>
                 asked = "typed" /\ stack # <<>> /\ Top.access = "enum"
           /\ SlotIn(stack) = "attributes" => asked \in {"any", "typed", "option"}
           /\ SlotIn(stack) \notin {"key", "variant"} =>
                 Place(stack) = "node" /\ IsNode(Innermost(consumed), ahead)
           /\ is_reading_attributes <=> SlotIn(stack) = "attributes"
           /\ is_reading_attributes \in BOOLEAN
           /\ Sound(consumed, ahead)
<1>1. /\ asked \in Asks[SlotIn(stack)] /\ (is_reading_attributes <=> SlotIn(stack) = "attributes")
  BY AskingFlag
<1>2. stack \in Seq(Access) /\ Waiting(stack)
  BY AskingTop
<1>3. IsThere(Place(stack), Innermost(consumed), ahead)
  BY AskingDocument
<1>4. SlotIn(stack) = "key" => Place(stack) = "key"
  BY DEF Place, PlaceOf, SlotIn
<1>5. SlotIn(stack) \notin {"key", "variant"} => Place(stack) = "node"
  BY DEF Place, PlaceOf, SlotIn
<1>6. SlotIn(stack) = "variant" => stack # <<>> /\ Top.access = "enum"
  <2> SUFFICES ASSUME SlotIn(stack) = "variant" PROVE stack # <<>> /\ Top.access = "enum"
    OBVIOUS
  <2>1. stack # <<>>
    BY DEF SlotIn
  <2>2. Top = Last(stack) /\ Last(stack) \in Access /\ Len(stack) \in 1..Len(stack)
    BY <1>2, <2>1, Split DEF Top, Last
  <2>3. Shaped(Top) /\ SlotOf(Top) = "variant" /\ Top \in Access
    BY <1>2, <2>1, <2>2 DEF Waiting, SlotIn, Top
  <2>4. Top.turn = "variant"
    BY <2>3 DEF SlotOf
  <2> QED
    BY <2>1, <2>3, <2>4, ShapedVariant
<1> QED
  BY <1>1, <1>3, <1>4, <1>5, <1>6 DEF OrderlyCallers, IsThere, CallsInv

-----------------------------------------------------------------------------
(***************************************************************************)
(* A value is asked for.                                                   *)
(***************************************************************************)
LEMMA AnyAtomDocument ==
    ASSUME OrderlyCallers, Separated, CallsInv, CallsInv', FlagInv, DocumentInv, AnyAtom
    PROVE  DocumentInv'
<1> DEFINE methods == {"any", "typed"}
           l == Innermost(consumed)
<1>1. /\ Asking(methods) /\ ~is_reading_attributes /\ ahead \in Atoms /\ Consume
      /\ Complete(stack) /\ methods \in SUBSET Methods
  BY DEF AnyAtom, Methods
<1> HIDE DEF methods
<1>2. SlotIn(stack) # "attributes"
  BY <1>1, AskedThere
<1>3. IsThere(Place(stack), l, ahead)
  BY <1>1, AskingDocument
<1>4. Place(stack) \in {"key", "name", "node"}
  BY DEF Place, PlaceOf
<1>5. CASE Place(stack) = "node"
  <2>1. TakesNode(l)
    BY <1>3, <1>5 DEF IsThere, IsNode
  <2>2. Levels(consumed, consumed', Len(consumed), [kind |-> l.kind, want |-> "more"])
    BY <1>1, <2>1, ReadAtom
  <2>3. WasRead(stack, [kind |-> l.kind, want |-> "more"], ahead')
    BY <1>2, <1>5 DEF WasRead
  <2> QED
    BY <1>1, <2>2, <2>3, CompleteHere
<1>6. CASE Place(stack) # "node"
  <2>1. TakesKey(l)
    BY <1>3, <1>4, <1>6 DEF IsThere, IsKey
  <2>2. ahead = "string"
    <3>1. Takes(l, ahead)
      BY <1>1, Reads DEF Atoms
    <3>2. ~TakesNode(l)
      BY <2>1 DEF TakesKey, TakesNode
    <3> QED
      BY <1>1, <3>1, <3>2 DEF Takes, Atoms, Closing
  <2>3. Levels(consumed, consumed', Len(consumed), [kind |-> l.kind, want |-> "equals"])
    BY <1>1, <2>1, <2>2, ReadKey
  <2>4. WasRead(stack, [kind |-> l.kind, want |-> "equals"], ahead')
    BY <1>2, <1>6 DEF WasRead
  <2> QED
    BY <1>1, <2>3, <2>4, CompleteHere
<1> QED
  BY <1>5, <1>6

LEMMA AnyContainerDocument ==
    ASSUME OrderlyCallers, Separated, CallsInv, CallsInv', FlagInv, DocumentInv, AnyContainer
    PROVE  DocumentInv'
<1> DEFINE methods == {"any", "typed"}
           g == NewFrame(Bracket(ahead), "idle", "Done", 0, FALSE)
           l == [kind |-> Bracket(ahead), want |-> "first"]
<1>1. /\ Asking(methods) /\ ahead \in Openings /\ Consume /\ Enter(g, "nothing")
      /\ methods \in SUBSET Methods /\ Bracket(ahead) = Bracket(ahead)
  BY DEF AnyContainer, Methods, Openings, Bracket
<1>2. Suits(SlotIn(stack), g) /\ g \in Access /\ g.access = Bracket(ahead) /\ g.turn = "idle"
  <2>1. ~is_reading_attributes /\ Slot \notin {"key", "variant"} /\ ahead \in {"BeginList", "BeginMap"}
    BY DEF AnyContainer
  <2>2. SlotIn(stack) \notin {"key", "variant", "attributes"}
    BY <1>1, <2>1, AskedThere DEF Slot, SlotIn, Top, Last
  <2>3. /\ g \in Access /\ g.access = Bracket(ahead) /\ g.turn = "idle"
        /\ g.access \in {"list", "map"}
    BY <2>1 DEF NewFrame, Access, Accesses, Turns, FlatStates, Bracket
  <2> HIDE DEF g
  <2> QED
    BY <2>2, <2>3 DEF Suits
<1> HIDE DEF methods, g
<1>3. CASE Fail("limit")
  BY <1>3, FailDocument DEF Failures
<1>4. CASE stack' = Append(stack, g) /\ asked' = "nothing" /\ status' = status
  <2>1. Levels(consumed, consumed', Len(consumed) + 1, l)
    BY <1>1, ReadOpening
  <2>2. Bracket(ahead) \in Containers
    BY <1>1 DEF Openings, Bracket, Containers
  <2>3. Holds(g) = Bracket(ahead) /\ Opened(g) = 1 /\ g.access # "skip"
    BY <1>2, <2>2 DEF Holds, Opened, Containers
  <2>4. TurnFits(SlotIn(stack), g, l, ahead')
    BY <1>2, <2>2 DEF TurnFits, Closable, Containers
  <2>5. l.kind = Holds(g) /\ Levels(consumed, consumed', Len(consumed) + Opened(g), l)
    BY <2>1, <2>3
  <2> HIDE DEF l
  <2> QED
    BY <1>1, <1>2, <1>4, <2>3, <2>4, <2>5, EnterDocument
<1> QED
  BY <1>1, <1>3, <1>4 DEF Enter

LEMMA AnyAttributesDocument ==
    ASSUME OrderlyCallers, Separated, CallsInv, CallsInv', FlagInv, DocumentInv, AnyAttributes
    PROVE  DocumentInv'
<1> DEFINE methods == {"any", "typed"}
           g == NewFrame("attributes", "idle", "Done", 0, FALSE)
           l == [kind |-> Bracket(ahead), want |-> "first"]
<1>1. /\ Asking(methods) /\ ahead \in Openings /\ Consume /\ Enter(g, "nothing")
      /\ methods \in SUBSET Methods /\ Bracket(ahead) = "attributes"
  BY DEF AnyAttributes, Methods, Openings, Bracket
<1>2. Suits(SlotIn(stack), g) /\ g \in Access /\ g.access = Bracket(ahead) /\ g.turn = "idle"
  <2>1. SlotIn(stack) = "attributes"
    <3>1. is_reading_attributes
      BY DEF AnyAttributes
    <3> QED
      BY <1>1, <3>1, AskedThere
  <2>2. g \in Access /\ g.access = "attributes" /\ g.turn = "idle"
    BY DEF NewFrame, Access, Accesses, Turns, FlatStates
  <2> HIDE DEF g
  <2> QED
    BY <1>1, <2>1, <2>2 DEF Suits
<1> HIDE DEF methods, g
<1>3. CASE Fail("limit")
  BY <1>3, FailDocument DEF Failures
<1>4. CASE stack' = Append(stack, g) /\ asked' = "nothing" /\ status' = status
  <2>1. Levels(consumed, consumed', Len(consumed) + 1, l)
    BY <1>1, ReadOpening
  <2>2. Bracket(ahead) \in Containers
    BY <1>1 DEF Openings, Bracket, Containers
  <2>3. Holds(g) = Bracket(ahead) /\ Opened(g) = 1 /\ g.access # "skip"
    BY <1>2, <2>2 DEF Holds, Opened, Containers
  <2>4. TurnFits(SlotIn(stack), g, l, ahead')
    BY <1>2, <2>2 DEF TurnFits, Closable, Containers
  <2>5. l.kind = Holds(g) /\ Levels(consumed, consumed', Len(consumed) + Opened(g), l)
    BY <2>1, <2>3
  <2> HIDE DEF l
  <2> QED
    BY <1>1, <1>2, <1>4, <2>3, <2>4, <2>5, EnterDocument
<1> QED
  BY <1>1, <1>3, <1>4 DEF Enter

LEMMA AnyUnexpectedDocument ==
    ASSUME OrderlyCallers, Separated, CallsInv, CallsInv', FlagInv, DocumentInv, AnyUnexpected
    PROVE  DocumentInv'
<1> DEFINE methods == {"any", "typed"}
<1>1. /\ Asking(methods) /\ Refuse /\ methods \in SUBSET Methods
      /\ ahead \notin Atoms \cup Openings
  BY DEF AnyUnexpected, Methods, Openings
<1> HIDE DEF methods
<1>2. CASE SlotIn(stack) = "variant"
  BY <1>1, <1>2, AskedThere, RefuseDocument
<1>3. CASE SlotIn(stack) = "key"
  <2>1. ahead = "string"
    BY <1>1, <1>3, AskedThere DEF IsKey
  <2> QED
    BY <1>1, <2>1 DEF Atoms
<1>4. CASE SlotIn(stack) \notin {"key", "variant"}
  <2>1. IsNode(Innermost(consumed), ahead) /\ Sound(consumed, ahead)
    BY <1>1, <1>4, AskedThere
  <2>2. ahead = "eof"
    BY <1>1, <2>1, NextNode
  <2> QED
    BY <1>1, <2>2, RefuseDocument
<1> QED
  BY <1>2, <1>3, <1>4

LEMMA MismatchDocument ==
    ASSUME OrderlyCallers, Separated, CallsInv, CallsInv', FlagInv, DocumentInv, Mismatch
    PROVE  DocumentInv'
BY FailDocument DEF Mismatch, Failures

\* There are no attributes to be read.
LEMMA NoAttributes ==
    ASSUME OrderlyCallers, CallsInv, CallsInv', FlagInv, DocumentInv,
           NEW methods \in SUBSET Methods, Asking(methods), is_reading_attributes,
           Stay, Complete(stack)
    PROVE  DocumentInv'
<1> DEFINE l == Innermost(consumed)
<1>1. SlotIn(stack) = "attributes"
  BY AskedThere
<1>2. IsNode(l, ahead)
  BY <1>1, AskedThere
<1>3. Levels(consumed, consumed', Len(consumed), l)
  BY SameLevels DEF Stay
<1>4. WasRead(stack, l, ahead')
  BY <1>1, <1>2 DEF WasRead, Stay
<1> QED
  BY <1>3, <1>4, CompleteHere

LEMMA AnyNoAttributesDocument ==
    ASSUME OrderlyCallers, Separated, CallsInv, CallsInv', FlagInv, DocumentInv, AnyNoAttributes
    PROVE  DocumentInv'
<1> DEFINE methods == {"any", "typed"}
<1>1. /\ Asking(methods) /\ is_reading_attributes /\ Stay /\ methods \in SUBSET Methods
      /\ Fail("short") \/ Complete(stack)
  BY DEF AnyNoAttributes, Methods
<1> HIDE DEF methods
<1>2. CASE Fail("short")
  BY <1>2, FailDocument DEF Failures
<1>3. CASE Complete(stack)
  BY <1>1, <1>3, NoAttributes
<1> QED
  BY <1>1, <1>2, <1>3

LEMMA OptionOfAttributesDocument ==
    ASSUME OrderlyCallers, Separated, CallsInv, CallsInv', FlagInv, DocumentInv, OptionOfAttributes
    PROVE  DocumentInv'
<1> DEFINE methods == {"option"}
           g == NewFrame("option", "value", "Done", 0, FALSE)
           l == Innermost(consumed)
<1>1. /\ Asking(methods) /\ is_reading_attributes /\ Stay /\ methods \in SUBSET Methods
      /\ \/ AskIn(Append(stack, g)) /\ UNCHANGED status
         \/ Fail("short") \/ Complete(stack)
  BY DEF OptionOfAttributes, Methods
<1>2. SlotIn(stack) = "attributes" /\ IsNode(l, ahead) /\ stack \in Seq(Access)
  BY <1>1, AskedThere, AskingTop
<1>3. CASE Fail("short")
  BY <1>3, FailDocument DEF Failures
<1>4. CASE Complete(stack)
  BY <1>1, <1>4, NoAttributes
<1>5. CASE AskIn(Append(stack, g)) /\ UNCHANGED status
  <2>1. g \in Access /\ g.access = "option" /\ g.turn = "value" /\ g.is_map_wrapped = FALSE
    BY DEF NewFrame, Access, Accesses, Turns, FlatStates
  <2> HIDE DEF g
  <2>2. stack' = Append(stack, g) /\ asked' # "nothing"
    BY <1>2, <1>5, <2>1, Pushed, AskInType
  <2>3. Holds(g) = "nothing" /\ Opened(g) = 0
    BY <2>1 DEF Holds, Opened, Containers
  <2>4. Suits(SlotIn(stack), g)
    BY <1>2, <2>1 DEF Suits
  <2>5. PlaceOf(SlotIn(stack), g) = "node"
    <3>1. SlotOf(g) \notin {"key", "variant"}
      BY <2>1 DEF SlotOf
    <3> QED
      BY <3>1 DEF PlaceOf
  <2>6. Levels(consumed, consumed', Len(consumed) + Opened(g), l)
    <3>1. Len(consumed) + 0 = Len(consumed)
      BY FoundedType DEF CallsInv, Sound
    <3> QED
      BY <1>1, <2>3, <3>1, SameLevels DEF Stay
  <2>7. IsThere(PlaceOf(SlotIn(stack), g), l, ahead')
    BY <1>1, <1>2, <2>5 DEF IsThere, Stay
  <2> QED
    BY <1>1, <1>5, <2>1, <2>2, <2>3, <2>4, <2>6, <2>7, EnterDocument
<1> QED
  BY <1>1, <1>3, <1>4, <1>5

LEMMA OptionNoneDocument ==
    ASSUME OrderlyCallers, Separated, CallsInv, CallsInv', FlagInv, DocumentInv, OptionNone
    PROVE  DocumentInv'
<1> DEFINE methods == {"option"}
           l == Innermost(consumed)
<1>1. /\ Asking(methods) /\ ~is_reading_attributes /\ ahead = "entity" /\ Consume
      /\ Complete(stack) /\ methods \in SUBSET Methods /\ asked = "option"
  BY DEF OptionNone, Methods, Asking
<1> HIDE DEF methods
<1>2. SlotIn(stack) \notin {"key", "variant", "attributes"}
  BY <1>1, AskedThere
<1>3. Place(stack) = "node" /\ TakesNode(l)
  BY <1>1, <1>2, AskedThere DEF IsNode
<1>4. Levels(consumed, consumed', Len(consumed), [kind |-> l.kind, want |-> "more"])
  BY <1>1, <1>3, ReadAtom DEF Atoms
<1>5. WasRead(stack, [kind |-> l.kind, want |-> "more"], ahead')
  BY <1>2, <1>3 DEF WasRead
<1> QED
  BY <1>1, <1>4, <1>5, CompleteHere

LEMMA OptionSomeDocument ==
    ASSUME OrderlyCallers, Separated, CallsInv, CallsInv', FlagInv, DocumentInv, OptionSome
    PROVE  DocumentInv'
<1> DEFINE methods == {"option"}
<1>1. /\ Asking(methods) /\ methods \in SUBSET Methods /\ Stay
      /\ \/ Fail("short")
         \/ asked' \in Choice(Slot, stack) /\ UNCHANGED <<stack, status>>
  BY DEF OptionSome, Methods
<1> HIDE DEF methods
<1>2. CASE Fail("short")
  BY <1>2, FailDocument DEF Failures
<1>3. CASE asked' \in Choice(Slot, stack) /\ UNCHANGED <<stack, status>>
  <2>1. stack \in Seq(Access) /\ ~IsSkip(stack) /\ status = "reading" /\ asked # "nothing"
    BY <1>1, AskingTop
  <2>2. asked' # "nothing"
    BY <1>3, <2>1, ChoiceType
  <2>3. Reading(stack, consumed, asked, ahead)
    BY <2>1 DEF DocumentInv
  <2>4. Reading(stack', consumed', asked', ahead')
    BY <1>1, <1>3, <2>1, <2>2, <2>3 DEF Reading, Stay
  <2> QED
    BY <1>3, <2>1, <2>4 DEF DocumentInv, OnlyEnumsAreSurprised
<1> QED
  BY <1>1, <1>2, <1>3

LEMMA WrapperDocument ==
    ASSUME OrderlyCallers, Separated, CallsInv, CallsInv', FlagInv, DocumentInv, Wrapper
    PROVE  DocumentInv'
<1> DEFINE methods == {"wrapper"}
           g == NewFrame("wrapper", "idle", "Done", 0, FALSE)
           l == Innermost(consumed)
<1>1. /\ Asking(methods) /\ Stay /\ methods \in SUBSET Methods /\ asked = "wrapper"
      /\ Enter(g, "nothing")
  BY DEF Wrapper, Methods, Asking
<1> HIDE DEF methods
<1>2. SlotIn(stack) \notin {"key", "variant", "attributes"}
  BY <1>1, AskedThere
<1>3. IsNode(l, ahead)
  BY <1>1, <1>2, AskedThere
<1>4. g \in Access /\ g.access = "wrapper" /\ g.turn = "idle" /\ g.count = 0
  BY DEF NewFrame, Access, Accesses, Turns, FlatStates
<1> HIDE DEF g
<1>5. CASE Fail("limit")
  BY <1>5, FailDocument DEF Failures
<1>6. CASE stack' = Append(stack, g) /\ asked' = "nothing" /\ status' = status
  <2>1. Holds(g) = "nothing" /\ Opened(g) = 0
    BY <1>4 DEF Holds, Opened, Containers
  <2>2. Suits(SlotIn(stack), g)
    BY <1>2, <1>4 DEF Suits
  <2>3. TurnFits(SlotIn(stack), g, l, ahead')
    BY <1>1, <1>3, <1>4 DEF TurnFits, Stay, Containers
  <2>4. Levels(consumed, consumed', Len(consumed) + Opened(g), l)
    <3>1. Len(consumed) + 0 = Len(consumed)
      BY FoundedType DEF CallsInv, Sound
    <3> QED
      BY <1>1, <2>1, <3>1, SameLevels DEF Stay
  <2> QED
    BY <1>1, <1>4, <1>6, <2>1, <2>2, <2>3, <2>4, EnterDocument
<1> QED
  BY <1>1, <1>5, <1>6 DEF Enter

LEMMA FlatDocument ==
    ASSUME OrderlyCallers, Separated, CallsInv, CallsInv', FlagInv, DocumentInv, Flat
    PROVE  DocumentInv'
<1> DEFINE methods == {"any", "flat"}
           g == NewFrame("flat", "idle", FlatEntered(ahead), 0, FALSE)
           l == Innermost(consumed)
<1>1. /\ Asking(methods) /\ methods \in SUBSET Methods
      /\ asked = "flat" \/ (asked = "any" /\ ~is_reading_attributes /\ ahead = "BeginAttributes")
  BY DEF Flat, Methods, Asking
<1>2. \/ Fail("short")
      \/ /\ Enter(g, "nothing") /\ (ahead = "eof" => ~(depth < max_depth))
         /\ IF FlatEntered(ahead) = "ValueOnly" \/ depth = max_depth THEN Stay ELSE Consume
  BY DEF Flat
<1> HIDE DEF methods
<1>3. SlotIn(stack) \notin {"key", "variant", "attributes"}
  BY <1>1, AskedThere DEF IsKey
<1>4. IsNode(l, ahead) /\ Sound(consumed, ahead)
  BY <1>1, <1>3, AskedThere
<1>5. ahead \in {"eof"} \cup Atoms \cup Openings
  BY <1>4, NextNode
<1>6. FlatEntered(ahead) \in FlatStates
  BY DEF FlatEntered, FlatStates
<1>7. /\ g \in Access /\ g.access = "flat" /\ g.turn = "idle" /\ g.state = FlatEntered(ahead)
      /\ g.is_map_wrapped = FALSE
  BY <1>6 DEF NewFrame, Access, Accesses, Turns
<1> HIDE DEF g
<1>8. CASE Fail("short") \/ Fail("limit")
  BY <1>8, FailDocument DEF Failures
<1>9. ASSUME ~Fail("short"), ~Fail("limit") PROVE DocumentInv'
  <2>1. /\ stack' = Append(stack, g) /\ asked' = "nothing" /\ status' = status
        /\ depth' = depth + 1 /\ ~(depth' > max_depth)
    BY <1>2, <1>9 DEF Enter
  <2>2. depth \in Nat /\ max_depth \in Nat
    BY <1>1, AskingTop
  <2>3. depth < max_depth /\ depth # max_depth
    BY <2>1, <2>2
  <2>4. /\ ahead # "eof"
        /\ IF FlatEntered(ahead) = "ValueOnly" THEN Stay ELSE Consume
    BY <1>2, <1>9, <2>3
  <2>5. Suits(SlotIn(stack), g) /\ g.access # "skip" /\ Len(consumed) \in Nat
    BY <1>3, <1>4, <1>7, FoundedType DEF Suits, Sound
  <2>6. CASE ahead \in {"BeginAttributes", "BeginMap"}
    <3> DEFINE m == [kind |-> Bracket(ahead), want |-> "first"]
    <3>1. /\ g.state = (IF ahead = "BeginMap" THEN "Body" ELSE "Attributes") /\ Consume
      BY <1>7, <2>4, <2>6 DEF FlatEntered
    <3>2. Levels(consumed, consumed', Len(consumed) + 1, m)
      BY <2>6, <3>1, ReadOpening DEF Openings
    <3>3. Holds(g) = m.kind /\ Opened(g) = 1
      BY <1>7, <2>6, <3>1 DEF Holds, Opened, Bracket, Containers
    <3>4. TurnFits(SlotIn(stack), g, m, ahead')
      BY <1>7, <3>1 DEF TurnFits, FlatFits, Closable, Containers
    <3>5. Levels(consumed, consumed', Len(consumed) + Opened(g), m)
      BY <3>2, <3>3
    <3> HIDE DEF m
    <3> QED
      BY <1>1, <1>7, <2>1, <2>5, <3>3, <3>4, <3>5, EnterDocument
  <2>7. CASE ahead = "entity"
    <3> DEFINE m == [kind |-> l.kind, want |-> "more"]
    <3>1. g.state = "Done" /\ Consume
      BY <1>7, <2>4, <2>7 DEF FlatEntered
    <3>2. Levels(consumed, consumed', Len(consumed), m)
      BY <1>4, <2>7, <3>1, ReadAtom DEF IsNode, Atoms
    <3>3. Holds(g) = "nothing" /\ Opened(g) = 0
      BY <1>7, <3>1 DEF Holds, Opened, Containers
    <3>4. TurnFits(SlotIn(stack), g, m, ahead')
      BY <1>7, <3>1 DEF TurnFits, FlatFits, Containers
    <3>5. Levels(consumed, consumed', Len(consumed) + Opened(g), m)
      BY <2>5, <3>2, <3>3
    <3> HIDE DEF m
    <3> QED
      BY <1>1, <1>7, <2>1, <2>5, <3>3, <3>4, <3>5, EnterDocument
  <2>8. CASE ahead \notin {"BeginAttributes", "BeginMap", "entity"}
    <3>1. g.state = "ValueOnly" /\ Stay
      BY <1>7, <2>4, <2>8 DEF FlatEntered
    <3>2. Holds(g) = "nothing" /\ Opened(g) = 0
      BY <1>7, <3>1 DEF Holds, Opened, Containers
    <3>3. TurnFits(SlotIn(stack), g, l, ahead')
      BY <1>4, <1>7, <3>1 DEF TurnFits, FlatFits, Stay, Containers
    <3>4. Levels(consumed, consumed', Len(consumed) + Opened(g), l)
      <4>1. Len(consumed) + 0 = Len(consumed)
        BY <2>5
      <4> QED
        BY <3>1, <3>2, <4>1, SameLevels DEF Stay
    <3> HIDE DEF l
    <3> QED
      BY <1>1, <1>7, <2>1, <2>5, <3>2, <3>3, <3>4, EnterDocument
  <2> QED
    BY <2>6, <2>7, <2>8
<1> QED
  BY <1>8, <1>9

LEMMA EnumDocument ==
    ASSUME OrderlyCallers, Separated, CallsInv, CallsInv', FlagInv, DocumentInv, Enum
    PROVE  DocumentInv'
<1> DEFINE methods == {"enum"}
           g == NewFrame("enum", "variant", "Done", 0, ahead = "BeginMap")
           l == Innermost(consumed)
<1>1. /\ Asking(methods) /\ methods \in SUBSET Methods /\ asked = "enum"
      /\ \/ Fail("short")
         \/ /\ AskIn(Append(stack, g)) /\ UNCHANGED status /\ ahead # "eof"
            /\ IF ahead = "BeginMap" THEN Consume ELSE Stay
  BY DEF Enum, Methods, Asking
<1> HIDE DEF methods
<1>2. /\ SlotIn(stack) \notin {"variant", "attributes"} /\ stack \in Seq(Access)
      /\ Sound(consumed, ahead) /\ Len(consumed) \in Nat
  <2>1. SlotIn(stack) \notin {"variant", "attributes"} /\ stack \in Seq(Access) /\ Sound(consumed, ahead)
    BY <1>1, AskedThere, AskingTop
  <2> QED
    BY <2>1, FoundedType DEF Sound
<1>3. /\ g \in Access /\ g.access = "enum" /\ g.turn = "variant"
      /\ g.is_map_wrapped <=> ahead = "BeginMap"
  BY DEF NewFrame, Access, Accesses, Turns, FlatStates
<1> HIDE DEF g
<1>4. SlotOf(g) = "variant" /\ g.access # "skip"
  BY <1>3 DEF SlotOf
<1>5. CASE Fail("short")
  BY <1>5, FailDocument DEF Failures
<1>6. CASE AskIn(Append(stack, g)) /\ UNCHANGED status /\ ahead = "BeginMap" /\ Consume
  <2> DEFINE m == [kind |-> "map", want |-> "first"]
  <2>1. stack' = Append(stack, g) /\ asked' # "nothing"
    BY <1>2, <1>3, <1>6, Pushed, AskInType
  <2>2. SlotIn(stack) # "key"
    BY <1>1, <1>6, AskedThere DEF IsKey
  <2>3. Suits(SlotIn(stack), g)
    BY <1>2, <1>3, <2>2 DEF Suits
  <2>4. Holds(g) = "map" /\ Opened(g) = 1
    BY <1>3, <1>6 DEF Holds, Opened, Containers
  <2>5. Levels(consumed, consumed', Len(consumed) + Opened(g), m)
    BY <1>6, <2>4, ReadOpening DEF Openings, Bracket
  <2>6. IsThere(PlaceOf(SlotIn(stack), g), m, ahead')
    <3>1. PlaceOf(SlotIn(stack), g) = "name"
      BY <1>3, <1>4, <1>6 DEF PlaceOf
    <3> QED
      BY <3>1 DEF IsThere, TakesKey, Paired
  <2>7. m.kind = Holds(g)
    BY <2>4
  <2> HIDE DEF m
  <2> QED
    BY <1>1, <1>3, <1>4, <1>6, <2>1, <2>3, <2>5, <2>6, <2>7, EnterDocument
<1>7. CASE AskIn(Append(stack, g)) /\ UNCHANGED status /\ ahead # "BeginMap" /\ Stay
  <2>1. stack' = Append(stack, g) /\ asked' # "nothing"
    BY <1>2, <1>3, <1>7, Pushed, AskInType
  <2>2. Suits(SlotIn(stack), g)
    BY <1>2, <1>3, <1>7 DEF Suits
  <2>3. Holds(g) = "nothing" /\ Opened(g) = 0
    BY <1>3, <1>7 DEF Holds, Opened, Containers
  <2>4. Levels(consumed, consumed', Len(consumed) + Opened(g), l)
    <3>1. Len(consumed) + 0 = Len(consumed)
      BY <1>2
    <3> QED
      BY <1>7, <2>3, <3>1, SameLevels DEF Stay
  <2>5. IsThere(PlaceOf(SlotIn(stack), g), l, ahead')
    <3>1. PlaceOf(SlotIn(stack), g) = IF SlotIn(stack) = "key" THEN "key" ELSE "node"
      BY <1>3, <1>4, <1>7 DEF PlaceOf
    <3>2. CASE SlotIn(stack) = "key"
      BY <1>1, <1>7, <3>1, <3>2, AskedThere DEF IsThere, Stay
    <3>3. CASE SlotIn(stack) # "key"
      <4>1. IsNode(l, ahead)
        BY <1>1, <1>2, <3>3, AskedThere
      <4> QED
        BY <1>7, <3>1, <3>3, <4>1 DEF IsThere, Stay
    <3> QED
      BY <3>2, <3>3
  <2> QED
    BY <1>1, <1>3, <1>4, <1>7, <2>1, <2>2, <2>3, <2>4, <2>5, EnterDocument
<1> QED
  BY <1>1, <1>5, <1>6, <1>7

-----------------------------------------------------------------------------
(***************************************************************************)
(* Attributes are skipped.                                                 *)
(***************************************************************************)
LEMMA SkippedFinite ==
    ASSUME NEW d, Len(d) \in Nat, NEW n \in Nat
    PROVE  IsFiniteSet(Skipped(d, n)) /\ Cardinality(Skipped(d, n)) \in Nat
<1>1. IsFiniteSet((n + 1)..Len(d))
  BY FS_Interval
<1>2. IsFiniteSet(Skipped(d, n))
  BY <1>1, FS_Subset DEF Skipped
<1> QED
  BY <1>2, FS_CardinalityType

\* One level more.
LEMMA SkippedEntered ==
    ASSUME NEW d, Len(d) \in Nat, NEW n \in Nat, n <= Len(d),
           NEW e, NEW l, Levels(d, e, Len(d) + 1, l)
    PROVE  Cardinality(Skipped(e, n)) =
              Cardinality(Skipped(d, n)) + (IF l.kind = "attributes" THEN 1 ELSE 0)
<1> DEFINE m == Len(d) + 1
<1>1. m \in Nat /\ Len(e) = m /\ e[m] = l /\ \A i \in 1..Len(d) : e[i].kind = d[i].kind
  BY DEF Levels, Innermost
<1>2. IsFiniteSet(Skipped(d, n)) /\ Cardinality(Skipped(d, n)) \in Nat
  BY SkippedFinite
<1>3. m \notin Skipped(d, n)
  BY DEF Skipped
<1>4. CASE l.kind = "attributes"
  <2>1. Skipped(e, n) = Skipped(d, n) \cup {m}
    BY <1>1, <1>4 DEF Skipped
  <2> QED
    BY <1>2, <1>3, <1>4, <2>1, FS_AddElement
<1>5. CASE l.kind # "attributes"
  <2>1. Skipped(e, n) = Skipped(d, n)
    BY <1>1, <1>5 DEF Skipped
  <2> QED
    BY <1>2, <1>5, <2>1
<1> QED
  BY <1>4, <1>5

LEMMA SkipAttributesDocument ==
    ASSUME OrderlyCallers, Separated, CallsInv, CallsInv', FlagInv, DocumentInv, SkipAttributes
    PROVE  DocumentInv'
<1> DEFINE methods == {"typed", "option", "enum"}
           g == NewFrame("skip", "idle", "Done", 1, FALSE)
           d == consumed
           n == Reach(stack)
           l == [kind |-> "attributes", want |-> "first"]
<1>1. /\ Asking(methods) /\ methods \in SUBSET Methods /\ ~is_reading_attributes
      /\ ahead = "BeginAttributes" /\ Consume /\ Enter(g, asked)
  BY DEF SkipAttributes, Methods
<1> HIDE DEF methods
<1>2. CASE Fail("limit")
  BY <1>2, FailDocument DEF Failures
<1>3. CASE stack' = Append(stack, g) /\ asked' = asked /\ status' = status
  <2>1. /\ stack \in Seq(Access) /\ Suited(stack) /\ Matches(stack, d) /\ Len(d) = n
        /\ IsThere(Place(stack), Innermost(d), ahead) /\ status = "reading"
    BY <1>1, AskingTop, AskingDocument
  <2>2. n \in Nat /\ n >= 1
    BY <2>1, ReachType
  <2>3. Levels(d, consumed', Len(d) + 1, l) /\ TakesNode(Innermost(d))
    BY <1>1, ReadOpening DEF Openings, Bracket
  <2>4. Place(stack) = "node"
    <3>1. Place(stack) \in {"key", "name", "node"}
      BY DEF Place, PlaceOf
    <3>2. Place(stack) # "node" => TakesKey(Innermost(d))
      BY <2>1, <3>1 DEF IsThere, IsKey
    <3> QED
      BY <2>3, <3>2 DEF TakesKey, TakesNode
  <2>5. g \in Access /\ g.access = "skip" /\ g.count = 1
    BY DEF NewFrame, Access, Accesses, Turns, FlatStates
  <2> HIDE DEF g, n
  <2>6. stack' # <<>> /\ Last(stack') = g /\ Front(stack') = stack
    BY <1>3, <2>1, <2>5, Pushed
  <2>7. /\ Len(consumed') = n + 1 /\ consumed'[n + 1].kind = "attributes"
        /\ \A i \in 1..n : consumed'[i].kind = d[i].kind
    BY <2>1, <2>2, <2>3 DEF Levels, Innermost
  <2>8. Matches(stack, consumed')
    BY <2>1, <2>7, MatchesAgree DEF n
  <2>9. Cardinality(Skipped(consumed', n)) = 1
    <3>1. Skipped(consumed', n) = {n + 1}
      BY <2>2, <2>7 DEF Skipped
    <3>2. Cardinality({n + 1}) = 1
      BY FS_Singleton
    <3> QED
      BY <3>1, <3>2
  <2>10. Discarding(stack, g, consumed')
    BY <2>1, <2>2, <2>4, <2>5, <2>7, <2>8, <2>9 DEF Discarding, n
  <2> QED
    BY <1>3, <2>1, <2>5, <2>6, <2>10 DEF DocumentInv, IsSkip, OnlyEnumsAreSurprised
<1> QED
  BY <1>1, <1>2, <1>3 DEF Enter

LEMMA SkipShortDocument ==
    ASSUME OrderlyCallers, Separated, CallsInv, CallsInv', FlagInv, DocumentInv, SkipShort
    PROVE  DocumentInv'
BY RefuseDocument DEF SkipShort

\* While attributes are skipped.
LEMMA SkippingDocument ==
    ASSUME CallsInv, DocumentInv, Skipping
    PROVE  /\ Discarding(Front(stack), Top, consumed)
           /\ Reach(Front(stack)) \in Nat /\ Reach(Front(stack)) >= 1
<1>1. status = "reading" /\ IsSkip(stack) /\ Top = Last(stack) /\ Front(stack) \in Seq(Access)
  BY SkippingTop
<1> QED
  BY <1>1, ReachType DEF DocumentInv

\* A token that does not end what is skipped.
LEMMA SkipsToken ==
    ASSUME Separated, CallsInv, Consume, NEW n \in Nat, n >= 1, Len(consumed) > n,
           consumed[n + 1].kind = "attributes",
           Top.count = Cardinality(Skipped(consumed, n)), Counted # 0
    PROVE  /\ Len(consumed') > n /\ Counted = Cardinality(Skipped(consumed', n))
           /\ \A i \in 1..(n + 1) : consumed'[i].kind = consumed[i].kind
<1> DEFINE d == consumed
           e == consumed'
           l == Innermost(d)
<1>1. Len(d) \in Nat /\ ahead \in Tokens /\ l = d[Len(d)]
  BY Reads
<1>2. IsFiniteSet(Skipped(d, n)) /\ Cardinality(Skipped(d, n)) \in Nat
  BY <1>1, SkippedFinite
<1>3. ASSUME NEW m, Levels(d, e, Len(d), m), m.kind = l.kind,
             ahead \notin {"BeginAttributes", "EndAttributes"}
      PROVE  /\ Len(e) > n /\ Counted = Cardinality(Skipped(e, n))
             /\ \A i \in 1..(n + 1) : e[i].kind = d[i].kind
  <2>1. Len(e) = Len(d) /\ \A i \in 1..Len(d) : e[i].kind = d[i].kind
    BY <1>1, <1>3 DEF Levels
  <2>2. Skipped(e, n) = Skipped(d, n)
    BY <2>1 DEF Skipped
  <2>3. Counted = Top.count
    BY <1>3 DEF Counted
  <2>4. \A i \in 1..(n + 1) : e[i].kind = d[i].kind
    BY <1>1, <2>1
  <2> QED
    BY <2>1, <2>2, <2>3, <2>4
<1>4. CASE ahead = "ItemSeparator"
  <2>1. PICK want \in Wants : Levels(d, e, Len(d), [kind |-> l.kind, want |-> want])
    BY <1>4, ReadSeparator
  <2> QED
    BY <1>3, <1>4, <2>1
<1>5. CASE ahead \in Openings
  <2> DEFINE m == [kind |-> Bracket(ahead), want |-> "first"]
  <2>1. Levels(d, e, Len(d) + 1, m)
    BY <1>5, ReadOpening
  <2>2. m.kind = "attributes" <=> ahead = "BeginAttributes"
    BY <1>5 DEF Bracket, Openings
  <2> HIDE DEF m
  <2>3. Cardinality(Skipped(e, n)) = Cardinality(Skipped(d, n)) + (IF m.kind = "attributes" THEN 1 ELSE 0)
    BY <1>1, <2>1, SkippedEntered
  <2>4. Counted = Top.count + (IF m.kind = "attributes" THEN 1 ELSE 0)
    <3>1. ahead # "EndAttributes"
      BY <1>5 DEF Openings
    <3> QED
      BY <1>2, <2>2, <3>1 DEF Counted
  <2>5. Len(e) > n /\ \A i \in 1..(n + 1) : e[i].kind = d[i].kind
    BY <1>1, <2>1 DEF Levels
  <2> QED
    BY <2>3, <2>4, <2>5
<1>6. CASE ahead \in Closing
  <2> DEFINE k == Len(d) - 1
             m == [kind |-> d[k].kind, want |-> IF ahead = "EndAttributes" THEN "node" ELSE "more"]
  <2>1. l.kind = Bracket(ahead) /\ k \in 1..Len(d) /\ Levels(d, e, k, m)
    BY <1>6, ReadClosing
  <2>2. l.kind = "attributes" <=> ahead = "EndAttributes"
    BY <1>6, <2>1 DEF Bracket, Closing
  <2> HIDE DEF m
  <2>3. Len(e) = k /\ k \in Nat /\ Len(d) = k + 1 /\ \A i \in 1..k : e[i].kind = d[i].kind
    BY <1>1, <2>1 DEF Levels
  <2>4. IsFiniteSet(Skipped(e, n)) /\ Cardinality(Skipped(e, n)) \in Nat
    BY <2>3, SkippedFinite
  <2>5. k + 1 \notin Skipped(e, n)
    BY <2>3 DEF Skipped
  <2>6. Top.count = Cardinality(Skipped(e, n)) + (IF l.kind = "attributes" THEN 1 ELSE 0)
    <3>1. CASE l.kind = "attributes"
      <4>1. Skipped(d, n) = Skipped(e, n) \cup {k + 1}
        BY <1>1, <2>3, <3>1 DEF Skipped
      <4> QED
        BY <2>4, <2>5, <3>1, <4>1, FS_AddElement
    <3>2. CASE l.kind # "attributes"
      <4>1. Skipped(d, n) = Skipped(e, n)
        BY <1>1, <2>3, <3>2 DEF Skipped
      <4> QED
        BY <2>4, <3>2, <4>1
    <3> QED
      BY <3>1, <3>2
  <2>7. Counted = Cardinality(Skipped(e, n))
    <3>1. ahead # "BeginAttributes"
      BY <1>6 DEF Closing
    <3> QED
      BY <1>2, <2>2, <2>4, <2>6, <3>1 DEF Counted
  <2>8. k # n
    <3> SUFFICES ASSUME k = n PROVE FALSE
      OBVIOUS
    <3>1. Skipped(e, n) = {}
      BY <2>3 DEF Skipped
    <3>2. Counted = 0
      BY <2>7, <3>1, FS_EmptySet
    <3> QED
      BY <3>2
  <2>9. k > n
    BY <2>3, <2>8
  <2>10. \A i \in 1..(n + 1) : e[i].kind = d[i].kind
    BY <2>3, <2>9
  <2> QED
    BY <2>3, <2>7, <2>9, <2>10
<1>7. CASE ahead \notin {"ItemSeparator"} \cup Openings \cup Closing
  <2>1. Takes(l, ahead)
    BY <1>7, Reads
  <2>2. ahead \notin {"BeginAttributes", "EndAttributes"}
    BY <1>7 DEF Openings, Closing
  <2>3. \/ ahead = "string" /\ TakesKey(l)
        \/ ahead \in Atoms /\ TakesNode(l)
        \/ l.want = "equals"
    BY <1>7, <2>1 DEF Takes, Openings, Closing
  <2>4. \E want \in {"equals", "more", "value"} : Levels(d, e, Len(d), [kind |-> l.kind, want |-> want])
    BY <2>3, ReadKey, ReadAtom, ReadEquals
  <2>5. PICK want \in {"equals", "more", "value"} : Levels(d, e, Len(d), [kind |-> l.kind, want |-> want])
    BY <2>4
  <2> QED
    BY <1>3, <2>2, <2>5
<1> QED
  BY <1>4, <1>5, <1>6, <1>7

LEMMA SkipTokenDocument ==
    ASSUME OrderlyCallers, Separated, CallsInv, CallsInv', FlagInv, DocumentInv, SkipToken
    PROVE  DocumentInv'
<1> DEFINE b == Front(stack)
           n == Reach(b)
           d == consumed
           e == consumed'
           g == [Top EXCEPT !.count = Counted]
<1>1. /\ Skipping /\ Counted # 0 /\ Consume
      /\ \/ Fail("limit")
         \/ stack' = [stack EXCEPT ![Len(stack)].count = Counted] /\ UNCHANGED <<asked, status>>
  BY DEF SkipToken
<1>2. CASE Fail("limit")
  BY <1>2, FailDocument DEF Failures
<1>3. CASE stack' = [stack EXCEPT ![Len(stack)].count = Counted] /\ UNCHANGED <<asked, status>>
  <2>1. /\ stack \in Seq(Access) /\ stack # <<>> /\ b \in Seq(Access) /\ Top \in Access
        /\ Top.access = "skip" /\ status = "reading" /\ Top.count \in Nat /\ Top.count >= 1
    BY <1>1, SkippingTop, FrameType
  <2>2. Discarding(b, Top, d) /\ n \in Nat /\ n >= 1
    BY <1>1, SkippingDocument
  <2>3. Counted \in Nat
    BY <2>1 DEF Counted
  <2>4. g \in Access /\ g.access = "skip" /\ g.count = Counted
    BY <2>1, <2>3 DEF Access
  <2>5. stack' = Append(b, g)
    <3>1. [stack EXCEPT ![Len(stack)].count = Counted] = [stack EXCEPT ![Len(stack)] = g]
      BY DEF Top
    <3> QED
      BY <1>3, <2>1, <2>4, <3>1, Replaced
  <2> HIDE DEF g, b
  <2>6. stack' # <<>> /\ Last(stack') = g /\ Front(stack') = b
    BY <2>1, <2>4, <2>5, Pushed
  <2>7. Len(d) \in Nat /\ Len(d) > n /\ Suited(b) /\ Matches(b, d) /\ Place(b) = "node"
        /\ d[n + 1].kind = "attributes" /\ Top.count = Cardinality(Skipped(d, n))
    BY <1>1, <2>2, Reads DEF Discarding
  <2>8. /\ Len(e) > n /\ Counted = Cardinality(Skipped(e, n))
        /\ \A i \in 1..(n + 1) : e[i].kind = d[i].kind
    BY <1>1, <2>1, <2>2, <2>7, SkipsToken DEF n
  <2>9. Matches(b, e)
    BY <2>1, <2>2, <2>7, <2>8, MatchesAgree DEF n
  <2>10. e[n + 1].kind = "attributes"
    BY <2>2, <2>7, <2>8
  <2>11. Discarding(b, g, e)
    BY <2>4, <2>7, <2>8, <2>9, <2>10 DEF Discarding, n
  <2> QED
    BY <1>3, <2>1, <2>4, <2>6, <2>11 DEF DocumentInv, IsSkip, OnlyEnumsAreSurprised
<1> QED
  BY <1>1, <1>2, <1>3

LEMMA OnlyOne ==
    ASSUME NEW S, IsFiniteSet(S), Cardinality(S) = 1, NEW x \in S, NEW y \in S
    PROVE  x = y
<1>1. PICK z : S = {z}
  BY FS_Singleton
<1> QED
  BY <1>1

LEMMA SkipEndDocument ==
    ASSUME OrderlyCallers, Separated, CallsInv, CallsInv', FlagInv, DocumentInv, SkipEnd
    PROVE  DocumentInv'
<1> DEFINE b == Front(stack)
           n == Reach(b)
           d == consumed
           e == consumed'
<1>1. /\ Skipping /\ ahead = "EndAttributes" /\ Counted = 0 /\ Consume /\ stack' = Below
      /\ UNCHANGED <<asked, status>>
  BY DEF SkipEnd
<1>2. /\ b \in Seq(Access) /\ Top \in Access /\ Below = b /\ Waiting(b) /\ Top.count \in Nat
      /\ status = "reading" /\ asked \in Methods
  BY <1>1, SkippingTop, FrameType
<1>3. Discarding(b, Top, d) /\ n \in Nat /\ n >= 1
  BY <1>1, SkippingDocument
<1>4. /\ Len(d) \in Nat /\ Len(d) > n /\ Suited(b) /\ Matches(b, d) /\ Place(b) = "node"
      /\ d[n + 1].kind = "attributes" /\ Top.count = Cardinality(Skipped(d, n))
  BY <1>1, <1>3, Reads DEF Discarding
<1> DEFINE k == Len(d) - 1
           l == [kind |-> d[k].kind, want |-> "node"]
<1>5. Innermost(d).kind = "attributes" /\ Levels(d, e, k, l)
  BY <1>1, ReadClosing DEF Bracket, Closing
<1> HIDE DEF b, n
<1>6. k = n
  <2>1. Top.count = 1
    BY <1>1, <1>2 DEF Counted
  <2>2. n + 1 \in Skipped(d, n) /\ Len(d) \in Skipped(d, n)
    BY <1>3, <1>4, <1>5 DEF Skipped, Innermost
  <2>3. IsFiniteSet(Skipped(d, n)) /\ Cardinality(Skipped(d, n)) = 1
    BY <1>3, <1>4, <2>1, SkippedFinite
  <2>4. n + 1 = Len(d)
    BY <2>2, <2>3, OnlyOne
  <2> QED
    BY <1>3, <1>4, <2>4
<1>7. Len(e) = n /\ Innermost(e) = l /\ \A i \in 1..n : e[i].kind = d[i].kind
  BY <1>3, <1>4, <1>5, <1>6 DEF Levels
<1>8. Matches(b, e)
  BY <1>2, <1>4, <1>7, MatchesAgree DEF n
<1>9. Sound(e, ahead')
  BY <1>1, Reads
<1>10. IsNode(Innermost(e), ahead')
  <2>1. Innermost(e).want = "node"
    BY <1>7
  <2> QED
    BY <1>9, <2>1, NextNode
<1>11. asked # "nothing"
  BY <1>2 DEF Methods
<1>12. Reading(b, e, asked, ahead')
  BY <1>4, <1>7, <1>8, <1>10, <1>11 DEF Reading, IsThere, n
<1>13. ~IsSkip(b)
  <2>1. CASE b = <<>>
    BY <2>1 DEF IsSkip
  <2>2. CASE b # <<>>
    <3>1. Len(b) \in 1..Len(b)
      BY <1>2, <2>2, Split
    <3>2. Shaped(Last(b)) /\ Waits(Last(b))
      BY <1>2, <3>1 DEF Waiting, Last
    <3> QED
      BY <3>2 DEF Shaped, Waits, IsSkip, Containers
  <2> QED
    BY <2>1, <2>2
<1> QED
  BY <1>1, <1>2, <1>12, <1>13 DEF DocumentInv, OnlyEnumsAreSurprised

-----------------------------------------------------------------------------
(***************************************************************************)
(* It is up to the last frame.                                             *)
(***************************************************************************)
LEMMA AtHere ==
    ASSUME CallsInv, DocumentInv, NEW accesses, NEW turn, At(accesses, turn)
    PROVE  /\ stack \in Seq(Access) /\ stack # <<>> /\ Front(stack) \in Seq(Access)
           /\ Top \in Access /\ Top.access \in accesses /\ Top.turn = turn /\ Shaped(Top)
           /\ status = "reading" /\ asked = "nothing" /\ stack = Append(Front(stack), Top)
           /\ Suits(SlotIn(Front(stack)), Top)
           /\ Holds(Top) # "nothing" => Innermost(consumed).kind = Holds(Top)
           /\ TurnFits(SlotIn(Front(stack)), Top, Innermost(consumed), ahead)
           /\ Sound(consumed, ahead) /\ Len(consumed) \in Nat
<1>1. Sound(consumed, ahead) /\ Len(consumed) \in Nat
  BY FoundedType DEF CallsInv, Sound
<1>2. OnTop(Front(stack), Top, consumed)
      /\ TurnFits(SlotIn(Front(stack)), Top, Innermost(consumed), ahead)
  BY AtDocument
<1> QED
  BY <1>1, <1>2, AtTop DEF OnTop

LEMMA PlainPlace ==
    ASSUME NEW s, SlotIn(s) \notin {"key", "variant"}
    PROVE  Place(s) = "node"
BY DEF Place, PlaceOf, SlotIn

\* The last frame is done, without a bracket, and what it read is what was wanted.
LEMMA StayBelow ==
    ASSUME CallsInv, CallsInv', DocumentInv, NEW accesses, NEW turn, At(accesses, turn),
           Complete(Below), Stay, Holds(Top) = "nothing",
           WasRead(Front(stack), Innermost(consumed), ahead)
    PROVE  DocumentInv'
<1> DEFINE l == Innermost(consumed)
<1>1. Opened(Top) = 0 /\ Len(consumed) - 0 = Len(consumed)
  BY AtHere DEF Opened
<1>2. Levels(consumed, consumed', Len(consumed) - Opened(Top), l)
  BY <1>1, SameLevels DEF Stay
<1>3. WasRead(Front(stack), l, ahead')
  BY DEF Stay
<1> HIDE DEF l
<1> QED
  BY <1>2, <1>3, CompleteBelow

\* The turn changes and nothing is read.
LEMMA StayTurn ==
    ASSUME CallsInv, DocumentInv, NEW accesses, NEW turn, At(accesses, turn),
           NEW next \in Turns \ {"key", "variant", "value"}, Turn(next), Stay,
           TurnFits(SlotIn(Front(stack)), [Top EXCEPT !.turn = next], Innermost(consumed), ahead)
    PROVE  DocumentInv'
<1> DEFINE l == Innermost(consumed)
<1>1. Levels(consumed, consumed', Len(consumed), l)
  BY SameLevels DEF Stay
<1>2. TurnFits(SlotIn(Front(stack)), [Top EXCEPT !.turn = next], l, ahead')
  BY DEF Stay
<1> HIDE DEF l
<1> QED
  BY <1>1, <1>2, TurnDocument DEF l

LEMMA OptionEndDocument ==
    ASSUME OrderlyCallers, Separated, CallsInv, CallsInv', FlagInv, DocumentInv, OptionEnd
    PROVE  DocumentInv'
<1>1. At({"option"}, "idle") /\ Complete(Below) /\ Stay
  BY DEF OptionEnd
<1>2. /\ Top.access = "option" /\ Suits(SlotIn(Front(stack)), Top) /\ Shaped(Top)
      /\ TurnFits(SlotIn(Front(stack)), Top, Innermost(consumed), ahead)
  BY <1>1, AtHere
<1>3. SlotIn(Front(stack)) = "attributes"
  BY <1>2 DEF Suits
<1>4. WasRead(Front(stack), Innermost(consumed), ahead)
  BY <1>2, <1>3 DEF WasRead, TurnFits, Containers
<1>5. Holds(Top) = "nothing"
  BY <1>2 DEF Holds, Containers, Shaped
<1> QED
  BY <1>1, <1>4, <1>5, StayBelow

LEMMA WrapperElementDocument ==
    ASSUME OrderlyCallers, Separated, CallsInv, CallsInv', FlagInv, DocumentInv, WrapperElement
    PROVE  DocumentInv'
<1> DEFINE g == [Top EXCEPT !.count = Top.count + 1, !.turn = "value"]
           b == Front(stack)
           l == Innermost(consumed)
<1>1. /\ At({"wrapper"}, "idle") /\ Top.count < 2 /\ Stay /\ UNCHANGED status
      /\ AskIn([stack EXCEPT ![Len(stack)].count = @ + 1, ![Len(stack)].turn = "value"])
  BY DEF WrapperElement
<1>2. /\ stack \in Seq(Access) /\ stack # <<>> /\ Top \in Access /\ b \in Seq(Access)
      /\ Top.access = "wrapper" /\ TurnFits(SlotIn(b), Top, l, ahead) /\ Shaped(Top)
      /\ Len(consumed) \in Nat
  BY <1>1, AtHere
<1>3. Top.count \in Nat /\ ~Top.is_map_wrapped
  BY <1>2, FrameType DEF Shaped
<1>4. /\ g \in Access /\ g.access = "wrapper" /\ g.turn = "value"
      /\ g.is_map_wrapped = Top.is_map_wrapped
  <2> DEFINE n == Top.count + 1
  <2>1. n \in Nat /\ "value" \in Turns
    BY <1>3 DEF Turns
  <2> HIDE DEF n
  <2>2. LET h == [Top EXCEPT !.count = n, !.turn = "value"] IN
        /\ h \in Access /\ h.access = Top.access /\ h.turn = "value"
        /\ h.is_map_wrapped = Top.is_map_wrapped
    BY <1>2, <2>1 DEF Access
  <2> QED
    BY <1>2, <2>2 DEF n
<1>5. AskIn(Append(b, g))
  BY <1>1, <1>2, <1>4, WrapperCounted, Replaced
<1> HIDE DEF g, b
<1>6. stack' = Append(b, g) /\ asked' # "nothing"
  BY <1>2, <1>4, <1>5, Pushed, AskInType
<1>7. Holds(g) = "nothing" /\ Holds(Top) = "nothing" /\ Opened(g) = 0 /\ Opened(Top) = 0
  BY <1>2, <1>4 DEF Holds, Opened, Containers
<1>8. Levels(consumed, consumed', Len(consumed) - Opened(Top) + Opened(g), l)
  <2>1. Len(consumed) - 0 + 0 = Len(consumed)
    BY <1>2
  <2> QED
    BY <1>1, <1>7, <2>1, SameLevels DEF Stay
<1>9. IsThere(PlaceOf(SlotIn(b), g), l, ahead')
  <2>1. SlotOf(g) \notin {"key", "variant"}
    BY <1>4 DEF SlotOf
  <2>2. PlaceOf(SlotIn(b), g) = "node"
    BY <2>1 DEF PlaceOf
  <2>3. IsNode(l, ahead)
    BY <1>1, <1>2, <1>3 DEF TurnFits, Containers
  <2> QED
    BY <1>1, <2>2, <2>3 DEF IsThere, Stay
<1> QED
  BY <1>1, <1>2, <1>4, <1>6, <1>7, <1>8, <1>9, FrameDocument DEF b

LEMMA WrapperEndDocument ==
    ASSUME OrderlyCallers, Separated, CallsInv, CallsInv', FlagInv, DocumentInv, WrapperEnd
    PROVE  DocumentInv'
<1>1. At({"wrapper"}, "idle") /\ Top.count = 2 /\ Complete(Below) /\ Stay
  BY DEF WrapperEnd
<1>2. /\ Top.access = "wrapper" /\ Suits(SlotIn(Front(stack)), Top) /\ Shaped(Top)
      /\ TurnFits(SlotIn(Front(stack)), Top, Innermost(consumed), ahead)
  BY <1>1, AtHere
<1>3. SlotIn(Front(stack)) \notin {"key", "variant", "attributes"}
  BY <1>2 DEF Suits
<1>4. Place(Front(stack)) = "node"
  BY <1>3, PlainPlace
<1>5. WasRead(Front(stack), Innermost(consumed), ahead)
  BY <1>1, <1>2, <1>3, <1>4 DEF WasRead, TurnFits, Containers
<1>6. Holds(Top) = "nothing"
  BY <1>2 DEF Holds, Containers, Shaped
<1> QED
  BY <1>1, <1>5, <1>6, StayBelow

LEMMA NextItemDocument ==
    ASSUME OrderlyCallers, Separated, CallsInv, CallsInv', FlagInv, DocumentInv, NextItem
    PROVE  DocumentInv'
<1> DEFINE g == [Top EXCEPT !.turn = "seek"]
           l == Innermost(consumed)
<1>1. At(Containers \cup {"flat"}, "idle") /\ Turn("seek") /\ Stay
  BY DEF NextItem
<1>2. /\ Top \in Access /\ Top.access \in Containers \cup {"flat"} /\ Top.turn = "idle"
      /\ TurnFits(SlotIn(Front(stack)), Top, l, ahead)
  BY <1>1, AtHere
<1>3. "seek" \in Turns \ {"key", "variant", "value"}
  BY DEF Turns
<1>4. /\ g.access = Top.access /\ g.turn = "seek" /\ g.state = Top.state
  BY <1>2, <1>3, Turned
<1> HIDE DEF g
<1>5. CASE Top.access \in Containers
  <2>1. TurnFits(SlotIn(Front(stack)), g, l, ahead)
    BY <1>2, <1>4, <1>5 DEF TurnFits, Containers
  <2> QED
    BY <1>1, <1>3, <2>1, StayTurn DEF g
<1>6. CASE Top.access = "flat"
  <2>1. TurnFits(SlotIn(Front(stack)), g, l, ahead)
    BY <1>2, <1>4, <1>6 DEF TurnFits, FlatFits, Containers
  <2> QED
    BY <1>1, <1>3, <2>1, StayTurn DEF g
<1> QED
  BY <1>2, <1>5, <1>6

LEMMA SemicolonDocument ==
    ASSUME OrderlyCallers, Separated, CallsInv, CallsInv', FlagInv, DocumentInv, Semicolon
    PROVE  DocumentInv'
<1> DEFINE l == Innermost(consumed)
           m == [kind |-> l.kind, want |-> "first"]
           Here(turn) == At(Containers, turn) \/ (At({"flat"}, turn) /\ Top.state \in {"Attributes", "Body"})
<1>1. /\ \E turn \in {"seek", "closing"} : Here(turn)
      /\ ahead = "ItemSeparator" /\ Consume
      /\ UNCHANGED <<stack, asked, status>>
  BY DEF Semicolon
<1>2. PICK turn \in {"seek", "closing"} : Here(turn)
  BY <1>1
<1>3. At(Containers \cup {"flat"}, turn)
      /\ (Top.access \in Containers \/ (Top.access = "flat" /\ Top.state \in {"Attributes", "Body"}))
  BY <1>2 DEF At
<1>4. /\ stack = Append(Front(stack), Top) /\ Top \in Access /\ Top.turn = turn /\ Shaped(Top)
      /\ Holds(Top) # "nothing" => l.kind = Holds(Top)
      /\ asked = "nothing" /\ Len(consumed) \in Nat
  BY <1>3, AtHere
<1>5. Holds(Top) \in Containers /\ Opened(Top) = 1
  BY <1>3 DEF Holds, Opened, Containers
<1>6. l.kind = Holds(Top) /\ l.kind # "fragment"
  BY <1>4, <1>5 DEF Containers
<1>7. Levels(consumed, consumed', Len(consumed), m)
  BY <1>1, <1>6, ReadSeparator
<1>8. Levels(consumed, consumed', Len(consumed) - Opened(Top) + Opened(Top), m)
  <2>1. Len(consumed) - 1 + 1 = Len(consumed)
    BY <1>4
  <2> QED
    BY <1>5, <1>7, <2>1
<1>9. TurnFits(SlotIn(Front(stack)), Top, m, ahead')
  BY <1>3, <1>4 DEF TurnFits, FlatFits, Closable, Containers
<1>10. (Top.access = "enum" /\ Top.turn = "value") => Top.is_map_wrapped
  BY <1>4
<1>11. m.kind = Holds(Top)
  BY <1>6
<1> HIDE DEF m
<1> QED
  BY <1>1, <1>3, <1>4, <1>8, <1>9, <1>10, <1>11, FrameDocument

LEMMA ItemsOverDocument ==
    ASSUME OrderlyCallers, Separated, CallsInv, CallsInv', FlagInv, DocumentInv, ItemsOver
    PROVE  DocumentInv'
<1> DEFINE g == [Top EXCEPT !.turn = "over"]
           l == Innermost(consumed)
<1>1. (\E turn \in {"seek"} : At(Containers, turn)) /\ Turn("over") /\ Stay
  BY DEF ItemsOver
<1>2. PICK turn \in {"seek"} : At(Containers, turn)
  BY <1>1
<1>3. /\ Top \in Access /\ Top.access \in Containers /\ Top.turn = turn
      /\ TurnFits(SlotIn(Front(stack)), Top, l, ahead)
  BY <1>2, AtHere
<1>4. "over" \in Turns \ {"key", "variant", "value"}
  BY DEF Turns
<1>5. g.access = Top.access /\ g.turn = "over"
  BY <1>3, <1>4, Turned
<1> HIDE DEF g
<1>6. TurnFits(SlotIn(Front(stack)), g, l, ahead)
  BY <1>3, <1>5 DEF TurnFits, Containers
<1> QED
  BY <1>1, <1>2, <1>4, <1>6, StayTurn DEF g

LEMMA VisitorReturnsDocument ==
    ASSUME OrderlyCallers, Separated, CallsInv, CallsInv', FlagInv, DocumentInv, VisitorReturns
    PROVE  DocumentInv'
<1> DEFINE g == [Top EXCEPT !.turn = "closing"]
           l == Innermost(consumed)
<1>1. (\E turn \in {"idle", "over"} : At(Containers, turn)) /\ Turn("closing") /\ Stay
  BY DEF VisitorReturns
<1>2. PICK turn \in {"idle", "over"} : At(Containers, turn)
  BY <1>1
<1>3. /\ Top \in Access /\ Top.access \in Containers /\ Top.turn = turn
      /\ TurnFits(SlotIn(Front(stack)), Top, l, ahead)
  BY <1>2, AtHere
<1>4. "closing" \in Turns \ {"key", "variant", "value"}
  BY DEF Turns
<1>5. g.access = Top.access /\ g.turn = "closing"
  BY <1>3, <1>4, Turned
<1> HIDE DEF g
<1>6. TurnFits(SlotIn(Front(stack)), g, l, ahead)
  BY <1>3, <1>5 DEF TurnFits, Containers
<1> QED
  BY <1>1, <1>2, <1>4, <1>6, StayTurn DEF g

LEMMA AdvanceToItemDocument ==
    ASSUME OrderlyCallers, Separated, CallsInv, CallsInv', FlagInv, DocumentInv, AdvanceToItem
    PROVE  DocumentInv'
<1> DEFINE next == IF Top.access = "list" THEN "value" ELSE "key"
           l == Innermost(consumed)
<1>1. /\ At(Containers, "seek") /\ ahead \notin {"ItemSeparator", Closer[Top.access]}
      /\ \/ Fail("short")
         \/ /\ AskIn([stack EXCEPT ![Len(stack)].turn = next]) /\ UNCHANGED status
            /\ ahead # "eof"
      /\ Stay
  BY DEF AdvanceToItem
<1>2. /\ Top.access \in Containers /\ Top.turn = "seek" /\ Sound(consumed, ahead)
      /\ TurnFits(SlotIn(Front(stack)), Top, l, ahead)
      /\ Holds(Top) # "nothing" => l.kind = Holds(Top)
  BY <1>1, AtHere
<1>3. CASE Fail("short")
  BY <1>3, FailDocument DEF Failures
<1>4. CASE AskIn([stack EXCEPT ![Len(stack)].turn = next]) /\ UNCHANGED status /\ ahead # "eof"
  <2>1. l.kind = Top.access
    BY <1>2 DEF Holds, Containers
  <2>2. Closable(l)
    BY <1>2 DEF TurnFits, Containers
  <2>3. IF Top.access = "list" THEN IsNode(l, ahead) ELSE IsKey(l, ahead)
    BY <1>1, <1>2, <1>4, <2>1, <2>2, NextItems
  <2>4. Levels(consumed, consumed', Len(consumed), l)
    BY <1>1, SameLevels DEF Stay
  <2>5. next \in {"key", "value"} /\ Top.access # "enum"
    BY <1>2 DEF Containers
  <2>6. IF next = "key" THEN IsKey(l, ahead') ELSE IsNode(l, ahead')
    BY <1>1, <2>3 DEF Stay
  <2> HIDE DEF next
  <2> QED
    BY <1>1, <1>4, <2>4, <2>5, <2>6, AskDocument
<1> QED
  BY <1>1, <1>3, <1>4

LEMMA NextValueDocument ==
    ASSUME OrderlyCallers, Separated, CallsInv, CallsInv', FlagInv, DocumentInv, NextValue
    PROVE  DocumentInv'
<1> DEFINE l == Innermost(consumed)
           m == [kind |-> l.kind, want |-> "value"]
           Goes == AskIn([stack EXCEPT ![Len(stack)].turn = "value"])
<1>1. /\ At({"map", "attributes", "flat"}, "keyed")
      /\ IF Top.is_value_only THEN Stay /\ Goes /\ UNCHANGED status
         ELSE IF ahead = "KeyValueSeparator" THEN Consume /\ Goes /\ UNCHANGED status
         ELSE Refuse
  BY DEF NextValue
<1> HIDE DEF Goes
<1>2. /\ Top.access \in {"map", "attributes", "flat"} /\ Top.turn = "keyed" /\ Shaped(Top)
      /\ TurnFits(SlotIn(Front(stack)), Top, l, ahead) /\ Sound(consumed, ahead)
  BY <1>1, AtHere
<1>3. Top.access # "enum" /\ "value" \in {"key", "value"}
  BY <1>2
<1>4. CASE Top.is_value_only
  <2>1. IsNode(l, ahead)
    BY <1>2, <1>4 DEF Shaped, TurnFits, FlatFits, Containers
  <2>2. Levels(consumed, consumed', Len(consumed), l) /\ IsNode(l, ahead')
    BY <1>1, <1>4, <2>1, SameLevels DEF Stay
  <2> QED
    BY <1>1, <1>3, <1>4, <2>2, AskDocument DEF Goes
<1>5. CASE ~Top.is_value_only
  <2>1. l.want = "equals"
    <3>1. CASE Top.access = "flat"
      BY <1>2, <1>5, <3>1 DEF TurnFits, FlatFits, Containers
    <3>2. CASE Top.access # "flat"
      BY <1>2, <3>2 DEF TurnFits, Containers
    <3> QED
      BY <3>1, <3>2
  <2>2. CASE ahead = "KeyValueSeparator"
    <3>1. Consume /\ Goes /\ UNCHANGED status
      BY <1>1, <1>5, <2>2
    <3>2. Levels(consumed, consumed', Len(consumed), m)
      BY <2>1, <3>1, ReadEquals
    <3>3. Sound(consumed', ahead') /\ Innermost(consumed') = m
      BY <3>1, <3>2, Reads DEF Levels
    <3>4. IsNode(m, ahead')
      BY <3>3, NextNode
    <3>5. m.kind = l.kind
      OBVIOUS
    <3> HIDE DEF m
    <3> QED
      BY <1>1, <1>3, <3>1, <3>2, <3>4, <3>5, AskDocument DEF Goes
  <2>3. CASE ahead # "KeyValueSeparator"
    <3>1. ahead = "eof"
      BY <1>2, <2>1, <2>3, NextEquals
    <3> QED
      BY <1>1, <1>5, <2>3, <3>1, RefuseDocument
  <2> QED
    BY <2>2, <2>3
<1> QED
  BY <1>4, <1>5

LEMMA CloseContainerDocument ==
    ASSUME OrderlyCallers, Separated, CallsInv, CallsInv', FlagInv, DocumentInv, CloseContainer
    PROVE  DocumentInv'
<1> DEFINE l == Innermost(consumed)
           m == [kind |-> consumed[Len(consumed) - 1].kind,
                 want |-> IF ahead = "EndAttributes" THEN "node" ELSE "more"]
           b == Front(stack)
<1>1. /\ At(Containers, "closing")
      /\ \/ ahead = Closer[Top.access] /\ Consume /\ Complete(Below)
         \/ Fail("short") \/ Fail("longer")
  BY DEF CloseContainer
<1>2. Top.access \in Containers /\ Suits(SlotIn(b), Top)
  BY <1>1, AtHere
<1>3. CASE Fail("short") \/ Fail("longer")
  BY <1>3, FailDocument DEF Failures
<1>4. CASE ahead = Closer[Top.access] /\ Consume /\ Complete(Below)
  <2>1. ahead \in Closing /\ (ahead = "EndAttributes" <=> Top.access = "attributes")
    BY <1>2, <1>4 DEF Closer, Closing, Containers
  <2>2. Levels(consumed, consumed', Len(consumed) - 1, m)
    BY <1>4, <2>1, ReadClosing
  <2>3. Opened(Top) = 1
    BY <1>2 DEF Opened, Holds, Containers
  <2>4. Sound(consumed', ahead') /\ Innermost(consumed') = m
    BY <1>4, <2>2, Reads DEF Levels
  <2>5. WasRead(b, m, ahead')
    <3>1. CASE Top.access = "attributes"
      <4>1. SlotIn(b) = "attributes"
        BY <1>2, <3>1 DEF Suits
      <4>2. m.want = "node"
        BY <2>1, <3>1
      <4>3. IsNode(m, ahead')
        BY <2>4, <4>2, NextNode
      <4> QED
        BY <4>1, <4>3 DEF WasRead
    <3>2. CASE Top.access # "attributes"
      <4>1. SlotIn(b) \notin {"key", "variant", "attributes"}
        BY <1>2, <3>2 DEF Suits, Containers
      <4>2. Place(b) = "node"
        BY <4>1, PlainPlace
      <4>3. m.want = "more"
        BY <2>1, <3>2
      <4> QED
        BY <4>1, <4>2, <4>3 DEF WasRead
    <3> QED
      BY <3>1, <3>2
  <2> HIDE DEF m
  <2>6. Levels(consumed, consumed', Len(consumed) - Opened(Top), m)
    BY <2>2, <2>3
  <2> QED
    BY <1>1, <1>4, <2>5, <2>6, CompleteBelow
<1> QED
  BY <1>1, <1>3, <1>4

\* A FlatStructAccess goes on in another shape.
FlatBracket(state) ==
    CASE state = "Attributes" -> "attributes" [] state = "Body" -> "map" [] OTHER -> "nothing"

LEMMA FlatToDocument ==
    ASSUME CallsInv, DocumentInv, At({"flat"}, "seek"),
           NEW state \in FlatStates, NEW turn \in {"seek", "over"}, FlatTo(state, turn),
           NEW l, Levels(consumed, consumed',
                         Len(consumed) - Opened(Top) + (IF FlatBracket(state) = "nothing" THEN 0 ELSE 1), l),
           FlatBracket(state) # "nothing" => l.kind = FlatBracket(state) /\ Closable(l),
           state = "Between" => l.want = "node",
           state = "ValueOnly" => IsNode(l, ahead'),
           state = "Done" => l.want = "more"
    PROVE  DocumentInv'
<1> DEFINE g == [Top EXCEPT !.state = state, !.turn = turn]
<1>1. /\ stack \in Seq(Access) /\ stack # <<>> /\ Top \in Access /\ Top.access = "flat"
      /\ Shaped(Top) /\ asked = "nothing"
  BY AtHere
<1>2. turn \in Turns
  BY DEF Turns
<1>3. /\ stack' = Append(Front(stack), g) /\ asked' = asked /\ status' = status
      /\ g \in Access /\ g.access = Top.access /\ g.turn = turn /\ g.state = state
      /\ g.is_value_only = Top.is_value_only /\ g.is_map_wrapped = Top.is_map_wrapped
  BY <1>1, <1>2, FlatToTop DEF FlatTo
<1> HIDE DEF g
<1>4. ~Top.is_map_wrapped
  BY <1>1 DEF Shaped
<1>5. Holds(g) = FlatBracket(state)
  BY <1>1, <1>3, <1>4 DEF Holds, FlatBracket, FlatStates, Containers
<1>6. Levels(consumed, consumed', Len(consumed) - Opened(Top) + Opened(g), l)
  BY <1>5 DEF Opened
<1>7. TurnFits(SlotIn(Front(stack)), g, l, ahead')
  <2>1. FlatFits(g, l, ahead')
    BY <1>3 DEF FlatFits, FlatBracket, FlatStates
  <2> QED
    BY <1>1, <1>3, <2>1 DEF TurnFits, Containers
<1>8. Holds(g) # "nothing" => l.kind = Holds(g)
  BY <1>5
<1>9. ~(g.access = "enum" /\ g.turn = "value")
  BY <1>1, <1>3
<1> QED
  BY <1>1, <1>3, <1>6, <1>7, <1>8, <1>9, FrameDocument

\* It has a key, and its bracket is what it was.
LEMMA FlatKeyDocument ==
    ASSUME CallsInv, DocumentInv, At({"flat"}, "seek"),
           NEW state \in FlatStates, NEW only \in BOOLEAN, FlatKey(state, only),
           FlatBracket(state) = FlatBracket(Top.state),
           NEW l, Levels(consumed, consumed', Len(consumed), l), l.kind = Innermost(consumed).kind,
           IF only THEN IsNode(l, ahead') ELSE l.want = "equals"
    PROVE  DocumentInv'
<1> DEFINE g == [Top EXCEPT !.state = state, !.turn = "keyed", !.is_value_only = only]
<1>1. /\ stack \in Seq(Access) /\ stack # <<>> /\ Top \in Access /\ Top.access = "flat"
      /\ Shaped(Top) /\ asked = "nothing" /\ Len(consumed) \in Nat
      /\ Holds(Top) # "nothing" => Innermost(consumed).kind = Holds(Top)
  BY AtHere
<1>2. /\ g \in Access /\ g.access = Top.access /\ g.turn = "keyed" /\ g.state = state
      /\ g.is_value_only = only /\ g.is_map_wrapped = Top.is_map_wrapped
  BY <1>1 DEF Access, Turns
<1>3. stack' = Append(Front(stack), g) /\ asked' = asked /\ status' = status
  <2>1. stack' = [stack EXCEPT ![Len(stack)] = g] /\ asked' = asked /\ status' = status
    BY DEF FlatKey
  <2> QED
    BY <1>1, <1>2, <2>1, Replaced
<1> HIDE DEF g
<1>4. ~Top.is_map_wrapped /\ Top.state \in FlatStates
  BY <1>1 DEF Shaped, Access
<1>5. Holds(g) = FlatBracket(state) /\ Holds(Top) = FlatBracket(Top.state)
  BY <1>1, <1>2, <1>4 DEF Holds, FlatBracket, FlatStates, Containers
<1>6. Opened(g) = Opened(Top) /\ Opened(g) \in {0, 1}
  BY <1>5 DEF Opened
<1>7. Levels(consumed, consumed', Len(consumed) - Opened(Top) + Opened(g), l)
  <2>1. Len(consumed) - Opened(Top) + Opened(g) = Len(consumed)
    BY <1>1, <1>6
  <2> QED
    BY <2>1
<1>8. TurnFits(SlotIn(Front(stack)), g, l, ahead')
  <2>1. FlatFits(g, l, ahead')
    BY <1>2 DEF FlatFits
  <2> QED
    BY <1>1, <1>2, <2>1 DEF TurnFits, Containers
<1>9. Holds(g) # "nothing" => l.kind = Holds(g)
  BY <1>1, <1>5
<1>10. ~(g.access = "enum" /\ g.turn = "value")
  BY <1>1, <1>2
<1> QED
  BY <1>1, <1>2, <1>3, <1>7, <1>8, <1>9, <1>10, FrameDocument

\* What a FlatStructAccess finds in each of its states.
LEMMA FlatHere ==
    ASSUME CallsInv, DocumentInv, At({"flat"}, "seek")
    PROVE  /\ Top.access = "flat" /\ ~Top.is_map_wrapped /\ Top.state \in FlatStates
           /\ Opened(Top) = (IF FlatBracket(Top.state) = "nothing" THEN 0 ELSE 1)
           /\ FlatBracket(Top.state) # "nothing" =>
                 /\ Innermost(consumed).kind = FlatBracket(Top.state)
                 /\ Closable(Innermost(consumed))
           /\ Top.state = "Between" => Innermost(consumed).want = "node"
           /\ Top.state = "ValueOnly" => IsNode(Innermost(consumed), ahead)
           /\ Top.state = "Done" => Innermost(consumed).want = "more"
           /\ Sound(consumed, ahead) /\ Len(consumed) \in Nat
<1> DEFINE l == Innermost(consumed)
<1>1. /\ Top \in Access /\ Top.access = "flat" /\ Top.turn = "seek" /\ Shaped(Top)
      /\ Holds(Top) # "nothing" => l.kind = Holds(Top)
      /\ TurnFits(SlotIn(Front(stack)), Top, l, ahead)
      /\ Sound(consumed, ahead) /\ Len(consumed) \in Nat
  BY AtHere
<1> HIDE DEF l
<1>2. ~Top.is_map_wrapped /\ Top.state \in FlatStates
  BY <1>1 DEF Shaped, Access
<1>3. Holds(Top) = FlatBracket(Top.state)
  BY <1>1, <1>2 DEF Holds, FlatBracket, FlatStates, Containers
<1>4. FlatFits(Top, l, ahead)
  BY <1>1 DEF TurnFits, Containers
<1>5. /\ FlatBracket(Top.state) # "nothing" => Closable(l)
      /\ Top.state = "Between" => l.want = "node"
      /\ Top.state = "ValueOnly" => IsNode(l, ahead)
      /\ Top.state = "Done" => l.want = "more"
  BY <1>1, <1>2, <1>4 DEF FlatFits, FlatBracket, FlatStates
<1> QED
  BY <1>1, <1>2, <1>3, <1>5 DEF Opened, l

LEMMA FlatAttributesDocument ==
    ASSUME OrderlyCallers, Separated, CallsInv, CallsInv', FlagInv, DocumentInv, FlatAttributes
    PROVE  DocumentInv'
<1> DEFINE l == Innermost(consumed)
<1>1. /\ At({"flat"}, "seek") /\ Top.state = "Attributes" /\ ahead # "ItemSeparator"
      /\ CASE ahead = "EndAttributes" -> Consume /\ FlatTo("Between", "seek")
           [] ahead = "string"        -> Consume /\ FlatKey("Attributes", FALSE)
           [] OTHER                   -> Refuse
  BY DEF FlatAttributes
<1>2. /\ l.kind = "attributes" /\ Closable(l) /\ Opened(Top) = 1
      /\ Sound(consumed, ahead) /\ Len(consumed) \in Nat
  BY <1>1, FlatHere DEF FlatBracket
<1>3. ahead \in {"eof", "EndAttributes"} \/ IsKey(l, ahead)
  BY <1>1, <1>2, NextItems DEF Closer, Containers
<1>4. CASE ahead = "EndAttributes"
  <2> DEFINE m == [kind |-> consumed[Len(consumed) - 1].kind, want |-> "node"]
  <2>1. Consume /\ FlatTo("Between", "seek")
    BY <1>1, <1>4
  <2>2. Levels(consumed, consumed', Len(consumed) - 1, m)
    BY <1>4, <2>1, ReadClosing DEF Closing
  <2>3. Levels(consumed, consumed',
               Len(consumed) - Opened(Top) + (IF FlatBracket("Between") = "nothing" THEN 0 ELSE 1), m)
    <3>1. Len(consumed) - 1 + 0 = Len(consumed) - 1
      BY <1>2
    <3> QED
      BY <1>2, <2>2, <3>1 DEF FlatBracket
  <2>4. m.want = "node"
    OBVIOUS
  <2> HIDE DEF m
  <2> QED
    BY <1>1, <2>1, <2>3, <2>4, FlatToDocument DEF FlatStates, FlatBracket
<1>5. CASE ahead = "string"
  <2> DEFINE m == [kind |-> l.kind, want |-> "equals"]
  <2>1. Consume /\ FlatKey("Attributes", FALSE) /\ TakesKey(l)
    BY <1>1, <1>3, <1>5 DEF IsKey
  <2>2. Levels(consumed, consumed', Len(consumed), m)
    BY <1>5, <2>1, ReadKey
  <2>3. m.kind = l.kind /\ m.want = "equals"
    OBVIOUS
  <2> HIDE DEF m
  <2> QED
    BY <1>1, <2>1, <2>2, <2>3, FlatKeyDocument DEF FlatStates
<1>6. CASE ahead = "eof"
  BY <1>1, <1>6, RefuseDocument
<1> QED
  BY <1>3, <1>4, <1>5, <1>6 DEF IsKey

LEMMA FlatBetweenDocument ==
    ASSUME OrderlyCallers, Separated, CallsInv, CallsInv', FlagInv, DocumentInv, FlatBetween
    PROVE  DocumentInv'
<1> DEFINE l == Innermost(consumed)
<1>1. /\ At({"flat"}, "seek") /\ Top.state = "Between"
      /\ CASE ahead = "BeginMap" -> Consume /\ FlatTo("Body", "seek")
           [] ahead = "entity"   -> Consume /\ FlatTo("Done", "over")
           [] ahead = "eof"      -> Stay /\ Fail("short")
           [] OTHER              -> Stay /\ FlatTo("ValueOnly", "seek")
  BY DEF FlatBetween
<1>2. /\ l.want = "node" /\ Opened(Top) = 0 /\ Sound(consumed, ahead) /\ Len(consumed) \in Nat
  BY <1>1, FlatHere DEF FlatBracket
<1>3. IsNode(l, ahead)
  BY <1>2, NextNode
<1>4. CASE ahead = "BeginMap"
  <2> DEFINE m == [kind |-> "map", want |-> "first"]
  <2>1. Consume /\ FlatTo("Body", "seek")
    BY <1>1, <1>4
  <2>2. Levels(consumed, consumed', Len(consumed) + 1, m)
    BY <1>4, <2>1, ReadOpening DEF Openings, Bracket
  <2>3. Levels(consumed, consumed',
               Len(consumed) - Opened(Top) + (IF FlatBracket("Body") = "nothing" THEN 0 ELSE 1), m)
    <3>1. Len(consumed) - 0 + 1 = Len(consumed) + 1
      BY <1>2
    <3> QED
      BY <1>2, <2>2, <3>1 DEF FlatBracket
  <2>4. m.kind = "map" /\ Closable(m)
    BY DEF Closable
  <2> HIDE DEF m
  <2> QED
    BY <1>1, <2>1, <2>3, <2>4, FlatToDocument DEF FlatStates, FlatBracket
<1>5. CASE ahead = "entity"
  <2> DEFINE m == [kind |-> l.kind, want |-> "more"]
  <2>1. Consume /\ FlatTo("Done", "over")
    BY <1>1, <1>5
  <2>2. Levels(consumed, consumed', Len(consumed), m)
    BY <1>3, <1>5, <2>1, ReadAtom DEF IsNode, Atoms
  <2>3. Levels(consumed, consumed',
               Len(consumed) - Opened(Top) + (IF FlatBracket("Done") = "nothing" THEN 0 ELSE 1), m)
    <3>1. Len(consumed) - 0 + 0 = Len(consumed)
      BY <1>2
    <3> QED
      BY <1>2, <2>2, <3>1 DEF FlatBracket
  <2>4. m.want = "more"
    OBVIOUS
  <2> HIDE DEF m
  <2> QED
    BY <1>1, <2>1, <2>3, <2>4, FlatToDocument DEF FlatStates, FlatBracket
<1>6. CASE ahead = "eof"
  BY <1>1, <1>6, FailDocument DEF Failures
<1>7. CASE ahead \notin {"BeginMap", "entity", "eof"}
  <2>1. Stay /\ FlatTo("ValueOnly", "seek")
    BY <1>1, <1>7
  <2>2. Levels(consumed, consumed',
               Len(consumed) - Opened(Top) + (IF FlatBracket("ValueOnly") = "nothing" THEN 0 ELSE 1), l)
    <3>1. Len(consumed) - 0 + 0 = Len(consumed)
      BY <1>2
    <3> QED
      BY <1>2, <2>1, <3>1, SameLevels DEF FlatBracket, Stay
  <2>3. IsNode(l, ahead')
    BY <1>3, <2>1 DEF Stay
  <2> HIDE DEF l
  <2> QED
    BY <1>1, <2>1, <2>2, <2>3, FlatToDocument DEF FlatStates, FlatBracket
<1> QED
  BY <1>4, <1>5, <1>6, <1>7

LEMMA FlatBodyDocument ==
    ASSUME OrderlyCallers, Separated, CallsInv, CallsInv', FlagInv, DocumentInv, FlatBody
    PROVE  DocumentInv'
<1> DEFINE l == Innermost(consumed)
           g == [Top EXCEPT !.turn = "key", !.is_value_only = FALSE]
           Goes == AskIn([stack EXCEPT ![Len(stack)].turn = "key",
                                       ![Len(stack)].is_value_only = FALSE])
<1>1. /\ At({"flat"}, "seek") /\ Top.state = "Body" /\ ahead # "ItemSeparator"
      /\ CASE ahead = "EndMap" -> Consume /\ FlatTo("Done", "over")
           [] ahead = "eof"    -> Stay /\ Fail("short")
           [] OTHER            -> Stay /\ UNCHANGED status /\ Goes
  BY DEF FlatBody
<1>2. /\ l.kind = "map" /\ Closable(l) /\ Opened(Top) = 1
      /\ Sound(consumed, ahead) /\ Len(consumed) \in Nat
  BY <1>1, FlatHere DEF FlatBracket
<1>3. ahead \in {"eof", "EndMap"} \/ IsKey(l, ahead)
  BY <1>1, <1>2, NextItems DEF Closer, Containers
<1>4. CASE ahead = "EndMap"
  <2> DEFINE m == [kind |-> consumed[Len(consumed) - 1].kind, want |-> "more"]
  <2>1. Consume /\ FlatTo("Done", "over")
    BY <1>1, <1>4
  <2>2. Levels(consumed, consumed', Len(consumed) - 1, m)
    BY <1>4, <2>1, ReadClosing DEF Closing
  <2>3. Levels(consumed, consumed',
               Len(consumed) - Opened(Top) + (IF FlatBracket("Done") = "nothing" THEN 0 ELSE 1), m)
    <3>1. Len(consumed) - 1 + 0 = Len(consumed) - 1
      BY <1>2
    <3> QED
      BY <1>2, <2>2, <3>1 DEF FlatBracket
  <2>4. m.want = "more"
    OBVIOUS
  <2> HIDE DEF m
  <2> QED
    BY <1>1, <2>1, <2>3, <2>4, FlatToDocument DEF FlatStates, FlatBracket
<1>5. CASE ahead = "eof"
  BY <1>1, <1>5, FailDocument DEF Failures
<1>6. CASE ahead \notin {"EndMap", "eof"}
  <2>1. Stay /\ UNCHANGED status /\ Goes /\ IsKey(l, ahead)
    BY <1>1, <1>3, <1>6
  <2>2. /\ stack \in Seq(Access) /\ stack # <<>> /\ Top \in Access /\ Top.access = "flat"
        /\ Front(stack) \in Seq(Access)
    BY <1>1, AtHere
  <2>3. /\ g \in Access /\ g.access = Top.access /\ g.turn = "key" /\ g.state = Top.state
        /\ g.is_value_only = FALSE /\ g.is_map_wrapped = Top.is_map_wrapped
    BY <2>2 DEF Access, Turns
  <2>4. AskIn(Append(Front(stack), g))
    <3>1. Len(stack) \in 1..Len(stack) /\ DOMAIN stack = 1..Len(stack)
      BY <2>2, Split, LenProperties
    <3>2. [stack EXCEPT ![Len(stack)].turn = "key", ![Len(stack)].is_value_only = FALSE]
            = [stack EXCEPT ![Len(stack)] = g]
      BY <3>1 DEF Top
    <3> QED
      BY <2>1, <2>2, <2>3, <3>2, Replaced
  <2> HIDE DEF g
  <2>5. stack' = Append(Front(stack), g) /\ asked' # "nothing"
    BY <2>2, <2>3, <2>4, Pushed, AskInType
  <2>6. Holds(g) = "map" /\ Opened(g) = 1
    BY <1>1, <2>2, <2>3 DEF Holds, Opened, Containers
  <2>7. Levels(consumed, consumed', Len(consumed) - Opened(Top) + Opened(g), l)
    <3>1. Len(consumed) - 1 + 1 = Len(consumed)
      BY <1>2
    <3> QED
      BY <1>2, <2>1, <2>6, <3>1, SameLevels DEF Stay
  <2>8. IsThere(PlaceOf(SlotIn(Front(stack)), g), l, ahead')
    <3>1. SlotOf(g) = "key"
      BY <2>3 DEF SlotOf
    <3>2. PlaceOf(SlotIn(Front(stack)), g) = "key"
      BY <3>1 DEF PlaceOf
    <3> QED
      BY <2>1, <3>2 DEF IsThere, Stay
  <2>9. Holds(g) # "nothing" => l.kind = Holds(g)
    BY <1>2, <2>6
  <2>10. ~(g.access = "enum" /\ g.turn = "value")
    BY <2>3
  <2> HIDE DEF l
  <2> QED
    BY <1>1, <2>1, <2>3, <2>5, <2>7, <2>8, <2>9, <2>10, FrameDocument
<1> QED
  BY <1>4, <1>5, <1>6

LEMMA FlatValueOnlyDocument ==
    ASSUME OrderlyCallers, Separated, CallsInv, CallsInv', FlagInv, DocumentInv, FlatValueOnly
    PROVE  DocumentInv'
<1> DEFINE l == Innermost(consumed)
<1>1. /\ At({"flat"}, "seek") /\ Top.state = "ValueOnly" /\ FlatKey("Done", TRUE) /\ Stay
  BY DEF FlatValueOnly
<1>2. IsNode(l, ahead)
  BY <1>1, FlatHere
<1>3. Levels(consumed, consumed', Len(consumed), l) /\ IsNode(l, ahead')
  BY <1>1, <1>2, SameLevels DEF Stay
<1>4. FlatBracket("Done") = FlatBracket(Top.state) /\ "Done" \in FlatStates
  BY <1>1 DEF FlatBracket, FlatStates
<1> HIDE DEF l
<1> QED
  BY <1>1, <1>3, <1>4, FlatKeyDocument DEF l

LEMMA FlatDoneDocument ==
    ASSUME OrderlyCallers, Separated, CallsInv, CallsInv', FlagInv, DocumentInv, FlatDone
    PROVE  DocumentInv'
<1> DEFINE g == [Top EXCEPT !.turn = "over"]
           l == Innermost(consumed)
<1>1. At({"flat"}, "seek") /\ Top.state = "Done" /\ Turn("over") /\ Stay
  BY DEF FlatDone
<1>2. Top \in Access /\ Top.access = "flat" /\ l.want = "more"
  BY <1>1, AtHere, FlatHere
<1>3. "over" \in Turns \ {"key", "variant", "value"}
  BY DEF Turns
<1>4. g.access = "flat" /\ g.turn = "over" /\ g.state = "Done"
  BY <1>1, <1>2, <1>3, Turned
<1> HIDE DEF g
<1>5. TurnFits(SlotIn(Front(stack)), g, l, ahead)
  BY <1>2, <1>4 DEF TurnFits, FlatFits, Containers
<1> QED
  BY <1>1, <1>3, <1>5, StayTurn DEF g

LEMMA FlatReturnsDocument ==
    ASSUME OrderlyCallers, Separated, CallsInv, CallsInv', FlagInv, DocumentInv, FlatReturns
    PROVE  DocumentInv'
<1>1. At({"flat"}, "over") /\ Complete(Below) /\ Stay
  BY DEF FlatReturns
<1>2. /\ Top \in Access /\ Top.access = "flat" /\ Top.turn = "over" /\ Shaped(Top)
      /\ Suits(SlotIn(Front(stack)), Top)
      /\ TurnFits(SlotIn(Front(stack)), Top, Innermost(consumed), ahead)
  BY <1>1, AtHere
<1>3. Top.state = "Done" /\ ~Top.is_map_wrapped
  <2>1. Top.state \in FlatStates /\ FlatShaped(Top) /\ ~Top.is_map_wrapped
    BY <1>2 DEF Shaped, Access
  <2> QED
    BY <1>2, <2>1 DEF FlatShaped, FlatStates
<1>4. Innermost(consumed).want = "more"
  BY <1>2, <1>3 DEF TurnFits, FlatFits, Containers
<1>5. SlotIn(Front(stack)) \notin {"key", "variant", "attributes"}
  BY <1>2 DEF Suits
<1>6. Place(Front(stack)) = "node"
  BY <1>5, PlainPlace
<1>7. WasRead(Front(stack), Innermost(consumed), ahead)
  BY <1>4, <1>5, <1>6 DEF WasRead
<1>8. Holds(Top) = "nothing"
  BY <1>2, <1>3 DEF Holds, Containers
<1> QED
  BY <1>1, <1>7, <1>8, StayBelow

-----------------------------------------------------------------------------
(***************************************************************************)
(* It is up to an EnumAccess.                                              *)
(***************************************************************************)
\* What an EnumAccess finds.
LEMMA EnumHere ==
    ASSUME CallsInv, DocumentInv, NEW turn, At({"enum"}, turn)
    PROVE  /\ stack # <<>> /\ Top \in Access /\ Top.access = "enum" /\ Top.turn = turn
           /\ Shaped(Top) /\ Top.is_map_wrapped \in BOOLEAN
           /\ Suits(SlotIn(Front(stack)), Top) /\ Sound(consumed, ahead)
           /\ EnumFits(SlotIn(Front(stack)), Top, Innermost(consumed))
           /\ Holds(Top) = (IF Top.is_map_wrapped THEN "map" ELSE "nothing")
           /\ Top.is_map_wrapped => Opened(Top) = 1 /\ Innermost(consumed).kind = "map"
<1>1. /\ stack # <<>> /\ Top \in Access /\ Top.access = "enum" /\ Top.turn = turn /\ Shaped(Top)
      /\ Suits(SlotIn(Front(stack)), Top) /\ Sound(consumed, ahead)
      /\ TurnFits(SlotIn(Front(stack)), Top, Innermost(consumed), ahead)
      /\ Holds(Top) # "nothing" => Innermost(consumed).kind = Holds(Top)
  BY AtHere
<1>2. Top.is_map_wrapped \in BOOLEAN
  BY <1>1 DEF Access
<1>3. EnumFits(SlotIn(Front(stack)), Top, Innermost(consumed))
  BY <1>1 DEF TurnFits, Containers
<1>4. Holds(Top) = (IF Top.is_map_wrapped THEN "map" ELSE "nothing")
  BY <1>1 DEF Holds, Containers
<1>5. Top.is_map_wrapped => Opened(Top) = 1 /\ Innermost(consumed).kind = "map"
  BY <1>1, <1>4 DEF Opened
<1> QED
  BY <1>1, <1>2, <1>3, <1>4, <1>5

\* The turn of an EnumAccess changes, and one token was read.
LEMMA EnumTurnDocument ==
    ASSUME CallsInv, DocumentInv, NEW turn, At({"enum"}, turn), Top.is_map_wrapped,
           NEW next \in {"unit", "closing", "last"}, Turn(next),
           NEW l, Levels(consumed, consumed', Len(consumed), l),
           l.kind = Innermost(consumed).kind,
           l.want = CASE next = "unit" -> "value" [] next = "closing" -> "more" [] OTHER -> "first"
    PROVE  DocumentInv'
<1> DEFINE g == [Top EXCEPT !.turn = next]
<1>1. Top \in Access /\ Top.access = "enum"
  BY EnumHere
<1>2. next \in Turns \ {"key", "variant", "value"}
  BY DEF Turns
<1>3. g.access = "enum" /\ g.turn = next /\ g.is_map_wrapped
  BY <1>1, <1>2, Turned
<1> HIDE DEF g
<1>4. EnumFits(SlotIn(Front(stack)), g, l)
  BY <1>3 DEF EnumFits
<1>5. TurnFits(SlotIn(Front(stack)), g, l, ahead')
  BY <1>3, <1>4 DEF TurnFits, Containers
<1> QED
  BY <1>2, <1>5, TurnDocument DEF g

LEMMA UnitVariantDocument ==
    ASSUME OrderlyCallers, Separated, CallsInv, CallsInv', FlagInv, DocumentInv, UnitVariant
    PROVE  DocumentInv'
<1> DEFINE l == Innermost(consumed)
           m == [kind |-> l.kind, want |-> "value"]
<1>1. /\ At({"enum"}, "tagged")
      /\ IF ~Top.is_map_wrapped THEN Stay /\ Turn("closing")
         ELSE IF ahead = "KeyValueSeparator" THEN Consume /\ Turn("unit")
         ELSE Refuse
  BY DEF UnitVariant
<1>2. /\ stack # <<>> /\ Top \in Access /\ Top.access = "enum" /\ Top.turn = "tagged"
      /\ EnumFits(SlotIn(Front(stack)), Top, l)
  BY <1>1, EnumHere
<1>3. CASE ~Top.is_map_wrapped
  <2> DEFINE g == [Top EXCEPT !.turn = "closing"]
  <2>1. "closing" \in Turns \ {"key", "variant", "value"}
    BY DEF Turns
  <2>2. g.access = "enum" /\ g.turn = "closing" /\ ~g.is_map_wrapped
    BY <1>2, <1>3, <2>1, Turned
  <2> HIDE DEF g
  <2>3. EnumFits(SlotIn(Front(stack)), g, l)
    BY <1>2, <1>3, <2>2 DEF EnumFits
  <2>4. TurnFits(SlotIn(Front(stack)), g, l, ahead)
    BY <2>2, <2>3 DEF TurnFits, Containers
  <2> QED
    BY <1>1, <1>3, <2>1, <2>4, StayTurn DEF g
<1>4. CASE Top.is_map_wrapped /\ ahead = "KeyValueSeparator"
  <2>1. l.want = "equals"
    BY <1>2, <1>4 DEF EnumFits
  <2>2. Levels(consumed, consumed', Len(consumed), m)
    BY <1>1, <1>4, <2>1, ReadEquals
  <2>3. m.kind = l.kind /\ m.want = "value"
    OBVIOUS
  <2> HIDE DEF m
  <2> QED
    BY <1>1, <1>4, <2>2, <2>3, EnumTurnDocument
<1>5. CASE Top.is_map_wrapped /\ ahead # "KeyValueSeparator"
  BY <1>1, <1>2, <1>5, RefuseDocument
<1> QED
  BY <1>3, <1>4, <1>5

LEMMA UnitContentDocument ==
    ASSUME OrderlyCallers, Separated, CallsInv, CallsInv', FlagInv, DocumentInv, UnitContent
    PROVE  DocumentInv'
<1> DEFINE l == Innermost(consumed)
           m == [kind |-> l.kind, want |-> "more"]
<1>1. /\ At({"enum"}, "unit")
      /\ IF ahead = "entity" THEN Consume /\ Turn("closing") ELSE Refuse
  BY DEF UnitContent
<1>2. /\ stack # <<>> /\ Top.access = "enum" /\ Top.turn = "unit" /\ Shaped(Top)
      /\ EnumFits(SlotIn(Front(stack)), Top, l)
  BY <1>1, EnumHere
<1>3. Top.is_map_wrapped
  BY <1>2 DEF Shaped
<1>4. CASE ahead = "entity"
  <2>1. TakesNode(l)
    BY <1>2, <1>3 DEF EnumFits, TakesNode
  <2>2. Levels(consumed, consumed', Len(consumed), m)
    BY <1>1, <1>4, <2>1, ReadAtom DEF Atoms
  <2>3. m.kind = l.kind /\ m.want = "more"
    OBVIOUS
  <2> HIDE DEF m
  <2> QED
    BY <1>1, <1>3, <1>4, <2>2, <2>3, EnumTurnDocument
<1>5. CASE ahead # "entity"
  BY <1>1, <1>2, <1>5, RefuseDocument
<1> QED
  BY <1>4, <1>5

LEMMA ContentVariantDocument ==
    ASSUME OrderlyCallers, Separated, CallsInv, CallsInv', FlagInv, DocumentInv, ContentVariant
    PROVE  DocumentInv'
<1> DEFINE b == Front(stack)
           l == Innermost(consumed)
           m == [kind |-> l.kind, want |-> "value"]
           Goes == AskIn([stack EXCEPT ![Len(stack)].turn = "value"])
<1>1. /\ At({"enum"}, "tagged") /\ (Below # <<>> => stack[Len(Below)].turn # "key")
      /\ IF ahead = "KeyValueSeparator" THEN Consume /\ Goes /\ UNCHANGED status ELSE Refuse
  BY DEF ContentVariant
<1> HIDE DEF Goes
<1>2. /\ stack # <<>> /\ Top.access = "enum" /\ Top.turn = "tagged"
      /\ Top.is_map_wrapped \in BOOLEAN /\ EnumFits(SlotIn(b), Top, l)
      /\ Sound(consumed, ahead)
  BY <1>1, EnumHere
<1>3. CASE ahead # "KeyValueSeparator"
  BY <1>1, <1>2, <1>3, RefuseDocument
<1>4. CASE ahead = "KeyValueSeparator"
  <2>1. l.want = "equals"
    <3>1. Takes(l, ahead)
      BY <1>2, <1>4, NextTaken
    <3> QED
      BY <1>4, <3>1 DEF Takes, Atoms, Closing
  <2>2. SlotIn(b) # "key"
    <3>1. b \in Seq(Access) /\ Top \in Access /\ Below = b /\ stack = Append(b, Top)
      BY <1>1, AtTop
    <3> HIDE DEF b
    <3>2. CASE b = <<>>
      BY <3>2 DEF SlotIn
    <3>3. CASE b # <<>>
      <4>1. Len(b) \in 1..Len(b)
        BY <3>1, <3>3, Split
      <4>2. stack[Len(b)] = Last(b)
        BY <3>1, <4>1, Pushed DEF Last
      <4>3. Last(b).turn # "key"
        BY <1>1, <3>1, <3>3, <4>2
      <4> QED
        BY <3>3, <4>3 DEF SlotIn, SlotOf
    <3> QED
      BY <3>2, <3>3
  <2>3. Top.is_map_wrapped
    BY <1>2, <2>1, <2>2 DEF EnumFits
  <2>4. Consume /\ Goes /\ UNCHANGED status
    BY <1>1, <1>4
  <2>5. Levels(consumed, consumed', Len(consumed), m)
    BY <2>1, <2>4, ReadEquals
  <2>6. Sound(consumed', ahead') /\ Innermost(consumed') = m
    BY <2>4, <2>5, Reads DEF Levels
  <2>7. IsNode(m, ahead')
    BY <2>6, NextNode
  <2>8. m.kind = l.kind /\ "value" \in {"key", "value"}
    OBVIOUS
  <2> HIDE DEF m
  <2> QED
    BY <1>1, <2>3, <2>4, <2>5, <2>7, <2>8, AskDocument DEF Goes
<1> QED
  BY <1>3, <1>4

LEMMA EnumReturnsDocument ==
    ASSUME OrderlyCallers, Separated, CallsInv, CallsInv', FlagInv, DocumentInv, EnumReturns
    PROVE  DocumentInv'
<1> DEFINE b == Front(stack)
           l == Innermost(consumed)
<1>1. At({"enum"}, "closing") /\ ~Top.is_map_wrapped /\ Complete(Below) /\ Stay
  BY DEF EnumReturns
<1>2. /\ Top.access = "enum" /\ Suits(SlotIn(b), Top) /\ EnumFits(SlotIn(b), Top, l)
      /\ Holds(Top) = "nothing"
  BY <1>1, EnumHere
<1>3. CASE SlotIn(b) = "key"
  <2>1. Place(b) = "key"
    BY <1>3 DEF Place, PlaceOf, SlotIn
  <2>2. WasRead(b, l, ahead)
    BY <1>1, <1>2, <1>3, <2>1 DEF WasRead, EnumFits
  <2> QED
    BY <1>1, <1>2, <2>2, StayBelow
<1>4. CASE SlotIn(b) # "key"
  <2>1. SlotIn(b) \notin {"key", "variant", "attributes"}
    BY <1>2, <1>4 DEF Suits
  <2>2. Place(b) = "node"
    BY <2>1, PlainPlace
  <2>3. WasRead(b, l, ahead)
    BY <1>1, <1>2, <2>1, <2>2 DEF WasRead, EnumFits
  <2> QED
    BY <1>1, <1>2, <2>3, StayBelow
<1> QED
  BY <1>3, <1>4

LEMMA EnumDropsDocument ==
    ASSUME OrderlyCallers, Separated, CallsInv, CallsInv', FlagInv, DocumentInv, EnumDrops
    PROVE  DocumentInv'
<1> DEFINE l == Innermost(consumed)
           m == [kind |-> l.kind, want |-> "first"]
<1>1. /\ At({"enum"}, "closing") /\ Top.is_map_wrapped /\ ahead \notin {"EndMap", "eof"}
      /\ Consume /\ Turn(IF ahead = "ItemSeparator" THEN "last" ELSE "closing")
  BY DEF EnumDrops
<1>2. /\ Top.turn = "closing" /\ EnumFits(SlotIn(Front(stack)), Top, l) /\ l.kind = "map"
      /\ Sound(consumed, ahead)
  BY <1>1, EnumHere
<1>3. l.want = "more"
  BY <1>1, <1>2 DEF EnumFits
<1>4. ahead = "ItemSeparator"
  <2>1. ahead \in {"eof", "ItemSeparator", Closer["map"]}
    BY <1>2, <1>3, NextItems DEF Closable, Containers
  <2> QED
    BY <1>1, <2>1 DEF Closer
<1>5. Levels(consumed, consumed', Len(consumed), m)
  BY <1>1, <1>2, <1>4, ReadSeparator
<1>6. m.kind = l.kind /\ m.want = "first"
  OBVIOUS
<1> HIDE DEF m
<1> QED
  BY <1>1, <1>4, <1>5, <1>6, EnumTurnDocument

LEMMA EnumEndDocument ==
    ASSUME OrderlyCallers, Separated, CallsInv, CallsInv', FlagInv, DocumentInv, EnumEnd
    PROVE  DocumentInv'
<1> DEFINE b == Front(stack)
           l == Innermost(consumed)
           m == [kind |-> consumed[Len(consumed) - 1].kind, want |-> "more"]
<1>1. /\ \E turn \in {"last", "closing"} : At({"enum"}, turn) /\ (turn = "closing" => Top.is_map_wrapped)
      /\ IF ahead = "EndMap" THEN Consume /\ Complete(Below) ELSE Refuse
  BY DEF EnumEnd
<1>2. PICK turn \in {"last", "closing"} : At({"enum"}, turn) /\ (turn = "closing" => Top.is_map_wrapped)
  BY <1>1
<1>3. /\ stack # <<>> /\ Top.access = "enum" /\ Top.turn = turn /\ Shaped(Top)
      /\ Suits(SlotIn(b), Top)
  BY <1>2, EnumHere
<1>4. Top.is_map_wrapped
  BY <1>2, <1>3 DEF Shaped
<1>5. Opened(Top) = 1
  BY <1>2, <1>4, EnumHere
<1>6. CASE ahead = "EndMap"
  <2>1. Consume /\ Complete(Below)
    BY <1>1, <1>6
  <2>2. Levels(consumed, consumed', Len(consumed) - 1, m)
    BY <1>6, <2>1, ReadClosing DEF Closing
  <2>3. SlotIn(b) \notin {"key", "variant", "attributes"}
    BY <1>3, <1>4 DEF Suits
  <2>4. Place(b) = "node"
    BY <2>3, PlainPlace
  <2>5. WasRead(b, m, ahead')
    BY <2>3, <2>4 DEF WasRead
  <2>6. Levels(consumed, consumed', Len(consumed) - Opened(Top), m)
    BY <1>5, <2>2
  <2> HIDE DEF m
  <2> QED
    BY <1>2, <2>1, <2>5, <2>6, CompleteBelow
<1>7. CASE ahead # "EndMap"
  BY <1>1, <1>3, <1>7, RefuseDocument
<1> QED
  BY <1>6, <1>7

-----------------------------------------------------------------------------
(***************************************************************************)
(* The invariant, and what it says.                                        *)
(***************************************************************************)
LEMMA EndDocument ==
    ASSUME DocumentInv, End
    PROVE  DocumentInv'
<1>1. status = "read" /\ status' \in {"ended", "trailing"} /\ consumed' = consumed
  BY DEF End
<1>2. consumed' = Whole
  BY <1>1 DEF DocumentInv
<1> QED
  BY <1>1, <1>2 DEF DocumentInv, OnlyEnumsAreSurprised

\* Before anything is read.
LEMMA ReadingNew ==
    ASSUME Separated, NEW a, a # "nothing", NEW t \in Following(NewFragment)
    PROVE  Reading(<<>>, NewFragment, a, t) /\ ~IsSkip(<<>>)
<1> DEFINE l == [kind |-> "fragment", want |-> "value"]
<1>1. NewFragment = <<l>> /\ Len(NewFragment) = 1 /\ Innermost(NewFragment) = l
      /\ NewFragment[1] = l
  BY DEF NewFragment, Innermost
<1>2. Sound(NewFragment, t)
  BY NewSound
<1>3. IsNode(l, t)
  BY <1>1, <1>2, NextNode
<1>4. Len(NewFragment) = Reach(<<>>)
  BY <1>1, ReachAlone
<1> DEFINE s == <<>>
<1>5. s = <<>> /\ Len(s) = 0
  BY EmptySeq
<1> HIDE DEF s
<1>6. \A i \in 1..Len(s) : FALSE
  BY <1>5
<1>7. Suited(s) /\ Matches(s, NewFragment)
  BY <1>1, <1>6 DEF Suited, Matches
<1>8. IsThere(Place(s), l, t) /\ ~IsSkip(s)
  BY <1>3, <1>5 DEF Place, IsThere, IsSkip
<1> HIDE DEF l
<1> QED
  BY <1>1, <1>4, <1>5, <1>7, <1>8 DEF Reading

LEMMA NewDocument ==
    ASSUME Separated, New
    PROVE  DocumentInv'
<1>1. /\ consumed' = NewFragment /\ ahead' \in Following(NewFragment) /\ stack' = <<>>
      /\ asked' \in Asks["plain"] /\ status' = "reading"
  BY DEF New
<1>2. asked' \in Methods
  BY <1>1, AsksAssumption DEF Slots
<1>3. asked' # "nothing"
  BY <1>2 DEF Methods
<1>4. Reading(stack', consumed', asked', ahead') /\ ~IsSkip(stack')
  BY <1>1, <1>3, ReadingNew
<1> QED
  BY <1>1, <1>4 DEF DocumentInv, OnlyEnumsAreSurprised

LEMMA DocumentInit ==
    ASSUME Separated, Init
    PROVE  DocumentInv
<1>1. /\ consumed = NewFragment /\ ahead \in Following(NewFragment) /\ stack = <<>>
      /\ asked \in Asks["plain"] /\ status = "reading"
  BY DEF Init
<1>2. asked \in Methods
  BY <1>1, AsksAssumption DEF Slots
<1>3. asked # "nothing"
  BY <1>2 DEF Methods
<1>4. Reading(stack, consumed, asked, ahead) /\ ~IsSkip(stack)
  BY <1>1, <1>3, ReadingNew
<1> QED
  BY <1>1, <1>4 DEF DocumentInv, OnlyEnumsAreSurprised

LEMMA DocumentStep ==
    ASSUME OrderlyCallers, Separated, CallsInv, CallsInv', FlagInv, DocumentInv, [Next]_vars
    PROVE  DocumentInv'
<1>1. CASE UNCHANGED vars
  BY <1>1 DEF DocumentInv, OnlyEnumsAreSurprised, Top, vars
<1>2. CASE \/ AnyAtom \/ AnyContainer \/ AnyUnexpected \/ Mismatch
           \/ AnyAttributes \/ AnyNoAttributes
  BY <1>2, AnyAtomDocument, AnyContainerDocument, AnyUnexpectedDocument, MismatchDocument,
     AnyAttributesDocument, AnyNoAttributesDocument
<1>3. CASE \/ SkipAttributes \/ SkipToken \/ SkipEnd \/ SkipShort
           \/ OptionOfAttributes \/ OptionEnd \/ OptionNone \/ OptionSome
           \/ Wrapper \/ WrapperElement \/ WrapperEnd
  BY <1>3, SkipAttributesDocument, SkipTokenDocument, SkipEndDocument, SkipShortDocument,
     OptionOfAttributesDocument, OptionEndDocument, OptionNoneDocument, OptionSomeDocument,
     WrapperDocument, WrapperElementDocument, WrapperEndDocument
<1>4. CASE \/ NextItem \/ Semicolon \/ ItemsOver \/ AdvanceToItem \/ NextValue
           \/ VisitorReturns \/ CloseContainer
  BY <1>4, NextItemDocument, SemicolonDocument, ItemsOverDocument, AdvanceToItemDocument,
     NextValueDocument, VisitorReturnsDocument, CloseContainerDocument
<1>5. CASE \/ Flat \/ FlatAttributes \/ FlatBetween \/ FlatBody \/ FlatValueOnly
           \/ FlatDone \/ FlatReturns
  BY <1>5, FlatDocument, FlatAttributesDocument, FlatBetweenDocument, FlatBodyDocument,
     FlatValueOnlyDocument, FlatDoneDocument, FlatReturnsDocument
<1>6. CASE \/ Enum \/ UnitVariant \/ UnitContent \/ ContentVariant
           \/ EnumReturns \/ EnumDrops \/ EnumEnd
  BY <1>6, EnumDocument, UnitVariantDocument, UnitContentDocument, ContentVariantDocument,
     EnumReturnsDocument, EnumDropsDocument, EnumEndDocument
<1>7. CASE End \/ New
  BY <1>7, EndDocument, NewDocument
<1> QED
  BY <1>1, <1>2, <1>3, <1>4, <1>5, <1>6, <1>7 DEF Next

LEMMA DocumentAlways ==
    ASSUME OrderlyCallers, Separated
    PROVE  Spec => []IInv
<1>1. Init => IInv
  BY CallsInit, FlagInit, DocumentInit DEF IInv
<1>2. IInv /\ [Next]_vars => IInv'
  BY CallsStep, FlagStep, DocumentStep DEF IInv
<1> QED
  BY <1>1, <1>2, PTL DEF Spec

LEMMA DocumentImplies ==
    ASSUME IInv
    PROVE  InStep /\ AskedInPlace /\ OnlyEnumsAreSurprised
<1>1. CallsInv /\ DocumentInv
  BY DEF IInv
<1>2. stack \in Seq(Access) /\ (Skips <=> IsSkip(stack)) /\ Slot = SlotIn(stack)
  BY <1>1 DEF CallsInv, Placed, Skips, IsSkip, Slot, SlotIn, Top, Last
<1>3. ASSUME status = "reading", ~Skips
      PROVE  Suited(stack) /\ Matches(stack, consumed) /\ Len(consumed) = Reach(stack)
             /\ (asked # "nothing" => IsThere(Place(stack), Innermost(consumed), ahead))
  BY <1>1, <1>2, <1>3 DEF DocumentInv, Reading
<1>4. InStep
  <2>1. ASSUME status = "reading", ~Skips
        PROVE  /\ Len(consumed) = 1 + Held(stack, Len(stack))
               /\ consumed[1].kind = "fragment"
               /\ \A i \in 1..Len(stack) :
                     Holds(stack[i]) # "nothing" =>
                        consumed[1 + Held(stack, i)].kind = Holds(stack[i])
    BY <1>3, <2>1 DEF Reach, Matches
  <2>2. status \in {"read", "ended"} => consumed = Whole
    BY <1>1 DEF DocumentInv
  <2> QED
    BY <2>1, <2>2 DEF InStep
<1>5. AskedInPlace
  <2> SUFFICES ASSUME asked # "nothing", ~Skips, status = "reading"
               PROVE  LET l == Innermost(consumed)
                      IN  CASE Slot = "key" -> TakesKey(l)
                            [] Slot = "variant" -> TakesKey(l) \/ TakesNode(l)
                            [] OTHER -> TakesNode(l)
    BY DEF AskedInPlace
  <2> DEFINE l == Innermost(consumed)
  <2>1. IsThere(Place(stack), l, ahead)
    BY <1>3
  <2>2. /\ Slot = "key" => Place(stack) = "key"
        /\ Place(stack) \in {"key", "name", "node"}
        /\ Slot \notin {"key", "variant"} => Place(stack) = "node"
    BY <1>2 DEF Place, PlaceOf, SlotIn
  <2> HIDE DEF l
  <2>3. /\ Place(stack) = "node" => TakesNode(l)
        /\ Place(stack) \in {"key", "name"} => TakesKey(l)
    BY <2>1 DEF IsThere, IsKey, IsNode
  <2> QED
    BY <2>2, <2>3 DEF l
<1> QED
  BY <1>1, <1>4, <1>5 DEF DocumentInv

\* The calls in progress and the brackets that are open are in step, whatever is
\* asked for and however far it is read: close_container (de.rs:79) and
\* skip_attributes (de.rs:119) leave nothing behind and read nothing that is not
\* theirs, and a value is read to its end.
THEOREM CallsStayInStep ==
    ASSUME OrderlyCallers, Separated
    PROVE  Spec => []InStep
<1> QED
  BY DocumentAlways, DocumentImplies, PTL

\* A visitor is asked for a key where a key is next, and for a value where one is.
THEOREM AlwaysAskedInPlace ==
    ASSUME OrderlyCallers, Separated
    PROVE  Spec => []AskedInPlace
<1> QED
  BY DocumentAlways, DocumentImplies, PTL

\* Only an enum can find a token that it does not know in a well-formed document.
THEOREM NothingElseIsSurprised ==
    ASSUME OrderlyCallers, Separated
    PROVE  Spec => []OnlyEnumsAreSurprised
<1> QED
  BY DocumentAlways, DocumentImplies, PTL
=============================================================================
