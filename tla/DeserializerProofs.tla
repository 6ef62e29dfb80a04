------------------------- MODULE DeserializerProofs -------------------------
(***************************************************************************)
(* Theorems about the calls of Deserializer, for every nesting and every   *)
(* depth limit: types, the recursion counter and is_reading_attributes.    *)
(*                                                                         *)
(* A frame of the stack is what its access object can be (Shaped), all but *)
(* the innermost wait for a value (Calling), the counter is the number of  *)
(* those that count (Counting), and the flag says that the value that is   *)
(* asked for is the attributes of a WithAttributes (Flagged).              *)
(***************************************************************************)
EXTENDS Deserializer, DocumentProofs, FiniteSetTheorems

\* The callers the theorems are about.  Keys are strings or enums, the attributes
\* of a WithAttributes a map, a struct without attribute fields of its own,
\* anything, or an Option of these; a value may be asked for in every way.
OrderlyCallers ==
    /\ Asks["key"] \subseteq {"any", "typed", "enum"}
    /\ Asks["variant"] \subseteq {"typed"}
    /\ Asks["attributes"] \subseteq {"any", "typed", "option"}

Last(s) == s[Len(s)]
Front(s) == SubSeq(s, 1, Len(s) - 1)

-----------------------------------------------------------------------------
\* What a frame is like, wherever it is on the stack.
FlatShaped(f) ==
    CASE f.state = "Attributes" -> f.turn \in {"idle", "seek", "keyed", "value"}
      [] f.state = "Between"    -> f.turn = "seek"
      [] f.state = "Body"       -> f.turn \in {"idle", "seek", "key", "keyed", "value"}
      [] f.state = "ValueOnly"  -> f.turn \in {"idle", "seek"}
      [] f.state = "Done"       ->
            \/ f.turn \in {"idle", "seek", "over"}
            \/ f.is_value_only /\ f.turn \in {"keyed", "value"}

Shaped(f) ==
    /\ f.is_value_only => f.access = "flat" /\ f.state = "Done"
    /\ f.is_map_wrapped => f.access = "enum"
    /\ CASE f.access = "list" -> f.turn \in {"idle", "seek", "value", "over", "closing"}
         [] f.access \in {"map", "attributes"} ->
               f.turn \in {"idle", "seek", "key", "keyed", "value", "over", "closing"}
         [] f.access = "flat" -> FlatShaped(f)
         [] f.access = "wrapper" ->
               \/ f.turn = "idle" /\ f.count \in 0..2
               \/ f.turn = "value" /\ f.count \in 1..2
         [] f.access = "enum" ->
               \/ f.turn \in {"variant", "tagged", "value", "closing"}
               \/ f.is_map_wrapped /\ f.turn \in {"unit", "last"}
         [] f.access = "option" -> f.turn \in {"idle", "value"}
         [] f.access = "skip" -> f.turn = "idle" /\ f.count >= 1

\* A frame that has asked for a value and waits for it.
Waits(f) == f.turn \in {"key", "variant", "value"}

IsSkip(s) == s # <<>> /\ Last(s).access = "skip"

Waiting(s) == \A i \in 1..Len(s) : Shaped(s[i]) /\ Waits(s[i])

\* Every frame but the last one waits; the last one does if a value is asked for.
Calling(s, a) ==
    IF s = <<>> THEN a # "nothing"
    ELSE /\ Waiting(Front(s))
         /\ Shaped(Last(s))
         /\ a = "nothing" => ~Waits(Last(s)) /\ ~IsSkip(s)
         /\ a # "nothing" => Waits(Last(s)) \/ IsSkip(s)

\* The place a value is asked for, with the frames s around it.
SlotIn(s) == IF s = <<>> THEN "plain" ELSE SlotOf(Last(s))

\* skip_attributes runs in front of a call made for the frame below it.
Asker(s) == IF IsSkip(s) THEN Front(s) ELSE s

Flagged(s, a, flag) ==
    /\ a # "nothing" => a \in Asks[SlotIn(Asker(s))]
    /\ flag <=> a # "nothing" /\ SlotIn(s) = "attributes"
    /\ IsSkip(s) => SlotIn(Front(s)) # "attributes"

Counting(s) == {i \in 1..Len(s) : Counts(s[i])}

\* The next token follows what was read.
Sound(d, t) == Founded(d) /\ t \in Following(d)

Placed(s, a, st, n) ==
    /\ s \in Seq(Access)
    /\ a \in Methods \cup {"nothing"}
    /\ st \in {"reading", "read", "ended"} \cup Failures
    /\ a = "nothing" \/ st # "read"
    /\ n \in Nat
    /\ st = "reading" => Calling(s, a)
    /\ st \in {"reading", "read", "ended"} =>
          n = Cardinality(Counting(s)) /\ n <= max_depth

CallsInv ==
    /\ Sound(consumed, ahead)
    /\ is_reading_attributes \in BOOLEAN
    /\ Placed(stack, asked, status, depth)

FlagInv == status = "reading" => Flagged(stack, asked, is_reading_attributes)


-----------------------------------------------------------------------------
(***************************************************************************)
(* A stack is its last frame on top of the others, and every step is told  *)
(* by what it does to the two.                                             *)
(***************************************************************************)
LEMMA Pushed ==
    ASSUME NEW b \in Seq(Access), NEW f \in Access
    PROVE  /\ Append(b, f) \in Seq(Access) /\ Append(b, f) # <<>>
           /\ Len(b) \in Nat /\ Len(Append(b, f)) = Len(b) + 1
           /\ Append(b, f)[Len(b) + 1] = f
           /\ \A i \in 1..Len(b) : Append(b, f)[i] = b[i]
           /\ Last(Append(b, f)) = f /\ Front(Append(b, f)) = b
<1> DEFINE s == Append(b, f)
<1>1. /\ s \in Seq(Access) /\ s # <<>> /\ Len(b) \in Nat /\ Len(s) = Len(b) + 1
      /\ s[Len(b) + 1] = f /\ \A i \in 1..Len(b) : s[i] = b[i]
  BY AppendProperties, LenProperties
<1> HIDE DEF s
<1>2. Last(s) = f
  BY <1>1 DEF Last
<1>3. Front(s) = b
  <2>1. \A i \in 1..(Len(s) - 1) : s[i] \in Access
    BY <1>1, ElementOfSeq
  <2>2. /\ Front(s) \in Seq(Access) /\ Len(Front(s)) = Len(b)
        /\ \A i \in 1..Len(b) : Front(s)[i] = s[i]
    BY <1>1, <2>1, SubSeqProperties DEF Front
  <2> HIDE DEF Front
  <2> QED
    BY <1>1, <2>2, SeqEqual
<1> QED
  BY <1>1, <1>2, <1>3 DEF s

LEMMA Split ==
    ASSUME NEW s \in Seq(Access), s # <<>>
    PROVE  /\ Len(s) \in Nat /\ Len(s) \in 1..Len(s)
           /\ Front(s) \in Seq(Access) /\ Last(s) \in Access
           /\ s = Append(Front(s), Last(s))
           /\ Len(Front(s)) = Len(s) - 1
<1>1. Len(s) \in Nat /\ Len(s) \in 1..Len(s)
  BY LenProperties, EmptySeq
<1>2. \A i \in 1..Len(s) : s[i] \in Access
  BY ElementOfSeq
<1>3. Last(s) \in Access
  BY <1>1, <1>2 DEF Last
<1>4. /\ Front(s) \in Seq(Access) /\ Len(Front(s)) = Len(s) - 1
      /\ \A i \in 1..(Len(s) - 1) : Front(s)[i] = s[i]
  <2>1. \A i \in 1..(Len(s) - 1) : s[i] \in Access
    BY <1>1, <1>2
  <2> DEFINE n == Len(s) - 1
  <2>2. n \in Int /\ 1 \in Int /\ n >= 0
    BY <1>1
  <2> HIDE DEF n
  <2>3. /\ SubSeq(s, 1, n) \in Seq(Access)
        /\ Len(SubSeq(s, 1, n)) = IF 1 <= n THEN n - 1 + 1 ELSE 0
        /\ \A i \in 1..(n - 1 + 1) : SubSeq(s, 1, n)[i] = s[1 + i - 1]
    BY <2>1, <2>2, SubSeqProperties DEF n
  <2> DEFINE r == SubSeq(s, 1, n)
  <2> HIDE DEF r
  <2>4. Len(r) = n /\ \A i \in 1..n : r[i] = s[i]
    BY <2>2, <2>3 DEF r
  <2> QED
    BY <2>3, <2>4 DEF r, n, Front
<1> DEFINE b == Front(s)
           f == Last(s)
           t == Append(b, f)
<1>5. f = s[Len(s)]
  BY DEF Last
<1> HIDE DEF b, f
<1>6. /\ t \in Seq(Access) /\ Len(t) = Len(b) + 1 /\ t[Len(b) + 1] = f
      /\ \A i \in 1..Len(b) : t[i] = b[i]
  BY <1>3, <1>4, Pushed DEF b, f
<1> HIDE DEF t
<1>7. s = t
  BY <1>1, <1>4, <1>5, <1>6, SeqEqual DEF b
<1> QED
  BY <1>1, <1>3, <1>4, <1>7 DEF b, f, t

\* The last frame is replaced.
LEMMA Replaced ==
    ASSUME NEW s \in Seq(Access), s # <<>>, NEW g \in Access
    PROVE  [s EXCEPT ![Len(s)] = g] = Append(Front(s), g)
<1> DEFINE r == [s EXCEPT ![Len(s)] = g]
           b == Front(s)
           t == Append(b, g)
<1>1. Len(s) \in Nat /\ Len(s) \in 1..Len(s) /\ b \in Seq(Access) /\ Len(b) = Len(s) - 1
  BY Split
<1>2. \A i \in 1..Len(b) : b[i] = s[i]
  <2>1. s = Append(b, Last(s)) /\ Last(s) \in Access
    BY Split
  <2> HIDE DEF b
  <2> QED
    BY <1>1, <2>1, Pushed
<1>3. r \in Seq(Access) /\ Len(r) = Len(s) /\ \A j \in 1..Len(s) : r[j] = IF j = Len(s) THEN g ELSE s[j]
  BY <1>1, ExceptSeq
<1> HIDE DEF r, b
<1>4. /\ t \in Seq(Access) /\ Len(t) = Len(b) + 1 /\ t[Len(b) + 1] = g
      /\ \A i \in 1..Len(b) : t[i] = b[i]
  BY <1>1, Pushed
<1> HIDE DEF t
<1>5. r = t
  BY <1>1, <1>2, <1>3, <1>4, SeqEqual
<1> QED
  BY <1>5 DEF r, b, t

LEMMA FrameType ==
    ASSUME NEW f \in Access
    PROVE  /\ f.access \in Accesses /\ f.turn \in Turns /\ f.state \in FlatStates
           /\ f.count \in Nat /\ f.is_value_only \in BOOLEAN /\ f.is_map_wrapped \in BOOLEAN
           /\ \A turn \in Turns : [f EXCEPT !.turn = turn] \in Access
           /\ SlotOf(f) \in Slots
<1>1. /\ f.access \in Accesses /\ f.turn \in Turns /\ f.state \in FlatStates
      /\ f.count \in Nat /\ f.is_value_only \in BOOLEAN /\ f.is_map_wrapped \in BOOLEAN
  BY DEF Access
<1>2. \A turn \in Turns : [f EXCEPT !.turn = turn] \in Access
  BY DEF Access
<1>3. SlotOf(f) \in Slots
  BY <1>1 DEF SlotOf, Slots
<1> QED
  BY <1>1, <1>2, <1>3

-----------------------------------------------------------------------------
(***************************************************************************)
(* What the definitions above say of a frame f on top of b.                *)
(***************************************************************************)
LEMMA WaitingPush ==
    ASSUME NEW b \in Seq(Access), NEW f \in Access
    PROVE  Waiting(Append(b, f)) <=> Waiting(b) /\ Shaped(f) /\ Waits(f)
<1> DEFINE s == Append(b, f)
           n == Len(b)
<1>1. n \in Nat /\ Len(s) = n + 1 /\ s[n + 1] = f /\ \A i \in 1..n : s[i] = b[i]
  BY Pushed
<1> HIDE DEF s
<1>2. ASSUME Waiting(s) PROVE Waiting(b) /\ Shaped(f) /\ Waits(f)
  <2>1. \A i \in 1..n : i \in 1..(n + 1)
    BY <1>1
  <2>2. n + 1 \in 1..(n + 1)
    BY <1>1
  <2> QED
    BY <1>1, <1>2, <2>1, <2>2 DEF Waiting
<1>3. ASSUME Waiting(b), Shaped(f), Waits(f) PROVE Waiting(s)
  <2>1. \A i \in 1..(n + 1) : i \in 1..n \/ i = n + 1
    BY <1>1
  <2> QED
    BY <1>1, <1>3, <2>1 DEF Waiting
<1> QED
  BY <1>2, <1>3 DEF s

LEMMA CallingPush ==
    ASSUME NEW b \in Seq(Access), NEW f \in Access, NEW a
    PROVE  Calling(Append(b, f), a) <=>
              /\ Waiting(b) /\ Shaped(f)
              /\ a = "nothing" => ~Waits(f) /\ f.access # "skip"
              /\ a # "nothing" => Waits(f) \/ f.access = "skip"
<1>1. Append(b, f) # <<>> /\ Last(Append(b, f)) = f /\ Front(Append(b, f)) = b
  BY Pushed
<1> QED
  BY <1>1 DEF Calling, IsSkip

LEMMA CountingFinite ==
    ASSUME NEW s \in Seq(Access)
    PROVE  IsFiniteSet(Counting(s)) /\ Cardinality(Counting(s)) \in Nat
<1>1. Len(s) \in Nat
  BY LenProperties
<1>2. IsFiniteSet(1..Len(s))
  BY <1>1, FS_Interval
<1>3. Counting(s) \subseteq 1..Len(s)
  BY DEF Counting
<1>4. IsFiniteSet(Counting(s))
  BY <1>2, <1>3, FS_Subset
<1> QED
  BY <1>4, FS_CardinalityType

LEMMA CountingPush ==
    ASSUME NEW b \in Seq(Access), NEW f \in Access
    PROVE  Cardinality(Counting(Append(b, f))) =
              Cardinality(Counting(b)) + (IF Counts(f) THEN 1 ELSE 0)
<1> DEFINE s == Append(b, f)
           n == Len(b)
<1>1. n \in Nat /\ Len(s) = n + 1 /\ s[n + 1] = f /\ \A i \in 1..n : s[i] = b[i]
  BY Pushed
<1>2. IsFiniteSet(Counting(b)) /\ Cardinality(Counting(b)) \in Nat
  BY CountingFinite
<1> HIDE DEF s
<1>3. n + 1 \notin Counting(b)
  BY <1>1 DEF Counting
<1>4. CASE Counts(f)
  <2>1. Counting(s) = Counting(b) \cup {n + 1}
    BY <1>1, <1>4 DEF Counting
  <2>2. Cardinality(Counting(s)) = Cardinality(Counting(b)) + 1
    BY <1>2, <1>3, <2>1, FS_AddElement
  <2> QED
    BY <1>4, <2>2 DEF s
<1>5. CASE ~Counts(f)
  <2>1. Counting(s) = Counting(b)
    BY <1>1, <1>5 DEF Counting
  <2> QED
    BY <1>2, <1>5, <2>1 DEF s
<1> QED
  BY <1>4, <1>5

-----------------------------------------------------------------------------
(***************************************************************************)
(* The document: a token that follows leaves a document.                   *)
(***************************************************************************)
LEMMA TookFounded ==
    ASSUME NEW d, Founded(d), NEW t \in Tokens, Took(d, t) # Rejected
    PROVE  Founded(Took(d, t))
<1> DEFINE e == Expect(d, "first")
<1>1. Founded(e)
  <2>1. d \in Document /\ Len(d) \in Nat /\ Len(d) > 0 /\ Len(d) \in 1..Len(d)
    BY FoundedType
  <2>2. Wanting(d, e, Len(d), "first")
    BY <2>1, ExpectType DEF Wants
  <2> QED
    BY <2>1, <2>2, WantingFounded
<1> HIDE DEF e
<1>2. Took(d, t) \in {e, Feed(d, t), Feed(e, t)}
  BY DEF Took, e
<1> QED
  BY <1>1, <1>2, FeedFounded

LEMMA ConsumeSound ==
    ASSUME Sound(consumed, ahead), Consume
    PROVE  Sound(consumed, ahead)'
<1>1. ahead \in Tokens /\ Took(consumed, ahead) # Rejected
  BY DEF Sound, Consume, Following
<1>2. Founded(Took(consumed, ahead))
  BY <1>1, TookFounded DEF Sound
<1> QED
  BY <1>1, <1>2 DEF Sound, Consume

LEMMA StaySound ==
    ASSUME Sound(consumed, ahead), Stay
    PROVE  Sound(consumed, ahead)'
BY DEF Sound, Stay

LEMMA NewSound ==
    ASSUME NEW t \in Following(NewFragment)
    PROVE  Sound(NewFragment, t)
<1> DEFINE l == [kind |-> "fragment", want |-> "value"]
<1>1. l \in Level
  BY DEF Level, Kinds, Wants
<1> HIDE DEF l
<1>2. <<l>> \in Seq(Level) /\ <<l>> # <<>> /\ <<l>>[1] = l
  BY <1>1
<1> QED
  BY <1>2 DEF Sound, Founded, NewFragment, Document, Rejected, l

-----------------------------------------------------------------------------
(***************************************************************************)
(* The first layer: calls, the counter, and the types of everything.       *)
(***************************************************************************)
LEMMA CallsImply == CallsInv => TypeOK /\ DepthIsNesting
<1> SUFFICES ASSUME CallsInv PROVE TypeOK /\ DepthIsNesting
  OBVIOUS
<1>1. /\ consumed \in Document /\ consumed # Rejected
      /\ ahead \in Following(consumed)
      /\ is_reading_attributes \in BOOLEAN
  BY DEF CallsInv, Sound, Founded
<1>2. /\ depth \in Nat
      /\ stack \in Seq(Access)
      /\ asked \in Methods \cup {"nothing"}
      /\ status \in {"reading", "read", "ended"} \cup Failures
      /\ asked = "nothing" \/ status # "read"
  BY DEF CallsInv, Placed
<1>3. DepthIsNesting
  BY DEF CallsInv, Placed, DepthIsNesting, Counting
<1> QED
  BY <1>1, <1>2, <1>3 DEF TypeOK

\* A frame of s is at work, or asks for a value.
LEMMA PlacedOn ==
    ASSUME NEW b \in Seq(Access), NEW g \in Access, NEW a \in Methods \cup {"nothing"},
           Waiting(b), Shaped(g),
           a = "nothing" => ~Waits(g) /\ g.access # "skip",
           a # "nothing" => Waits(g) \/ g.access = "skip",
           NEW n, n = Cardinality(Counting(b)) + (IF Counts(g) THEN 1 ELSE 0), n <= max_depth
    PROVE  Placed(Append(b, g), a, "reading", n)
<1>1. Append(b, g) \in Seq(Access)
  BY Pushed
<1>2. Calling(Append(b, g), a)
  BY CallingPush
<1>3. Cardinality(Counting(b)) \in Nat
  BY CountingFinite
<1>4. n \in Nat /\ n = Cardinality(Counting(Append(b, g)))
  BY <1>3, CountingPush
<1> QED
  BY <1>1, <1>2, <1>4 DEF Placed

\* The outermost value is asked for.
LEMMA PlacedAlone ==
    ASSUME NEW a \in Methods
    PROVE  Placed(<<>>, a, "reading", 0)
<1>1. a # "nothing"
  BY DEF Methods
<1>2. Counting(<<>>) = {}
  BY DEF Counting
<1>3. max_depth \in Nat /\ Cardinality({}) = 0
  BY AsksAssumption, FS_EmptySet
<1>4. Calling(<<>>, a)
  BY <1>1 DEF Calling
<1>5. <<>> \in Seq(Access)
  BY EmptySeq
<1> DEFINE s == <<>>
           n == Cardinality(Counting(s))
<1>6. n = 0 /\ n <= max_depth
  <2>1. n = 0
    BY <1>2, <1>3, Zenon
  <2> QED
    BY <1>3, <2>1
<1>7. s \in Seq(Access) /\ Calling(s, a)
  BY <1>4, <1>5
<1> HIDE DEF s
<1>8. Placed(s, a, "reading", 0)
  BY <1>6, <1>7 DEF Placed
<1> QED
  BY <1>8 DEF s

LEMMA PlacedFailure ==
    ASSUME NEW s \in Seq(Access), NEW a \in Methods \cup {"nothing"}, NEW st \in Failures,
           NEW n \in Nat
    PROVE  Placed(s, a, st, n)
<1>1. st \notin {"reading", "read", "ended"}
  BY DEF Failures
<1> QED
  BY <1>1 DEF Placed

\* The frame below, when the value it waits for was read.
Received(f) ==
    [f EXCEPT !.turn = IF f.access = "enum" /\ f.turn = "value" THEN "closing" ELSE Then[f.turn]]

LEMMA ReceivedType ==
    ASSUME NEW f \in Access, Shaped(f), Waits(f)
    PROVE  /\ Received(f) \in Access /\ Shaped(Received(f)) /\ ~Waits(Received(f))
           /\ Received(f).access = f.access /\ f.access # "skip"
           /\ Received(f).state = f.state /\ Received(f).count = f.count
           /\ Received(f).is_value_only = f.is_value_only
           /\ Received(f).is_map_wrapped = f.is_map_wrapped
           /\ Received(f).turn =
                 CASE f.turn = "key" -> "keyed"
                   [] f.turn = "variant" -> "tagged"
                   [] OTHER -> IF f.access = "enum" THEN "closing" ELSE "idle"
           /\ Counts(Received(f)) <=> Counts(f)
<1> DEFINE turn == IF f.access = "enum" /\ f.turn = "value" THEN "closing" ELSE Then[f.turn]
           g == Received(f)
<1>1. turn = CASE f.turn = "key" -> "keyed"
               [] f.turn = "variant" -> "tagged"
               [] OTHER -> IF f.access = "enum" THEN "closing" ELSE "idle"
  BY DEF Waits, Then
<1>2. turn \in Turns
  BY <1>1 DEF Turns
<1>3. g = [f EXCEPT !.turn = turn]
  BY DEF Received
<1> HIDE DEF turn, g
<1>4. /\ g \in Access /\ g.access = f.access /\ g.turn = turn /\ g.state = f.state
      /\ g.count = f.count /\ g.is_value_only = f.is_value_only
      /\ g.is_map_wrapped = f.is_map_wrapped
  BY <1>2, <1>3 DEF Access
<1>5. f.access # "skip"
  BY DEF Shaped, Waits, Containers
<1>6. ~Waits(g)
  BY <1>1, <1>4 DEF Waits
<1>7. Counts(g) <=> Counts(f)
  BY <1>1, <1>4 DEF Counts, Waits, Containers
<1>8. Shaped(g)
  <2>1. f.access \in Accesses
    BY DEF Access
  <2>2. CASE f.access = "list"
    BY <1>1, <1>4, <2>2 DEF Shaped, Waits
  <2>3. CASE f.access \in {"map", "attributes"}
    BY <1>1, <1>4, <2>3 DEF Shaped, Waits
  <2>4. CASE f.access = "flat"
    <3>1. f.state \in FlatStates
      BY DEF Access
    <3>2. FlatShaped(f) /\ (f.is_value_only => f.state = "Done") /\ ~f.is_map_wrapped
      BY <2>4 DEF Shaped
    <3>3. FlatShaped(g)
      BY <1>1, <1>4, <2>4, <3>1, <3>2 DEF FlatShaped, Waits, FlatStates
    <3> QED
      BY <1>4, <2>4, <3>2, <3>3 DEF Shaped
  <2>5. CASE f.access = "wrapper"
    BY <1>1, <1>4, <2>5 DEF Shaped, Waits
  <2>6. CASE f.access = "enum"
    BY <1>1, <1>4, <2>6 DEF Shaped, Waits
  <2>7. CASE f.access = "option"
    BY <1>1, <1>4, <2>7 DEF Shaped, Waits
  <2> QED
    BY <1>5, <2>1, <2>2, <2>3, <2>4, <2>5, <2>6, <2>7 DEF Accesses
<1> QED
  BY <1>1, <1>4, <1>5, <1>6, <1>7, <1>8 DEF g

LEMMA CompleteOn ==
    ASSUME NEW b \in Seq(Access), NEW f \in Access, Shaped(f), Waits(f), Complete(Append(b, f))
    PROVE  /\ asked' = "nothing" /\ status' = status
           /\ stack' = Append(b, Received(f))
<1> DEFINE s == Append(b, f)
<1>1. /\ s \in Seq(Access) /\ s # <<>> /\ Last(s) = f /\ Front(s) = b
      /\ Len(s) \in 1..Len(s)
  BY Pushed, Split
<1>2. Complete(s)
  OBVIOUS
<1> HIDE DEF s
<1>3. s[Len(s)] = f
  BY <1>1 DEF Last
<1>4. /\ asked' = "nothing" /\ status' = status
      /\ stack' = [s EXCEPT ![Len(s)].turn =
                      IF f.access = "enum" /\ f.turn = "value" THEN "closing" ELSE Then[f.turn]]
  BY <1>1, <1>2, <1>3 DEF Complete
<1>5. stack' = [s EXCEPT ![Len(s)] = Received(f)]
  BY <1>3, <1>4 DEF Received
<1>6. Len(s) \in Nat
  BY <1>1, LenProperties
<1>7. stack' = Append(b, Received(f))
  <2>1. Received(f) \in Access
    BY ReceivedType
  <2> QED
    BY <1>1, <1>5, <2>1, Replaced
<1> QED
  BY <1>4, <1>7

LEMMA CompletePlaced ==
    ASSUME status = "reading", NEW s \in Seq(Access), Waiting(s), Complete(s),
           depth' = Cardinality(Counting(s)), depth' <= max_depth
    PROVE  Placed(stack', asked', status', depth')
<1>1. CASE s = <<>>
  <2>1. asked' = "nothing" /\ status' = "read" /\ stack' = s
    BY <1>1 DEF Complete
  <2>2. depth' \in Nat
    BY CountingFinite
  <2> QED
    BY <2>1, <2>2 DEF Placed
<1>2. CASE s # <<>>
  <2> DEFINE b == Front(s)
             f == Last(s)
  <2>1. s = Append(b, f) /\ b \in Seq(Access) /\ f \in Access
    BY <1>2, Split
  <2> HIDE DEF b, f
  <2>2. Waiting(b) /\ Shaped(f) /\ Waits(f)
    BY <2>1, WaitingPush
  <2>3. asked' = "nothing" /\ status' = "reading" /\ stack' = Append(b, Received(f))
    BY <2>1, <2>2, CompleteOn
  <2>4. /\ Received(f) \in Access /\ Shaped(Received(f)) /\ ~Waits(Received(f))
        /\ Received(f).access # "skip" /\ (Counts(Received(f)) <=> Counts(f))
    BY <2>1, <2>2, ReceivedType
  <2>5. depth' = Cardinality(Counting(b)) + (IF Counts(Received(f)) THEN 1 ELSE 0)
    BY <2>1, <2>4, CountingPush
  <2> DEFINE g == Received(f)
  <2> HIDE DEF g
  <2>6. Placed(Append(b, g), "nothing", "reading", depth')
    BY <2>1, <2>2, <2>4, <2>5, PlacedOn DEF g
  <2> QED
    BY <2>3, <2>6 DEF g
<1> QED
  BY <1>1, <1>2

\* What there is when it is up to the last frame.
LEMMA AtTop ==
    ASSUME CallsInv, NEW accesses, NEW turn, At(accesses, turn)
    PROVE  /\ status = "reading" /\ asked = "nothing" /\ stack # <<>>
           /\ stack \in Seq(Access) /\ Front(stack) \in Seq(Access) /\ Top \in Access
           /\ Top = Last(stack) /\ Below = Front(stack) /\ stack = Append(Front(stack), Top)
           /\ Top.access \in accesses /\ Top.turn = turn /\ ~IsSkip(stack)
           /\ Waiting(Front(stack)) /\ Shaped(Top) /\ Top.access # "skip"
           /\ depth = Cardinality(Counting(Front(stack))) + (IF Counts(Top) THEN 1 ELSE 0)
           /\ Cardinality(Counting(Front(stack))) \in Nat
           /\ depth <= max_depth /\ depth \in Nat /\ max_depth \in Nat
<1> DEFINE b == Front(stack)
           f == Last(stack)
<1>1. /\ status = "reading" /\ asked = "nothing" /\ stack # <<>>
      /\ Top.access \in accesses /\ Top.turn = turn
  BY DEF At
<1>2. Top = f /\ Below = b
  BY DEF Top, Below, Last, Front
<1>3. /\ stack \in Seq(Access) /\ Calling(stack, asked)
      /\ depth = Cardinality(Counting(stack)) /\ depth <= max_depth /\ depth \in Nat
  BY <1>1 DEF CallsInv, Placed
<1>4. stack = Append(b, f) /\ b \in Seq(Access) /\ f \in Access
  BY <1>1, <1>3, Split
<1>5. Waiting(b) /\ Shaped(f) /\ ~IsSkip(stack)
  BY <1>1, <1>3 DEF Calling
<1>6. f.access # "skip"
  BY <1>1, <1>5 DEF IsSkip
<1> HIDE DEF b, f
<1>7. depth = Cardinality(Counting(b)) + (IF Counts(f) THEN 1 ELSE 0)
  BY <1>3, <1>4, CountingPush
<1>8. Cardinality(Counting(b)) \in Nat /\ max_depth \in Nat
  BY <1>4, CountingFinite, AsksAssumption
<1> QED
  BY <1>1, <1>2, <1>3, <1>4, <1>5, <1>6, <1>7, <1>8 DEF b, f

\* What there is when a value is asked for.
LEMMA AskingTop ==
    ASSUME CallsInv, NEW methods \in SUBSET Methods, Asking(methods)
    PROVE  /\ status = "reading" /\ asked \in methods /\ asked # "nothing"
           /\ stack \in Seq(Access) /\ Waiting(stack) /\ ~IsSkip(stack)
           /\ depth = Cardinality(Counting(stack))
           /\ depth <= max_depth /\ depth \in Nat /\ max_depth \in Nat
<1>1. status = "reading" /\ asked \in methods /\ (stack # <<>> => Top.access # "skip")
  BY DEF Asking
<1>2. asked # "nothing"
  BY <1>1 DEF Methods
<1>3. /\ stack \in Seq(Access) /\ Calling(stack, asked)
      /\ depth = Cardinality(Counting(stack)) /\ depth <= max_depth /\ depth \in Nat
  BY <1>1 DEF CallsInv, Placed
<1>4. ~IsSkip(stack)
  BY <1>1 DEF IsSkip, Top, Last
<1>5. Waiting(stack)
  <2>1. CASE stack = <<>>
    BY <2>1 DEF Waiting
  <2>2. CASE stack # <<>>
    <3>1. /\ stack = Append(Front(stack), Last(stack))
          /\ Front(stack) \in Seq(Access) /\ Last(stack) \in Access
      BY <1>3, <2>2, Split
    <3>2. Waiting(Front(stack)) /\ Shaped(Last(stack)) /\ Waits(Last(stack))
      BY <1>2, <1>3, <1>4, <2>2 DEF Calling
    <3> QED
      BY <3>1, <3>2, WaitingPush
  <2> QED
    BY <2>1, <2>2
<1>6. max_depth \in Nat
  BY AsksAssumption
<1> QED
  BY <1>1, <1>2, <1>3, <1>4, <1>5, <1>6

\* What there is while attributes are skipped.
LEMMA SkippingTop ==
    ASSUME CallsInv, Skipping
    PROVE  /\ status = "reading" /\ asked \in Methods /\ stack # <<>>
           /\ stack \in Seq(Access) /\ Front(stack) \in Seq(Access) /\ Top \in Access
           /\ Top = Last(stack) /\ Below = Front(stack) /\ stack = Append(Front(stack), Top)
           /\ Top.access = "skip" /\ Top.turn = "idle" /\ Top.count >= 1 /\ IsSkip(stack)
           /\ Waiting(Front(stack)) /\ Shaped(Top)
           /\ depth = Cardinality(Counting(Front(stack))) + 1
           /\ Cardinality(Counting(Front(stack))) \in Nat
           /\ depth <= max_depth /\ depth \in Nat /\ max_depth \in Nat
<1> DEFINE b == Front(stack)
           f == Last(stack)
<1>1. status = "reading" /\ stack # <<>> /\ Top.access = "skip"
  BY DEF Skipping
<1>2. Top = f /\ Below = b
  BY DEF Top, Below, Last, Front
<1>3. /\ stack \in Seq(Access) /\ Calling(stack, asked) /\ asked \in Methods \cup {"nothing"}
      /\ depth = Cardinality(Counting(stack)) /\ depth <= max_depth /\ depth \in Nat
  BY <1>1 DEF CallsInv, Placed
<1>4. stack = Append(b, f) /\ b \in Seq(Access) /\ f \in Access
  BY <1>1, <1>3, Split
<1>5. IsSkip(stack)
  BY <1>1, <1>2 DEF IsSkip
<1>6. Waiting(b) /\ Shaped(f) /\ asked # "nothing"
  BY <1>1, <1>3, <1>5 DEF Calling
<1>7. f.turn = "idle" /\ f.count >= 1
  BY <1>1, <1>2, <1>6 DEF Shaped
<1>8. Counts(f)
  BY <1>1, <1>2 DEF Counts, Containers
<1> HIDE DEF b, f
<1>9. depth = Cardinality(Counting(b)) + 1
  BY <1>3, <1>4, <1>8, CountingPush
<1>10. Cardinality(Counting(b)) \in Nat /\ max_depth \in Nat
  BY <1>4, CountingFinite, AsksAssumption
<1> QED
  BY <1>1, <1>2, <1>3, <1>4, <1>5, <1>6, <1>7, <1>9, <1>10 DEF b, f

\* One field of the last frame is set, or two.
LEMMA TopTurn ==
    ASSUME stack \in Seq(Access), stack # <<>>, NEW turn \in Turns
    PROVE  /\ [Top EXCEPT !.turn = turn] \in Access
           /\ [stack EXCEPT ![Len(stack)].turn = turn]
                = Append(Front(stack), [Top EXCEPT !.turn = turn])
<1>1. Top \in Access
  BY Split DEF Top, Last
<1>2. [Top EXCEPT !.turn = turn] \in Access
  BY <1>1, FrameType
<1>3. [stack EXCEPT ![Len(stack)].turn = turn]
        = [stack EXCEPT ![Len(stack)] = [Top EXCEPT !.turn = turn]]
  BY DEF Top
<1> QED
  BY <1>2, <1>3, Replaced

LEMMA AskInType ==
    ASSUME NEW s \in Seq(Access), s # <<>>, AskIn(s)
    PROVE  /\ stack' = s /\ asked' \in Methods /\ asked' # "nothing"
           /\ asked' \in Asks[SlotOf(Last(s))]
<1>1. stack' = s /\ asked' \in Asks[SlotOf(Last(s))]
  BY DEF AskIn, Choice, Last
<1>2. Last(s) \in Access
  BY Split
<1>3. SlotOf(Last(s)) \in Slots
  BY <1>2, FrameType
<1>4. asked' \in Methods
  BY <1>1, <1>3, AsksAssumption
<1> QED
  BY <1>1, <1>4 DEF Methods

LEMMA FailPlaced ==
    ASSUME CallsInv, NEW failure \in Failures, Fail(failure), depth' \in Nat
    PROVE  Placed(stack', asked', status', depth')
<1>1. stack \in Seq(Access) /\ asked \in Methods \cup {"nothing"}
  BY DEF CallsInv, Placed
<1> QED
  BY <1>1, PlacedFailure DEF Fail

LEMMA RefusePlaced ==
    ASSUME CallsInv, Refuse, UNCHANGED depth
    PROVE  Sound(consumed, ahead)' /\ Placed(stack', asked', status', depth')
<1>1. \E failure \in {"short", "unexpected"} : Fail(failure)
  BY DEF Refuse
<1>2. depth' \in Nat
  BY DEF CallsInv, Placed
<1>3. Sound(consumed, ahead)'
  BY StaySound DEF Refuse, CallsInv
<1> QED
  BY <1>1, <1>2, <1>3, FailPlaced DEF Failures

LEMMA Turned ==
    ASSUME NEW f \in Access, NEW turn \in Turns
    PROVE  LET g == [f EXCEPT !.turn = turn] IN
           /\ g \in Access /\ g.access = f.access /\ g.turn = turn /\ g.state = f.state
           /\ g.count = f.count /\ g.is_value_only = f.is_value_only
           /\ g.is_map_wrapped = f.is_map_wrapped
BY DEF Access

\* A call that counts begins.
LEMMA EnterPlaced ==
    ASSUME CallsInv, status = "reading", Waiting(stack), depth = Cardinality(Counting(stack)),
           NEW g \in Access, Shaped(g), Counts(g), NEW next \in Methods \cup {"nothing"},
           next = "nothing" => ~Waits(g) /\ g.access # "skip",
           next # "nothing" => Waits(g) \/ g.access = "skip",
           Enter(g, next)
    PROVE  Placed(stack', asked', status', depth')
<1>1. stack \in Seq(Access) /\ depth \in Nat
  BY DEF CallsInv, Placed
<1>2. depth' = depth + 1 /\ depth' \in Nat
  BY <1>1 DEF Enter
<1>3. CASE depth' > max_depth
  BY <1>2, <1>3, FailPlaced DEF Enter, Failures
<1>4. CASE ~(depth' > max_depth)
  <2>1. stack' = Append(stack, g) /\ asked' = next /\ status' = "reading"
    BY <1>4 DEF Enter
  <2>2. depth' = Cardinality(Counting(stack)) + (IF Counts(g) THEN 1 ELSE 0)
    BY <1>2
  <2>3. depth' <= max_depth
    BY <1>2, <1>4, AsksAssumption
  <2>4. Placed(Append(stack, g), next, "reading", depth')
    BY <1>1, <2>2, <2>3, PlacedOn
  <2> QED
    BY <2>1, <2>4
<1> QED
  BY <1>3, <1>4

\* The last frame goes on.
LEMMA GoPlaced ==
    ASSUME CallsInv, NEW accesses, NEW turn, At(accesses, turn),
           NEW g \in Access, Shaped(g), g.access = Top.access, ~Waits(g),
           stack' = Append(Front(stack), g), asked' = asked, status' = status,
           depth' = depth - (IF Counts(Top) THEN 1 ELSE 0) + (IF Counts(g) THEN 1 ELSE 0),
           Counts(g) => Counts(Top)
    PROVE  Placed(stack', asked', status', depth')
<1> DEFINE b == Front(stack)
<1>1. /\ b \in Seq(Access) /\ Waiting(b) /\ Top.access # "skip"
      /\ depth = Cardinality(Counting(b)) + (IF Counts(Top) THEN 1 ELSE 0)
      /\ Cardinality(Counting(b)) \in Nat
      /\ depth <= max_depth /\ depth \in Nat /\ max_depth \in Nat
      /\ asked = "nothing" /\ status = "reading"
  BY AtTop
<1> HIDE DEF b
<1>2. depth' = Cardinality(Counting(b)) + (IF Counts(g) THEN 1 ELSE 0) /\ depth' <= max_depth
  BY <1>1
<1>3. Placed(Append(b, g), "nothing", "reading", depth')
  BY <1>1, <1>2, PlacedOn
<1> QED
  BY <1>1, <1>3 DEF b

LEMMA TurnPlaced ==
    ASSUME CallsInv, NEW accesses, NEW turn, At(accesses, turn),
           NEW next \in Turns \ {"key", "variant", "value"}, Turn(next),
           Shaped([Top EXCEPT !.turn = next]),
           Counts([Top EXCEPT !.turn = next]) <=> Counts(Top), UNCHANGED depth
    PROVE  Placed(stack', asked', status', depth')
<1> DEFINE g == [Top EXCEPT !.turn = next]
<1>1. stack \in Seq(Access) /\ stack # <<>> /\ Top \in Access /\ depth \in Nat
  BY AtTop
<1>2. g \in Access /\ g.access = Top.access /\ g.turn = next
  BY <1>1, Turned
<1>3. stack' = Append(Front(stack), g) /\ asked' = asked /\ status' = status
  BY <1>1, TopTurn DEF Turn
<1>4. ~Waits(g)
  BY <1>2 DEF Waits
<1>5. depth' = depth - (IF Counts(Top) THEN 1 ELSE 0) + (IF Counts(g) THEN 1 ELSE 0)
  BY <1>1
<1> HIDE DEF g
<1> QED
  BY <1>2, <1>3, <1>4, <1>5, GoPlaced DEF g

\* The last frame asks for a value.
LEMMA AskPlaced ==
    ASSUME CallsInv, NEW accesses, NEW turn, At(accesses, turn),
           NEW g \in Access, Shaped(g), g.access = Top.access, Waits(g),
           AskIn(Append(Front(stack), g)), status' = status, UNCHANGED depth,
           Counts(Top)<=> Counts(g)
    PROVE  Placed(stack', asked', status', depth')
<1> DEFINE b == Front(stack)
<1>1. /\ b \in Seq(Access) /\ Waiting(b)
      /\ depth = Cardinality(Counting(b)) + (IF Counts(Top) THEN 1 ELSE 0)
      /\ Cardinality(Counting(b)) \in Nat
      /\ depth <= max_depth /\ status = "reading"
  BY AtTop
<1> HIDE DEF b
<1>2. Append(b, g) \in Seq(Access) /\ Append(b, g) # <<>>
  BY <1>1, Pushed
<1>3. stack' = Append(b, g) /\ asked' \in Methods /\ asked' # "nothing"
  BY <1>2, AskInType DEF b
<1>4. depth' = Cardinality(Counting(b)) + (IF Counts(g) THEN 1 ELSE 0) /\ depth' <= max_depth
  BY <1>1
<1>5. Placed(Append(b, g), asked', "reading", depth')
  BY <1>1, <1>3, <1>4, PlacedOn
<1> QED
  BY <1>1, <1>3, <1>5

LEMMA AskTurnPlaced ==
    ASSUME CallsInv, NEW accesses, NEW turn, At(accesses, turn), turn # "closing",
           NEW next \in {"key", "variant", "value"},
           AskIn([stack EXCEPT ![Len(stack)].turn = next]),
           Shaped([Top EXCEPT !.turn = next]), status' = status, UNCHANGED depth
    PROVE  Placed(stack', asked', status', depth')
<1> DEFINE g == [Top EXCEPT !.turn = next]
<1>1. stack \in Seq(Access) /\ stack # <<>> /\ Top \in Access /\ Top.turn = turn /\ Shaped(Top)
  BY AtTop
<1>2. next \in Turns
  BY DEF Turns
<1>3. g \in Access /\ g.access = Top.access /\ g.turn = next
  BY <1>1, <1>2, Turned
<1>4. AskIn(Append(Front(stack), g))
  BY <1>1, <1>2, TopTurn
<1>5. Waits(g)
  BY <1>3 DEF Waits
<1>6. Counts(Top) <=> Counts(g)
  BY <1>1, <1>3 DEF Counts
<1> HIDE DEF g
<1> QED
  BY <1>3, <1>4, <1>5, <1>6, AskPlaced DEF g

\* The last frame is done, and its value was read.
LEMMA ReturnPlaced ==
    ASSUME CallsInv, NEW accesses, NEW turn, At(accesses, turn), Complete(Below),
           depth' = depth - (IF Counts(Top) THEN 1 ELSE 0)
    PROVE  Placed(stack', asked', status', depth')
<1>1. /\ status = "reading" /\ Below = Front(stack)
      /\ Front(stack) \in Seq(Access) /\ Waiting(Front(stack))
      /\ depth = Cardinality(Counting(Front(stack))) + (IF Counts(Top) THEN 1 ELSE 0)
      /\ Cardinality(Counting(Front(stack))) \in Nat
      /\ depth <= max_depth /\ depth \in Nat /\ max_depth \in Nat
  BY AtTop
<1>2. depth' = Cardinality(Counting(Front(stack))) /\ depth' <= max_depth
  BY <1>1
<1> QED
  BY <1>1, <1>2, CompletePlaced

LEMMA ChoiceType ==
    ASSUME stack \in Seq(Access), NEW m \in Choice(Slot, stack)
    PROVE  m \in Methods /\ m # "nothing" /\ m \in Asks[SlotIn(stack)]
<1>1. Slot = SlotIn(stack)
  BY DEF Slot, SlotIn, Top, Last
<1>2. Slot \in Slots
  <2>1. CASE stack = <<>>
    BY <2>1 DEF Slot, Slots
  <2>2. CASE stack # <<>>
    <3>1. Top \in Access
      BY <2>2, Split DEF Top, Last
    <3> QED
      BY <2>2, <3>1, FrameType DEF Slot
  <2> QED
    BY <2>1, <2>2
<1>3. m \in Asks[Slot]
  BY DEF Choice
<1>4. m \in Methods
  BY <1>2, <1>3, AsksAssumption
<1> QED
  BY <1>1, <1>3, <1>4 DEF Methods

LEMMA WrapperCounted ==
    ASSUME stack \in Seq(Access), stack # <<>>
    PROVE  [stack EXCEPT ![Len(stack)].count = @ + 1, ![Len(stack)].turn = "value"]
             = [stack EXCEPT ![Len(stack)] =
                  [Top EXCEPT !.count = Top.count + 1, !.turn = "value"]]
<1>1. Len(stack) \in 1..Len(stack) /\ DOMAIN stack = 1..Len(stack)
  BY Split, LenProperties
<1> QED
  BY <1>1 DEF Top

-----------------------------------------------------------------------------
(* One lemma per action: it keeps the first layer. *)

LEMMA AnyAtomCalls == CallsInv /\ AnyAtom => CallsInv'
<1> SUFFICES ASSUME CallsInv, AnyAtom PROVE CallsInv'
  OBVIOUS
<1>1. /\ Asking({"any", "typed"}) /\ Consume /\ Complete(stack)
      /\ UNCHANGED <<is_reading_attributes, depth>>
  BY DEF AnyAtom
<1>2. /\ status = "reading" /\ stack \in Seq(Access) /\ Waiting(stack)
      /\ depth = Cardinality(Counting(stack)) /\ depth <= max_depth
  BY <1>1, AskingTop DEF Methods
<1>3. Sound(consumed, ahead)'
  BY <1>1, ConsumeSound DEF CallsInv
<1>4. Placed(stack', asked', status', depth')
  BY <1>1, <1>2, CompletePlaced
<1> QED
  BY <1>1, <1>3, <1>4 DEF CallsInv

LEMMA AnyContainerCalls == CallsInv /\ AnyContainer => CallsInv'
<1> SUFFICES ASSUME CallsInv, AnyContainer PROVE CallsInv'
  OBVIOUS
<1> DEFINE g == NewFrame(Bracket(ahead), "idle", "Done", 0, FALSE)
<1>1. /\ Asking({"any", "typed"}) /\ Consume /\ ahead \in {"BeginList", "BeginMap"}
      /\ Enter(g, "nothing") /\ UNCHANGED is_reading_attributes
  BY DEF AnyContainer
<1>2. status = "reading" /\ Waiting(stack) /\ depth = Cardinality(Counting(stack))
  BY <1>1, AskingTop DEF Methods
<1>3. Sound(consumed, ahead)'
  BY <1>1, ConsumeSound DEF CallsInv
<1>4. Bracket(ahead) \in {"list", "map"}
  BY <1>1 DEF Bracket
<1>5. /\ g \in Access /\ g.access \in {"list", "map"} /\ g.turn = "idle"
      /\ g.is_value_only = FALSE /\ g.is_map_wrapped = FALSE
  BY <1>4 DEF NewFrame, Access, Accesses, Turns, FlatStates
<1>6. Enter(g, "nothing")
  BY <1>1
<1> HIDE DEF g
<1>7. Shaped(g) /\ ~Waits(g) /\ Counts(g) /\ g.access # "skip"
  BY <1>5 DEF Shaped, Waits, Counts
<1>8. Placed(stack', asked', status', depth')
  BY <1>2, <1>5, <1>6, <1>7, EnterPlaced
<1> QED
  BY <1>1, <1>3, <1>8 DEF CallsInv

LEMMA AnyUnexpectedCalls == CallsInv /\ AnyUnexpected => CallsInv'
<1> SUFFICES ASSUME CallsInv, AnyUnexpected PROVE CallsInv'
  OBVIOUS
<1>1. Refuse /\ UNCHANGED <<is_reading_attributes, depth>>
  BY DEF AnyUnexpected
<1>2. Sound(consumed, ahead)' /\ Placed(stack', asked', status', depth')
  BY <1>1, RefusePlaced
<1> QED
  BY <1>1, <1>2 DEF CallsInv

LEMMA MismatchCalls == CallsInv /\ Mismatch => CallsInv'
<1> SUFFICES ASSUME CallsInv, Mismatch PROVE CallsInv'
  OBVIOUS
<1>1. Fail("mismatch") /\ Stay /\ UNCHANGED <<is_reading_attributes, depth>>
  BY DEF Mismatch
<1>2. Sound(consumed, ahead)'
  BY <1>1, StaySound DEF CallsInv
<1>3. depth' \in Nat
  BY <1>1 DEF CallsInv, Placed
<1>4. Placed(stack', asked', status', depth')
  BY <1>1, <1>3, FailPlaced DEF Failures
<1> QED
  BY <1>1, <1>2, <1>4 DEF CallsInv

LEMMA AnyAttributesCalls == CallsInv /\ AnyAttributes => CallsInv'
<1> SUFFICES ASSUME CallsInv, AnyAttributes PROVE CallsInv'
  OBVIOUS
<1> DEFINE g == NewFrame("attributes", "idle", "Done", 0, FALSE)
<1>1. /\ Asking({"any", "typed"}) /\ Consume /\ Enter(g, "nothing")
      /\ is_reading_attributes' = FALSE
  BY DEF AnyAttributes
<1>2. status = "reading" /\ Waiting(stack) /\ depth = Cardinality(Counting(stack))
  BY <1>1, AskingTop DEF Methods
<1>3. Sound(consumed, ahead)'
  BY <1>1, ConsumeSound DEF CallsInv
<1>4. /\ g \in Access /\ g.access = "attributes" /\ g.turn = "idle"
      /\ g.is_value_only = FALSE /\ g.is_map_wrapped = FALSE
  BY DEF NewFrame, Access, Accesses, Turns, FlatStates
<1>5. Enter(g, "nothing")
  BY <1>1
<1> HIDE DEF g
<1>6. Shaped(g) /\ ~Waits(g) /\ Counts(g) /\ g.access # "skip"
  BY <1>4 DEF Shaped, Waits, Counts
<1>7. Placed(stack', asked', status', depth')
  BY <1>2, <1>4, <1>5, <1>6, EnterPlaced
<1> QED
  BY <1>1, <1>3, <1>7 DEF CallsInv

LEMMA AnyNoAttributesCalls == CallsInv /\ AnyNoAttributes => CallsInv'
<1> SUFFICES ASSUME CallsInv, AnyNoAttributes PROVE CallsInv'
  OBVIOUS
<1>1. /\ Asking({"any", "typed"}) /\ Stay /\ UNCHANGED depth
      /\ IF ahead = "eof" THEN Fail("short") ELSE Complete(stack)
      /\ is_reading_attributes' = FALSE
  BY DEF AnyNoAttributes
<1>2. /\ status = "reading" /\ stack \in Seq(Access) /\ Waiting(stack)
      /\ depth = Cardinality(Counting(stack)) /\ depth <= max_depth /\ depth \in Nat
  BY <1>1, AskingTop DEF Methods
<1>3. Sound(consumed, ahead)'
  BY <1>1, StaySound DEF CallsInv
<1>4. Placed(stack', asked', status', depth')
  <2>1. CASE ahead = "eof"
    BY <1>1, <1>2, <2>1, FailPlaced DEF Failures
  <2>2. CASE ahead # "eof"
    BY <1>1, <1>2, <2>2, CompletePlaced
  <2> QED
    BY <2>1, <2>2
<1> QED
  BY <1>1, <1>3, <1>4 DEF CallsInv

LEMMA SkipAttributesCalls == CallsInv /\ SkipAttributes => CallsInv'
<1> SUFFICES ASSUME CallsInv, SkipAttributes PROVE CallsInv'
  OBVIOUS
<1> DEFINE g == NewFrame("skip", "idle", "Done", 1, FALSE)
<1>1. /\ Asking({"typed", "option", "enum"}) /\ Consume /\ Enter(g, asked)
      /\ UNCHANGED is_reading_attributes
  BY DEF SkipAttributes
<1>2. /\ status = "reading" /\ Waiting(stack) /\ depth = Cardinality(Counting(stack))
      /\ asked \in Methods /\ asked # "nothing"
  BY <1>1, AskingTop DEF Methods
<1>3. Sound(consumed, ahead)'
  BY <1>1, ConsumeSound DEF CallsInv
<1>4. /\ g \in Access /\ g.access = "skip" /\ g.turn = "idle" /\ g.count = 1
      /\ g.is_value_only = FALSE /\ g.is_map_wrapped = FALSE
  BY DEF NewFrame, Access, Accesses, Turns, FlatStates
<1>5. Enter(g, asked)
  BY <1>1
<1> HIDE DEF g
<1>6. Shaped(g) /\ Counts(g)
  BY <1>4 DEF Shaped, Counts, Containers
<1>7. Placed(stack', asked', status', depth')
  BY <1>2, <1>4, <1>5, <1>6, EnterPlaced
<1> QED
  BY <1>1, <1>3, <1>7 DEF CallsInv

LEMMA SkipTokenCalls == CallsInv /\ SkipToken => CallsInv'
<1> SUFFICES ASSUME CallsInv, SkipToken PROVE CallsInv'
  OBVIOUS
<1> DEFINE g == [Top EXCEPT !.count = Counted]
           b == Front(stack)
<1>1. /\ Skipping /\ Consume /\ Counted # 0 /\ UNCHANGED <<is_reading_attributes, depth>>
      /\ IF Counted > max_depth
         THEN Fail("limit")
         ELSE stack' = [stack EXCEPT ![Len(stack)].count = Counted] /\ UNCHANGED <<asked, status>>
  BY DEF SkipToken
<1>2. /\ status = "reading" /\ stack \in Seq(Access) /\ stack # <<>> /\ b \in Seq(Access)
      /\ Top \in Access /\ Top.access = "skip" /\ Top.turn = "idle" /\ Top.count >= 1
      /\ Shaped(Top) /\ Waiting(b) /\ asked \in Methods
      /\ depth = Cardinality(Counting(b)) + 1 /\ depth <= max_depth /\ depth \in Nat
  BY <1>1, SkippingTop
<1>3. Sound(consumed, ahead)'
  BY <1>1, ConsumeSound DEF CallsInv
<1>4. CASE Counted > max_depth
  <2>1. Placed(stack', asked', status', depth')
    BY <1>1, <1>2, <1>4, FailPlaced DEF Failures
  <2> QED
    BY <1>1, <1>3, <2>1 DEF CallsInv
<1>5. CASE ~(Counted > max_depth)
  <2>1. Counted \in Nat /\ Counted >= 1
    <3>1. Top.count \in Nat
      BY <1>2, FrameType
    <3> QED
      BY <1>1, <1>2, <3>1 DEF Counted
  <2>2. /\ g \in Access /\ g.access = "skip" /\ g.turn = "idle" /\ g.count = Counted
        /\ g.is_value_only = Top.is_value_only /\ g.is_map_wrapped = Top.is_map_wrapped
    BY <1>2, <2>1 DEF Access
  <2>3. stack' = Append(b, g) /\ asked' = asked /\ status' = "reading"
    <3>1. [stack EXCEPT ![Len(stack)].count = Counted] = [stack EXCEPT ![Len(stack)] = g]
      BY DEF Top
    <3> QED
      BY <1>1, <1>2, <1>5, <2>2, <3>1, Replaced
  <2> HIDE DEF g, b
  <2>4. Shaped(g) /\ Counts(g)
    BY <1>2, <2>1, <2>2 DEF Shaped, Counts, Containers
  <2>5. asked # "nothing"
    BY <1>2 DEF Methods
  <2>6. Placed(Append(b, g), asked, "reading", depth)
    BY <1>2, <2>2, <2>4, <2>5, PlacedOn
  <2> QED
    BY <1>1, <1>3, <2>3, <2>6 DEF CallsInv
<1> QED
  BY <1>4, <1>5

LEMMA SkipEndCalls == CallsInv /\ SkipEnd => CallsInv'
<1> SUFFICES ASSUME CallsInv, SkipEnd PROVE CallsInv'
  OBVIOUS
<1> DEFINE b == Front(stack)
<1>1. /\ Skipping /\ Consume /\ depth' = depth - 1 /\ stack' = Below
      /\ UNCHANGED <<is_reading_attributes, asked, status>>
  BY DEF SkipEnd, leave_recursion
<1>2. /\ status = "reading" /\ Below = b /\ b \in Seq(Access) /\ Waiting(b) /\ asked \in Methods
      /\ depth = Cardinality(Counting(b)) + 1 /\ depth <= max_depth
      /\ Cardinality(Counting(b)) \in Nat /\ depth \in Nat /\ max_depth \in Nat
  BY <1>1, SkippingTop
<1>3. Sound(consumed, ahead)'
  BY <1>1, ConsumeSound DEF CallsInv
<1>4. depth' = Cardinality(Counting(b)) /\ depth' <= max_depth /\ asked # "nothing"
  BY <1>1, <1>2 DEF Methods
<1> HIDE DEF b
<1>5. Calling(b, asked)
  <2>1. CASE b = <<>>
    BY <1>4, <2>1 DEF Calling
  <2>2. CASE b # <<>>
    <3>1. b = Append(Front(b), Last(b)) /\ Front(b) \in Seq(Access) /\ Last(b) \in Access
      BY <1>2, <2>2, Split
    <3>2. Waiting(Front(b)) /\ Shaped(Last(b)) /\ Waits(Last(b))
      BY <1>2, <3>1, WaitingPush
    <3> QED
      BY <1>4, <2>2, <3>2 DEF Calling
  <2> QED
    BY <2>1, <2>2
<1>6. Placed(b, asked, "reading", depth')
  BY <1>1, <1>2, <1>4, <1>5 DEF Placed
<1> QED
  BY <1>1, <1>2, <1>3, <1>6 DEF CallsInv

LEMMA SkipShortCalls == CallsInv /\ SkipShort => CallsInv'
<1> SUFFICES ASSUME CallsInv, SkipShort PROVE CallsInv'
  OBVIOUS
<1>1. Refuse /\ UNCHANGED <<is_reading_attributes, depth>>
  BY DEF SkipShort
<1>2. Sound(consumed, ahead)' /\ Placed(stack', asked', status', depth')
  BY <1>1, RefusePlaced
<1> QED
  BY <1>1, <1>2 DEF CallsInv

-----------------------------------------------------------------------------
(* deserialize_option and AttributesWrapperAccess *)

LEMMA OptionOfAttributesCalls == CallsInv /\ OptionOfAttributes => CallsInv'
<1> SUFFICES ASSUME CallsInv, OptionOfAttributes PROVE CallsInv'
  OBVIOUS
<1> DEFINE g == NewFrame("option", "value", "Done", 0, FALSE)
<1>1. /\ Asking({"option"}) /\ Stay /\ UNCHANGED depth
      /\ IF ahead = "BeginAttributes"
         THEN AskIn(Append(stack, g)) /\ UNCHANGED <<is_reading_attributes, status>>
         ELSE /\ is_reading_attributes' = FALSE
              /\ IF ahead = "eof" THEN Fail("short") ELSE Complete(stack)
  BY DEF OptionOfAttributes
<1>2. /\ status = "reading" /\ stack \in Seq(Access) /\ Waiting(stack)
      /\ depth = Cardinality(Counting(stack)) /\ depth <= max_depth /\ depth \in Nat
  BY <1>1, AskingTop DEF Methods
<1>3. Sound(consumed, ahead)' /\ is_reading_attributes' \in BOOLEAN
  BY <1>1, StaySound DEF CallsInv
<1>4. CASE ahead = "BeginAttributes"
  <2>1. /\ g \in Access /\ g.access = "option" /\ g.turn = "value"
        /\ g.is_value_only = FALSE /\ g.is_map_wrapped = FALSE
    BY DEF NewFrame, Access, Accesses, Turns, FlatStates
  <2>2. AskIn(Append(stack, g)) /\ UNCHANGED status
    BY <1>1, <1>4
  <2> HIDE DEF g
  <2>3. Shaped(g) /\ Waits(g) /\ ~Counts(g)
    BY <2>1 DEF Shaped, Waits, Counts, Containers
  <2>4. Append(stack, g) \in Seq(Access) /\ Append(stack, g) # <<>>
    BY <1>2, <2>1, Pushed
  <2>5. stack' = Append(stack, g) /\ asked' \in Methods /\ asked' # "nothing"
    BY <2>2, <2>4, AskInType
  <2>6. depth' = Cardinality(Counting(stack)) + (IF Counts(g) THEN 1 ELSE 0) /\ depth' <= max_depth
    BY <1>1, <1>2, <2>3
  <2>7. Placed(Append(stack, g), asked', "reading", depth')
    BY <1>2, <2>1, <2>3, <2>5, <2>6, PlacedOn
  <2> QED
    BY <1>2, <1>3, <2>2, <2>5, <2>7 DEF CallsInv
<1>5. CASE ahead = "eof"
  <2>1. Placed(stack', asked', status', depth')
    BY <1>1, <1>2, <1>5, FailPlaced DEF Failures
  <2> QED
    BY <1>3, <2>1 DEF CallsInv
<1>6. CASE ahead \notin {"BeginAttributes", "eof"}
  <2>1. Placed(stack', asked', status', depth')
    BY <1>1, <1>2, <1>6, CompletePlaced
  <2> QED
    BY <1>3, <2>1 DEF CallsInv
<1> QED
  BY <1>4, <1>5, <1>6

LEMMA OptionEndCalls == CallsInv /\ OptionEnd => CallsInv'
<1> SUFFICES ASSUME CallsInv, OptionEnd PROVE CallsInv'
  OBVIOUS
<1>1. /\ At({"option"}, "idle") /\ Complete(Below) /\ UNCHANGED depth
      /\ Stay /\ is_reading_attributes' = FALSE
  BY DEF OptionEnd
<1>2. Top.access \in {"option"} /\ Top.turn = "idle" /\ depth \in Nat
  BY <1>1, AtTop
<1>3. ~Counts(Top)
  BY <1>2 DEF Counts, Containers
<1>4. Sound(consumed, ahead)' /\ is_reading_attributes' \in BOOLEAN
  BY <1>1, StaySound DEF CallsInv
<1>5. depth' = depth - (IF Counts(Top) THEN 1 ELSE 0)
  BY <1>1, <1>2, <1>3
<1>6. Placed(stack', asked', status', depth')
  BY <1>1, <1>5, ReturnPlaced
<1> QED
  BY <1>4, <1>6 DEF CallsInv

LEMMA OptionNoneCalls == CallsInv /\ OptionNone => CallsInv'
<1> SUFFICES ASSUME CallsInv, OptionNone PROVE CallsInv'
  OBVIOUS
<1>1. /\ Asking({"option"}) /\ Consume /\ Complete(stack)
      /\ UNCHANGED <<is_reading_attributes, depth>>
  BY DEF OptionNone
<1>2. /\ status = "reading" /\ stack \in Seq(Access) /\ Waiting(stack)
      /\ depth = Cardinality(Counting(stack)) /\ depth <= max_depth
  BY <1>1, AskingTop DEF Methods
<1>3. Sound(consumed, ahead)'
  BY <1>1, ConsumeSound DEF CallsInv
<1>4. Placed(stack', asked', status', depth')
  BY <1>1, <1>2, CompletePlaced
<1> QED
  BY <1>1, <1>3, <1>4 DEF CallsInv

LEMMA OptionSomeCalls == CallsInv /\ OptionSome => CallsInv'
<1> SUFFICES ASSUME CallsInv, OptionSome PROVE CallsInv'
  OBVIOUS
<1>1. /\ Asking({"option"}) /\ Stay /\ UNCHANGED <<is_reading_attributes, depth>>
      /\ IF ahead = "eof" THEN Fail("short")
                          ELSE asked' \in Choice(Slot, stack) /\ UNCHANGED <<stack, status>>
  BY DEF OptionSome
<1>2. /\ status = "reading" /\ stack \in Seq(Access) /\ Waiting(stack)
      /\ asked \in Methods /\ asked # "nothing"
      /\ depth = Cardinality(Counting(stack)) /\ depth <= max_depth /\ depth \in Nat
  BY <1>1, AskingTop DEF Methods
<1>3. Sound(consumed, ahead)'
  BY <1>1, StaySound DEF CallsInv
<1>4. Placed(stack', asked', status', depth')
  <2>1. CASE ahead = "eof"
    BY <1>1, <1>2, <2>1, FailPlaced DEF Failures
  <2>2. CASE ahead # "eof"
    <3>1. stack' = stack /\ status' = "reading" /\ asked' \in Choice(Slot, stack) /\ depth' = depth
      BY <1>1, <1>2, <2>2
    <3>2. asked' \in Methods /\ asked' # "nothing"
      BY <1>2, <3>1, ChoiceType
    <3>3. Calling(stack, asked')
      <4>1. Calling(stack, asked)
        BY <1>2 DEF CallsInv, Placed
      <4> QED
        BY <1>2, <3>2, <4>1 DEF Calling
    <3>4. Placed(stack, asked', "reading", depth)
      BY <1>2, <3>2, <3>3 DEF Placed
    <3> QED
      BY <3>1, <3>4
  <2> QED
    BY <2>1, <2>2
<1> QED
  BY <1>1, <1>3, <1>4 DEF CallsInv

LEMMA WrapperCalls == CallsInv /\ Wrapper => CallsInv'
<1> SUFFICES ASSUME CallsInv, Wrapper PROVE CallsInv'
  OBVIOUS
<1> DEFINE g == NewFrame("wrapper", "idle", "Done", 0, FALSE)
<1>1. Asking({"wrapper"}) /\ Stay /\ Enter(g, "nothing") /\ UNCHANGED is_reading_attributes
  BY DEF Wrapper
<1>2. status = "reading" /\ Waiting(stack) /\ depth = Cardinality(Counting(stack))
  BY <1>1, AskingTop DEF Methods
<1>3. Sound(consumed, ahead)'
  BY <1>1, StaySound DEF CallsInv
<1>4. /\ g \in Access /\ g.access = "wrapper" /\ g.turn = "idle" /\ g.count = 0
      /\ g.is_value_only = FALSE /\ g.is_map_wrapped = FALSE
  BY DEF NewFrame, Access, Accesses, Turns, FlatStates
<1>5. Enter(g, "nothing")
  BY <1>1
<1> HIDE DEF g
<1>6. Shaped(g) /\ ~Waits(g) /\ Counts(g) /\ g.access # "skip"
  BY <1>4 DEF Shaped, Waits, Counts, Containers
<1>7. Placed(stack', asked', status', depth')
  BY <1>2, <1>4, <1>5, <1>6, EnterPlaced
<1> QED
  BY <1>1, <1>3, <1>7 DEF CallsInv

LEMMA WrapperElementCalls == CallsInv /\ WrapperElement => CallsInv'
<1> SUFFICES ASSUME CallsInv, WrapperElement PROVE CallsInv'
  OBVIOUS
<1> DEFINE g == [Top EXCEPT !.count = Top.count + 1, !.turn = "value"]
<1>1. /\ At({"wrapper"}, "idle") /\ Top.count < 2 /\ Stay /\ UNCHANGED <<depth, status>>
      /\ is_reading_attributes' = (Top.count = 0)
      /\ AskIn([stack EXCEPT ![Len(stack)].count = @ + 1, ![Len(stack)].turn = "value"])
  BY DEF WrapperElement
<1>2. /\ stack \in Seq(Access) /\ stack # <<>> /\ Top \in Access
      /\ Top.access \in {"wrapper"} /\ Top.turn = "idle" /\ Shaped(Top)
  BY <1>1, AtTop
<1>3. Top.count \in Nat
  BY <1>2, FrameType
<1>4. /\ g \in Access /\ g.access = "wrapper" /\ g.turn = "value" /\ g.count = Top.count + 1
      /\ g.is_value_only = Top.is_value_only /\ g.is_map_wrapped = Top.is_map_wrapped
  <2> DEFINE n == Top.count + 1
  <2>1. n \in Nat /\ "value" \in Turns /\ Top.access = "wrapper"
    BY <1>2, <1>3 DEF Turns
  <2> HIDE DEF n
  <2>2. LET h == [Top EXCEPT !.count = n, !.turn = "value"] IN
        /\ h \in Access /\ h.access = Top.access /\ h.turn = "value" /\ h.count = n
        /\ h.is_value_only = Top.is_value_only /\ h.is_map_wrapped = Top.is_map_wrapped
    BY <1>2, <2>1 DEF Access
  <2> QED
    BY <2>1, <2>2 DEF n
<1>5. AskIn(Append(Front(stack), g))
  <2>1. [stack EXCEPT ![Len(stack)].count = @ + 1, ![Len(stack)].turn = "value"]
          = [stack EXCEPT ![Len(stack)] = g]
    BY <1>2, WrapperCounted
  <2> QED
    BY <1>1, <1>2, <1>4, <2>1, Replaced
<1> HIDE DEF g
<1>6. Shaped(g) /\ Waits(g) /\ (Counts(Top) <=> Counts(g))
  BY <1>1, <1>2, <1>3, <1>4 DEF Shaped, Waits, Counts, Containers
<1>7. Placed(stack', asked', status', depth')
  BY <1>1, <1>2, <1>4, <1>5, <1>6, AskPlaced
<1>8. Sound(consumed, ahead)'
  BY <1>1, StaySound DEF CallsInv
<1> QED
  BY <1>1, <1>7, <1>8 DEF CallsInv

LEMMA WrapperEndCalls == CallsInv /\ WrapperEnd => CallsInv'
<1> SUFFICES ASSUME CallsInv, WrapperEnd PROVE CallsInv'
  OBVIOUS
<1>1. /\ At({"wrapper"}, "idle") /\ Complete(Below) /\ depth' = depth - 1
      /\ Stay /\ UNCHANGED is_reading_attributes
  BY DEF WrapperEnd, leave_recursion
<1>2. Top.access \in {"wrapper"} /\ Top.turn = "idle" /\ depth \in Nat
  BY <1>1, AtTop
<1>3. Counts(Top)
  BY <1>2 DEF Counts, Containers
<1>4. Sound(consumed, ahead)' /\ is_reading_attributes' \in BOOLEAN
  BY <1>1, StaySound DEF CallsInv
<1>5. depth' = depth - (IF Counts(Top) THEN 1 ELSE 0)
  BY <1>1, <1>2, <1>3
<1>6. Placed(stack', asked', status', depth')
  BY <1>1, <1>5, ReturnPlaced
<1> QED
  BY <1>4, <1>6 DEF CallsInv

-----------------------------------------------------------------------------
(* CommaSeparated and close_container *)

LEMMA NextItemCalls == CallsInv /\ NextItem => CallsInv'
<1> SUFFICES ASSUME CallsInv, NextItem PROVE CallsInv'
  OBVIOUS
<1>1. /\ At(Containers \cup {"flat"}, "idle") /\ Turn("seek") /\ Stay
      /\ UNCHANGED <<is_reading_attributes, depth>>
  BY DEF NextItem
<1> DEFINE g == [Top EXCEPT !.turn = "seek"]
<1>2. Top \in Access /\ Top.access \in Containers \cup {"flat"} /\ Top.turn = "idle" /\ Shaped(Top)
  BY <1>1, AtTop
<1>3. /\ g \in Access /\ g.access = Top.access /\ g.turn = "seek" /\ g.state = Top.state
      /\ g.is_value_only = Top.is_value_only /\ g.is_map_wrapped = Top.is_map_wrapped
  BY <1>2, Turned DEF Turns
<1> HIDE DEF g
<1>4. Counts(g) <=> Counts(Top)
  BY <1>2, <1>3 DEF Counts
<1>5. Shaped(g)
  <2>1. CASE Top.access \in Containers
    BY <1>2, <1>3, <2>1 DEF Shaped, Containers
  <2>2. CASE Top.access = "flat"
    <3>1. FlatShaped(Top) /\ Top.state \in FlatStates
      BY <1>2, <2>2, FrameType DEF Shaped
    <3>2. FlatShaped(g)
      BY <1>2, <1>3, <3>1 DEF FlatShaped, FlatStates
    <3> QED
      BY <1>2, <1>3, <2>2, <3>2 DEF Shaped
  <2> QED
    BY <1>2, <2>1, <2>2
<1>6. Placed(stack', asked', status', depth')
  BY <1>1, <1>4, <1>5, TurnPlaced DEF Turns, g
<1>7. Sound(consumed, ahead)'
  BY <1>1, StaySound DEF CallsInv
<1> QED
  BY <1>1, <1>6, <1>7 DEF CallsInv

LEMMA SemicolonCalls == CallsInv /\ Semicolon => CallsInv'
<1> SUFFICES ASSUME CallsInv, Semicolon PROVE CallsInv'
  OBVIOUS
<1>1. Consume /\ UNCHANGED <<is_reading_attributes, depth, stack, asked, status>>
  BY DEF Semicolon
<1>2. Sound(consumed, ahead)'
  BY <1>1, ConsumeSound DEF CallsInv
<1> QED
  BY <1>1, <1>2 DEF CallsInv

LEMMA ItemsOverCalls == CallsInv /\ ItemsOver => CallsInv'
<1> SUFFICES ASSUME CallsInv, ItemsOver PROVE CallsInv'
  OBVIOUS
<1>1. /\ At(Containers, "seek") /\ Turn("over") /\ Stay
      /\ UNCHANGED <<is_reading_attributes, depth>>
  BY DEF ItemsOver
<1> DEFINE g == [Top EXCEPT !.turn = "over"]
<1>2. Top \in Access /\ Top.access \in Containers /\ Top.turn = "seek" /\ Shaped(Top)
  BY <1>1, AtTop
<1>3. /\ g \in Access /\ g.access = Top.access /\ g.turn = "over" /\ g.state = Top.state
      /\ g.is_value_only = Top.is_value_only /\ g.is_map_wrapped = Top.is_map_wrapped
  BY <1>2, Turned DEF Turns
<1> HIDE DEF g
<1>4. Counts(g) <=> Counts(Top)
  BY <1>2, <1>3 DEF Counts, Containers
<1>5. Shaped(g)
  BY <1>2, <1>3 DEF Shaped, FlatShaped, Containers
<1>6. Placed(stack', asked', status', depth')
  BY <1>1, <1>4, <1>5, TurnPlaced DEF Turns, g
<1>7. Sound(consumed, ahead)'
  BY <1>1, StaySound DEF CallsInv
<1> QED
  BY <1>1, <1>6, <1>7 DEF CallsInv

LEMMA AdvanceToItemCalls == CallsInv /\ AdvanceToItem => CallsInv'
<1> SUFFICES ASSUME CallsInv, AdvanceToItem PROVE CallsInv'
  OBVIOUS
<1> DEFINE next == IF Top.access = "list" THEN "value" ELSE "key"
           g == [Top EXCEPT !.turn = next]
<1>1. /\ At(Containers, "seek") /\ Stay /\ UNCHANGED <<is_reading_attributes, depth>>
      /\ IF ahead = "eof" THEN Fail("short")
         ELSE AskIn([stack EXCEPT ![Len(stack)].turn = next]) /\ UNCHANGED status
  BY DEF AdvanceToItem
<1>2. /\ Top \in Access /\ Top.access \in Containers /\ Top.turn = "seek" /\ Shaped(Top)
      /\ depth \in Nat
  BY <1>1, AtTop
<1>3. Sound(consumed, ahead)'
  BY <1>1, StaySound DEF CallsInv
<1>4. next \in {"key", "variant", "value"} /\ next \in Turns
      /\ (Top.access = "list" => next = "value") /\ next \in {"key", "value"}
  BY DEF Turns
<1> HIDE DEF next
<1>5. /\ g \in Access /\ g.access = Top.access /\ g.turn = next /\ g.state = Top.state
      /\ g.is_value_only = Top.is_value_only /\ g.is_map_wrapped = Top.is_map_wrapped
  BY <1>2, <1>4, Turned
<1> HIDE DEF g
<1>6. Shaped(g)
  BY <1>2, <1>4, <1>5 DEF Shaped, Containers
<1>7. Placed(stack', asked', status', depth')
  <2>1. CASE ahead = "eof"
    BY <1>1, <1>2, <2>1, FailPlaced DEF Failures
  <2>2. CASE ahead # "eof"
    BY <1>1, <1>4, <1>6, <2>2, AskTurnPlaced DEF g
  <2> QED
    BY <2>1, <2>2
<1> QED
  BY <1>1, <1>3, <1>7 DEF CallsInv

LEMMA NextValueCalls == CallsInv /\ NextValue => CallsInv'
<1> SUFFICES ASSUME CallsInv, NextValue PROVE CallsInv'
  OBVIOUS
<1> DEFINE g == [Top EXCEPT !.turn = "value"]
           Asks1 == AskIn([stack EXCEPT ![Len(stack)].turn = "value"]) /\ UNCHANGED status
<1>1. At({"map", "attributes", "flat"}, "keyed") /\ UNCHANGED <<is_reading_attributes, depth>>
  BY DEF NextValue
<1>2. (Stay /\ Asks1) \/ (Consume /\ Asks1) \/ Refuse
  BY DEF NextValue
<1>3. /\ Top \in Access /\ Top.access \in {"map", "attributes", "flat"} /\ Top.turn = "keyed"
      /\ Shaped(Top)
  BY <1>1, AtTop
<1>4. /\ g \in Access /\ g.access = Top.access /\ g.turn = "value" /\ g.state = Top.state
      /\ g.is_value_only = Top.is_value_only /\ g.is_map_wrapped = Top.is_map_wrapped
  BY <1>3, Turned DEF Turns
<1> HIDE DEF g
<1>5. Shaped(g)
  <2>1. CASE Top.access = "flat"
    <3>1. FlatShaped(Top) /\ Top.state \in FlatStates
      BY <1>3, <2>1, FrameType DEF Shaped
    <3>2. FlatShaped(g)
      BY <1>3, <1>4, <3>1 DEF FlatShaped, FlatStates
    <3> QED
      BY <1>3, <1>4, <2>1, <3>2 DEF Shaped
  <2>2. CASE Top.access # "flat"
    BY <1>3, <1>4, <2>2 DEF Shaped
  <2> QED
    BY <2>1, <2>2
<1>6. CASE Asks1 /\ (Stay \/ Consume)
  <2>1. Sound(consumed, ahead)'
    BY <1>6, StaySound, ConsumeSound DEF CallsInv
  <2>2. Placed(stack', asked', status', depth')
    BY <1>1, <1>5, <1>6, AskTurnPlaced DEF g
  <2> QED
    BY <1>1, <2>1, <2>2 DEF CallsInv
<1>7. CASE Refuse
  <2>1. Sound(consumed, ahead)' /\ Placed(stack', asked', status', depth')
    BY <1>1, <1>7, RefusePlaced
  <2> QED
    BY <1>1, <2>1 DEF CallsInv
<1> QED
  BY <1>2, <1>6, <1>7

LEMMA VisitorReturnsCalls == CallsInv /\ VisitorReturns => CallsInv'
<1> SUFFICES ASSUME CallsInv, VisitorReturns PROVE CallsInv'
  OBVIOUS
<1> DEFINE g == [Top EXCEPT !.turn = "closing"]
<1>1. /\ Turn("closing") /\ Stay /\ depth' = depth - 1 /\ UNCHANGED is_reading_attributes
      /\ \E turn \in {"idle", "over"} : At(Containers, turn)
  BY DEF VisitorReturns, leave_recursion
<1>2. PICK turn \in {"idle", "over"} : At(Containers, turn)
  BY <1>1
<1>3. /\ stack \in Seq(Access) /\ stack # <<>> /\ Top \in Access /\ Top.access \in Containers
      /\ Top.turn = turn /\ Shaped(Top) /\ depth \in Nat
  BY <1>2, AtTop
<1>4. /\ g \in Access /\ g.access = Top.access /\ g.turn = "closing" /\ g.state = Top.state
      /\ g.is_value_only = Top.is_value_only /\ g.is_map_wrapped = Top.is_map_wrapped
  BY <1>3, Turned DEF Turns
<1>5. stack' = Append(Front(stack), g) /\ asked' = asked /\ status' = status
  <2>1. "closing" \in Turns
    BY DEF Turns
  <2> QED
    BY <1>1, <1>3, <2>1, TopTurn DEF Turn
<1> HIDE DEF g
<1>6. Counts(Top) /\ ~Counts(g)
  BY <1>2, <1>3, <1>4 DEF Counts, Containers
<1>7. Shaped(g) /\ ~Waits(g)
  BY <1>3, <1>4 DEF Shaped, Waits, Containers
<1>8. depth' = depth - (IF Counts(Top) THEN 1 ELSE 0) + (IF Counts(g) THEN 1 ELSE 0)
  BY <1>1, <1>3, <1>6
<1>9. Placed(stack', asked', status', depth')
  BY <1>2, <1>4, <1>5, <1>6, <1>7, <1>8, GoPlaced
<1>10. Sound(consumed, ahead)'
  BY <1>1, StaySound DEF CallsInv
<1> QED
  BY <1>1, <1>9, <1>10 DEF CallsInv

LEMMA CloseContainerCalls == CallsInv /\ CloseContainer => CallsInv'
<1> SUFFICES ASSUME CallsInv, CloseContainer PROVE CallsInv'
  OBVIOUS
<1>1. /\ At(Containers, "closing") /\ UNCHANGED <<is_reading_attributes, depth>>
      /\ \/ Consume /\ Complete(Below)
         \/ Stay /\ Fail(IF ahead = "eof" THEN "short" ELSE "longer")
  BY DEF CloseContainer
<1>2. Top.access \in Containers /\ Top.turn = "closing" /\ depth \in Nat
  BY <1>1, AtTop
<1>3. ~Counts(Top)
  BY <1>2 DEF Counts
<1>4. CASE Consume /\ Complete(Below)
  <2>1. depth' = depth - (IF Counts(Top) THEN 1 ELSE 0)
    BY <1>1, <1>2, <1>3
  <2>2. Placed(stack', asked', status', depth')
    BY <1>1, <1>4, <2>1, ReturnPlaced
  <2>3. Sound(consumed, ahead)'
    BY <1>4, ConsumeSound DEF CallsInv
  <2> QED
    BY <1>1, <2>2, <2>3 DEF CallsInv
<1>5. CASE Stay /\ Fail(IF ahead = "eof" THEN "short" ELSE "longer")
  <2>1. Placed(stack', asked', status', depth')
    BY <1>1, <1>2, <1>5, FailPlaced DEF Failures
  <2>2. Sound(consumed, ahead)'
    BY <1>5, StaySound DEF CallsInv
  <2> QED
    BY <1>1, <2>1, <2>2 DEF CallsInv
<1> QED
  BY <1>1, <1>4, <1>5

-----------------------------------------------------------------------------
(* FlatStructAccess *)

LEMMA FlatCalls == CallsInv /\ Flat => CallsInv'
<1> SUFFICES ASSUME CallsInv, Flat PROVE CallsInv'
  OBVIOUS
<1> DEFINE state == FlatEntered(ahead)
           g == NewFrame("flat", "idle", state, 0, FALSE)
<1>1. /\ Asking({"flat", "any"}) /\ UNCHANGED is_reading_attributes
      /\ IF ahead = "eof" /\ depth < max_depth
         THEN Stay /\ depth' = depth + 1 /\ Fail("short")
         ELSE Enter(g, "nothing") /\ (Stay \/ Consume)
  BY DEF Flat, Asking
<1>2. /\ status = "reading" /\ Waiting(stack) /\ depth = Cardinality(Counting(stack))
      /\ depth \in Nat
  BY <1>1, AskingTop DEF Methods
<1>3. state \in {"Attributes", "Body", "Done", "ValueOnly"}
  BY DEF FlatEntered
<1> HIDE DEF state
<1>4. /\ g \in Access /\ g.access = "flat" /\ g.turn = "idle" /\ g.state = state
      /\ g.is_value_only = FALSE /\ g.is_map_wrapped = FALSE
  BY <1>3 DEF NewFrame, Access, Accesses, Turns, FlatStates
<1> HIDE DEF g
<1>5. Shaped(g) /\ ~Waits(g) /\ Counts(g) /\ g.access # "skip"
  BY <1>3, <1>4 DEF Shaped, FlatShaped, Waits, Counts, Containers
<1>6. CASE ahead = "eof" /\ depth < max_depth
  <2>1. Stay /\ depth' \in Nat /\ Fail("short")
    BY <1>1, <1>2, <1>6
  <2>2. Sound(consumed, ahead)' /\ Placed(stack', asked', status', depth')
    BY <2>1, StaySound, FailPlaced DEF CallsInv, Failures
  <2> QED
    BY <1>1, <2>2 DEF CallsInv
<1>7. CASE ~(ahead = "eof" /\ depth < max_depth)
  <2>1. Enter(g, "nothing") /\ (Stay \/ Consume)
    BY <1>1, <1>7
  <2>2. Sound(consumed, ahead)'
    BY <2>1, StaySound, ConsumeSound DEF CallsInv
  <2>3. Placed(stack', asked', status', depth')
    BY <1>2, <1>4, <1>5, <2>1, EnterPlaced
  <2> QED
    BY <1>1, <2>2, <2>3 DEF CallsInv
<1> QED
  BY <1>6, <1>7

\* FlatTo replaces the last frame.
LEMMA FlatToTop ==
    ASSUME stack \in Seq(Access), stack # <<>>, NEW state \in FlatStates, NEW turn \in Turns
    PROVE  LET g == [Top EXCEPT !.state = state, !.turn = turn] IN
           /\ [stack EXCEPT ![Len(stack)].state = state, ![Len(stack)].turn = turn]
                 = Append(Front(stack), g)
           /\ g \in Access /\ g.access = Top.access /\ g.turn = turn /\ g.state = state
           /\ g.is_value_only = Top.is_value_only /\ g.is_map_wrapped = Top.is_map_wrapped
<1> DEFINE g == [Top EXCEPT !.state = state, !.turn = turn]
<1>1. Len(stack) \in 1..Len(stack) /\ DOMAIN stack = 1..Len(stack)
  BY Split, LenProperties
<1>2. [stack EXCEPT ![Len(stack)].state = state, ![Len(stack)].turn = turn]
        = [stack EXCEPT ![Len(stack)] = g]
  BY <1>1 DEF Top
<1>3. Top \in Access
  BY Split DEF Top, Last
<1>4. /\ g \in Access /\ g.access = Top.access /\ g.turn = turn /\ g.state = state
      /\ g.is_value_only = Top.is_value_only /\ g.is_map_wrapped = Top.is_map_wrapped
  BY <1>3 DEF Access
<1> QED
  BY <1>2, <1>4, Replaced

\* A turn of the loop that leaves a shape behind.
LEMMA FlatToPlaced ==
    ASSUME CallsInv, At({"flat"}, "seek"), ~Top.is_value_only,
           NEW state \in FlatStates, NEW turn \in {"seek", "over"},
           turn = "over" => state = "Done",
           FlatTo(state, turn), UNCHANGED depth
    PROVE  Placed(stack', asked', status', depth')
<1> DEFINE g == [Top EXCEPT !.state = state, !.turn = turn]
<1>1. /\ stack \in Seq(Access) /\ stack # <<>> /\ Top \in Access /\ Top.access \in {"flat"}
      /\ Top.turn = "seek" /\ Shaped(Top) /\ depth \in Nat
  BY AtTop
<1>2. turn \in Turns
  BY DEF Turns
<1>3. /\ stack' = Append(Front(stack), g) /\ asked' = asked /\ status' = status
      /\ g \in Access /\ g.access = Top.access /\ g.turn = turn /\ g.state = state
      /\ g.is_value_only = Top.is_value_only /\ g.is_map_wrapped = Top.is_map_wrapped
  BY <1>1, <1>2, FlatToTop DEF FlatTo
<1> HIDE DEF g
<1>4. Shaped(g) /\ ~Waits(g)
  <2>1. FlatShaped(g)
    BY <1>3 DEF FlatShaped, FlatStates
  <2> QED
    BY <1>1, <1>3, <2>1 DEF Shaped, Waits
<1>5. Counts(g) /\ Counts(Top)
  BY <1>1, <1>3 DEF Counts, Containers
<1>6. depth' = depth - (IF Counts(Top) THEN 1 ELSE 0) + (IF Counts(g) THEN 1 ELSE 0)
  BY <1>1, <1>5
<1> QED
  BY <1>3, <1>4, <1>5, <1>6, GoPlaced

LEMMA FlatKeyPlaced ==
    ASSUME CallsInv, At({"flat"}, "seek"),
           NEW state \in {"Attributes", "Done"}, NEW only \in BOOLEAN, only <=> state = "Done",
           FlatKey(state, only), UNCHANGED depth
    PROVE  Placed(stack', asked', status', depth')
<1> DEFINE g == [Top EXCEPT !.state = state, !.turn = "keyed", !.is_value_only = only]
<1>1. /\ stack \in Seq(Access) /\ stack # <<>> /\ Top \in Access /\ Top.access \in {"flat"}
      /\ Top.turn = "seek" /\ Shaped(Top) /\ depth \in Nat
  BY AtTop
<1>2. state \in FlatStates
  BY DEF FlatStates
<1>3. /\ stack' = Append(Front(stack), g) /\ asked' = asked /\ status' = status
      /\ g \in Access /\ g.access = Top.access /\ g.turn = "keyed" /\ g.state = state
      /\ g.is_value_only = only /\ g.is_map_wrapped = Top.is_map_wrapped
  <2>1. /\ stack' = [stack EXCEPT ![Len(stack)] = g]
        /\ asked' = asked /\ status' = status
    BY DEF FlatKey
  <2>2. /\ g \in Access /\ g.access = Top.access /\ g.turn = "keyed" /\ g.state = state
        /\ g.is_value_only = only /\ g.is_map_wrapped = Top.is_map_wrapped
    BY <1>1, <1>2 DEF Access, Turns
  <2>3. [stack EXCEPT ![Len(stack)] = g] = Append(Front(stack), g)
    BY <1>1, <2>2, Replaced
  <2> QED
    BY <2>1, <2>2, <2>3
<1> HIDE DEF g
<1>4. Shaped(g) /\ ~Waits(g)
  BY <1>1, <1>3 DEF Shaped, FlatShaped, Waits
<1>5. Counts(g) /\ Counts(Top)
  BY <1>1, <1>3 DEF Counts, Containers
<1>6. depth' = depth - (IF Counts(Top) THEN 1 ELSE 0) + (IF Counts(g) THEN 1 ELSE 0)
  BY <1>1, <1>5
<1> QED
  BY <1>3, <1>4, <1>5, <1>6, GoPlaced

LEMMA FlatAttributesCalls == CallsInv /\ FlatAttributes => CallsInv'
<1> SUFFICES ASSUME CallsInv, FlatAttributes PROVE CallsInv'
  OBVIOUS
<1>1. /\ At({"flat"}, "seek") /\ Top.state = "Attributes"
      /\ UNCHANGED <<is_reading_attributes, depth>>
      /\ \/ Consume /\ FlatTo("Between", "seek")
         \/ Consume /\ FlatKey("Attributes", FALSE)
         \/ Refuse
  BY DEF FlatAttributes
<1>2. ~Top.is_value_only
  BY <1>1, AtTop DEF Shaped
<1>3. CASE Consume /\ (FlatTo("Between", "seek") \/ FlatKey("Attributes", FALSE))
  <2>1. Sound(consumed, ahead)'
    BY <1>3, ConsumeSound DEF CallsInv
  <2>2. Placed(stack', asked', status', depth')
    BY <1>1, <1>2, <1>3, FlatToPlaced, FlatKeyPlaced DEF FlatStates
  <2> QED
    BY <1>1, <2>1, <2>2 DEF CallsInv
<1>4. CASE Refuse
  <2>1. Sound(consumed, ahead)' /\ Placed(stack', asked', status', depth')
    BY <1>1, <1>4, RefusePlaced
  <2> QED
    BY <1>1, <2>1 DEF CallsInv
<1> QED
  BY <1>1, <1>3, <1>4

LEMMA FlatBetweenCalls == CallsInv /\ FlatBetween => CallsInv'
<1> SUFFICES ASSUME CallsInv, FlatBetween PROVE CallsInv'
  OBVIOUS
<1>1. /\ At({"flat"}, "seek") /\ Top.state = "Between"
      /\ UNCHANGED <<is_reading_attributes, depth>>
      /\ \/ Consume /\ FlatTo("Body", "seek")
         \/ Consume /\ FlatTo("Done", "over")
         \/ Stay /\ Fail("short")
         \/ Stay /\ FlatTo("ValueOnly", "seek")
  BY DEF FlatBetween
<1>2. ~Top.is_value_only /\ depth \in Nat
  BY <1>1, AtTop DEF Shaped
<1>3. Sound(consumed, ahead)'
  BY <1>1, StaySound, ConsumeSound DEF CallsInv
<1>4. CASE FlatTo("Body", "seek") \/ FlatTo("Done", "over") \/ FlatTo("ValueOnly", "seek")
  <2>1. Placed(stack', asked', status', depth')
    BY <1>1, <1>2, <1>4, FlatToPlaced DEF FlatStates
  <2> QED
    BY <1>1, <1>3, <2>1 DEF CallsInv
<1>5. CASE Fail("short")
  <2>1. Placed(stack', asked', status', depth')
    BY <1>1, <1>2, <1>5, FailPlaced DEF Failures
  <2> QED
    BY <1>1, <1>3, <2>1 DEF CallsInv
<1> QED
  BY <1>1, <1>4, <1>5

LEMMA FlatBodyCalls == CallsInv /\ FlatBody => CallsInv'
<1> SUFFICES ASSUME CallsInv, FlatBody PROVE CallsInv'
  OBVIOUS
<1> DEFINE g == [Top EXCEPT !.turn = "key", !.is_value_only = FALSE]
           Goes == AskIn([stack EXCEPT ![Len(stack)].turn = "key",
                                       ![Len(stack)].is_value_only = FALSE])
<1>1. /\ At({"flat"}, "seek") /\ Top.state = "Body"
      /\ UNCHANGED <<is_reading_attributes, depth>>
      /\ \/ Consume /\ FlatTo("Done", "over")
         \/ Stay /\ Fail("short")
         \/ Stay /\ UNCHANGED status /\ Goes
  BY DEF FlatBody
<1>2. /\ stack \in Seq(Access) /\ stack # <<>> /\ Top \in Access /\ Top.access \in {"flat"}
      /\ Top.turn = "seek" /\ Shaped(Top) /\ depth \in Nat /\ ~Top.is_value_only
  BY <1>1, AtTop DEF Shaped
<1>3. Sound(consumed, ahead)'
  BY <1>1, StaySound, ConsumeSound DEF CallsInv
<1>4. CASE FlatTo("Done", "over")
  <2>1. Placed(stack', asked', status', depth')
    BY <1>1, <1>2, <1>4, FlatToPlaced DEF FlatStates
  <2> QED
    BY <1>1, <1>3, <2>1 DEF CallsInv
<1>5. CASE Fail("short")
  <2>1. Placed(stack', asked', status', depth')
    BY <1>1, <1>2, <1>5, FailPlaced DEF Failures
  <2> QED
    BY <1>1, <1>3, <2>1 DEF CallsInv
<1>6. CASE UNCHANGED status /\ Goes
  <2>1. /\ g \in Access /\ g.access = Top.access /\ g.turn = "key" /\ g.state = Top.state
        /\ g.is_value_only = FALSE /\ g.is_map_wrapped = Top.is_map_wrapped
    BY <1>2 DEF Access, Turns
  <2>2. AskIn(Append(Front(stack), g))
    <3>1. Len(stack) \in 1..Len(stack) /\ DOMAIN stack = 1..Len(stack)
      BY <1>2, Split, LenProperties
    <3>2. [stack EXCEPT ![Len(stack)].turn = "key", ![Len(stack)].is_value_only = FALSE]
            = [stack EXCEPT ![Len(stack)] = g]
      BY <3>1 DEF Top
    <3> QED
      BY <1>2, <1>6, <2>1, <3>2, Replaced
  <2> HIDE DEF g
  <2>3. Shaped(g) /\ Waits(g) /\ (Counts(Top) <=> Counts(g))
    BY <1>1, <1>2, <2>1 DEF Shaped, FlatShaped, Waits, Counts, Containers
  <2>4. Placed(stack', asked', status', depth')
    BY <1>1, <1>6, <2>1, <2>2, <2>3, AskPlaced
  <2> QED
    BY <1>1, <1>3, <2>4 DEF CallsInv
<1> QED
  BY <1>1, <1>4, <1>5, <1>6

LEMMA FlatValueOnlyCalls == CallsInv /\ FlatValueOnly => CallsInv'
<1> SUFFICES ASSUME CallsInv, FlatValueOnly PROVE CallsInv'
  OBVIOUS
<1>1. /\ At({"flat"}, "seek") /\ FlatKey("Done", TRUE) /\ Stay
      /\ UNCHANGED <<is_reading_attributes, depth>>
  BY DEF FlatValueOnly
<1>2. Sound(consumed, ahead)' /\ Placed(stack', asked', status', depth')
  BY <1>1, StaySound, FlatKeyPlaced DEF CallsInv
<1> QED
  BY <1>1, <1>2 DEF CallsInv

LEMMA FlatDoneCalls == CallsInv /\ FlatDone => CallsInv'
<1> SUFFICES ASSUME CallsInv, FlatDone PROVE CallsInv'
  OBVIOUS
<1>1. /\ At({"flat"}, "seek") /\ Turn("over") /\ Stay /\ Top.state = "Done"
      /\ UNCHANGED <<is_reading_attributes, depth>>
  BY DEF FlatDone
<1> DEFINE g == [Top EXCEPT !.turn = "over"]
<1>2. Top \in Access /\ Top.access \in {"flat"} /\ Top.turn = "seek" /\ Shaped(Top)
  BY <1>1, AtTop
<1>3. /\ g \in Access /\ g.access = Top.access /\ g.turn = "over" /\ g.state = Top.state
      /\ g.is_value_only = Top.is_value_only /\ g.is_map_wrapped = Top.is_map_wrapped
  BY <1>2, Turned DEF Turns
<1> HIDE DEF g
<1>4. Counts(g) <=> Counts(Top)
  BY <1>2, <1>3 DEF Counts, Containers
<1>5. Shaped(g)
  BY <1>1, <1>2, <1>3 DEF Shaped, FlatShaped, Containers
<1>6. Placed(stack', asked', status', depth')
  BY <1>1, <1>4, <1>5, TurnPlaced DEF Turns, g
<1>7. Sound(consumed, ahead)'
  BY <1>1, StaySound DEF CallsInv
<1> QED
  BY <1>1, <1>6, <1>7 DEF CallsInv

LEMMA FlatReturnsCalls == CallsInv /\ FlatReturns => CallsInv'
<1> SUFFICES ASSUME CallsInv, FlatReturns PROVE CallsInv'
  OBVIOUS
<1>1. /\ At({"flat"}, "over") /\ Complete(Below) /\ depth' = depth - 1
      /\ Stay /\ UNCHANGED is_reading_attributes
  BY DEF FlatReturns, leave_recursion
<1>2. Top.access \in {"flat"} /\ Top.turn = "over" /\ depth \in Nat
  BY <1>1, AtTop
<1>3. Counts(Top)
  BY <1>2 DEF Counts, Containers
<1>4. Sound(consumed, ahead)' /\ is_reading_attributes' \in BOOLEAN
  BY <1>1, StaySound DEF CallsInv
<1>5. depth' = depth - (IF Counts(Top) THEN 1 ELSE 0)
  BY <1>1, <1>2, <1>3
<1>6. Placed(stack', asked', status', depth')
  BY <1>1, <1>5, ReturnPlaced
<1> QED
  BY <1>4, <1>6 DEF CallsInv

-----------------------------------------------------------------------------
(* deserialize_enum and EnumAccess *)

LEMMA EnumCalls == CallsInv /\ Enum => CallsInv'
<1> SUFFICES ASSUME CallsInv, Enum PROVE CallsInv'
  OBVIOUS
<1> DEFINE wrapped == ahead = "BeginMap"
           g == NewFrame("enum", "variant", "Done", 0, wrapped)
<1>1. /\ Asking({"enum"}) /\ UNCHANGED <<is_reading_attributes, depth>>
      /\ \/ Stay /\ Fail("short")
         \/ AskIn(Append(stack, g)) /\ UNCHANGED status /\ (Stay \/ Consume)
  BY DEF Enum
<1>2. /\ status = "reading" /\ stack \in Seq(Access) /\ Waiting(stack)
      /\ depth = Cardinality(Counting(stack)) /\ depth <= max_depth /\ depth \in Nat
  BY <1>1, AskingTop DEF Methods
<1>3. Sound(consumed, ahead)'
  BY <1>1, StaySound, ConsumeSound DEF CallsInv
<1>4. CASE Fail("short")
  <2>1. Placed(stack', asked', status', depth')
    BY <1>1, <1>2, <1>4, FailPlaced DEF Failures
  <2> QED
    BY <1>1, <1>3, <2>1 DEF CallsInv
<1>5. CASE AskIn(Append(stack, g)) /\ UNCHANGED status
  <2>1. wrapped \in BOOLEAN
    OBVIOUS
  <2> HIDE DEF wrapped
  <2>2. /\ g \in Access /\ g.access = "enum" /\ g.turn = "variant"
        /\ g.is_value_only = FALSE /\ g.is_map_wrapped = wrapped
    BY <2>1 DEF NewFrame, Access, Accesses, Turns, FlatStates
  <2> HIDE DEF g
  <2>3. Shaped(g) /\ Waits(g) /\ ~Counts(g)
    BY <2>2 DEF Shaped, Waits, Counts, Containers
  <2>4. Append(stack, g) \in Seq(Access) /\ Append(stack, g) # <<>>
    BY <1>2, <2>2, Pushed
  <2>5. stack' = Append(stack, g) /\ asked' \in Methods /\ asked' # "nothing"
    BY <1>5, <2>4, AskInType
  <2>6. depth' = Cardinality(Counting(stack)) + (IF Counts(g) THEN 1 ELSE 0) /\ depth' <= max_depth
    BY <1>1, <1>2, <2>3
  <2>7. Placed(Append(stack, g), asked', "reading", depth')
    BY <1>2, <2>2, <2>3, <2>5, <2>6, PlacedOn
  <2> QED
    BY <1>1, <1>2, <1>3, <1>5, <2>5, <2>7 DEF CallsInv
<1> QED
  BY <1>1, <1>4, <1>5

\* An enum goes on to another turn.
LEMMA EnumTurnPlaced ==
    ASSUME CallsInv, NEW turn, At({"enum"}, turn), turn \notin {"key", "variant", "value"},
           NEW next \in {"closing", "unit", "last"}, Turn(next),
           next # "closing" => Top.is_map_wrapped, UNCHANGED depth
    PROVE  Placed(stack', asked', status', depth')
<1> DEFINE g == [Top EXCEPT !.turn = next]
<1>1. Top \in Access /\ Top.access \in {"enum"} /\ Top.turn = turn /\ Shaped(Top)
  BY AtTop
<1>2. next \in Turns \ {"key", "variant", "value"} /\ next \in Turns
  BY DEF Turns
<1>3. /\ g \in Access /\ g.access = Top.access /\ g.turn = next /\ g.state = Top.state
      /\ g.is_value_only = Top.is_value_only /\ g.is_map_wrapped = Top.is_map_wrapped
  BY <1>1, <1>2, Turned
<1> HIDE DEF g
<1>4. (Counts(g) <=> Counts(Top)) /\ Shaped(g)
  BY <1>1, <1>3 DEF Counts, Shaped, Containers
<1> QED
  BY <1>2, <1>4, TurnPlaced DEF g

LEMMA UnitVariantCalls == CallsInv /\ UnitVariant => CallsInv'
<1> SUFFICES ASSUME CallsInv, UnitVariant PROVE CallsInv'
  OBVIOUS
<1>1. /\ At({"enum"}, "tagged") /\ UNCHANGED <<is_reading_attributes, depth>>
      /\ \/ Stay /\ Turn("closing")
         \/ Consume /\ Turn("unit") /\ Top.is_map_wrapped
         \/ Refuse
  BY DEF UnitVariant
<1>2. Sound(consumed, ahead)'
  BY <1>1, StaySound, ConsumeSound DEF CallsInv, Refuse
<1>3. Placed(stack', asked', status', depth')
  BY <1>1, EnumTurnPlaced, RefusePlaced
<1> QED
  BY <1>1, <1>2, <1>3 DEF CallsInv

LEMMA UnitContentCalls == CallsInv /\ UnitContent => CallsInv'
<1> SUFFICES ASSUME CallsInv, UnitContent PROVE CallsInv'
  OBVIOUS
<1>1. /\ At({"enum"}, "unit") /\ UNCHANGED <<is_reading_attributes, depth>>
      /\ \/ Consume /\ Turn("closing")
         \/ Refuse
  BY DEF UnitContent
<1>2. Sound(consumed, ahead)'
  BY <1>1, StaySound, ConsumeSound DEF CallsInv, Refuse
<1>3. Placed(stack', asked', status', depth')
  BY <1>1, EnumTurnPlaced, RefusePlaced
<1> QED
  BY <1>1, <1>2, <1>3 DEF CallsInv

LEMMA ContentVariantCalls == CallsInv /\ ContentVariant => CallsInv'
<1> SUFFICES ASSUME CallsInv, ContentVariant PROVE CallsInv'
  OBVIOUS
<1> DEFINE g == [Top EXCEPT !.turn = "value"]
           Goes == AskIn([stack EXCEPT ![Len(stack)].turn = "value"]) /\ UNCHANGED status
<1>1. /\ At({"enum"}, "tagged") /\ UNCHANGED <<is_reading_attributes, depth>>
      /\ (Consume /\ Goes) \/ Refuse
  BY DEF ContentVariant
<1>2. Top \in Access /\ Top.access \in {"enum"} /\ Shaped(Top)
  BY <1>1, AtTop
<1>3. /\ g \in Access /\ g.access = Top.access /\ g.turn = "value" /\ g.state = Top.state
      /\ g.is_value_only = Top.is_value_only /\ g.is_map_wrapped = Top.is_map_wrapped
  BY <1>2, Turned DEF Turns
<1> HIDE DEF g
<1>4. Shaped(g)
  BY <1>2, <1>3 DEF Shaped, Containers
<1>5. CASE Consume /\ Goes
  <2>1. Sound(consumed, ahead)'
    BY <1>5, ConsumeSound DEF CallsInv
  <2>2. Placed(stack', asked', status', depth')
    BY <1>1, <1>4, <1>5, AskTurnPlaced DEF g
  <2> QED
    BY <1>1, <2>1, <2>2 DEF CallsInv
<1>6. CASE Refuse
  BY <1>1, <1>6, RefusePlaced DEF CallsInv
<1> QED
  BY <1>1, <1>5, <1>6

LEMMA EnumReturnsCalls == CallsInv /\ EnumReturns => CallsInv'
<1> SUFFICES ASSUME CallsInv, EnumReturns PROVE CallsInv'
  OBVIOUS
<1>1. /\ At({"enum"}, "closing") /\ Complete(Below) /\ UNCHANGED depth
      /\ Stay /\ UNCHANGED is_reading_attributes
  BY DEF EnumReturns
<1>2. Top.access \in {"enum"} /\ depth \in Nat
  BY <1>1, AtTop
<1>3. depth' = depth - (IF Counts(Top) THEN 1 ELSE 0)
  BY <1>1, <1>2 DEF Counts
<1>4. Sound(consumed, ahead)' /\ Placed(stack', asked', status', depth')
  BY <1>1, <1>3, StaySound, ReturnPlaced DEF CallsInv
<1> QED
  BY <1>1, <1>4 DEF CallsInv

LEMMA EnumDropsCalls == CallsInv /\ EnumDrops => CallsInv'
<1> SUFFICES ASSUME CallsInv, EnumDrops PROVE CallsInv'
  OBVIOUS
<1>1. /\ At({"enum"}, "closing") /\ Top.is_map_wrapped /\ Consume
      /\ UNCHANGED <<is_reading_attributes, depth>>
      /\ Turn("last") \/ Turn("closing")
  BY DEF EnumDrops
<1>2. Sound(consumed, ahead)' /\ Placed(stack', asked', status', depth')
  BY <1>1, ConsumeSound, EnumTurnPlaced DEF CallsInv
<1> QED
  BY <1>1, <1>2 DEF CallsInv

LEMMA EnumEndCalls == CallsInv /\ EnumEnd => CallsInv'
<1> SUFFICES ASSUME CallsInv, EnumEnd PROVE CallsInv'
  OBVIOUS
<1>1. /\ \E turn \in {"last", "closing"} : At({"enum"}, turn)
      /\ (Consume /\ Complete(Below)) \/ Refuse
      /\ UNCHANGED <<is_reading_attributes, depth>>
  BY DEF EnumEnd
<1>2. PICK turn \in {"last", "closing"} : At({"enum"}, turn)
  BY <1>1
<1>3. CASE Refuse
  BY <1>1, <1>3, RefusePlaced DEF CallsInv
<1>4. CASE Consume /\ Complete(Below)
  <2>1. Top.access \in {"enum"} /\ depth \in Nat
    BY <1>2, AtTop
  <2>2. depth' = depth - (IF Counts(Top) THEN 1 ELSE 0)
    BY <1>1, <2>1 DEF Counts
  <2>3. Sound(consumed, ahead)' /\ Placed(stack', asked', status', depth')
    BY <1>2, <1>4, <2>2, ConsumeSound, ReturnPlaced DEF CallsInv
  <2> QED
    BY <1>1, <2>3 DEF CallsInv
<1> QED
  BY <1>1, <1>3, <1>4

-----------------------------------------------------------------------------
(* end, and a new Deserializer *)

LEMMA EndCalls == CallsInv /\ End => CallsInv'
<1> SUFFICES ASSUME CallsInv, End PROVE CallsInv'
  OBVIOUS
<1>1. /\ status = "read" /\ status' \in {"ended", "trailing"}
      /\ UNCHANGED <<consumed, ahead, is_reading_attributes, depth, stack, asked>>
  BY DEF End
<1>2. Placed(stack, asked, status', depth)
  BY <1>1 DEF CallsInv, Placed, Failures
<1> QED
  BY <1>1, <1>2 DEF CallsInv

LEMMA NewCalls == CallsInv /\ New => CallsInv'
<1> SUFFICES ASSUME CallsInv, New PROVE CallsInv'
  OBVIOUS
<1>1. /\ consumed' = NewFragment /\ ahead' \in Following(NewFragment)
      /\ is_reading_attributes' = FALSE /\ depth' = 0 /\ stack' = <<>>
      /\ asked' \in Asks["plain"] /\ status' = "reading"
  BY DEF New
<1>2. asked' \in Methods
  BY <1>1, AsksAssumption DEF Slots
<1>3. Sound(consumed, ahead)'
  BY <1>1, NewSound
<1>4. Placed(stack', asked', status', depth')
  BY <1>1, <1>2, PlacedAlone
<1> QED
  BY <1>1, <1>3, <1>4 DEF CallsInv

-----------------------------------------------------------------------------
LEMMA CallsInit == Init => CallsInv
<1> SUFFICES ASSUME Init PROVE CallsInv
  OBVIOUS
<1>1. /\ consumed = NewFragment /\ ahead \in Following(NewFragment)
      /\ is_reading_attributes = FALSE /\ depth = 0 /\ stack = <<>>
      /\ asked \in Asks["plain"] /\ status = "reading"
  BY DEF Init
<1>2. asked \in Methods
  BY <1>1, AsksAssumption DEF Slots
<1>3. Sound(consumed, ahead)
  BY <1>1, NewSound
<1>4. Placed(stack, asked, status, depth)
  BY <1>1, <1>2, PlacedAlone
<1> QED
  BY <1>1, <1>3, <1>4 DEF CallsInv

LEMMA CallsStep == CallsInv /\ [Next]_vars => CallsInv'
<1>1. CallsInv /\ UNCHANGED vars => CallsInv'
  BY DEF CallsInv, vars
<1> QED
  BY <1>1,
     AnyAtomCalls, AnyContainerCalls, AnyUnexpectedCalls,
     MismatchCalls, AnyAttributesCalls, AnyNoAttributesCalls,
     SkipAttributesCalls, SkipTokenCalls, SkipEndCalls,
     SkipShortCalls, OptionOfAttributesCalls, OptionEndCalls,
     OptionNoneCalls, OptionSomeCalls, WrapperCalls,
     WrapperElementCalls, WrapperEndCalls, NextItemCalls,
     SemicolonCalls, ItemsOverCalls, AdvanceToItemCalls,
     NextValueCalls, VisitorReturnsCalls, CloseContainerCalls,
     FlatCalls, FlatAttributesCalls, FlatBetweenCalls,
     FlatBodyCalls, FlatValueOnlyCalls, FlatDoneCalls,
     FlatReturnsCalls, EnumCalls, UnitVariantCalls,
     UnitContentCalls, ContentVariantCalls, EnumReturnsCalls,
     EnumDropsCalls, EnumEndCalls, EndCalls,
     NewCalls
  DEF Next

LEMMA CallsAlways == Spec => []CallsInv
<1> QED
  BY CallsInit, CallsStep, PTL DEF Spec

\* The type invariant, for every caller: whatever is asked for in whichever order,
\* and however a document goes on or is cut short.
THEOREM TypeCorrect == Spec => []TypeOK
<1> QED
  BY CallsAlways, CallsImply, PTL

\* The recursion counter of enter_recursion and the Drops of the access objects
\* (de.rs:60, access.rs) is the number of calls in progress that count, and stays
\* below the limit while a value is read.
THEOREM DepthAlwaysNesting == Spec => []DepthIsNesting
<1> QED
  BY CallsAlways, CallsImply, PTL

-----------------------------------------------------------------------------
(***************************************************************************)
(* is_reading_attributes.                                                  *)
(***************************************************************************)
LEMMA QuietFlag ==
    ASSUME CallsInv',
           status' \in Failures \cup {"read"} \/ (asked' = "nothing" /\ is_reading_attributes' = FALSE)
    PROVE  FlagInv'
<1> SUFFICES ASSUME status' = "reading"
             PROVE  Flagged(stack', asked', is_reading_attributes')
  BY DEF FlagInv
<1>1. asked' = "nothing" /\ is_reading_attributes' = FALSE
  BY DEF Failures
<1>2. ~IsSkip(stack')
  BY <1>1 DEF CallsInv, Placed, Calling
<1> QED
  BY <1>1, <1>2 DEF Flagged

LEMMA AskFlag ==
    ASSUME NEW b \in Seq(Access), NEW g \in Access, stack' = Append(b, g), g.access # "skip",
           asked' # "nothing", asked' \in Asks[SlotOf(g)],
           is_reading_attributes' <=> SlotOf(g) = "attributes"
    PROVE  FlagInv'
<1>1. stack' # <<>> /\ Last(stack') = g
  BY Pushed
<1>2. ~IsSkip(stack') /\ SlotIn(stack') = SlotOf(g)
  BY <1>1 DEF IsSkip, SlotIn
<1> QED
  BY <1>2 DEF FlagInv, Flagged, Asker

\* The last frame goes on to ask for a value in this turn.
LEMMA AskTurnFlag ==
    ASSUME CallsInv, NEW accesses, NEW turn, At(accesses, turn),
           NEW next \in {"key", "value"},
           AskIn([stack EXCEPT ![Len(stack)].turn = next]),
           Top.access \notin {"option", "wrapper"},
           is_reading_attributes' = FALSE
    PROVE  FlagInv'
<1> DEFINE g == [Top EXCEPT !.turn = next]
           b == Front(stack)
<1>1. stack \in Seq(Access) /\ stack # <<>> /\ Top \in Access /\ b \in Seq(Access)
      /\ Top.access # "skip"
  BY AtTop
<1>2. next \in Turns
  BY DEF Turns
<1>3. g \in Access /\ g.access = Top.access /\ g.turn = next
  BY <1>1, <1>2, Turned
<1>4. AskIn(Append(b, g))
  BY <1>1, <1>2, TopTurn
<1> HIDE DEF g, b
<1>5. /\ stack' = Append(b, g) /\ asked' # "nothing" /\ asked' \in Asks[SlotOf(g)]
  BY <1>1, <1>3, <1>4, Pushed, AskInType
<1>6. SlotOf(g) # "attributes"
  BY <1>1, <1>3 DEF SlotOf
<1> QED
  BY <1>1, <1>3, <1>5, <1>6, AskFlag

LEMMA AtFlag ==
    ASSUME CallsInv, FlagInv, NEW accesses, NEW turn, At(accesses, turn)
    PROVE  is_reading_attributes = FALSE /\ asked = "nothing"
<1>1. status = "reading" /\ asked = "nothing"
  BY AtTop
<1> QED
  BY <1>1 DEF FlagInv, Flagged, CallsInv

LEMMA AskingFlag ==
    ASSUME CallsInv, FlagInv, NEW methods \in SUBSET Methods, Asking(methods)
    PROVE  /\ asked \in Asks[SlotIn(stack)]
           /\ is_reading_attributes <=> SlotIn(stack) = "attributes"
<1>1. status = "reading" /\ asked # "nothing" /\ ~IsSkip(stack)
  BY AskingTop
<1> QED
  BY <1>1 DEF FlagInv, Flagged, Asker

\* Attributes are not asked for in these ways.
LEMMA AskingOther ==
    ASSUME OrderlyCallers, CallsInv, FlagInv, Asking({"enum", "flat", "wrapper"})
    PROVE  is_reading_attributes = FALSE
<1>1. asked \in Asks[SlotIn(stack)] /\ (is_reading_attributes <=> SlotIn(stack) = "attributes")
  BY AskingFlag DEF Methods
<1>2. asked \in {"enum", "flat", "wrapper"}
  BY DEF Asking
<1>3. SlotIn(stack) # "attributes"
  BY <1>1, <1>2 DEF OrderlyCallers
<1> QED
  BY <1>1, <1>3 DEF CallsInv

LEMMA FlagStep ==
    ASSUME OrderlyCallers
    PROVE  CallsInv /\ CallsInv' /\ FlagInv /\ [Next]_vars => FlagInv'
<1> SUFFICES ASSUME CallsInv, CallsInv', FlagInv, [Next]_vars PROVE FlagInv'
  OBVIOUS
<1> DEFINE Quiet == status' \in Failures \cup {"read"} \/ (asked' = "nothing" /\ is_reading_attributes' = FALSE)
<1>0. Quiet => FlagInv'
  BY QuietFlag
<1>a. is_reading_attributes \in BOOLEAN
  BY DEF CallsInv
<1>1. CASE AnyAtom
  <2>1. Quiet
    BY <1>a, <1>1 DEF AnyAtom, Complete
  <2> QED
    BY <1>0, <2>1
<1>2. CASE AnyContainer
  <2>1. Quiet
    BY <1>a, <1>2 DEF AnyContainer, Enter, Fail, Failures
  <2> QED
    BY <1>0, <2>1
<1>3. CASE AnyUnexpected
  <2>1. Quiet
    BY <1>a, <1>3 DEF AnyUnexpected, Refuse, Fail, Failures
  <2> QED
    BY <1>0, <2>1
<1>4. CASE Mismatch
  <2>1. Quiet
    BY <1>a, <1>4 DEF Mismatch, Fail, Failures
  <2> QED
    BY <1>0, <2>1
<1>5. CASE AnyAttributes
  <2>1. Quiet
    BY <1>a, <1>5 DEF AnyAttributes, Enter, Fail, Failures
  <2> QED
    BY <1>0, <2>1
<1>6. CASE AnyNoAttributes
  <2>1. Quiet
    BY <1>a, <1>6 DEF AnyNoAttributes, Complete, Fail, Failures
  <2> QED
    BY <1>0, <2>1
<1>7. CASE SkipAttributes
  <2> DEFINE g == NewFrame("skip", "idle", "Done", 1, FALSE)
  <2>1. Asking({"typed", "option", "enum"}) /\ ~is_reading_attributes /\ Enter(g, asked)
        /\ UNCHANGED is_reading_attributes
    BY <1>7 DEF SkipAttributes
  <2>2. stack \in Seq(Access) /\ asked # "nothing"
    BY <2>1, AskingTop DEF Methods
  <2>3. asked \in Asks[SlotIn(stack)] /\ SlotIn(stack) # "attributes"
    BY <2>1, AskingFlag DEF Methods
  <2>4. CASE status' \in Failures
    BY <1>0, <2>4
  <2>5. CASE status' \notin Failures
    <3>1. stack' = Append(stack, g) /\ asked' = asked
      BY <2>1, <2>5 DEF Enter, Fail, Failures
    <3>2. g \in Access /\ g.access = "skip" /\ g.turn = "idle"
      BY DEF NewFrame, Access, Accesses, Turns, FlatStates
    <3> HIDE DEF g
    <3>3. stack' # <<>> /\ Last(stack') = g /\ Front(stack') = stack
      BY <2>2, <3>1, <3>2, Pushed
    <3>4. IsSkip(stack') /\ Asker(stack') = stack /\ SlotIn(stack') # "attributes"
      BY <3>2, <3>3 DEF IsSkip, Asker, SlotIn, SlotOf
    <3> QED
      BY <2>1, <2>2, <2>3, <3>1, <3>3, <3>4 DEF FlagInv, Flagged
  <2> QED
    BY <2>4, <2>5
<1>8. CASE SkipToken
  <2> DEFINE g == [Top EXCEPT !.count = Counted]
             b == Front(stack)
  <2>1. Skipping /\ Counted # 0 /\ UNCHANGED is_reading_attributes
        /\ \/ Fail("limit")
           \/ stack' = [stack EXCEPT ![Len(stack)].count = Counted] /\ UNCHANGED <<asked, status>>
    BY <1>8 DEF SkipToken
  <2>2. /\ status = "reading" /\ asked # "nothing" /\ IsSkip(stack) /\ stack # <<>>
        /\ stack \in Seq(Access) /\ b \in Seq(Access) /\ Top \in Access
        /\ Top.access = "skip" /\ Top.turn = "idle"
    BY <2>1, SkippingTop DEF Methods
  <2>3. CASE Fail("limit")
    BY <1>0, <2>3 DEF Fail, Failures
  <2>4. CASE stack' = [stack EXCEPT ![Len(stack)].count = Counted] /\ UNCHANGED <<asked, status>>
    <3>1. Counted \in Nat
      <4>1. Top.count \in Nat /\ Top.count >= 1
        BY <2>1, <2>2, SkippingTop, FrameType
      <4> QED
        BY <4>1 DEF Counted
    <3>2. g \in Access /\ g.access = "skip" /\ g.turn = "idle"
      BY <2>2, <3>1 DEF Access
    <3>3. stack' = Append(b, g)
      <4>1. [stack EXCEPT ![Len(stack)].count = Counted] = [stack EXCEPT ![Len(stack)] = g]
        BY DEF Top
      <4> QED
        BY <2>2, <2>4, <3>2, <4>1, Replaced
    <3> HIDE DEF g, b
    <3>4. stack' # <<>> /\ Last(stack') = g /\ Front(stack') = b
      BY <2>2, <3>2, <3>3, Pushed
    <3>5. IsSkip(stack') /\ Asker(stack') = b /\ Asker(stack) = b /\ SlotIn(stack') # "attributes"
      BY <2>2, <3>2, <3>4 DEF IsSkip, Asker, SlotIn, SlotOf, b
    <3>6. Flagged(stack, asked, is_reading_attributes) /\ SlotIn(stack) # "attributes"
      BY <2>2 DEF FlagInv, SlotIn, SlotOf, Top, Last
    <3>7. /\ asked \in Asks[SlotIn(b)] /\ ~is_reading_attributes /\ SlotIn(b) # "attributes"
      BY <2>2, <3>5, <3>6 DEF Flagged, b
    <3> QED
      BY <2>1, <2>2, <2>4, <3>4, <3>5, <3>7 DEF FlagInv, Flagged
  <2> QED
    BY <2>1, <2>3, <2>4
<1>9. CASE SkipEnd
  <2> DEFINE b == Front(stack)
  <2>1. Skipping /\ stack' = Below /\ UNCHANGED <<is_reading_attributes, asked, status>>
    BY <1>9 DEF SkipEnd
  <2>2. /\ status = "reading" /\ asked # "nothing" /\ IsSkip(stack) /\ stack # <<>>
        /\ Below = b /\ b \in Seq(Access) /\ Waiting(b)
        /\ Top.access = "skip" /\ Top.turn = "idle"
    BY <2>1, SkippingTop DEF Methods
  <2>3. Flagged(stack, asked, is_reading_attributes) /\ SlotIn(stack) # "attributes"
    BY <2>2 DEF FlagInv, SlotIn, SlotOf, Top, Last
  <2>4. asked \in Asks[SlotIn(b)] /\ ~is_reading_attributes /\ SlotIn(b) # "attributes"
    BY <2>2, <2>3 DEF Flagged, Asker, b
  <2> HIDE DEF b
  <2>5. ~IsSkip(b)
    <3>1. CASE b = <<>>
      BY <3>1 DEF IsSkip
    <3>2. CASE b # <<>>
      <4>1. Len(b) \in 1..Len(b)
        BY <2>2, <3>2, Split
      <4>2. Shaped(Last(b)) /\ Waits(Last(b))
        BY <2>2, <4>1 DEF Waiting, Last
      <4> QED
        BY <4>2 DEF Shaped, Waits, IsSkip, Containers
    <3> QED
      BY <3>1, <3>2
  <2> QED
    BY <2>1, <2>2, <2>4, <2>5 DEF FlagInv, Flagged, Asker
<1>10. CASE SkipShort
  <2>1. Quiet
    BY <1>10 DEF SkipShort, Refuse, Fail, Failures
  <2> QED
    BY <1>0, <2>1
<1>11. CASE OptionOfAttributes
  <2> DEFINE g == NewFrame("option", "value", "Done", 0, FALSE)
  <2>1. /\ Asking({"option"}) /\ is_reading_attributes
        /\ \/ AskIn(Append(stack, g)) /\ UNCHANGED <<is_reading_attributes, status>>
           \/ is_reading_attributes' = FALSE /\ (Fail("short") \/ Complete(stack))
    BY <1>11 DEF OptionOfAttributes
  <2>2. stack \in Seq(Access)
    BY <2>1, AskingTop DEF Methods
  <2>3. CASE AskIn(Append(stack, g)) /\ UNCHANGED <<is_reading_attributes, status>>
    <3>1. g \in Access /\ g.access = "option" /\ g.turn = "value" /\ g.is_value_only = FALSE
      BY DEF NewFrame, Access, Accesses, Turns, FlatStates
    <3>2. AskIn(Append(stack, g)) /\ is_reading_attributes'
      BY <2>1, <2>3
    <3> HIDE DEF g
    <3>3. /\ stack' = Append(stack, g) /\ asked' # "nothing" /\ asked' \in Asks[SlotOf(g)]
      BY <2>2, <3>1, <3>2, Pushed, AskInType
    <3>4. SlotOf(g) = "attributes"
      BY <3>1 DEF SlotOf
    <3> QED
      BY <2>2, <3>1, <3>2, <3>3, <3>4, AskFlag
  <2>4. CASE is_reading_attributes' = FALSE /\ (Fail("short") \/ Complete(stack))
    BY <1>0, <2>4 DEF Fail, Failures, Complete
  <2> QED
    BY <2>1, <2>3, <2>4
<1>12. CASE OptionEnd
  <2>1. is_reading_attributes = FALSE /\ asked = "nothing"
    BY <1>12, AtFlag DEF OptionEnd
  <2>2. Quiet
    BY <1>12, <2>1 DEF OptionEnd, Complete
  <2> QED
    BY <1>0, <2>2
<1>13. CASE OptionNone
  <2>1. Quiet
    BY <1>a, <1>13 DEF OptionNone, Complete
  <2> QED
    BY <1>0, <2>1
<1>14. CASE OptionSome
  <2>1. /\ Asking({"option"}) /\ ~is_reading_attributes /\ UNCHANGED is_reading_attributes
        /\ \/ Fail("short")
           \/ asked' \in Choice(Slot, stack) /\ UNCHANGED <<stack, status>>
    BY <1>14 DEF OptionSome
  <2>2. stack \in Seq(Access) /\ ~IsSkip(stack) /\ status = "reading"
    BY <2>1, AskingTop DEF Methods
  <2>3. SlotIn(stack) # "attributes"
    BY <2>1, AskingFlag DEF Methods
  <2>4. CASE Fail("short")
    BY <1>0, <2>4 DEF Fail, Failures
  <2>5. CASE asked' \in Choice(Slot, stack) /\ UNCHANGED <<stack, status>>
    <3>1. asked' \in Asks[SlotIn(stack)] /\ asked' # "nothing"
      BY <2>2, <2>5, ChoiceType
    <3> QED
      BY <2>1, <2>2, <2>3, <2>5, <3>1 DEF FlagInv, Flagged, Asker
  <2> QED
    BY <2>1, <2>4, <2>5
<1>15. CASE Wrapper
  <2>1. Asking({"enum", "flat", "wrapper"})
    BY <1>15 DEF Wrapper, Asking
  <2>2. is_reading_attributes = FALSE
    BY <2>1, AskingOther
  <2>3. Quiet
    BY <1>15, <2>2 DEF Wrapper, Enter, Fail, Failures
  <2> QED
    BY <1>0, <2>3
<1>16. CASE WrapperElement
  <2> DEFINE g == [Top EXCEPT !.count = Top.count + 1, !.turn = "value"]
             b == Front(stack)
  <2>1. /\ At({"wrapper"}, "idle")
        /\ is_reading_attributes' = (Top.count = 0)
        /\ AskIn([stack EXCEPT ![Len(stack)].count = @ + 1, ![Len(stack)].turn = "value"])
    BY <1>16 DEF WrapperElement
  <2>2. /\ stack \in Seq(Access) /\ stack # <<>> /\ Top \in Access /\ b \in Seq(Access)
        /\ Top.access \in {"wrapper"} /\ Shaped(Top)
    BY <2>1, AtTop
  <2>3. Top.count \in Nat /\ ~Top.is_value_only
    BY <2>2, FrameType DEF Shaped
  <2>4. /\ g \in Access /\ g.access = "wrapper" /\ g.turn = "value" /\ g.count = Top.count + 1
        /\ ~g.is_value_only
    <3> DEFINE n == Top.count + 1
    <3>1. n \in Nat /\ "value" \in Turns /\ Top.access = "wrapper"
      BY <2>2, <2>3 DEF Turns
    <3> HIDE DEF n
    <3>2. LET h == [Top EXCEPT !.count = n, !.turn = "value"] IN
          /\ h \in Access /\ h.access = Top.access /\ h.turn = "value" /\ h.count = n
          /\ h.is_value_only = Top.is_value_only
      BY <2>2, <3>1 DEF Access
    <3> QED
      BY <2>3, <3>1, <3>2 DEF n
  <2>5. AskIn(Append(b, g))
    BY <2>1, <2>2, <2>4, WrapperCounted, Replaced
  <2> HIDE DEF g, b
  <2>6. /\ stack' = Append(b, g) /\ asked' # "nothing" /\ asked' \in Asks[SlotOf(g)]
    BY <2>2, <2>4, <2>5, Pushed, AskInType
  <2>7. SlotOf(g) = "attributes" <=> Top.count = 0
    <3>1. CASE Top.count = 0
      <4>1. g.count = 1
        BY <2>4, <3>1
      <4> QED
        BY <2>4, <3>1, <4>1 DEF SlotOf
    <3>2. CASE Top.count # 0
      <4>1. g.count # 1
        BY <2>3, <2>4, <3>2
      <4> QED
        BY <2>4, <3>2, <4>1 DEF SlotOf
    <3> QED
      BY <3>1, <3>2
  <2>8. is_reading_attributes' <=> SlotOf(g) = "attributes"
    BY <2>1, <2>7
  <2> QED
    BY <2>2, <2>4, <2>6, <2>8, AskFlag
<1>17. CASE WrapperEnd
  <2>1. is_reading_attributes = FALSE /\ asked = "nothing"
    BY <1>17, AtFlag DEF WrapperEnd
  <2>2. Quiet
    BY <1>17, <2>1 DEF WrapperEnd, Complete
  <2> QED
    BY <1>0, <2>2
<1>18. CASE NextItem
  <2>1. is_reading_attributes = FALSE /\ asked = "nothing"
    BY <1>18, AtFlag DEF NextItem
  <2>2. Quiet
    BY <1>18, <2>1 DEF NextItem, Turn
  <2> QED
    BY <1>0, <2>2
<1>19. CASE Semicolon
  <2>1. is_reading_attributes = FALSE /\ asked = "nothing"
    BY <1>19, AtFlag DEF Semicolon
  <2>2. Quiet
    BY <1>19, <2>1 DEF Semicolon
  <2> QED
    BY <1>0, <2>2
<1>20. CASE ItemsOver
  <2>1. is_reading_attributes = FALSE /\ asked = "nothing"
    BY <1>20, AtFlag DEF ItemsOver
  <2>2. Quiet
    BY <1>20, <2>1 DEF ItemsOver, Turn
  <2> QED
    BY <1>0, <2>2
<1>21. CASE AdvanceToItem
  <2> DEFINE next == IF Top.access = "list" THEN "value" ELSE "key"
  <2>1. /\ At(Containers, "seek") /\ UNCHANGED is_reading_attributes
        /\ Fail("short") \/ AskIn([stack EXCEPT ![Len(stack)].turn = next])
    BY <1>21 DEF AdvanceToItem
  <2>2. is_reading_attributes' = FALSE
    BY <2>1, AtFlag
  <2>a. Top.access \notin {"option", "wrapper"}
    <3>1. Top.access \in Containers
      BY <2>1, AtTop
    <3> QED
      BY <3>1 DEF Containers
  <2>3. CASE Fail("short")
    BY <1>0, <2>3 DEF Fail, Failures
  <2>4. CASE AskIn([stack EXCEPT ![Len(stack)].turn = next])
    <3>1. next \in {"key", "value"}
      OBVIOUS
    <3> HIDE DEF next
    <3> QED
      BY <2>1, <2>2, <2>a, <2>4, <3>1, AskTurnFlag
  <2> QED
    BY <2>1, <2>3, <2>4
<1>22. CASE NextValue
  <2>1. /\ At({"map", "attributes", "flat"}, "keyed") /\ UNCHANGED is_reading_attributes
        /\ Refuse \/ AskIn([stack EXCEPT ![Len(stack)].turn = "value"])
    BY <1>22 DEF NextValue
  <2>2. is_reading_attributes' = FALSE
    BY <2>1, AtFlag
  <2>a. Top.access \notin {"option", "wrapper"}
    <3>1. Top.access \in {"map", "attributes", "flat"}
      BY <2>1, AtTop
    <3> QED
      BY <3>1
  <2>3. CASE Refuse
    BY <1>0, <2>3 DEF Refuse, Fail, Failures
  <2>4. CASE AskIn([stack EXCEPT ![Len(stack)].turn = "value"])
    BY <2>1, <2>2, <2>a, <2>4, AskTurnFlag
  <2> QED
    BY <2>1, <2>3, <2>4
<1>23. CASE VisitorReturns
  <2>1. is_reading_attributes = FALSE /\ asked = "nothing"
    BY <1>23, AtFlag DEF VisitorReturns
  <2>2. Quiet
    BY <1>23, <2>1 DEF VisitorReturns, Turn
  <2> QED
    BY <1>0, <2>2
<1>24. CASE CloseContainer
  <2>1. is_reading_attributes = FALSE /\ asked = "nothing"
    BY <1>24, AtFlag DEF CloseContainer
  <2>2. Quiet
    BY <1>24, <2>1 DEF CloseContainer, Complete, Fail, Failures
  <2> QED
    BY <1>0, <2>2
<1>25. CASE Flat
  <2>1. is_reading_attributes = FALSE
    <3>1. CASE Asking({"flat"})
      <4>1. Asking({"enum", "flat", "wrapper"})
        BY <3>1 DEF Asking
      <4> QED
        BY <4>1, AskingOther
    <3> QED
      BY <1>a, <1>25, <3>1 DEF Flat
  <2>2. Quiet
    BY <1>25, <2>1 DEF Flat, Enter, Fail, Failures
  <2> QED
    BY <1>0, <2>2
<1>26. CASE FlatAttributes
  <2>1. is_reading_attributes = FALSE /\ asked = "nothing"
    BY <1>26, AtFlag DEF FlatAttributes
  <2>2. Quiet
    BY <1>26, <2>1 DEF FlatAttributes, FlatTo, FlatKey, Refuse, Fail, Failures
  <2> QED
    BY <1>0, <2>2
<1>27. CASE FlatBetween
  <2>1. is_reading_attributes = FALSE /\ asked = "nothing"
    BY <1>27, AtFlag DEF FlatBetween
  <2>2. Quiet
    BY <1>27, <2>1 DEF FlatBetween, FlatTo, Fail, Failures
  <2> QED
    BY <1>0, <2>2
<1>28. CASE FlatBody
  <2> DEFINE g == [Top EXCEPT !.turn = "key", !.is_value_only = FALSE]
             b == Front(stack)
             Goes == AskIn([stack EXCEPT ![Len(stack)].turn = "key",
                                         ![Len(stack)].is_value_only = FALSE])
  <2>1. /\ At({"flat"}, "seek") /\ UNCHANGED is_reading_attributes
        /\ FlatTo("Done", "over") \/ Fail("short") \/ Goes
    BY <1>28 DEF FlatBody
  <2>2. /\ is_reading_attributes' = FALSE /\ asked = "nothing"
        /\ stack \in Seq(Access) /\ stack # <<>> /\ Top \in Access /\ b \in Seq(Access)
        /\ Top.access \in {"flat"}
    BY <2>1, AtFlag, AtTop
  <2>3. CASE FlatTo("Done", "over") \/ Fail("short")
    BY <1>0, <2>2, <2>3 DEF FlatTo, Fail, Failures
  <2>4. CASE Goes
    <3>1. g \in Access /\ g.access = Top.access /\ g.turn = "key"
      BY <2>2 DEF Access, Turns
    <3>2. AskIn(Append(b, g))
      <4>1. Len(stack) \in 1..Len(stack) /\ DOMAIN stack = 1..Len(stack)
        BY <2>2, Split, LenProperties
      <4>2. [stack EXCEPT ![Len(stack)].turn = "key", ![Len(stack)].is_value_only = FALSE]
              = [stack EXCEPT ![Len(stack)] = g]
        BY <4>1 DEF Top
      <4> QED
        BY <2>2, <2>4, <3>1, <4>2, Replaced
    <3> HIDE DEF g, b
    <3>3. stack' = Append(b, g) /\ asked' # "nothing" /\ asked' \in Asks[SlotOf(g)]
      BY <2>2, <3>1, <3>2, Pushed, AskInType
    <3>4. SlotOf(g) # "attributes" /\ g.access # "skip"
      BY <2>2, <3>1 DEF SlotOf
    <3> QED
      BY <2>2, <3>1, <3>3, <3>4, AskFlag
  <2> QED
    BY <2>1, <2>3, <2>4
<1>29. CASE FlatValueOnly
  <2>1. is_reading_attributes = FALSE /\ asked = "nothing"
    BY <1>29, AtFlag DEF FlatValueOnly
  <2>2. Quiet
    BY <1>29, <2>1 DEF FlatValueOnly, FlatKey
  <2> QED
    BY <1>0, <2>2
<1>30. CASE FlatDone
  <2>1. is_reading_attributes = FALSE /\ asked = "nothing"
    BY <1>30, AtFlag DEF FlatDone
  <2>2. Quiet
    BY <1>30, <2>1 DEF FlatDone, Turn
  <2> QED
    BY <1>0, <2>2
<1>31. CASE FlatReturns
  <2>1. is_reading_attributes = FALSE /\ asked = "nothing"
    BY <1>31, AtFlag DEF FlatReturns
  <2>2. Quiet
    BY <1>31, <2>1 DEF FlatReturns, Complete
  <2> QED
    BY <1>0, <2>2
<1>32. CASE Enum
  <2> DEFINE wrapped == ahead = "BeginMap"
             g == NewFrame("enum", "variant", "Done", 0, wrapped)
  <2>1. /\ Asking({"enum"}) /\ UNCHANGED is_reading_attributes
        /\ Fail("short") \/ AskIn(Append(stack, g))
    BY <1>32 DEF Enum
  <2>2. stack \in Seq(Access)
    BY <2>1, AskingTop DEF Methods
  <2>3. is_reading_attributes = FALSE
    <3>1. Asking({"enum", "flat", "wrapper"})
      BY <2>1 DEF Asking
    <3> QED
      BY <3>1, AskingOther
  <2>4. CASE Fail("short")
    BY <1>0, <2>4 DEF Fail, Failures
  <2>5. CASE AskIn(Append(stack, g))
    <3>1. wrapped \in BOOLEAN
      OBVIOUS
    <3> HIDE DEF wrapped
    <3>2. g \in Access /\ g.access = "enum" /\ g.turn = "variant"
      BY <3>1 DEF NewFrame, Access, Accesses, Turns, FlatStates
    <3> HIDE DEF g
    <3>3. stack' = Append(stack, g) /\ asked' # "nothing" /\ asked' \in Asks[SlotOf(g)]
      BY <2>2, <2>5, <3>2, Pushed, AskInType
    <3>4. SlotOf(g) # "attributes"
      BY <3>2 DEF SlotOf
    <3> QED
      BY <2>1, <2>2, <2>3, <3>2, <3>3, <3>4, AskFlag
  <2> QED
    BY <2>1, <2>4, <2>5
<1>33. CASE UnitVariant
  <2>1. is_reading_attributes = FALSE /\ asked = "nothing"
    BY <1>33, AtFlag DEF UnitVariant
  <2>2. Quiet
    BY <1>33, <2>1 DEF UnitVariant, Turn, Refuse, Fail, Failures
  <2> QED
    BY <1>0, <2>2
<1>34. CASE UnitContent
  <2>1. is_reading_attributes = FALSE /\ asked = "nothing"
    BY <1>34, AtFlag DEF UnitContent
  <2>2. Quiet
    BY <1>34, <2>1 DEF UnitContent, Turn, Refuse, Fail, Failures
  <2> QED
    BY <1>0, <2>2
<1>35. CASE ContentVariant
  <2>1. /\ At({"enum"}, "tagged") /\ UNCHANGED is_reading_attributes
        /\ Refuse \/ AskIn([stack EXCEPT ![Len(stack)].turn = "value"])
    BY <1>35 DEF ContentVariant
  <2>2. is_reading_attributes' = FALSE
    BY <2>1, AtFlag
  <2>a. Top.access \notin {"option", "wrapper"}
    <3>1. Top.access \in {"enum"}
      BY <2>1, AtTop
    <3> QED
      BY <3>1
  <2>3. CASE Refuse
    BY <1>0, <2>3 DEF Refuse, Fail, Failures
  <2>4. CASE AskIn([stack EXCEPT ![Len(stack)].turn = "value"])
    BY <2>1, <2>2, <2>a, <2>4, AskTurnFlag
  <2> QED
    BY <2>1, <2>3, <2>4
<1>36. CASE EnumReturns
  <2>1. is_reading_attributes = FALSE /\ asked = "nothing"
    BY <1>36, AtFlag DEF EnumReturns
  <2>2. Quiet
    BY <1>36, <2>1 DEF EnumReturns, Complete
  <2> QED
    BY <1>0, <2>2
<1>37. CASE EnumDrops
  <2>1. is_reading_attributes = FALSE /\ asked = "nothing"
    BY <1>37, AtFlag DEF EnumDrops
  <2>2. Quiet
    BY <1>37, <2>1 DEF EnumDrops, Turn
  <2> QED
    BY <1>0, <2>2
<1>38. CASE EnumEnd
  <2>1. is_reading_attributes = FALSE /\ asked = "nothing"
    BY <1>38, AtFlag DEF EnumEnd
  <2>2. Quiet
    BY <1>38, <2>1 DEF EnumEnd, Complete, Refuse, Fail, Failures
  <2> QED
    BY <1>0, <2>2
<1>39. CASE End
  BY <1>0, <1>39 DEF End, FlagInv, Failures
<1>40. CASE New
  <2>1. stack' = <<>> /\ asked' \in Asks["plain"] /\ is_reading_attributes' = FALSE
    BY <1>40 DEF New
  <2> QED
    BY <2>1 DEF FlagInv, Flagged, Asker, IsSkip, SlotIn
<1>41. CASE UNCHANGED vars
  BY <1>41 DEF vars, FlagInv, Flagged
<1> QED
  BY <1>1, <1>2, <1>3, <1>4, <1>5, <1>6, <1>7, <1>8, <1>9, <1>10, <1>11, <1>12,
     <1>13, <1>14, <1>15, <1>16, <1>17, <1>18, <1>19, <1>20, <1>21, <1>22, <1>23, <1>24,
     <1>25, <1>26, <1>27, <1>28, <1>29, <1>30, <1>31, <1>32, <1>33, <1>34, <1>35, <1>36,
     <1>37, <1>38, <1>39, <1>40, <1>41 DEF Next

LEMMA FlagInit == Init => FlagInv
BY DEF Init, FlagInv, Flagged, Asker, IsSkip, SlotIn

LEMMA FlagImplies == CallsInv /\ FlagInv => FlagIsForAttributes
<1> SUFFICES ASSUME CallsInv, FlagInv, status = "reading"
             PROVE  /\ is_reading_attributes => stack # <<>> /\ Slot = "attributes" /\ asked # "nothing"
                    /\ (Skips /\ Len(stack) > 1) => SlotOf(stack[Len(stack) - 1]) # "attributes"
  BY DEF FlagIsForAttributes
<1>1. Flagged(stack, asked, is_reading_attributes) /\ stack \in Seq(Access)
  BY DEF FlagInv, CallsInv, Placed
<1>2. is_reading_attributes => stack # <<>> /\ Slot = "attributes" /\ asked # "nothing"
  BY <1>1 DEF Flagged, SlotIn, Slot, Top, Last
<1>3. ASSUME Skips, Len(stack) > 1 PROVE SlotOf(stack[Len(stack) - 1]) # "attributes"
  <2>1. IsSkip(stack) /\ stack # <<>>
    BY <1>3 DEF Skips, IsSkip, Top, Last
  <2> DEFINE b == Front(stack)
             n == Len(stack)
  <2>2. /\ n \in Nat /\ b \in Seq(Access) /\ Len(b) = n - 1 /\ Last(stack) \in Access
        /\ stack = Append(b, Last(stack))
    BY <1>1, <2>1, Split
  <2>3. SlotIn(b) # "attributes"
    BY <1>1, <2>1 DEF Flagged
  <2> HIDE DEF b
  <2>4. b[n - 1] = stack[n - 1] /\ b # <<>>
    <3>1. n - 1 \in 1..Len(b)
      BY <1>3, <2>2
    <3> QED
      BY <2>2, <3>1, Pushed, EmptySeq
  <2> QED
    BY <2>2, <2>3, <2>4 DEF SlotIn, Last
<1> QED
  BY <1>2, <1>3

LEMMA FlagAlways ==
    ASSUME OrderlyCallers
    PROVE  Spec => [](CallsInv /\ FlagInv)
<1>1. CallsInv /\ FlagInv /\ [Next]_vars => (CallsInv /\ FlagInv)'
  BY CallsStep, FlagStep
<1>2. Init => CallsInv /\ FlagInv
  BY CallsInit, FlagInit
<1> QED
  BY <1>1, <1>2, PTL DEF Spec

\* is_reading_attributes is set while a WithAttributes asks for its attributes, and
\* at no other time (de.rs:213, access.rs:270): whatever else is asked for in any
\* nesting is not read as attributes, and attributes are not stepped over.
THEOREM FlagStaysWithAttributes ==
    ASSUME OrderlyCallers
    PROVE  Spec => []FlagIsForAttributes
<1> QED
  BY FlagAlways, FlagImplies, PTL
=============================================================================
