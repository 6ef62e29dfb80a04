--------------------------- MODULE DocumentProofs ---------------------------
(***************************************************************************)
(* What a token does to the levels of a document, for the proofs about the *)
(* two machines that write and read one.                                   *)
(***************************************************************************)
EXTENDS Document, SequenceTheorems, TLAPS

\* e is d with one more level.
Entered(d, e, kind, want) ==
    /\ e \in Document
    /\ Len(e) = Len(d) + 1
    /\ \A i \in 1..Len(d) : e[i] = d[i]
    /\ e[Len(d) + 1] = [kind |-> kind, want |-> want]

\* e is d with the first n levels, of which the last wants something else.
Wanting(d, e, n, want) ==
    /\ e \in Document
    /\ Len(e) = n
    /\ \A i \in 1..(n - 1) : e[i] = d[i]
    /\ e[n] = [kind |-> d[n].kind, want |-> want]

LEMMA LevelType ==
    ASSUME NEW d \in Document, NEW i \in 1..Len(d)
    PROVE  /\ d[i] \in Level
           /\ d[i].kind \in Kinds /\ d[i].want \in Wants
           /\ d[i] = [kind |-> d[i].kind, want |-> d[i].want]
<1>1. d[i] \in Level
  BY ElementOfSeq DEF Document
<1> QED
  BY <1>1 DEF Level

LEMMA InnermostType ==
    ASSUME NEW d \in Document, Len(d) > 0
    PROVE  /\ Len(d) \in Nat /\ Len(d) \in 1..Len(d)
           /\ d # Rejected
           /\ Innermost(d) = d[Len(d)]
           /\ Innermost(d) \in Level
           /\ Innermost(d).kind \in Kinds /\ Innermost(d).want \in Wants
<1>1. Len(d) \in Nat /\ Len(d) \in 1..Len(d) /\ d # <<>>
  BY LenProperties, EmptySeq DEF Document
<1> QED
  BY <1>1, LevelType DEF Innermost, Rejected

LEMMA ExpectType ==
    ASSUME NEW d \in Document, Len(d) > 0, NEW want \in Wants
    PROVE  Wanting(d, Expect(d, want), Len(d), want)
<1> DEFINE e == Expect(d, want)
<1>1. Len(d) \in Nat /\ Len(d) \in 1..Len(d)
  BY InnermostType
<1> DEFINE l == [kind |-> d[Len(d)].kind, want |-> want]
<1>2. d[Len(d)] \in Level
  BY <1>1, LevelType
<1>3. [d[Len(d)] EXCEPT !.want = want] = l
  BY <1>2 DEF Level
<1>4. e = [d EXCEPT ![Len(d)] = l]
  BY <1>3 DEF Expect
<1>5. l \in Level
  BY <1>2 DEF Level
<1> HIDE DEF l
<1>6. /\ e \in Document /\ Len(e) = Len(d)
      /\ \A j \in 1..Len(d) : e[j] = IF j = Len(d) THEN l ELSE d[j]
  BY <1>1, <1>4, <1>5, ExceptSeq DEF Document
<1> HIDE DEF e
<1> QED
  BY <1>1, <1>6 DEF Wanting, e, l

LEMMA OutsideType ==
    ASSUME NEW d \in Document, Len(d) > 1
    PROVE  /\ Outside(d) \in Document
           /\ Len(Outside(d)) = Len(d) - 1
           /\ \A i \in 1..(Len(d) - 1) : Outside(d)[i] = d[i]
<1>1. Len(d) \in Nat /\ \A i \in 1..(Len(d) - 1) : d[i] \in Level
  BY DEF Document
<1> QED
  BY <1>1, SubSeqProperties DEF Outside, Document

LEMMA FeedAtom ==
    ASSUME NEW d \in Document, Len(d) > 0, TakesNode(Innermost(d)), NEW t \in Atoms
    PROVE  Wanting(d, Feed(d, t), Len(d), "more")
<1>1. Feed(d, t) = Expect(d, "more")
  <2>1. Innermost(d) \in Level /\ ~TakesKey(Innermost(d))
    BY InnermostType DEF TakesKey, TakesNode, Paired
  <2> QED
    BY <2>1, InnermostType DEF Feed, Atoms, Closing
<1> QED
  BY <1>1, ExpectType DEF Wants

LEMMA FeedKey ==
    ASSUME NEW d \in Document, Len(d) > 0, TakesKey(Innermost(d))
    PROVE  Wanting(d, Feed(d, "string"), Len(d), "equals")
<1>1. Feed(d, "string") = Expect(d, "equals")
  <2>1. ~TakesNode(Innermost(d))
    BY InnermostType DEF TakesKey, TakesNode, Paired
  <2> QED
    BY <2>1, InnermostType DEF Feed, Closing
<1> QED
  BY <1>1, ExpectType DEF Wants

LEMMA FeedEquals ==
    ASSUME NEW d \in Document, Len(d) > 0, Innermost(d).want = "equals"
    PROVE  Wanting(d, Feed(d, "KeyValueSeparator"), Len(d), "value")
<1>1. Feed(d, "KeyValueSeparator") = Expect(d, "value")
  BY InnermostType DEF Feed, Atoms, Closing
<1> QED
  BY <1>1, ExpectType DEF Wants

LEMMA FeedSeparator ==
    ASSUME NEW d \in Document, Len(d) > 0, Innermost(d).want = "more"
    PROVE  Wanting(d, Feed(d, "ItemSeparator"), Len(d),
                   IF Paired(Innermost(d)) THEN "key" ELSE "value")
<1>1. Feed(d, "ItemSeparator") = Expect(d, IF Paired(Innermost(d)) THEN "key" ELSE "value")
  BY InnermostType DEF Feed, Atoms, Closing
<1> QED
  BY <1>1, ExpectType DEF Wants

LEMMA FeedOpening ==
    ASSUME NEW d \in Document, Len(d) > 0, NEW t \in {"BeginList", "BeginMap", "BeginAttributes"},
           TakesNode(Innermost(d)), t = "BeginAttributes" => TakesAttributes(Innermost(d))
    PROVE  Entered(d, Feed(d, t), Bracket(t), "first")
<1> DEFINE l == [kind |-> Bracket(t), want |-> "first"]
<1>1. Feed(d, t) = Append(d, l)
  BY InnermostType DEF Feed, Atoms, Closing, Bracket
<1>2. l \in Level
  BY DEF Level, Kinds, Wants, Bracket
<1> HIDE DEF l
<1>3. /\ Append(d, l) \in Seq(Level)
      /\ Len(Append(d, l)) = Len(d) + 1
      /\ \A i \in 1..Len(d) : Append(d, l)[i] = d[i]
      /\ Append(d, l)[Len(d) + 1] = l
  <2>1. d \in Seq(Level)
    BY DEF Document
  <2> QED
    BY <1>2, <2>1, AppendProperties
<1> QED
  BY <1>1, <1>3 DEF Entered, Document, l

LEMMA FeedClosing ==
    ASSUME NEW d \in Document, Len(d) > 1, NEW t \in Closing,
           Closable(Innermost(d)), Innermost(d).kind = Bracket(t)
    PROVE  Wanting(d, Feed(d, t), Len(d) - 1, IF t = "EndAttributes" THEN "node" ELSE "more")
<1> DEFINE want == IF t = "EndAttributes" THEN "node" ELSE "more"
<1>0. Len(d) \in Nat /\ Len(d) > 0
  BY LenProperties DEF Document
<1>1. Feed(d, t) = Expect(Outside(d), want)
  BY <1>0, InnermostType DEF Feed, Atoms, Closing
<1>2. /\ Outside(d) \in Document /\ Len(Outside(d)) = Len(d) - 1
      /\ \A i \in 1..(Len(d) - 1) : Outside(d)[i] = d[i]
  BY OutsideType
<1>3. Len(d) - 1 > 0 /\ Len(d) \in Nat
  BY <1>0
<1>4. want \in Wants
  BY DEF Wants
<1> HIDE DEF want
<1>5. Wanting(Outside(d), Expect(Outside(d), want), Len(d) - 1, want)
  BY <1>2, <1>3, <1>4, ExpectType
<1>6. \A i \in 1..(Len(d) - 1 - 1) : i \in 1..(Len(d) - 1)
  BY <1>3
<1>7. Len(d) - 1 \in 1..(Len(d) - 1)
  BY <1>3
<1> QED
  BY <1>1, <1>2, <1>5, <1>6, <1>7 DEF Wanting, want

\* What a document takes, by what its innermost level wants.
Takes(l, t) ==
    \/ t = "string" /\ TakesKey(l)
    \/ t \in Atoms /\ TakesNode(l)
    \/ t \in {"BeginList", "BeginMap"} /\ TakesNode(l)
    \/ t = "BeginAttributes" /\ TakesAttributes(l)
    \/ t \in Closing /\ Closable(l) /\ l.kind = Bracket(t)
    \/ t = "KeyValueSeparator" /\ l.want = "equals"
    \/ t = "ItemSeparator" /\ l.want = "more"

LEMMA FeedTakes ==
    ASSUME NEW d \in Document, d # Rejected, NEW t \in Tokens, Feed(d, t) # Rejected
    PROVE  Takes(Innermost(d), t)
<1> DEFINE l == Innermost(d)
<1>1. SUFFICES ASSUME ~Takes(l, t) PROVE Feed(d, t) = Rejected
  OBVIOUS
<1> HIDE DEF l
<1> QED
  BY <1>1 DEF Takes, Feed, l

\* A document that has not lost its outermost level.
Founded(d) == d \in Document /\ d # Rejected /\ d[1].kind = "fragment"

LEMMA FoundedType ==
    ASSUME NEW d, Founded(d)
    PROVE  /\ d \in Document /\ d # Rejected
           /\ Len(d) \in Nat /\ Len(d) > 0 /\ Len(d) \in 1..Len(d)
           /\ Innermost(d) = d[Len(d)] /\ Innermost(d) \in Level
           /\ Innermost(d).kind \in Kinds /\ Innermost(d).want \in Wants
<1>1. Len(d) \in Nat /\ Len(d) > 0
  BY EmptySeq DEF Founded, Document, Rejected
<1> QED
  BY <1>1, InnermostType DEF Founded

LEMMA WantingFounded ==
    ASSUME NEW d, Founded(d), NEW n \in 1..Len(d), NEW e, NEW want, Wanting(d, e, n, want)
    PROVE  Founded(e)
<1>1. e \in Document /\ Len(e) = n
      /\ (\A i \in 1..(n - 1) : e[i] = d[i]) /\ e[n].kind = d[n].kind
  BY DEF Wanting
<1>2. e[1].kind = "fragment"
  BY <1>1 DEF Founded
<1> QED
  BY <1>1, <1>2, EmptySeq DEF Founded, Rejected

LEMMA EnteredFounded ==
    ASSUME NEW d, Founded(d), NEW e, NEW kind, NEW want, Entered(d, e, kind, want)
    PROVE  Founded(e)
<1>1. Len(d) \in Nat /\ Len(d) > 0
  BY FoundedType
<1>2. e \in Document /\ Len(e) = Len(d) + 1 /\ e[1] = d[1]
  BY <1>1 DEF Entered
<1> QED
  BY <1>1, <1>2, EmptySeq DEF Founded, Rejected

LEMMA FeedFounded ==
    ASSUME NEW d, Founded(d), NEW t \in Tokens, Feed(d, t) # Rejected
    PROVE  Founded(Feed(d, t))
<1> DEFINE l == Innermost(d)
<1>1. d \in Document /\ d # Rejected /\ Len(d) \in Nat /\ Len(d) > 0 /\ Len(d) \in 1..Len(d)
  BY FoundedType
<1>2. Takes(l, t)
  BY <1>1, FeedTakes
<1>3. ASSUME NEW want, Wanting(d, Feed(d, t), Len(d), want) PROVE Founded(Feed(d, t))
  BY <1>1, <1>3, WantingFounded
<1> HIDE DEF l
<1>4. CASE t = "string" /\ TakesKey(l)
  BY <1>1, <1>3, <1>4, FeedKey DEF l
<1>5. CASE t \in Atoms /\ TakesNode(l)
  BY <1>1, <1>3, <1>5, FeedAtom DEF l
<1>6. CASE t \in {"BeginList", "BeginMap"} /\ TakesNode(l)
  <2>1. Entered(d, Feed(d, t), Bracket(t), "first")
    BY <1>1, <1>6, FeedOpening DEF l
  <2> QED
    BY <2>1, EnteredFounded
<1>7. CASE t = "BeginAttributes" /\ TakesAttributes(l)
  <2>1. Entered(d, Feed(d, t), Bracket(t), "first")
    BY <1>1, <1>7, FeedOpening DEF l, TakesAttributes
  <2> QED
    BY <2>1, EnteredFounded
<1>8. CASE t \in Closing /\ Closable(l) /\ l.kind = Bracket(t)
  <2>1. Len(d) > 1
    <3>1. l.kind # "fragment"
      BY <1>8 DEF Bracket, Closing
    <3> QED
      BY <1>1, <3>1, FoundedType DEF Founded, l
  <2>2. Wanting(d, Feed(d, t), Len(d) - 1, IF t = "EndAttributes" THEN "node" ELSE "more")
    BY <1>1, <1>8, <2>1, FeedClosing DEF l
  <2>3. Len(d) - 1 \in 1..Len(d)
    BY <1>1, <2>1
  <2> QED
    BY <2>2, <2>3, WantingFounded
<1>9. CASE t = "KeyValueSeparator" /\ l.want = "equals"
  BY <1>1, <1>3, <1>9, FeedEquals DEF l
<1>10. CASE t = "ItemSeparator" /\ l.want = "more"
  BY <1>1, <1>3, <1>10, FeedSeparator DEF l
<1> QED
  BY <1>2, <1>4, <1>5, <1>6, <1>7, <1>8, <1>9, <1>10 DEF Takes
=============================================================================
