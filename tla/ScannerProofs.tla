--------------------------- MODULE ScannerProofs ---------------------------
(***************************************************************************)
(* The scanner: it stops, its verdict lies inside the input, and once a    *)
(* byte follows a value no more input changes what it says.  Those are the *)
(* properties that GrowingInput states and the framers assume.  And the    *)
(* value reader: it accepts what the scanner finds, and makes the same of  *)
(* a frame alone, which DecodedInput states.                               *)
(*                                                                         *)
(* Two walks, of the scanner over inputs that share their first bytes, of  *)
(* the reader and the scanner over one input, or of the reader over two,   *)
(* are followed side by side, by induction over the calls that are inside  *)
(* each other.                                                             *)
(***************************************************************************)
EXTENDS DecodedInput, TokenizerProofs

-----------------------------------------------------------------------------
(* The steps of a walk, one case at a time. *)

\* What a node comes to: the failure of its first token, a failure of its own,
\* that token alone, or the call for a list or a map.
LEMMA ScanNodeSteps ==
    ASSUME NEW w, NEW s, NEW p, NEW fmt, NEW depth
    PROVE  LET token == SkipToken(s, p, fmt)
               r == ScanNode(w, s, p, fmt, depth)
           IN  \/ Failed(token) /\ r = token
               \/ /\ ~Failed(token)
                  /\ \/ r = Bad
                     \/ r = Found("Value", token.at)
                     \/ r = w[CallItems(token.at, depth + 1)]
                     \/ r = w[CallPairs(token.at, RBRACE, depth + 1)]
  BY DEF ScanNode, Then

Ends == {RBRACE, GT}

\* A turn of the loop of a map.
LEMMA ScanPairsSteps ==
    ASSUME NEW w, NEW s, NEW p, NEW fmt, NEW end \in Ends, NEW depth \in Nat, NEW max \in Nat
    PROVE  LET r == ScanPairs(w, s, p, fmt, end, depth, max)
               close == PeekIs(s, p, fmt, end)
               semi == PeekIs(s, p, fmt, SEMI)
               key == Expect("String", SkipToken(s, p, fmt))
               equals == Expect("KeyValueSeparator", SkipToken(s, key.at, fmt))
               value == w[CallOne(equals.at, depth)]
           IN  /\ depth > max => r = Bad
               /\ (depth <= max /\ close) => r = Found("Value", Behind(s, p, fmt))
               /\ (depth <= max /\ ~close /\ semi) =>
                    r = w[CallPairs(Behind(s, p, fmt), end, depth)]
               /\ (depth <= max /\ ~close /\ ~semi) =>
                    r = IF Failed(key) THEN key
                        ELSE IF Failed(equals) THEN equals
                        ELSE IF Failed(value) THEN value
                        ELSE w[CallPairs(value.at, end, depth)]
<1> DEFINE r == ScanPairs(w, s, p, fmt, end, depth, max)
           i == Behind(s, p, fmt)
           close == PeekIs(s, p, fmt, end)
           semi == PeekIs(s, p, fmt, SEMI)
           key == Expect("String", SkipToken(s, p, fmt))
           equals == Expect("KeyValueSeparator", SkipToken(s, key.at, fmt))
           value == w[CallOne(equals.at, depth)]
           rest == w[CallPairs(value.at, end, depth)]
           made == IF Failed(key) THEN key
                   ELSE IF Failed(equals) THEN equals
                   ELSE IF Failed(value) THEN value
                   ELSE rest
<1>1. r = CASE depth > max -> Bad
            [] depth <= max /\ close -> Found("Value", i)
            [] depth <= max /\ semi -> w[CallPairs(i, end, depth)]
            [] OTHER -> made
  BY Zenon DEF ScanPairs, Then
<1>2. end # SEMI /\ (close /\ semi => end = SEMI)
  BY DEF Ends, RBRACE, GT, SEMI, PeekIs
<1> HIDE DEF r, i, close, semi, made
<1>3. /\ depth > max => r = Bad
      /\ (depth <= max /\ close) => r = Found("Value", i)
      /\ (depth <= max /\ ~close /\ semi) => r = w[CallPairs(i, end, depth)]
      /\ (depth <= max /\ ~close /\ ~semi) => r = made
  BY <1>1, <1>2
<1> QED
  BY <1>3 DEF r, i, close, semi, made

\* Two walks that go the same way up to the token take the same step behind it.
LEMMA ScanNodesCorrespond ==
    ASSUME NEW w, NEW x, NEW s, NEW t, NEW p, NEW fmt, NEW depth,
           SkipToken(t, p, fmt) = SkipToken(s, p, fmt)
    PROVE  LET token == SkipToken(s, p, fmt)
               r == ScanNode(w, s, p, fmt, depth)
               z == ScanNode(x, t, p, fmt, depth)
           IN  \/ z = r
               \/ /\ ~Failed(token)
                  /\ \/ /\ r = w[CallItems(token.at, depth + 1)]
                        /\ z = x[CallItems(token.at, depth + 1)]
                     \/ /\ r = w[CallPairs(token.at, RBRACE, depth + 1)]
                        /\ z = x[CallPairs(token.at, RBRACE, depth + 1)]
  BY DEF ScanNode, Then

-----------------------------------------------------------------------------
(***************************************************************************)
(* A walk stays inside the input and goes forward: a call ends behind the  *)
(* next meaningful byte, or fails for want of one.                         *)
(***************************************************************************)
Advances(r, s, p, fmt) == ~Failed(r) => r.at \in (Meaningful(s, p, fmt) + 1)..Len(s)

Lacks(r, s, p, fmt) == ~Inside(s, Meaningful(s, p, fmt)) => r = Eof

Proceeds(r, s, p, fmt, depth, max) ==
    /\ Advances(r, s, p, fmt)
    /\ depth <= max => Lacks(r, s, p, fmt)

Progress(w, s, fmt, max) ==
    \A p \in 0..Len(s), depth \in Nat :
        /\ Proceeds(w[CallOne(p, depth)], s, p, fmt, depth, max)
        /\ Proceeds(w[CallItems(p, depth)], s, p, fmt, depth, max)
        /\ \A end \in Ends : Proceeds(w[CallPairs(p, end, depth)], s, p, fmt, depth, max)

\* Each of the four kinds of call goes forward.
LEMMA ProgressMeans ==
    ASSUME NEW w, NEW s, NEW fmt, NEW max, Progress(w, s, fmt, max),
           NEW p \in 0..Len(s), NEW depth \in Nat
    PROVE  /\ Advances(w[CallOne(p, depth)], s, p, fmt)
           /\ Advances(w[CallItems(p, depth)], s, p, fmt)
           /\ Advances(w[CallPairs(p, RBRACE, depth)], s, p, fmt)
           /\ Advances(w[CallPairs(p, GT, depth)], s, p, fmt)
  BY DEF Progress, Proceeds, Ends

\* What a call behind a token comes to is behind the token.
LEMMA AdvancesFurther ==
    ASSUME NEW s \in Seq(Byte), NEW fmt, NEW p \in 0..Len(s), NEW r,
           NEW i, i \in (Meaningful(s, p, fmt) + 1)..Len(s), Advances(r, s, i, fmt)
    PROVE  Advances(r, s, p, fmt) /\ i \in (p + 1)..Len(s)
<1> DEFINE q == Meaningful(s, p, fmt)
           k == Meaningful(s, i, fmt)
<1>1. q \in p..Len(s) /\ Len(s) \in Nat
  BY MeaningfulInRange
<1>2. i \in 0..Len(s)
  BY <1>1
<1>3. k \in i..Len(s)
  BY <1>2, MeaningfulInRange
<1>4. ~Failed(r) => r.at \in (k + 1)..Len(s)
  BY DEF Advances
<1>5. i \in (q + 1)..Len(s)
  OBVIOUS
<1> HIDE DEF q, k
<1>6. ~Failed(r) => r.at \in (q + 1)..Len(s)
  BY <1>1, <1>3, <1>4, <1>5
<1> QED
  BY <1>1, <1>5, <1>6 DEF Advances, q

\* A node goes forward, for all depths.
LEMMA NodeProceeds ==
    ASSUME NEW s \in Seq(Byte), NEW fmt, NEW max \in Nat, NEW w, Progress(w, s, fmt, max),
           NEW p \in 0..Len(s), NEW depth \in Nat
    PROVE  LET r == ScanNode(w, s, p, fmt, depth)
           IN  Advances(r, s, p, fmt) /\ Lacks(r, s, p, fmt)
<1> DEFINE r == ScanNode(w, s, p, fmt, depth)
           token == SkipToken(s, p, fmt)
           q == Meaningful(s, p, fmt)
           e == depth + 1
<1>1. /\ ~Failed(token) => q < Len(s) /\ token.at \in (q + 1)..Len(s)
      /\ ~Inside(s, q) => token = Eof
  BY SkipTokenInRange
<1>2. \/ Failed(token) /\ r = token
      \/ /\ ~Failed(token)
         /\ \/ r = Bad
            \/ r = Found("Value", token.at)
            \/ r = w[CallItems(token.at, e)]
            \/ r = w[CallPairs(token.at, RBRACE, e)]
  BY ScanNodeSteps
<1>3. Lacks(r, s, p, fmt)
  BY <1>1, <1>2 DEF Lacks, Inside, Failed, Eof
<1>4. Advances(r, s, p, fmt)
  <2> SUFFICES ASSUME ~Failed(r) PROVE Advances(r, s, p, fmt)
    BY DEF Advances
  <2>1. ~Failed(token) /\ token.at \in (q + 1)..Len(s)
    BY <1>1, <1>2
  <2>2. token.at \in 0..Len(s) /\ e \in Nat
    <3>1. q \in p..Len(s)
      BY MeaningfulInRange
    <3> HIDE DEF q
    <3> QED
      BY <2>1, <3>1
  <2> DEFINE i == token.at
  <2>3. i \in 0..Len(s) /\ i \in (q + 1)..Len(s)
    BY <2>1, <2>2
  <2>4. \/ r = Found("Value", i)
        \/ r = w[CallItems(i, e)]
        \/ r = w[CallPairs(i, RBRACE, e)]
    <3>1. r # Bad
      BY DEF Failed, Bad
    <3> QED
      BY <1>2, <2>1, <3>1
  <2> HIDE DEF r, i, e, token
  <2>5. CASE r = Found("Value", i)
    BY <2>3, <2>5 DEF Found, Advances
  <2>6. CASE r = w[CallItems(i, e)]
    <3>1. Advances(r, s, i, fmt)
      BY <2>2, <2>3, <2>6, ProgressMeans
    <3> QED
      BY <2>3, <3>1, AdvancesFurther
  <2>7. CASE r = w[CallPairs(i, RBRACE, e)]
    <3>1. Advances(r, s, i, fmt)
      BY <2>2, <2>3, <2>7, ProgressMeans
    <3> QED
      BY <2>3, <3>1, AdvancesFurther
  <2> QED
    BY <2>4, <2>5, <2>6, <2>7
<1> QED
  BY <1>3, <1>4

\* Behind a peeked byte there is a place of the input.
LEMMA PeekedIsInside ==
    ASSUME NEW s \in Seq(Byte), NEW fmt, NEW p \in 0..Len(s), NEW b, PeekIs(s, p, fmt, b)
    PROVE  /\ Inside(s, Meaningful(s, p, fmt))
           /\ Behind(s, p, fmt) \in (Meaningful(s, p, fmt) + 1)..Len(s)
           /\ Behind(s, p, fmt) \in 0..Len(s)
<1>1. Meaningful(s, p, fmt) \in p..Len(s) /\ Len(s) \in Nat
  BY MeaningfulInRange
<1>2. Inside(s, Meaningful(s, p, fmt))
  BY DEF PeekIs
<1> QED
  BY <1>1, <1>2 DEF Behind, Inside

\* At the end of the input there is nothing to peek at.
LEMMA NothingToPeek ==
    ASSUME NEW s, NEW fmt, NEW p, NEW b, ~Inside(s, Meaningful(s, p, fmt))
    PROVE  ~PeekIs(s, p, fmt, b)
  BY DEF PeekIs

\* A value with its attributes goes forward.
LEMMA OneProceeds ==
    ASSUME NEW s \in Seq(Byte), NEW fmt, NEW max \in Nat, NEW w, Progress(w, s, fmt, max),
           NEW p \in 0..Len(s), NEW depth \in Nat
    PROVE  Proceeds(ScanOne(w, s, p, fmt, depth, max), s, p, fmt, depth, max)
<1> DEFINE r == ScanOne(w, s, p, fmt, depth, max)
           node == ScanNode(w, s, p, fmt, depth)
           i == Behind(s, p, fmt)
           e == depth + 1
           attributes == w[CallPairs(i, GT, e)]
           angle == PeekIs(s, p, fmt, LT)
<1>1. /\ depth > max => r = Bad
      /\ (depth <= max /\ ~angle) => r = node
      /\ (depth <= max /\ angle /\ Failed(attributes)) => r = attributes
      /\ (depth <= max /\ angle /\ ~Failed(attributes)) =>
             r = ScanNode(w, s, attributes.at, fmt, depth)
  BY DEF ScanOne, Then
<1>2. Advances(node, s, p, fmt) /\ Lacks(node, s, p, fmt)
  BY NodeProceeds
<1>3. angle => /\ Inside(s, Meaningful(s, p, fmt))
               /\ i \in (Meaningful(s, p, fmt) + 1)..Len(s)
               /\ i \in 0..Len(s)
  BY PeekedIsInside
<1>4. e \in Nat
  OBVIOUS
<1> HIDE DEF r, node, i, e, angle
<1>5. CASE depth > max
  <2>1. r = Bad /\ ~(depth <= max)
    BY <1>1, <1>5
  <2> QED
    BY <2>1 DEF Proceeds, Advances, Failed, Bad, r
<1>6. CASE depth <= max /\ ~angle
  BY <1>1, <1>2, <1>6 DEF Proceeds, r
<1>7. CASE depth <= max /\ angle
  <2>1. Lacks(r, s, p, fmt)
    BY <1>3, <1>7 DEF Lacks
  <2>2. Advances(attributes, s, i, fmt)
    BY <1>3, <1>4, <1>7, ProgressMeans
  <2>3. Advances(attributes, s, p, fmt)
    BY <1>3, <1>7, <2>2, AdvancesFurther
  <2>4. Advances(r, s, p, fmt)
    <3>1. CASE Failed(attributes)
      BY <1>1, <1>7, <2>3, <3>1
    <3>2. CASE ~Failed(attributes)
      <4> DEFINE j == attributes.at
      <4>1. j \in (Meaningful(s, p, fmt) + 1)..Len(s)
        BY <2>3, <3>2 DEF Advances
      <4>2. j \in 0..Len(s)
        <5>1. Meaningful(s, p, fmt) \in p..Len(s)
          BY MeaningfulInRange
        <5> HIDE DEF j
        <5> QED
          BY <4>1, <5>1
      <4>3. r = ScanNode(w, s, j, fmt, depth)
        BY <1>1, <1>7, <3>2
      <4> HIDE DEF j
      <4>4. Advances(r, s, j, fmt)
        BY <4>2, <4>3, NodeProceeds
      <4> QED
        BY <4>1, <4>4, AdvancesFurther
    <3> QED
      BY <3>1, <3>2
  <2> QED
    BY <2>1, <2>4 DEF Proceeds, r
<1> QED
  BY <1>5, <1>6, <1>7

\* A list goes forward.
LEMMA ItemsProceeds ==
    ASSUME NEW s \in Seq(Byte), NEW fmt, NEW max \in Nat, NEW w, Progress(w, s, fmt, max),
           NEW p \in 0..Len(s), NEW depth \in Nat
    PROVE  Proceeds(ScanItems(w, s, p, fmt, depth, max), s, p, fmt, depth, max)
<1> DEFINE r == ScanItems(w, s, p, fmt, depth, max)
           item == w[CallOne(p, depth)]
           i == Behind(s, p, fmt)
           close == PeekIs(s, p, fmt, RBRACK)
           semi == PeekIs(s, p, fmt, SEMI)
<1>1. /\ depth > max => r = Bad
      /\ (depth <= max /\ close) => r = Found("Value", i)
      /\ (depth <= max /\ ~close /\ semi) => r = w[CallItems(i, depth)]
      /\ (depth <= max /\ ~close /\ ~semi /\ Failed(item)) => r = item
      /\ (depth <= max /\ ~close /\ ~semi /\ ~Failed(item)) => r = w[CallItems(item.at, depth)]
  BY DEF ScanItems, Then, PeekIs, RBRACK, SEMI
<1>2. Proceeds(item, s, p, fmt, depth, max)
  BY DEF Progress
<1>3. (close \/ semi) => /\ Inside(s, Meaningful(s, p, fmt))
                         /\ i \in (Meaningful(s, p, fmt) + 1)..Len(s)
                         /\ i \in 0..Len(s)
  BY PeekedIsInside
<1> HIDE DEF r, item, i, close, semi
<1>4. CASE depth > max
  <2>1. r = Bad /\ ~(depth <= max)
    BY <1>1, <1>4
  <2> QED
    BY <2>1 DEF Proceeds, Advances, Failed, Bad, r
<1>5. CASE depth <= max /\ close
  <2>1. Lacks(r, s, p, fmt)
    BY <1>3, <1>5 DEF Lacks
  <2>2. Advances(r, s, p, fmt)
    BY <1>1, <1>3, <1>5 DEF Advances, Found
  <2> QED
    BY <2>1, <2>2 DEF Proceeds, r
<1>6. CASE depth <= max /\ ~close /\ semi
  <2>1. Lacks(r, s, p, fmt)
    BY <1>3, <1>6 DEF Lacks
  <2>2. Advances(r, s, i, fmt)
    BY <1>1, <1>3, <1>6, ProgressMeans
  <2>3. Advances(r, s, p, fmt)
    BY <1>3, <1>6, <2>2, AdvancesFurther
  <2> QED
    BY <2>1, <2>3 DEF Proceeds, r
<1>7. CASE depth <= max /\ ~close /\ ~semi /\ Failed(item)
  <2>1. r = item
    BY <1>1, <1>7
  <2> QED
    BY <1>2, <2>1 DEF r
<1>8. CASE depth <= max /\ ~close /\ ~semi /\ ~Failed(item)
  <2> DEFINE j == item.at
  <2>1. Advances(item, s, p, fmt) /\ Lacks(item, s, p, fmt)
    BY <1>2, <1>8 DEF Proceeds
  <2>2. Lacks(r, s, p, fmt)
    BY <1>8, <2>1 DEF Lacks, Failed, Eof
  <2>3. j \in (Meaningful(s, p, fmt) + 1)..Len(s)
    BY <1>8, <2>1 DEF Advances
  <2>4. j \in 0..Len(s)
    <3>1. Meaningful(s, p, fmt) \in p..Len(s)
      BY MeaningfulInRange
    <3> HIDE DEF j
    <3> QED
      BY <2>3, <3>1
  <2>5. r = w[CallItems(j, depth)]
    BY <1>1, <1>8
  <2> HIDE DEF j
  <2>6. Advances(r, s, j, fmt)
    BY <2>4, <2>5, ProgressMeans
  <2>7. Advances(r, s, p, fmt)
    BY <2>3, <2>6, AdvancesFurther
  <2> QED
    BY <2>2, <2>7 DEF Proceeds, r
<1> QED
  BY <1>4, <1>5, <1>6, <1>7, <1>8

\* What was expected is what was there, or a failure.
LEMMA ExpectedIs ==
    ASSUME NEW kind, kind \notin {"eof", "bad"}, NEW r
    PROVE  LET x == Expect(kind, r)
           IN  \/ x = r
               \/ x = Bad /\ ~Failed(r)
  BY DEF Expect

\* A map goes forward.
LEMMA PairsProceeds ==
    ASSUME NEW s \in Seq(Byte), NEW fmt, NEW max \in Nat, NEW w, Progress(w, s, fmt, max),
           NEW p \in 0..Len(s), NEW end \in Ends, NEW depth \in Nat
    PROVE  Proceeds(ScanPairs(w, s, p, fmt, end, depth, max), s, p, fmt, depth, max)
<1> DEFINE r == ScanPairs(w, s, p, fmt, end, depth, max)
           token == SkipToken(s, p, fmt)
           key == Expect("String", token)
           equals == Expect("KeyValueSeparator", SkipToken(s, key.at, fmt))
           value == w[CallOne(equals.at, depth)]
           i == Behind(s, p, fmt)
           close == PeekIs(s, p, fmt, end)
           semi == PeekIs(s, p, fmt, SEMI)
           q == Meaningful(s, p, fmt)
<1>1. /\ depth > max => r = Bad
      /\ (depth <= max /\ close) => r = Found("Value", i)
      /\ (depth <= max /\ ~close /\ semi) => r = w[CallPairs(i, end, depth)]
      /\ (depth <= max /\ ~close /\ ~semi) =>
             r = IF Failed(key) THEN key
                 ELSE IF Failed(equals) THEN equals
                 ELSE IF Failed(value) THEN value
                 ELSE w[CallPairs(value.at, end, depth)]
  BY ScanPairsSteps
<1>2. /\ ~Failed(token) => q < Len(s) /\ token.at \in (q + 1)..Len(s)
      /\ ~Inside(s, q) => token = Eof
  BY SkipTokenInRange
<1>3. (close \/ semi) => Inside(s, q) /\ i \in (q + 1)..Len(s) /\ i \in 0..Len(s)
  BY PeekedIsInside
<1>4. q \in p..Len(s) /\ Len(s) \in Nat
  BY MeaningfulInRange
<1>5. CASE depth > max
  <2>1. r = Bad /\ ~(depth <= max)
    BY <1>1, <1>5
  <2> QED
    BY <2>1 DEF Proceeds, Advances, Failed, Bad
<1>6. CASE depth <= max /\ close
  <2> HIDE DEF q, close, semi, r
  <2>1. Lacks(r, s, p, fmt)
    BY <1>3, <1>6 DEF Lacks, q
  <2>2. Advances(r, s, p, fmt)
    BY <1>1, <1>3, <1>6 DEF Advances, Found, q
  <2> QED
    BY <2>1, <2>2 DEF Proceeds, r
<1>7. CASE depth <= max /\ ~close /\ semi
  <2> HIDE DEF q, close, semi, r, i
  <2>1. Lacks(r, s, p, fmt)
    BY <1>3, <1>7 DEF Lacks, q
  <2>2. Advances(r, s, i, fmt)
    BY <1>1, <1>3, <1>7, ProgressMeans DEF Ends
  <2>3. Advances(r, s, p, fmt)
    BY <1>3, <1>7, <2>2, AdvancesFurther DEF q
  <2> QED
    BY <2>1, <2>3 DEF Proceeds, r
<1>8. CASE depth <= max /\ ~close /\ ~semi
  <2>1. r = IF Failed(key) THEN key
            ELSE IF Failed(equals) THEN equals
            ELSE IF Failed(value) THEN value
            ELSE w[CallPairs(value.at, end, depth)]
    BY <1>1, <1>8
  <2>2. key = token \/ (key = Bad /\ ~Failed(token))
    BY ExpectedIs
  <2>3. ~Inside(s, q) => r = Eof
    <3> SUFFICES ASSUME ~Inside(s, q) PROVE r = Eof
      OBVIOUS
    <3>1. token = Eof /\ Failed(token)
      BY <1>2 DEF Failed, Eof
    <3>2. key = Eof /\ Failed(key)
      BY <2>2, <3>1
    <3> QED
      BY <2>1, <3>2
  <2>4. Lacks(r, s, p, fmt)
    BY <2>3 DEF Lacks
  <2>5. Advances(r, s, p, fmt)
    <3> SUFFICES ASSUME ~Failed(r) PROVE Advances(r, s, p, fmt)
      BY DEF Advances
    <3>1. /\ ~Failed(key) /\ ~Failed(equals) /\ ~Failed(value)
          /\ r = w[CallPairs(value.at, end, depth)]
      BY <2>1
    <3>2. key = token /\ ~Failed(token)
      <4>1. ~Failed(key)
        BY <3>1
      <4> HIDE DEF key, token
      <4>2. key # Bad
        BY <4>1 DEF Failed, Bad
      <4> QED
        BY <2>2, <4>1, <4>2
    <3> DEFINE k == key.at
               separator == SkipToken(s, k, fmt)
               j == equals.at
               m == value.at
    <3>3. k \in (q + 1)..Len(s)
      BY <1>2, <3>2
    <3> HIDE DEF q
    <3>4. k \in 0..Len(s)
      BY <1>4, <3>3
    <3>5. equals = separator \/ (equals = Bad /\ ~Failed(separator))
      BY ExpectedIs
    <3>6. equals = separator /\ ~Failed(separator)
      <4>1. ~Failed(equals)
        BY <3>1
      <4> HIDE DEF equals, separator
      <4>2. equals # Bad
        BY <4>1 DEF Failed, Bad
      <4> QED
        BY <3>5, <4>1, <4>2
    <3> HIDE DEF k
    <3>7. /\ Meaningful(s, k, fmt) \in k..Len(s)
          /\ separator.at \in (Meaningful(s, k, fmt) + 1)..Len(s)
      BY <3>4, <3>6, MeaningfulInRange, SkipTokenInRange
    <3>8. j = separator.at
      BY <3>6
    <3> HIDE DEF separator, j
    <3>9. j \in (q + 1)..Len(s) /\ j \in 0..Len(s)
      BY <1>4, <3>3, <3>7, <3>8
    <3>10. value = w[CallOne(j, depth)]
      BY DEF j
    <3> HIDE DEF value, m, key, equals
    <3>11. Advances(value, s, j, fmt)
      BY <3>9, <3>10, ProgressMeans
    <3>12. Advances(value, s, p, fmt)
      BY <3>9, <3>11, AdvancesFurther DEF q
    <3>13. m \in (q + 1)..Len(s)
      BY <3>1, <3>12 DEF Advances, q, m
    <3>14. m \in 0..Len(s)
      BY <1>4, <3>13
    <3>15. r = w[CallPairs(m, end, depth)]
      BY <3>1 DEF m
    <3> HIDE DEF r
    <3>16. Advances(r, s, m, fmt)
      BY <3>14, <3>15, ProgressMeans DEF Ends
    <3> QED
      BY <3>13, <3>16, AdvancesFurther DEF q
  <2> QED
    BY <2>4, <2>5 DEF Proceeds
<1> QED
  BY <1>5, <1>6, <1>7, <1>8

-----------------------------------------------------------------------------
(***************************************************************************)
(* The recursive functions Walks and Reads exist: the calls that have less *)
(* than n others inside each other have the results that the equations of  *)
(* the scanner, or of the reader, say.                                     *)
(***************************************************************************)
NoCalls == [c \in Call |-> Eof]

Turn(by, w, s, fmt, max, c) ==
    IF by = "reader" THEN ReadCall(w, s, fmt, max, c) ELSE ScanCall(w, s, fmt, max, c)

Deeper(by, w, s, fmt, max) == [c \in Call |-> Turn(by, w, s, fmt, max, c)]

WalksUpTo(by, g, n, s, fmt, max) ==
    /\ g[0] = NoCalls
    /\ \A k \in 1..n : g[k] = Deeper(by, g[k - 1], s, fmt, max)

AllWalks(by, f, s, fmt, max) ==
    /\ f = [n \in Nat |-> f[n]]
    /\ f[0] = NoCalls
    /\ \A n \in Nat : f[n + 1] = Deeper(by, f[n], s, fmt, max)

\* The equations have a solution up to each number of calls, ...
LEMMA WalksUpToExist ==
    ASSUME NEW by, NEW s, NEW fmt, NEW max
    PROVE  \A n \in Nat : \E g : WalksUpTo(by, g, n, s, fmt, max)
<1> DEFINE X == {n \in Nat : \E g : WalksUpTo(by, g, n, s, fmt, max)}
<1>1. 0 \in X
  <2> DEFINE g == [k \in 0..0 |-> NoCalls]
  <2>1. WalksUpTo(by, g, 0, s, fmt, max)
    BY DEF WalksUpTo
  <2> QED
    BY <2>1
<1>2. ASSUME NEW n \in Nat, n \in X PROVE n + 1 \in X
  <2>1. PICK g : WalksUpTo(by, g, n, s, fmt, max)
    BY <1>2
  <2> DEFINE h == [k \in 0..(n + 1) |-> IF k = n + 1 THEN Deeper(by, g[n], s, fmt, max) ELSE g[k]]
  <2>2. h[0] = NoCalls
    BY <2>1 DEF WalksUpTo
  <2>3. ASSUME NEW k \in 1..(n + 1) PROVE h[k] = Deeper(by, h[k - 1], s, fmt, max)
    <3>1. h[k - 1] = g[k - 1]
      OBVIOUS
    <3>2. CASE k = n + 1
      BY <3>1, <3>2
    <3>3. CASE k # n + 1
      <4>1. k \in 1..n
        BY <3>3
      <4>2. g[k] = Deeper(by, g[k - 1], s, fmt, max)
        BY <4>1, <2>1 DEF WalksUpTo
      <4> QED
        BY <3>1, <3>3, <4>2
    <3> QED
      BY <3>2, <3>3
  <2> HIDE DEF h
  <2>4. WalksUpTo(by, h, n + 1, s, fmt, max)
    BY <2>2, <2>3 DEF WalksUpTo
  <2> QED
    BY <2>4
<1> HIDE DEF X
<1>3. \A n \in Nat : n \in X
  BY <1>1, <1>2, Induct
<1> QED
  BY <1>3 DEF X

\* ... which is a part of each that goes further, ...
LEMMA WalksUpToAreUnique ==
    ASSUME NEW by, NEW s, NEW fmt, NEW max, NEW m \in Nat, NEW n \in Nat, m <= n, NEW g, NEW h,
           WalksUpTo(by, g, m, s, fmt, max), WalksUpTo(by, h, n, s, fmt, max)
    PROVE  g[m] = h[m]
<1> DEFINE X == {k \in Nat : k <= m => g[k] = h[k]}
<1>1. 0 \in X
  BY DEF WalksUpTo
<1>2. ASSUME NEW k \in Nat, k \in X PROVE k + 1 \in X
  <2> SUFFICES ASSUME k + 1 <= m PROVE g[k + 1] = h[k + 1]
    OBVIOUS
  <2> DEFINE j == k + 1
  <2>1. j \in 1..m /\ j \in 1..n /\ j - 1 = k
    OBVIOUS
  <2> HIDE DEF j
  <2>2. g[j] = Deeper(by, g[j - 1], s, fmt, max) /\ h[j] = Deeper(by, h[j - 1], s, fmt, max)
    BY <2>1 DEF WalksUpTo
  <2>3. g[k] = h[k]
    BY <1>2
  <2> QED
    BY <2>1, <2>2, <2>3 DEF j
<1> HIDE DEF X
<1>3. \A k \in Nat : k \in X
  BY <1>1, <1>2, Induct
<1>4. m \in X
  BY <1>3
<1> QED
  BY <1>4 DEF X

\* ... so that all of them have one.
LEMMA AllWalksExist ==
    ASSUME NEW by, NEW s, NEW fmt, NEW max
    PROVE  \E f : AllWalks(by, f, s, fmt, max)
<1> DEFINE g(n) == CHOOSE h : WalksUpTo(by, h, n, s, fmt, max)
           f == [n \in Nat |-> g(n)[n]]
<1>1. ASSUME NEW n \in Nat PROVE WalksUpTo(by, g(n), n, s, fmt, max)
  BY WalksUpToExist
<1> HIDE DEF g
<1>2. f[0] = NoCalls
  BY <1>1 DEF WalksUpTo
<1>3. ASSUME NEW n \in Nat PROVE f[n + 1] = Deeper(by, f[n], s, fmt, max)
  <2> DEFINE m == n + 1
  <2>1. m \in Nat /\ n <= m /\ m \in 1..m /\ m - 1 = n
    OBVIOUS
  <2> HIDE DEF m
  <2>2. WalksUpTo(by, g(m), m, s, fmt, max) /\ WalksUpTo(by, g(n), n, s, fmt, max)
    BY <1>1, <2>1
  <2>3. g(m)[m] = Deeper(by, g(m)[m - 1], s, fmt, max)
    BY <2>1, <2>2 DEF WalksUpTo
  <2>4. g(n)[n] = g(m)[n]
    BY <2>1, <2>2, WalksUpToAreUnique
  <2>5. f[m] = g(m)[m] /\ f[n] = g(n)[n]
    BY <2>1
  <2> QED
    BY <2>1, <2>3, <2>4, <2>5 DEF m
<1>4. f = [n \in Nat |-> f[n]]
  OBVIOUS
<1> HIDE DEF f
<1>5. AllWalks(by, f, s, fmt, max)
  BY <1>2, <1>3, <1>4 DEF AllWalks
<1> QED
  BY <1>5

\* No call has less than none inside it; behind that, the code of a call says
\* what it comes to.
LEMMA WalksUnfold ==
    ASSUME NEW s, NEW fmt, NEW max
    PROVE  LET w == Walks(s, fmt, max)
           IN  /\ \A c \in Call : w[0][c] = Eof
               /\ \A n \in Nat : \A c \in Call :
                     w[n + 1][c] = ScanCall(w[n], s, fmt, max, c)
<1> DEFINE w == Walks(s, fmt, max)
           Solves(f) == f = [n \in Nat |-> [c \in Call |->
                              IF n = 0 THEN Eof ELSE ScanCall(f[n - 1], s, fmt, max, c)]]
<1>1. PICK f : AllWalks("scanner", f, s, fmt, max)
  BY AllWalksExist
<1>2. Solves(f)
  <2>1. f[0] = [c \in Call |-> IF 0 = 0 THEN Eof ELSE ScanCall(f[0 - 1], s, fmt, max, c)]
    BY <1>1 DEF AllWalks, NoCalls
  <2>2. ASSUME NEW n \in Nat, n # 0
        PROVE  f[n] = [c \in Call |->
                          IF n = 0 THEN Eof ELSE ScanCall(f[n - 1], s, fmt, max, c)]
    <3> DEFINE k == n - 1
    <3>1. k \in Nat /\ k + 1 = n
      BY <2>2
    <3> HIDE DEF k
    <3>2. f[k + 1] = Deeper("scanner", f[k], s, fmt, max)
      BY <1>1, <3>1 DEF AllWalks
    <3>3. f[n] = [c \in Call |-> ScanCall(f[k], s, fmt, max, c)]
      BY <3>1, <3>2 DEF Deeper, Turn
    <3> QED
      BY <2>2, <3>3 DEF k
  <2>3. f = [n \in Nat |-> f[n]]
    BY <1>1 DEF AllWalks
  <2>4. \A n \in Nat :
          f[n] = [c \in Call |-> IF n = 0 THEN Eof ELSE ScanCall(f[n - 1], s, fmt, max, c)]
    BY <2>1, <2>2
  <2> QED
    BY <2>3, <2>4
<1>3. w = CHOOSE h : Solves(h)
  BY DEF Walks
<1>4. Solves(w)
  BY <1>2, <1>3
<1> HIDE DEF w
<1>5. w[0] = [c \in Call |-> Eof]
  BY <1>4
<1>6. ASSUME NEW n \in Nat PROVE w[n + 1] = [c \in Call |-> ScanCall(w[n], s, fmt, max, c)]
  <2> DEFINE m == n + 1
  <2>1. m \in Nat /\ m # 0 /\ m - 1 = n
    OBVIOUS
  <2> HIDE DEF m
  <2>2. w[m] = [c \in Call |-> IF m = 0 THEN Eof ELSE ScanCall(w[m - 1], s, fmt, max, c)]
    BY <1>4, <2>1
  <2>3. w[m] = [c \in Call |-> ScanCall(w[m - 1], s, fmt, max, c)]
    BY <2>1, <2>2
  <2> QED
    BY <2>1, <2>3 DEF m
<1>7. \A n \in Nat : \A c \in Call : w[n + 1][c] = ScanCall(w[n], s, fmt, max, c)
  BY <1>6
<1> QED
  BY <1>5, <1>7 DEF w

\* A call that may not be made looks like one that found the input at its end.
LEMMA NoCallsFail ==
    ASSUME NEW s, NEW fmt, NEW max, NEW p \in Nat, NEW depth \in Nat, NEW w,
           w = Walks(s, fmt, max)[0]
    PROVE  /\ w[CallOne(p, depth)] = Eof
           /\ w[CallItems(p, depth)] = Eof
           /\ \A end \in Ends : w[CallPairs(p, end, depth)] = Eof
<1>1. \A c \in Call : w[c] = Eof
  BY WalksUnfold
<1>2. CallOne(p, depth) \in Call /\ CallItems(p, depth) \in Call
  BY DEF CallOne, CallItems, Call, Byte, RBRACK
<1>3. \A end \in Ends : CallPairs(p, end, depth) \in Call
  BY DEF CallPairs, Call, Byte, Ends, RBRACE, GT
<1> QED
  BY <1>1, <1>2, <1>3

\* A call that may be made is one of the three functions of the code.
LEMMA CallsUnfold ==
    ASSUME NEW s, NEW fmt, NEW max, NEW p \in Nat, NEW depth \in Nat, NEW n \in Nat,
           NEW w, w = Walks(s, fmt, max)[n], NEW x, x = Walks(s, fmt, max)[n + 1]
    PROVE  /\ x[CallOne(p, depth)] = ScanOne(w, s, p, fmt, depth, max)
           /\ x[CallItems(p, depth)] = ScanItems(w, s, p, fmt, depth, max)
           /\ \A end \in Ends :
                 x[CallPairs(p, end, depth)] = ScanPairs(w, s, p, fmt, end, depth, max)
<1> DEFINE one == CallOne(p, depth)
           items == CallItems(p, depth)
           pairs(end) == CallPairs(p, end, depth)
<1>1. one \in Call /\ one.of = "one" /\ one.at = p /\ one.depth = depth
  BY DEF CallOne, Call, Byte
<1>2. items \in Call /\ items.of = "items" /\ items.at = p /\ items.depth = depth
  BY DEF CallItems, Call, Byte, RBRACK
<1>3. ASSUME NEW end \in Ends
      PROVE  /\ pairs(end) \in Call /\ pairs(end).of = "pairs" /\ pairs(end).at = p
             /\ pairs(end).depth = depth /\ pairs(end).end = end
  BY DEF CallPairs, Call, Byte, Ends, RBRACE, GT
<1>4. \A c \in Call : x[c] = ScanCall(w, s, fmt, max, c)
  BY WalksUnfold
<1> HIDE DEF one, items, pairs
<1>5. x[one] = ScanOne(w, s, p, fmt, depth, max)
  BY <1>1, <1>4 DEF ScanCall
<1>6. x[items] = ScanItems(w, s, p, fmt, depth, max)
  BY <1>2, <1>4 DEF ScanCall
<1>7. ASSUME NEW end \in Ends
      PROVE  x[pairs(end)] = ScanPairs(w, s, p, fmt, end, depth, max)
  BY <1>3, <1>4 DEF ScanCall
<1> QED
  BY <1>5, <1>6, <1>7 DEF one, items, pairs

\* Every walk goes forward.
LEMMA WalksProgress ==
    ASSUME NEW s \in Seq(Byte), NEW fmt, NEW max \in Nat
    PROVE  \A n \in Nat : Progress(Walks(s, fmt, max)[n], s, fmt, max)
<1> DEFINE X == {n \in Nat : Progress(Walks(s, fmt, max)[n], s, fmt, max)}
<1>1. 0 \in X
  <2> DEFINE w == Walks(s, fmt, max)[0]
  <2> HIDE DEF w
  <2>1. \A p, depth : Proceeds(Eof, s, p, fmt, depth, max)
    BY DEF Proceeds, Advances, Lacks, Failed, Eof
  <2>2. ASSUME NEW p \in 0..Len(s), NEW depth \in Nat
        PROVE  /\ w[CallOne(p, depth)] = Eof
               /\ w[CallItems(p, depth)] = Eof
               /\ \A end \in Ends : w[CallPairs(p, end, depth)] = Eof
    BY NoCallsFail DEF w
  <2>3. Progress(w, s, fmt, max)
    BY <2>1, <2>2 DEF Progress
  <2> QED
    BY <2>3 DEF w
<1>2. ASSUME NEW n \in Nat, n \in X PROVE n + 1 \in X
  <2> DEFINE w == Walks(s, fmt, max)[n]
             x == Walks(s, fmt, max)[n + 1]
  <2>1. Progress(w, s, fmt, max)
    BY <1>2
  <2> HIDE DEF w, x
  <2>2. ASSUME NEW p \in 0..Len(s), NEW depth \in Nat
        PROVE  /\ x[CallOne(p, depth)] = ScanOne(w, s, p, fmt, depth, max)
               /\ x[CallItems(p, depth)] = ScanItems(w, s, p, fmt, depth, max)
               /\ \A end \in Ends :
                     x[CallPairs(p, end, depth)] = ScanPairs(w, s, p, fmt, end, depth, max)
    BY CallsUnfold DEF w, x
  <2>3. ASSUME NEW p \in 0..Len(s), NEW depth \in Nat
        PROVE  /\ Proceeds(x[CallOne(p, depth)], s, p, fmt, depth, max)
               /\ Proceeds(x[CallItems(p, depth)], s, p, fmt, depth, max)
               /\ \A end \in Ends : Proceeds(x[CallPairs(p, end, depth)], s, p, fmt, depth, max)
    BY <2>1, <2>2, OneProceeds, ItemsProceeds, PairsProceeds
  <2>4. Progress(x, s, fmt, max)
    BY <2>3 DEF Progress
  <2> QED
    BY <2>4 DEF x
<1> HIDE DEF X
<1>3. \A n \in Nat : n \in X
  BY <1>1, <1>2, Induct
<1> QED
  BY <1>3 DEF X

-----------------------------------------------------------------------------
(***************************************************************************)
(* Two walks, over inputs that agree: what the first settles, the second   *)
(* comes to as well.  The rank of a call, twice the bytes behind it and    *)
(* one or two, falls from each call to those inside it.                    *)
(***************************************************************************)
Carried(r, z, L, fails) == Settled(r, L, fails) => z = r

Corresponds(w, x, u, L, fails, n) ==
    \A p \in 0..L, depth \in Nat :
        /\ 2 * (Len(u) - p) + 1 <= n =>
              Carried(w[CallOne(p, depth)], x[CallOne(p, depth)], L, fails)
        /\ 2 * (Len(u) - p) + 2 <= n =>
              /\ Carried(w[CallItems(p, depth)], x[CallItems(p, depth)], L, fails)
              /\ \A end \in Ends :
                    Carried(w[CallPairs(p, end, depth)], x[CallPairs(p, end, depth)], L, fails)

\* Behind p the calls have ranks at most that of a place.
LEMMA CarriedBehind ==
    ASSUME NEW w, NEW x, NEW u, Len(u) \in Nat, NEW L, L \in Nat, L <= Len(u), NEW fails,
           NEW n \in Nat, Corresponds(w, x, u, L, fails, n), NEW p \in 0..L,
           2 * (Len(u) - p) <= n, NEW i \in (p + 1)..L, NEW depth \in Nat
    PROVE  /\ Carried(w[CallOne(i, depth)], x[CallOne(i, depth)], L, fails)
           /\ Carried(w[CallItems(i, depth)], x[CallItems(i, depth)], L, fails)
           /\ \A end \in Ends :
                Carried(w[CallPairs(i, end, depth)], x[CallPairs(i, end, depth)], L, fails)
<1>1. i \in 0..L /\ 2 * (Len(u) - i) + 1 <= n /\ 2 * (Len(u) - i) + 2 <= n
  OBVIOUS
<1> QED
  BY <1>1 DEF Corresponds

\* A place in front of a settled result is settled.
LEMMA SettledFurther ==
    ASSUME NEW u, NEW v, NEW L, NEW fails, NEW fmt, Agree(u, v, L, fails, fmt), Len(u) \in Nat,
           NEW r, Settled(r, L, fails), NEW i \in 0..Len(u),
           Failed(r) \/ (r.at \in Nat /\ i <= r.at)
    PROVE  i \in 0..L
<1>1. L \in Nat /\ (fails # {} => L = Len(u))
  BY DEF Agree
<1>2. CASE Failed(r)
  <2>1. fails # {}
    BY <1>2 DEF Settled
  <2> QED
    BY <1>1, <2>1
<1>3. CASE ~Failed(r)
  <2>1. r.at <= L
    BY <1>3 DEF Settled
  <2> QED
    BY <1>1, <1>3, <2>1
<1> QED
  BY <1>2, <1>3

\* A call that is settled was made at a place in front of L.
LEMMA SettledInFront ==
    ASSUME NEW u \in Seq(Byte), NEW v, NEW L, NEW fails, NEW fmt, Agree(u, v, L, fails, fmt),
           NEW r, Settled(r, L, fails), NEW i \in 0..Len(u), Advances(r, u, i, fmt)
    PROVE  i \in 0..L
<1>1. Len(u) \in Nat /\ Meaningful(u, i, fmt) \in i..Len(u)
  BY MeaningfulInRange
<1>2. ~Failed(r) => r.at \in (Meaningful(u, i, fmt) + 1)..Len(u)
  BY DEF Advances
<1>3. Failed(r) \/ (r.at \in Nat /\ i <= r.at)
  BY <1>1, <1>2
<1> QED
  BY <1>1, <1>3, SettledFurther

\* What is found is settled when its end is.
LEMMA FoundIsSettled ==
    ASSUME NEW r, NEW L, NEW fails, ~Failed(r), r.at \in 0..L
    PROVE  Settled(r, L, fails)
  BY DEF Settled

\* Where a call is settled, both walks look at the same byte.
LEMMA SamePlace ==
    ASSUME NEW u \in Seq(Byte), NEW v, NEW L, NEW fails, NEW fmt, Agree(u, v, L, fails, fmt),
           NEW p \in 0..L, NEW r, Settled(r, L, fails), Advances(r, u, p, fmt), Lacks(r, u, p, fmt)
    PROVE  /\ Behind(v, p, fmt) = Behind(u, p, fmt)
           /\ \A b : PeekIs(v, p, fmt, b) <=> PeekIs(u, p, fmt, b)
<1> DEFINE q == Meaningful(u, p, fmt)
<1>1. L \in Nat /\ L <= Len(u) /\ Len(u) \in Nat
  BY DEF Agree
<1>2. p \in 0..Len(u)
  BY <1>1
<1>3. q \in p..Len(u)
  BY <1>2, MeaningfulInRange
<1>4. CASE q < L
  <2>1. Meaningful(v, p, fmt) = q /\ Inside(v, q) /\ At(v, q) = At(u, q)
    BY <1>4 DEF Agree
  <2>2. Inside(u, q)
    BY <1>1, <1>3, <1>4 DEF Inside
  <2> QED
    BY <2>1, <2>2 DEF PeekIs, Behind
<1>5. CASE ~(q < L)
  <2>1. Failed(r)
    <3> SUFFICES ASSUME ~Failed(r) PROVE FALSE
      OBVIOUS
    <3>1. r.at \in (q + 1)..Len(u) /\ r.at <= L
      BY DEF Advances, Settled
    <3> HIDE DEF q
    <3> QED
      BY <1>1, <1>3, <1>5, <3>1
  <2>2. r.kind \in fails
    BY <2>1 DEF Settled
  <2>3. L = Len(u)
    BY <2>2 DEF Agree
  <2>4. ~Inside(u, q)
    BY <1>3, <1>5, <2>3 DEF Inside
  <2>5. r.kind = "eof"
    BY <2>4 DEF Lacks, Eof
  <2>6. u = v
    BY <2>2, <2>5 DEF Agree
  <2> QED
    BY <2>6
<1> QED
  BY <1>4, <1>5

\* What two walks must have in common for a step of the one to follow the other.
InStep(w, x, u, v, L, fails, fmt, max, n) ==
    /\ Agree(u, v, L, fails, fmt)
    /\ Progress(w, u, fmt, max)
    /\ Corresponds(w, x, u, L, fails, n)

\* Of a node that the first walk settles, the second makes the same.
LEMMA NodeCarries ==
    ASSUME NEW u \in Seq(Byte), NEW v, NEW w, NEW x, NEW L, NEW fails, NEW fmt,
           NEW max \in Nat, NEW n \in Nat, InStep(w, x, u, v, L, fails, fmt, max, n),
           NEW p \in 0..L, 2 * (Len(u) - p) <= n, NEW depth \in Nat,
           Settled(ScanNode(w, u, p, fmt, depth), L, fails)
    PROVE  ScanNode(x, v, p, fmt, depth) = ScanNode(w, u, p, fmt, depth)
<1> DEFINE r == ScanNode(w, u, p, fmt, depth)
           z == ScanNode(x, v, p, fmt, depth)
           token == SkipToken(u, p, fmt)
           q == Meaningful(u, p, fmt)
           i == token.at
           e == depth + 1
<1>1. /\ Agree(u, v, L, fails, fmt) /\ Progress(w, u, fmt, max)
      /\ Corresponds(w, x, u, L, fails, n)
  BY DEF InStep
<1>2. L \in Nat /\ L <= Len(u) /\ Len(u) \in Nat /\ e \in Nat
  BY <1>1 DEF Agree
<1>3. p \in 0..Len(u)
  BY <1>2
<1>4. q \in p..Len(u) /\ (~Failed(token) => q < Len(u) /\ i \in (q + 1)..Len(u))
  BY <1>3, MeaningfulInRange, SkipTokenInRange
<1>5. \/ Failed(token) /\ r = token
      \/ /\ ~Failed(token)
         /\ \/ r = Bad
            \/ r = Found("Value", i)
            \/ r = w[CallItems(i, e)]
            \/ r = w[CallPairs(i, RBRACE, e)]
  BY ScanNodeSteps
<1>6. ~Failed(token) => i \in (p + 1)..L
  <2> SUFFICES ASSUME ~Failed(token) PROVE i \in (p + 1)..L
    OBVIOUS
  <2>1. i \in (q + 1)..Len(u)
    BY <1>4
  <2> HIDE DEF q, i, e
  <2>2. i \in 0..Len(u) /\ i \in (p + 1)..Len(u)
    BY <1>4, <1>2, <2>1
  <2>3. i \in 0..L
    <3>1. CASE r = Bad
      <4>1. Failed(r) /\ Settled(r, L, fails)
        BY <3>1 DEF Failed, Bad
      <4> HIDE DEF r
      <4> QED
        BY <4>1, <1>1, <1>2, <2>2, SettledFurther
    <3>2. CASE r = Found("Value", i)
      <4>1. r.at \in Nat /\ i <= r.at /\ Settled(r, L, fails)
        BY <3>2, <2>2 DEF Found
      <4> HIDE DEF r
      <4> QED
        BY <4>1, <1>1, <1>2, <2>2, SettledFurther
    <3>3. CASE r = w[CallItems(i, e)]
      <4>1. Advances(r, u, i, fmt) /\ Settled(r, L, fails)
        BY <3>3, <1>1, <1>2, <2>2, ProgressMeans
      <4> HIDE DEF r
      <4> QED
        BY <4>1, <1>1, <2>2, SettledInFront
    <3>4. CASE r = w[CallPairs(i, RBRACE, e)]
      <4>1. Advances(r, u, i, fmt) /\ Settled(r, L, fails)
        BY <3>4, <1>1, <1>2, <2>2, ProgressMeans
      <4> HIDE DEF r
      <4> QED
        BY <4>1, <1>1, <2>2, SettledInFront
    <3> QED
      BY <1>5, <3>1, <3>2, <3>3, <3>4
  <2> QED
    BY <1>2, <2>2, <2>3
<1>7. SkipToken(v, p, fmt) = token
  <2>1. Settled(token, L, fails)
    <3>1. CASE Failed(token)
      BY <1>5, <3>1
    <3>2. CASE ~Failed(token)
      <4> HIDE DEF token
      <4>1. i \in 0..L
        BY <1>2, <1>6, <3>2
      <4> QED
        BY <4>1, <3>2, FoundIsSettled
    <3> QED
      BY <3>1, <3>2
  <2> QED
    BY <1>1, <2>1 DEF Agree
<1>8. \/ z = r
      \/ /\ ~Failed(token)
         /\ \/ r = w[CallItems(i, e)] /\ z = x[CallItems(i, e)]
            \/ r = w[CallPairs(i, RBRACE, e)] /\ z = x[CallPairs(i, RBRACE, e)]
  BY <1>7, ScanNodesCorrespond
<1> HIDE DEF r, z, token, q, i, e
<1>9. CASE ~Failed(token)
  <2>1. i \in (p + 1)..L
    BY <1>6, <1>9
  <2>2. /\ Carried(w[CallItems(i, e)], x[CallItems(i, e)], L, fails)
        /\ \A end \in Ends : Carried(w[CallPairs(i, end, e)], x[CallPairs(i, end, e)], L, fails)
    BY <1>1, <1>2, <2>1, CarriedBehind
  <2>3. Settled(r, L, fails)
    BY DEF r
  <2>4. z = r
    BY <1>8, <2>2, <2>3 DEF Carried, Ends
  <2> QED
    BY <2>4 DEF z, r
<1>10. CASE Failed(token)
  BY <1>8, <1>10 DEF z, r
<1> QED
  BY <1>9, <1>10

\* Of a value with its attributes that the first walk settles, the second makes
\* the same.
LEMMA OneCarries ==
    ASSUME NEW u \in Seq(Byte), NEW v, NEW w, NEW x, NEW L, NEW fails, NEW fmt,
           NEW max \in Nat, NEW n \in Nat, InStep(w, x, u, v, L, fails, fmt, max, n),
           NEW p \in 0..L, 2 * (Len(u) - p) <= n, NEW depth \in Nat,
           Settled(ScanOne(w, u, p, fmt, depth, max), L, fails)
    PROVE  ScanOne(x, v, p, fmt, depth, max) = ScanOne(w, u, p, fmt, depth, max)
<1> DEFINE r == ScanOne(w, u, p, fmt, depth, max)
           z == ScanOne(x, v, p, fmt, depth, max)
           i == Behind(u, p, fmt)
           e == depth + 1
           attributes == w[CallPairs(i, GT, e)]
           angle == PeekIs(u, p, fmt, LT)
           theirs == x[CallPairs(Behind(v, p, fmt), GT, e)]
<1>1. /\ Agree(u, v, L, fails, fmt) /\ Progress(w, u, fmt, max)
      /\ Corresponds(w, x, u, L, fails, n)
  BY DEF InStep
<1>2. L \in Nat /\ L <= Len(u) /\ Len(u) \in Nat /\ e \in Nat
  BY <1>1 DEF Agree
<1>3. p \in 0..Len(u)
  BY <1>2
<1>4. /\ depth > max => r = Bad
      /\ (depth <= max /\ ~angle) => r = ScanNode(w, u, p, fmt, depth)
      /\ (depth <= max /\ angle /\ Failed(attributes)) => r = attributes
      /\ (depth <= max /\ angle /\ ~Failed(attributes)) =>
             r = ScanNode(w, u, attributes.at, fmt, depth)
  BY DEF ScanOne, Then
<1>5. /\ depth > max => z = Bad
      /\ (depth <= max /\ ~PeekIs(v, p, fmt, LT)) => z = ScanNode(x, v, p, fmt, depth)
      /\ (depth <= max /\ PeekIs(v, p, fmt, LT) /\ Failed(theirs)) => z = theirs
      /\ (depth <= max /\ PeekIs(v, p, fmt, LT) /\ ~Failed(theirs)) =>
             z = ScanNode(x, v, theirs.at, fmt, depth)
  BY DEF ScanOne, Then
<1>6. Settled(r, L, fails)
  OBVIOUS
<1>7. Proceeds(r, u, p, fmt, depth, max)
  BY <1>1, <1>3, OneProceeds
<1>8. angle => /\ i \in (Meaningful(u, p, fmt) + 1)..Len(u)
               /\ i \in 0..Len(u)
  BY <1>3, PeekedIsInside
<1> HIDE DEF r, z, i, e, angle
<1>9. CASE depth > max
  BY <1>4, <1>5, <1>9 DEF r, z
<1>10. CASE depth <= max
  <2>1. Advances(r, u, p, fmt) /\ Lacks(r, u, p, fmt)
    BY <1>7, <1>10 DEF Proceeds
  <2>2. Behind(v, p, fmt) = i /\ (PeekIs(v, p, fmt, LT) <=> angle)
    BY <1>1, <1>6, <2>1, SamePlace DEF i, angle
  <2>3. CASE ~angle
    <3>1. r = ScanNode(w, u, p, fmt, depth) /\ z = ScanNode(x, v, p, fmt, depth)
      BY <1>4, <1>5, <1>10, <2>2, <2>3
    <3>2. Settled(ScanNode(w, u, p, fmt, depth), L, fails)
      BY <1>6, <3>1
    <3>3. ScanNode(x, v, p, fmt, depth) = ScanNode(w, u, p, fmt, depth)
      BY <3>2, NodeCarries
    <3> QED
      BY <3>1, <3>3 DEF r, z
  <2>4. CASE angle
    <3>1. Advances(attributes, u, i, fmt)
      BY <1>1, <1>2, <1>8, <2>4, ProgressMeans
    <3>2. /\ theirs = x[CallPairs(i, GT, e)]
          /\ i \in (Meaningful(u, p, fmt) + 1)..Len(u)
          /\ i \in 0..Len(u)
      BY <1>8, <2>2, <2>4
    <3>3. Advances(attributes, u, p, fmt) /\ i \in (p + 1)..Len(u)
      BY <1>3, <3>1, <3>2, AdvancesFurther
    <3> HIDE DEF theirs
    <3>4. CASE Failed(attributes)
      <4>1. r = attributes
        BY <1>4, <1>10, <2>4, <3>4
      <4>2. Settled(attributes, L, fails)
        BY <1>6, <4>1
      <4>3. i \in 0..L
        BY <1>1, <3>1, <3>2, <4>2, SettledInFront
      <4>4. i \in (p + 1)..L
        BY <1>2, <3>3, <4>3
      <4>5. Carried(attributes, theirs, L, fails)
        BY <1>1, <1>2, <3>2, <4>4, CarriedBehind DEF Ends
      <4>6. theirs = attributes
        BY <4>2, <4>5 DEF Carried
      <4> QED
        BY <1>5, <1>10, <2>2, <2>4, <3>4, <4>1, <4>6 DEF r, z
    <3>5. CASE ~Failed(attributes)
      <4> DEFINE j == attributes.at
      <4>1. r = ScanNode(w, u, j, fmt, depth)
        BY <1>4, <1>10, <2>4, <3>5
      <4>2. j \in (Meaningful(u, i, fmt) + 1)..Len(u)
        BY <3>1, <3>5 DEF Advances
      <4>3. Meaningful(u, i, fmt) \in i..Len(u)
        BY <3>2, MeaningfulInRange
      <4> HIDE DEF attributes, j
      <4>4. j \in 0..Len(u) /\ i < j
        BY <1>2, <3>2, <4>2, <4>3
      <4>5. Advances(r, u, j, fmt)
        BY <1>1, <4>1, <4>4, NodeProceeds
      <4>6. j \in 0..L
        BY <1>1, <1>6, <4>4, <4>5, SettledInFront
      <4>7. i \in (p + 1)..L
        BY <1>2, <3>3, <4>4, <4>6
      <4>8. Carried(attributes, theirs, L, fails)
        BY <1>1, <1>2, <3>2, <4>7, CarriedBehind DEF Ends, attributes
      <4>9. Settled(attributes, L, fails)
        BY <3>5, <4>6, FoundIsSettled DEF j
      <4>10. theirs = attributes
        BY <4>8, <4>9 DEF Carried
      <4>11. z = ScanNode(x, v, j, fmt, depth)
        BY <1>5, <1>10, <2>2, <2>4, <3>5, <4>10 DEF j
      <4>12. 2 * (Len(u) - j) <= n
        BY <1>2, <4>6, <4>7, <4>4
      <4>13. Settled(ScanNode(w, u, j, fmt, depth), L, fails)
        BY <1>6, <4>1
      <4>14. ScanNode(x, v, j, fmt, depth) = ScanNode(w, u, j, fmt, depth)
        BY <4>6, <4>12, <4>13, NodeCarries
      <4> QED
        BY <4>1, <4>11, <4>14 DEF r, z
    <3> QED
      BY <3>4, <3>5
  <2> QED
    BY <2>3, <2>4
<1> QED
  BY <1>9, <1>10

\* Of a list that the first walk settles, the second makes the same.
LEMMA ItemsCarries ==
    ASSUME NEW u \in Seq(Byte), NEW v, NEW w, NEW x, NEW L, NEW fails, NEW fmt,
           NEW max \in Nat, NEW n \in Nat, InStep(w, x, u, v, L, fails, fmt, max, n),
           NEW p \in 0..L, 2 * (Len(u) - p) + 1 <= n, NEW depth \in Nat,
           Settled(ScanItems(w, u, p, fmt, depth, max), L, fails)
    PROVE  ScanItems(x, v, p, fmt, depth, max) = ScanItems(w, u, p, fmt, depth, max)
<1> DEFINE r == ScanItems(w, u, p, fmt, depth, max)
           z == ScanItems(x, v, p, fmt, depth, max)
           i == Behind(u, p, fmt)
           item == w[CallOne(p, depth)]
           theirs == x[CallOne(p, depth)]
           close == PeekIs(u, p, fmt, RBRACK)
           semi == PeekIs(u, p, fmt, SEMI)
           closes == PeekIs(v, p, fmt, RBRACK)
           semis == PeekIs(v, p, fmt, SEMI)
           k == Behind(v, p, fmt)
<1>1. /\ Agree(u, v, L, fails, fmt) /\ Progress(w, u, fmt, max)
      /\ Corresponds(w, x, u, L, fails, n)
  BY DEF InStep
<1>2. L \in Nat /\ L <= Len(u) /\ Len(u) \in Nat
  BY <1>1 DEF Agree
<1>3. p \in 0..Len(u) /\ 2 * (Len(u) - p) <= n
  BY <1>2
<1>4. /\ depth > max => r = Bad
      /\ (depth <= max /\ close) => r = Found("Value", i)
      /\ (depth <= max /\ ~close /\ semi) => r = w[CallItems(i, depth)]
      /\ (depth <= max /\ ~close /\ ~semi /\ Failed(item)) => r = item
      /\ (depth <= max /\ ~close /\ ~semi /\ ~Failed(item)) => r = w[CallItems(item.at, depth)]
  BY DEF ScanItems, Then, PeekIs, RBRACK, SEMI
<1>5. /\ depth > max => z = Bad
      /\ (depth <= max /\ closes) => z = Found("Value", k)
      /\ (depth <= max /\ ~closes /\ semis) => z = x[CallItems(k, depth)]
      /\ (depth <= max /\ ~closes /\ ~semis /\ Failed(theirs)) => z = theirs
      /\ (depth <= max /\ ~closes /\ ~semis /\ ~Failed(theirs)) =>
             z = x[CallItems(theirs.at, depth)]
  BY DEF ScanItems, Then, PeekIs, RBRACK, SEMI
<1>6. Settled(r, L, fails)
  OBVIOUS
<1>7. Proceeds(r, u, p, fmt, depth, max)
  BY <1>1, <1>3, ItemsProceeds
<1>8. semi => /\ i \in (Meaningful(u, p, fmt) + 1)..Len(u)
              /\ i \in 0..Len(u)
  BY <1>3, PeekedIsInside
<1>9. Advances(item, u, p, fmt)
  BY <1>1, <1>3, ProgressMeans
<1>10. Carried(item, theirs, L, fails)
  BY <1>1, <1>3 DEF Corresponds
<1> HIDE DEF r, z, i, item, theirs, close, semi, closes, semis, k
<1>11. CASE depth > max
  BY <1>4, <1>5, <1>11 DEF r, z
<1>12. CASE depth <= max
  <2>1. Advances(r, u, p, fmt) /\ Lacks(r, u, p, fmt)
    BY <1>7, <1>12 DEF Proceeds
  <2>2. k = i /\ (closes <=> close) /\ (semis <=> semi)
    BY <1>1, <1>6, <2>1, SamePlace DEF i, k, close, closes, semi, semis
  <2>3. CASE close
    BY <1>4, <1>5, <1>12, <2>2, <2>3 DEF r, z
  <2>4. CASE ~close /\ semi
    <3>1. r = w[CallItems(i, depth)] /\ z = x[CallItems(i, depth)]
      BY <1>4, <1>5, <1>12, <2>2, <2>4
    <3>2. i \in (Meaningful(u, p, fmt) + 1)..Len(u) /\ i \in 0..Len(u)
      BY <1>8, <2>4
    <3>3. Advances(r, u, i, fmt)
      BY <1>1, <3>1, <3>2, ProgressMeans
    <3>4. i \in (p + 1)..Len(u)
      BY <1>3, <3>2, <3>3, AdvancesFurther
    <3>5. i \in 0..L
      BY <1>1, <1>6, <3>2, <3>3, SettledInFront
    <3>6. i \in (p + 1)..L
      BY <1>2, <3>4, <3>5
    <3>7. Carried(w[CallItems(i, depth)], x[CallItems(i, depth)], L, fails)
      BY <1>1, <1>2, <1>3, <3>6, CarriedBehind
    <3> QED
      BY <1>6, <3>1, <3>7 DEF Carried, r, z
  <2>5. CASE ~close /\ ~semi /\ Failed(item)
    <3>1. r = item
      BY <1>4, <1>12, <2>5
    <3>2. theirs = item
      BY <1>6, <1>10, <3>1 DEF Carried
    <3>3. z = theirs
      BY <1>5, <1>12, <2>2, <2>5, <3>2
    <3> QED
      BY <3>1, <3>2, <3>3 DEF r, z
  <2>6. CASE ~close /\ ~semi /\ ~Failed(item)
    <3> DEFINE j == item.at
    <3>1. r = w[CallItems(j, depth)]
      BY <1>4, <1>12, <2>6
    <3>2. j \in (Meaningful(u, p, fmt) + 1)..Len(u)
      BY <1>9, <2>6 DEF Advances
    <3>3. Meaningful(u, p, fmt) \in p..Len(u)
      BY <1>3, MeaningfulInRange
    <3> HIDE DEF j
    <3>4. j \in (p + 1)..Len(u) /\ j \in 0..Len(u)
      BY <1>2, <1>3, <3>2, <3>3
    <3>5. Advances(r, u, j, fmt)
      BY <1>1, <3>1, <3>4, ProgressMeans
    <3>6. j \in 0..L
      BY <1>1, <1>6, <3>4, <3>5, SettledInFront
    <3>7. Settled(item, L, fails)
      BY <2>6, <3>6, FoundIsSettled DEF j
    <3>8. theirs = item
      BY <1>10, <3>7 DEF Carried
    <3>9. z = x[CallItems(j, depth)]
      BY <1>5, <1>12, <2>2, <2>6, <3>8 DEF j
    <3>10. j \in (p + 1)..L
      BY <1>2, <3>4, <3>6
    <3>11. Carried(w[CallItems(j, depth)], x[CallItems(j, depth)], L, fails)
      BY <1>1, <1>2, <1>3, <3>10, CarriedBehind
    <3> QED
      BY <1>6, <3>1, <3>9, <3>11 DEF Carried, r, z
  <2> QED
    BY <2>3, <2>4, <2>5, <2>6
<1> QED
  BY <1>11, <1>12

\* Of a map that the first walk settles, the second makes the same.
LEMMA PairsCarries ==
    ASSUME NEW u \in Seq(Byte), NEW v, NEW w, NEW x, NEW L, NEW fails, NEW fmt,
           NEW max \in Nat, NEW n \in Nat, InStep(w, x, u, v, L, fails, fmt, max, n),
           NEW p \in 0..L, 2 * (Len(u) - p) <= n, NEW end \in Ends, NEW depth \in Nat,
           Settled(ScanPairs(w, u, p, fmt, end, depth, max), L, fails)
    PROVE  ScanPairs(x, v, p, fmt, end, depth, max) = ScanPairs(w, u, p, fmt, end, depth, max)
<1> DEFINE r == ScanPairs(w, u, p, fmt, end, depth, max)
           z == ScanPairs(x, v, p, fmt, end, depth, max)
           i == Behind(u, p, fmt)
           close == PeekIs(u, p, fmt, end)
           semi == PeekIs(u, p, fmt, SEMI)
           token == SkipToken(u, p, fmt)
           key == Expect("String", token)
           separator == SkipToken(u, key.at, fmt)
           equals == Expect("KeyValueSeparator", separator)
           value == w[CallOne(equals.at, depth)]
           k == Behind(v, p, fmt)
           closes == PeekIs(v, p, fmt, end)
           semis == PeekIs(v, p, fmt, SEMI)
           token2 == SkipToken(v, p, fmt)
           key2 == Expect("String", token2)
           separator2 == SkipToken(v, key2.at, fmt)
           equals2 == Expect("KeyValueSeparator", separator2)
           value2 == x[CallOne(equals2.at, depth)]
<1>1. /\ Agree(u, v, L, fails, fmt) /\ Progress(w, u, fmt, max)
      /\ Corresponds(w, x, u, L, fails, n)
  BY DEF InStep
<1>2. L \in Nat /\ L <= Len(u) /\ Len(u) \in Nat
  BY <1>1 DEF Agree
<1>3. p \in 0..Len(u)
  BY <1>2
<1>4. /\ depth > max => r = Bad
      /\ (depth <= max /\ close) => r = Found("Value", i)
      /\ (depth <= max /\ ~close /\ semi) => r = w[CallPairs(i, end, depth)]
      /\ (depth <= max /\ ~close /\ ~semi) =>
             r = IF Failed(key) THEN key
                 ELSE IF Failed(equals) THEN equals
                 ELSE IF Failed(value) THEN value
                 ELSE w[CallPairs(value.at, end, depth)]
  BY ScanPairsSteps
<1>5. /\ depth > max => z = Bad
      /\ (depth <= max /\ closes) => z = Found("Value", k)
      /\ (depth <= max /\ ~closes /\ semis) => z = x[CallPairs(k, end, depth)]
      /\ (depth <= max /\ ~closes /\ ~semis) =>
             z = IF Failed(key2) THEN key2
                 ELSE IF Failed(equals2) THEN equals2
                 ELSE IF Failed(value2) THEN value2
                 ELSE x[CallPairs(value2.at, end, depth)]
  BY ScanPairsSteps
<1>6. Settled(r, L, fails)
  OBVIOUS
<1>7. Proceeds(r, u, p, fmt, depth, max)
  BY <1>1, <1>3, PairsProceeds
<1>8. semi => /\ i \in (Meaningful(u, p, fmt) + 1)..Len(u)
              /\ i \in 0..Len(u)
  BY <1>3, PeekedIsInside
<1>9. key = token \/ (key = Bad /\ ~Failed(token))
  BY ExpectedIs
<1>10. equals = separator \/ (equals = Bad /\ ~Failed(separator))
  BY ExpectedIs
<1>11. token2 = token => key2 = key
  OBVIOUS
<1>12. (key2 = key /\ separator2 = separator) => equals2 = equals
  OBVIOUS
<1>13. key2 = key => separator2 = SkipToken(v, key.at, fmt)
  OBVIOUS
<1>14. equals2 = equals => value2 = x[CallOne(equals.at, depth)]
  OBVIOUS
<1>15. Meaningful(u, p, fmt) \in p..Len(u)
  BY <1>3, MeaningfulInRange
<1>16. ~Failed(token) => token.at \in (Meaningful(u, p, fmt) + 1)..Len(u)
  BY <1>3, SkipTokenInRange
<1> HIDE DEF r, z, i, close, semi, k, closes, semis, token, key, separator, equals, value,
             token2, key2, separator2, equals2, value2
<1>20. CASE depth > max
  BY <1>4, <1>5, <1>20 DEF r, z
<1>21. CASE depth <= max
  <2>1. Advances(r, u, p, fmt) /\ Lacks(r, u, p, fmt)
    BY <1>7, <1>21 DEF Proceeds
  <2>2. k = i /\ (closes <=> close) /\ (semis <=> semi)
    BY <1>1, <1>6, <2>1, SamePlace DEF i, k, close, closes, semi, semis
  <2>3. CASE close
    BY <1>4, <1>5, <1>21, <2>2, <2>3 DEF r, z
  <2>4. CASE ~close /\ semi
    <3>1. r = w[CallPairs(i, end, depth)] /\ z = x[CallPairs(i, end, depth)]
      BY <1>4, <1>5, <1>21, <2>2, <2>4
    <3>2. i \in (Meaningful(u, p, fmt) + 1)..Len(u) /\ i \in 0..Len(u)
      BY <1>8, <2>4
    <3>3. Advances(r, u, i, fmt)
      BY <1>1, <3>1, <3>2, ProgressMeans DEF Ends
    <3>4. i \in (p + 1)..Len(u)
      BY <1>3, <3>2, <3>3, AdvancesFurther
    <3>5. i \in 0..L
      BY <1>1, <1>6, <3>2, <3>3, SettledInFront
    <3>6. i \in (p + 1)..L
      BY <1>2, <3>4, <3>5
    <3>7. Carried(w[CallPairs(i, end, depth)], x[CallPairs(i, end, depth)], L, fails)
      BY <1>1, <1>2, <3>6, CarriedBehind
    <3> QED
      BY <1>6, <3>1, <3>7 DEF Carried, r, z
  <2>5. CASE ~close /\ ~semi
    <3>1. /\ r = IF Failed(key) THEN key
                 ELSE IF Failed(equals) THEN equals
                 ELSE IF Failed(value) THEN value
                 ELSE w[CallPairs(value.at, end, depth)]
          /\ z = IF Failed(key2) THEN key2
                 ELSE IF Failed(equals2) THEN equals2
                 ELSE IF Failed(value2) THEN value2
                 ELSE x[CallPairs(value2.at, end, depth)]
      BY <1>4, <1>5, <1>21, <2>2, <2>5
    <3>2. CASE Failed(key)
      <4>1. r = key
        BY <3>1, <3>2
      <4>2. Settled(token, L, fails)
        <5>1. CASE key = token
          BY <1>6, <4>1, <5>1
        <5>2. CASE key = Bad /\ ~Failed(token)
          <6> DEFINE a == token.at
          <6>1. a \in (Meaningful(u, p, fmt) + 1)..Len(u)
            BY <1>16, <5>2
          <6> HIDE DEF a
          <6>2. a \in 0..Len(u)
            BY <1>3, <1>15, <6>1
          <6>3. a \in 0..L
            BY <1>1, <1>2, <1>6, <3>2, <4>1, <6>2, SettledFurther
          <6> QED
            BY <5>2, <6>3, FoundIsSettled DEF a
        <5> QED
          BY <1>9, <5>1, <5>2
      <4>3. token2 = token
        BY <1>1, <4>2 DEF Agree, token, token2
      <4>4. key2 = key
        BY <1>11, <4>3
      <4> QED
        BY <3>1, <3>2, <4>1, <4>4 DEF r, z
    <3>3. CASE ~Failed(key)
      <4> DEFINE a == key.at
      <4>1. key = token /\ ~Failed(token)
        BY <1>9, <3>3 DEF Failed, Bad
      <4>2. a \in (Meaningful(u, p, fmt) + 1)..Len(u)
        BY <1>16, <4>1
      <4>3. separator = SkipToken(u, a, fmt)
        BY DEF separator
      <4> HIDE DEF a
      <4>4. a \in (p + 1)..Len(u) /\ a \in 0..Len(u)
        BY <1>3, <1>15, <4>2
      <4>5. Meaningful(u, a, fmt) \in a..Len(u)
        BY <4>4, MeaningfulInRange
      <4>6. ~Failed(separator) => separator.at \in (Meaningful(u, a, fmt) + 1)..Len(u)
        BY <4>3, <4>4, SkipTokenInRange
      <4>7. a \in 0..L =>
              /\ token2 = token /\ key2 = key
              /\ separator2 = SkipToken(v, a, fmt)
        <5> SUFFICES ASSUME a \in 0..L
                     PROVE  /\ token2 = token /\ key2 = key
                            /\ separator2 = SkipToken(v, a, fmt)
          OBVIOUS
        <5>1. Settled(token, L, fails)
          BY <4>1, FoundIsSettled DEF a
        <5>2. token2 = token
          BY <1>1, <5>1 DEF Agree, token, token2
        <5> QED
          BY <1>11, <1>13, <5>2 DEF a
      <4>8. CASE Failed(equals)
        <5>1. r = equals
          BY <3>1, <3>3, <4>8
        <5>2. a \in 0..L
          BY <1>1, <1>2, <1>6, <4>4, <4>8, <5>1, SettledFurther
        <5>3. Settled(separator, L, fails)
          <6>1. CASE equals = separator
            BY <1>6, <5>1, <6>1
          <6>2. CASE equals = Bad /\ ~Failed(separator)
            <7> DEFINE b == separator.at
            <7>1. b \in (Meaningful(u, a, fmt) + 1)..Len(u)
              BY <4>6, <6>2
            <7> HIDE DEF b
            <7>2. b \in 0..Len(u)
              BY <4>4, <4>5, <7>1
            <7>3. b \in 0..L
              BY <1>1, <1>2, <1>6, <4>8, <5>1, <7>2, SettledFurther
            <7> QED
              BY <6>2, <7>3, FoundIsSettled DEF b
          <6> QED
            BY <1>10, <6>1, <6>2
        <5>4. separator2 = separator
          <6>1. SkipToken(v, a, fmt) = SkipToken(u, a, fmt)
            BY <1>1, <4>3, <5>2, <5>3 DEF Agree
          <6> QED
            BY <4>3, <4>7, <5>2, <6>1
        <5>5. key2 = key /\ equals2 = equals
          BY <1>12, <4>7, <5>2, <5>4
        <5> QED
          BY <3>1, <3>3, <4>8, <5>1, <5>5 DEF r, z
      <4>9. CASE ~Failed(equals)
        <5> DEFINE b == equals.at
        <5>1. equals = separator /\ ~Failed(separator)
          BY <1>10, <4>9 DEF Failed, Bad
        <5>2. b \in (Meaningful(u, a, fmt) + 1)..Len(u)
          BY <4>6, <5>1
        <5>3. value = w[CallOne(b, depth)]
          BY DEF value
        <5> HIDE DEF b
        <5>4. b \in (p + 1)..Len(u) /\ b \in 0..Len(u) /\ a <= b
          BY <1>3, <4>4, <4>5, <5>2
        <5>5. Advances(value, u, b, fmt)
          BY <1>1, <5>3, <5>4, ProgressMeans
        <5>6. b \in 0..L =>
                /\ key2 = key /\ equals2 = equals /\ value2 = x[CallOne(b, depth)]
                /\ Carried(value, value2, L, fails)
          <6> SUFFICES ASSUME b \in 0..L
                       PROVE  /\ key2 = key /\ equals2 = equals /\ value2 = x[CallOne(b, depth)]
                              /\ Carried(value, value2, L, fails)
            OBVIOUS
          <6>1. a \in 0..L /\ b \in (p + 1)..L
            BY <1>2, <4>4, <5>4
          <6>2. Settled(separator, L, fails)
            BY <5>1, FoundIsSettled DEF b
          <6>3. SkipToken(v, a, fmt) = SkipToken(u, a, fmt)
            BY <1>1, <4>3, <6>1, <6>2 DEF Agree
          <6>4. separator2 = separator /\ key2 = key
            BY <4>3, <4>7, <6>1, <6>3
          <6>5. equals2 = equals
            BY <1>12, <6>4
          <6>6. value2 = x[CallOne(b, depth)]
            BY <1>14, <6>5 DEF b
          <6>7. Carried(w[CallOne(b, depth)], x[CallOne(b, depth)], L, fails)
            BY <1>1, <1>2, <6>1, CarriedBehind
          <6> QED
            BY <5>3, <6>4, <6>5, <6>6, <6>7
        <5>7. CASE Failed(value)
          <6>1. r = value
            BY <3>1, <3>3, <4>9, <5>7
          <6>2. b \in 0..L
            BY <1>1, <1>6, <5>4, <5>5, <6>1, SettledInFront
          <6>3. value2 = value
            BY <1>6, <5>6, <6>1, <6>2 DEF Carried
          <6> QED
            BY <3>1, <3>3, <4>9, <5>6, <5>7, <6>1, <6>2, <6>3 DEF r, z
        <5>8. CASE ~Failed(value)
          <6> DEFINE c == value.at
          <6>1. r = w[CallPairs(c, end, depth)]
            BY <3>1, <3>3, <4>9, <5>8
          <6>2. c \in (Meaningful(u, b, fmt) + 1)..Len(u)
            BY <5>5, <5>8 DEF Advances
          <6>3. Meaningful(u, b, fmt) \in b..Len(u)
            BY <5>4, MeaningfulInRange
          <6> HIDE DEF c
          <6>4. c \in (p + 1)..Len(u) /\ c \in 0..Len(u) /\ b <= c
            BY <1>3, <5>4, <6>2, <6>3
          <6>5. Advances(r, u, c, fmt)
            BY <1>1, <6>1, <6>4, ProgressMeans DEF Ends
          <6>6. c \in 0..L
            BY <1>1, <1>6, <6>4, <6>5, SettledInFront
          <6>7. b \in 0..L /\ c \in (p + 1)..L
            BY <1>2, <5>4, <6>4, <6>6
          <6>8. Settled(value, L, fails)
            BY <5>8, <6>6, FoundIsSettled DEF c
          <6>9. value2 = value
            BY <5>6, <6>7, <6>8 DEF Carried
          <6>10. z = x[CallPairs(c, end, depth)]
            BY <3>1, <3>3, <4>9, <5>6, <5>8, <6>7, <6>9 DEF c
          <6>11. Carried(w[CallPairs(c, end, depth)], x[CallPairs(c, end, depth)], L, fails)
            BY <1>1, <1>2, <6>7, CarriedBehind
          <6> QED
            BY <1>6, <6>1, <6>10, <6>11 DEF Carried, r, z
        <5> QED
          BY <5>7, <5>8
      <4> QED
        BY <4>8, <4>9
    <3> QED
      BY <3>2, <3>3
  <2> QED
    BY <2>3, <2>4, <2>5
<1> QED
  BY <1>20, <1>21

\* Of two walks over inputs that agree, the second comes to all that the first
\* settles, when it is allowed as many calls inside each other.
LEMMA WalksCorrespond ==
    ASSUME NEW u \in Seq(Byte), NEW v, NEW L, NEW fails, NEW fmt, NEW max \in Nat,
           Agree(u, v, L, fails, fmt)
    PROVE  \A n, m \in Nat : n <= m =>
              Corresponds(Walks(u, fmt, max)[n], Walks(v, fmt, max)[m], u, L, fails, n)
<1> DEFINE N == Len(u)
           W(n) == Walks(u, fmt, max)[n]
           V(m) == Walks(v, fmt, max)[m]
           X == {n \in Nat : \A m \in Nat : n <= m => Corresponds(W(n), V(m), u, L, fails, n)}
<1>1. N \in Nat /\ L \in Nat /\ L <= N
  BY DEF Agree
<1>2. 0 \in X
  <2>1. \A p \in 0..L : ~(2 * (N - p) + 1 <= 0) /\ ~(2 * (N - p) + 2 <= 0)
    BY <1>1
  <2> HIDE DEF W, V
  <2>2. \A m \in Nat : Corresponds(W(0), V(m), u, L, fails, 0)
    BY <2>1 DEF Corresponds
  <2> QED
    BY <2>2
<1>3. ASSUME NEW n \in Nat, n \in X PROVE n + 1 \in X
  <2> SUFFICES ASSUME NEW m \in Nat, n + 1 <= m
               PROVE  Corresponds(W(n + 1), V(m), u, L, fails, n + 1)
    OBVIOUS
  <2> DEFINE k == m - 1
             w == W(n)
             x == V(k)
             w2 == W(n + 1)
             x2 == V(m)
  <2>1. k \in Nat /\ n <= k /\ k + 1 = m
    OBVIOUS
  <2>2. Corresponds(w, x, u, L, fails, n)
    BY <1>3, <2>1
  <2>3. InStep(w, x, u, v, L, fails, fmt, max, n)
    BY <2>2, WalksProgress DEF InStep
  <2>4. w = Walks(u, fmt, max)[n] /\ w2 = Walks(u, fmt, max)[n + 1]
    OBVIOUS
  <2>5. x = Walks(v, fmt, max)[k] /\ x2 = Walks(v, fmt, max)[k + 1]
    BY <2>1
  <2> HIDE DEF X, W, V, k, w, x, w2, x2
  <2>6. ASSUME NEW p \in 0..L, NEW depth \in Nat
        PROVE  /\ 2 * (N - p) + 1 <= n + 1 =>
                     Carried(w2[CallOne(p, depth)], x2[CallOne(p, depth)], L, fails)
               /\ 2 * (N - p) + 2 <= n + 1 =>
                     /\ Carried(w2[CallItems(p, depth)], x2[CallItems(p, depth)], L, fails)
                     /\ \A end \in Ends : Carried(w2[CallPairs(p, end, depth)],
                                                  x2[CallPairs(p, end, depth)], L, fails)
    <3>1. p \in Nat /\ N - p \in Nat
      BY <1>1
    <3>2. /\ w2[CallOne(p, depth)] = ScanOne(w, u, p, fmt, depth, max)
          /\ w2[CallItems(p, depth)] = ScanItems(w, u, p, fmt, depth, max)
          /\ \A end \in Ends :
                w2[CallPairs(p, end, depth)] = ScanPairs(w, u, p, fmt, end, depth, max)
      BY <2>4, <3>1, CallsUnfold
    <3>3. /\ x2[CallOne(p, depth)] = ScanOne(x, v, p, fmt, depth, max)
          /\ x2[CallItems(p, depth)] = ScanItems(x, v, p, fmt, depth, max)
          /\ \A end \in Ends :
                x2[CallPairs(p, end, depth)] = ScanPairs(x, v, p, fmt, end, depth, max)
      BY <2>1, <2>5, <3>1, CallsUnfold
    <3>4. ASSUME 2 * (N - p) + 1 <= n + 1
          PROVE  Carried(w2[CallOne(p, depth)], x2[CallOne(p, depth)], L, fails)
      <4>1. 2 * (N - p) <= n
        BY <3>1, <3>4
      <4>2. 2 * (Len(u) - p) <= n
        BY <4>1 DEF N
      <4> QED
        BY <2>3, <3>2, <3>3, <4>2, OneCarries DEF Carried
    <3>5. ASSUME 2 * (N - p) + 2 <= n + 1
          PROVE  Carried(w2[CallItems(p, depth)], x2[CallItems(p, depth)], L, fails)
      <4>1. 2 * (N - p) + 1 <= n
        BY <3>1, <3>5
      <4>2. 2 * (Len(u) - p) + 1 <= n
        BY <4>1 DEF N
      <4> QED
        BY <2>3, <3>2, <3>3, <4>2, ItemsCarries DEF Carried
    <3>6. ASSUME 2 * (N - p) + 2 <= n + 1, NEW end \in Ends
          PROVE  Carried(w2[CallPairs(p, end, depth)], x2[CallPairs(p, end, depth)], L, fails)
      <4>1. 2 * (N - p) <= n
        BY <3>1, <3>6
      <4>2. 2 * (Len(u) - p) <= n
        BY <4>1 DEF N
      <4>3. /\ w2[CallPairs(p, end, depth)] = ScanPairs(w, u, p, fmt, end, depth, max)
            /\ x2[CallPairs(p, end, depth)] = ScanPairs(x, v, p, fmt, end, depth, max)
        BY <3>2, <3>3
      <4> QED
        BY <2>3, <4>2, <4>3, PairsCarries DEF Carried
    <3> QED
      BY <3>4, <3>5, <3>6
  <2>7. Corresponds(w2, x2, u, L, fails, n + 1)
    BY <2>6 DEF Corresponds, N
  <2> QED
    BY <2>7 DEF w2, x2
<1> HIDE DEF X
<1>4. \A n \in Nat : n \in X
  BY <1>2, <1>3, Induct
<1> QED
  BY <1>4 DEF X

-----------------------------------------------------------------------------
(* The whole scan. *)

Outcome(s, fmt, max) == Walks(s, fmt, max)[MaxCalls(s)][CallOne(0, 0)]

\* The scanner reports the outcome of the walk at offset 0.
LEMMA ScanValueIs ==
    ASSUME NEW s, NEW fmt, NEW max
    PROVE  ScanValue(s, fmt, max) = VerdictOf(s, Outcome(s, fmt, max))
  BY DEF ScanValue, Outcome

\* A walk that finds a value finds it inside the input.
LEMMA OutcomeInRange ==
    ASSUME NEW s \in Seq(Byte), NEW fmt, NEW max \in Nat
    PROVE  LET r == Outcome(s, fmt, max) IN ~Failed(r) => r.at \in 1..Len(s)
<1> DEFINE n == MaxCalls(s)
           w == Walks(s, fmt, max)[n]
           r == w[CallOne(0, 0)]
           q == Meaningful(s, 0, fmt)
<1>1. Len(s) \in Nat /\ n \in Nat /\ 0 \in 0..Len(s) /\ 0 \in Nat
  BY DEF MaxCalls
<1>2. Progress(w, s, fmt, max)
  BY <1>1, WalksProgress
<1>3. q \in 0..Len(s)
  BY <1>1, MeaningfulInRange
<1>4. r = Outcome(s, fmt, max)
  BY DEF Outcome
<1> HIDE DEF n, w
<1>5. Advances(r, s, 0, fmt)
  BY <1>1, <1>2, ProgressMeans
<1>6. ~Failed(r) => r.at \in (q + 1)..Len(s)
  BY <1>5 DEF Advances
<1> HIDE DEF q, r
<1>7. ~Failed(r) => r.at \in 1..Len(s)
  BY <1>1, <1>3, <1>6
<1> QED
  BY <1>4, <1>7

\* A walk that may make more calls comes to what the first settles.
LEMMA OutcomeReached ==
    ASSUME NEW u \in Seq(Byte), NEW v, NEW L, NEW fails, NEW fmt, NEW max \in Nat,
           Agree(u, v, L, fails, fmt), Settled(Outcome(u, fmt, max), L, fails),
           NEW m \in Nat, MaxCalls(u) <= m
    PROVE  Walks(v, fmt, max)[m][CallOne(0, 0)] = Outcome(u, fmt, max)
<1> DEFINE n == MaxCalls(u)
           w == Walks(u, fmt, max)[n]
           x == Walks(v, fmt, max)[m]
           c == CallOne(0, 0)
<1>1. Len(u) \in Nat /\ n \in Nat /\ n = 2 * Len(u) + 2
  BY DEF MaxCalls
<1>2. 0 \in 0..L /\ 0 \in Nat /\ 2 * (Len(u) - 0) + 1 <= n
  <2>1. L \in Nat
    BY DEF Agree
  <2> HIDE DEF n
  <2> QED
    BY <1>1, <2>1
<1>3. n <= m
  OBVIOUS
<1> HIDE DEF n
<1>4. Corresponds(w, x, u, L, fails, n)
  BY <1>1, <1>3, WalksCorrespond
<1> HIDE DEF w, x
<1>5. Carried(w[c], x[c], L, fails)
  BY <1>2, <1>4 DEF Corresponds
<1>6. w[c] = Outcome(u, fmt, max)
  BY DEF Outcome, w, n
<1> HIDE DEF c
<1>7. x[c] = w[c]
  BY <1>5, <1>6 DEF Carried
<1> QED
  BY <1>6, <1>7 DEF x, c

\* An input agrees with itself in everything.
LEMMA AgreeWithItself ==
    ASSUME NEW s \in Seq(Byte), NEW fmt
    PROVE  Agree(s, s, Len(s), {"eof", "bad"}, fmt)
<1>1. Len(s) \in Nat
  OBVIOUS
<1> QED
  BY <1>1 DEF Agree, Inside

\* With the whole input shared, every outcome is settled.
LEMMA OutcomeIsSettled ==
    ASSUME NEW s \in Seq(Byte), NEW fmt, NEW max \in Nat
    PROVE  Settled(Outcome(s, fmt, max), Len(s), {"eof", "bad"})
<1> DEFINE r == Outcome(s, fmt, max)
<1>1. (~Failed(r) => r.at \in 1..Len(s)) /\ Len(s) \in Nat
  BY OutcomeInRange
<1> HIDE DEF r
<1>2. Settled(r, Len(s), {"eof", "bad"})
  <2>1. CASE Failed(r)
    BY <2>1 DEF Settled, Failed
  <2>2. CASE ~Failed(r)
    BY <1>1, <2>2 DEF Settled
  <2> QED
    BY <2>1, <2>2
<1> QED
  BY <1>2 DEF r

\* The bound MaxCalls is never felt: a walk that may make more calls inside each
\* other than that comes to the same.  It stands for the call stack of scan_one,
\* scan_items and scan_pairs, which has no bound of its own.
THEOREM MaxCallsSuffice ==
    ASSUME NEW s \in Seq(Byte), NEW fmt, NEW max \in Nat, NEW n \in Nat, MaxCalls(s) <= n
    PROVE  Walks(s, fmt, max)[n][CallOne(0, 0)] = Walks(s, fmt, max)[MaxCalls(s)][CallOne(0, 0)]
<1> DEFINE fails == {"eof", "bad"}
           L == Len(s)
<1>1. Agree(s, s, L, fails, fmt)
  BY AgreeWithItself
<1>2. Settled(Outcome(s, fmt, max), L, fails)
  BY OutcomeIsSettled
<1> HIDE DEF fails, L
<1>3. Walks(s, fmt, max)[n][CallOne(0, 0)] = Outcome(s, fmt, max)
  BY <1>1, <1>2, OutcomeReached
<1> QED
  BY <1>3 DEF Outcome

\* What is settled of one input is what the scan of the other comes to.
LEMMA OutcomesAgree ==
    ASSUME NEW u \in Seq(Byte), NEW v \in Seq(Byte), NEW L, NEW fails, NEW fmt,
           NEW max \in Nat, Agree(u, v, L, fails, fmt),
           Settled(Outcome(u, fmt, max), L, fails)
    PROVE  Outcome(v, fmt, max) = Outcome(u, fmt, max)
<1> DEFINE m == MaxCalls(u) + MaxCalls(v)
<1>1. MaxCalls(u) \in Nat /\ MaxCalls(v) \in Nat
  BY DEF MaxCalls
<1>2. m \in Nat /\ MaxCalls(u) <= m /\ MaxCalls(v) <= m
  BY <1>1
<1> HIDE DEF m
<1>3. Walks(v, fmt, max)[m][CallOne(0, 0)] = Outcome(u, fmt, max)
  BY <1>2, OutcomeReached
<1>4. Walks(v, fmt, max)[m][CallOne(0, 0)] = Outcome(v, fmt, max)
  BY <1>2, MaxCallsSuffice DEF Outcome
<1> QED
  BY <1>3, <1>4

-----------------------------------------------------------------------------
(* The verdicts. *)

\* The verdict and the outcome say the same.
LEMMA VerdictMeans ==
    ASSUME NEW s, NEW r
    PROVE  LET verdict == VerdictOf(s, r)
           IN  /\ verdict.kind \in {"complete", "incomplete", "error"}
               /\ verdict.kind = "complete" <=> ~Failed(r)
               /\ verdict.kind = "error" <=> r.kind = "bad"
               /\ verdict.len = IF Failed(r) THEN 0 ELSE r.at
               /\ verdict = [kind |-> verdict.kind, len |-> verdict.len]
  BY DEF VerdictOf, Failed

\* Whatever the bytes are, the scanner answers, and a value it finds is a
\* non-empty part of the input.
THEOREM VerdictInRange ==
    ASSUME NEW s \in Seq(Byte), NEW fmt, NEW max \in Nat
    PROVE  LET verdict == ScanValue(s, fmt, max)
           IN  /\ verdict \in [kind : {"complete", "incomplete", "error"}, len : Nat]
               /\ verdict.kind = "complete" => verdict.len \in 1..Len(s)
<1> DEFINE r == Outcome(s, fmt, max)
           verdict == ScanValue(s, fmt, max)
<1>1. ~Failed(r) => r.at \in 1..Len(s)
  BY OutcomeInRange
<1>2. verdict = VerdictOf(s, r)
  BY ScanValueIs
<1> HIDE DEF r, verdict
<1>3. /\ verdict.kind \in {"complete", "incomplete", "error"}
      /\ verdict.kind = "complete" <=> ~Failed(r)
      /\ verdict.len = IF Failed(r) THEN 0 ELSE r.at
      /\ verdict = [kind |-> verdict.kind, len |-> verdict.len]
  BY <1>2, VerdictMeans
<1>4. verdict.len \in Nat
  BY <1>1, <1>3
<1>5. verdict \in [kind : {"complete", "incomplete", "error"}, len : Nat]
  BY <1>3, <1>4
<1>6. verdict.kind = "complete" => verdict.len \in 1..Len(s)
  BY <1>1, <1>3
<1> QED
  BY <1>5, <1>6 DEF verdict

\* A value that ends in front of a byte the inputs share, or with the second
\* input, is found in both.
LEMMA VerdictsAgree ==
    ASSUME NEW u \in Seq(Byte), NEW v \in Seq(Byte), NEW M, Shares(u, v, M), NEW fmt,
           NEW max \in Nat, ScanValue(u, fmt, max).kind = "complete",
           LET n == ScanValue(u, fmt, max).len IN n < M \/ (n = M /\ M = Len(v))
    PROVE  ScanValue(v, fmt, max) = ScanValue(u, fmt, max)
<1> DEFINE r == Outcome(u, fmt, max)
           L == ScanValue(u, fmt, max).len
<1>1. ~Failed(r) /\ L = r.at
  BY ScanValueIs, VerdictMeans
<1>2. r.at \in 1..Len(u)
  BY <1>1, OutcomeInRange
<1>3. L \in Nat /\ (L < M \/ (L = M /\ M = Len(v))) /\ M \in Nat
  BY <1>1, <1>2 DEF Shares
<1>4. Settled(r, L, {})
  BY <1>1, <1>2 DEF Settled
<1> HIDE DEF L
<1>5. Settles(u, v, M, L) /\ L <= M
  BY <1>3 DEF Settles
<1>6. Agree(u, v, L, {}, fmt)
  BY <1>3, <1>5, PrefixesAgree
<1>7. Outcome(v, fmt, max) = r
  BY <1>4, <1>6, OutcomesAgree
<1>8. ScanValue(v, fmt, max) = VerdictOf(v, r) /\ ScanValue(u, fmt, max) = VerdictOf(u, r)
  BY <1>7, ScanValueIs
<1> QED
  BY <1>8 DEF VerdictOf

\* In binary, an input that goes on behind a malformed value is malformed too.
LEMMA BinaryErrorsAgree ==
    ASSUME NEW u \in Seq(Byte), NEW v \in Seq(Byte), NEW M, Shares(u, v, M), M = Len(u),
           NEW max \in Nat, ScanValue(u, "Binary", max).kind = "error"
    PROVE  ScanValue(v, "Binary", max).kind = "error"
<1> DEFINE r == Outcome(u, "Binary", max)
           fails == {"bad"}
<1>1. r.kind = "bad"
  BY ScanValueIs, VerdictMeans
<1>2. Settled(r, M, fails)
  BY <1>1 DEF Settled, Failed
<1>3. Agree(u, v, M, fails, "Binary")
  BY BinaryPrefixesAgree
<1> HIDE DEF fails
<1>4. Outcome(v, "Binary", max) = r
  BY <1>2, <1>3, OutcomesAgree
<1> QED
  BY <1>1, <1>4, ScanValueIs, VerdictMeans

\* Two stretches of a stream from the same place on share the shorter one.
LEMMA StretchesShare ==
    ASSUME NEW s \in Seq(Byte), NEW i \in 1..Len(s), NEW j \in 0..Len(s), NEW k \in j..Len(s),
           i <= j + 1
    PROVE  LET u == SubSeq(s, i, j)
               v == SubSeq(s, i, k)
           IN  /\ u \in Seq(Byte) /\ v \in Seq(Byte)
               /\ Len(u) = j + 1 - i /\ Len(v) = k + 1 - i
               /\ Shares(u, v, j + 1 - i) /\ Shares(v, u, j + 1 - i)
<1> DEFINE u == SubSeq(s, i, j)
           v == SubSeq(s, i, k)
           M == j + 1 - i
<1>1. Len(s) \in Nat /\ M \in Nat /\ k + 1 - i \in Nat /\ M <= k + 1 - i
  OBVIOUS
<1>2. u \in Seq(Byte) /\ v \in Seq(Byte) /\ Len(u) = M /\ Len(v) = k + 1 - i
  BY <1>1
<1>3. ASSUME NEW r \in 0..(M - 1) PROVE At(u, r) = At(v, r)
  <2> DEFINE o == r + 1
  <2>1. o \in 1..M /\ o \in 1..(k + 1 - i)
    BY <1>1
  <2> HIDE DEF o
  <2>2. u[o] = s[i + o - 1] /\ v[o] = s[i + o - 1]
    BY <2>1
  <2> QED
    BY <2>2 DEF At, o
<1> HIDE DEF u, v, M
<1>4. Shares(u, v, M)
  BY <1>1, <1>2, <1>3 DEF Shares
<1>5. Shares(v, u, M)
  BY <1>1, <1>2, <1>3 DEF Shares
<1> QED
  BY <1>2, <1>4, <1>5 DEF u, v, M

\* A record shares its bytes with the input it is found in.
LEMMA RecordShares ==
    ASSUME NEW s \in Seq(Byte), NEW n \in 1..Len(s)
    PROVE  LET v == SubSeq(s, 1, n)
           IN  v \in Seq(Byte) /\ Len(v) = n /\ Shares(s, v, n)
<1> DEFINE v == SubSeq(s, 1, n)
<1>1. Len(s) \in Nat /\ v \in Seq(Byte) /\ Len(v) = n
  OBVIOUS
<1>2. ASSUME NEW r \in 0..(n - 1) PROVE At(s, r) = At(v, r)
  <2> DEFINE o == r + 1
  <2>1. o \in 1..n
    OBVIOUS
  <2> HIDE DEF o
  <2>2. v[o] = s[o]
    BY <2>1
  <2> QED
    BY <2>2 DEF At, o
<1> HIDE DEF v
<1>3. Shares(s, v, n)
  BY <1>1, <1>2 DEF Shares
<1> QED
  BY <1>1, <1>3 DEF v

-----------------------------------------------------------------------------
(***************************************************************************)
(* What the framers assume of a scanner: it holds of this one for every    *)
(* stream of bytes, but for ErrorsStay, which holds in binary.             *)
(***************************************************************************)
CONSTANTS
    Streams, DEFAULT_MAX_DEPTH, Depths    \* as in Records

Framed == INSTANCE Records WITH Scan <- ScanValue

StreamsOf(f) == Streams[f] \subseteq Seq(Byte) /\ Framed!Limits \subseteq Nat

\* Whatever part of a stream a framer holds, the answer is one it can use: a
\* record that is found is not empty and lies in that part.
THEOREM ScannerAnswersInRange ==
    ASSUME NEW f \in Formats, StreamsOf(f)
    PROVE  Framed!AnswersInRange(f)
<1> SUFFICES ASSUME NEW d \in Framed!Limits, NEW s \in Streams[f], NEW i \in 1..Len(s),
                    NEW j \in i..Len(s)
             PROVE  LET v == ScanValue(SubSeq(s, i, j), f, d)
                    IN  /\ v \in Framed!Verdict
                        /\ v.kind = "complete" => v.len \in 1..(j + 1 - i)
  BY DEF Framed!AnswersInRange
<1> DEFINE u == SubSeq(s, i, j)
           v == ScanValue(u, f, d)
<1>1. s \in Seq(Byte) /\ d \in Nat
  BY DEF StreamsOf
<1>2. u \in Seq(Byte) /\ Len(u) = j + 1 - i
  BY <1>1
<1> HIDE DEF u
<1>3. /\ v \in [kind : {"complete", "incomplete", "error"}, len : Nat]
      /\ v.kind = "complete" => v.len \in 1..Len(u)
  BY <1>1, <1>2, VerdictInRange
<1> QED
  BY <1>2, <1>3 DEF u, Framed!Verdict

\* The length of a record is settled once a byte follows it: more bytes leave it
\* as it is, and it is found as soon as that byte has arrived.
THEOREM ScannerLengthsSettle ==
    ASSUME NEW f \in Formats, StreamsOf(f)
    PROVE  Framed!LengthsSettle(f)
<1> SUFFICES ASSUME NEW d \in Framed!Limits, NEW s \in Streams[f], NEW t \in Framed!Stretches(s)
             PROVE  LET short == ScanValue(SubSeq(s, t[1], t[2]), f, d)
                        long  == ScanValue(SubSeq(s, t[1], t[3]), f, d)
                        length == t[2] + 1 - t[1]
                    IN  /\ short.kind = "complete" /\ short.len < length => long = short
                        /\ long.kind = "complete" /\ long.len < length => short = long
  BY DEF Framed!LengthsSettle
<1> DEFINE i == t[1]
           j == t[2]
           k == t[3]
           u == SubSeq(s, i, j)
           v == SubSeq(s, i, k)
           M == j + 1 - i
<1>1. s \in Seq(Byte) /\ d \in Nat
  BY DEF StreamsOf
<1>2. i \in 1..Len(s) /\ j \in 1..Len(s) /\ k \in 1..Len(s) /\ i <= j /\ j <= k
  BY DEF Framed!Stretches
<1> HIDE DEF i, j, k
<1>3. j \in 0..Len(s) /\ k \in j..Len(s) /\ i <= j + 1
  BY <1>1, <1>2
<1>4. u \in Seq(Byte) /\ v \in Seq(Byte) /\ Shares(u, v, M) /\ Shares(v, u, M)
  BY <1>1, <1>2, <1>3, StretchesShare
<1> HIDE DEF u, v, M
<1>5. (ScanValue(u, f, d).kind = "complete" /\ ScanValue(u, f, d).len < M)
         => ScanValue(v, f, d) = ScanValue(u, f, d)
  BY <1>1, <1>4, VerdictsAgree
<1>6. (ScanValue(v, f, d).kind = "complete" /\ ScanValue(v, f, d).len < M)
         => ScanValue(u, f, d) = ScanValue(v, f, d)
  BY <1>1, <1>4, VerdictsAgree
<1> QED
  BY <1>5, <1>6 DEF u, v, M, i, j, k

\* A record that is found is found when its bytes are scanned alone: what a
\* framer hands out is one complete value, to the byte.
THEOREM ScannerFindsRecordAlone ==
    ASSUME NEW s \in Seq(Byte), NEW fmt, NEW max \in Nat,
           ScanValue(s, fmt, max).kind = "complete"
    PROVE  LET n == ScanValue(s, fmt, max).len
           IN  ScanValue(SubSeq(s, 1, n), fmt, max) = [kind |-> "complete", len |-> n]
<1> DEFINE verdict == ScanValue(s, fmt, max)
           n == verdict.len
           v == SubSeq(s, 1, n)
<1>1. verdict = [kind |-> "complete", len |-> n] /\ n \in 1..Len(s)
  <2>1. verdict \in [kind : {"complete", "incomplete", "error"}, len : Nat]
    BY VerdictInRange
  <2>2. n \in 1..Len(s)
    BY VerdictInRange
  <2> QED
    BY <2>1, <2>2
<1>2. verdict.kind = "complete" /\ (verdict.len < n \/ (verdict.len = n /\ n = n))
  OBVIOUS
<1> HIDE DEF n
<1>3. v \in Seq(Byte) /\ Len(v) = n /\ Shares(s, v, n)
  BY <1>1, RecordShares
<1> HIDE DEF v
<1>4. ScanValue(v, fmt, max) = verdict
  BY <1>2, <1>3, VerdictsAgree
<1> QED
  BY <1>1, <1>4 DEF n, v

\* In binary, no more bytes make a malformed record a good one.
THEOREM BinaryScannerErrorsStay ==
    ASSUME StreamsOf("Binary")
    PROVE  Framed!ErrorsStay("Binary")
<1> SUFFICES ASSUME NEW d \in Framed!Limits, NEW s \in Streams["Binary"],
                    NEW t \in Framed!Stretches(s),
                    ScanValue(SubSeq(s, t[1], t[2]), "Binary", d).kind = "error"
             PROVE  ScanValue(SubSeq(s, t[1], t[3]), "Binary", d).kind = "error"
  BY DEF Framed!ErrorsStay
<1> DEFINE i == t[1]
           j == t[2]
           k == t[3]
           u == SubSeq(s, i, j)
           v == SubSeq(s, i, k)
           M == j + 1 - i
<1>1. s \in Seq(Byte) /\ d \in Nat
  BY DEF StreamsOf
<1>2. i \in 1..Len(s) /\ j \in 1..Len(s) /\ k \in 1..Len(s) /\ i <= j /\ j <= k
  BY DEF Framed!Stretches
<1>3. ScanValue(u, "Binary", d).kind = "error"
  OBVIOUS
<1> HIDE DEF i, j, k
<1>4. j \in 0..Len(s) /\ k \in j..Len(s) /\ i <= j + 1
  BY <1>1, <1>2
<1>5. u \in Seq(Byte) /\ v \in Seq(Byte) /\ Shares(u, v, M) /\ M = Len(u)
  BY <1>1, <1>2, <1>4, StretchesShare
<1> HIDE DEF u, v, M
<1>6. ScanValue(v, "Binary", d).kind = "error"
  BY <1>1, <1>3, <1>5, BinaryErrorsAgree
<1> QED
  BY <1>6 DEF v, i, k

-----------------------------------------------------------------------------
(* The buffer that grows byte by byte. *)

BufferInv ==
    /\ alphabet \in Alphabets
    /\ input \in Seq(Byte)
    /\ scanned = Scan(input)

\* The invariant of the growing buffer: it holds bytes, and the last verdict is
\* about them.
LEMMA BufferInvInit == Init => BufferInv
  BY DEF Init, BufferInv

\* It is inductive.
LEMMA BufferInvStep == BufferInv /\ [Next]_vars => BufferInv'
<1> SUFFICES ASSUME BufferInv, [Next]_vars PROVE BufferInv'
  OBVIOUS
<1>1. CASE Arrive
  <2>1. alphabet' = alphabet /\ scanned' = Scan(input')
    BY <1>1 DEF Arrive
  <2>2. PICK b \in alphabet.bytes : input' = Append(input, b)
    BY <1>1 DEF Arrive
  <2>3. b \in Byte
    BY <2>2, InputAssumption DEF BufferInv
  <2>4. input' \in Seq(Byte)
    BY <2>2, <2>3 DEF BufferInv
  <2> QED
    BY <2>1, <2>4 DEF BufferInv, Scan
<1>2. CASE UNCHANGED vars
  BY <1>2 DEF BufferInv, vars, Scan
<1> QED
  BY <1>1, <1>2 DEF Next

\* It is an invariant.
LEMMA BufferInvHolds == Spec => []BufferInv
<1> QED
  BY BufferInvInit, BufferInvStep, PTL DEF Spec

\* The byte that arrives leaves those in front of it as they are.
LEMMA ArrivalShares ==
    ASSUME BufferInv, BufferInv', Arrive
    PROVE  /\ alphabet' = alphabet
           /\ Shares(input, input', Len(input)) /\ Shares(input', input, Len(input))
<1>1. PICK b \in alphabet.bytes : input' = Append(input, b)
  BY DEF Arrive
<1> DEFINE M == Len(input)
<1>2. M \in Nat /\ Len(input') = M + 1
  BY <1>1 DEF BufferInv
<1>3. ASSUME NEW r \in 0..(M - 1) PROVE At(input, r) = At(input', r)
  <2> DEFINE o == r + 1
  <2>1. o \in 1..M
    BY <1>2
  <2> HIDE DEF o
  <2>2. input'[o] = input[o]
    BY <1>1, <2>1 DEF BufferInv
  <2> QED
    BY <2>2 DEF At, o
<1> QED
  BY <1>2, <1>3 DEF Shares, Arrive

\* Once a byte follows a complete value its length is settled, whatever arrives
\* later.
THEOREM LengthIsSettledHolds == Spec => LengthIsSettled
<1> DEFINE A == (scanned.kind = "complete" /\ scanned.len < Len(input)) => scanned' = scanned
<1>1. ASSUME BufferInv, BufferInv', [Next]_vars PROVE [A]_vars
  <2>1. CASE Arrive
    <3> SUFFICES ASSUME scanned.kind = "complete", scanned.len < Len(input)
                 PROVE  scanned' = scanned
      OBVIOUS
    <3> DEFINE M == Len(input)
               f == alphabet.format
    <3>1. /\ alphabet' = alphabet /\ Shares(input, input', M)
      BY <1>1, <2>1, ArrivalShares
    <3>2. scanned = ScanValue(input, f, MaxDepth) /\ scanned' = ScanValue(input', f, MaxDepth)
      BY <1>1, <3>1 DEF BufferInv, Scan
    <3>3. input \in Seq(Byte) /\ input' \in Seq(Byte) /\ MaxDepth \in Nat
      BY <1>1, InputAssumption DEF BufferInv
    <3> DEFINE u == input
               v == input'
    <3>4. ScanValue(u, f, MaxDepth).kind = "complete" /\ ScanValue(u, f, MaxDepth).len < M
      BY <3>2
    <3>5. u \in Seq(Byte) /\ v \in Seq(Byte) /\ Shares(u, v, M)
      BY <3>1, <3>3
    <3> HIDE DEF u, v, M, f
    <3>6. ScanValue(v, f, MaxDepth) = ScanValue(u, f, MaxDepth)
      BY <3>3, <3>4, <3>5, VerdictsAgree
    <3> QED
      BY <3>2, <3>6 DEF u, v
  <2>2. CASE UNCHANGED vars
    BY <2>2
  <2> QED
    BY <1>1, <2>1, <2>2 DEF Next
<1> QED
  BY <1>1, BufferInvHolds, PTL DEF Spec, LengthIsSettled

\* A value that is found with more than one byte behind it was found as soon as
\* the first of them had arrived.
THEOREM FoundInTimeHolds == Spec => FoundInTime
<1> DEFINE A == (scanned'.kind = "complete" /\ scanned'.len < Len(input)) => scanned = scanned'
<1>1. ASSUME BufferInv, BufferInv', [Next]_vars PROVE [A]_vars
  <2>1. CASE Arrive
    <3> SUFFICES ASSUME scanned'.kind = "complete", scanned'.len < Len(input)
                 PROVE  scanned = scanned'
      OBVIOUS
    <3> DEFINE M == Len(input)
               f == alphabet.format
    <3>1. /\ alphabet' = alphabet /\ Shares(input', input, M)
      BY <1>1, <2>1, ArrivalShares
    <3>2. scanned = ScanValue(input, f, MaxDepth) /\ scanned' = ScanValue(input', f, MaxDepth)
      BY <1>1, <3>1 DEF BufferInv, Scan
    <3>3. input \in Seq(Byte) /\ input' \in Seq(Byte) /\ MaxDepth \in Nat
      BY <1>1, InputAssumption DEF BufferInv
    <3> DEFINE u == input'
               v == input
    <3>4. ScanValue(u, f, MaxDepth).kind = "complete" /\ ScanValue(u, f, MaxDepth).len < M
      BY <3>2
    <3>5. u \in Seq(Byte) /\ v \in Seq(Byte) /\ Shares(u, v, M)
      BY <3>1, <3>3
    <3> HIDE DEF u, v, M, f
    <3>6. ScanValue(v, f, MaxDepth) = ScanValue(u, f, MaxDepth)
      BY <3>3, <3>4, <3>5, VerdictsAgree
    <3> QED
      BY <3>2, <3>6 DEF u, v
  <2>2. CASE UNCHANGED vars
    BY <2>2
  <2> QED
    BY <1>1, <2>1, <2>2 DEF Next
<1> QED
  BY <1>1, BufferInvHolds, PTL DEF Spec, FoundInTime

\* In binary, a malformed value stays malformed: no further input is waited for.
THEOREM BinaryErrorIsNotShortHolds == Spec => BinaryErrorIsNotShort
<1> DEFINE A == (alphabet.format = "Binary" /\ scanned.kind = "error")
                   => scanned'.kind = "error"
<1>1. ASSUME BufferInv, BufferInv', [Next]_vars PROVE [A]_vars
  <2>1. CASE Arrive
    <3> SUFFICES ASSUME alphabet.format = "Binary", scanned.kind = "error"
                 PROVE  scanned'.kind = "error"
      OBVIOUS
    <3> DEFINE M == Len(input)
    <3>1. /\ alphabet' = alphabet /\ Shares(input, input', M)
      BY <1>1, <2>1, ArrivalShares
    <3>2. /\ scanned = ScanValue(input, "Binary", MaxDepth)
          /\ scanned' = ScanValue(input', "Binary", MaxDepth)
      BY <1>1, <3>1 DEF BufferInv, Scan
    <3>3. input \in Seq(Byte) /\ input' \in Seq(Byte) /\ MaxDepth \in Nat
      BY <1>1, InputAssumption DEF BufferInv
    <3> DEFINE u == input
               v == input'
    <3>4. ScanValue(u, "Binary", MaxDepth).kind = "error"
      BY <3>2
    <3>5. u \in Seq(Byte) /\ v \in Seq(Byte) /\ Shares(u, v, M) /\ M = Len(u)
      BY <3>1, <3>3
    <3> HIDE DEF u, v, M
    <3>6. ScanValue(v, "Binary", MaxDepth).kind = "error"
      BY <3>3, <3>4, <3>5, BinaryErrorsAgree
    <3> QED
      BY <3>2, <3>6 DEF v
  <2>2. CASE UNCHANGED vars
    BY <2>2 DEF vars
  <2> QED
    BY <1>1, <2>1, <2>2 DEF Next
<1> QED
  BY <1>1, BufferInvHolds, PTL DEF Spec, BinaryErrorIsNotShort

-----------------------------------------------------------------------------
(***************************************************************************)
(* The reader against the scanner: what a call of the reader comes to      *)
(* reaches what the same call of the scanner comes to when it ends in the  *)
(* same place or fails in the same way, or fails for an escape.            *)
(***************************************************************************)
Reaches(r, z, escapes) ==
    \/ escapes /\ Failed(r)
    \/ Failed(z) /\ r.kind = z.kind
    \/ ~Failed(z) /\ ~Failed(r) /\ r.at = z.at

Rejects(s, fmt) == fmt = "Text" /\ HasBadEscape(s)

\* The reader's token is the scanner's, with a value.
LEMMA NextTokenIs ==
    ASSUME NEW s \in Seq(Byte), NEW p \in 0..Len(s), NEW fmt \in Formats
    PROVE  LET r == NextToken(s, p, fmt)
               z == SkipToken(s, p, fmt)
           IN  \/ Rejects(s, fmt) /\ Failed(r) /\ ~Failed(z)
               \/ Failed(z) /\ r = z
               \/ ~Failed(z) /\ ~Failed(r) /\ r.kind = z.kind /\ r.at = z.at
<1> DEFINE q == Meaningful(s, p, fmt)
           z == SkipToken(s, p, fmt)
           r == NextToken(s, p, fmt)
           body == DecodeEscapes(Slice(s, q + 1, z.at - 1))
           binary == Token(z.kind, z.at, BinaryNode(z.kind, s, q, z.at))
           quoted == Token("String", z.at, String(body.value))
           text == Token(z.kind, z.at, TextNode(z.kind, Slice(s, q, z.at)))
           isQuoted == fmt = "Text" /\ z.kind \in Scalars /\ At(s, q) = QUOTE
<1>1. /\ Failed(z) => r = z
      /\ (~Failed(z) /\ z.kind \notin Scalars) => r = z
      /\ (~Failed(z) /\ z.kind \in Scalars /\ fmt = "Binary") => r = binary
      /\ (~Failed(z) /\ isQuoted /\ Failed(body)) => r = body
      /\ (~Failed(z) /\ isQuoted /\ ~Failed(body)) => r = quoted
      /\ (~Failed(z) /\ z.kind \in Scalars /\ fmt = "Text" /\ ~isQuoted) => r = text
  BY DEF NextToken, Then
<1>2. /\ binary.kind = z.kind /\ binary.at = z.at
      /\ quoted.kind = "String" /\ quoted.at = z.at
      /\ text.kind = z.kind /\ text.at = z.at
  BY DEF Token
<1>3. q \in p..Len(s) /\ Len(s) \in Nat /\ (~Failed(z) => q < Len(s))
  BY MeaningfulInRange, SkipTokenInRange
<1>4. (~Failed(z) /\ isQuoted) => z = ClosingQuote(s, q + 1) /\ z.kind = "String"
  <2> SUFFICES ASSUME ~Failed(z), isQuoted
               PROVE  z = ClosingQuote(s, q + 1) /\ z.kind = "String"
    OBVIOUS
  <2>1. Inside(s, q)
    BY <1>3 DEF Inside
  <2>2. z = TextToken(s, q)
    BY <2>1 DEF SkipToken
  <2>3. z = ClosingQuote(s, q + 1)
    BY <2>2, TextTokenDispatches
  <2> DEFINE o == q + 1
  <2>4. o \in 0..(Len(s) + 1)
    BY <1>3
  <2> HIDE DEF z, q, o
  <2>5. \/ ClosingQuote(s, o) = Eof
        \/ \E e \in (o + 1)..Len(s) : ClosingQuote(s, o) = Found("String", e)
    BY <1>3, <2>4, ClosingQuoteInRange
  <2>6. z = ClosingQuote(s, o)
    BY <2>3 DEF o
  <2>7. ClosingQuote(s, o) # Eof
    BY <2>6 DEF Failed, Eof
  <2>8. PICK e \in (o + 1)..Len(s) : ClosingQuote(s, o) = Found("String", e)
    BY <2>5, <2>7
  <2>9. z.kind = "String"
    BY <2>6, <2>8 DEF Found
  <2> QED
    BY <2>3, <2>9
<1> HIDE DEF z, r, binary, quoted, text, q
<1>5. CASE ~Failed(z) /\ isQuoted /\ Failed(body)
  <2>1. HasBadEscape(s)
    <3>1. q \in 0..(Len(s) - 1) /\ At(s, q) = QUOTE
      BY <1>3, <1>5
    <3>2. ~Failed(ClosingQuote(s, q + 1))
      BY <1>4, <1>5
    <3>3. Failed(DecodeEscapes(Slice(s, q + 1, ClosingQuote(s, q + 1).at - 1)))
      BY <1>4, <1>5
    <3> QED
      BY <3>1, <3>2, <3>3 DEF HasBadEscape
  <2>2. Rejects(s, fmt) /\ Failed(r)
    BY <1>1, <1>5, <2>1 DEF Rejects
  <2> QED
    BY <1>5, <2>2 DEF r, z
<1>6. CASE Failed(z)
  BY <1>1, <1>6 DEF r, z
<1>7. CASE ~Failed(z) /\ ~(isQuoted /\ Failed(body))
  <2>1. r = z \/ (r.kind = z.kind /\ r.at = z.at)
    BY <1>1, <1>2, <1>4, <1>7 DEF Formats
  <2>2. r.kind = z.kind /\ r.at = z.at
    BY <2>1
  <2>3. ~Failed(r)
    BY <1>7, <2>2 DEF Failed
  <2> QED
    BY <1>7, <2>2, <2>3 DEF r, z
<1> QED
  BY <1>5, <1>6, <1>7

-----------------------------------------------------------------------------
(* The walk of the reader. *)

\* The code of a call says what it comes to.
LEMMA ReadsUnfold ==
    ASSUME NEW s, NEW fmt, NEW max
    PROVE  LET w == Reads(s, fmt, max)
           IN  /\ \A c \in Call : w[0][c] = Eof
               /\ \A n \in Nat : \A c \in Call :
                     w[n + 1][c] = ReadCall(w[n], s, fmt, max, c)
<1> DEFINE w == Reads(s, fmt, max)
           Solves(f) == f = [n \in Nat |-> [c \in Call |->
                              IF n = 0 THEN Eof ELSE ReadCall(f[n - 1], s, fmt, max, c)]]
<1>1. PICK f : AllWalks("reader", f, s, fmt, max)
  BY AllWalksExist
<1>2. Solves(f)
  <2>1. f[0] = [c \in Call |-> IF 0 = 0 THEN Eof ELSE ReadCall(f[0 - 1], s, fmt, max, c)]
    BY <1>1 DEF AllWalks, NoCalls
  <2>2. ASSUME NEW n \in Nat, n # 0
        PROVE  f[n] = [c \in Call |->
                          IF n = 0 THEN Eof ELSE ReadCall(f[n - 1], s, fmt, max, c)]
    <3> DEFINE k == n - 1
    <3>1. k \in Nat /\ k + 1 = n
      BY <2>2
    <3> HIDE DEF k
    <3>2. f[k + 1] = Deeper("reader", f[k], s, fmt, max)
      BY <1>1, <3>1 DEF AllWalks
    <3>3. f[n] = [c \in Call |-> ReadCall(f[k], s, fmt, max, c)]
      BY <3>1, <3>2 DEF Deeper, Turn
    <3> QED
      BY <2>2, <3>3 DEF k
  <2>3. f = [n \in Nat |-> f[n]]
    BY <1>1 DEF AllWalks
  <2>4. \A n \in Nat :
          f[n] = [c \in Call |-> IF n = 0 THEN Eof ELSE ReadCall(f[n - 1], s, fmt, max, c)]
    BY <2>1, <2>2
  <2> QED
    BY <2>3, <2>4
<1>3. w = CHOOSE h : Solves(h)
  BY DEF Reads
<1>4. Solves(w)
  BY <1>2, <1>3
<1> HIDE DEF w
<1>5. w[0] = [c \in Call |-> Eof]
  BY <1>4
<1>6. ASSUME NEW n \in Nat PROVE w[n + 1] = [c \in Call |-> ReadCall(w[n], s, fmt, max, c)]
  <2> DEFINE m == n + 1
  <2>1. m \in Nat /\ m # 0 /\ m - 1 = n
    OBVIOUS
  <2> HIDE DEF m
  <2>2. w[m] = [c \in Call |-> IF m = 0 THEN Eof ELSE ReadCall(w[m - 1], s, fmt, max, c)]
    BY <1>4, <2>1
  <2>3. w[m] = [c \in Call |-> ReadCall(w[m - 1], s, fmt, max, c)]
    BY <2>1, <2>2
  <2> QED
    BY <2>1, <2>3 DEF m
<1>7. \A n \in Nat : \A c \in Call : w[n + 1][c] = ReadCall(w[n], s, fmt, max, c)
  BY <1>6
<1> QED
  BY <1>5, <1>7 DEF w

\* A call that may not be made fails.
LEMMA NoReadsFail ==
    ASSUME NEW s, NEW fmt, NEW max, NEW p \in Nat, NEW depth \in Nat, NEW w,
           w = Reads(s, fmt, max)[0]
    PROVE  /\ w[CallOne(p, depth)] = Eof
           /\ w[CallItems(p, depth)] = Eof
           /\ \A end \in Ends : w[CallPairs(p, end, depth)] = Eof
<1>1. \A c \in Call : w[c] = Eof
  BY ReadsUnfold
<1>2. CallOne(p, depth) \in Call /\ CallItems(p, depth) \in Call
  BY DEF CallOne, CallItems, Call, Byte, RBRACK
<1>3. \A end \in Ends : CallPairs(p, end, depth) \in Call
  BY DEF CallPairs, Call, Byte, Ends, RBRACE, GT
<1> QED
  BY <1>1, <1>2, <1>3

\* A call that may be made is one of the three functions of the code.
LEMMA ReadCallsUnfold ==
    ASSUME NEW s, NEW fmt, NEW max, NEW p \in Nat, NEW depth \in Nat, NEW n \in Nat,
           NEW w, w = Reads(s, fmt, max)[n], NEW x, x = Reads(s, fmt, max)[n + 1]
    PROVE  /\ x[CallOne(p, depth)] = ReadValueAt(w, s, p, fmt, depth, max)
           /\ x[CallItems(p, depth)] = ReadItems(w, s, p, fmt, depth, max)
           /\ \A end \in Ends :
                 x[CallPairs(p, end, depth)] = ReadPairs(w, s, p, fmt, end, depth, max)
<1> DEFINE one == CallOne(p, depth)
           items == CallItems(p, depth)
           pairs(end) == CallPairs(p, end, depth)
<1>1. one \in Call /\ one.of = "one" /\ one.at = p /\ one.depth = depth
  BY DEF CallOne, Call, Byte
<1>2. items \in Call /\ items.of = "items" /\ items.at = p /\ items.depth = depth
  BY DEF CallItems, Call, Byte, RBRACK
<1>3. ASSUME NEW end \in Ends
      PROVE  /\ pairs(end) \in Call /\ pairs(end).of = "pairs" /\ pairs(end).at = p
             /\ pairs(end).depth = depth /\ pairs(end).end = end
  BY DEF CallPairs, Call, Byte, Ends, RBRACE, GT
<1>4. \A c \in Call : x[c] = ReadCall(w, s, fmt, max, c)
  BY ReadsUnfold
<1> HIDE DEF one, items, pairs
<1>5. x[one] = ReadValueAt(w, s, p, fmt, depth, max)
  BY <1>1, <1>4 DEF ReadCall
<1>6. x[items] = ReadItems(w, s, p, fmt, depth, max)
  BY <1>2, <1>4 DEF ReadCall
<1>7. ASSUME NEW end \in Ends
      PROVE  x[pairs(end)] = ReadPairs(w, s, p, fmt, end, depth, max)
  BY <1>3, <1>4 DEF ReadCall
<1> QED
  BY <1>5, <1>6, <1>7 DEF one, items, pairs

\* A node is the token, a failure of its own, or a list or a map that holds what
\* the call for it comes to.
LEMMA ReadNodeSteps ==
    ASSUME NEW w, NEW s, NEW p, NEW fmt, NEW depth
    PROVE  LET token == NextToken(s, p, fmt)
               r == ReadNode(w, s, p, fmt, depth)
               items == w[CallItems(token.at, depth + 1)]
               entries == w[CallPairs(token.at, RBRACE, depth + 1)]
           IN  /\ Failed(token) => r = token
               /\ ~Failed(token) =>
                    /\ token.kind \in Scalars => r = token
                    /\ token.kind = "BeginList" =>
                         r = IF Failed(items) THEN items
                             ELSE Token("List", items.at, List(items.value))
                    /\ token.kind = "BeginMap" =>
                         r = IF Failed(entries) THEN entries
                             ELSE Token("Map", entries.at, Map(entries.value))
                    /\ token.kind \notin Scalars \cup {"BeginList", "BeginMap"} => r = Bad
  BY DEF ReadNode, Then, Scalars

\* ... of the scanner.
LEMMA ScanNodeIs ==
    ASSUME NEW w, NEW s, NEW p, NEW fmt, NEW depth
    PROVE  LET token == SkipToken(s, p, fmt)
               r == ScanNode(w, s, p, fmt, depth)
           IN  /\ Failed(token) => r = token
               /\ ~Failed(token) =>
                    /\ token.kind \in Scalars => r = Found("Value", token.at)
                    /\ token.kind = "BeginList" => r = w[CallItems(token.at, depth + 1)]
                    /\ token.kind = "BeginMap" => r = w[CallPairs(token.at, RBRACE, depth + 1)]
                    /\ token.kind \notin Scalars \cup {"BeginList", "BeginMap"} => r = Bad
  BY DEF ScanNode, Then, Scalars

\* A turn of the loop of a list.
LEMMA ReadItemsSteps ==
    ASSUME NEW w, NEW s, NEW p, NEW fmt, NEW depth \in Nat, NEW max \in Nat
    PROVE  LET r == ReadItems(w, s, p, fmt, depth, max)
               close == PeekIs(s, p, fmt, RBRACK)
               semi == PeekIs(s, p, fmt, SEMI)
               item == w[CallOne(p, depth)]
               rest == w[CallItems(item.at, depth)]
           IN  /\ depth > max => r = Bad
               /\ (depth <= max /\ close) => r = Got("Items", Behind(s, p, fmt), <<>>)
               /\ (depth <= max /\ ~close /\ semi) => r = w[CallItems(Behind(s, p, fmt), depth)]
               /\ (depth <= max /\ ~close /\ ~semi) =>
                    r = IF Failed(item) THEN item
                        ELSE IF Failed(rest) THEN rest
                        ELSE WithItem(item, rest)
  BY DEF ReadItems, Then, PeekIs, RBRACK, SEMI

\* What the last turn of the loop of a map comes to.
EntryMade(key, equals, value, rest) ==
    IF Failed(key) THEN key
    ELSE IF Failed(equals) THEN equals
    ELSE IF Failed(value) THEN value
    ELSE IF Failed(rest) THEN rest
    ELSE WithEntry(key, value, rest)

\* A turn of the loop of a map.
LEMMA ReadPairsSteps ==
    ASSUME NEW w, NEW s, NEW p, NEW fmt, NEW end \in Ends, NEW depth \in Nat, NEW max \in Nat
    PROVE  LET r == ReadPairs(w, s, p, fmt, end, depth, max)
               close == PeekIs(s, p, fmt, end)
               semi == PeekIs(s, p, fmt, SEMI)
               key == Expect("String", NextToken(s, p, fmt))
               equals == Expect("KeyValueSeparator", NextToken(s, key.at, fmt))
               value == w[CallOne(equals.at, depth)]
               rest == w[CallPairs(value.at, end, depth)]
           IN  /\ depth > max => r = Bad
               /\ (depth <= max /\ close) => r = Got("Pairs", Behind(s, p, fmt), Empty)
               /\ (depth <= max /\ ~close /\ semi) =>
                    r = w[CallPairs(Behind(s, p, fmt), end, depth)]
               /\ (depth <= max /\ ~close /\ ~semi) => r = EntryMade(key, equals, value, rest)
<1> DEFINE r == ReadPairs(w, s, p, fmt, end, depth, max)
           i == Behind(s, p, fmt)
           close == PeekIs(s, p, fmt, end)
           semi == PeekIs(s, p, fmt, SEMI)
           key == Expect("String", NextToken(s, p, fmt))
           equals == Expect("KeyValueSeparator", NextToken(s, key.at, fmt))
           value == w[CallOne(equals.at, depth)]
           rest == w[CallPairs(value.at, end, depth)]
           made == EntryMade(key, equals, value, rest)
<1>1. r = CASE depth > max -> Bad
            [] depth <= max /\ close -> Got("Pairs", i, Empty)
            [] depth <= max /\ semi -> w[CallPairs(i, end, depth)]
            [] OTHER -> made
  BY Zenon DEF ReadPairs, Then, EntryMade
<1>2. end # SEMI /\ (close /\ semi => end = SEMI)
  BY DEF Ends, RBRACE, GT, SEMI, PeekIs
<1> HIDE DEF r, i, close, semi, made
<1>3. /\ depth > max => r = Bad
      /\ (depth <= max /\ close) => r = Got("Pairs", i, Empty)
      /\ (depth <= max /\ ~close /\ semi) => r = w[CallPairs(i, end, depth)]
      /\ (depth <= max /\ ~close /\ ~semi) => r = made
  BY <1>1, <1>2
<1> QED
  BY <1>3 DEF r, i, close, semi, made

\* An item or an entry in front of others ends where they end.
LEMMA WithEnds ==
    ASSUME NEW first, NEW key, NEW rest
    PROVE  /\ WithItem(first, rest).at = rest.at /\ ~Failed(WithItem(first, rest))
           /\ WithEntry(key, first, rest).at = rest.at /\ ~Failed(WithEntry(key, first, rest))
  BY DEF WithItem, WithEntry, Got, Failed

\* A value with its attributes.
LEMMA ReadValueSteps ==
    ASSUME NEW w, NEW s, NEW p, NEW fmt, NEW depth, NEW max
    PROVE  LET r == ReadValueAt(w, s, p, fmt, depth, max)
               angle == PeekIs(s, p, fmt, LT)
               plain == ReadNode(w, s, p, fmt, depth)
               attributes == w[CallPairs(Behind(s, p, fmt), GT, depth + 1)]
               body == ReadNode(w, s, attributes.at, fmt, depth)
           IN  /\ depth > max => r = Bad
               /\ (~(depth > max) /\ ~angle) =>
                    r = IF Failed(plain) THEN plain ELSE Got("Value", plain.at, Plain(plain.node))
               /\ (~(depth > max) /\ angle) =>
                    r = IF Failed(attributes) THEN attributes
                        ELSE IF Failed(body) THEN body
                        ELSE Got("Value", body.at,
                                 Attributed(Some(attributes.value), body.node))
  BY DEF ReadValueAt, Then
-----------------------------------------------------------------------------
(***************************************************************************)
(* A walk of the reader and one of the scanner, over the same input: each  *)
(* call of the one reaches what the same call of the other comes to.       *)
(***************************************************************************)
Follow(w, x, s, escapes) ==
    \A p \in 0..Len(s), depth \in Nat :
        /\ Reaches(w[CallOne(p, depth)], x[CallOne(p, depth)], escapes)
        /\ Reaches(w[CallItems(p, depth)], x[CallItems(p, depth)], escapes)
        /\ \A end \in Ends :
              Reaches(w[CallPairs(p, end, depth)], x[CallPairs(p, end, depth)], escapes)

Pair(w, x, s, fmt, max) ==
    /\ Progress(x, s, fmt, max)
    /\ Follow(w, x, s, Rejects(s, fmt))

\* What is made of a result reaches what it reached.
LEMMA ReachesStill ==
    ASSUME NEW r, NEW z, NEW escapes, Reaches(r, z, escapes), NEW y, NEW e,
           y = (IF Failed(r) THEN r ELSE e), ~Failed(r) => ~Failed(e) /\ e.at = r.at
    PROVE  Reaches(y, z, escapes)
<1>1. CASE Failed(r)
  BY <1>1
<1>2. CASE ~Failed(r)
  <2>1. ~Failed(z) /\ r.at = z.at
    BY <1>2 DEF Reaches, Failed
  <2> QED
    BY <1>2, <2>1 DEF Reaches
<1> QED
  BY <1>1, <1>2

\* A token of the kind that is expected, or none, in both.
LEMMA ExpectedReaches ==
    ASSUME NEW s \in Seq(Byte), NEW p \in 0..Len(s), NEW fmt \in Formats, NEW kind
    PROVE  LET r == Expect(kind, NextToken(s, p, fmt))
               z == Expect(kind, SkipToken(s, p, fmt))
           IN  \/ Rejects(s, fmt) /\ Failed(r)
               \/ Failed(z) /\ r = z
               \/ /\ ~Failed(z) /\ ~Failed(r) /\ r.at = z.at
                  /\ r = NextToken(s, p, fmt) /\ z = SkipToken(s, p, fmt)
<1> DEFINE a == NextToken(s, p, fmt)
           b == SkipToken(s, p, fmt)
<1>1. \/ Rejects(s, fmt) /\ Failed(a) /\ ~Failed(b)
      \/ Failed(b) /\ a = b
      \/ ~Failed(b) /\ ~Failed(a) /\ a.kind = b.kind /\ a.at = b.at
  BY NextTokenIs
<1> HIDE DEF a, b
<1>2. /\ Expect(kind, a) = IF Failed(a) \/ a.kind = kind THEN a ELSE Bad
      /\ Expect(kind, b) = IF Failed(b) \/ b.kind = kind THEN b ELSE Bad
  BY DEF Expect
<1>3. Failed(Bad)
  BY DEF Failed, Bad
<1> QED
  BY <1>1, <1>2, <1>3 DEF a, b

\* ... of a node.
LEMMA NodeReaches ==
    ASSUME NEW s \in Seq(Byte), NEW fmt \in Formats, NEW max \in Nat, NEW w, NEW x,
           Pair(w, x, s, fmt, max), NEW p \in 0..Len(s), NEW depth \in Nat
    PROVE  Reaches(ReadNode(w, s, p, fmt, depth), ScanNode(x, s, p, fmt, depth), Rejects(s, fmt))
<1> DEFINE r == ReadNode(w, s, p, fmt, depth)
           z == ScanNode(x, s, p, fmt, depth)
           a == NextToken(s, p, fmt)
           b == SkipToken(s, p, fmt)
           escapes == Rejects(s, fmt)
           e == depth + 1
           items(i) == w[CallItems(i, e)]
           entries(i) == w[CallPairs(i, RBRACE, e)]
<1>1. \/ escapes /\ Failed(a) /\ ~Failed(b)
      \/ Failed(b) /\ a = b
      \/ ~Failed(b) /\ ~Failed(a) /\ a.kind = b.kind /\ a.at = b.at
  BY NextTokenIs
<1>2. /\ Failed(a) => r = a
      /\ ~Failed(a) =>
           /\ a.kind \in Scalars => r = a
           /\ a.kind = "BeginList" =>
                r = IF Failed(items(a.at)) THEN items(a.at)
                    ELSE Token("List", items(a.at).at, List(items(a.at).value))
           /\ a.kind = "BeginMap" =>
                r = IF Failed(entries(a.at)) THEN entries(a.at)
                    ELSE Token("Map", entries(a.at).at, Map(entries(a.at).value))
           /\ a.kind \notin Scalars \cup {"BeginList", "BeginMap"} => r = Bad
  BY ReadNodeSteps
<1>3. /\ Failed(b) => z = b
      /\ ~Failed(b) =>
           /\ b.kind \in Scalars => z = Found("Value", b.at)
           /\ b.kind = "BeginList" => z = x[CallItems(b.at, e)]
           /\ b.kind = "BeginMap" => z = x[CallPairs(b.at, RBRACE, e)]
           /\ b.kind \notin Scalars \cup {"BeginList", "BeginMap"} => z = Bad
  BY ScanNodeIs
<1>4. Meaningful(s, p, fmt) \in p..Len(s) /\ Len(s) \in Nat
  BY MeaningfulInRange
<1>5. ~Failed(b) => b.at \in (Meaningful(s, p, fmt) + 1)..Len(s)
  BY SkipTokenInRange
<1>6. ~Failed(b) => b.at \in 0..Len(s)
  BY <1>4, <1>5
<1>7. e \in Nat
  OBVIOUS
<1>8. \A i \in 0..Len(s) : /\ Reaches(items(i), x[CallItems(i, e)], escapes)
                           /\ Reaches(entries(i), x[CallPairs(i, RBRACE, e)], escapes)
  BY <1>7 DEF Pair, Follow, Ends
<1>9. \A kind, i, node : Token(kind, i, node).at = i /\ Token(kind, i, node).kind = kind
  BY DEF Token
<1>10. Found("Value", b.at).at = b.at /\ ~Failed(Found("Value", b.at))
  BY DEF Found, Failed
<1> HIDE DEF r, z, a, b, escapes, e, items, entries
<1>11. CASE Failed(a)
  BY <1>1, <1>2, <1>3, <1>11 DEF Reaches, r, z, escapes
<1>12. CASE ~Failed(a)
  <2>1. ~Failed(b) /\ a.kind = b.kind /\ a.at = b.at /\ a.at \in 0..Len(s)
    BY <1>1, <1>6, <1>12
  <2>2. CASE a.kind \in Scalars
    <3>1. r = a /\ z = Found("Value", b.at)
      BY <1>2, <1>3, <1>12, <2>1, <2>2
    <3> QED
      BY <1>10, <1>12, <2>1, <3>1 DEF Reaches, r, z
  <2>3. CASE a.kind = "BeginList"
    <3> DEFINE i == a.at
               list == Token("List", items(i).at, List(items(i).value))
    <3>1. /\ r = IF Failed(items(i)) THEN items(i) ELSE list
          /\ z = x[CallItems(i, e)]
      BY <1>2, <1>3, <1>12, <2>1, <2>3
    <3>2. Reaches(items(i), x[CallItems(i, e)], escapes)
      BY <1>8, <2>1
    <3>3. list.at = items(i).at /\ ~Failed(list)
      BY <1>9 DEF Failed
    <3> HIDE DEF i, list
    <3>4. Reaches(r, z, escapes)
      BY <3>1, <3>2, <3>3, ReachesStill
    <3> QED
      BY <3>4 DEF r, z, escapes
  <2>4. CASE a.kind = "BeginMap"
    <3> DEFINE i == a.at
               map == Token("Map", entries(i).at, Map(entries(i).value))
    <3>1. /\ r = IF Failed(entries(i)) THEN entries(i) ELSE map
          /\ z = x[CallPairs(i, RBRACE, e)]
      BY <1>2, <1>3, <1>12, <2>1, <2>4
    <3>2. Reaches(entries(i), x[CallPairs(i, RBRACE, e)], escapes)
      BY <1>8, <2>1
    <3>3. map.at = entries(i).at /\ ~Failed(map)
      BY <1>9 DEF Failed
    <3> HIDE DEF i, map
    <3>4. Reaches(r, z, escapes)
      BY <3>1, <3>2, <3>3, ReachesStill
    <3> QED
      BY <3>4 DEF r, z, escapes
  <2>5. CASE a.kind \notin Scalars \cup {"BeginList", "BeginMap"}
    <3>1. r = Bad /\ z = Bad
      BY <1>2, <1>3, <1>12, <2>1, <2>5
    <3> QED
      BY <3>1 DEF Reaches, Bad, Failed, r, z
  <2> QED
    BY <2>2, <2>3, <2>4, <2>5
<1> QED
  BY <1>11, <1>12
\* ... of a value with its attributes.
LEMMA OneReaches ==
    ASSUME NEW s \in Seq(Byte), NEW fmt \in Formats, NEW max \in Nat, NEW w, NEW x,
           Pair(w, x, s, fmt, max), NEW p \in 0..Len(s), NEW depth \in Nat
    PROVE  Reaches(ReadValueAt(w, s, p, fmt, depth, max), ScanOne(x, s, p, fmt, depth, max),
                   Rejects(s, fmt))
<1> DEFINE r == ReadValueAt(w, s, p, fmt, depth, max)
           z == ScanOne(x, s, p, fmt, depth, max)
           escapes == Rejects(s, fmt)
           i == Behind(s, p, fmt)
           e == depth + 1
           angle == PeekIs(s, p, fmt, LT)
           attributes == w[CallPairs(i, GT, e)]
           theirs == x[CallPairs(i, GT, e)]
           plain == ReadNode(w, s, p, fmt, depth)
           body == ReadNode(w, s, attributes.at, fmt, depth)
           whole(node) == Got("Value", node.at, Plain(node.node))
           both == Got("Value", body.at, Attributed(Some(attributes.value), body.node))
<1>1. /\ depth > max => r = Bad
      /\ (~(depth > max) /\ ~angle) => r = IF Failed(plain) THEN plain ELSE whole(plain)
      /\ (~(depth > max) /\ angle) =>
           r = IF Failed(attributes) THEN attributes ELSE IF Failed(body) THEN body ELSE both
  BY ReadValueSteps
<1>2. /\ depth > max => z = Bad
      /\ (~(depth > max) /\ ~angle) => z = ScanNode(x, s, p, fmt, depth)
      /\ (~(depth > max) /\ angle) =>
           z = IF Failed(theirs) THEN theirs ELSE ScanNode(x, s, theirs.at, fmt, depth)
  BY DEF ScanOne, Then
<1>3. angle => i \in (Meaningful(s, p, fmt) + 1)..Len(s) /\ i \in 0..Len(s)
  BY PeekedIsInside
<1>4. e \in Nat /\ Len(s) \in Nat
  OBVIOUS
<1>5. \A node : whole(node).at = node.at /\ ~Failed(whole(node))
  BY DEF Got, Failed
<1>6. both.at = body.at /\ ~Failed(both)
  BY DEF Got, Failed
<1> HIDE DEF r, z, i, e, angle, whole, both, escapes
<1>7. CASE depth > max
  BY <1>1, <1>2, <1>7 DEF Reaches, Bad, Failed, r, z
<1>8. CASE ~(depth > max) /\ ~angle
  <2>1. Reaches(plain, ScanNode(x, s, p, fmt, depth), escapes)
    BY NodeReaches DEF escapes
  <2> HIDE DEF plain
  <2>2. Reaches(r, z, escapes)
    BY <1>1, <1>2, <1>5, <1>8, <2>1, ReachesStill
  <2> QED
    BY <2>2 DEF r, z, escapes
<1>9. CASE ~(depth > max) /\ angle
  <2>1. Reaches(attributes, theirs, escapes) /\ Advances(theirs, s, i, fmt)
    BY <1>3, <1>4, <1>9, ProgressMeans DEF Pair, Follow, Ends, escapes
  <2>2. CASE Failed(attributes)
    <3>1. r = attributes
      BY <1>1, <1>9, <2>2
    <3> HIDE DEF attributes, theirs
    <3>2. Reaches(r, z, escapes)
      BY <1>2, <1>9, <2>1, <2>2, <3>1 DEF Reaches
    <3> QED
      BY <3>2 DEF r, z, escapes
  <2>3. CASE ~Failed(attributes)
    <3> DEFINE j == attributes.at
    <3>1. ~Failed(theirs) /\ theirs.at = j
      BY <2>1, <2>3 DEF Reaches, Failed
    <3>2. theirs.at \in (Meaningful(s, i, fmt) + 1)..Len(s)
      BY <2>1, <3>1 DEF Advances
    <3>3. i \in 0..Len(s)
      BY <1>3, <1>9
    <3>4. Meaningful(s, i, fmt) \in i..Len(s)
      BY <3>3, MeaningfulInRange
    <3>5. j \in 0..Len(s)
      BY <1>4, <3>1, <3>2, <3>3, <3>4
    <3>6. Reaches(body, ScanNode(x, s, j, fmt, depth), escapes)
      BY <3>5, NodeReaches DEF escapes
    <3>7. /\ r = IF Failed(body) THEN body ELSE both
          /\ z = ScanNode(x, s, j, fmt, depth)
      BY <1>1, <1>2, <1>9, <2>3, <3>1
    <3> HIDE DEF j, body, attributes, theirs
    <3>8. Reaches(r, z, escapes)
      BY <1>6, <3>6, <3>7, ReachesStill
    <3> QED
      BY <3>8 DEF r, z, escapes
  <2> QED
    BY <2>2, <2>3
<1> QED
  BY <1>7, <1>8, <1>9

\* ... of a list.
LEMMA ItemsReaches ==
    ASSUME NEW s \in Seq(Byte), NEW fmt \in Formats, NEW max \in Nat, NEW w, NEW x,
           Pair(w, x, s, fmt, max), NEW p \in 0..Len(s), NEW depth \in Nat
    PROVE  Reaches(ReadItems(w, s, p, fmt, depth, max), ScanItems(x, s, p, fmt, depth, max),
                   Rejects(s, fmt))
<1> DEFINE r == ReadItems(w, s, p, fmt, depth, max)
           z == ScanItems(x, s, p, fmt, depth, max)
           escapes == Rejects(s, fmt)
           i == Behind(s, p, fmt)
           close == PeekIs(s, p, fmt, RBRACK)
           semi == PeekIs(s, p, fmt, SEMI)
           item == w[CallOne(p, depth)]
           theirs == x[CallOne(p, depth)]
           rest == w[CallItems(item.at, depth)]
<1>1. /\ depth > max => r = Bad
      /\ (depth <= max /\ close) => r = Got("Items", i, <<>>)
      /\ (depth <= max /\ ~close /\ semi) => r = w[CallItems(i, depth)]
      /\ (depth <= max /\ ~close /\ ~semi) =>
           r = IF Failed(item) THEN item ELSE IF Failed(rest) THEN rest ELSE WithItem(item, rest)
  BY DEF ReadItems, Then, PeekIs, RBRACK, SEMI
<1>2. /\ depth > max => z = Bad
      /\ (depth <= max /\ close) => z = Found("Value", i)
      /\ (depth <= max /\ ~close /\ semi) => z = x[CallItems(i, depth)]
      /\ (depth <= max /\ ~close /\ ~semi) =>
           z = IF Failed(theirs) THEN theirs ELSE x[CallItems(theirs.at, depth)]
  BY DEF ScanItems, Then, PeekIs, RBRACK, SEMI
<1>3. semi => i \in 0..Len(s)
  BY PeekedIsInside
<1>4. \A j \in 0..Len(s) : Reaches(w[CallItems(j, depth)], x[CallItems(j, depth)], escapes)
  BY DEF Pair, Follow
<1>5. Reaches(item, theirs, escapes)
  BY DEF Pair, Follow
<1>6. Advances(theirs, s, p, fmt)
  BY ProgressMeans DEF Pair
<1>7. Meaningful(s, p, fmt) \in p..Len(s) /\ Len(s) \in Nat
  BY MeaningfulInRange
<1>8. /\ Got("Items", i, <<>>).at = i /\ ~Failed(Got("Items", i, <<>>))
      /\ Found("Value", i).at = i /\ ~Failed(Found("Value", i))
  BY DEF Got, Found, Failed
<1>9. WithItem(item, rest).at = rest.at /\ ~Failed(WithItem(item, rest))
  BY WithEnds
<1> HIDE DEF r, z, i, close, semi, item, theirs, escapes
<1>10. CASE depth > max
  BY <1>1, <1>2, <1>10 DEF Reaches, Bad, Failed, r, z
<1>11. CASE depth <= max /\ close
  <2>1. Reaches(r, z, escapes)
    BY <1>1, <1>2, <1>8, <1>11 DEF Reaches
  <2> QED
    BY <2>1 DEF r, z, escapes
<1>12. CASE depth <= max /\ ~close /\ semi
  <2>1. Reaches(r, z, escapes)
    BY <1>1, <1>2, <1>3, <1>4, <1>12
  <2> QED
    BY <2>1 DEF r, z, escapes
<1>13. CASE depth <= max /\ ~close /\ ~semi
  <2>1. CASE Failed(item)
    <3>1. r = item
      BY <1>1, <1>13, <2>1
    <3>2. Reaches(r, z, escapes)
      BY <1>2, <1>5, <1>13, <2>1, <3>1 DEF Reaches
    <3> QED
      BY <3>2 DEF r, z, escapes
  <2>2. CASE ~Failed(item)
    <3> DEFINE j == item.at
    <3>1. ~Failed(theirs) /\ theirs.at = j
      BY <1>5, <2>2 DEF Reaches, Failed
    <3>2. theirs.at \in (Meaningful(s, p, fmt) + 1)..Len(s)
      BY <1>6, <3>1 DEF Advances
    <3>3. j \in 0..Len(s)
      BY <1>7, <3>1, <3>2
    <3>4. /\ r = IF Failed(rest) THEN rest ELSE WithItem(item, rest)
          /\ z = x[CallItems(j, depth)]
      BY <1>1, <1>2, <1>13, <2>2, <3>1
    <3>5. Reaches(rest, x[CallItems(j, depth)], escapes)
      BY <1>4, <3>3
    <3> HIDE DEF j, rest
    <3>6. Reaches(r, z, escapes)
      BY <1>9, <3>4, <3>5, ReachesStill
    <3> QED
      BY <3>6 DEF r, z, escapes
  <2> QED
    BY <2>1, <2>2
<1> QED
  BY <1>10, <1>11, <1>12, <1>13

\* ... of a map.
LEMMA PairsReaches ==
    ASSUME NEW s \in Seq(Byte), NEW fmt \in Formats, NEW max \in Nat, NEW w, NEW x,
           Pair(w, x, s, fmt, max), NEW p \in 0..Len(s), NEW end \in Ends, NEW depth \in Nat
    PROVE  Reaches(ReadPairs(w, s, p, fmt, end, depth, max),
                   ScanPairs(x, s, p, fmt, end, depth, max), Rejects(s, fmt))
<1> DEFINE r == ReadPairs(w, s, p, fmt, end, depth, max)
           z == ScanPairs(x, s, p, fmt, end, depth, max)
           escapes == Rejects(s, fmt)
           i == Behind(s, p, fmt)
           close == PeekIs(s, p, fmt, end)
           semi == PeekIs(s, p, fmt, SEMI)
           key == Expect("String", NextToken(s, p, fmt))
           equals == Expect("KeyValueSeparator", NextToken(s, key.at, fmt))
           value == w[CallOne(equals.at, depth)]
           rest == w[CallPairs(value.at, end, depth)]
           entry == WithEntry(key, value, rest)
           key2 == Expect("String", SkipToken(s, p, fmt))
           equals2 == Expect("KeyValueSeparator", SkipToken(s, key2.at, fmt))
           value2 == x[CallOne(equals2.at, depth)]
<1>1. /\ depth > max => r = Bad
      /\ (depth <= max /\ close) => r = Got("Pairs", i, Empty)
      /\ (depth <= max /\ ~close /\ semi) => r = w[CallPairs(i, end, depth)]
      /\ (depth <= max /\ ~close /\ ~semi) =>
           r = EntryMade(key, equals, value, rest)
  <2>1. /\ r = ReadPairs(w, s, p, fmt, end, depth, max) /\ i = Behind(s, p, fmt)
        /\ close = PeekIs(s, p, fmt, end) /\ semi = PeekIs(s, p, fmt, SEMI)
        /\ key = Expect("String", NextToken(s, p, fmt))
        /\ equals = Expect("KeyValueSeparator", NextToken(s, key.at, fmt))
        /\ value = w[CallOne(equals.at, depth)] /\ rest = w[CallPairs(value.at, end, depth)]
    OBVIOUS
  <2> HIDE DEF r, z, escapes, i, close, semi, key, equals, value, rest, entry, key2, equals2,
               value2
  <2> QED
    BY <2>1, ReadPairsSteps
<1>2. /\ depth > max => z = Bad
      /\ (depth <= max /\ close) => z = Found("Value", i)
      /\ (depth <= max /\ ~close /\ semi) => z = x[CallPairs(i, end, depth)]
      /\ (depth <= max /\ ~close /\ ~semi) =>
           z = IF Failed(key2) THEN key2
               ELSE IF Failed(equals2) THEN equals2
               ELSE IF Failed(value2) THEN value2
               ELSE x[CallPairs(value2.at, end, depth)]
  <2>1. /\ z = ScanPairs(x, s, p, fmt, end, depth, max) /\ i = Behind(s, p, fmt)
        /\ close = PeekIs(s, p, fmt, end) /\ semi = PeekIs(s, p, fmt, SEMI)
        /\ key2 = Expect("String", SkipToken(s, p, fmt))
        /\ equals2 = Expect("KeyValueSeparator", SkipToken(s, key2.at, fmt))
        /\ value2 = x[CallOne(equals2.at, depth)]
    OBVIOUS
  <2> HIDE DEF r, z, escapes, i, close, semi, key, equals, value, rest, entry, key2, equals2,
               value2
  <2> QED
    BY <2>1, ScanPairsSteps
<1>3. semi => i \in 0..Len(s)
  BY PeekedIsInside
<1>4. \A j \in 0..Len(s) :
        /\ Reaches(w[CallPairs(j, end, depth)], x[CallPairs(j, end, depth)], escapes)
        /\ Reaches(w[CallOne(j, depth)], x[CallOne(j, depth)], escapes)
        /\ Advances(x[CallOne(j, depth)], s, j, fmt)
  BY ProgressMeans DEF Pair, Follow
<1>5. \/ escapes /\ Failed(key)
      \/ Failed(key2) /\ key = key2
      \/ ~Failed(key2) /\ ~Failed(key) /\ key.at = key2.at /\ key2 = SkipToken(s, p, fmt)
  BY ExpectedReaches
<1>6. Len(s) \in Nat /\ \A j \in 0..Len(s) : Meaningful(s, j, fmt) \in j..Len(s)
  BY MeaningfulInRange
<1>7. \A j \in 0..Len(s) :
        ~Failed(SkipToken(s, j, fmt)) =>
           SkipToken(s, j, fmt).at \in (Meaningful(s, j, fmt) + 1)..Len(s)
  BY SkipTokenInRange
<1>8. /\ Got("Pairs", i, Empty).at = i /\ ~Failed(Got("Pairs", i, Empty))
      /\ Found("Value", i).at = i /\ ~Failed(Found("Value", i))
  BY DEF Got, Found, Failed
<1>14. Len(s) \in Nat
  OBVIOUS
<1>9. entry.at = rest.at /\ ~Failed(entry)
  <2>1. entry = WithEntry(key, value, rest)
    OBVIOUS
  <2> HIDE DEF entry, key, value, rest
  <2> QED
    BY <2>1, WithEnds
<1> HIDE DEF r, z, i, close, semi, key, equals, value, rest, entry, key2, equals2, value2, escapes
<1>10. CASE depth > max
  <2>1. Reaches(r, z, escapes)
    BY <1>1, <1>2, <1>10 DEF Reaches, Bad, Failed
  <2> QED
    BY <2>1 DEF r, z, escapes
<1>11. CASE depth <= max /\ close
  <2>1. Reaches(r, z, escapes)
    BY <1>1, <1>2, <1>8, <1>11 DEF Reaches
  <2> QED
    BY <2>1 DEF r, z, escapes
<1>12. CASE depth <= max /\ ~close /\ semi
  <2>1. Reaches(r, z, escapes)
    BY <1>1, <1>2, <1>3, <1>4, <1>12
  <2> QED
    BY <2>1 DEF r, z, escapes
<1>13. CASE depth <= max /\ ~close /\ ~semi
  <2>1. /\ r = IF Failed(key) THEN key
               ELSE IF Failed(equals) THEN equals
               ELSE IF Failed(value) THEN value
               ELSE IF Failed(rest) THEN rest ELSE entry
        /\ z = IF Failed(key2) THEN key2
               ELSE IF Failed(equals2) THEN equals2
               ELSE IF Failed(value2) THEN value2
               ELSE x[CallPairs(value2.at, end, depth)]
    BY <1>1, <1>2, <1>13 DEF EntryMade, entry
  <2>2. CASE Failed(key)
    <3>1. Reaches(r, z, escapes)
      BY <1>5, <2>1, <2>2 DEF Reaches
    <3> QED
      BY <3>1 DEF r, z, escapes
  <2>3. CASE ~Failed(key)
    <3> DEFINE a == key.at
    <3>1. ~Failed(key2) /\ key2.at = a /\ key2 = SkipToken(s, p, fmt)
      BY <1>5, <2>3
    <3>2. key2.at \in (Meaningful(s, p, fmt) + 1)..Len(s)
      BY <1>7, <3>1
    <3>3. a \in 0..Len(s)
      BY <1>6, <3>1, <3>2
    <3>4. equals = Expect("KeyValueSeparator", NextToken(s, a, fmt))
      BY DEF equals
    <3>5. equals2 = Expect("KeyValueSeparator", SkipToken(s, a, fmt))
      BY <3>1 DEF equals2
    <3> HIDE DEF a
    <3>6. \/ escapes /\ Failed(equals)
          \/ Failed(equals2) /\ equals = equals2
          \/ /\ ~Failed(equals2) /\ ~Failed(equals) /\ equals.at = equals2.at
             /\ equals2 = SkipToken(s, a, fmt)
      BY <3>3, <3>4, <3>5, ExpectedReaches DEF escapes
    <3>7. CASE Failed(equals)
      <4>1. Reaches(r, z, escapes)
        BY <2>1, <2>3, <3>1, <3>6, <3>7 DEF Reaches
      <4> QED
        BY <4>1 DEF r, z, escapes
    <3>8. CASE ~Failed(equals)
      <4> DEFINE b == equals.at
      <4>1. ~Failed(equals2) /\ equals2.at = b /\ equals2 = SkipToken(s, a, fmt)
        BY <3>6, <3>8
      <4>2. equals2.at \in (Meaningful(s, a, fmt) + 1)..Len(s)
        BY <1>7, <3>3, <4>1
      <4>3. b \in 0..Len(s)
        <5>1. Meaningful(s, a, fmt) \in a..Len(s)
          BY <1>6, <3>3
        <5>2. equals2.at \in 0..Len(s)
          BY <1>14, <3>3, <4>2, <5>1
        <5> QED
          BY <4>1, <5>2
      <4>4. value = w[CallOne(b, depth)] /\ value2 = x[CallOne(b, depth)]
        BY <4>1 DEF value, value2
      <4> HIDE DEF b
      <4>5. Reaches(value, value2, escapes) /\ Advances(value2, s, b, fmt)
        BY <1>4, <4>3, <4>4
      <4>6. CASE Failed(value)
        <5>1. Reaches(r, z, escapes)
          BY <2>1, <2>3, <3>1, <3>8, <4>1, <4>5, <4>6 DEF Reaches
        <5> QED
          BY <5>1 DEF r, z, escapes
      <4>7. CASE ~Failed(value)
        <5> DEFINE c == value.at
        <5>1. ~Failed(value2) /\ value2.at = c
          BY <4>5, <4>7 DEF Reaches, Failed
        <5>2. value2.at \in (Meaningful(s, b, fmt) + 1)..Len(s)
          BY <4>5, <5>1 DEF Advances
        <5>3. c \in 0..Len(s)
          <6>1. Meaningful(s, b, fmt) \in b..Len(s)
            BY <1>6, <4>3
          <6>2. value2.at \in 0..Len(s)
            BY <1>14, <4>3, <5>2, <6>1
          <6> QED
            BY <5>1, <6>2
        <5>4. rest = w[CallPairs(c, end, depth)]
          BY DEF rest
        <5> HIDE DEF c
        <5>5. /\ r = IF Failed(rest) THEN rest ELSE entry
              /\ z = x[CallPairs(c, end, depth)]
          BY <2>1, <2>3, <3>1, <3>8, <4>1, <4>7, <5>1
        <5>6. Reaches(rest, x[CallPairs(c, end, depth)], escapes)
          BY <1>4, <5>3, <5>4
        <5>7. Reaches(r, z, escapes)
          BY <1>9, <5>5, <5>6, ReachesStill
        <5> QED
          BY <5>7 DEF r, z, escapes
      <4> QED
        BY <4>6, <4>7
    <3> QED
      BY <3>7, <3>8
  <2> QED
    BY <2>2, <2>3
<1> QED
  BY <1>10, <1>11, <1>12, <1>13

\* With the same number of calls inside each other, the reader follows the
\* scanner.
LEMMA ReadsFollow ==
    ASSUME NEW s \in Seq(Byte), NEW fmt \in Formats, NEW max \in Nat
    PROVE  \A n \in Nat :
              Follow(Reads(s, fmt, max)[n], Walks(s, fmt, max)[n], s, Rejects(s, fmt))
<1> DEFINE escapes == Rejects(s, fmt)
           X == {n \in Nat : Follow(Reads(s, fmt, max)[n], Walks(s, fmt, max)[n], s, escapes)}
<1>1. 0 \in X
  <2> DEFINE w == Reads(s, fmt, max)[0]
             x == Walks(s, fmt, max)[0]
  <2>1. ASSUME NEW p \in 0..Len(s), NEW depth \in Nat
        PROVE  /\ w[CallOne(p, depth)] = Eof /\ x[CallOne(p, depth)] = Eof
               /\ w[CallItems(p, depth)] = Eof /\ x[CallItems(p, depth)] = Eof
               /\ \A end \in Ends :
                     w[CallPairs(p, end, depth)] = Eof /\ x[CallPairs(p, end, depth)] = Eof
    <3>1. p \in Nat
      OBVIOUS
    <3> HIDE DEF w, x
    <3> QED
      BY <3>1, NoReadsFail, NoCallsFail DEF w, x
  <2>2. Reaches(Eof, Eof, escapes)
    BY DEF Reaches, Failed, Eof
  <2> HIDE DEF w, x, escapes
  <2>3. Follow(w, x, s, escapes)
    BY <2>1, <2>2 DEF Follow
  <2> QED
    BY <2>3 DEF w, x
<1>2. ASSUME NEW n \in Nat, n \in X PROVE n + 1 \in X
  <2> DEFINE w == Reads(s, fmt, max)[n]
             x == Walks(s, fmt, max)[n]
             w2 == Reads(s, fmt, max)[n + 1]
             x2 == Walks(s, fmt, max)[n + 1]
  <2>1. Progress(x, s, fmt, max)
    BY WalksProgress
  <2>2. Follow(w, x, s, Rejects(s, fmt))
    BY <1>2
  <2> HIDE DEF w, x, w2, x2, escapes
  <2>3. Pair(w, x, s, fmt, max)
    BY <2>1, <2>2 DEF Pair
  <2>4. ASSUME NEW p \in 0..Len(s), NEW depth \in Nat
        PROVE  /\ w2[CallOne(p, depth)] = ReadValueAt(w, s, p, fmt, depth, max)
               /\ w2[CallItems(p, depth)] = ReadItems(w, s, p, fmt, depth, max)
               /\ \A end \in Ends :
                     w2[CallPairs(p, end, depth)] = ReadPairs(w, s, p, fmt, end, depth, max)
    BY ReadCallsUnfold DEF w, w2
  <2>5. ASSUME NEW p \in 0..Len(s), NEW depth \in Nat
        PROVE  /\ x2[CallOne(p, depth)] = ScanOne(x, s, p, fmt, depth, max)
               /\ x2[CallItems(p, depth)] = ScanItems(x, s, p, fmt, depth, max)
               /\ \A end \in Ends :
                     x2[CallPairs(p, end, depth)] = ScanPairs(x, s, p, fmt, end, depth, max)
    BY CallsUnfold DEF x, x2
  <2>6. ASSUME NEW p \in 0..Len(s), NEW depth \in Nat
        PROVE  /\ Reaches(w2[CallOne(p, depth)], x2[CallOne(p, depth)], escapes)
               /\ Reaches(w2[CallItems(p, depth)], x2[CallItems(p, depth)], escapes)
               /\ \A end \in Ends :
                     Reaches(w2[CallPairs(p, end, depth)], x2[CallPairs(p, end, depth)], escapes)
    BY <2>3, <2>4, <2>5, OneReaches, ItemsReaches, PairsReaches DEF escapes
  <2>7. Follow(w2, x2, s, escapes)
    BY <2>6 DEF Follow
  <2> QED
    BY <2>7 DEF w2, x2
<1> HIDE DEF X
<1>3. \A n \in Nat : n \in X
  BY <1>1, <1>2, Induct
<1> QED
  BY <1>3 DEF X, escapes

-----------------------------------------------------------------------------
(* The whole of an input. *)

\* What is read is a value, and a failure has no other kind than the scanner's.
LEMMA ReadIsValue ==
    ASSUME NEW s \in Seq(Byte), NEW fmt \in Formats, NEW max \in Nat
    PROVE  LET r == ReadValue(s, fmt, max) IN Failed(r) \/ r.kind = "Value"
<1> DEFINE n == MaxCalls(s) - 1
           w == Reads(s, fmt, max)[n]
           x == Reads(s, fmt, max)[n + 1]
           r == x[CallOne(0, 0)]
<1>1. n \in Nat /\ n + 1 = MaxCalls(s) /\ 0 \in Nat
  BY DEF MaxCalls
<1>2. r = ReadValue(s, fmt, max)
  BY <1>1 DEF ReadValue
<1> HIDE DEF n
<1>3. r = ReadValueAt(w, s, 0, fmt, 0, max)
  BY <1>1, ReadCallsUnfold
<1> HIDE DEF w, x, r
<1>4. Failed(r) \/ r.kind = "Value"
  BY <1>3 DEF ReadValueAt, Then, Got, Failed, Bad
<1> QED
  BY <1>2, <1>4

\* The value reader accepts what the scanner finds, at the same depth, with the
\* same end, and it tells an input that is short from one that is malformed the
\* way the scanner does, whatever the input is.  Only an escape that makes no
\* sense may be in its way.
THEOREM ReaderAgreesWithScanner ==
    ASSUME NEW s \in Seq(Byte), NEW fmt \in Formats, NEW max \in Nat
    PROVE  LET read == ReadValue(s, fmt, max)
               verdict == ScanValue(s, fmt, max)
           IN  \/ Rejects(s, fmt) /\ Failed(read)
               \/ verdict.kind = "complete" /\ Extent(read) = Found("Value", verdict.len)
               \/ verdict.kind = "incomplete" /\ read.kind = "eof"
               \/ verdict.kind = "error" /\ read.kind = "bad"
<1> DEFINE n == MaxCalls(s)
           c == CallOne(0, 0)
           r == Outcome(s, fmt, max)
           read == ReadValue(s, fmt, max)
           verdict == ScanValue(s, fmt, max)
<1>1. n \in Nat /\ 0 \in 0..Len(s) /\ 0 \in Nat
  BY DEF MaxCalls
<1>2. r = Walks(s, fmt, max)[n][c] /\ read = Reads(s, fmt, max)[n][c]
  BY DEF Outcome, ReadValue
<1> HIDE DEF n, r, read
<1>3. Reaches(read, r, Rejects(s, fmt))
  BY <1>1, <1>2, ReadsFollow DEF Follow
<1>4. verdict = VerdictOf(s, r)
  BY ScanValueIs DEF r
<1> HIDE DEF verdict
<1>5. /\ verdict.kind \in {"complete", "incomplete", "error"}
      /\ verdict.kind = "complete" <=> ~Failed(r)
      /\ verdict.kind = "error" <=> r.kind = "bad"
      /\ verdict.len = IF Failed(r) THEN 0 ELSE r.at
  BY <1>4, VerdictMeans
<1>6. Failed(read) \/ read.kind = "Value"
  BY ReadIsValue DEF read
<1>7. ~Failed(read) => Extent(read) = Found("Value", read.at)
  BY <1>6 DEF Extent, Found
<1>8. CASE Rejects(s, fmt) /\ Failed(read)
  BY <1>8 DEF read
<1>9. CASE Failed(r) /\ read.kind = r.kind
  BY <1>5, <1>9 DEF Failed, read, verdict
<1>10. CASE ~Failed(r) /\ ~Failed(read) /\ read.at = r.at
  BY <1>5, <1>7, <1>10 DEF read, verdict
<1> QED
  BY <1>3, <1>8, <1>9, <1>10 DEF Reaches

\* So it is in every state of the growing buffer.
THEOREM ScannerAndReaderAgreeHolds == Spec => []ScannerAndReaderAgree
<1>1. ASSUME BufferInv PROVE ScannerAndReaderAgree
  <2> DEFINE f == alphabet.format
             read == ReadValue(input, f, MaxDepth)
             verdict == ScanValue(input, f, MaxDepth)
  <2>1. f \in Formats /\ input \in Seq(Byte) /\ MaxDepth \in Nat
    BY <1>1, InputAssumption DEF BufferInv
  <2>2. scanned = verdict /\ Read(input) = read
    BY <1>1 DEF BufferInv, Scan, Read
  <2>3. \/ Rejects(input, f) /\ Failed(read)
        \/ verdict.kind = "complete" /\ Extent(read) = Found("Value", verdict.len)
        \/ verdict.kind = "incomplete" /\ read.kind = "eof"
        \/ verdict.kind = "error" /\ read.kind = "bad"
    BY <2>1, ReaderAgreesWithScanner
  <2> HIDE DEF read, verdict
  <2> QED
    BY <2>2, <2>3 DEF ScannerAndReaderAgree, Rejects
<1> QED
  BY <1>1, BufferInvHolds, PTL

-----------------------------------------------------------------------------
(***************************************************************************)
(* The reader over two inputs that share what the scanner found: it finds  *)
(* the same values there.                                                  *)
(***************************************************************************)

\* A value in binary is the same where the inputs share its bytes.
LEMMA BinaryNodesAgree ==
    ASSUME NEW u \in Seq(Byte), NEW v \in Seq(Byte), NEW M, Shares(u, v, M),
           NEW q \in 0..(Len(u) - 1), NEW token, token = BinaryToken(u, q), ~Failed(token),
           token.at <= M, token.kind \in Scalars
    PROVE  BinaryNode(token.kind, v, q, token.at) = BinaryNode(token.kind, u, q, token.at)
<1> DEFINE b == At(u, q)
           o == q + 1
           e == token.at
           a == Uvarint(u, o)
           c == Uvarint(v, o)
<1>1. /\ M \in Nat /\ M <= Len(u) /\ Len(u) \in Nat
      /\ \A r \in 0..(M - 1) : At(u, r) = At(v, r)
  BY DEF Shares
<1>2. e \in o..M
  <2>1. e \in o..Len(u)
    BY BinaryTokenInRange
  <2> QED
    BY <1>1, <2>1
<1>3. o \in 0..M /\ o \in 0..Len(u)
  <2> HIDE DEF e
  <2> QED
    BY <1>1, <1>2
<1>4. At(v, q) = b
  <2>1. q \in 0..(M - 1)
    BY <1>1, <1>3
  <2> QED
    BY <1>1, <2>1
<1>5. /\ b = 1 => token = BinaryString(u, o)
      /\ b = 2 => token = As("Int64", a)
      /\ b = 3 => token = Payload("Double", u, o, DoubleBytes)
      /\ b \in {4, 5} => token = Found("Boolean", o)
      /\ b = 6 => token = As("Uint64", a)
      /\ b \in DOMAIN Structural => token = Found(Structural[b], o)
      /\ b \in 1..6 \/ b \in DOMAIN Structural \/ token = Bad
  BY BinaryTokenDispatches
<1>6. (~Failed(a) /\ a.at <= M) => c = a
  BY <1>3, UvarintsAgree
<1>7. ~Failed(a) => /\ \E p, value : a = Got("Uint64", p, value)
                    /\ a.at \in Nat
  <2> DEFINE last == RunEnd(u, o, 128..255)
             value == Groups(Slice(u, o, last + 1))
  <2>1. ~Failed(a) => last \in o..(Len(u) - 1) /\ a = Got("Uint64", last + 1, value)
    BY <1>3, UvarintFound
  <2> HIDE DEF last, value, a
  <2> SUFFICES ASSUME ~Failed(a)
               PROVE  (\E p, x : a = Got("Uint64", p, x)) /\ a.at \in Nat
    OBVIOUS
  <2>2. last \in o..(Len(u) - 1) /\ a = Got("Uint64", last + 1, value)
    BY <2>1
  <2>3. \E p, x : a = Got("Uint64", p, x)
    BY <2>2
  <2>4. a.at = last + 1
    BY <2>2 DEF Got
  <2> QED
    BY <1>1, <1>3, <2>2, <2>3, <2>4
<1> HIDE DEF b, a, c
<1>8. ASSUME NEW kind \in {"Int64", "Uint64"}, token = As(kind, a)
      PROVE  token.kind = kind /\ c = a
  <2>1. ~Failed(a)
    BY <1>8, AsFailed
  <2>2. PICK p, value : a = Got("Uint64", p, value)
    BY <1>7, <2>1
  <2>3. token.kind = kind /\ token.at = p /\ a.at = p
    BY <1>8, <2>1, <2>2 DEF As, Got
  <2> QED
    BY <1>2, <1>6, <2>1, <2>3
<1>9. CASE b = 1
  <2>1. token = BinaryString(u, o)
    BY <1>5, <1>9
  <2> DEFINE n == a.value \div 2
  <2>2. /\ ~Failed(a) /\ a.at \in (o + 1)..Len(u) /\ n \in Nat
        /\ token = Found("String", a.at + n)
    BY <1>3, <2>1, BinaryStringFound DEF a
  <2> HIDE DEF n
  <2>3. token.kind = "String" /\ e = a.at + n
    BY <2>2 DEF Found
  <2> HIDE DEF e, o
  <2>4. a.at \in 0..M /\ e \in (a.at)..M
    BY <1>1, <1>2, <1>3, <2>2, <2>3
  <2>5. c = a /\ Slice(v, a.at, e) = Slice(u, a.at, e)
    BY <1>6, <2>2, <2>4, SlicesAgree
  <2> QED
    BY <2>3, <2>5 DEF BinaryNode, a, c, o, e
<1>10. CASE b = 2
  <2>1. token.kind = "Int64" /\ c = a
    BY <1>5, <1>8, <1>10
  <2> QED
    BY <2>1 DEF BinaryNode, a, c
<1>11. CASE b = 6
  <2>1. token.kind = "Uint64" /\ c = a
    BY <1>5, <1>8, <1>11
  <2> QED
    BY <2>1 DEF BinaryNode, a, c
<1>12. CASE b = 3
  <2>1. token.kind = "Double"
    BY <1>5, <1>12, PayloadFound DEF Found
  <2> HIDE DEF o, e
  <2>2. Slice(v, o, e) = Slice(u, o, e)
    BY <1>2, <1>3, SlicesAgree
  <2> QED
    BY <2>1, <2>2 DEF BinaryNode, o, e
<1>13. CASE b \in {4, 5}
  <2>1. token.kind = "Boolean"
    BY <1>5, <1>13 DEF Found
  <2> QED
    BY <1>4, <2>1 DEF BinaryNode, b
<1>14. CASE b \in DOMAIN Structural
  <2>1. token.kind = Structural[b]
    BY <1>5, <1>14 DEF Found
  <2>2. token.kind = "Entity"
    BY <1>14, <2>1 DEF Structural, Scalars
  <2> QED
    BY <2>2 DEF BinaryNode
<1>15. token # Bad
  BY DEF Failed, Bad
<1> QED
  BY <1>5, <1>9, <1>10, <1>11, <1>12, <1>13, <1>14, <1>15

\* So is any value the scanner finds a token for.
LEMMA NextTokensAgree ==
    ASSUME NEW u \in Seq(Byte), NEW v \in Seq(Byte), NEW M, Shares(u, v, M), NEW L, L <= M,
           NEW fmt \in Formats, Agree(u, v, L, {}, fmt), NEW p \in 0..L,
           ~Failed(SkipToken(u, p, fmt)), SkipToken(u, p, fmt).at <= L
    PROVE  NextToken(v, p, fmt) = NextToken(u, p, fmt)
<1> DEFINE q == Meaningful(u, p, fmt)
           z == SkipToken(u, p, fmt)
           e == z.at
           body(s) == DecodeEscapes(Slice(s, q + 1, e - 1))
           isQuoted == At(u, q) = QUOTE
<1>1. /\ M \in Nat /\ L \in Nat /\ L <= Len(u) /\ M <= Len(u) /\ Len(u) \in Nat
      /\ \A r \in 0..(M - 1) : At(u, r) = At(v, r)
  BY DEF Shares, Agree
<1>2. q \in p..Len(u) /\ q < Len(u) /\ e \in (q + 1)..Len(u) /\ e <= L
  <2>1. p \in 0..Len(u)
    BY <1>1
  <2> QED
    BY <2>1, MeaningfulInRange, SkipTokenInRange
<1> HIDE DEF e
<1>3. q < L /\ q \in 0..M /\ e \in q..M
  BY <1>1, <1>2
<1>4. Meaningful(v, p, fmt) = q /\ At(v, q) = At(u, q) /\ SkipToken(v, p, fmt) = z
  BY <1>3 DEF Agree, Settled
<1>5. Slice(v, q, e) = Slice(u, q, e)
  BY <1>3, SlicesAgree
<1>6. z = IF fmt = "Text" THEN TextToken(u, q) ELSE BinaryToken(u, q)
  <2>1. Inside(u, q)
    BY <1>2 DEF Inside
  <2> QED
    BY <2>1 DEF SkipToken
<1>7. (fmt = "Text" /\ isQuoted) => body(v) = body(u)
  <2> SUFFICES ASSUME fmt = "Text", isQuoted PROVE body(v) = body(u)
    OBVIOUS
  <2> DEFINE o == q + 1
  <2>1. z = ClosingQuote(u, o)
    BY <1>6, TextTokenDispatches
  <2>2. o \in 0..(Len(u) + 1)
    BY <1>1, <1>2
  <2> HIDE DEF o, z, q
  <2>3. PICK k \in (o + 1)..Len(u) : z = Found("String", k)
    BY <1>1, <2>1, <2>2, ClosingQuoteInRange DEF Failed, Eof, z
  <2>4. e = k
    BY <2>3 DEF e, Found
  <2> DEFINE d == e - 1
  <2>5. o \in 0..M /\ d \in o..M
    BY <1>1, <1>2, <1>3, <2>2, <2>4 DEF o
  <2> HIDE DEF d
  <2>6. Slice(v, o, d) = Slice(u, o, d)
    BY <2>5, SlicesAgree
  <2> QED
    BY <2>6 DEF o, d
<1>8. (fmt = "Binary" /\ z.kind \in Scalars) =>
         BinaryNode(z.kind, v, q, e) = BinaryNode(z.kind, u, q, e)
  <2> SUFFICES ASSUME fmt = "Binary", z.kind \in Scalars
               PROVE  BinaryNode(z.kind, v, q, e) = BinaryNode(z.kind, u, q, e)
    OBVIOUS
  <2>1. z = BinaryToken(u, q) /\ q \in 0..(Len(u) - 1) /\ z.at <= M
    BY <1>1, <1>2, <1>3, <1>6 DEF e
  <2> HIDE DEF z, q
  <2>2. ~Failed(z)
    BY DEF z
  <2> QED
    BY <2>1, <2>2, BinaryNodesAgree DEF e
<1>9. \A s \in {u, v} :
        NextToken(s, p, fmt) =
          CASE z.kind \notin Scalars -> z
            [] z.kind \in Scalars /\ fmt = "Binary" ->
                  Token(z.kind, e, BinaryNode(z.kind, s, q, e))
            [] z.kind \in Scalars /\ fmt = "Text" /\ isQuoted ->
                  IF Failed(body(s)) THEN body(s) ELSE Token("String", e, String(body(s).value))
            [] OTHER -> Token(z.kind, e, TextNode(z.kind, Slice(s, q, e)))
  BY <1>4 DEF NextToken, Then, e
<1> HIDE DEF z, q, body, isQuoted
<1>10. CASE fmt = "Binary"
  BY <1>8, <1>9, <1>10
<1>11. CASE fmt = "Text"
  BY <1>5, <1>7, <1>9, <1>11
<1> QED
  BY <1>10, <1>11 DEF Formats

\* What the scanner finds in the first input up to L, both readers make the same
\* of.
Copied(z, a, b, L) == (~Failed(z) /\ z.at <= L) => b = a

Copies(w, x, z, L) ==
    \A p \in 0..L, depth \in Nat :
        /\ Copied(z[CallOne(p, depth)], w[CallOne(p, depth)], x[CallOne(p, depth)], L)
        /\ Copied(z[CallItems(p, depth)], w[CallItems(p, depth)], x[CallItems(p, depth)], L)
        /\ \A end \in Ends :
              Copied(z[CallPairs(p, end, depth)], w[CallPairs(p, end, depth)],
                     x[CallPairs(p, end, depth)], L)

SameTokens(u, v, L, fmt) ==
    \A p \in 0..L :
        (~Failed(SkipToken(u, p, fmt)) /\ SkipToken(u, p, fmt).at <= L) =>
            NextToken(v, p, fmt) = NextToken(u, p, fmt)

\* w and z walk over u, x over v.
Alike(w, x, z, u, v, L, fmt, max) ==
    /\ Agree(u, v, L, {}, fmt)
    /\ SameTokens(u, v, L, fmt)
    /\ Pair(w, z, u, fmt, max)
    /\ Copies(w, x, z, L)

\* A call that ends up to L was made there, and ends behind its place.
LEMMA FoundInFront ==
    ASSUME NEW u \in Seq(Byte), NEW L \in Nat, NEW fmt, NEW i \in 0..Len(u), NEW r,
           Advances(r, u, i, fmt), ~Failed(r), r.at <= L
    PROVE  i \in 0..L /\ r.at \in (i + 1)..L
<1>1. Meaningful(u, i, fmt) \in i..Len(u) /\ Len(u) \in Nat
  BY MeaningfulInRange
<1>2. r.at \in (Meaningful(u, i, fmt) + 1)..Len(u)
  BY DEF Advances
<1> QED
  BY <1>1, <1>2

\* A reader that does not fail ends where the scanner does.
LEMMA SameEnd ==
    ASSUME NEW r, NEW z, NEW escapes, Reaches(r, z, escapes), ~Failed(r)
    PROVE  ~Failed(z) /\ r.at = z.at
  BY DEF Reaches, Failed

\* Of a node.
LEMMA ReadNodesAlike ==
    ASSUME NEW u \in Seq(Byte), NEW v, NEW w, NEW x, NEW z, NEW L, NEW fmt \in Formats,
           NEW max \in Nat, Alike(w, x, z, u, v, L, fmt, max), NEW p \in 0..L, NEW depth \in Nat,
           ~Failed(ScanNode(z, u, p, fmt, depth)), ScanNode(z, u, p, fmt, depth).at <= L
    PROVE  ReadNode(x, v, p, fmt, depth) = ReadNode(w, u, p, fmt, depth)
<1> DEFINE r == ScanNode(z, u, p, fmt, depth)
           token == SkipToken(u, p, fmt)
           a == NextToken(u, p, fmt)
           i == token.at
           e == depth + 1
           here == ReadNode(w, u, p, fmt, depth)
           there == ReadNode(x, v, p, fmt, depth)
<1>1. /\ Agree(u, v, L, {}, fmt) /\ SameTokens(u, v, L, fmt)
      /\ Progress(z, u, fmt, max) /\ Copies(w, x, z, L)
  BY DEF Alike, Pair
<1>2. L \in Nat /\ L <= Len(u) /\ Len(u) \in Nat /\ e \in Nat /\ p \in 0..Len(u)
  BY <1>1 DEF Agree
<1>3. /\ ~Failed(token)
      /\ token.kind \in Scalars => r = Found("Value", i)
      /\ token.kind = "BeginList" => r = z[CallItems(i, e)]
      /\ token.kind = "BeginMap" => r = z[CallPairs(i, RBRACE, e)]
      /\ token.kind \in Scalars \cup {"BeginList", "BeginMap"}
  <2>1. Failed(Bad)
    BY DEF Failed, Bad
  <2> QED
    BY <2>1, ScanNodeIs
<1>4. i \in 0..Len(u)
  <2>1. Meaningful(u, p, fmt) \in p..Len(u) /\ i \in (Meaningful(u, p, fmt) + 1)..Len(u)
    BY <1>2, <1>3, MeaningfulInRange, SkipTokenInRange
  <2> HIDE DEF i
  <2> QED
    BY <1>2, <2>1
<1> HIDE DEF i, e, r
<1>5. ~Failed(r) /\ r.at <= L
  BY DEF r
<1>6. i \in 0..L
  <2>1. CASE r = Found("Value", i)
    BY <1>2, <1>4, <1>5, <2>1 DEF Found
  <2>2. CASE r = z[CallItems(i, e)] \/ r = z[CallPairs(i, RBRACE, e)]
    <3>1. Advances(r, u, i, fmt)
      BY <1>1, <1>2, <1>4, <2>2, ProgressMeans
    <3> QED
      BY <1>2, <1>4, <1>5, <3>1, FoundInFront
  <2> QED
    BY <1>3, <2>1, <2>2
<1>7. NextToken(v, p, fmt) = a
  <2>1. ~Failed(SkipToken(u, p, fmt)) /\ SkipToken(u, p, fmt).at <= L
    BY <1>2, <1>3, <1>6 DEF i
  <2> QED
    BY <1>1, <2>1 DEF SameTokens
<1>8. ~Failed(a) => a.kind = token.kind /\ a.at = i
  BY <1>2, <1>3, NextTokenIs DEF i
<1>9. /\ token.kind = "BeginList" => x[CallItems(i, e)] = w[CallItems(i, e)]
      /\ token.kind = "BeginMap" => x[CallPairs(i, RBRACE, e)] = w[CallPairs(i, RBRACE, e)]
  <2>1. /\ Copied(z[CallItems(i, e)], w[CallItems(i, e)], x[CallItems(i, e)], L)
        /\ Copied(z[CallPairs(i, RBRACE, e)], w[CallPairs(i, RBRACE, e)],
                  x[CallPairs(i, RBRACE, e)], L)
    BY <1>1, <1>2, <1>6 DEF Copies, Ends
  <2> QED
    BY <1>3, <1>5, <2>1 DEF Copied
<1> HIDE DEF a, token
<1> DEFINE made(y) ==
             CASE Failed(a) -> a
               [] ~Failed(a) /\ a.kind \in Scalars -> a
               [] ~Failed(a) /\ a.kind = "BeginList" ->
                    IF Failed(y[CallItems(a.at, e)]) THEN y[CallItems(a.at, e)]
                    ELSE Token("List", y[CallItems(a.at, e)].at, List(y[CallItems(a.at, e)].value))
               [] ~Failed(a) /\ a.kind = "BeginMap" ->
                    IF Failed(y[CallPairs(a.at, RBRACE, e)]) THEN y[CallPairs(a.at, RBRACE, e)]
                    ELSE Token("Map", y[CallPairs(a.at, RBRACE, e)].at,
                               Map(y[CallPairs(a.at, RBRACE, e)].value))
               [] OTHER -> Bad
<1>10. here = made(w)
  BY ReadNodeSteps DEF a, e
<1>11. there = made(x)
  BY <1>7, ReadNodeSteps DEF a, e
<1> HIDE DEF here, there
<1>12. made(x) = made(w)
  BY <1>8, <1>9 DEF Scalars
<1> QED
  BY <1>10, <1>11, <1>12 DEF here, there

\* Of a value with its attributes.
LEMMA ReadOnesAlike ==
    ASSUME NEW u \in Seq(Byte), NEW v, NEW w, NEW x, NEW z, NEW L, NEW fmt \in Formats,
           NEW max \in Nat, Alike(w, x, z, u, v, L, fmt, max), NEW p \in 0..L, NEW depth \in Nat,
           LET r == ScanOne(z, u, p, fmt, depth, max) IN ~Failed(r) /\ r.at <= L
    PROVE  ReadValueAt(x, v, p, fmt, depth, max) = ReadValueAt(w, u, p, fmt, depth, max)
<1> DEFINE r == ScanOne(z, u, p, fmt, depth, max)
           i == Behind(u, p, fmt)
           e == depth + 1
           angle == PeekIs(u, p, fmt, LT)
           front == z[CallPairs(i, GT, e)]
           attributes == w[CallPairs(i, GT, e)]
           here == ReadValueAt(w, u, p, fmt, depth, max)
           there == ReadValueAt(x, v, p, fmt, depth, max)
<1>1. /\ Agree(u, v, L, {}, fmt) /\ Progress(z, u, fmt, max)
      /\ Follow(w, z, u, Rejects(u, fmt)) /\ Copies(w, x, z, L)
  BY DEF Alike, Pair
<1>2. L \in Nat /\ L <= Len(u) /\ Len(u) \in Nat /\ e \in Nat /\ p \in 0..Len(u)
  BY <1>1 DEF Agree
<1>3. ~Failed(r) /\ r.at <= L
  OBVIOUS
<1>4. /\ depth > max => r = Bad
      /\ (depth <= max /\ ~angle) => r = ScanNode(z, u, p, fmt, depth)
      /\ (depth <= max /\ angle /\ Failed(front)) => r = front
      /\ (depth <= max /\ angle /\ ~Failed(front)) => r = ScanNode(z, u, front.at, fmt, depth)
  BY DEF ScanOne, Then
<1>5. Proceeds(r, u, p, fmt, depth, max)
  BY <1>1, <1>2, OneProceeds
<1>6. angle => i \in 0..Len(u)
  BY <1>2, PeekedIsInside
<1> HIDE DEF r, front, i, angle, e
<1>7. depth <= max /\ ~(depth > max)
  <2>1. r # Bad
    BY <1>3 DEF Failed, Bad
  <2> QED
    BY <1>4, <2>1
<1>8. Behind(v, p, fmt) = i /\ (PeekIs(v, p, fmt, LT) <=> angle)
  <2>1. Advances(r, u, p, fmt) /\ Lacks(r, u, p, fmt)
    BY <1>5, <1>7 DEF Proceeds
  <2>2. Settled(r, L, {})
    BY <1>3 DEF Settled
  <2> QED
    BY <1>1, <2>1, <2>2, SamePlace DEF i, angle
<1>9. CASE ~angle
  <2>1. r = ScanNode(z, u, p, fmt, depth)
    BY <1>4, <1>7, <1>9
  <2>2. ReadNode(x, v, p, fmt, depth) = ReadNode(w, u, p, fmt, depth)
    BY <1>3, <2>1, ReadNodesAlike
  <2> DEFINE plain == ReadNode(w, u, p, fmt, depth)
             made == IF Failed(plain) THEN plain ELSE Got("Value", plain.at, Plain(plain.node))
  <2>3. here = made
    BY <1>7, <1>9, ReadValueSteps DEF angle
  <2>4. there = made
    BY <1>7, <1>8, <1>9, <2>2, ReadValueSteps
  <2> QED
    BY <2>3, <2>4
<1>10. CASE angle
  <2>1. i \in 0..Len(u)
    BY <1>6, <1>10
  <2>2. ~Failed(front)
    BY <1>3, <1>4, <1>7, <1>10
  <2> DEFINE j == front.at
  <2>3. Advances(front, u, i, fmt)
    BY <1>1, <1>2, <2>1, ProgressMeans DEF Ends, front
  <2>4. Meaningful(u, i, fmt) \in i..Len(u) /\ j \in (Meaningful(u, i, fmt) + 1)..Len(u)
    BY <2>1, <2>2, <2>3, MeaningfulInRange DEF Advances
  <2>5. r = ScanNode(z, u, j, fmt, depth)
    BY <1>4, <1>7, <1>10, <2>2
  <2> HIDE DEF j
  <2>6. j \in 0..Len(u)
    BY <1>2, <2>1, <2>4
  <2>7. Advances(r, u, j, fmt)
    BY <1>1, <2>5, <2>6, NodeProceeds
  <2>8. j \in 0..L
    BY <1>2, <1>3, <2>6, <2>7, FoundInFront
  <2>9. i \in 0..L
    BY <1>2, <2>1, <2>2, <2>3, <2>8, FoundInFront DEF j
  <2>10. x[CallPairs(i, GT, e)] = attributes
    <3>1. Copied(front, attributes, x[CallPairs(i, GT, e)], L)
      BY <1>1, <1>2, <2>9 DEF Copies, Ends, front
    <3>2. front.at <= L
      BY <1>2, <2>8 DEF j
    <3> QED
      BY <2>2, <3>1, <3>2 DEF Copied
  <2>11. Reaches(attributes, front, Rejects(u, fmt))
    BY <1>1, <1>2, <2>1 DEF Follow, Ends, front
  <2> HIDE DEF attributes
  <2>12. ~Failed(attributes) => attributes.at = j
    BY <2>11, SameEnd DEF j
  <2>13. ReadNode(x, v, j, fmt, depth) = ReadNode(w, u, j, fmt, depth)
    BY <1>3, <2>5, <2>8, ReadNodesAlike
  <2> DEFINE body == ReadNode(w, u, attributes.at, fmt, depth)
             made == IF Failed(attributes) THEN attributes
                     ELSE IF Failed(body) THEN body
                     ELSE Got("Value", body.at, Attributed(Some(attributes.value), body.node))
             body2 == ReadNode(x, v, attributes.at, fmt, depth)
             made2 == IF Failed(attributes) THEN attributes
                      ELSE IF Failed(body2) THEN body2
                      ELSE Got("Value", body2.at, Attributed(Some(attributes.value), body2.node))
  <2>14. here = made
    BY <1>7, <1>10, ReadValueSteps DEF angle, attributes, i, e
  <2>15. there = made2
    BY <1>7, <1>8, <1>10, <2>10, ReadValueSteps DEF e
  <2>16. made = made2
    BY <2>12, <2>13
  <2> QED
    BY <2>14, <2>15, <2>16
<1> QED
  BY <1>9, <1>10

\* Of a list.
LEMMA ReadItemsAlike ==
    ASSUME NEW u \in Seq(Byte), NEW v, NEW w, NEW x, NEW z, NEW L, NEW fmt \in Formats,
           NEW max \in Nat, Alike(w, x, z, u, v, L, fmt, max), NEW p \in 0..L, NEW depth \in Nat,
           LET r == ScanItems(z, u, p, fmt, depth, max) IN ~Failed(r) /\ r.at <= L
    PROVE  ReadItems(x, v, p, fmt, depth, max) = ReadItems(w, u, p, fmt, depth, max)
<1> DEFINE r == ScanItems(z, u, p, fmt, depth, max)
           i == Behind(u, p, fmt)
           close == PeekIs(u, p, fmt, RBRACK)
           semi == PeekIs(u, p, fmt, SEMI)
           front == z[CallOne(p, depth)]
           item == w[CallOne(p, depth)]
           rest == w[CallItems(item.at, depth)]
           rest2 == x[CallItems(item.at, depth)]
           made(y) == IF Failed(item) THEN item ELSE IF Failed(y) THEN y ELSE WithItem(item, y)
           here == ReadItems(w, u, p, fmt, depth, max)
           there == ReadItems(x, v, p, fmt, depth, max)
<1>1. /\ Agree(u, v, L, {}, fmt) /\ Progress(z, u, fmt, max)
      /\ Follow(w, z, u, Rejects(u, fmt)) /\ Copies(w, x, z, L)
  BY DEF Alike, Pair
<1>2. L \in Nat /\ L <= Len(u) /\ Len(u) \in Nat /\ p \in 0..Len(u)
  BY <1>1 DEF Agree
<1>3. ~Failed(r) /\ r.at <= L
  OBVIOUS
<1>4. /\ depth > max => r = Bad
      /\ (depth <= max /\ close) => r = Found("Value", i)
      /\ (depth <= max /\ ~close /\ semi) => r = z[CallItems(i, depth)]
      /\ (depth <= max /\ ~close /\ ~semi /\ Failed(front)) => r = front
      /\ (depth <= max /\ ~close /\ ~semi /\ ~Failed(front)) => r = z[CallItems(front.at, depth)]
  BY DEF ScanItems, Then, PeekIs, RBRACK, SEMI
<1>5. Proceeds(r, u, p, fmt, depth, max)
  BY <1>1, <1>2, ItemsProceeds
<1>6. semi => i \in 0..Len(u)
  BY <1>2, PeekedIsInside
<1>7. Copied(front, item, x[CallOne(p, depth)], L)
  BY <1>1 DEF Copies
<1>8. Reaches(item, front, Rejects(u, fmt)) /\ Advances(front, u, p, fmt)
  BY <1>1, <1>2, ProgressMeans DEF Follow
<1>9. \A k \in 0..L : Copied(z[CallItems(k, depth)], w[CallItems(k, depth)],
                             x[CallItems(k, depth)], L)
  BY <1>1 DEF Copies
<1> HIDE DEF r, front, i, close, semi, item
<1>10. depth <= max /\ ~(depth > max)
  <2>1. r # Bad
    BY <1>3 DEF Failed, Bad
  <2> QED
    BY <1>4, <2>1
<1>11. /\ Behind(v, p, fmt) = i
       /\ PeekIs(v, p, fmt, RBRACK) <=> close
       /\ PeekIs(v, p, fmt, SEMI) <=> semi
  <2>1. Advances(r, u, p, fmt) /\ Lacks(r, u, p, fmt)
    BY <1>5, <1>10 DEF Proceeds
  <2>2. Settled(r, L, {})
    BY <1>3 DEF Settled
  <2> QED
    BY <1>1, <2>1, <2>2, SamePlace DEF i, close, semi
<1>12. /\ close => here = Got("Items", i, <<>>)
       /\ (~close /\ semi) => here = w[CallItems(i, depth)]
       /\ (~close /\ ~semi) => here = made(rest)
  BY <1>10 DEF ReadItems, Then, PeekIs, RBRACK, SEMI, i, close, semi, item
<1>13. /\ close => there = Got("Items", i, <<>>)
       /\ (~close /\ semi) => there = x[CallItems(i, depth)]
       /\ (~close /\ ~semi /\ x[CallOne(p, depth)] = item) => there = made(rest2)
  <2>1. /\ there = ReadItems(x, v, p, fmt, depth, max)
        /\ item = w[CallOne(p, depth)] /\ rest2 = x[CallItems(item.at, depth)]
    BY DEF item
  <2>2. made(rest2) = IF Failed(item) THEN item
                      ELSE IF Failed(rest2) THEN rest2 ELSE WithItem(item, rest2)
    OBVIOUS
  <2> HIDE DEF here, there, rest, rest2, made
  <2> QED
    BY <1>10, <1>11, <2>1, <2>2, ReadItemsSteps
<1> HIDE DEF here, there
<1>14. CASE close
  BY <1>12, <1>13, <1>14 DEF here, there
<1>15. CASE ~close /\ semi
  <2>1. r = z[CallItems(i, depth)] /\ i \in 0..Len(u)
    BY <1>4, <1>6, <1>10, <1>15
  <2>2. Advances(r, u, i, fmt)
    BY <1>1, <2>1, ProgressMeans
  <2>3. i \in 0..L
    BY <1>2, <1>3, <2>1, <2>2, FoundInFront
  <2>4. x[CallItems(i, depth)] = w[CallItems(i, depth)]
    BY <1>3, <1>9, <2>1, <2>3 DEF Copied
  <2> QED
    BY <1>12, <1>13, <1>15, <2>4 DEF here, there
<1>16. CASE ~close /\ ~semi
  <2>1. ~Failed(front)
    BY <1>3, <1>4, <1>10, <1>16
  <2> DEFINE j == front.at
  <2>2. Meaningful(u, p, fmt) \in p..Len(u) /\ j \in (Meaningful(u, p, fmt) + 1)..Len(u)
    BY <1>2, <1>8, <2>1, MeaningfulInRange DEF Advances
  <2>3. r = z[CallItems(j, depth)]
    BY <1>4, <1>10, <1>16, <2>1
  <2> HIDE DEF j
  <2>4. j \in 0..Len(u)
    BY <1>2, <2>2
  <2>5. Advances(r, u, j, fmt)
    BY <1>1, <2>3, <2>4, ProgressMeans
  <2>6. j \in 0..L
    BY <1>2, <1>3, <2>4, <2>5, FoundInFront
  <2>7. x[CallOne(p, depth)] = item
    <3>1. front.at <= L
      BY <1>2, <2>6 DEF j
    <3> QED
      BY <1>7, <2>1, <3>1 DEF Copied
  <2>8. ~Failed(item) => item.at = j
    BY <1>8, SameEnd DEF j
  <2>9. x[CallItems(j, depth)] = w[CallItems(j, depth)]
    BY <1>3, <1>9, <2>3, <2>6 DEF Copied
  <2>10. made(rest2) = made(rest)
    BY <2>8, <2>9
  <2> QED
    BY <1>12, <1>13, <1>16, <2>7, <2>10 DEF here, there
<1> QED
  BY <1>14, <1>15, <1>16

\* Of a map.
LEMMA ReadPairsAlike ==
    ASSUME NEW u \in Seq(Byte), NEW v, NEW w, NEW x, NEW z, NEW L, NEW fmt \in Formats,
           NEW max \in Nat, Alike(w, x, z, u, v, L, fmt, max), NEW p \in 0..L,
           NEW end \in Ends, NEW depth \in Nat,
           ~Failed(ScanPairs(z, u, p, fmt, end, depth, max)),
           ScanPairs(z, u, p, fmt, end, depth, max).at <= L
    PROVE  ReadPairs(x, v, p, fmt, end, depth, max) = ReadPairs(w, u, p, fmt, end, depth, max)
<1> DEFINE r == ScanPairs(z, u, p, fmt, end, depth, max)
           i == Behind(u, p, fmt)
           close == PeekIs(u, p, fmt, end)
           semi == PeekIs(u, p, fmt, SEMI)
           keyZ == Expect("String", SkipToken(u, p, fmt))
           equalsZ == Expect("KeyValueSeparator", SkipToken(u, keyZ.at, fmt))
           valueZ == z[CallOne(equalsZ.at, depth)]
           a == keyZ.at
           b == equalsZ.at
           c == valueZ.at
           key == Expect("String", NextToken(u, p, fmt))
           equals == Expect("KeyValueSeparator", NextToken(u, key.at, fmt))
           value == w[CallOne(equals.at, depth)]
           rest == w[CallPairs(value.at, end, depth)]
           equals2 == Expect("KeyValueSeparator", NextToken(v, key.at, fmt))
           value2 == x[CallOne(equals2.at, depth)]
           rest2 == x[CallPairs(value2.at, end, depth)]
           here == ReadPairs(w, u, p, fmt, end, depth, max)
           there == ReadPairs(x, v, p, fmt, end, depth, max)
<1>1. /\ Agree(u, v, L, {}, fmt) /\ SameTokens(u, v, L, fmt) /\ Progress(z, u, fmt, max)
      /\ Follow(w, z, u, Rejects(u, fmt)) /\ Copies(w, x, z, L)
  BY DEF Alike, Pair
<1>2. L \in Nat /\ L <= Len(u) /\ Len(u) \in Nat /\ p \in 0..Len(u)
  BY <1>1 DEF Agree
<1>3. ~Failed(r) /\ r.at <= L
  OBVIOUS
<1>4. /\ depth > max => r = Bad
      /\ (depth <= max /\ close) => r = Found("Value", i)
      /\ (depth <= max /\ ~close /\ semi) => r = z[CallPairs(i, end, depth)]
      /\ (depth <= max /\ ~close /\ ~semi) =>
           r = IF Failed(keyZ) THEN keyZ
               ELSE IF Failed(equalsZ) THEN equalsZ
               ELSE IF Failed(valueZ) THEN valueZ
               ELSE z[CallPairs(valueZ.at, end, depth)]
  <2>1. /\ r = ScanPairs(z, u, p, fmt, end, depth, max) /\ i = Behind(u, p, fmt)
        /\ close = PeekIs(u, p, fmt, end) /\ semi = PeekIs(u, p, fmt, SEMI)
        /\ keyZ = Expect("String", SkipToken(u, p, fmt))
        /\ equalsZ = Expect("KeyValueSeparator", SkipToken(u, keyZ.at, fmt))
        /\ valueZ = z[CallOne(equalsZ.at, depth)]
    OBVIOUS
  <2> HIDE DEF r, i, close, semi, keyZ, equalsZ, valueZ, a, b, c, key, equals, value, rest,
               equals2, value2, rest2, here, there
  <2> QED
    BY <2>1, ScanPairsSteps
<1>5. Proceeds(r, u, p, fmt, depth, max)
  <2>1. r = ScanPairs(z, u, p, fmt, end, depth, max)
    OBVIOUS
  <2> HIDE DEF r
  <2> QED
    BY <1>1, <1>2, <2>1, PairsProceeds
<1>6. semi => i \in 0..Len(u)
  BY <1>2, PeekedIsInside
<1>7. \A k \in 0..L :
         /\ Copied(z[CallPairs(k, end, depth)], w[CallPairs(k, end, depth)],
                   x[CallPairs(k, end, depth)], L)
         /\ Copied(z[CallOne(k, depth)], w[CallOne(k, depth)], x[CallOne(k, depth)], L)
  BY <1>1 DEF Copies
<1>8. (keyZ = SkipToken(u, p, fmt) \/ Failed(keyZ)) /\ (equalsZ = SkipToken(u, a, fmt) \/ Failed(equalsZ))
  BY ExpectedIs DEF Failed, Bad
<1> HIDE DEF r, i, close, semi, keyZ, equalsZ, valueZ
<1>10. depth <= max /\ ~(depth > max)
  <2>1. r # Bad
    BY <1>3 DEF Failed, Bad
  <2> QED
    BY <1>4, <2>1
<1>11. /\ Behind(v, p, fmt) = i
       /\ PeekIs(v, p, fmt, end) <=> close
       /\ PeekIs(v, p, fmt, SEMI) <=> semi
  <2>1. Advances(r, u, p, fmt) /\ Lacks(r, u, p, fmt)
    BY <1>5, <1>10 DEF Proceeds
  <2>2. Settled(r, L, {})
    BY <1>3 DEF Settled
  <2> QED
    BY <1>1, <2>1, <2>2, SamePlace DEF i, close, semi
<1>12. /\ close => here = Got("Pairs", i, Empty)
       /\ (~close /\ semi) => here = w[CallPairs(i, end, depth)]
       /\ (~close /\ ~semi) =>
            here = EntryMade(key, equals, value, rest)
  <2>1. /\ here = ReadPairs(w, u, p, fmt, end, depth, max) /\ i = Behind(u, p, fmt)
        /\ close = PeekIs(u, p, fmt, end) /\ semi = PeekIs(u, p, fmt, SEMI)
        /\ key = Expect("String", NextToken(u, p, fmt))
        /\ equals = Expect("KeyValueSeparator", NextToken(u, key.at, fmt))
        /\ value = w[CallOne(equals.at, depth)] /\ rest = w[CallPairs(value.at, end, depth)]
    BY DEF i, close, semi
  <2> HIDE DEF here, there, a, b, c, key, equals, value, rest, equals2, value2, rest2
  <2> QED
    BY <1>10, <2>1, ReadPairsSteps
<1>13. /\ close => there = Got("Pairs", i, Empty)
       /\ (~close /\ semi) => there = x[CallPairs(i, end, depth)]
       /\ (~close /\ ~semi /\ NextToken(v, p, fmt) = NextToken(u, p, fmt)) =>
            there = EntryMade(key, equals2, value2, rest2)
  <2>1. /\ there = ReadPairs(x, v, p, fmt, end, depth, max)
        /\ key = Expect("String", NextToken(u, p, fmt))
        /\ equals2 = Expect("KeyValueSeparator", NextToken(v, key.at, fmt))
        /\ value2 = x[CallOne(equals2.at, depth)] /\ rest2 = x[CallPairs(value2.at, end, depth)]
    OBVIOUS
  <2> HIDE DEF here, there, a, b, c, key, equals, value, rest, equals2, value2, rest2
  <2> QED
    BY <1>10, <1>11, <2>1, ReadPairsSteps
<1> HIDE DEF here, there
<1>14. CASE close
  BY <1>12, <1>13, <1>14 DEF here, there
<1>15. CASE ~close /\ semi
  <2>1. r = z[CallPairs(i, end, depth)] /\ i \in 0..Len(u)
    BY <1>4, <1>6, <1>10, <1>15
  <2>2. Advances(r, u, i, fmt)
    BY <1>1, <2>1, ProgressMeans DEF Ends
  <2>3. i \in 0..L
    BY <1>2, <1>3, <2>1, <2>2, FoundInFront
  <2>4. x[CallPairs(i, end, depth)] = w[CallPairs(i, end, depth)]
    BY <1>3, <1>7, <2>1, <2>3 DEF Copied
  <2> QED
    BY <1>12, <1>13, <1>15, <2>4 DEF here, there
<1>16. CASE ~close /\ ~semi
  <2>1. /\ ~Failed(keyZ) /\ ~Failed(equalsZ) /\ ~Failed(valueZ)
        /\ r = z[CallPairs(c, end, depth)]
    BY <1>3, <1>4, <1>10, <1>16
  <2>2. keyZ = SkipToken(u, p, fmt) /\ equalsZ = SkipToken(u, a, fmt)
    BY <1>8, <2>1
  <2>3. a \in p..Len(u) /\ a \in 0..Len(u)
    <3>1. Meaningful(u, p, fmt) \in p..Len(u) /\ keyZ.at \in (Meaningful(u, p, fmt) + 1)..Len(u)
      BY <1>2, <2>1, <2>2, MeaningfulInRange, SkipTokenInRange
    <3> QED
      BY <1>2, <3>1
  <2>4. b \in a..Len(u) /\ b \in 0..Len(u)
    <3>1. Meaningful(u, a, fmt) \in a..Len(u) /\ equalsZ.at \in (Meaningful(u, a, fmt) + 1)..Len(u)
      BY <2>1, <2>2, <2>3, MeaningfulInRange, SkipTokenInRange
    <3> QED
      BY <1>2, <2>3, <3>1
  <2>5. c \in b..Len(u) /\ c \in 0..Len(u)
    <3>1. Advances(valueZ, u, b, fmt)
      BY <1>1, <2>4, ProgressMeans DEF valueZ
    <3>2. Meaningful(u, b, fmt) \in b..Len(u) /\ valueZ.at \in (Meaningful(u, b, fmt) + 1)..Len(u)
      BY <2>1, <2>4, <3>1, MeaningfulInRange DEF Advances
    <3> QED
      BY <1>2, <2>4, <3>2
  <2>6. c \in 0..L
    <3>1. Advances(r, u, c, fmt)
      BY <1>1, <2>1, <2>5, ProgressMeans DEF Ends
    <3> HIDE DEF c
    <3> QED
      BY <1>2, <1>3, <2>5, <3>1, FoundInFront
  <2>7. a \in 0..L /\ b \in 0..L
    <3> HIDE DEF a, b, c
    <3> QED
      BY <1>2, <2>3, <2>4, <2>5, <2>6
  <2>8. NextToken(v, p, fmt) = NextToken(u, p, fmt) /\ NextToken(v, a, fmt) = NextToken(u, a, fmt)
    <3>1. a <= L /\ b <= L
      <4> HIDE DEF a, b
      <4> QED
        BY <1>2, <2>7
    <3> QED
      BY <1>1, <2>1, <2>2, <2>7, <3>1 DEF SameTokens
  <2>9. ~Failed(key) => key.at = a
    BY <1>2, <2>1, ExpectedReaches DEF keyZ
  <2>10. ~Failed(key) => equals2 = equals /\ (~Failed(equals) => equals.at = b)
    <3> SUFFICES ASSUME ~Failed(key)
                 PROVE  equals2 = equals /\ (~Failed(equals) => equals.at = b)
      OBVIOUS
    <3>1. equals = Expect("KeyValueSeparator", NextToken(u, a, fmt))
      BY <2>9
    <3>2. equals2 = Expect("KeyValueSeparator", NextToken(v, a, fmt))
      BY <2>9
    <3> HIDE DEF equals, equals2
    <3>3. equals2 = equals
      BY <2>8, <3>1, <3>2
    <3>4. equalsZ = Expect("KeyValueSeparator", SkipToken(u, a, fmt))
      BY DEF equalsZ
    <3>5. ~Failed(equals) => equals.at = b
      BY <2>1, <2>3, <3>1, <3>4, ExpectedReaches
    <3> QED
      BY <3>3, <3>5
  <2> HIDE DEF key, equals, equals2
  <2>11. (~Failed(key) /\ ~Failed(equals)) =>
            value2 = value /\ (~Failed(value) => value.at = c)
    <3> SUFFICES ASSUME ~Failed(key), ~Failed(equals)
                 PROVE  value2 = value /\ (~Failed(value) => value.at = c)
      OBVIOUS
    <3>1. value = w[CallOne(b, depth)] /\ value2 = x[CallOne(b, depth)]
      BY <2>10
    <3>2. valueZ = z[CallOne(b, depth)]
      BY DEF valueZ
    <3> HIDE DEF value, value2, b
    <3>3. valueZ.at <= L
      BY <1>2, <2>6
    <3>4. value2 = value
      BY <1>7, <2>1, <2>7, <3>1, <3>2, <3>3 DEF Copied
    <3>5. Reaches(value, valueZ, Rejects(u, fmt))
      BY <1>1, <2>4, <3>1, <3>2 DEF Follow
    <3> QED
      BY <3>4, <3>5, SameEnd
  <2> HIDE DEF value, value2
  <2>12. (~Failed(key) /\ ~Failed(equals) /\ ~Failed(value)) => rest2 = rest
    <3> SUFFICES ASSUME ~Failed(key), ~Failed(equals), ~Failed(value) PROVE rest2 = rest
      OBVIOUS
    <3>1. rest = w[CallPairs(c, end, depth)] /\ rest2 = x[CallPairs(c, end, depth)]
      BY <2>10, <2>11
    <3> HIDE DEF rest, rest2, c
    <3> QED
      BY <1>3, <1>7, <2>1, <2>6, <3>1 DEF Copied
  <2> HIDE DEF rest, rest2
  <2>13. here = there
    BY <1>12, <1>13, <1>16, <2>8, <2>10, <2>11, <2>12 DEF EntryMade
  <2> QED
    BY <2>13 DEF here, there
<1> QED
  BY <1>14, <1>15, <1>16

\* However many calls a reader may make inside each other, one over the second
\* input that may make as many finds the same in front of L.
LEMMA CopiesHold ==
    ASSUME NEW u \in Seq(Byte), NEW v, NEW L, NEW fmt \in Formats, NEW max \in Nat,
           Agree(u, v, L, {}, fmt), SameTokens(u, v, L, fmt)
    PROVE  \A n, m \in Nat : n <= m =>
              Copies(Reads(u, fmt, max)[n], Reads(v, fmt, max)[m], Walks(u, fmt, max)[n], L)
<1> DEFINE W(n) == Reads(u, fmt, max)[n]
           V(m) == Reads(v, fmt, max)[m]
           Z(n) == Walks(u, fmt, max)[n]
           X == {n \in Nat : \A m \in Nat : n <= m => Copies(W(n), V(m), Z(n), L)}
<1>1. L \in Nat /\ L <= Len(u) /\ Len(u) \in Nat
  BY DEF Agree
<1>2. 0 \in X
  <2> DEFINE z == Z(0)
  <2>1. ASSUME NEW p \in 0..L, NEW depth \in Nat
        PROVE  /\ Failed(z[CallOne(p, depth)]) /\ Failed(z[CallItems(p, depth)])
               /\ \A end \in Ends : Failed(z[CallPairs(p, end, depth)])
    <3>1. p \in Nat
      BY <1>1
    <3>2. Failed(Eof)
      BY DEF Failed, Eof
    <3> HIDE DEF z
    <3> QED
      BY <3>1, <3>2, NoCallsFail DEF z
  <2> HIDE DEF z
  <2>2. ASSUME NEW w, NEW x PROVE Copies(w, x, z, L)
    BY <2>1 DEF Copies, Copied
  <2> QED
    BY <2>2 DEF z
<1>3. ASSUME NEW n \in Nat, n \in X PROVE n + 1 \in X
  <2> SUFFICES ASSUME NEW m \in Nat, n + 1 <= m
               PROVE  Copies(W(n + 1), V(m), Z(n + 1), L)
    OBVIOUS
  <2> DEFINE k == m - 1
             w == W(n)
             x == V(k)
             z == Z(n)
             w2 == W(n + 1)
             x2 == V(k + 1)
             z2 == Z(n + 1)
  <2>1. k \in Nat /\ n <= k /\ k + 1 = m
    OBVIOUS
  <2> HIDE DEF k
  <2>2. Copies(w, x, z, L)
    BY <1>3, <2>1
  <2>3. Progress(z, u, fmt, max) /\ Follow(w, z, u, Rejects(u, fmt))
    BY WalksProgress, ReadsFollow
  <2> HIDE DEF w, x, z, w2, x2, z2, X
  <2>4. Alike(w, x, z, u, v, L, fmt, max)
    BY <2>2, <2>3 DEF Alike, Pair
  <2>5. ASSUME NEW p \in 0..L, NEW depth \in Nat
        PROVE  /\ Copied(z2[CallOne(p, depth)], w2[CallOne(p, depth)], x2[CallOne(p, depth)], L)
               /\ Copied(z2[CallItems(p, depth)], w2[CallItems(p, depth)],
                         x2[CallItems(p, depth)], L)
               /\ \A end \in Ends :
                     Copied(z2[CallPairs(p, end, depth)], w2[CallPairs(p, end, depth)],
                            x2[CallPairs(p, end, depth)], L)
    <3>1. p \in Nat
      BY <1>1
    <3>2. /\ z2[CallOne(p, depth)] = ScanOne(z, u, p, fmt, depth, max)
          /\ z2[CallItems(p, depth)] = ScanItems(z, u, p, fmt, depth, max)
          /\ \A end \in Ends :
                z2[CallPairs(p, end, depth)] = ScanPairs(z, u, p, fmt, end, depth, max)
      BY <3>1, CallsUnfold DEF z, z2
    <3>3. /\ w2[CallOne(p, depth)] = ReadValueAt(w, u, p, fmt, depth, max)
          /\ w2[CallItems(p, depth)] = ReadItems(w, u, p, fmt, depth, max)
          /\ \A end \in Ends :
                w2[CallPairs(p, end, depth)] = ReadPairs(w, u, p, fmt, end, depth, max)
      BY <3>1, ReadCallsUnfold DEF w, w2
    <3>4. /\ x2[CallOne(p, depth)] = ReadValueAt(x, v, p, fmt, depth, max)
          /\ x2[CallItems(p, depth)] = ReadItems(x, v, p, fmt, depth, max)
          /\ \A end \in Ends :
                x2[CallPairs(p, end, depth)] = ReadPairs(x, v, p, fmt, end, depth, max)
      BY <2>1, <3>1, ReadCallsUnfold DEF x, x2
    <3>5. Copied(z2[CallOne(p, depth)], w2[CallOne(p, depth)], x2[CallOne(p, depth)], L)
      BY <2>4, <3>2, <3>3, <3>4, ReadOnesAlike DEF Copied
    <3>6. Copied(z2[CallItems(p, depth)], w2[CallItems(p, depth)], x2[CallItems(p, depth)], L)
      BY <2>4, <3>2, <3>3, <3>4, ReadItemsAlike DEF Copied
    <3>7. ASSUME NEW end \in Ends
          PROVE  Copied(z2[CallPairs(p, end, depth)], w2[CallPairs(p, end, depth)],
                        x2[CallPairs(p, end, depth)], L)
      <4>1. /\ z2[CallPairs(p, end, depth)] = ScanPairs(z, u, p, fmt, end, depth, max)
            /\ w2[CallPairs(p, end, depth)] = ReadPairs(w, u, p, fmt, end, depth, max)
            /\ x2[CallPairs(p, end, depth)] = ReadPairs(x, v, p, fmt, end, depth, max)
        BY <3>2, <3>3, <3>4
      <4> QED
        BY <2>4, <4>1, ReadPairsAlike DEF Copied
    <3> QED
      BY <3>5, <3>6, <3>7
  <2>6. Copies(w2, x2, z2, L)
    BY <2>5 DEF Copies
  <2> QED
    BY <2>1, <2>6 DEF w2, x2, z2
<1> HIDE DEF X
<1>4. \A n \in Nat : n \in X
  BY <1>2, <1>3, Induct
<1> QED
  BY <1>4 DEF X

-----------------------------------------------------------------------------
(* The value that is read. *)

\* What the scanner finds in front of L, a reader of the second input reads as
\* the reader of the first does.
LEMMA ReadingReached ==
    ASSUME NEW u \in Seq(Byte), NEW v, NEW L, NEW fmt \in Formats, NEW max \in Nat,
           Agree(u, v, L, {}, fmt), SameTokens(u, v, L, fmt),
           ~Failed(Outcome(u, fmt, max)), Outcome(u, fmt, max).at <= L,
           NEW m \in Nat, MaxCalls(u) <= m
    PROVE  Reads(v, fmt, max)[m][CallOne(0, 0)] = ReadValue(u, fmt, max)
<1> DEFINE n == MaxCalls(u)
           w == Reads(u, fmt, max)[n]
           x == Reads(v, fmt, max)[m]
           z == Walks(u, fmt, max)[n]
           c == CallOne(0, 0)
<1>1. n \in Nat /\ n <= m
  BY DEF MaxCalls
<1>2. 0 \in 0..L /\ 0 \in Nat
  BY DEF Agree
<1> HIDE DEF n
<1>3. Copies(w, x, z, L)
  BY <1>1, CopiesHold
<1>4. z[c] = Outcome(u, fmt, max) /\ w[c] = ReadValue(u, fmt, max)
  BY DEF Outcome, ReadValue, n
<1> HIDE DEF w, x, z
<1>5. Copied(z[c], w[c], x[c], L)
  BY <1>2, <1>3 DEF Copies
<1> HIDE DEF c
<1>6. x[c] = w[c]
  BY <1>4, <1>5 DEF Copied
<1> QED
  BY <1>4, <1>6 DEF x, c

\* The reader that may make more calls inside each other reads the same value,
\* or fails too: MaxCalls bounds the reader's recursion no more than the
\* scanner's.
THEOREM MaxCallsSufficeToRead ==
    ASSUME NEW s \in Seq(Byte), NEW fmt \in Formats, NEW max \in Nat,
           NEW n \in Nat, MaxCalls(s) <= n
    PROVE  LET more == Reads(s, fmt, max)[n][CallOne(0, 0)]
               read == ReadValue(s, fmt, max)
           IN  more = read \/ (/\ Failed(more) /\ Failed(read)
                               /\ more.kind = read.kind \/ Rejects(s, fmt))
<1> DEFINE r == Outcome(s, fmt, max)
           c == CallOne(0, 0)
           L == Len(s)
           more == Reads(s, fmt, max)[n][c]
           read == ReadValue(s, fmt, max)
<1>1. L \in Nat /\ 0 \in 0..L /\ 0 \in Nat /\ MaxCalls(s) \in Nat
  BY DEF MaxCalls
<1>2. CASE ~Failed(r)
  <2>1. r.at <= L
    BY <1>1, <1>2, OutcomeInRange
  <2>2. Agree(s, s, L, {}, fmt)
    BY <1>1 DEF Agree, Inside
  <2>3. SameTokens(s, s, L, fmt)
    BY DEF SameTokens
  <2> HIDE DEF L
  <2>4. more = read
    BY <1>2, <2>1, <2>2, <2>3, ReadingReached
  <2> QED
    BY <2>4
<1>3. CASE Failed(r)
  <2>1. /\ Reaches(more, Walks(s, fmt, max)[n][c], Rejects(s, fmt))
        /\ Reaches(Reads(s, fmt, max)[MaxCalls(s)][c], Walks(s, fmt, max)[MaxCalls(s)][c],
                   Rejects(s, fmt))
    BY <1>1, ReadsFollow DEF Follow
  <2>2. Walks(s, fmt, max)[n][c] = r /\ Walks(s, fmt, max)[MaxCalls(s)][c] = r
    BY MaxCallsSuffice DEF Outcome
  <2>3. Reads(s, fmt, max)[MaxCalls(s)][c] = read
    BY DEF ReadValue
  <2> HIDE DEF r, more, read, c
  <2>4. Reaches(more, r, Rejects(s, fmt)) /\ Reaches(read, r, Rejects(s, fmt))
    BY <2>1, <2>2, <2>3
  <2>5. more = read \/ (/\ Failed(more) /\ Failed(read)
                        /\ more.kind = read.kind \/ Rejects(s, fmt))
    BY <1>3, <2>4 DEF Reaches, Failed
  <2> QED
    BY <2>5 DEF more, read, c
<1> QED
  BY <1>2, <1>3

\* A value is read from its own bytes as it is from an input that goes on behind
\* it: nothing of what follows a record gets into it, and nothing of it is lost.
THEOREM ReaderReadsRecordAlone ==
    ASSUME NEW s \in Seq(Byte), NEW fmt \in Formats, NEW max \in Nat,
           ScanValue(s, fmt, max).kind = "complete"
    PROVE  LET n == ScanValue(s, fmt, max).len
           IN  ReadValue(SubSeq(s, 1, n), fmt, max) = ReadValue(s, fmt, max)
<1> DEFINE n == ScanValue(s, fmt, max).len
           v == SubSeq(s, 1, n)
           r == Outcome(s, fmt, max)
           c == CallOne(0, 0)
<1>1. ~Failed(r) /\ r.at = n
  BY ScanValueIs, VerdictMeans
<1>2. n \in 1..Len(s) /\ Len(s) \in Nat
  BY VerdictInRange
<1>3. ScanValue(v, fmt, max) = [kind |-> "complete", len |-> n]
  BY ScannerFindsRecordAlone
<1> HIDE DEF n, r
<1>4. v \in Seq(Byte) /\ Len(v) = n /\ Shares(s, v, n)
  BY <1>2, RecordShares
<1> HIDE DEF v
<1>5. n \in Nat /\ n <= n /\ Settles(s, v, n, n)
  BY <1>2, <1>4 DEF Settles
<1>6. Agree(s, v, n, {}, fmt)
  BY <1>4, <1>5, PrefixesAgree
<1>7. SameTokens(s, v, n, fmt)
  <2> SUFFICES ASSUME NEW p \in 0..n, ~Failed(SkipToken(s, p, fmt)),
                      SkipToken(s, p, fmt).at <= n
               PROVE  NextToken(v, p, fmt) = NextToken(s, p, fmt)
    BY DEF SameTokens
  <2>1. Shares(s, v, n) /\ v \in Seq(Byte) /\ n <= n
    BY <1>4, <1>5
  <2> HIDE DEF c
  <2> QED
    BY <1>6, <2>1, NextTokensAgree
<1> DEFINE m == MaxCalls(s)
<1>8. m \in Nat /\ MaxCalls(s) <= m /\ MaxCalls(v) <= m
  BY <1>2, <1>4 DEF MaxCalls
<1> HIDE DEF m
<1>9. Reads(v, fmt, max)[m][c] = ReadValue(s, fmt, max)
  BY <1>1, <1>2, <1>6, <1>7, <1>8, ReadingReached DEF r
<1>10. ~Failed(Outcome(v, fmt, max)) /\ Outcome(v, fmt, max).at = n
  BY <1>3, ScanValueIs, VerdictMeans
<1>11. Reads(v, fmt, max)[m][c] = ReadValue(v, fmt, max)
  <2>1. Agree(v, v, n, {}, fmt)
    BY <1>2, <1>4 DEF Agree, Inside
  <2>2. SameTokens(v, v, n, fmt)
    BY DEF SameTokens
  <2> QED
    BY <1>2, <1>4, <1>8, <1>10, <2>1, <2>2, ReadingReached
<1> QED
  BY <1>9, <1>11 DEF v, n

\* Every frame the scanner finds decodes on its own, to the value that is read
\* with the rest of the input behind it.
THEOREM FramesDecodeHolds == Spec => []FramesDecode
<1>1. ASSUME BufferInv PROVE FramesDecode
  <2> SUFFICES ASSUME scanned.kind = "complete"
               PROVE  LET decoded == Read(Frame)
                      IN  \/ /\ Extent(decoded) = Found("Value", scanned.len)
                             /\ decoded = Read(input)
                          \/ /\ alphabet.format = "Text" /\ HasBadEscape(Frame)
                             /\ Failed(decoded)
    BY DEF FramesDecode
  <2> DEFINE f == alphabet.format
             s == input
             n == ScanValue(s, f, MaxDepth).len
             v == SubSeq(s, 1, n)
             read == ReadValue(v, f, MaxDepth)
             verdict == ScanValue(v, f, MaxDepth)
  <2>1. f \in Formats /\ s \in Seq(Byte) /\ MaxDepth \in Nat
    BY <1>1, InputAssumption DEF BufferInv
  <2>2. scanned = ScanValue(s, f, MaxDepth) /\ Frame = v
    BY <1>1 DEF BufferInv, Scan, Frame
  <2>3. ScanValue(s, f, MaxDepth).kind = "complete"
    BY <2>2
  <2>4. Read(Frame) = read /\ Read(input) = ReadValue(s, f, MaxDepth) /\ scanned.len = n
    BY <2>2 DEF Read
  <2> HIDE DEF f, s
  <2>5. read = ReadValue(s, f, MaxDepth)
    BY <2>1, <2>3, ReaderReadsRecordAlone
  <2>6. verdict = [kind |-> "complete", len |-> n]
    BY <2>1, <2>3, ScannerFindsRecordAlone
  <2>7. n \in 1..Len(s)
    BY <2>1, <2>3, VerdictInRange
  <2> HIDE DEF n
  <2>8. v \in Seq(Byte)
    BY <2>1, <2>7, RecordShares
  <2> HIDE DEF v
  <2>9. \/ Rejects(v, f) /\ Failed(read)
        \/ verdict.kind = "complete" /\ Extent(read) = Found("Value", verdict.len)
        \/ verdict.kind = "incomplete" /\ read.kind = "eof"
        \/ verdict.kind = "error" /\ read.kind = "bad"
    BY <2>1, <2>8, ReaderAgreesWithScanner
  <2> HIDE DEF read, verdict
  <2>10. \/ Rejects(v, f) /\ Failed(read)
         \/ Extent(read) = Found("Value", n)
    BY <2>6, <2>9
  <2> QED
    BY <2>2, <2>4, <2>5, <2>10 DEF Rejects, f
<1> QED
  BY <1>1, BufferInvHolds, PTL
=============================================================================
