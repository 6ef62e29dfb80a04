-------------------------- MODULE TokenizerProofs --------------------------
(***************************************************************************)
(* The tokenizer, in both formats: every token lies inside the input, and  *)
(* what a token is does not depend on what follows the byte behind it.     *)
(*                                                                         *)
(* Induction and recursion over the natural numbers come first, in a form  *)
(* that has sets and functions where the library has operators for its     *)
(* parameters: the provers can use the one and not the other.              *)
(***************************************************************************)
EXTENDS Scanner, SequenceTheorems, WellFoundedInduction, TLAPS

-----------------------------------------------------------------------------
(* Induction and recursion. *)

\* A set of numbers that is not empty has a least element.
LEMMA LeastOf ==
    ASSUME NEW X, X \subseteq Nat, X # {}
    PROVE  \E n \in X : \A m \in X : n <= m
<1> DEFINE R == {ss \in Nat \X Nat : ss[1] < ss[2]}
<1>1. IsWellFoundedOn(R, Nat)
  BY NatLessThanWellFounded DEF OpToRel
<1>2. \A m, n \in Nat : <<m, n>> \in R <=> m < n
  OBVIOUS
<1> HIDE DEF R
<1>3. \E n \in X : \A m \in X : ~ (<<m, n>> \in R)
  BY <1>1, WFMin
<1>4. PICK n \in X : \A m \in X : ~ (<<m, n>> \in R)
  BY <1>3
<1>5. ASSUME NEW m \in X PROVE n <= m
  <2>1. m \in Nat /\ n \in Nat /\ ~ (m < n)
    BY <1>2, <1>4
  <2> QED
    BY <2>1
<1> QED
  BY <1>5

\* Induction.
LEMMA Induct ==
    ASSUME NEW X, 0 \in X, \A n \in Nat : n \in X => n + 1 \in X
    PROVE  \A n \in Nat : n \in X
<1> SUFFICES ASSUME NEW k \in Nat, k \notin X PROVE FALSE
  OBVIOUS
<1> DEFINE F == {n \in Nat : n \notin X}
<1>1. PICK n \in F : \A m \in F : n <= m
  <2>1. F # {} /\ F \subseteq Nat
    OBVIOUS
  <2> HIDE DEF F
  <2> QED
    BY <2>1, LeastOf
<1>2. n # 0 /\ n - 1 \in Nat
  BY <1>1
<1>3. n - 1 \in X
  BY <1>1, <1>2
<1> QED
  BY <1>1, <1>2, <1>3

\* Induction from the end of an interval to its front.
LEMMA InductDown ==
    ASSUME NEW N \in Nat, NEW X,
           \A p \in 0..N : (\A q \in (p + 1)..N : q \in X) => p \in X
    PROVE  \A p \in 0..N : p \in X
<1> DEFINE Y == {k \in Nat : \A p \in 0..N : N - p <= k => p \in X}
<1>1. 0 \in Y
  <2>1. ASSUME NEW p \in 0..N, N - p <= 0 PROVE p \in X
    <3>1. \A q \in (p + 1)..N : q \in X
      BY <2>1
    <3> QED
      BY <3>1
  <2> QED
    BY <2>1
<1>2. ASSUME NEW k \in Nat, k \in Y PROVE k + 1 \in Y
  <2>1. ASSUME NEW p \in 0..N, N - p <= k + 1 PROVE p \in X
    <3>1. ASSUME NEW q \in (p + 1)..N PROVE q \in X
      <4>1. q \in 0..N /\ N - q <= k
        BY <2>1, <3>1
      <4> QED
        BY <4>1, <1>2
    <3> QED
      BY <3>1
  <2> QED
    BY <2>1
<1> HIDE DEF Y
<1>3. \A k \in Nat : k \in Y
  BY <1>1, <1>2, Induct
<1>4. N \in Y
  BY <1>3
<1> QED
  BY <1>4 DEF Y

IsFunctionOn(f, D) == f = [x \in D |-> f[x]]

\* Every number up to N leads to a larger one, but for those of S.
Rises(T, S, N) == \A q \in 0..N : q \notin S => T[q] \in (q + 1)..N

\* f follows T up to a number of S, and has its value there.
Follows(f, T, S, N) ==
    /\ IsFunctionOn(f, 0..N)
    /\ \A q \in 0..N : f[q] = IF q \in S THEN T[q] ELSE f[T[q]]

\* Such a function exists: a definition by recursion from the end of an interval
\* to its front defines one.
LEMMA RecursionUp ==
    ASSUME NEW N \in Nat, NEW S, NEW T, Rises(T, S, N)
    PROVE  \E f : Follows(f, T, S, N)
<1> DEFINE Solves(f, k) ==
        f = [q \in (N - k)..N |-> IF q \in S THEN T[q] ELSE f[T[q]]]
           X == {k \in Nat : k <= N => \E f : Solves(f, k)}
<1>1. 0 \in X
  <2> DEFINE f == [q \in N..N |-> T[q]]
  <2>1. \A q \in N..N : q \in S
    BY DEF Rises
  <2>2. N - 0 = N
    OBVIOUS
  <2>3. f = [q \in N..N |-> IF q \in S THEN T[q] ELSE f[T[q]]]
    BY <2>1
  <2>4. Solves(f, 0)
    BY <2>2, <2>3
  <2> QED
    BY <2>4
<1>2. ASSUME NEW k \in Nat, k \in X PROVE k + 1 \in X
  <2> SUFFICES ASSUME k + 1 <= N PROVE \E f : Solves(f, k + 1)
    OBVIOUS
  <2>1. PICK g : Solves(g, k)
    BY <1>2
  <2> DEFINE p == N - (k + 1)
             f == [q \in p..N |-> IF q = p THEN IF p \in S THEN T[p] ELSE g[T[p]] ELSE g[q]]
  <2>2. p \in 0..N /\ \A q \in p..N : q = p \/ q \in (N - k)..N
    OBVIOUS
  <2>3. \A q \in (N - k)..N : q \in p..N /\ q # p
    OBVIOUS
  <2> HIDE DEF p
  <2>4. \A q \in (p + 1)..N : q \in (N - k)..N
    BY DEF p
  <2>5. \A q \in (N - k)..N : f[q] = g[q]
    BY <2>3
  <2>6. \A q \in p..N : q \in 0..N
    BY <2>2
  <2>7. \A q \in p..N : q \notin S => f[T[q]] = g[T[q]]
    <3> SUFFICES ASSUME NEW q \in p..N, q \notin S PROVE f[T[q]] = g[T[q]]
      OBVIOUS
    <3>1. T[q] \in (q + 1)..N
      BY <2>6 DEF Rises
    <3>2. T[q] \in (p + 1)..N
      BY <3>1, <2>2
    <3> QED
      BY <3>2, <2>4, <2>5
  <2>8. ASSUME NEW q \in p..N
        PROVE  f[q] = IF q \in S THEN T[q] ELSE f[T[q]]
    <3>1. CASE q = p
      BY <3>1, <2>7
    <3>2. CASE q # p
      <4>1. q \in (N - k)..N
        BY <3>2, <2>2
      <4>2. g[q] = IF q \in S THEN T[q] ELSE g[T[q]]
        BY <4>1, <2>1
      <4> QED
        BY <4>1, <4>2, <2>5, <2>7
    <3> QED
      BY <3>1, <3>2
  <2>9. f = [q \in p..N |-> f[q]]
    OBVIOUS
  <2>10. f = [q \in p..N |-> IF q \in S THEN T[q] ELSE f[T[q]]]
    <3> HIDE DEF f
    <3> QED
      BY <2>8, <2>9
  <2> HIDE DEF f
  <2>11. Solves(f, k + 1)
    BY <2>10 DEF p
  <2> QED
    BY <2>11
<1> HIDE DEF X
<1>3. \A k \in Nat : k \in X
  BY <1>1, <1>2, Induct
<1>4. N \in X
  BY <1>3
<1>5. PICK f : Solves(f, N)
  BY <1>4 DEF X
<1>6. f = [q \in 0..N |-> IF q \in S THEN T[q] ELSE f[T[q]]]
  BY <1>5
<1>7. \A q \in 0..N : f[q] = IF q \in S THEN T[q] ELSE f[T[q]]
  BY <1>6
<1>8. f = [q \in 0..N |-> f[q]]
  BY <1>6
<1> QED
  BY <1>7, <1>8 DEF IsFunctionOn, Follows

\* f begins with x, and F makes each value of the one before.
Iterates(f, x, F, N) == f[0] = x /\ \A n \in 1..N : f[n] = F[n][f[n - 1]]

\* Such a function exists: a definition by recursion from a number to the one
\* before it defines one.
LEMMA RecursionDown ==
    ASSUME NEW N \in Nat, NEW C, NEW x \in C, NEW F \in [1..N -> [C -> C]]
    PROVE  \E f \in [0..N -> C] : Iterates(f, x, F, N)
<1> DEFINE Solves(f, k) ==
        f[0] = x /\ \A n \in 1..k : f[n] = F[n][f[n - 1]]
           X == {k \in Nat : k <= N => \E f \in [0..k -> C] : Solves(f, k)}
<1>1. 0 \in X
  <2> DEFINE f == [n \in 0..0 |-> x]
  <2>1. f \in [0..0 -> C] /\ Solves(f, 0)
    OBVIOUS
  <2> QED
    BY <2>1
<1>2. ASSUME NEW k \in Nat, k \in X PROVE k + 1 \in X
  <2> SUFFICES ASSUME k + 1 <= N PROVE \E f \in [0..(k + 1) -> C] : Solves(f, k + 1)
    OBVIOUS
  <2>1. PICK g \in [0..k -> C] : Solves(g, k)
    BY <1>2
  <2> DEFINE f == [n \in 0..(k + 1) |-> IF n = k + 1 THEN F[k + 1][g[k]] ELSE g[n]]
  <2>2. g[k] \in C /\ k + 1 \in 1..N
    OBVIOUS
  <2>3. F[k + 1][g[k]] \in C
    BY <2>2
  <2>4. f \in [0..(k + 1) -> C]
    BY <2>3
  <2>5. ASSUME NEW n \in 1..(k + 1) PROVE f[n] = F[n][f[n - 1]]
    <3>1. CASE n = k + 1
      BY <3>1
    <3>2. CASE n # k + 1
      BY <3>2, <2>1
    <3> QED
      BY <3>1, <3>2
  <2>6. f[0] = x
    BY <2>1
  <2> QED
    BY <2>4, <2>5, <2>6
<1> HIDE DEF X
<1>3. \A k \in Nat : k \in X
  BY <1>1, <1>2, Induct
<1>4. N \in X
  BY <1>3
<1> QED
  BY <1>4 DEF X, Iterates

-----------------------------------------------------------------------------
(* Runs of bytes, and the places where insignificant ones end. *)

\* q is where the run of bytes of class C ends that starts at p.
IsRunEnd(s, p, C, q) ==
    /\ q \in p..Len(s)
    /\ \A r \in p..(q - 1) : At(s, r) \in C
    /\ Inside(s, q) => At(s, q) \notin C

\* RunEnd is where the run ends.
LEMMA RunEnds ==
    ASSUME NEW s, Len(s) \in Nat, NEW p \in 0..Len(s), NEW C
    PROVE  IsRunEnd(s, p, C, RunEnd(s, p, C))
<1> DEFINE X == {q \in p..Len(s) : Inside(s, q) => At(s, q) \notin C}
<1>1. Len(s) \in X /\ X \subseteq Nat
  BY DEF Inside
<1>2. PICK q \in X : \A m \in X : q <= m
  <2> HIDE DEF X
  <2> QED
    BY <1>1, LeastOf
<1>3. \A r \in p..(q - 1) : At(s, r) \in C
  <2> SUFFICES ASSUME NEW r \in p..(q - 1), At(s, r) \notin C PROVE FALSE
    OBVIOUS
  <2>1. r \in X
    BY <1>1
  <2> QED
    BY <2>1, <1>2
<1> QED
  BY <1>2, <1>3 DEF RunEnd, IsRunEnd

\* A run of bytes ends in one place only.
LEMMA RunEndIsUnique ==
    ASSUME NEW s, Len(s) \in Nat, NEW p \in 0..Len(s), NEW C, NEW q, IsRunEnd(s, p, C, q)
    PROVE  RunEnd(s, p, C) = q
<1> DEFINE r == RunEnd(s, p, C)
<1>1. IsRunEnd(s, p, C, r)
  BY RunEnds
<1> HIDE DEF r
<1>2. r \in Nat /\ q \in Nat /\ r <= Len(s) /\ q <= Len(s) /\ p <= r /\ p <= q
  BY <1>1 DEF IsRunEnd
<1>3. ~(r < q)
  <2> SUFFICES ASSUME r < q PROVE FALSE
    OBVIOUS
  <2>1. r \in p..(q - 1) /\ Inside(s, r)
    BY <1>2 DEF Inside
  <2> QED
    BY <2>1, <1>1 DEF IsRunEnd
<1>4. ~(q < r)
  <2> SUFFICES ASSUME q < r PROVE FALSE
    OBVIOUS
  <2>1. q \in p..(r - 1) /\ Inside(s, q)
    BY <1>2 DEF Inside
  <2> QED
    BY <2>1, <1>1 DEF IsRunEnd
<1> QED
  BY <1>2, <1>3, <1>4 DEF r

\* The least place where a block comment may close is the one that is chosen.
LEMMA BlockCommentEnds ==
    ASSUME NEW s, Len(s) \in Nat, NEW p \in 0..Len(s), p + 2 <= Len(s)
    PROVE  LET ends == {q \in (p + 4)..Len(s) : At(s, q - 2) = STAR /\ At(s, q - 1) = SLASH}
           IN  \/ ends = {} /\ BlockCommentEnd(s, p) = Len(s)
               \/ BlockCommentEnd(s, p) \in ends /\ \A r \in ends : BlockCommentEnd(s, p) <= r
<1> DEFINE ends == {q \in (p + 4)..Len(s) : At(s, q - 2) = STAR /\ At(s, q - 1) = SLASH}
<1>1. CASE ends = {}
  BY <1>1 DEF BlockCommentEnd
<1>2. CASE ends # {}
  <2>1. ends \subseteq Nat
    OBVIOUS
  <2>2. \E q \in ends : \A r \in ends : q <= r
    <3> HIDE DEF ends
    <3> QED
      BY <1>2, <2>1, LeastOf
  <2>3. BlockCommentEnd(s, p) = CHOOSE q \in ends : \A r \in ends : q <= r
    BY <1>2 DEF BlockCommentEnd
  <2> HIDE DEF ends
  <2>4. BlockCommentEnd(s, p) \in ends /\ \A r \in ends : BlockCommentEnd(s, p) <= r
    BY <2>2, <2>3
  <2> QED
    BY <2>4 DEF ends
<1> QED
  BY <1>1, <1>2

\* A comment, of a line or a block, ends behind where it opens.
LEMMA CommentEndsBehind ==
    ASSUME NEW s, Len(s) \in Nat, NEW p \in 0..Len(s), NEW b, Opens(s, p, b)
    PROVE  /\ LineCommentEnd(s, p) \in (p + 2)..Len(s)
           /\ BlockCommentEnd(s, p) \in (p + 2)..Len(s)
<1>1. p + 2 \in 0..Len(s)
  BY DEF Opens, Inside
<1>2. LineCommentEnd(s, p) \in (p + 2)..Len(s)
  BY <1>1, RunEnds DEF LineCommentEnd, IsRunEnd
<1>3. BlockCommentEnd(s, p) \in (p + 2)..Len(s)
  BY <1>1, BlockCommentEnds
<1> QED
  BY <1>2, <1>3

\* What SkipIgnored's definition by recursion comes to.
LEMMA SkipIgnoredUnfolds ==
    ASSUME NEW s, Len(s) \in Nat, NEW p \in 0..Len(s)
    PROVE  LET q == RunEnd(s, p, Whitespace)
           IN  SkipIgnored(s, p) =
                 IF Opens(s, q, SLASH) THEN SkipIgnored(s, LineCommentEnd(s, q))
                 ELSE IF Opens(s, q, STAR) THEN SkipIgnored(s, BlockCommentEnd(s, q))
                 ELSE q
<1> DEFINE run(from) == RunEnd(s, from, Whitespace)
           body(f, from) ==
              LET q == RunEnd(s, from, Whitespace)
              IN  IF Opens(s, q, SLASH) THEN f[LineCommentEnd(s, q)]
                  ELSE IF Opens(s, q, STAR) THEN f[BlockCommentEnd(s, q)]
                  ELSE q
           skip == CHOOSE f : f = [from \in 0..Len(s) |-> body(f, from)]
           still == {from \in 0..Len(s) : ~Opens(s, run(from), SLASH) /\ ~Opens(s, run(from), STAR)}
           step == [from \in 0..Len(s) |->
                      IF Opens(s, run(from), SLASH) THEN LineCommentEnd(s, run(from))
                      ELSE IF Opens(s, run(from), STAR) THEN BlockCommentEnd(s, run(from))
                      ELSE run(from)]
<1>1. \A from : SkipIgnored(s, from) = skip[from]
  BY DEF SkipIgnored
<1>2. \A from \in 0..Len(s) : run(from) \in from..Len(s)
  BY RunEnds DEF IsRunEnd
<1>3. ASSUME NEW from \in 0..Len(s), from \notin still PROVE step[from] \in (from + 1)..Len(s)
  <2>1. run(from) \in 0..Len(s) /\ from <= run(from)
    BY <1>2
  <2>2. Opens(s, run(from), SLASH) \/ Opens(s, run(from), STAR)
    BY <1>3
  <2>3. step[from] \in {LineCommentEnd(s, run(from)), BlockCommentEnd(s, run(from))}
    BY <2>2
  <2> HIDE DEF step
  <2> QED
    BY <2>1, <2>2, <2>3, CommentEndsBehind
<1>4. PICK f : Follows(f, step, still, Len(s))
  <2>1. Rises(step, still, Len(s))
    BY <1>3 DEF Rises
  <2> HIDE DEF still, step
  <2> QED
    BY <2>1, RecursionUp
<1>5. \A from \in 0..Len(s) :
        body(f, from) = IF from \in still THEN step[from] ELSE f[step[from]]
  OBVIOUS
<1>6. f = [from \in 0..Len(s) |-> body(f, from)]
  <2> HIDE DEF still, step, body
  <2> QED
    BY <1>4, <1>5 DEF IsFunctionOn, Follows
<1>7. skip = [from \in 0..Len(s) |-> body(skip, from)]
  <2> HIDE DEF body
  <2> QED
    BY <1>6
<1> HIDE DEF skip
<1>8. skip[p] = body(skip, p)
  BY <1>7
<1> QED
  BY <1>1, <1>8

\* Insignificant bytes end inside the input, or where it does.
LEMMA SkipIgnoredInRange ==
    ASSUME NEW s, Len(s) \in Nat, NEW p \in 0..Len(s)
    PROVE  SkipIgnored(s, p) \in p..Len(s)
<1> DEFINE X == {from \in 0..Len(s) : SkipIgnored(s, from) \in from..Len(s)}
<1>1. ASSUME NEW from \in 0..Len(s), \A later \in (from + 1)..Len(s) : later \in X
      PROVE  from \in X
  <2> DEFINE q == RunEnd(s, from, Whitespace)
  <2>1. q \in from..Len(s)
    BY RunEnds DEF IsRunEnd
  <2>2. SkipIgnored(s, from) =
          IF Opens(s, q, SLASH) THEN SkipIgnored(s, LineCommentEnd(s, q))
          ELSE IF Opens(s, q, STAR) THEN SkipIgnored(s, BlockCommentEnd(s, q))
          ELSE q
    BY SkipIgnoredUnfolds
  <2> HIDE DEF q
  <2>3. CASE Opens(s, q, SLASH)
    <3>1. LineCommentEnd(s, q) \in (q + 2)..Len(s)
      BY <2>1, <2>3, CommentEndsBehind
    <3>2. LineCommentEnd(s, q) \in X
      BY <1>1, <2>1, <3>1
    <3> QED
      BY <2>1, <2>2, <2>3, <3>1, <3>2
  <2>4. CASE Opens(s, q, STAR) /\ ~Opens(s, q, SLASH)
    <3>1. BlockCommentEnd(s, q) \in (q + 2)..Len(s)
      BY <2>1, <2>4, CommentEndsBehind
    <3>2. BlockCommentEnd(s, q) \in X
      BY <1>1, <2>1, <3>1
    <3> QED
      BY <2>1, <2>2, <2>4, <3>1, <3>2
  <2>5. CASE ~Opens(s, q, STAR) /\ ~Opens(s, q, SLASH)
    BY <2>1, <2>2, <2>5
  <2> QED
    BY <2>3, <2>4, <2>5
<1>2. \A from \in 0..Len(s) : from \in X
  <2> HIDE DEF X
  <2> QED
    BY <1>1, InductDown
<1> QED
  BY <1>2

\* What ClosingQuote's definition by recursion comes to.
LEMMA ClosingQuoteUnfolds ==
    ASSUME NEW s, Len(s) \in Nat, NEW p \in 0..(Len(s) + 1)
    PROVE  ClosingQuote(s, p) =
             IF ~Inside(s, p) THEN Eof
             ELSE IF At(s, p) = QUOTE THEN Found("String", p + 1)
             ELSE ClosingQuote(s, IF At(s, p) = BACKSLASH THEN p + 2 ELSE p + 1)
<1> DEFINE N == Len(s) + 1
           body(f, cursor) ==
              IF ~Inside(s, cursor) THEN Eof
              ELSE IF At(s, cursor) = QUOTE THEN Found("String", cursor + 1)
              ELSE f[IF At(s, cursor) = BACKSLASH THEN cursor + 2 ELSE cursor + 1]
           close == CHOOSE f : f = [cursor \in 0..(Len(s) + 1) |-> body(f, cursor)]
           still == {cursor \in 0..N : ~Inside(s, cursor) \/ At(s, cursor) = QUOTE}
           step == [cursor \in 0..N |->
                      IF ~Inside(s, cursor) THEN Eof
                      ELSE IF At(s, cursor) = QUOTE THEN Found("String", cursor + 1)
                      ELSE IF At(s, cursor) = BACKSLASH THEN cursor + 2 ELSE cursor + 1]
<1>1. \A cursor : ClosingQuote(s, cursor) = close[cursor]
  BY DEF ClosingQuote
<1>2. Rises(step, still, N)
  <2>1. ASSUME NEW cursor \in 0..N, cursor \notin still PROVE step[cursor] \in (cursor + 1)..N
    <3>1. Inside(s, cursor) /\ At(s, cursor) # QUOTE
      BY <2>1
    <3>2. step[cursor] \in {cursor + 1, cursor + 2}
      BY <3>1
    <3> HIDE DEF step
    <3> QED
      BY <3>1, <3>2 DEF Inside
  <2> QED
    BY <2>1 DEF Rises
<1>3. PICK f : Follows(f, step, still, N)
  <2> HIDE DEF still, step
  <2> QED
    BY <1>2, RecursionUp
<1>4. \A cursor \in 0..N :
        body(f, cursor) = IF cursor \in still THEN step[cursor] ELSE f[step[cursor]]
  OBVIOUS
<1>5. f = [cursor \in 0..N |-> body(f, cursor)]
  <2> HIDE DEF still, step, body
  <2> QED
    BY <1>3, <1>4 DEF IsFunctionOn, Follows
<1>6. close = [cursor \in 0..(Len(s) + 1) |-> body(close, cursor)]
  <2> HIDE DEF body
  <2> QED
    BY <1>5
<1> HIDE DEF close
<1>7. close[p] = body(close, p)
  BY <1>6
<1> QED
  BY <1>1, <1>7

\* A string closes behind the place where it is looked for, or not at all.
LEMMA ClosingQuoteInRange ==
    ASSUME NEW s, Len(s) \in Nat, NEW p \in 0..(Len(s) + 1)
    PROVE  \/ ClosingQuote(s, p) = Eof
           \/ \E q \in (p + 1)..Len(s) : ClosingQuote(s, p) = Found("String", q)
<1> DEFINE N == Len(s) + 1
           X == {cursor \in 0..N :
                   \/ ClosingQuote(s, cursor) = Eof
                   \/ \E q \in (cursor + 1)..Len(s) : ClosingQuote(s, cursor) = Found("String", q)}
<1>1. ASSUME NEW cursor \in 0..N, \A later \in (cursor + 1)..N : later \in X
      PROVE  cursor \in X
  <2> DEFINE next == IF At(s, cursor) = BACKSLASH THEN cursor + 2 ELSE cursor + 1
  <2>1. ClosingQuote(s, cursor) =
             IF ~Inside(s, cursor) THEN Eof
             ELSE IF At(s, cursor) = QUOTE THEN Found("String", cursor + 1)
             ELSE ClosingQuote(s, next)
    BY ClosingQuoteUnfolds
  <2>2. next \in {cursor + 1, cursor + 2}
    OBVIOUS
  <2> HIDE DEF next
  <2>3. CASE ~Inside(s, cursor)
    BY <2>1, <2>3
  <2>4. CASE Inside(s, cursor) /\ At(s, cursor) = QUOTE
    <3>1. cursor + 1 \in (cursor + 1)..Len(s)
      BY <2>4 DEF Inside
    <3> QED
      BY <2>1, <2>4, <3>1
  <2>5. CASE Inside(s, cursor) /\ At(s, cursor) # QUOTE
    <3>1. next \in (cursor + 1)..N
      BY <2>2, <2>5 DEF Inside
    <3>2. next \in X
      BY <3>1, <1>1
    <3>3. ClosingQuote(s, cursor) = ClosingQuote(s, next)
      BY <2>1, <2>5
    <3>4. \A q \in (next + 1)..Len(s) : q \in (cursor + 1)..Len(s)
      BY <3>1
    <3> QED
      BY <3>2, <3>3, <3>4
  <2> QED
    BY <2>3, <2>4, <2>5
<1>2. \A cursor \in 0..N : cursor \in X
  <2>1. N \in Nat
    OBVIOUS
  <2> HIDE DEF X, N
  <2> QED
    BY <1>1, <2>1, InductDown
<1> QED
  BY <1>2

-----------------------------------------------------------------------------
(***************************************************************************)
(* Two inputs that begin with the same M bytes.  What ends in front of L   *)
(* in u is the same in v, if a byte follows L or v ends there: then v does *)
(* not go on where u stops.                                                *)
(***************************************************************************)
Shares(u, v, M) ==
    /\ M \in Nat /\ M <= Len(u) /\ M <= Len(v)
    /\ \A r \in 0..(M - 1) : At(u, r) = At(v, r)

Settles(u, v, M, L) ==
    /\ Shares(u, v, M)
    /\ L \in Nat /\ (L < M \/ (L = M /\ M = Len(v)))

\* A run of bytes that ends in front of the last shared byte, or with the second
\* input, ends in the same place in both.
LEMMA RunsAgree ==
    ASSUME NEW u, NEW v, Len(u) \in Nat, Len(v) \in Nat, NEW M, NEW p, NEW C,
           Shares(u, v, M), p \in 0..M,
           LET q == RunEnd(u, p, C) IN q < M \/ (q = M /\ M = Len(v))
    PROVE  RunEnd(v, p, C) = RunEnd(u, p, C)
<1> DEFINE q == RunEnd(u, p, C)
<1>1. p \in 0..Len(u) /\ p \in 0..Len(v) /\ M \in Nat
  BY DEF Shares
<1>2. IsRunEnd(u, p, C, q)
  BY <1>1, RunEnds
<1>3. q < M \/ (q = M /\ M = Len(v))
  OBVIOUS
<1> HIDE DEF q
<1>4. q \in p..Len(v) /\ q <= M
  BY <1>1, <1>2, <1>3 DEF IsRunEnd, Shares
<1>5. \A r \in p..(q - 1) : At(v, r) \in C
  BY <1>1, <1>2, <1>4 DEF IsRunEnd, Shares
<1>6. Inside(v, q) => At(v, q) \notin C
  <2> SUFFICES ASSUME Inside(v, q) PROVE At(v, q) \notin C
    OBVIOUS
  <2>1. q < M
    BY <1>3, <1>4 DEF Inside
  <2>2. Inside(u, q) /\ At(u, q) = At(v, q)
    BY <2>1, <1>1, <1>4 DEF Shares, Inside
  <2> QED
    BY <2>2, <1>2 DEF IsRunEnd
<1>7. IsRunEnd(v, p, C, q)
  BY <1>4, <1>5, <1>6 DEF IsRunEnd
<1>8. RunEnd(v, p, C) = q
  BY <1>1, <1>7, RunEndIsUnique
<1> QED
  BY <1>8 DEF q

\* What lies between two shared places is the same.
LEMMA SlicesAgree ==
    ASSUME NEW u \in Seq(Byte), NEW v \in Seq(Byte), NEW M, Shares(u, v, M),
           NEW p \in 0..M, NEW q \in p..M
    PROVE  /\ Slice(v, p, q) = Slice(u, p, q)
           /\ Slice(u, p, q) \in Seq(Byte)
           /\ Len(Slice(u, p, q)) = q - p
           /\ \A i \in 1..(q - p) : Slice(u, p, q)[i] = At(u, p + i - 1)
<1>1. M \in Nat /\ Len(u) \in Nat /\ Len(v) \in Nat /\ M <= Len(u) /\ M <= Len(v)
  BY DEF Shares
<1>2. p + 1 \in Int /\ q \in Int
  BY <1>1
<1>3. /\ \A i \in (p + 1)..q : u[i] \in Byte
      /\ \A i \in (p + 1)..q : v[i] \in Byte
  BY <1>1, ElementOfSeq
<1>4. \A i \in (p + 1)..q : u[i] = v[i]
  <2>1. ASSUME NEW i \in (p + 1)..q PROVE u[i] = v[i]
    <3>1. i - 1 \in 0..(M - 1) /\ (i - 1) + 1 = i
      BY <1>1
    <3>2. At(u, i - 1) = At(v, i - 1)
      BY <3>1 DEF Shares
    <3> QED
      BY <3>1, <3>2 DEF At
  <2> QED
    BY <2>1
<1>5. /\ SubSeq(u, p + 1, q) \in Seq(Byte)
      /\ Len(SubSeq(u, p + 1, q)) = IF p + 1 <= q THEN q - (p + 1) + 1 ELSE 0
      /\ \A i \in 1..(q - (p + 1) + 1) : SubSeq(u, p + 1, q)[i] = u[(p + 1) + i - 1]
  BY <1>2, <1>3, SubSeqProperties
<1>6. /\ SubSeq(v, p + 1, q) \in Seq(Byte)
      /\ Len(SubSeq(v, p + 1, q)) = IF p + 1 <= q THEN q - (p + 1) + 1 ELSE 0
      /\ \A i \in 1..(q - (p + 1) + 1) : SubSeq(v, p + 1, q)[i] = v[(p + 1) + i - 1]
  BY <1>2, <1>3, SubSeqProperties
<1>7. (IF p + 1 <= q THEN q - (p + 1) + 1 ELSE 0) = q - p /\ q - (p + 1) + 1 = q - p
  BY <1>1
<1>8. \A i \in 1..(q - p) : (p + 1) + i - 1 \in (p + 1)..q /\ (p + 1) + i - 1 = (p + i - 1) + 1
  BY <1>1
<1>9. SubSeq(u, p + 1, q) = SubSeq(v, p + 1, q)
  <2>1. \A i \in 1..(q - p) : SubSeq(u, p + 1, q)[i] = SubSeq(v, p + 1, q)[i]
    BY <1>4, <1>5, <1>6, <1>7, <1>8
  <2> QED
    BY <1>5, <1>6, <1>7, <2>1, SeqEqual
<1>10. \A i \in 1..(q - p) : SubSeq(u, p + 1, q)[i] = At(u, p + i - 1)
  BY <1>5, <1>7, <1>8 DEF At
<1> QED
  BY <1>5, <1>7, <1>9, <1>10 DEF Slice

\* Where insignificant bytes end in front of L, they end there in both.
LEMMA SkipsAgree ==
    ASSUME NEW u, NEW v, Len(u) \in Nat, Len(v) \in Nat, NEW M, NEW L, Settles(u, v, M, L),
           NEW p \in 0..M, SkipIgnored(u, p) < L
    PROVE  SkipIgnored(v, p) = SkipIgnored(u, p)
<1>1. /\ Shares(u, v, M) /\ M \in Nat /\ L \in Nat /\ L <= M /\ M <= Len(u) /\ M <= Len(v)
      /\ L < M \/ (L = M /\ M = Len(v))
  BY DEF Settles, Shares
<1> DEFINE X == {from \in 0..M : SkipIgnored(u, from) < L
                                    => SkipIgnored(v, from) = SkipIgnored(u, from)}
<1>2. ASSUME NEW from \in 0..M, \A later \in (from + 1)..M : later \in X
      PROVE  from \in X
  <2> SUFFICES ASSUME SkipIgnored(u, from) < L
               PROVE  SkipIgnored(v, from) = SkipIgnored(u, from)
    OBVIOUS
  <2> DEFINE q == RunEnd(u, from, Whitespace)
             w == RunEnd(v, from, Whitespace)
  <2>1. from \in 0..Len(u) /\ from \in 0..Len(v)
    BY <1>1
  <2>2. q \in from..Len(u)
    BY <2>1, RunEnds DEF IsRunEnd
  <2>3. SkipIgnored(u, from) =
          IF Opens(u, q, SLASH) THEN SkipIgnored(u, LineCommentEnd(u, q))
          ELSE IF Opens(u, q, STAR) THEN SkipIgnored(u, BlockCommentEnd(u, q))
          ELSE q
    BY <2>1, SkipIgnoredUnfolds
  <2>4. SkipIgnored(v, from) =
          IF Opens(v, w, SLASH) THEN SkipIgnored(v, LineCommentEnd(v, w))
          ELSE IF Opens(v, w, STAR) THEN SkipIgnored(v, BlockCommentEnd(v, w))
          ELSE w
    BY <2>1, SkipIgnoredUnfolds
  <2>5. q < M => w = q
    BY <1>1, RunsAgree
  <2> HIDE DEF q, w
  <2>6. ASSUME NEW b, Opens(u, q, b), NEW e \in (q + 2)..Len(u), SkipIgnored(u, from) = SkipIgnored(u, e)
        PROVE  e < L /\ e \in (from + 1)..M /\ Opens(v, q, b) /\ w = q
    <3>1. SkipIgnored(u, e) \in e..Len(u)
      BY <2>2, <2>6, SkipIgnoredInRange
    <3>2. e < L /\ q + 2 <= e /\ q \in Nat /\ e \in Nat
      BY <1>1, <2>2, <3>1, <2>6
    <3>3. At(u, q) = At(v, q) /\ At(u, q + 1) = At(v, q + 1)
      BY <1>1, <3>2 DEF Shares
    <3>4. Opens(v, q, b)
      BY <1>1, <2>6, <3>2, <3>3 DEF Opens, Inside
    <3> QED
      BY <1>1, <2>2, <2>5, <3>2, <3>4
  <2>7. CASE Opens(u, q, SLASH)
    <3> DEFINE e == LineCommentEnd(u, q)
    <3>1. e \in (q + 2)..Len(u) /\ q \in 0..Len(u)
      BY <2>2, <2>7, CommentEndsBehind
    <3>2. SkipIgnored(u, from) = SkipIgnored(u, e)
      BY <2>3, <2>7
    <3>3. e < L /\ e \in (from + 1)..M /\ Opens(v, q, SLASH) /\ w = q
      <4> HIDE DEF e
      <4> QED
        BY <2>6, <2>7, <3>1, <3>2
    <3>4. e < M
      BY <1>1, <3>3
    <3>5. q + 2 \in 0..M
      BY <1>1, <3>1, <3>3
    <3>6. LineCommentEnd(v, q) = e
      BY <1>1, <3>4, <3>5, RunsAgree DEF LineCommentEnd
    <3> HIDE DEF e
    <3>7. e \in X
      BY <1>2, <3>3
    <3> QED
      BY <2>4, <3>2, <3>3, <3>6, <3>7
  <2>8. CASE Opens(u, q, STAR) /\ ~Opens(u, q, SLASH)
    <3> DEFINE e == BlockCommentEnd(u, q)
               endsIn(s) == {z \in (q + 4)..Len(s) : At(s, z - 2) = STAR /\ At(s, z - 1) = SLASH}
    <3>1. e \in (q + 2)..Len(u) /\ q \in 0..Len(u) /\ q + 2 <= Len(u)
      BY <2>2, <2>8, CommentEndsBehind DEF Opens, Inside
    <3>2. SkipIgnored(u, from) = SkipIgnored(u, e)
      BY <2>3, <2>8
    <3>3. e < L /\ e \in (from + 1)..M /\ Opens(v, q, STAR) /\ w = q
      <4> HIDE DEF e
      <4> QED
        BY <2>6, <2>8, <3>1, <3>2
    <3>4. ~Opens(v, q, SLASH)
      BY <3>3 DEF Opens, SLASH, STAR
    <3>5. e \in endsIn(u) /\ \A z \in endsIn(u) : e <= z
      <4>1. \/ endsIn(u) = {} /\ e = Len(u)
            \/ e \in endsIn(u) /\ \A z \in endsIn(u) : e <= z
        BY <3>1, BlockCommentEnds
      <4> HIDE DEF endsIn, e
      <4> QED
        BY <1>1, <3>3, <4>1
    <3>6. q \in 0..Len(v) /\ q + 2 <= Len(v)
      BY <3>1, <3>3 DEF Opens, Inside
    <3>7. \/ endsIn(v) = {} /\ BlockCommentEnd(v, q) = Len(v)
          \/ BlockCommentEnd(v, q) \in endsIn(v) /\ \A z \in endsIn(v) : BlockCommentEnd(v, q) <= z
      BY <3>6, BlockCommentEnds
    <3> HIDE DEF e
    <3>8. \A z \in (q + 4)..M : z \in endsIn(u) <=> z \in endsIn(v)
      <4> SUFFICES ASSUME NEW z \in (q + 4)..M PROVE z \in endsIn(u) <=> z \in endsIn(v)
        OBVIOUS
      <4>1. At(u, z - 2) = At(v, z - 2) /\ At(u, z - 1) = At(v, z - 1)
        BY <1>1, <3>1 DEF Shares
      <4> QED
        BY <1>1, <3>1, <4>1
    <3>9. e \in (q + 4)..M /\ e \in endsIn(v)
      <4>1. e \in (q + 4)..M
        BY <3>3, <3>5, <1>1, <3>1
      <4> QED
        BY <4>1, <3>8, <3>5
    <3>10. BlockCommentEnd(v, q) = e
      <4> DEFINE z == BlockCommentEnd(v, q)
      <4>1. z \in endsIn(v) /\ z <= e
        BY <3>7, <3>9
      <4> HIDE DEF z
      <4>2. z \in (q + 4)..M
        BY <4>1, <3>9, <3>1, <1>1
      <4>3. z \in endsIn(u)
        BY <4>1, <4>2, <3>8
      <4>4. e <= z
        BY <4>3, <3>5
      <4>5. z = e
        BY <4>1, <4>2, <4>4, <3>9, <1>1, <3>1
      <4> QED
        BY <4>5 DEF z
    <3>11. e \in X
      BY <1>2, <3>3
    <3> QED
      BY <2>4, <3>2, <3>3, <3>4, <3>10, <3>11
  <2>9. CASE ~Opens(u, q, STAR) /\ ~Opens(u, q, SLASH)
    <3>1. SkipIgnored(u, from) = q /\ q < L /\ q \in Nat
      BY <2>2, <2>3, <2>9
    <3>2. w = q
      BY <1>1, <2>5, <3>1
    <3>3. ASSUME NEW b, Opens(v, q, b) PROVE Opens(u, q, b)
      <4>1. q + 1 < M
        BY <1>1, <3>1, <3>3 DEF Opens, Inside
      <4>2. At(u, q) = At(v, q) /\ At(u, q + 1) = At(v, q + 1)
        BY <1>1, <3>1, <4>1 DEF Shares
      <4> QED
        BY <1>1, <3>1, <3>3, <4>1, <4>2 DEF Opens, Inside
    <3> QED
      BY <2>4, <2>9, <3>1, <3>2, <3>3
  <2> QED
    BY <2>7, <2>8, <2>9
<1>3. \A from \in 0..M : from \in X
  <2> HIDE DEF X
  <2> QED
    BY <1>1, <1>2, InductDown
<1> QED
  BY <1>3

-----------------------------------------------------------------------------
(* Text tokens. *)

\* A quoted string that is closed among the shared bytes is closed in the same
\* place in both.
LEMMA ClosingQuotesAgree ==
    ASSUME NEW u, NEW v, Len(u) \in Nat, Len(v) \in Nat, NEW M, Shares(u, v, M),
           NEW p \in 0..M,
           ~Failed(ClosingQuote(u, p)), ClosingQuote(u, p).at <= M
    PROVE  ClosingQuote(v, p) = ClosingQuote(u, p)
<1>1. M \in Nat /\ M <= Len(u) /\ M <= Len(v)
  BY DEF Shares
<1> DEFINE Ends(cursor) == ~Failed(ClosingQuote(u, cursor)) /\ ClosingQuote(u, cursor).at <= M
           X == {cursor \in 0..M : Ends(cursor) => ClosingQuote(v, cursor) = ClosingQuote(u, cursor)}
<1>2. ASSUME NEW cursor \in 0..M, \A later \in (cursor + 1)..M : later \in X
      PROVE  cursor \in X
  <2> SUFFICES ASSUME Ends(cursor) PROVE ClosingQuote(v, cursor) = ClosingQuote(u, cursor)
    OBVIOUS
  <2> DEFINE nextIn(s) == IF At(s, cursor) = BACKSLASH THEN cursor + 2 ELSE cursor + 1
             next == nextIn(u)
  <2>1. cursor \in 0..(Len(u) + 1) /\ cursor \in 0..(Len(v) + 1)
    BY <1>1
  <2>2. ClosingQuote(u, cursor) =
             IF ~Inside(u, cursor) THEN Eof
             ELSE IF At(u, cursor) = QUOTE THEN Found("String", cursor + 1)
             ELSE ClosingQuote(u, next)
    BY <2>1, ClosingQuoteUnfolds
  <2>3. ClosingQuote(v, cursor) =
             IF ~Inside(v, cursor) THEN Eof
             ELSE IF At(v, cursor) = QUOTE THEN Found("String", cursor + 1)
             ELSE ClosingQuote(v, nextIn(v))
    BY <2>1, ClosingQuoteUnfolds
  <2>4. next \in {cursor + 1, cursor + 2}
    OBVIOUS
  <2>5. At(u, cursor) = At(v, cursor) => nextIn(v) = next
    OBVIOUS
  <2> HIDE DEF next, nextIn
  <2>6. PICK q \in (cursor + 1)..Len(u) : ClosingQuote(u, cursor) = Found("String", q)
    BY <2>1, ClosingQuoteInRange DEF Failed, Eof
  <2>7. q <= M /\ cursor < M
    BY <1>1, <2>6 DEF Found
  <2>8. At(u, cursor) = At(v, cursor) /\ Inside(u, cursor) /\ Inside(v, cursor)
    BY <1>1, <2>7 DEF Shares, Inside
  <2>9. CASE At(u, cursor) = QUOTE
    BY <2>2, <2>3, <2>8, <2>9
  <2>10. CASE At(u, cursor) # QUOTE
    <3>1. ClosingQuote(u, cursor) = ClosingQuote(u, next)
      BY <2>2, <2>8, <2>10
    <3>2. next \in 0..(Len(u) + 1)
      BY <1>1, <2>4, <2>7
    <3>3. \E z \in (next + 1)..Len(u) : ClosingQuote(u, next) = Found("String", z)
      BY <3>1, <3>2, ClosingQuoteInRange DEF Failed, Eof
    <3>4. next < M
      BY <1>1, <2>4, <2>6, <2>7, <3>1, <3>3 DEF Found
    <3>5. next \in (cursor + 1)..M
      BY <1>1, <2>4, <3>4
    <3>6. next \in X /\ Ends(next)
      BY <3>1, <3>5, <1>2
    <3> QED
      BY <2>3, <2>5, <2>8, <2>10, <3>1, <3>6
  <2> QED
    BY <2>9, <2>10
<1>3. \A cursor \in 0..M : cursor \in X
  <2> HIDE DEF X
  <2> QED
    BY <1>1, <1>2, InductDown
<1> QED
  BY <1>3

\* A run that begins with a byte of its class is not empty.
LEMMA RunIsNotEmpty ==
    ASSUME NEW s, Len(s) \in Nat, NEW p \in 0..(Len(s) - 1), NEW C, At(s, p) \in C
    PROVE  RunEnd(s, p, C) \in (p + 1)..Len(s)
<1>1. p \in 0..Len(s) /\ Inside(s, p)
  BY DEF Inside
<1>2. IsRunEnd(s, p, C, RunEnd(s, p, C))
  BY <1>1, RunEnds
<1> QED
  BY <1>1, <1>2 DEF IsRunEnd

\* A number in text has at least one byte, and ends inside the input.
LEMMA TextNumberInRange ==
    ASSUME NEW s, Len(s) \in Nat, NEW p \in 0..(Len(s) - 1),
           At(s, p) \in Digit \cup {PLUS, MINUS}, ~Failed(TextNumber(s, p))
    PROVE  TextNumber(s, p).at \in (p + 1)..Len(s)
<1> DEFINE C == Digit \cup {PLUS, MINUS, DOT, LOWER_E, UPPER_E}
           q == RunEnd(s, p, C)
           isUnsigned == Inside(s, q) /\ At(s, q) = LOWER_U
<1>1. q \in (p + 1)..Len(s)
  <2>1. At(s, p) \in C
    OBVIOUS
  <2> HIDE DEF C
  <2> QED
    BY <2>1, RunIsNotEmpty
<1>2. \/ TextNumber(s, p) = Bad
      \/ isUnsigned /\ TextNumber(s, p) = Found("Uint64", q + 1)
      \/ \E kind : TextNumber(s, p) = Found(kind, q)
  BY DEF TextNumber
<1> HIDE DEF q
<1>3. TextNumber(s, p) # Bad
  BY DEF Failed, Bad
<1> QED
  BY <1>1, <1>2, <1>3 DEF Found, Inside

\* A number in text that is settled is the same in both inputs.
LEMMA TextNumbersAgree ==
    ASSUME NEW u \in Seq(Byte), NEW v \in Seq(Byte), NEW M, NEW L, Settles(u, v, M, L),
           NEW p \in 0..(M - 1), At(u, p) \in Digit \cup {PLUS, MINUS},
           ~Failed(TextNumber(u, p)), TextNumber(u, p).at <= L
    PROVE  TextNumber(v, p) = TextNumber(u, p)
<1> DEFINE C == Digit \cup {PLUS, MINUS, DOT, LOWER_E, UPPER_E}
           q == RunEnd(u, p, C)
           Unsigned(s) == Inside(s, q) /\ At(s, q) = LOWER_U
           b == Slice(u, p, q)
           Outcome(unsigned) ==
              CASE unsigned -> IF ParsesU64(b) THEN Found("Uint64", q + 1) ELSE Bad
                [] ~unsigned /\ (\E i \in 1..Len(b) : b[i] \in {DOT, LOWER_E, UPPER_E}) ->
                      IF ParsesF64(b) THEN Found("Double", q) ELSE Bad
                [] OTHER -> IF ParsesI64(b) THEN Found("Int64", q)
                            ELSE IF ParsesU64(b) THEN Found("Uint64", q) ELSE Bad
<1>1. /\ Shares(u, v, M) /\ M \in Nat /\ L \in Nat /\ L <= M /\ M <= Len(u) /\ M <= Len(v)
      /\ L < M \/ (L = M /\ M = Len(v))
      /\ Len(u) \in Nat /\ Len(v) \in Nat
  BY DEF Settles, Shares
<1>2. TextNumber(u, p) = Outcome(Unsigned(u))
  BY DEF TextNumber
<1>3. RunEnd(v, p, C) = q /\ Slice(v, p, q) = b => TextNumber(v, p) = Outcome(Unsigned(v))
  BY DEF TextNumber
<1>4. q \in (p + 1)..Len(u)
  <2>1. At(u, p) \in C /\ p \in 0..(Len(u) - 1)
    BY <1>1
  <2> HIDE DEF C
  <2> QED
    BY <1>1, <2>1, RunIsNotEmpty
<1>5. /\ Outcome(TRUE) \in {Found("Uint64", q + 1), Bad}
      /\ Outcome(FALSE) = Bad \/ \E kind : Outcome(FALSE) = Found(kind, q)
  OBVIOUS
<1> HIDE DEF Outcome, C
<1>6. TextNumber(u, p) # Bad
  BY DEF Failed, Bad
<1>7. q <= L /\ (Unsigned(u) => q + 1 <= L)
  <2>1. CASE Unsigned(u)
    <3>1. TextNumber(u, p) = Found("Uint64", q + 1)
      BY <1>2, <1>5, <1>6, <2>1
    <3>2. q + 1 <= L
      BY <3>1 DEF Found
    <3> QED
      BY <3>2, <1>1, <1>4
  <2>2. CASE ~Unsigned(u)
    <3>1. TextNumber(u, p) = Outcome(FALSE)
      BY <1>2, <2>2
    <3>2. PICK kind : TextNumber(u, p) = Found(kind, q)
      BY <1>5, <1>6, <3>1
    <3>3. TextNumber(u, p).at = q
      BY <3>2 DEF Found
    <3> QED
      BY <2>2, <3>3
  <2> QED
    BY <2>1, <2>2
<1>8. q < M \/ (q = M /\ M = Len(v))
  BY <1>1, <1>4, <1>7
<1>9. RunEnd(v, p, C) = q
  BY <1>1, <1>8, RunsAgree
<1>10. Slice(v, p, q) = b
  <2>1. Shares(u, v, M) /\ p \in 0..M /\ q \in p..M
    BY <1>1, <1>4, <1>7
  <2> HIDE DEF q, b
  <2>2. Slice(v, p, q) = Slice(u, p, q)
    BY <2>1, SlicesAgree
  <2> QED
    BY <2>2 DEF b
<1>11. Unsigned(v) <=> Unsigned(u)
  <2>1. CASE q < M
    <3>1. At(u, q) = At(v, q) /\ Inside(u, q) /\ Inside(v, q)
      BY <1>1, <1>4, <2>1 DEF Shares, Inside
    <3> QED
      BY <3>1
  <2>2. CASE q = M /\ M = Len(v)
    BY <1>1, <1>7, <2>2 DEF Inside
  <2> QED
    BY <1>8, <2>1, <2>2
<1>12. CASE Unsigned(u)
  BY <1>2, <1>3, <1>9, <1>10, <1>11, <1>12
<1>13. CASE ~Unsigned(u)
  BY <1>2, <1>3, <1>9, <1>10, <1>11, <1>13
<1> QED
  BY <1>12, <1>13

\* No two of the words begin with the same byte.
LEMMA SpecialsDiffer ==
    /\ \A w \in Specials :
          /\ w.word \in Seq(Byte) /\ Len(w.word) \in 3..5 /\ w.kind \in {"Boolean", "Double"}
    /\ \A w, x \in Specials : w.word[1] = x.word[1] => w = x
  BY DEF Specials, Byte

\* A literal behind a percent sign ends inside the input.
LEMMA SpecialValueInRange ==
    ASSUME NEW s, Len(s) \in Nat, NEW p \in 0..(Len(s) - 1), ~Failed(SpecialValue(s, p))
    PROVE  \E w \in Specials : \E n \in 3..5 :
              /\ n = Len(w.word) /\ StartsWith(s, p + 1, w.word)
              /\ SpecialValue(s, p) = Found(w.kind, p + 1 + n)
              /\ p + 1 + n <= Len(s)
<1> DEFINE whole == {w \in Specials : StartsWith(s, p + 1, w.word)}
<1>1. whole # {}
  BY DEF SpecialValue, Failed, Eof, Bad
<1>2. PICK w \in whole : SpecialValue(s, p) = Found(w.kind, p + 1 + Len(w.word))
  BY <1>1 DEF SpecialValue
<1>3. w \in Specials /\ StartsWith(s, p + 1, w.word)
  OBVIOUS
<1>4. Len(w.word) \in 3..5
  BY <1>3, SpecialsDiffer
<1>5. p + 1 + Len(w.word) <= Len(s)
  BY <1>3 DEF StartsWith
<1> QED
  BY <1>2, <1>3, <1>4, <1>5

\* A literal that ends among the shared bytes is the same in both inputs.
LEMMA SpecialValuesAgree ==
    ASSUME NEW u \in Seq(Byte), NEW v \in Seq(Byte), NEW M, Shares(u, v, M),
           NEW p \in 0..(M - 1),
           ~Failed(SpecialValue(u, p)), SpecialValue(u, p).at <= M
    PROVE  SpecialValue(v, p) = SpecialValue(u, p)
<1>1. M \in Nat /\ M <= Len(u) /\ M <= Len(v) /\ Len(u) \in Nat /\ Len(v) \in Nat
  BY DEF Shares
<1> DEFINE whole == {w \in Specials : StartsWith(v, p + 1, w.word)}
<1>2. PICK w \in Specials : \E n \in 3..5 :
              /\ n = Len(w.word) /\ StartsWith(u, p + 1, w.word)
              /\ SpecialValue(u, p) = Found(w.kind, p + 1 + n)
              /\ p + 1 + n <= Len(u)
  <2>1. p \in 0..(Len(u) - 1)
    BY <1>1
  <2> QED
    BY <1>1, <2>1, SpecialValueInRange
<1>3. PICK n \in 3..5 : /\ n = Len(w.word) /\ StartsWith(u, p + 1, w.word)
                        /\ SpecialValue(u, p) = Found(w.kind, p + 1 + n)
                        /\ p + 1 + n <= Len(u)
  BY <1>2
<1> DEFINE q == p + 1 + n
<1>4. p + 1 \in 0..M /\ q \in (p + 1)..M
  <2>1. q = SpecialValue(u, p).at
    BY <1>3 DEF Found
  <2>2. q <= M
    BY <2>1
  <2> QED
    BY <1>1, <2>2
<1>5. Slice(v, p + 1, q) = w.word
  <2>1. Slice(v, p + 1, q) = Slice(u, p + 1, q)
    <3> DEFINE o == p + 1
    <3>1. o \in 0..M /\ q \in o..M
      BY <1>4
    <3> HIDE DEF q, o
    <3>2. Slice(v, o, q) = Slice(u, o, q)
      BY <3>1, SlicesAgree
    <3> QED
      BY <3>2 DEF o
  <2>2. Slice(u, p + 1, q) = w.word
    BY <1>3 DEF StartsWith
  <2> QED
    BY <2>1, <2>2
<1>6. w \in whole
  <2>1. q <= Len(v)
    BY <1>1, <1>4
  <2> QED
    BY <1>3, <1>5, <2>1 DEF StartsWith
<1>7. ASSUME NEW x \in whole PROVE x.word[1] = At(v, p + 1)
  <2>1. x \in Specials /\ StartsWith(v, p + 1, x.word)
    OBVIOUS
  <2>2. PICK m \in 3..5 : m = Len(x.word)
    BY <2>1, SpecialsDiffer
  <2> DEFINE z == p + 1 + m
  <2>3. z <= Len(v) /\ Slice(v, p + 1, z) = x.word
    BY <2>1, <2>2 DEF StartsWith
  <2>4. z \in (p + 1)..Len(v) /\ p + 1 \in 0..Len(v) /\ 1 \in 1..(z - (p + 1))
    BY <1>1, <2>3
  <2>5. Shares(v, v, Len(v))
    BY <1>1 DEF Shares
  <2> DEFINE o == p + 1
  <2>6. o \in 0..Len(v) /\ z \in o..Len(v) /\ 1 \in 1..(z - o) /\ o + 1 - 1 = o
    BY <1>1, <2>4
  <2> HIDE DEF z, whole, o
  <2>7. \A i \in 1..(z - o) : Slice(v, o, z)[i] = At(v, o + i - 1)
    BY <2>5, <2>6, SlicesAgree
  <2>8. Slice(v, o, z)[1] = At(v, o)
    BY <2>6, <2>7
  <2> QED
    BY <2>3, <2>8 DEF o
<1>8. \A x \in whole : x = w
  BY <1>6, <1>7, SpecialsDiffer
<1>9. (CHOOSE x \in whole : TRUE) = w
  BY <1>6, <1>8
<1>10. SpecialValue(v, p) = Found(w.kind, p + 1 + n)
  <2>1. whole # {}
    BY <1>6
  <2>2. SpecialValue(v, p) = LET x == CHOOSE x \in whole : TRUE IN Found(x.kind, p + 1 + Len(x.word))
    BY <2>1 DEF SpecialValue
  <2> QED
    BY <2>2, <1>3, <1>9
<1> QED
  BY <1>3, <1>10

\* The kind of a structural token is none of the two that stand for failures.
LEMMA StructuralTokens == \A b \in DOMAIN Structural : Structural[b] \notin {"eof", "bad"}
  BY DEF Structural, LBRACK, RBRACK, LBRACE, RBRACE, LT, GT, EQ, SEMI, ENTITY

\* What a token is, by its first byte.
LEMMA TextTokenDispatches ==
    ASSUME NEW s, NEW p
    PROVE  LET b == At(s, p) IN
           /\ b \in DOMAIN Structural => TextToken(s, p) = Found(Structural[b], p + 1)
           /\ b = QUOTE => TextToken(s, p) = ClosingQuote(s, p + 1)
           /\ b \in Digit \cup {PLUS, MINUS} => TextToken(s, p) = TextNumber(s, p)
           /\ b = PERCENT => TextToken(s, p) = SpecialValue(s, p)
           /\ b \in Alphabetic \cup {UNDERSCORE} => TextToken(s, p) = UnquotedString(s, p)
           /\ \/ b \in DOMAIN Structural \cup {QUOTE, PERCENT}
              \/ b \in Digit \cup {PLUS, MINUS}
              \/ b \in Alphabetic \cup {UNDERSCORE}
              \/ TextToken(s, p) = Bad
<1> DEFINE b == At(s, p)
<1>1. DOMAIN Structural = {LBRACK, RBRACK, LBRACE, RBRACE, LT, GT, EQ, SEMI, ENTITY}
  BY DEF Structural
<1>2. /\ b = QUOTE => b \notin DOMAIN Structural \cup Digit \cup {PLUS, MINUS, PERCENT} \cup Alphabetic \cup {UNDERSCORE}
      /\ b = PERCENT => b \notin DOMAIN Structural \cup Digit \cup {PLUS, MINUS} \cup Alphabetic \cup {UNDERSCORE}
      /\ b \in Digit \cup {PLUS, MINUS} => b \notin DOMAIN Structural \cup Alphabetic \cup {UNDERSCORE}
      /\ b \in Alphabetic \cup {UNDERSCORE} => b \notin DOMAIN Structural
  BY <1>1 DEF LBRACK, RBRACK, LBRACE, RBRACE, LT, GT, EQ, SEMI, ENTITY,
       QUOTE, Digit, PLUS, MINUS, PERCENT, Alphabetic, UNDERSCORE
<1>3. TextToken(s, p) =
        CASE b \in DOMAIN Structural -> Found(Structural[b], p + 1)
          [] b = QUOTE -> ClosingQuote(s, p + 1)
          [] b \in Digit \cup {PLUS, MINUS} -> TextNumber(s, p)
          [] b = PERCENT -> SpecialValue(s, p)
          [] b \in Alphabetic \cup {UNDERSCORE} -> UnquotedString(s, p)
          [] OTHER -> Bad
  BY DEF TextToken
<1> HIDE DEF b
<1>4. b \in DOMAIN Structural => TextToken(s, p) = Found(Structural[b], p + 1)
  BY <1>2, <1>3
<1>5. b = QUOTE => TextToken(s, p) = ClosingQuote(s, p + 1)
  BY <1>2, <1>3
<1>6. b \in Digit \cup {PLUS, MINUS} => TextToken(s, p) = TextNumber(s, p)
  BY <1>2, <1>3
<1>7. b = PERCENT => TextToken(s, p) = SpecialValue(s, p)
  BY <1>2, <1>3
<1>8. b \in Alphabetic \cup {UNDERSCORE} => TextToken(s, p) = UnquotedString(s, p)
  BY <1>2, <1>3
<1>9. \/ b \in DOMAIN Structural \cup {QUOTE, PERCENT}
      \/ b \in Digit \cup {PLUS, MINUS}
      \/ b \in Alphabetic \cup {UNDERSCORE}
      \/ TextToken(s, p) = Bad
  BY <1>3
<1> QED
  BY <1>4, <1>5, <1>6, <1>7, <1>8, <1>9 DEF b

\* A token is behind the byte it begins with.
LEMMA TextTokenInRange ==
    ASSUME NEW s, Len(s) \in Nat, NEW p \in 0..(Len(s) - 1), ~Failed(TextToken(s, p))
    PROVE  TextToken(s, p).at \in (p + 1)..Len(s)
<1> DEFINE b == At(s, p)
<1>1. CASE b \in DOMAIN Structural
  <2>1. TextToken(s, p) = Found(Structural[b], p + 1)
    BY <1>1, TextTokenDispatches
  <2> QED
    BY <2>1 DEF Found
<1>2. CASE TextToken(s, p) = ClosingQuote(s, p + 1)
  <2>1. PICK q \in (p + 2)..Len(s) : TextToken(s, p) = Found("String", q)
    <3>1. p + 1 \in 0..(Len(s) + 1) /\ (p + 1) + 1 = p + 2
      OBVIOUS
    <3>2. \/ ClosingQuote(s, p + 1) = Eof
          \/ \E q \in ((p + 1) + 1)..Len(s) : ClosingQuote(s, p + 1) = Found("String", q)
      BY <3>1, ClosingQuoteInRange
    <3> QED
      BY <1>2, <3>1, <3>2 DEF Failed, Eof
  <2> QED
    BY <2>1 DEF Found
<1>3. CASE b \in Digit \cup {PLUS, MINUS} /\ TextToken(s, p) = TextNumber(s, p)
  BY <1>3, TextNumberInRange
<1>4. CASE TextToken(s, p) = SpecialValue(s, p)
  <2>1. PICK n \in 3..5 : \E w \in Specials : /\ SpecialValue(s, p) = Found(w.kind, p + 1 + n)
                                              /\ p + 1 + n <= Len(s)
    BY <1>4, SpecialValueInRange
  <2>2. TextToken(s, p).at = p + 1 + n
    BY <1>4, <2>1 DEF Found
  <2> QED
    BY <2>1, <2>2
<1>5. CASE b \in Alphabetic \cup {UNDERSCORE} /\ TextToken(s, p) = UnquotedString(s, p)
  <2> DEFINE C == Alphabetic \cup Digit \cup {UNDERSCORE, MINUS, DOT}
  <2>1. At(s, p) \in C
    BY <1>5
  <2>2. TextToken(s, p) = Found("String", RunEnd(s, p, C))
    BY <1>5 DEF UnquotedString
  <2> HIDE DEF C
  <2>3. RunEnd(s, p, C) \in (p + 1)..Len(s)
    BY <2>1, RunIsNotEmpty
  <2> QED
    BY <2>2, <2>3 DEF Found
<1>6. TextToken(s, p) # Bad
  BY DEF Failed, Bad
<1> QED
  BY <1>1, <1>2, <1>3, <1>4, <1>5, <1>6, TextTokenDispatches

\* A token of the text format that is settled is the same in both inputs.
LEMMA TextTokensAgree ==
    ASSUME NEW u \in Seq(Byte), NEW v \in Seq(Byte), NEW M, NEW L, Settles(u, v, M, L),
           NEW p \in 0..(M - 1),
           ~Failed(TextToken(u, p)), TextToken(u, p).at <= L
    PROVE  TextToken(v, p) = TextToken(u, p)
<1>1. /\ Shares(u, v, M) /\ M \in Nat /\ L \in Nat /\ L <= M /\ M <= Len(u) /\ M <= Len(v)
      /\ L < M \/ (L = M /\ M = Len(v))
      /\ Len(u) \in Nat /\ Len(v) \in Nat
  BY DEF Settles, Shares
<1> DEFINE b == At(u, p)
<1>2. At(v, p) = b /\ p \in 0..(Len(u) - 1)
  BY <1>1 DEF Shares
<1>3. TextToken(u, p).at \in (p + 1)..Len(u)
  BY <1>1, <1>2, TextTokenInRange
<1>4. TextToken(u, p) # Bad
  BY DEF Failed, Bad
<1>5. CASE b \in DOMAIN Structural
  BY <1>2, <1>5, TextTokenDispatches
<1>6. CASE b = QUOTE
  <2>1. TextToken(u, p) = ClosingQuote(u, p + 1) /\ TextToken(v, p) = ClosingQuote(v, p + 1)
    BY <1>2, <1>6, TextTokenDispatches
  <2>2. p + 1 \in 0..M /\ TextToken(u, p).at <= M
    BY <1>1, <1>3
  <2> QED
    BY <1>1, <2>1, <2>2, ClosingQuotesAgree
<1>7. CASE b \in Digit \cup {PLUS, MINUS}
  <2>1. TextToken(u, p) = TextNumber(u, p) /\ TextToken(v, p) = TextNumber(v, p)
    BY <1>2, <1>7, TextTokenDispatches
  <2> QED
    BY <1>7, <2>1, TextNumbersAgree
<1>8. CASE b = PERCENT
  <2>1. TextToken(u, p) = SpecialValue(u, p) /\ TextToken(v, p) = SpecialValue(v, p)
    BY <1>2, <1>8, TextTokenDispatches
  <2>2. TextToken(u, p).at <= M
    BY <1>1, <1>3
  <2> QED
    BY <1>1, <2>1, <2>2, SpecialValuesAgree
<1>9. CASE b \in Alphabetic \cup {UNDERSCORE}
  <2> DEFINE C == Alphabetic \cup Digit \cup {UNDERSCORE, MINUS, DOT}
  <2>1. TextToken(u, p) = Found("String", RunEnd(u, p, C)) /\ TextToken(v, p) = Found("String", RunEnd(v, p, C))
    BY <1>2, <1>9, TextTokenDispatches DEF UnquotedString
  <2> HIDE DEF C
  <2>2. RunEnd(u, p, C) <= L /\ RunEnd(u, p, C) \in Nat
    BY <1>3, <2>1 DEF Found
  <2>3. RunEnd(v, p, C) = RunEnd(u, p, C)
    <3>1. p \in 0..M
      BY <1>1
    <3>2. RunEnd(u, p, C) < M \/ (RunEnd(u, p, C) = M /\ M = Len(v))
      BY <1>1, <2>2
    <3> QED
      BY <1>1, <3>1, <3>2, RunsAgree
  <2> QED
    BY <2>1, <2>3
<1> QED
  BY <1>4, <1>5, <1>6, <1>7, <1>8, <1>9, TextTokenDispatches

-----------------------------------------------------------------------------
(* Binary tokens. *)

\* The bytes of a varint make up a number.
LEMMA GroupsInNat ==
    ASSUME NEW b \in Seq(Byte)
    PROVE  Groups(b) \in Nat
<1> DEFINE N == Len(b)
           body(f, n) == IF n = 0 THEN 0 ELSE 128 * f[n - 1] + (b[Len(b) + 1 - n] % 128)
           number == CHOOSE f : f = [n \in 0..Len(b) |-> body(f, n)]
           low(n) == b[Len(b) + 1 - n] % 128
           F == [n \in 1..N |-> [c \in Nat |-> 128 * c + low(n)]]
<1>1. N \in Nat
  OBVIOUS
<1>2. \A n \in 1..N : low(n) \in Nat
  <2>1. ASSUME NEW n \in 1..N PROVE low(n) \in Nat
    <3>1. Len(b) + 1 - n \in 1..Len(b)
      OBVIOUS
    <3> DEFINE x == b[Len(b) + 1 - n]
    <3>2. x \in Byte
      BY <3>1, ElementOfSeq
    <3> HIDE DEF x
    <3>3. x \in Nat
      BY <3>2 DEF Byte
    <3>4. x % 128 \in Nat
      BY <3>3
    <3> QED
      BY <3>4 DEF x
  <2> QED
    BY <2>1
<1>3. Groups(b) = number[N]
  BY DEF Groups
<1> HIDE DEF low
<1>4. F \in [1..N -> [Nat -> Nat]]
  BY <1>2
<1>5. PICK f \in [0..N -> Nat] : f[0] = 0 /\ \A n \in 1..N : f[n] = F[n][f[n - 1]]
  <2> DEFINE zero == 0
  <2>1. zero \in Nat
    OBVIOUS
  <2> HIDE DEF N, F, zero
  <2>2. \E f \in [0..N -> Nat] : Iterates(f, zero, F, N)
    BY <1>1, <1>4, <2>1, RecursionDown
  <2> QED
    BY <2>2 DEF Iterates, zero
<1>6. ASSUME NEW n \in 0..N PROVE f[n] = body(f, n)
  <2>1. CASE n = 0
    BY <2>1, <1>5
  <2>2. CASE n # 0
    <3>1. n \in 1..N /\ n - 1 \in 0..N
      BY <2>2
    <3>2. f[n - 1] \in Nat
      BY <3>1
    <3>3. F[n][f[n - 1]] = 128 * f[n - 1] + low(n)
      BY <3>1, <3>2
    <3> QED
      BY <2>2, <3>1, <3>3, <1>5 DEF low
  <2> QED
    BY <2>1, <2>2
<1>7. f = [n \in 0..Len(b) |-> body(f, n)]
  <2> HIDE DEF body
  <2> QED
    BY <1>6
<1>8. number = [n \in 0..Len(b) |-> body(number, n)]
  <2> HIDE DEF body
  <2> QED
    BY <1>7
<1> HIDE DEF number
<1> DEFINE X == {n \in Nat : n <= N => number[n] \in Nat}
<1>9. 0 \in X
  BY <1>8
<1>10. ASSUME NEW n \in Nat, n \in X PROVE n + 1 \in X
  <2> SUFFICES ASSUME n + 1 <= N PROVE number[n + 1] \in Nat
    OBVIOUS
  <2>1. number[n] \in Nat /\ n + 1 \in 1..N /\ n + 1 \in 0..Len(b)
    BY <1>10
  <2>2. low(n + 1) \in Nat
    BY <1>2, <2>1
  <2>3. number[n + 1] = body(number, n + 1)
    BY <1>8, <2>1
  <2>4. number[n + 1] = 128 * number[n] + low(n + 1)
    BY <2>1, <2>3 DEF low
  <2> QED
    BY <2>1, <2>2, <2>4
<1>11. N \in X
  <2> HIDE DEF X
  <2> QED
    BY <1>1, <1>9, <1>10, Induct
<1> QED
  BY <1>1, <1>3, <1>11

\* A varint ends behind the last byte of its run, and holds a number.
LEMMA UvarintFound ==
    ASSUME NEW s \in Seq(Byte), NEW p \in 0..Len(s), ~Failed(Uvarint(s, p))
    PROVE  LET last == RunEnd(s, p, 128..255)
           IN  /\ last \in p..(Len(s) - 1)
               /\ Uvarint(s, p) = Got("Uint64", last + 1, Groups(Slice(s, p, last + 1)))
               /\ Groups(Slice(s, p, last + 1)) \in Nat
<1> DEFINE last == RunEnd(s, p, 128..255)
           limit == p + VarintBytes - 1
           value == Groups(Slice(s, p, last + 1))
<1>1. Len(s) \in Nat
  OBVIOUS
<1>2. last \in p..Len(s)
  BY <1>1, RunEnds DEF IsRunEnd
<1>3. /\ ~(last > limit)
      /\ ~(last <= limit /\ ~Inside(s, last))
      /\ Uvarint(s, p) = Got("Uint64", last + 1, value)
  <2>1. Uvarint(s, p) \in {Got("bad", 0, 0), Got("eof", 0, 0), Got("Uint64", last + 1, value)}
    BY DEF Uvarint
  <2>2. Failed(Got("bad", 0, 0)) /\ Failed(Got("eof", 0, 0))
    BY DEF Failed, Got
  <2>3. Uvarint(s, p) = Got("Uint64", last + 1, value)
    BY <2>1, <2>2
  <2>4. last > limit => Uvarint(s, p) = Got("bad", 0, 0)
    BY <1>1, <1>2, VarintAssumption DEF Uvarint
  <2>5. last <= limit /\ ~Inside(s, last) => Uvarint(s, p) = Got("eof", 0, 0)
    BY <1>1, <1>2, VarintAssumption DEF Uvarint
  <2> QED
    BY <2>2, <2>3, <2>4, <2>5
<1>4. last \in p..(Len(s) - 1)
  BY <1>1, <1>2, <1>3, VarintAssumption DEF Inside
<1>5. value \in Nat
  <2> DEFINE M == Len(s)
             q == last + 1
  <2>1. Shares(s, s, M) /\ p \in 0..M /\ q \in p..M
    BY <1>1, <1>4 DEF Shares
  <2> HIDE DEF q, M
  <2>2. Slice(s, p, q) \in Seq(Byte)
    BY <2>1, SlicesAgree
  <2> QED
    BY <2>2, GroupsInNat DEF q
<1> QED
  BY <1>3, <1>4, <1>5

\* A varint that ends among the shared bytes is the same in both inputs.
LEMMA UvarintsAgree ==
    ASSUME NEW u \in Seq(Byte), NEW v \in Seq(Byte), NEW M, Shares(u, v, M), NEW p \in 0..M,
           ~Failed(Uvarint(u, p)), Uvarint(u, p).at <= M
    PROVE  Uvarint(v, p) = Uvarint(u, p)
<1>1. M \in Nat /\ M <= Len(u) /\ M <= Len(v) /\ Len(u) \in Nat /\ Len(v) \in Nat
  BY DEF Shares
<1> DEFINE last == RunEnd(u, p, 128..255)
           limit == p + VarintBytes - 1
<1>2. /\ p \in 0..Len(u)
      /\ last \in p..(Len(u) - 1)
      /\ Uvarint(u, p) = Got("Uint64", last + 1, Groups(Slice(u, p, last + 1)))
  BY <1>1, UvarintFound
<1>3. last < M
  BY <1>1, <1>2 DEF Got
<1>4. RunEnd(v, p, 128..255) = last
  <2> DEFINE C == 128..255
  <2>1. /\ RunEnd(u, p, C) < M \/ (RunEnd(u, p, C) = M /\ M = Len(v))
        /\ Len(u) \in Nat /\ Len(v) \in Nat
    BY <1>3
  <2> HIDE DEF C, last, limit
  <2>2. RunEnd(v, p, C) = RunEnd(u, p, C)
    BY <2>1, RunsAgree
  <2> QED
    BY <2>2 DEF C, last
<1>5. At(v, last) = At(u, last) /\ Inside(u, last) /\ Inside(v, last)
  BY <1>1, <1>2, <1>3 DEF Shares, Inside
<1>6. Slice(v, p, last + 1) = Slice(u, p, last + 1)
  <2> DEFINE q == last + 1
  <2>1. q \in p..M
    BY <1>1, <1>2, <1>3
  <2> HIDE DEF q
  <2>2. Slice(v, p, q) = Slice(u, p, q)
    BY <2>1, SlicesAgree
  <2> QED
    BY <2>2 DEF q
<1> QED
  BY <1>4, <1>5, <1>6 DEF Uvarint

\* A varint that is malformed stays so, whatever comes behind it.
LEMMA BadUvarintStaysBad ==
    ASSUME NEW u \in Seq(Byte), NEW v \in Seq(Byte), Shares(u, v, Len(u)), NEW p \in 0..Len(u),
           Uvarint(u, p).kind = "bad"
    PROVE  Uvarint(v, p) = Uvarint(u, p)
<1>1. Len(u) <= Len(v) /\ Len(u) \in Nat /\ Len(v) \in Nat
  BY DEF Shares
<1> DEFINE last == RunEnd(u, p, 128..255)
           there == RunEnd(v, p, 128..255)
           limit == p + VarintBytes - 1
<1>2. IsRunEnd(u, p, 128..255, last) /\ IsRunEnd(v, p, 128..255, there)
  BY <1>1, RunEnds
<1>3. limit \in Nat
  BY <1>1, VarintAssumption
<1>4. \/ last > limit
      \/ last = limit /\ Inside(u, last) /\ At(u, last) > 1
  <2> SUFFICES ASSUME ~(last > limit), ~(last = limit /\ Inside(u, last) /\ At(u, last) > 1)
               PROVE  FALSE
    OBVIOUS
  <2>1. Uvarint(u, p) \in {Got("eof", 0, 0), Got("Uint64", last + 1, Groups(Slice(u, p, last + 1)))}
    BY DEF Uvarint
  <2> QED
    BY <2>1 DEF Got
<1> HIDE DEF limit, last, there
<1>5. last \in Nat /\ there \in Nat /\ p <= last /\ p <= there /\ last <= Len(u) /\ there <= Len(v)
  BY <1>1, <1>2 DEF IsRunEnd
<1>6. Inside(u, last) => there = last
  <2> SUFFICES ASSUME Inside(u, last) PROVE there = last
    OBVIOUS
  <2>1. last < Len(u)
    BY DEF Inside
  <2> DEFINE C == 128..255
             M == Len(u)
  <2>2. RunEnd(u, p, C) < M \/ (RunEnd(u, p, C) = M /\ M = Len(v))
    BY <2>1 DEF last
  <2> HIDE DEF C, M
  <2>3. RunEnd(v, p, C) = RunEnd(u, p, C)
    <3>1. Shares(u, v, M) /\ p \in 0..M
      BY DEF M
    <3> QED
      BY <1>1, <2>2, <3>1, RunsAgree
  <2> QED
    BY <2>3 DEF C, last, there
<1>7. there >= last
  <2> SUFFICES ASSUME there < last PROVE FALSE
    BY <1>5
  <2>1. there \in p..(last - 1) /\ there \in 0..(Len(u) - 1) /\ there < Len(v)
    BY <1>1, <1>5
  <2>2. At(u, there) = At(v, there) /\ Inside(v, there)
    BY <2>1 DEF Shares, Inside
  <2> QED
    BY <1>2, <2>1, <2>2 DEF IsRunEnd
<1>8. CASE last > limit
  <2>1. there > limit
    BY <1>3, <1>7, <1>8, <1>5
  <2>2. Uvarint(v, p) = Got("bad", 0, 0)
    BY <1>3, <1>5, <2>1 DEF Uvarint, there, limit
  <2>3. Uvarint(u, p) = Got("bad", 0, 0)
    BY <1>3, <1>8, <1>5 DEF Uvarint, last, limit
  <2> QED
    BY <2>2, <2>3
<1>9. CASE last = limit /\ Inside(u, last) /\ At(u, last) > 1
  <2>1. At(v, last) = At(u, last) /\ Inside(v, last)
    <3>1. last \in 0..(Len(u) - 1) /\ last < Len(v)
      BY <1>1, <1>9, <1>5 DEF Inside
    <3> QED
      BY <3>1 DEF Shares, Inside
  <2>2. there = last
    BY <1>6, <1>9
  <2>3. ~(last > limit)
    BY <1>3, <1>9
  <2>4. Uvarint(u, p) = Got("bad", 0, 0)
    BY <1>3, <1>9, <2>3 DEF Uvarint, last, limit
  <2>5. Uvarint(v, p) = Got("bad", 0, 0)
    BY <1>3, <1>9, <2>1, <2>2, <2>3 DEF Uvarint, there, limit
  <2> QED
    BY <2>4, <2>5
<1> QED
  BY <1>4, <1>8, <1>9

\* The classes of the first byte of a binary token, one at a time.
LEMMA BinaryTokenDispatches ==
    ASSUME NEW s, NEW p
    PROVE  LET b == At(s, p) IN
           /\ b = 1 => BinaryToken(s, p) = BinaryString(s, p + 1)
           /\ b = 2 => BinaryToken(s, p) = As("Int64", Uvarint(s, p + 1))
           /\ b = 3 => BinaryToken(s, p) = Payload("Double", s, p + 1, DoubleBytes)
           /\ b \in {4, 5} => BinaryToken(s, p) = Found("Boolean", p + 1)
           /\ b = 6 => BinaryToken(s, p) = As("Uint64", Uvarint(s, p + 1))
           /\ b \in DOMAIN Structural => BinaryToken(s, p) = Found(Structural[b], p + 1)
           /\ b \in 1..6 \/ b \in DOMAIN Structural \/ BinaryToken(s, p) = Bad
<1> DEFINE b == At(s, p)
<1>1. DOMAIN Structural = {LBRACK, RBRACK, LBRACE, RBRACE, LT, GT, EQ, SEMI, ENTITY}
  BY DEF Structural
<1>2. b \in 1..6 => b \notin DOMAIN Structural
  BY <1>1 DEF LBRACK, RBRACK, LBRACE, RBRACE, LT, GT, EQ, SEMI, ENTITY
<1>3. BinaryToken(s, p) =
        CASE b = 1 -> BinaryString(s, p + 1)
          [] b = 2 -> As("Int64", Uvarint(s, p + 1))
          [] b = 3 -> Payload("Double", s, p + 1, DoubleBytes)
          [] b \in {4, 5} -> Found("Boolean", p + 1)
          [] b = 6 -> As("Uint64", Uvarint(s, p + 1))
          [] b \in DOMAIN Structural -> Found(Structural[b], p + 1)
          [] OTHER -> Bad
  BY DEF BinaryToken
<1> HIDE DEF b
<1>4. /\ b = 1 => BinaryToken(s, p) = BinaryString(s, p + 1)
      /\ b = 2 => BinaryToken(s, p) = As("Int64", Uvarint(s, p + 1))
      /\ b = 3 => BinaryToken(s, p) = Payload("Double", s, p + 1, DoubleBytes)
  BY <1>2, <1>3
<1>5. /\ b \in {4, 5} => BinaryToken(s, p) = Found("Boolean", p + 1)
      /\ b = 6 => BinaryToken(s, p) = As("Uint64", Uvarint(s, p + 1))
  BY <1>2, <1>3
<1>6. b \in DOMAIN Structural => BinaryToken(s, p) = Found(Structural[b], p + 1)
  BY <1>2, <1>3
<1>7. b \in 1..6 \/ b \in DOMAIN Structural \/ BinaryToken(s, p) = Bad
  BY <1>3
<1> QED
  BY <1>4, <1>5, <1>6, <1>7 DEF b

\* A payload that is found is inside the input.
LEMMA PayloadFound ==
    ASSUME NEW s, NEW kind \in {"String", "Double"}, NEW p, NEW n
    PROVE  /\ ~Failed(Payload(kind, s, p, n)) =>
                 p + n <= Len(s) /\ Payload(kind, s, p, n) = Found(kind, p + n)
           /\ Payload(kind, s, p, n).kind # "bad"
           /\ p + n <= Len(s) => Payload(kind, s, p, n) = Found(kind, p + n)
  BY DEF Payload, Failed, Found, Eof

\* The length of a binary string.
LEMMA BinaryStringFound ==
    ASSUME NEW s \in Seq(Byte), NEW p \in 0..Len(s), ~Failed(BinaryString(s, p))
    PROVE  LET length == Uvarint(s, p)
               n == length.value \div 2
           IN  /\ ~Failed(length) /\ length.value % 2 # 1
               /\ length.at \in (p + 1)..Len(s) /\ n \in Nat
               /\ length.at + n <= Len(s)
               /\ BinaryString(s, p) = Found("String", length.at + n)
<1> DEFINE length == Uvarint(s, p)
           n == length.value \div 2
<1>1. /\ Failed(length) => BinaryString(s, p) = length
      /\ (~Failed(length) /\ length.value % 2 = 1) => BinaryString(s, p) = Bad
      /\ (~Failed(length) /\ length.value % 2 # 1) =>
            BinaryString(s, p) = Payload("String", s, length.at, n)
  BY DEF BinaryString
<1>2. /\ ~Failed(length) /\ length.value % 2 # 1
      /\ BinaryString(s, p) = Payload("String", s, length.at, n)
  <2>1. Failed(Bad)
    BY DEF Failed, Bad
  <2> QED
    BY <1>1, <2>1
<1>3. length.at + n <= Len(s) /\ BinaryString(s, p) = Found("String", length.at + n)
  BY <1>2, PayloadFound
<1> DEFINE last == RunEnd(s, p, 128..255)
           value == Groups(Slice(s, p, last + 1))
<1>4. last \in p..(Len(s) - 1) /\ length = Got("Uint64", last + 1, value) /\ value \in Nat
  BY <1>2, UvarintFound
<1> HIDE DEF last, value
<1>5. length.at = last + 1 /\ length.value = value
  BY <1>4 DEF Got
<1>6. length.at \in (p + 1)..Len(s)
  BY <1>4, <1>5
<1>7. n \in Nat
  <2>1. value \div 2 \in Nat
    BY <1>4
  <2> QED
    BY <1>5, <2>1
<1> QED
  BY <1>2, <1>3, <1>6, <1>7

\* Renaming what was found leaves its end.
LEMMA AsFound ==
    ASSUME NEW kind \in {"Int64", "Uint64"}, NEW p, NEW value
    PROVE  LET r == Got("Uint64", p, value)
           IN  As(kind, r).at = p /\ ~Failed(r) /\ ~Failed(As(kind, r))
  BY DEF As, Got, Failed

\* Renaming does not touch a failure.
LEMMA AsFailed ==
    ASSUME NEW kind, NEW r, Failed(r)
    PROVE  As(kind, r) = r
  BY DEF As

\* A binary token has at least one byte, and ends inside the input.
LEMMA BinaryTokenInRange ==
    ASSUME NEW s \in Seq(Byte), NEW p \in 0..(Len(s) - 1), ~Failed(BinaryToken(s, p))
    PROVE  BinaryToken(s, p).at \in (p + 1)..Len(s)
<1> DEFINE b == At(s, p)
           o == p + 1
<1>1. o \in 0..Len(s) /\ Len(s) \in Nat
  OBVIOUS
<1>2. ASSUME NEW kind \in {"Int64", "Uint64"}, BinaryToken(s, p) = As(kind, Uvarint(s, o))
      PROVE  BinaryToken(s, p).at \in (p + 1)..Len(s)
  <2> DEFINE last == RunEnd(s, o, 128..255)
             value == Groups(Slice(s, o, last + 1))
  <2>1. ~Failed(Uvarint(s, o))
    BY <1>2, AsFailed
  <2>2. last \in o..(Len(s) - 1) /\ Uvarint(s, o) = Got("Uint64", last + 1, value)
    <3> HIDE DEF o
    <3> QED
      BY <1>1, <2>1, UvarintFound
  <2> HIDE DEF last, value
  <2>3. BinaryToken(s, p).at = last + 1
    BY <1>2, <2>2, AsFound
  <2> QED
    BY <1>1, <2>2, <2>3
<1>3. CASE b = 1
  <2>1. BinaryToken(s, p) = BinaryString(s, o)
    BY <1>3, BinaryTokenDispatches
  <2> DEFINE length == Uvarint(s, o)
             n == length.value \div 2
             at == length.at
  <2>2. at \in (o + 1)..Len(s) /\ n \in Nat /\ at + n <= Len(s) /\ BinaryString(s, o) = Found("String", at + n)
    <3> HIDE DEF o
    <3> QED
      BY <1>1, <2>1, BinaryStringFound
  <2> HIDE DEF n, at
  <2>3. BinaryToken(s, p).at = at + n
    BY <2>1, <2>2 DEF Found
  <2> QED
    BY <1>1, <2>2, <2>3
<1>4. CASE b = 2
  BY <1>2, <1>4, BinaryTokenDispatches
<1>5. CASE b = 3
  <2>1. BinaryToken(s, p) = Payload("Double", s, o, DoubleBytes)
    BY <1>5, BinaryTokenDispatches
  <2>2. o + DoubleBytes <= Len(s) /\ BinaryToken(s, p) = Found("Double", o + DoubleBytes)
    BY <2>1, PayloadFound
  <2>3. BinaryToken(s, p).at = o + DoubleBytes
    BY <2>2 DEF Found
  <2> QED
    BY <1>1, <2>2, <2>3, DoubleAssumption
<1>6. CASE b \in {4, 5} \/ b \in DOMAIN Structural
  <2>1. PICK kind : BinaryToken(s, p) = Found(kind, o)
    BY <1>6, BinaryTokenDispatches
  <2>2. BinaryToken(s, p).at = o
    BY <2>1 DEF Found
  <2> QED
    BY <1>1, <2>2
<1>7. CASE b = 6
  BY <1>2, <1>7, BinaryTokenDispatches
<1>8. b \in 1..6 \/ b \in DOMAIN Structural
  <2>1. BinaryToken(s, p) # Bad
    BY DEF Failed, Bad
  <2> QED
    BY <2>1, BinaryTokenDispatches
<1> HIDE DEF b
<1>9. b = 1 \/ b = 2 \/ b = 3 \/ b \in {4, 5} \/ b = 6 \/ b \in DOMAIN Structural
  BY <1>8
<1> QED
  BY <1>3, <1>4, <1>5, <1>6, <1>7, <1>9

\* A binary token that ends among the shared bytes is the same in both inputs.
LEMMA BinaryTokensAgree ==
    ASSUME NEW u \in Seq(Byte), NEW v \in Seq(Byte), NEW M, Shares(u, v, M),
           NEW p \in 0..(M - 1), ~Failed(BinaryToken(u, p)), BinaryToken(u, p).at <= M
    PROVE  BinaryToken(v, p) = BinaryToken(u, p)
<1>1. M \in Nat /\ M <= Len(u) /\ M <= Len(v) /\ Len(u) \in Nat /\ Len(v) \in Nat
  BY DEF Shares
<1> DEFINE b == At(u, p)
           o == p + 1
<1>2. At(v, p) = b /\ o \in 0..M /\ o \in 0..Len(u)
  BY <1>1 DEF Shares
<1>3. ASSUME NEW kind \in {"Int64", "Uint64"},
             BinaryToken(u, p) = As(kind, Uvarint(u, o)), BinaryToken(v, p) = As(kind, Uvarint(v, o))
      PROVE  BinaryToken(v, p) = BinaryToken(u, p)
  <2> DEFINE last == RunEnd(u, o, 128..255)
             value == Groups(Slice(u, o, last + 1))
  <2>1. ~Failed(Uvarint(u, o))
    BY <1>3, AsFailed
  <2>2. last \in o..(Len(u) - 1) /\ Uvarint(u, o) = Got("Uint64", last + 1, value)
    <3> HIDE DEF o
    <3> QED
      BY <1>2, <2>1, UvarintFound
  <2> HIDE DEF last, value
  <2>3. BinaryToken(u, p).at = last + 1 /\ Uvarint(u, o).at = last + 1
    BY <1>3, <2>2, AsFound DEF Got
  <2>4. Uvarint(u, o).at <= M
    BY <2>3
  <2>5. Uvarint(v, o) = Uvarint(u, o)
    <3> HIDE DEF o
    <3> QED
      BY <1>2, <2>1, <2>4, UvarintsAgree
  <2> QED
    BY <1>3, <2>5
<1>4. CASE b = 1
  <2>1. BinaryToken(u, p) = BinaryString(u, o) /\ BinaryToken(v, p) = BinaryString(v, o)
    BY <1>2, <1>4, BinaryTokenDispatches
  <2> DEFINE length == Uvarint(u, o)
             n == length.value \div 2
             at == length.at
  <2>2. /\ ~Failed(length) /\ length.value % 2 # 1
        /\ at \in (o + 1)..Len(u) /\ n \in Nat /\ at + n <= Len(u)
        /\ BinaryString(u, o) = Found("String", at + n)
    <3> HIDE DEF o
    <3> QED
      BY <1>2, <2>1, BinaryStringFound
  <2>3. at + n <= M
    <3> HIDE DEF at, n
    <3> QED
      BY <2>1, <2>2 DEF Found
  <2>4. at <= M
    <3> HIDE DEF at, n
    <3> QED
      BY <1>1, <1>2, <2>2, <2>3
  <2>5. Uvarint(v, o) = length
    <3> HIDE DEF o
    <3> QED
      BY <1>2, <2>2, <2>4, UvarintsAgree
  <2>6. BinaryString(v, o) = Payload("String", v, at, n)
    BY <2>2, <2>5 DEF BinaryString
  <2>7. at + n <= Len(v)
    <3> HIDE DEF at, n
    <3> QED
      BY <1>1, <1>2, <2>2, <2>3
  <2> HIDE DEF length, at, n
  <2>8. BinaryString(v, o) = Found("String", at + n)
    BY <2>6, <2>7, PayloadFound
  <2> QED
    BY <2>1, <2>2, <2>8
<1>5. CASE b = 2
  BY <1>2, <1>3, <1>5, BinaryTokenDispatches
<1>6. CASE b = 3
  <2>1. /\ BinaryToken(u, p) = Payload("Double", u, o, DoubleBytes)
        /\ BinaryToken(v, p) = Payload("Double", v, o, DoubleBytes)
    BY <1>2, <1>6, BinaryTokenDispatches
  <2>2. BinaryToken(u, p) = Found("Double", o + DoubleBytes)
    BY <2>1, PayloadFound
  <2>3. o + DoubleBytes <= M
    BY <2>2 DEF Found
  <2>4. o + DoubleBytes <= Len(v)
    BY <1>1, <1>2, <2>3, DoubleAssumption
  <2>5. BinaryToken(v, p) = Found("Double", o + DoubleBytes)
    BY <2>1, <2>4, PayloadFound
  <2> QED
    BY <2>2, <2>5
<1>7. CASE b \in {4, 5} \/ b \in DOMAIN Structural
  BY <1>2, <1>7, BinaryTokenDispatches
<1>8. CASE b = 6
  BY <1>2, <1>3, <1>8, BinaryTokenDispatches
<1>9. b \in 1..6 \/ b \in DOMAIN Structural
  <2>1. BinaryToken(u, p) # Bad
    BY DEF Failed, Bad
  <2> QED
    BY <2>1, BinaryTokenDispatches
<1> HIDE DEF b
<1>10. b = 1 \/ b = 2 \/ b = 3 \/ b \in {4, 5} \/ b = 6 \/ b \in DOMAIN Structural
  BY <1>9
<1> QED
  BY <1>4, <1>5, <1>6, <1>7, <1>8, <1>10

\* A binary token that is malformed stays so, whatever comes behind it.
LEMMA BadBinaryTokenStaysBad ==
    ASSUME NEW u \in Seq(Byte), NEW v \in Seq(Byte), Shares(u, v, Len(u)),
           NEW p \in 0..(Len(u) - 1), BinaryToken(u, p).kind = "bad"
    PROVE  BinaryToken(v, p) = BinaryToken(u, p)
<1>1. Len(u) <= Len(v) /\ Len(u) \in Nat /\ Len(v) \in Nat
  BY DEF Shares
<1> DEFINE b == At(u, p)
           o == p + 1
<1>2. At(v, p) = b /\ o \in 0..Len(u)
  BY <1>1 DEF Shares
<1>3. ASSUME NEW kind \in {"Int64", "Uint64"},
             BinaryToken(u, p) = As(kind, Uvarint(u, o)), BinaryToken(v, p) = As(kind, Uvarint(v, o))
      PROVE  BinaryToken(v, p) = BinaryToken(u, p)
  <2>1. Uvarint(u, o).kind = "bad"
    <3>1. CASE Failed(Uvarint(u, o))
      BY <1>3, <3>1, AsFailed
    <3>2. CASE ~Failed(Uvarint(u, o))
      <4> HIDE DEF o
      <4>1. PICK q, value : Uvarint(u, o) = Got("Uint64", q, value)
        BY <1>2, <3>2, UvarintFound
      <4> QED
        BY <1>3, <4>1, AsFound DEF Failed
    <3> QED
      BY <3>1, <3>2
  <2>2. Uvarint(v, o) = Uvarint(u, o)
    <3> HIDE DEF o
    <3> QED
      BY <1>2, <2>1, BadUvarintStaysBad
  <2> QED
    BY <1>3, <2>2
<1>4. CASE b = 1
  <2>1. BinaryToken(u, p) = BinaryString(u, o) /\ BinaryToken(v, p) = BinaryString(v, o)
    BY <1>2, <1>4, BinaryTokenDispatches
  <2> DEFINE length == Uvarint(u, o)
  <2>2. \/ length.kind = "bad" /\ BinaryString(u, o) = length
        \/ ~Failed(length) /\ length.value % 2 = 1 /\ BinaryString(u, o) = Bad
    <3>1. CASE Failed(length)
      BY <2>1, <3>1 DEF BinaryString
    <3>2. CASE ~Failed(length) /\ length.value % 2 = 1
      BY <3>2 DEF BinaryString
    <3>3. CASE ~Failed(length) /\ length.value % 2 # 1
      <4>1. BinaryString(u, o) = Payload("String", u, length.at, length.value \div 2)
        BY <3>3 DEF BinaryString
      <4> QED
        BY <2>1, <4>1, PayloadFound
    <3> QED
      BY <3>1, <3>2, <3>3
  <2>3. CASE length.kind = "bad" /\ BinaryString(u, o) = length
    <3>1. Uvarint(v, o) = length
      <4> HIDE DEF o
      <4> QED
        BY <1>2, <2>3, BadUvarintStaysBad
    <3>2. Failed(length)
      BY <2>3 DEF Failed
    <3> QED
      BY <2>1, <2>3, <3>1, <3>2 DEF BinaryString
  <2>4. CASE ~Failed(length) /\ length.value % 2 = 1 /\ BinaryString(u, o) = Bad
    <3> DEFINE last == RunEnd(u, o, 128..255)
               value == Groups(Slice(u, o, last + 1))
    <3>1. last \in o..(Len(u) - 1) /\ length = Got("Uint64", last + 1, value)
      <4> HIDE DEF o
      <4> QED
        BY <1>2, <2>4, UvarintFound
    <3> HIDE DEF last, value
    <3>2. Uvarint(u, o).at <= Len(u)
      BY <1>1, <1>2, <3>1 DEF Got
    <3>3. Uvarint(v, o) = length
      <4> HIDE DEF o
      <4> QED
        BY <1>2, <2>4, <3>2, UvarintsAgree
    <3> QED
      BY <2>1, <2>4, <3>3 DEF BinaryString
  <2> QED
    BY <2>2, <2>3, <2>4
<1>5. CASE b = 2
  BY <1>2, <1>3, <1>5, BinaryTokenDispatches
<1>6. b # 3
  BY BinaryTokenDispatches, PayloadFound
<1>7. CASE b \in {4, 5} \/ b \in DOMAIN Structural
  BY <1>2, <1>7, BinaryTokenDispatches
<1>8. CASE b = 6
  BY <1>2, <1>3, <1>8, BinaryTokenDispatches
<1>9. CASE b \notin 1..6 \cup DOMAIN Structural
  BY <1>2, <1>9, BinaryTokenDispatches
<1> HIDE DEF b
<1>10. \/ b = 1 \/ b = 2 \/ b \in {4, 5} \/ b = 6 \/ b \in DOMAIN Structural
       \/ b \notin 1..6 \cup DOMAIN Structural
  BY <1>6
<1> QED
  BY <1>4, <1>5, <1>7, <1>8, <1>9, <1>10

-----------------------------------------------------------------------------
(* The tokenizer. *)

\* The next meaningful byte is not in front of where the search starts.
LEMMA MeaningfulInRange ==
    ASSUME NEW s \in Seq(Byte), NEW fmt, NEW p \in 0..Len(s)
    PROVE  Meaningful(s, p, fmt) \in p..Len(s)
<1>1. Len(s) \in Nat
  OBVIOUS
<1> QED
  BY <1>1, SkipIgnoredInRange DEF Meaningful

\* A token is found behind the next meaningful byte and inside the input.
LEMMA SkipTokenInRange ==
    ASSUME NEW s \in Seq(Byte), NEW fmt, NEW p \in 0..Len(s)
    PROVE  LET q == Meaningful(s, p, fmt)
               r == SkipToken(s, p, fmt)
           IN  /\ ~Failed(r) => q < Len(s) /\ r.at \in (q + 1)..Len(s)
               /\ ~Inside(s, q) => r = Eof
<1> DEFINE q == Meaningful(s, p, fmt)
           r == SkipToken(s, p, fmt)
<1>1. q \in p..Len(s) /\ Len(s) \in Nat
  BY MeaningfulInRange
<1>2. ~Inside(s, q) => r = Eof
  BY DEF SkipToken
<1>3. ASSUME ~Failed(r) PROVE q < Len(s) /\ r.at \in (q + 1)..Len(s)
  <2>1. Inside(s, q)
    BY <1>2, <1>3 DEF Failed, Eof
  <2>2. q \in 0..(Len(s) - 1)
    BY <1>1, <2>1 DEF Inside
  <2>3. r = IF fmt = "Text" THEN TextToken(s, q) ELSE BinaryToken(s, q)
    BY <2>1 DEF SkipToken
  <2> HIDE DEF q, r
  <2>4. r.at \in (q + 1)..Len(s)
    BY <1>1, <1>3, <2>2, <2>3, TextTokenInRange, BinaryTokenInRange
  <2> QED
    BY <2>2, <2>4
<1> QED
  BY <1>2, <1>3

(***************************************************************************)
(* A result that ends in front of L, or fails in one of these ways, is     *)
(* settled.  Two inputs agree when what is settled in u is the same in v.  *)
(***************************************************************************)
Settled(r, L, fails) == IF Failed(r) THEN r.kind \in fails ELSE r.at <= L

Agree(u, v, L, fails, fmt) ==
    /\ L \in Nat /\ L <= Len(u) /\ L <= Len(v)
    /\ \A p \in 0..L :
          Meaningful(u, p, fmt) < L =>
            /\ Meaningful(v, p, fmt) = Meaningful(u, p, fmt)
            /\ Inside(v, Meaningful(u, p, fmt))
            /\ At(v, Meaningful(u, p, fmt)) = At(u, Meaningful(u, p, fmt))
    /\ \A p \in 0..L :
          Settled(SkipToken(u, p, fmt), L, fails) =>
            SkipToken(v, p, fmt) = SkipToken(u, p, fmt)
    /\ fails # {} => L = Len(u)
    /\ "eof" \in fails => u = v

\* What is in front of a byte that both have, or of the end of v, is the same.
LEMMA PrefixesAgree ==
    ASSUME NEW u \in Seq(Byte), NEW v \in Seq(Byte), NEW M, NEW L, NEW fmt,
           Shares(u, v, M), L \in Nat, L <= M,
           fmt = "Text" => Settles(u, v, M, L)
    PROVE  Agree(u, v, L, {}, fmt)
<1>1. /\ M \in Nat /\ M <= Len(u) /\ M <= Len(v) /\ Len(u) \in Nat /\ Len(v) \in Nat
      /\ L <= Len(u) /\ L <= Len(v)
  BY DEF Shares
<1>2. ASSUME NEW p \in 0..L, Meaningful(u, p, fmt) < L
      PROVE  /\ Meaningful(v, p, fmt) = Meaningful(u, p, fmt)
             /\ Inside(v, Meaningful(u, p, fmt))
             /\ At(v, Meaningful(u, p, fmt)) = At(u, Meaningful(u, p, fmt))
  <2> DEFINE q == Meaningful(u, p, fmt)
  <2>1. p \in 0..M /\ p \in 0..Len(u)
    BY <1>1
  <2>2. q \in p..Len(u)
    BY <2>1, MeaningfulInRange
  <2>3. Meaningful(v, p, fmt) = q
    <3>1. CASE fmt = "Text"
      <4>1. SkipIgnored(u, p) < L
        BY <1>2, <3>1 DEF Meaningful
      <4>2. Settles(u, v, M, L) /\ Len(u) \in Nat /\ Len(v) \in Nat
        BY <3>1
      <4>3. SkipIgnored(v, p) = SkipIgnored(u, p)
        BY <2>1, <4>1, <4>2, SkipsAgree
      <4> QED
        BY <3>1, <4>3 DEF Meaningful
    <3>2. CASE fmt # "Text"
      BY <3>2 DEF Meaningful
    <3> QED
      BY <3>1, <3>2
  <2> HIDE DEF q
  <2>4. q \in 0..(M - 1) /\ q < Len(v)
    <3>1. q < L
      BY <1>2 DEF q
    <3> QED
      BY <1>1, <2>2, <3>1
  <2>5. At(v, q) = At(u, q) /\ Inside(v, q)
    BY <2>4 DEF Shares, Inside
  <2> QED
    BY <2>3, <2>5 DEF q
<1>3. ASSUME NEW p \in 0..L, Settled(SkipToken(u, p, fmt), L, {})
      PROVE  SkipToken(v, p, fmt) = SkipToken(u, p, fmt)
  <2> DEFINE q == Meaningful(u, p, fmt)
             r == SkipToken(u, p, fmt)
  <2>1. ~Failed(r) /\ r.at <= L
    BY <1>3 DEF Settled
  <2>2. p \in 0..Len(u)
    BY <1>1
  <2>3. q \in p..Len(u) /\ q < Len(u) /\ r.at \in (q + 1)..Len(u)
    BY <2>1, <2>2, MeaningfulInRange, SkipTokenInRange
  <2>4. q < L
    <3> HIDE DEF q, r
    <3> QED
      BY <1>1, <2>1, <2>3
  <2>5. Meaningful(v, p, fmt) = q /\ Inside(v, q) /\ Inside(u, q) /\ q \in 0..(M - 1)
    BY <1>1, <1>2, <2>3, <2>4 DEF Inside
  <2>6. r = IF fmt = "Text" THEN TextToken(u, q) ELSE BinaryToken(u, q)
    BY <2>5 DEF SkipToken
  <2>7. SkipToken(v, p, fmt) = IF fmt = "Text" THEN TextToken(v, q) ELSE BinaryToken(v, q)
    BY <2>5 DEF SkipToken
  <2> HIDE DEF q, r
  <2>8. CASE fmt = "Text"
    <3>1. Settles(u, v, M, L) /\ ~Failed(TextToken(u, q)) /\ TextToken(u, q).at <= L
      BY <2>1, <2>6, <2>8
    <3>2. TextToken(v, q) = TextToken(u, q)
      BY <2>5, <3>1, TextTokensAgree
    <3> QED
      BY <2>6, <2>7, <2>8, <3>2 DEF r
  <2>9. CASE fmt # "Text"
    <3>1. ~Failed(BinaryToken(u, q)) /\ BinaryToken(u, q).at <= M
      BY <1>1, <2>1, <2>3, <2>6, <2>9
    <3>2. BinaryToken(v, q) = BinaryToken(u, q)
      BY <2>5, <3>1, BinaryTokensAgree
    <3> QED
      BY <2>6, <2>7, <2>9, <3>2 DEF r
  <2> QED
    BY <2>8, <2>9
<1> QED
  BY <1>1, <1>2, <1>3 DEF Agree

\* In binary that goes for malformed values too, up to the last byte of u.
LEMMA BinaryPrefixesAgree ==
    ASSUME NEW u \in Seq(Byte), NEW v \in Seq(Byte), Shares(u, v, Len(u))
    PROVE  Agree(u, v, Len(u), {"bad"}, "Binary")
<1> DEFINE fmt == "Binary"
<1>1. Len(u) \in Nat /\ Len(v) \in Nat /\ Len(u) <= Len(v)
  BY DEF Shares
<1>2. Agree(u, v, Len(u), {}, fmt)
  <2> DEFINE M == Len(u)
  <2>1. Shares(u, v, M) /\ M \in Nat /\ M <= M /\ fmt # "Text"
    BY <1>1
  <2> HIDE DEF M, fmt
  <2>2. Agree(u, v, M, {}, fmt)
    BY <2>1, PrefixesAgree
  <2> QED
    BY <2>2 DEF M
<1>3. ASSUME NEW p \in 0..Len(u), Settled(SkipToken(u, p, fmt), Len(u), {"bad"})
      PROVE  SkipToken(v, p, fmt) = SkipToken(u, p, fmt)
  <2>1. CASE ~Failed(SkipToken(u, p, fmt))
    <3>1. Settled(SkipToken(u, p, fmt), Len(u), {})
      BY <1>3, <2>1 DEF Settled
    <3> QED
      BY <1>2, <3>1 DEF Agree
  <2>2. CASE Failed(SkipToken(u, p, fmt))
    <3>1. SkipToken(u, p, fmt).kind = "bad"
      BY <1>3, <2>2 DEF Settled
    <3>2. Inside(u, p) /\ SkipToken(u, p, fmt) = BinaryToken(u, p)
      BY <3>1 DEF SkipToken, Meaningful, Eof
    <3>3. p \in 0..(Len(u) - 1) /\ Inside(v, p)
      BY <1>1, <3>2 DEF Inside
    <3>4. BinaryToken(v, p) = BinaryToken(u, p)
      BY <3>1, <3>2, <3>3, BadBinaryTokenStaysBad
    <3> QED
      BY <3>2, <3>3, <3>4 DEF SkipToken, Meaningful
  <2> QED
    BY <2>1, <2>2
<1> QED
  BY <1>2, <1>3 DEF Agree
=============================================================================
