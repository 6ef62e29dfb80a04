-------------------------- MODULE SerializerProofs --------------------------
(***************************************************************************)
(* Theorems about Serializer, for every nesting, every number of fields    *)
(* and all orderly callers.                                                *)
(*                                                                         *)
(* The argument follows the output from the outside in.  Each compound has *)
(* the levels it opened (Bracketing), each one but the innermost is in the *)
(* middle of a call that was handed a value (Calling), and the innermost   *)
(* level wants what the innermost compound will write next (Fits).         *)
(***************************************************************************)
EXTENDS Serializer, DocumentProofs

Last(s) == s[Len(s)]

\* The brackets a compound has open, and the levels with them.
Opens(c) ==
    CASE c.mode \in {"Seq", "Map", "Attr", "NewtypeVariant"} -> 1
      [] c.mode \in {"VariantSeq", "VariantMap"} -> 2
      [] c.mode = "AttrWrapper" -> 0
      [] c.mode = "Struct" -> IF c.state \in {"Attrs", "Body"} THEN 1 ELSE 0

Reach(c) == c.base + Opens(c)

\* What the innermost bracket of its own is.
Own(c) ==
    CASE c.mode \in {"Seq", "VariantSeq"} -> "list"
      [] c.mode = "Attr" \/ (c.mode = "Struct" /\ c.state = "Attrs") -> "attributes"
      [] OTHER -> "map"

\* A variant of two brackets is the value in the outer one.
Owned(c, d) ==
    /\ Opens(c) = 2 => d[c.base + 1] = [kind |-> "map", want |-> "value"]
    /\ Opens(c) > 0 => d[Reach(c)].kind = Own(c)

Bracketing(s, d) ==
    /\ d \in Document
    /\ Len(d) = IF s = <<>> THEN 1 ELSE Reach(Last(s))
    /\ d[1].kind = "fragment"
    /\ \A i \in 1..Len(s) :
          /\ s[i].base >= 1
          /\ s[i].base = IF i = 1 THEN 1 ELSE Reach(s[i - 1])
          /\ Owned(s[i], d)
    /\ \A i, j \in 1..Len(s) : i < j => Reach(s[i]) <= s[j].base

-----------------------------------------------------------------------------
AsksAttributes(c) == c.mode = "AttrWrapper" /\ c.fields = <<"attribute">>

\* The fields a struct was given, by its state.
FieldsFit(c) ==
    LET n == Len(c.fields) IN
    CASE c.state = "Start" -> n = 0
      [] c.state = "Attrs" -> n > 0 /\ \A i \in 1..n : c.fields[i] = "attribute"
      [] c.state = "Value" ->
            n > 0 /\ c.fields[n] = "value" /\ \A i \in 1..(n - 1) : c.fields[i] = "attribute"
      [] c.state = "Body"  ->
            \E k \in 0..(n - 1) : /\ \A i \in 1..k : c.fields[i] = "attribute"
                                  /\ \A i \in (k + 1)..n : c.fields[i] = "plain"

\* What a compound is like, wherever it is on the stack.
Shaped(c) ==
    /\ CASE c.mode \in {"Seq", "VariantSeq"} -> c.trait = "seq"
         [] c.mode = "Map" -> c.trait = "map"
         [] c.mode = "Attr" -> c.trait \in {"map", "struct"}
         [] c.mode = "NewtypeVariant" -> c.trait = "none"
         [] OTHER -> c.trait = "struct"
    /\ c.turn \in {"key", "keyed"} => c.trait = "map"
    /\ (c.first /\ c.turn # "idle") => c.mode \in {"Struct", "AttrWrapper", "NewtypeVariant"}
    /\ c.mode = "AttrWrapper" =>
          /\ c.fields \in {<<>>, <<"attribute">>, <<"attribute", "value">>}
          /\ c.fields = <<>> => c.turn = "idle"
          /\ ~c.attributed
    /\ c.mode = "Struct" =>
          /\ FieldsFit(c)
          /\ c.state = "Start" => c.turn = "idle"
          /\ c.state \in {"Attrs", "Body"} => ~c.first

\* Attributes are written where they are asked for, and nowhere else.
Calling(s) ==
    /\ \A i \in 1..Len(s) : Shaped(s[i])
    /\ s # <<>> => s[1].mode # "Attr"
    /\ \A i \in 1..(Len(s) - 1) :
          s[i].turn = "value" /\ (AsksAttributes(s[i]) <=> s[i + 1].mode = "Attr")

-----------------------------------------------------------------------------
Between(c) == IF c.first THEN "first" ELSE "more"

\* A struct whose $value, if that is what is asked for, has attributes.
HasAttributes(c) == c.attributed \/ c.fields[1] = "attribute"

\* The level the compound writes to next wants what it will write.
FitsList(c, l) == IF c.turn = "idle" THEN l.want = Between(c) ELSE TakesAttributes(l)

FitsMap(c, l) ==
    CASE c.turn = "idle"  -> l.want = Between(c)
      [] c.turn = "key"   -> l.want \in {"first", "key"}
      [] c.turn = "keyed" -> l.want = "equals"
      [] c.turn = "value" -> l.want = "value"

FitsVariant(c, l) == l.want = IF c.turn = "idle" THEN "more" ELSE "value"

FitsWrapper(c, l) ==
    CASE c.fields = <<>> -> TakesAttributes(l)
      [] c.fields = <<"attribute">> ->
            IF c.turn = "idle" THEN l.want = "node" ELSE TakesAttributes(l)
      [] OTHER -> l.want = IF c.turn = "idle" THEN "more" ELSE "node"

FitsStruct(c, l) ==
    CASE c.state = "Start" -> IF c.attributed THEN l.want = "node" ELSE TakesAttributes(l)
      [] c.state \in {"Attrs", "Body"} ->
            l.want = IF c.turn = "idle" THEN "more" ELSE "value"
      [] c.state = "Value" ->
            IF c.turn = "idle" THEN l.want = "more"
            ELSE IF HasAttributes(c) THEN l.want = "node" ELSE TakesAttributes(l)

Fits(c, l) ==
    CASE c.mode \in {"Seq", "VariantSeq"} -> FitsList(c, l)
      [] c.mode \in {"Map", "Attr", "VariantMap"} -> FitsMap(c, l)
      [] c.mode = "NewtypeVariant" -> FitsVariant(c, l)
      [] c.mode = "AttrWrapper" -> FitsWrapper(c, l)
      [] c.mode = "Struct" -> FitsStruct(c, l)

Innermosts(s, d, st) ==
    IF s = <<>> THEN d[1].want = IF st = "done" THEN "more" ELSE "value"
                ELSE st = "open" /\ Fits(Last(s), Innermost(d))

Flagged(s, flag) ==
    flag <=> s # <<>> /\ AsksAttributes(Last(s)) /\ Last(s).turn = "value"

\* What holds while no field is refused.
Settled(s, d, st, flag) ==
    /\ Bracketing(s, d)
    /\ Calling(s)
    /\ Innermosts(s, d, st)
    /\ Flagged(s, flag)

Writing == Settled(stack, output, status, is_writing_attributes)

Refused ==
    /\ output # Rejected
    /\ stack # <<>>
    /\ ~is_writing_attributes
    /\ RefusedOutOfOrder

IInv ==
    /\ TypeOK
    /\ status # "refused" => Writing
    /\ status = "refused" => Refused
-----------------------------------------------------------------------------
(***************************************************************************)
(* What the stack and the levels have to do with each other survives a     *)
(* compound that begins, goes on, or ends.                                 *)
(***************************************************************************)
\* d and e agree in the first m levels, but for what the last of them wants.
Agree(d, e, m) ==
    /\ \A i \in 1..(m - 1) : e[i] = d[i]
    /\ e[m].kind = d[m].kind

LEMMA CompoundType ==
    ASSUME NEW c \in Compound
    PROVE  /\ c.base \in Nat /\ Opens(c) \in 0..2
           /\ Reach(c) \in Nat /\ Reach(c) >= c.base
           /\ Reach(c) = c.base + Opens(c)
<1>1. c.base \in Nat /\ c.mode \in Modes
  BY DEF Compound
<1>2. Opens(c) \in 0..2
  BY <1>1 DEF Opens, Modes
<1> QED
  BY <1>1, <1>2 DEF Reach

LEMMA OwnedKept ==
    ASSUME NEW c \in Compound, NEW d, NEW e, NEW m \in Nat,
           c.base >= 1, Reach(c) <= m, Agree(d, e, m), Owned(c, d)
    PROVE  Owned(c, e)
<1>1. /\ c.base \in Nat /\ Opens(c) \in 0..2 /\ Reach(c) = c.base + Opens(c)
  BY CompoundType
<1>2. ASSUME Opens(c) = 2 PROVE e[c.base + 1] = d[c.base + 1]
  BY <1>1, <1>2 DEF Agree
<1>3. e[Reach(c)].kind = d[Reach(c)].kind
  BY <1>1 DEF Agree
<1> QED
  BY <1>2, <1>3 DEF Owned

\* The levels that are there.
LEMMA LevelsType ==
    ASSUME NEW s \in Seq(Compound), NEW d, Bracketing(s, d)
    PROVE  /\ d \in Document /\ Len(d) \in Nat /\ Len(d) >= 1
           /\ Len(s) \in Nat
           /\ \A i \in 1..Len(s) : s[i] \in Compound /\ Reach(s[i]) <= Len(d)
<1>1. d \in Document /\ Len(d) \in Nat /\ Len(s) \in Nat
  BY LenProperties DEF Bracketing, Document
<1>2. \A i \in 1..Len(s) : s[i] \in Compound
  BY ElementOfSeq
<1>3. CASE s = <<>>
  BY <1>1, <1>3, EmptySeq DEF Bracketing
<1>4. CASE s # <<>>
  <2>1. Len(s) \in 1..Len(s) /\ Len(d) = Reach(s[Len(s)])
    BY <1>1, <1>4, EmptySeq DEF Bracketing, Last
  <2>2. s[Len(s)].base >= 1 /\ Reach(s[Len(s)]) >= s[Len(s)].base /\ s[Len(s)].base \in Nat
    BY <1>2, <2>1, CompoundType DEF Bracketing
  <2>3. ASSUME NEW i \in 1..Len(s), i < Len(s) PROVE Reach(s[i]) <= s[Len(s)].base
    BY <2>1, <2>3 DEF Bracketing
  <2>4. ASSUME NEW i \in 1..Len(s) PROVE Reach(s[i]) <= Len(d)
    <3>1. Reach(s[i]) \in Nat /\ Reach(s[Len(s)]) \in Nat
      BY <1>2, <2>1, CompoundType
    <3> QED
      BY <1>1, <2>1, <2>2, <2>3, <3>1
  <2> QED
    BY <1>1, <1>2, <2>1, <2>2, <2>4
<1> QED
  BY <1>3, <1>4

\* The compounds below the last are inside its base.
LEMMA BelowBase ==
    ASSUME NEW s \in Seq(Compound), s # <<>>, NEW d, Bracketing(s, d)
    PROVE  /\ Len(s) \in 1..Len(s) /\ Last(s) \in Compound
           /\ Last(s).base \in Nat /\ Last(s).base >= 1
           /\ Last(s).base = IF Len(s) = 1 THEN 1 ELSE Reach(s[Len(s) - 1])
           /\ Len(d) = Reach(Last(s)) /\ Owned(Last(s), d)
           /\ \A i \in 1..(Len(s) - 1) : Reach(s[i]) <= Last(s).base
<1>1. Len(s) \in 1..Len(s) /\ Len(s) \in Nat
  BY EmptySeq, LenProperties
<1>2. s[Len(s)] \in Compound
  BY <1>1, ElementOfSeq
<1>3. \A i \in 1..(Len(s) - 1) : i \in 1..Len(s) /\ i < Len(s)
  BY <1>1
<1> QED
  BY <1>1, <1>2, <1>3, CompoundType DEF Bracketing, Last

LEMMA PushBracketing ==
    ASSUME NEW s \in Seq(Compound), NEW d, Bracketing(s, d),
           NEW c \in Compound, c.base = Len(d),
           NEW e \in Document, Len(e) = Reach(c), Agree(d, e, Len(d)), Owned(c, e)
    PROVE  Bracketing(Append(s, c), e)
<1> DEFINE t == Append(s, c)
           n == Len(s)
<1>1. /\ Len(d) \in Nat /\ Len(d) >= 1 /\ n \in Nat
      /\ \A i \in 1..n : s[i] \in Compound /\ Reach(s[i]) <= Len(d)
  BY LevelsType
<1>2. /\ t # <<>> /\ Len(t) = n + 1
      /\ \A i \in 1..n : t[i] = s[i]
      /\ t[n + 1] = c /\ Last(t) = c
  BY AppendProperties DEF Last
<1> HIDE DEF t
<1>3. e[1].kind = "fragment"
  BY <1>1 DEF Agree, Bracketing
<1>4. ASSUME NEW i \in 1..n
      PROVE  /\ t[i].base >= 1
             /\ t[i].base = IF i = 1 THEN 1 ELSE Reach(t[i - 1])
             /\ Owned(t[i], e)
  <2>1. t[i] = s[i] /\ (i # 1 => t[i - 1] = s[i - 1])
    BY <1>1, <1>2
  <2>2. s[i].base >= 1 /\ s[i].base = (IF i = 1 THEN 1 ELSE Reach(s[i - 1])) /\ Owned(s[i], d)
    BY DEF Bracketing
  <2>3. Owned(s[i], e)
    BY <1>1, <2>2, OwnedKept
  <2> QED
    BY <2>1, <2>2, <2>3
<1>5. c.base = IF n = 0 THEN 1 ELSE Reach(s[n])
  <2>1. n = 0 <=> s = <<>>
    BY <1>1, EmptySeq
  <2> QED
    BY <2>1 DEF Bracketing, Last
<1>6. ASSUME NEW i \in 1..(n + 1), NEW j \in 1..(n + 1), i < j
      PROVE  Reach(t[i]) <= t[j].base
  <2>1. i \in 1..n /\ t[i] = s[i]
    BY <1>1, <1>2, <1>6
  <2>2. CASE j \in 1..n
    BY <1>2, <1>6, <2>1, <2>2 DEF Bracketing
  <2>3. CASE j = n + 1
    BY <1>1, <1>2, <2>1, <2>3
  <2> QED
    BY <1>1, <2>2, <2>3
<1>7. ASSUME NEW i \in 1..(n + 1)
      PROVE  /\ t[i].base >= 1
             /\ t[i].base = IF i = 1 THEN 1 ELSE Reach(t[i - 1])
             /\ Owned(t[i], e)
  <2>1. CASE i \in 1..n
    BY <1>4, <2>1
  <2>2. CASE i = n + 1
    <3>1. n # 0 => t[i - 1] = s[n] /\ (i = 1 <=> n = 0)
      BY <1>1, <1>2, <2>2
    <3> QED
      BY <1>1, <1>2, <1>5, <2>2, <3>1
  <2> QED
    BY <1>1, <2>1, <2>2
<1> QED
  BY <1>2, <1>3, <1>6, <1>7 DEF Bracketing, t

LEMMA TopBracketing ==
    ASSUME NEW s \in Seq(Compound), s # <<>>, NEW d, Bracketing(s, d),
           NEW c \in Compound, c.base = Last(s).base,
           NEW e \in Document, Len(e) = Reach(c), Agree(d, e, c.base), Owned(c, e)
    PROVE  Bracketing([s EXCEPT ![Len(s)] = c], e)
<1> DEFINE t == [s EXCEPT ![Len(s)] = c]
           n == Len(s)
<1>1. /\ n \in 1..n /\ n \in Nat
      /\ c.base >= 1
      /\ c.base = IF n = 1 THEN 1 ELSE Reach(s[n - 1])
      /\ \A i \in 1..(n - 1) : Reach(s[i]) <= c.base
      /\ \A i \in 1..n : s[i] \in Compound
      /\ c.base \in Nat
  BY BelowBase, LevelsType
<1>2. /\ Len(t) = n /\ \A i \in 1..(n - 1) : t[i] = s[i]
      /\ t[n] = c
  BY <1>1, ExceptSeq
<1> HIDE DEF t
<1>3. e[1].kind = "fragment"
  BY <1>1 DEF Agree, Bracketing
<1>4. ASSUME NEW i \in 1..n
      PROVE  /\ t[i].base >= 1
             /\ t[i].base = IF i = 1 THEN 1 ELSE Reach(t[i - 1])
             /\ Owned(t[i], e)
  <2>1. CASE i = n
    <3>1. n # 1 => t[n - 1] = s[n - 1]
      BY <1>1, <1>2
    <3> QED
      BY <1>1, <1>2, <2>1, <3>1
  <2>2. CASE i # n
    <3>1. i \in 1..(n - 1) /\ t[i] = s[i] /\ (i # 1 => t[i - 1] = s[i - 1])
      BY <1>1, <1>2, <2>2
    <3>2. /\ s[i].base >= 1 /\ Owned(s[i], d)
          /\ s[i].base = IF i = 1 THEN 1 ELSE Reach(s[i - 1])
      BY DEF Bracketing
    <3>3. Owned(s[i], e)
      BY <1>1, <3>1, <3>2, OwnedKept
    <3> QED
      BY <3>1, <3>2, <3>3
  <2> QED
    BY <2>1, <2>2
<1>5. ASSUME NEW i \in 1..n, NEW j \in 1..n, i < j
      PROVE  Reach(t[i]) <= t[j].base
  <2>1. i \in 1..(n - 1) /\ t[i] = s[i]
    BY <1>1, <1>2, <1>5
  <2>2. CASE j # n
    <3>1. j \in 1..(n - 1)
      BY <1>1, <2>2
    <3>2. t[j] = s[j]
      BY <1>2, <3>1
    <3> QED
      BY <1>5, <2>1, <3>2 DEF Bracketing
  <2>3. CASE j = n
    BY <1>1, <1>2, <2>1, <2>3
  <2> QED
    BY <2>2, <2>3
<1>6. t # <<>> /\ Last(t) = c
  BY <1>1, <1>2, EmptySeq DEF Last
<1> QED
  BY <1>2, <1>3, <1>4, <1>5, <1>6 DEF Bracketing, t

\* The stack without its last compound.
LEMMA BelowType ==
    ASSUME NEW s \in Seq(Compound), s # <<>>
    PROVE  /\ SubSeq(s, 1, Len(s) - 1) \in Seq(Compound)
           /\ Len(SubSeq(s, 1, Len(s) - 1)) = Len(s) - 1
           /\ \A i \in 1..(Len(s) - 1) : SubSeq(s, 1, Len(s) - 1)[i] = s[i]
           /\ (SubSeq(s, 1, Len(s) - 1) = <<>> <=> Len(s) = 1)
<1> DEFINE t == SubSeq(s, 1, Len(s) - 1)
<1>1. Len(s) \in Nat /\ Len(s) > 0
  BY LenProperties, EmptySeq
<1>3. /\ t \in Seq(Compound) /\ Len(t) = Len(s) - 1
      /\ \A i \in 1..(Len(s) - 1) : t[i] = s[i]
  <2>1. 1..(Len(s) - 1) \subseteq 1..Len(s) /\ Len(s) - 1 \in Nat
    BY <1>1
  <2>2. \A i \in 1..(Len(s) - 1) : s[i] \in Compound
    BY <2>1, ElementOfSeq
  <2> DEFINE m == Len(s) - 1
  <2>3. m \in Nat /\ m \in Int /\ 1 \in Int /\ m - 1 + 1 = m
    BY <2>1
  <2> HIDE DEF m
  <2>4. \A i \in 1..m : s[i] \in Compound
    BY <2>2 DEF m
  <2>5. /\ SubSeq(s, 1, m) \in Seq(Compound)
        /\ Len(SubSeq(s, 1, m)) = IF 1 <= m THEN m - 1 + 1 ELSE 0
        /\ \A i \in 1..(m - 1 + 1) : SubSeq(s, 1, m)[i] = s[1 + i - 1]
    BY <2>3, <2>4, SubSeqProperties
  <2>6. \A i \in 1..m : SubSeq(s, 1, m)[i] = s[i]
    <3>1. \A i \in 1..m : 1 + i - 1 = i
      BY <2>3
    <3> QED
      BY <2>3, <2>5, <3>1
  <2>7. Len(SubSeq(s, 1, m)) = m
    BY <2>3, <2>5
  <2> QED
    BY <2>5, <2>6, <2>7 DEF m, t
<1> HIDE DEF t
<1>4. t = <<>> <=> Len(t) = 0
  BY <1>3, EmptySeq
<1> QED
  BY <1>1, <1>3, <1>4 DEF t

LEMMA PopBracketing ==
    ASSUME NEW s \in Seq(Compound), s # <<>>, NEW d, Bracketing(s, d),
           NEW e \in Document, Len(e) = Last(s).base, Agree(d, e, Last(s).base)
    PROVE  Bracketing(SubSeq(s, 1, Len(s) - 1), e)
<1> DEFINE t == SubSeq(s, 1, Len(s) - 1)
           n == Len(s)
           b == Last(s).base
<1>1. /\ n \in 1..n /\ n \in Nat
      /\ b \in Nat /\ b >= 1
      /\ b = IF n = 1 THEN 1 ELSE Reach(s[n - 1])
      /\ \A i \in 1..(n - 1) : Reach(s[i]) <= b
      /\ \A i \in 1..n : s[i] \in Compound
  BY BelowBase, LevelsType
<1>2. /\ Len(t) = n - 1 /\ \A i \in 1..(n - 1) : t[i] = s[i]
      /\ t = <<>> <=> n = 1
  BY BelowType
<1> HIDE DEF t, b
<1>3. e[1].kind = "fragment"
  BY <1>1 DEF Agree, Bracketing, b
<1>4. ASSUME NEW i \in 1..(n - 1)
      PROVE  /\ t[i].base >= 1
             /\ t[i].base = IF i = 1 THEN 1 ELSE Reach(t[i - 1])
             /\ Owned(t[i], e)
  <2>1. i \in 1..n /\ t[i] = s[i] /\ (i # 1 => t[i - 1] = s[i - 1])
    BY <1>1, <1>2
  <2>2. /\ s[i].base >= 1 /\ Owned(s[i], d)
        /\ s[i].base = IF i = 1 THEN 1 ELSE Reach(s[i - 1])
    BY <2>1 DEF Bracketing
  <2>3. Owned(s[i], e)
    BY <1>1, <2>1, <2>2, OwnedKept DEF b
  <2> QED
    BY <2>1, <2>2, <2>3
<1>5. ASSUME NEW i \in 1..(n - 1), NEW j \in 1..(n - 1), i < j
      PROVE  Reach(t[i]) <= t[j].base
  <2>1. i \in 1..n /\ j \in 1..n /\ t[i] = s[i] /\ t[j] = s[j]
    BY <1>1, <1>2
  <2> QED
    BY <1>5, <2>1 DEF Bracketing
<1>6. Len(e) = IF t = <<>> THEN 1 ELSE Reach(Last(t))
  BY <1>1, <1>2 DEF Last, b
<1> QED
  BY <1>2, <1>3, <1>4, <1>5, <1>6 DEF Bracketing, t

-----------------------------------------------------------------------------
(***************************************************************************)
(* The same for what the compounds have to do with each other.             *)
(***************************************************************************)
LEMMA PushCalling ==
    ASSUME NEW s \in Seq(Compound), Calling(s),
           NEW c \in Compound, Shaped(c),
           s = <<>> => c.mode # "Attr",
           s # <<>> => /\ Last(s).turn = "value"
                       /\ AsksAttributes(Last(s)) <=> c.mode = "Attr"
    PROVE  Calling(Append(s, c))
<1> DEFINE t == Append(s, c)
           n == Len(s)
<1>1. /\ n \in Nat /\ t # <<>> /\ Len(t) = n + 1 /\ t[n + 1] = c
      /\ \A i \in 1..n : t[i] = s[i]
      /\ s # <<>> => n > 0
      /\ s = <<>> => n = 0
  BY AppendProperties, LenProperties, EmptySeq
<1> HIDE DEF t
<1>2. ASSUME NEW i \in 1..(n + 1) PROVE Shaped(t[i])
  <2>1. CASE i \in 1..n
    BY <1>1, <2>1 DEF Calling
  <2>2. CASE i = n + 1
    BY <1>1, <2>2
  <2> QED
    BY <1>1, <2>1, <2>2
<1>3. t[1].mode # "Attr"
  BY <1>1 DEF Calling
<1>4. ASSUME NEW i \in 1..n
      PROVE  t[i].turn = "value" /\ (AsksAttributes(t[i]) <=> t[i + 1].mode = "Attr")
  <2>1. CASE i = n
    BY <1>1, <2>1 DEF Last
  <2>2. CASE i # n
    <3>1. i \in 1..(n - 1) /\ i + 1 \in 1..n
      BY <1>1, <2>2
    <3> QED
      BY <1>1, <3>1 DEF Calling
  <2> QED
    BY <2>1, <2>2
<1>5. Len(t) - 1 = n
  BY <1>1
<1> QED
  BY <1>1, <1>2, <1>3, <1>4, <1>5 DEF Calling, t

LEMMA TopCalling ==
    ASSUME NEW s \in Seq(Compound), s # <<>>, Calling(s),
           NEW c \in Compound, Shaped(c), c.mode = Last(s).mode
    PROVE  Calling([s EXCEPT ![Len(s)] = c])
<1> DEFINE t == [s EXCEPT ![Len(s)] = c]
           n == Len(s)
<1>1. n \in Nat /\ n \in 1..n
  BY LenProperties, EmptySeq
<1>2. /\ Len(t) = n /\ t[n] = c
      /\ \A i \in 1..(n - 1) : t[i] = s[i]
  BY <1>1, ExceptSeq
<1> HIDE DEF t
<1>3. ASSUME NEW i \in 1..n PROVE Shaped(t[i]) /\ t[i].mode = s[i].mode
  <2>1. CASE i \in 1..(n - 1)
    BY <1>1, <1>2, <2>1 DEF Calling
  <2>2. CASE i = n
    BY <1>1, <1>2, <2>2 DEF Last
  <2> QED
    BY <1>1, <2>1, <2>2
<1>4. ASSUME NEW i \in 1..(n - 1)
      PROVE  t[i].turn = "value" /\ (AsksAttributes(t[i]) <=> t[i + 1].mode = "Attr")
  <2>1. i + 1 \in 1..n
    BY <1>1
  <2> QED
    BY <1>2, <1>3, <2>1 DEF Calling
<1>5. 1 \in 1..n
  BY <1>1
<1> QED
  BY <1>1, <1>2, <1>3, <1>4, <1>5 DEF Calling, t

LEMMA PopCalling ==
    ASSUME NEW s \in Seq(Compound), s # <<>>, Calling(s)
    PROVE  LET t == SubSeq(s, 1, Len(s) - 1) IN
           /\ Calling(t)
           /\ t = <<>> => Last(s).mode # "Attr"
           /\ t # <<>> => /\ Last(t).turn = "value"
                          /\ AsksAttributes(Last(t)) <=> Last(s).mode = "Attr"
<1> DEFINE t == SubSeq(s, 1, Len(s) - 1)
           n == Len(s)
<1>1. n \in Nat /\ n \in 1..n /\ n > 0
  BY LenProperties, EmptySeq
<1>2. /\ Len(t) = n - 1 /\ \A i \in 1..(n - 1) : t[i] = s[i]
      /\ t = <<>> <=> n = 1
  BY BelowType
<1> HIDE DEF t
<1>3. \A i \in 1..(n - 1) : i \in 1..n
  BY <1>1
<1>4. ASSUME NEW i \in 1..((n - 1) - 1)
      PROVE  t[i].turn = "value" /\ (AsksAttributes(t[i]) <=> t[i + 1].mode = "Attr")
  <2>1. i \in 1..(n - 1) /\ i + 1 \in 1..(n - 1)
    BY <1>1
  <2> QED
    BY <1>2, <2>1 DEF Calling
<1>5. t # <<>> => 1 \in 1..(n - 1)
  BY <1>1, <1>2
<1>6. Calling(t)
  BY <1>2, <1>3, <1>4, <1>5 DEF Calling
<1>7. t = <<>> => Last(s).mode # "Attr"
  BY <1>2 DEF Calling, Last
<1>8. ASSUME t # <<>>
      PROVE  Last(t).turn = "value" /\ (AsksAttributes(Last(t)) <=> Last(s).mode = "Attr")
  <2>1. n - 1 \in 1..(n - 1) /\ (n - 1) + 1 = n
    BY <1>1, <1>2, <1>8
  <2>2. s[n - 1].turn = "value" /\ (AsksAttributes(s[n - 1]) <=> s[(n - 1) + 1].mode = "Attr")
    BY <2>1 DEF Calling
  <2> QED
    BY <1>2, <2>1, <2>2 DEF Last
<1> QED
  BY <1>6, <1>7, <1>8 DEF t

-----------------------------------------------------------------------------
(***************************************************************************)
(* What the steps have in common: a compound is pushed, the top one goes   *)
(* on, or a value is complete.                                             *)
(***************************************************************************)
Flags(c) == AsksAttributes(c) /\ c.turn = "value"

LEMMA PushSettled ==
    ASSUME NEW s \in Seq(Compound), NEW d, Bracketing(s, d), Calling(s),
           NEW c \in Compound, Shaped(c), c.base = Len(d), ~Flags(c),
           s = <<>> => c.mode # "Attr",
           s # <<>> => /\ Last(s).turn = "value"
                       /\ AsksAttributes(Last(s)) <=> c.mode = "Attr",
           NEW e \in Document, Len(e) = Reach(c), Agree(d, e, Len(d)), Owned(c, e),
           Fits(c, Innermost(e))
    PROVE  Settled(Append(s, c), e, "open", FALSE)
<1> DEFINE t == Append(s, c)
<1>1. t # <<>> /\ Last(t) = c
  BY AppendProperties DEF Last
<1>2. Bracketing(t, e) /\ Calling(t)
  BY PushBracketing, PushCalling
<1> HIDE DEF t
<1>3. Innermosts(t, e, "open") /\ Flagged(t, FALSE)
  BY <1>1 DEF Innermosts, Flagged, Flags
<1> QED
  BY <1>2, <1>3 DEF Settled, t

LEMMA TopSettled ==
    ASSUME NEW s \in Seq(Compound), s # <<>>, NEW d, Bracketing(s, d), Calling(s),
           NEW c \in Compound, Shaped(c), c.base = Last(s).base, c.mode = Last(s).mode,
           NEW e \in Document, Len(e) = Reach(c), Agree(d, e, c.base), Owned(c, e),
           Fits(c, Innermost(e)),
           NEW flag \in BOOLEAN, flag <=> Flags(c)
    PROVE  Settled([s EXCEPT ![Len(s)] = c], e, "open", flag)
<1> DEFINE t == [s EXCEPT ![Len(s)] = c]
<1>1. t # <<>> /\ Last(t) = c
  <2>1. Len(s) \in Nat /\ Len(s) > 0 /\ Len(s) \in 1..Len(s)
    BY LenProperties, EmptySeq
  <2>2. Len(t) = Len(s) /\ t[Len(s)] = c
    BY <2>1, ExceptSeq
  <2> HIDE DEF t
  <2> QED
    BY <2>1, <2>2, EmptySeq DEF Last
<1>2. Bracketing(t, e) /\ Calling(t)
  BY TopBracketing, TopCalling
<1> HIDE DEF t
<1>3. Innermosts(t, e, "open") /\ Flagged(t, flag)
  BY <1>1 DEF Innermosts, Flagged, Flags
<1> QED
  BY <1>2, <1>3 DEF Settled, t

-----------------------------------------------------------------------------
\* c, once what it was handed is written.
Rested(c) == [c EXCEPT !.turn = IF @ = "key" THEN "keyed" ELSE "idle"]

LEMMA RestedType ==
    ASSUME NEW c \in Compound
    PROVE  /\ Rested(c) \in Compound
           /\ \A f \in {"mode", "trait", "first", "state", "fields", "attributed", "base"} :
                 Rested(c)[f] = c[f]
           /\ Rested(c).turn = IF c.turn = "key" THEN "keyed" ELSE "idle"
<1>1. Rested(c) \in Compound
  BY DEF Rested, Compound, Turns
<1>2. \A f \in {"mode", "trait", "first", "state", "fields", "attributed", "base"} :
         Rested(c)[f] = c[f]
  BY DEF Rested, Compound
<1>3. Rested(c).turn = IF c.turn = "key" THEN "keyed" ELSE "idle"
  BY DEF Rested, Compound
<1> QED
  BY <1>1, <1>2, <1>3

\* Compounds that differ in nothing else have the same levels.
LEMMA RestedShape ==
    ASSUME NEW c \in Compound, Shaped(c), c.turn \in {"key", "value"}
    PROVE  /\ Shaped(Rested(c))
           /\ Reach(Rested(c)) = Reach(c)
           /\ \A d : Owned(c, d) => Owned(Rested(c), d)
           /\ ~Flags(Rested(c))
<1> DEFINE r == Rested(c)
<1>1. /\ r.mode = c.mode /\ r.trait = c.trait /\ r.first = c.first /\ r.state = c.state
      /\ r.fields = c.fields /\ r.attributed = c.attributed /\ r.base = c.base
      /\ r.turn = IF c.turn = "key" THEN "keyed" ELSE "idle"
  BY RestedType
<1> HIDE DEF r
<1>2. FieldsFit(r) <=> FieldsFit(c)
  BY <1>1 DEF FieldsFit
<1>3. Shaped(r)
  BY <1>1, <1>2 DEF Shaped
<1>4. Opens(r) = Opens(c) /\ Own(r) = Own(c)
  BY <1>1 DEF Opens, Own
<1>5. ~Flags(r)
  BY <1>1 DEF Flags
<1> QED
  BY <1>1, <1>3, <1>4, <1>5 DEF Reach, Owned, r

\* What the level wants when a value, or a key, is written.
Behind(c) == IF c.turn = "key" THEN "equals"
             ELSE IF AsksAttributes(c) THEN "node" ELSE "more"

LEMMA RestedFits ==
    ASSUME NEW c \in Compound, Shaped(c), c.turn \in {"key", "value"},
           NEW l, l.want = Behind(c)
    PROVE  Fits(Rested(c), l)
<1> DEFINE r == Rested(c)
<1> SUFFICES Fits(r, l)
  OBVIOUS
<1>1. /\ r.mode = c.mode /\ r.trait = c.trait /\ r.first = c.first /\ r.state = c.state
      /\ r.fields = c.fields /\ r.attributed = c.attributed /\ r.base = c.base
      /\ r.turn = IF c.turn = "key" THEN "keyed" ELSE "idle"
  BY RestedType
<1> HIDE DEF r
<1>2. c.mode \in Modes /\ c.state \in StructStates
  BY DEF Compound
<1>3. CASE c.mode \in {"Seq", "VariantSeq"}
  <2>1. c.turn = "value" /\ ~c.first
    BY <1>3 DEF Shaped
  <2> QED
    BY <1>1, <1>3, <2>1 DEF Fits, FitsList, Between, Behind, AsksAttributes
<1>4. CASE c.mode \in {"Map", "Attr", "VariantMap"}
  <2>1. ~c.first
    BY <1>4 DEF Shaped
  <2>2. Fits(r, l) <=> FitsMap(r, l)
    BY <1>1, <1>4 DEF Fits
  <2> QED
    BY <1>1, <1>4, <2>1, <2>2 DEF FitsMap, Between, Behind, AsksAttributes
<1>5. CASE c.mode = "NewtypeVariant"
  <2>1. c.turn = "value"
    BY <1>5 DEF Shaped
  <2> QED
    BY <1>1, <1>5, <2>1 DEF Fits, FitsVariant, Behind, AsksAttributes
<1>6. CASE c.mode = "AttrWrapper"
  <2>1. c.turn = "value" /\ c.fields # <<>>
    BY <1>6 DEF Shaped
  <2>2. Fits(r, l) <=> FitsWrapper(r, l)
    BY <1>1, <1>6 DEF Fits
  <2> QED
    BY <1>1, <1>6, <2>1, <2>2 DEF FitsWrapper, Behind, AsksAttributes
<1>7. CASE c.mode = "Struct"
  <2>1. c.turn = "value" /\ c.state # "Start"
    BY <1>7 DEF Shaped
  <2>2. Fits(r, l) <=> FitsStruct(r, l)
    BY <1>1, <1>7 DEF Fits
  <2> QED
    BY <1>1, <1>2, <1>7, <2>1, <2>2 DEF FitsStruct, Behind, AsksAttributes, StructStates
<1> QED
  BY <1>2, <1>3, <1>4, <1>5, <1>6, <1>7 DEF Modes

LEMMA ResumedIsRested ==
    ASSUME NEW s \in Seq(Compound), s # <<>>
    PROVE  /\ Last(s) \in Compound
           /\ Resumed(s) = [s EXCEPT ![Len(s)] = Rested(Last(s))]
<1>1. Len(s) \in 1..Len(s)
  BY LenProperties, EmptySeq
<1>2. Last(s) \in Compound
  BY <1>1, ElementOfSeq DEF Last
<1> QED
  BY <1>1, <1>2 DEF Resumed, Rested, Last

\* The compounds around a value, and the status, once it is complete.
After(s) == IF s = <<>> THEN s ELSE Resumed(s)
StatusAfter(s) == IF s = <<>> THEN "done" ELSE "open"

LEMMA CompleteSettled ==
    ASSUME NEW s \in Seq(Compound), NEW e, Bracketing(s, e), Calling(s),
           s # <<>> => Last(s).turn \in {"key", "value"},
           Innermost(e).want = IF s = <<>> THEN "more" ELSE Behind(Last(s))
    PROVE  /\ Settled(After(s), e, StatusAfter(s), FALSE)
           /\ After(s) \in Seq(Compound) /\ Len(After(s)) = Len(s)
<1>1. CASE s = <<>>
  <2>1. Innermost(e) = e[1]
    BY <1>1 DEF Innermost, Bracketing
  <2> QED
    BY <1>1, <2>1 DEF After, StatusAfter, Settled, Innermosts, Flagged
<1>2. CASE s # <<>>
  <2> DEFINE c == Rested(Last(s))
  <2>1. Last(s) \in Compound /\ Resumed(s) = [s EXCEPT ![Len(s)] = c]
    BY <1>2, ResumedIsRested
  <2>2. Len(s) \in 1..Len(s)
    BY <1>2, LenProperties, EmptySeq
  <2>3. Shaped(Last(s))
    BY <2>2 DEF Calling, Last
  <2>4. /\ c \in Compound /\ c.base = Last(s).base /\ c.mode = Last(s).mode
        /\ Shaped(c) /\ Reach(c) = Reach(Last(s)) /\ ~Flags(c)
        /\ Owned(Last(s), e) => Owned(c, e)
        /\ Fits(c, Innermost(e))
    BY <1>2, <2>1, <2>3, RestedType, RestedShape, RestedFits
  <2>5. e \in Document /\ Len(e) = Reach(Last(s)) /\ Owned(Last(s), e)
    BY <1>2, BelowBase DEF Bracketing
  <2>6. Agree(e, e, c.base)
    BY DEF Agree
  <2> HIDE DEF c
  <2>7. Settled([s EXCEPT ![Len(s)] = c], e, "open", FALSE)
    BY <1>2, <2>4, <2>5, <2>6, TopSettled
  <2>8. [s EXCEPT ![Len(s)] = c] \in Seq(Compound) /\ Len([s EXCEPT ![Len(s)] = c]) = Len(s)
    BY <2>2, <2>4, ExceptSeq
  <2> QED
    BY <1>2, <2>1, <2>7, <2>8 DEF After, StatusAfter
<1> QED
  BY <1>1, <1>2

LEMMA PopSettled ==
    ASSUME NEW s \in Seq(Compound), s # <<>>, NEW d, Bracketing(s, d), Calling(s),
           NEW e, Wanting(d, e, Last(s).base, IF Last(s).mode = "Attr" THEN "node" ELSE "more")
    PROVE  LET r == SubSeq(s, 1, Len(s) - 1) IN
           /\ Settled(After(r), e, StatusAfter(r), FALSE)
           /\ After(r) \in Seq(Compound) /\ Len(After(r)) = Len(s) - 1
<1> DEFINE r == SubSeq(s, 1, Len(s) - 1)
<1>1. r \in Seq(Compound) /\ Len(r) = Len(s) - 1
  BY BelowType
<1>2. /\ Calling(r)
      /\ r = <<>> => Last(s).mode # "Attr"
      /\ r # <<>> => /\ Last(r).turn = "value"
                     /\ AsksAttributes(Last(r)) <=> Last(s).mode = "Attr"
  BY PopCalling
<1>3. e \in Document /\ Len(e) = Last(s).base /\ Agree(d, e, Last(s).base)
  BY BelowBase DEF Wanting, Agree
<1>4. Bracketing(r, e)
  BY <1>3, PopBracketing
<1>5. Innermost(e).want = IF Last(s).mode = "Attr" THEN "node" ELSE "more"
  BY DEF Wanting, Innermost
<1> HIDE DEF r
<1>6. Innermost(e).want = IF r = <<>> THEN "more" ELSE Behind(Last(r))
  BY <1>2, <1>5 DEF Behind
<1> QED
  BY <1>1, <1>2, <1>4, <1>6, CompleteSettled DEF r

-----------------------------------------------------------------------------
(***************************************************************************)
(* What holds of the top compound, and of the place a value is asked for.  *)
(***************************************************************************)
LEMMA OutputType ==
    ASSUME stack \in Seq(Compound), Writing
    PROVE  /\ output \in Document /\ Len(output) \in Nat /\ Len(output) >= 1
           /\ Len(output) > 0
           /\ Len(stack) \in Nat
           /\ stack = <<>> => Len(output) = 1 /\ Innermost(output) = output[1]
<1>1. Bracketing(stack, output)
  BY DEF Writing, Settled
<1> QED
  BY <1>1, LevelsType DEF Bracketing, Innermost

LEMMA TopType ==
    ASSUME stack \in Seq(Compound), stack # <<>>, Writing
    PROVE  /\ Top = Last(stack) /\ Top \in Compound
           /\ Len(stack) \in 1..Len(stack) /\ Len(stack) \in Nat
           /\ status = "open"
           /\ Shaped(Top)
           /\ Top.base \in Nat /\ Top.base >= 1
           /\ Len(output) = Reach(Top) /\ Reach(Top) = Top.base + Opens(Top)
           /\ Owned(Top, output)
           /\ Fits(Top, Innermost(output))
           /\ Innermost(output) = output[Reach(Top)]
           /\ is_writing_attributes <=> Flags(Top)
<1>1. /\ Bracketing(stack, output) /\ Calling(stack)
      /\ Innermosts(stack, output, status) /\ Flagged(stack, is_writing_attributes)
  BY DEF Writing, Settled
<1>2. Top = Last(stack)
  BY DEF Top, Last
<1>3. /\ Len(stack) \in 1..Len(stack) /\ Top \in Compound
      /\ Top.base \in Nat /\ Top.base >= 1
      /\ Len(output) = Reach(Top) /\ Owned(Top, output)
  BY <1>1, <1>2, BelowBase
<1>4. Shaped(Top)
  BY <1>1, <1>3 DEF Calling, Top
<1>5. status = "open" /\ Fits(Top, Innermost(output))
  BY <1>1, <1>2 DEF Innermosts
<1>6. is_writing_attributes <=> Flags(Top)
  BY <1>1, <1>2 DEF Flagged, Flags
<1>7. Len(stack) \in Nat
  BY LenProperties
<1> QED
  BY <1>2, <1>3, <1>4, <1>5, <1>6, <1>7 DEF Innermost, Reach

\* The slot, with a compound on the stack.
LEMMA SlotOfTop ==
    ASSUME stack \in Seq(Compound), stack # <<>>, Writing, Top.turn \in {"key", "value"}
    PROVE  /\ Slot \in Slots
           /\ Slot = "key" <=> Top.turn = "key"
           /\ Slot = "attributes" <=> Flags(Top)
           /\ Slot = "attributed" <=>
                 \/ Top.mode = "AttrWrapper" /\ Top.fields # <<"attribute">>
                 \/ Top.mode = "Struct" /\ Top.state = "Value" /\ HasAttributes(Top)
<1>1. Shaped(Top)
  BY TopType
<1>2. Top.turn = "key" => Top.trait = "map" /\ Top.turn # "value" /\ Top.mode \notin {"AttrWrapper", "Struct"}
  BY <1>1 DEF Shaped
<1>3. Top.turn # "key" => Top.turn = "value"
  OBVIOUS
<1>4. CASE Top.turn = "key"
  <2>1. Slot = "key"
    BY <1>2, <1>4 DEF Slot
  <2> QED
    BY <1>2, <1>4, <2>1 DEF Slots, Flags
<1>5. CASE Top.turn # "key" /\ Top.mode = "AttrWrapper" /\ Top.fields = <<"attribute">>
  <2>1. Slot = "attributes"
    BY <1>5 DEF Slot
  <2> QED
    BY <1>3, <1>5, <2>1 DEF Slots, Flags, AsksAttributes
<1>6. CASE Top.turn # "key" /\ Top.mode = "AttrWrapper" /\ Top.fields # <<"attribute">>
  <2>1. Slot = "attributed"
    BY <1>6 DEF Slot
  <2> QED
    BY <1>6, <2>1 DEF Slots, Flags, AsksAttributes
<1>7. CASE Top.turn # "key" /\ Top.mode = "Struct" /\ Top.state = "Value" /\ HasAttributes(Top)
  <2>1. Slot = "attributed"
    BY <1>7 DEF Slot, HasAttributes
  <2> QED
    BY <1>7, <2>1 DEF Slots, Flags, AsksAttributes
<1>8. CASE /\ Top.turn # "key" /\ Top.mode # "AttrWrapper"
           /\ ~(Top.mode = "Struct" /\ Top.state = "Value" /\ HasAttributes(Top))
  <2>1. Slot = "plain"
    BY <1>8 DEF Slot, HasAttributes
  <2> QED
    BY <1>8, <2>1 DEF Slots, Flags, AsksAttributes
<1> QED
  BY <1>4, <1>5, <1>6, <1>7, <1>8

\* Where a value is asked for, the level takes one.
LEMMA SlotFits ==
    ASSUME stack \in Seq(Compound), Writing, Wanted
    PROVE  LET l == Innermost(output) IN
           /\ Slot \in Slots
           /\ Slot = "key" => TakesKey(l)
           /\ Slot # "key" => TakesNode(l)
           /\ Slot \in {"attributes", "plain"} => TakesAttributes(l)
           /\ Slot = "attributed" <=> l.want = "node"
           /\ Slot = "attributes" <=> is_writing_attributes
<1> DEFINE l == Innermost(output)
<1>0. status = "open"
  BY DEF Wanted
<1>1. CASE stack = <<>>
  <2>1. Slot = "plain" /\ l.want = "value" /\ ~is_writing_attributes
    BY <1>0, <1>1, OutputType DEF Slot, Writing, Settled, Innermosts, Flagged
  <2> QED
    BY <2>1 DEF Slots, TakesNode, TakesAttributes
<1>2. CASE stack # <<>>
  <2>1. /\ Top \in Compound /\ Shaped(Top) /\ Fits(Top, l)
        /\ l = output[Reach(Top)] /\ Owned(Top, output)
        /\ is_writing_attributes <=> Flags(Top)
    BY <1>2, TopType
  <2>2. Top.turn \in {"key", "value"}
    BY <1>2 DEF Wanted
  <2>3. /\ Slot \in Slots
        /\ Slot = "key" <=> Top.turn = "key"
        /\ Slot = "attributes" <=> Flags(Top)
        /\ Slot = "attributed" <=>
              \/ Top.mode = "AttrWrapper" /\ Top.fields # <<"attribute">>
              \/ Top.mode = "Struct" /\ Top.state = "Value" /\ HasAttributes(Top)
    BY <1>2, <2>2, SlotOfTop
  <2>4. Top.mode \in Modes /\ Top.state \in StructStates
    BY <2>1 DEF Compound
  <2> HIDE DEF l
  <2>5. CASE Top.turn = "key"
    <3>1. Top.trait = "map" /\ Top.mode \in {"Map", "Attr"}
      BY <2>1, <2>4, <2>5 DEF Shaped, Modes
    <3>2. Paired(l)
      BY <2>1, <3>1 DEF Owned, Opens, Own, Paired
    <3>3. Fits(Top, l) <=> FitsMap(Top, l)
      BY <3>1 DEF Fits
    <3>4. l.want \in {"first", "key"}
      BY <2>1, <2>5, <3>3 DEF FitsMap
    <3> QED
      BY <2>1, <2>3, <2>5, <3>2, <3>4 DEF TakesKey, l
  <2>6. CASE Top.turn = "value"
    <3>1. /\ TakesNode(l)
          /\ Slot # "attributed" => TakesAttributes(l)
          /\ Slot = "attributed" <=> l.want = "node"
      <4>1. CASE Top.mode \in {"Seq", "VariantSeq"}
        BY <2>1, <2>3, <2>6, <4>1 DEF Fits, FitsList, TakesAttributes
      <4>2. CASE Top.mode \in {"Map", "Attr", "VariantMap"}
        <5>1. Fits(Top, l) <=> FitsMap(Top, l)
          BY <4>2 DEF Fits
        <5> QED
          BY <2>1, <2>3, <2>6, <4>2, <5>1 DEF FitsMap, TakesAttributes, TakesNode
      <4>3. CASE Top.mode = "NewtypeVariant"
        BY <2>1, <2>3, <2>6, <4>3 DEF Fits, FitsVariant, TakesAttributes, TakesNode
      <4>4. CASE Top.mode = "AttrWrapper"
        <5>1. Top.fields # <<>>
          BY <2>1, <2>6, <4>4 DEF Shaped
        <5>2. Fits(Top, l) <=> FitsWrapper(Top, l)
          BY <4>4 DEF Fits
        <5> QED
          BY <2>1, <2>3, <2>6, <4>4, <5>1, <5>2 DEF FitsWrapper, TakesAttributes, TakesNode
      <4>5. CASE Top.mode = "Struct"
        <5>1. Top.state # "Start"
          BY <2>1, <2>6, <4>5 DEF Shaped
        <5>2. Fits(Top, l) <=> FitsStruct(Top, l)
          BY <4>5 DEF Fits
        <5> QED
          BY <2>1, <2>3, <2>4, <2>6, <4>5, <5>1, <5>2
          DEF FitsStruct, TakesAttributes, TakesNode, StructStates
      <4> QED
        BY <2>4, <4>1, <4>2, <4>3, <4>4, <4>5 DEF Modes
    <3> QED
      BY <2>1, <2>3, <2>6, <3>1 DEF l
  <2> QED
    BY <2>2, <2>5, <2>6
<1> QED
  BY <1>1, <1>2

-----------------------------------------------------------------------------
(***************************************************************************)
(* What several tokens do.                                                 *)
(***************************************************************************)
LEMMA WantingTwice ==
    ASSUME NEW d \in Document, NEW e, NEW f, NEW n \in Nat, NEW m \in Nat,
           NEW v, NEW w, Wanting(d, e, n, v), Wanting(e, f, m, w), 1 <= m, m <= n
    PROVE  Wanting(d, f, m, w)
<1>1. e[m].kind = d[m].kind
  BY DEF Wanting
<1> QED
  BY <1>1 DEF Wanting

LEMMA EnteredLeft ==
    ASSUME NEW d \in Document, NEW e, NEW f, NEW m \in Nat, NEW k,
           NEW v, NEW w, Entered(d, e, k, v), Wanting(e, f, m, w), 1 <= m, m <= Len(d)
    PROVE  Wanting(d, f, m, w)
<1>1. Len(d) \in Nat
  BY LenProperties DEF Document
<1> QED
  BY <1>1 DEF Wanting, Entered

LEMMA EnteredWanting ==
    ASSUME NEW d \in Document, NEW e, NEW f, NEW k,
           NEW v, NEW w, Entered(d, e, k, v), Wanting(e, f, Len(e), w)
    PROVE  Entered(d, f, k, w)
<1>1. Len(d) \in Nat /\ Len(e) = Len(d) + 1
  BY LenProperties DEF Document, Entered
<1> QED
  BY <1>1 DEF Wanting, Entered

LEMMA WantingEntered ==
    ASSUME NEW d \in Document, NEW n \in Nat, n > 0, NEW e, NEW f, NEW k,
           NEW v, NEW w, Wanting(d, e, n, v), Entered(e, f, k, w)
    PROVE  /\ f \in Document /\ Len(f) = n + 1
           /\ Agree(d, f, n)
           /\ f[n + 1] = [kind |-> k, want |-> w]
<1>1. n \in 1..n
  OBVIOUS
<1> QED
  BY <1>1 DEF Wanting, Entered, Agree

\* A level that keeps what it wants.
LEMMA WantingSame ==
    ASSUME NEW d \in Document, Len(d) > 0
    PROVE  Wanting(d, d, Len(d), Innermost(d).want)
<1>1. Len(d) \in Nat /\ Len(d) \in 1..Len(d)
  BY InnermostType
<1>2. d[Len(d)] = [kind |-> d[Len(d)].kind, want |-> d[Len(d)].want]
  BY <1>1, LevelType
<1> QED
  BY <1>2 DEF Wanting, Innermost

LEMMA EnteredType ==
    ASSUME NEW d \in Document, Len(d) > 0, NEW e, NEW k, NEW w, Entered(d, e, k, w)
    PROVE  /\ Len(d) \in Nat /\ e \in Document /\ Len(e) = Len(d) + 1 /\ Len(e) > 0
           /\ Innermost(e) = [kind |-> k, want |-> w]
           /\ Agree(d, e, Len(d))
<1>1. Len(d) \in Nat
  BY LenProperties DEF Document
<1>2. Len(d) \in 1..Len(d)
  BY <1>1
<1> QED
  BY <1>1, <1>2 DEF Entered, Innermost, Agree

LEMMA WantingType ==
    ASSUME NEW d, NEW e, NEW n \in Nat, n > 0, NEW w, Wanting(d, e, n, w)
    PROVE  /\ e \in Document /\ Len(e) = n /\ Len(e) > 0
           /\ Innermost(e) = [kind |-> d[n].kind, want |-> w]
           /\ Agree(d, e, n)
BY DEF Wanting, Innermost, Agree

LEMMA FeedKeyed ==
    ASSUME NEW d \in Document, Len(d) > 0, TakesKey(Innermost(d))
    PROVE  Wanting(d, Keyed(d), Len(d), "value")
<1> DEFINE e == Feed(d, "string")
<1>1. Len(d) \in Nat
  BY LenProperties DEF Document
<1>2. Wanting(d, e, Len(d), "equals")
  BY FeedKey
<1> HIDE DEF e
<1>3. e \in Document /\ Len(e) = Len(d) /\ Len(e) > 0 /\ Innermost(e).want = "equals"
  BY <1>1, <1>2 DEF Wanting, Innermost
<1>4. Wanting(e, Feed(e, "KeyValueSeparator"), Len(d), "value")
  BY <1>3, FeedEquals
<1> QED
  BY <1>1, <1>2, <1>4, WantingTwice DEF Keyed, e

\* What a level wants behind an item, or at its start.
LEMMA FeedSeparated ==
    ASSUME NEW d \in Document, Len(d) > 0, NEW first \in BOOLEAN,
           Innermost(d).want = IF first THEN "first" ELSE "more"
    PROVE  \E want \in IF Paired(Innermost(d)) THEN {"first", "key"} ELSE {"first", "value"} :
              Wanting(d, Separated(d, first), Len(d), want)
<1>1. Len(d) \in Nat /\ Len(d) \in 1..Len(d)
  BY InnermostType
<1>2. CASE first
  <2>1. Separated(d, first) = d /\ d[Len(d)].want = "first"
    BY <1>2 DEF Separated, Innermost
  <2>2. d[Len(d)] = [kind |-> d[Len(d)].kind, want |-> d[Len(d)].want]
    BY <1>1, LevelType
  <2>3. Wanting(d, Separated(d, first), Len(d), "first")
    BY <2>1, <2>2 DEF Wanting
  <2> QED
    BY <2>3
<1>3. CASE ~first
  BY <1>3, FeedSeparator DEF Separated
<1> QED
  BY <1>2, <1>3

\* A bracket that is opened and closed.
LEMMA FeedPair ==
    ASSUME NEW d \in Document, Len(d) > 0, TakesNode(Innermost(d))
    PROVE  Wanting(d, Feed(Feed(d, "BeginMap"), "EndMap"), Len(d), "more")
<1> DEFINE e == Feed(d, "BeginMap")
<1>1. Entered(d, e, "map", "first")
  BY FeedOpening DEF Bracket
<1> HIDE DEF e
<1>2. /\ Len(d) \in Nat /\ e \in Document /\ Len(e) = Len(d) + 1
      /\ Innermost(e) = [kind |-> "map", want |-> "first"]
  BY <1>1, EnteredType
<1>3. Closable(Innermost(e)) /\ Innermost(e).kind = Bracket("EndMap") /\ Len(e) > 1
  BY <1>2 DEF Closable, Bracket
<1>4. Wanting(e, Feed(e, "EndMap"), Len(d), "more")
  BY <1>2, <1>3, FeedClosing DEF Closing
<1> QED
  BY <1>1, <1>2, <1>4, EnteredLeft DEF e

-----------------------------------------------------------------------------
(***************************************************************************)
(* The steps, each from what it has in common with others: a token in the  *)
(* innermost level, a compound begun, gone on with, or ended.              *)
(***************************************************************************)
LEMMA SameLevels ==
    ASSUME NEW s \in Seq(Compound), NEW d, Bracketing(s, d),
           NEW e, NEW w, Wanting(d, e, Len(d), w)
    PROVE  Bracketing(s, e)
<1>1. /\ d \in Document /\ Len(d) \in Nat /\ Len(d) >= 1
      /\ \A i \in 1..Len(s) : s[i] \in Compound /\ Reach(s[i]) <= Len(d)
  BY LevelsType
<1>2. e \in Document /\ Len(e) = Len(d) /\ Agree(d, e, Len(d))
  BY <1>1, WantingType
<1>3. e[1].kind = d[1].kind
  BY <1>1, <1>2 DEF Agree
<1>4. \A i \in 1..Len(s) : s[i].base >= 1 /\ Owned(s[i], d)
  BY DEF Bracketing
<1>5. \A i \in 1..Len(s) : Owned(s[i], e)
  BY <1>1, <1>2, <1>4, OwnedKept
<1> QED
  BY <1>2, <1>3, <1>5 DEF Bracketing

\* A compound goes on in its innermost level.
LEMMA SameOwned ==
    ASSUME NEW c \in Compound, c.base >= 1, NEW d \in Document, Len(d) = Reach(c), Owned(c, d),
           NEW e, NEW w, Wanting(d, e, Len(d), w)
    PROVE  /\ e \in Document /\ Len(e) = Reach(c)
           /\ Agree(d, e, c.base) /\ Owned(c, e)
           /\ Innermost(e) = [kind |-> Innermost(d).kind, want |-> w]
<1>1. /\ c.base \in Nat /\ Reach(c) \in Nat /\ Reach(c) >= c.base
  BY CompoundType
<1>2. e \in Document /\ Len(e) = Len(d) /\ Agree(d, e, Len(d))
  BY <1>1, WantingType
<1>3. Owned(c, e)
  BY <1>1, <1>2, OwnedKept
<1>4. Agree(d, e, c.base)
  BY <1>1, <1>2 DEF Agree
<1>5. Innermost(e) = [kind |-> Innermost(d).kind, want |-> w]
  BY DEF Wanting, Innermost
<1> QED
  BY <1>2, <1>3, <1>4, <1>5

\* What TypeOK says of the compounds.
LEMMA CallingType ==
    ASSUME NEW s \in Seq(Compound), Calling(s)
    PROVE  \A i \in 1..Len(s) :
              /\ i < Len(s) => s[i].turn \in {"key", "value"}
              /\ s[i].mode = "Struct" => (s[i].state = "Start" <=> s[i].fields = <<>>)
<1> SUFFICES ASSUME NEW i \in 1..Len(s)
             PROVE  /\ i < Len(s) => s[i].turn \in {"key", "value"}
                    /\ s[i].mode = "Struct" => (s[i].state = "Start" <=> s[i].fields = <<>>)
  OBVIOUS
<1>1. Len(s) \in Nat /\ s[i] \in Compound
  BY LenProperties, ElementOfSeq
<1>2. i < Len(s) => s[i].turn = "value"
  BY <1>1 DEF Calling
<1>3. ASSUME s[i].mode = "Struct" PROVE s[i].state = "Start" <=> s[i].fields = <<>>
  <2>1. FieldsFit(s[i])
    BY <1>3 DEF Calling, Shaped
  <2>2. s[i].fields \in Seq(FieldKinds) /\ s[i].state \in StructStates
    BY <1>1 DEF Compound
  <2>3. /\ s[i].fields = <<>> <=> Len(s[i].fields) = 0
        /\ Len(s[i].fields) \in Nat
    BY <2>2, EmptySeq, LenProperties
  <2> DEFINE n == Len(s[i].fields)
  <2>4. CASE s[i].state = "Start"
    BY <2>1, <2>3, <2>4 DEF FieldsFit
  <2>5. CASE s[i].state = "Attrs"
    BY <2>1, <2>3, <2>5 DEF FieldsFit
  <2>6. CASE s[i].state = "Value"
    BY <2>1, <2>3, <2>6 DEF FieldsFit
  <2>7. CASE s[i].state = "Body"
    <3>1. \E k \in 0..(n - 1) : TRUE
      BY <2>1, <2>7 DEF FieldsFit
    <3> QED
      BY <2>3, <2>7, <3>1
  <2> QED
    BY <2>2, <2>4, <2>5, <2>6, <2>7 DEF StructStates
<1> QED
  BY <1>2, <1>3

LEMMA Keeps ==
    ASSUME stack' \in Seq(Compound), Len(stack') <= MaxNesting,
           is_writing_attributes' \in BOOLEAN, status' \in {"open", "done"},
           Settled(stack', output', status', is_writing_attributes')
    PROVE  IInv'
<1>1. output' \in Document /\ Calling(stack')
  BY DEF Settled, Bracketing
<1>2. TypeOK'
  BY <1>1, CallingType DEF TypeOK
<1>3. Writing'
  BY DEF Writing
<1> QED
  BY <1>2, <1>3 DEF IInv

\* What Push puts on the stack.
Begun(mode, trait, turn) ==
    [mode |-> mode, trait |-> trait, first |-> TRUE, state |-> "Start",
     turn |-> turn, fields |-> <<>>, attributed |-> Slot = "attributed",
     base |-> Len(output)]

LEMMA BegunType ==
    ASSUME NEW mode \in Modes, NEW trait \in Traits, NEW turn \in Turns, Len(output) \in Nat
    PROVE  Begun(mode, trait, turn) \in Compound
<1>1. <<>> \in Seq(FieldKinds)
  BY EmptySeq
<1>2. "Start" \in StructStates
  BY DEF StructStates
<1> QED
  BY <1>1, <1>2 DEF Begun, Compound

LEMMA Pushes ==
    ASSUME TypeOK, Writing, Wanted,
           NEW mode \in Modes, NEW trait \in Traits, NEW turn \in Turns,
           Push(mode, trait, turn),
           Slot # "key", Slot = "attributes" <=> mode = "Attr",
           Shaped(Begun(mode, trait, turn)), ~Flags(Begun(mode, trait, turn)),
           output' \in Document, Len(output') = Reach(Begun(mode, trait, turn)),
           Agree(output, output', Len(output)), Owned(Begun(mode, trait, turn), output'),
           Fits(Begun(mode, trait, turn), Innermost(output')),
           is_writing_attributes' = FALSE
    PROVE  IInv'
<1> DEFINE c == Begun(mode, trait, turn)
<1>1. stack \in Seq(Compound) /\ Len(stack) \in Nat /\ Len(output) \in Nat
  BY OutputType DEF TypeOK
<1>2. c \in Compound /\ c.base = Len(output) /\ c.mode = mode
  BY <1>1, BegunType DEF Begun
<1>3. stack' = Append(stack, c) /\ Len(stack) < MaxNesting /\ status' = status
  BY DEF Push, Begun
<1> HIDE DEF c
<1>4. status = "open"
  BY DEF Wanted
<1>5. /\ stack = <<>> => c.mode # "Attr"
      /\ stack # <<>> => /\ Last(stack).turn = "value"
                         /\ AsksAttributes(Last(stack)) <=> c.mode = "Attr"
  <2>1. CASE stack = <<>>
    BY <1>2, <2>1 DEF Slot
  <2>2. CASE stack # <<>>
    <3>1. Top = Last(stack) /\ Top.turn \in {"key", "value"}
      BY <2>2 DEF Top, Last, Wanted
    <3>2. (Slot = "key" <=> Top.turn = "key") /\ (Slot = "attributes" <=> Flags(Top))
      BY <1>1, <2>2, <3>1, SlotOfTop
    <3> QED
      BY <1>2, <2>2, <3>1, <3>2 DEF Flags
  <2> QED
    BY <2>1, <2>2
<1>6. Bracketing(stack, output) /\ Calling(stack)
  BY DEF Writing, Settled
<1>7. Settled(stack', output', "open", FALSE)
  BY <1>1, <1>2, <1>3, <1>5, <1>6, PushSettled DEF c
<1>8. stack' \in Seq(Compound) /\ Len(stack') = Len(stack) + 1
  BY <1>1, <1>2, <1>3, AppendProperties
<1>9. Len(stack') <= MaxNesting
  BY <1>1, <1>3, <1>8, CallerAssumption
<1> QED
  BY <1>3, <1>4, <1>7, <1>8, <1>9, Keeps

\* The top compound becomes c.
LEMMA GoesOn ==
    ASSUME TypeOK, Writing, stack # <<>>,
           NEW c \in Compound, Shaped(c), c.base = Top.base, c.mode = Top.mode,
           stack' = [stack EXCEPT ![Len(stack)] = c], status' = status,
           output' \in Document, Len(output') = Reach(c),
           Agree(output, output', c.base), Owned(c, output'),
           Fits(c, Innermost(output')),
           is_writing_attributes' \in BOOLEAN, is_writing_attributes' <=> Flags(c)
    PROVE  IInv'
<1>1. stack \in Seq(Compound) /\ Len(stack) <= MaxNesting
  BY DEF TypeOK
<1>2. Top = Last(stack) /\ status = "open" /\ Len(stack) \in 1..Len(stack)
  BY <1>1, TopType
<1>3. Bracketing(stack, output) /\ Calling(stack)
  BY DEF Writing, Settled
<1>4. Settled(stack', output', "open", is_writing_attributes')
  BY <1>1, <1>2, <1>3, TopSettled
<1>5. stack' \in Seq(Compound) /\ Len(stack') = Len(stack)
  BY <1>1, <1>2, ExceptSeq
<1> QED
  BY <1>1, <1>2, <1>4, <1>5, Keeps

\* The top compound ends.
LEMMA Ends ==
    ASSUME TypeOK, Writing, stack # <<>>, Top.turn = "idle",
           Complete(Below), is_writing_attributes' = is_writing_attributes,
           Wanting(output, output', Top.base, IF Top.mode = "Attr" THEN "node" ELSE "more")
    PROVE  IInv'
<1>1. stack \in Seq(Compound) /\ Len(stack) <= MaxNesting
  BY DEF TypeOK
<1>2. /\ Top = Last(stack) /\ status = "open" /\ Len(stack) \in Nat
      /\ is_writing_attributes <=> Flags(Top)
  BY <1>1, TopType
<1>3. is_writing_attributes = FALSE
  BY <1>2 DEF Flags, TypeOK
<1>4. Bracketing(stack, output) /\ Calling(stack)
  BY DEF Writing, Settled
<1>5. stack' = After(Below) /\ status' = StatusAfter(Below)
  BY <1>2 DEF Complete, After, StatusAfter
<1>6. /\ Settled(After(Below), output', StatusAfter(Below), FALSE)
      /\ After(Below) \in Seq(Compound) /\ Len(After(Below)) = Len(stack) - 1
  BY <1>1, <1>2, <1>4, PopSettled DEF Below
<1>7. Len(stack') <= MaxNesting
  BY <1>1, <1>2, <1>5, <1>6, CallerAssumption
<1>8. status' \in {"open", "done"}
  BY <1>5 DEF StatusAfter
<1> QED
  BY <1>3, <1>5, <1>6, <1>7, <1>8, Keeps

LEMMA AtomStep ==
    ASSUME OrderlyCallers, TypeOK, Writing, SerializeAtom
    PROVE  IInv'
<1>1. PICK atom \in Atoms : Asked(atom) /\ output' = Feed(output, atom)
  BY DEF SerializeAtom
<1>2. /\ Complete(stack) /\ is_writing_attributes' = is_writing_attributes
      /\ Wanted /\ atom \in Calls[Slot] /\ status = "open"
  BY <1>1 DEF SerializeAtom, Asked, Wanted
<1>3. stack \in Seq(Compound) /\ Len(stack) <= MaxNesting /\ is_writing_attributes \in BOOLEAN
  BY DEF TypeOK
<1>4. output \in Document /\ Len(output) > 0 /\ Len(output) \in Nat
  BY <1>3, OutputType
<1>5. /\ Slot = "key" => TakesKey(Innermost(output))
      /\ Slot # "key" => TakesNode(Innermost(output))
      /\ Slot = "attributes" <=> is_writing_attributes
  BY <1>2, <1>3, SlotFits
<1>6. Slot # "attributes"
  BY <1>2 DEF OrderlyCallers, Atoms
<1>7. Slot = "key" => atom = "string"
  BY <1>2 DEF OrderlyCallers
<1> DEFINE want == IF Slot = "key" THEN "equals" ELSE "more"
<1>8. Wanting(output, output', Len(output), want)
  <2>1. CASE Slot = "key"
    <3>1. output' = Feed(output, "string")
      BY <1>1, <1>7, <2>1
    <3> QED
      BY <1>4, <1>5, <2>1, <3>1, FeedKey
  <2>2. CASE Slot # "key"
    BY <1>1, <1>4, <1>5, <2>2, FeedAtom
  <2> QED
    BY <2>1, <2>2
<1>9. Innermost(output').want = want
  BY <1>4, <1>8 DEF Wanting, Innermost
<1>10. /\ stack # <<>> => Last(stack).turn \in {"key", "value"}
       /\ want = IF stack = <<>> THEN "more" ELSE Behind(Last(stack))
  <2>1. CASE stack = <<>>
    BY <2>1 DEF Slot
  <2>2. CASE stack # <<>>
    <3>1. Top = Last(stack) /\ Top.turn \in {"key", "value"}
      BY <1>2, <2>2 DEF Top, Last, Wanted
    <3>2. (Slot = "key" <=> Top.turn = "key") /\ (Slot = "attributes" <=> Flags(Top))
      BY <1>3, <2>2, <3>1, SlotOfTop
    <3> QED
      BY <1>6, <2>2, <3>1, <3>2 DEF Flags, Behind
  <2> QED
    BY <2>1, <2>2
<1> HIDE DEF want
<1>11. Bracketing(stack, output) /\ Calling(stack)
  BY DEF Writing, Settled
<1>12. Bracketing(stack, output')
  BY <1>3, <1>8, <1>11, SameLevels
<1>13. /\ Settled(After(stack), output', StatusAfter(stack), FALSE)
       /\ After(stack) \in Seq(Compound) /\ Len(After(stack)) = Len(stack)
  BY <1>3, <1>9, <1>10, <1>11, <1>12, CompleteSettled
<1>14. /\ stack' = After(stack) /\ status' = StatusAfter(stack)
       /\ status' \in {"open", "done"}
  BY <1>2 DEF Complete, After, StatusAfter
<1>15. is_writing_attributes' = FALSE
  BY <1>2, <1>3, <1>5, <1>6
<1> QED
  BY <1>3, <1>13, <1>14, <1>15, Keeps

\* Where a value of this kind, and not a string, may be asked for.
LEMMA Place ==
    ASSUME OrderlyCallers, TypeOK, Writing, NEW call, call # "string", Asked(call)
    PROVE  /\ Wanted
           /\ output \in Document /\ Len(output) \in Nat /\ Len(output) > 0
           /\ Slot # "key" /\ TakesNode(Innermost(output))
           /\ Slot = "attributes" <=> is_writing_attributes
           /\ Slot = "attributed" <=> Innermost(output).want = "node"
           /\ Slot # "attributed" => TakesAttributes(Innermost(output))
           /\ call \notin {"map", "struct"} => Slot # "attributes"
           /\ call = "wrapper" => Slot # "attributed"
           /\ is_writing_attributes \in BOOLEAN
<1>1. Wanted /\ call \in Calls[Slot] /\ stack \in Seq(Compound) /\ is_writing_attributes \in BOOLEAN
  BY DEF Asked, TypeOK
<1>2. output \in Document /\ Len(output) \in Nat /\ Len(output) > 0
  BY <1>1, OutputType
<1>3. Slot # "key" /\ (call \notin {"map", "struct"} => Slot # "attributes")
  BY <1>1 DEF OrderlyCallers
<1>4. call = "wrapper" => Slot # "attributed"
  BY <1>1 DEF OrderlyCallers
<1>5. /\ TakesNode(Innermost(output))
      /\ Slot = "attributes" <=> is_writing_attributes
      /\ Slot = "attributed" <=> Innermost(output).want = "node"
  BY <1>1, <1>3, SlotFits
<1>6. Slot # "attributed" => TakesAttributes(Innermost(output))
  BY <1>5 DEF TakesAttributes
<1> QED
  BY <1>1, <1>2, <1>3, <1>4, <1>5, <1>6

\* A compound is begun as it should be.
LEMMA BegunShape ==
    ASSUME NEW mode \in Modes, NEW trait, NEW turn,
           CASE mode \in {"Seq", "VariantSeq"} -> trait = "seq" /\ turn = "idle"
             [] mode = "Map" -> trait = "map" /\ turn = "idle"
             [] mode = "Attr" -> trait \in {"map", "struct"} /\ turn = "idle"
             [] mode = "NewtypeVariant" -> trait = "none" /\ turn = "value"
             [] mode = "AttrWrapper" -> trait = "struct" /\ turn = "idle" /\ Slot # "attributed"
             [] OTHER -> trait = "struct" /\ turn = "idle"
    PROVE  Shaped(Begun(mode, trait, turn)) /\ ~Flags(Begun(mode, trait, turn))
<1> DEFINE c == Begun(mode, trait, turn)
<1> SUFFICES Shaped(c) /\ ~Flags(c)
  OBVIOUS
<1>1. /\ c.mode = mode /\ c.trait = trait /\ c.turn = turn /\ c.first /\ c.state = "Start"
      /\ c.fields = <<>> /\ c.attributed = (Slot = "attributed")
  BY DEF Begun
<1> HIDE DEF c
<1>2. FieldsFit(c)
  <2>1. Len(c.fields) = 0
    BY <1>1, EmptySeq
  <2> QED
    BY <1>1, <2>1 DEF FieldsFit
<1>3. CASE mode \in {"Seq", "VariantSeq", "Map", "Attr"}
  BY <1>1, <1>2, <1>3 DEF Shaped, Flags, AsksAttributes
<1>4. CASE mode = "NewtypeVariant"
  BY <1>1, <1>2, <1>4 DEF Shaped, Flags, AsksAttributes
<1>5. CASE mode \in {"AttrWrapper", "VariantMap", "Struct"}
  BY <1>1, <1>2, <1>5 DEF Shaped, Flags, AsksAttributes
<1> QED
  BY <1>3, <1>4, <1>5 DEF Modes

\* A compound of one bracket is begun with it.
LEMMA BeginsOne ==
    ASSUME TypeOK, Writing, Wanted, Slot # "key",
           NEW mode \in {"Seq", "Map", "Attr"}, NEW trait,
           CASE mode = "Seq" -> trait = "seq"
             [] mode = "Map" -> trait = "map"
             [] mode = "Attr" -> trait \in {"map", "struct"},
           Slot = "attributes" <=> mode = "Attr",
           Push(mode, trait, "idle"),
           NEW kind, kind = CASE mode = "Seq" -> "list"
                              [] mode = "Map" -> "map"
                              [] mode = "Attr" -> "attributes",
           Entered(output, output', kind, "first"),
           is_writing_attributes' = FALSE
    PROVE  IInv'
<1> DEFINE c == Begun(mode, trait, "idle")
<1>1. output \in Document /\ Len(output) \in Nat /\ Len(output) > 0
  BY OutputType DEF TypeOK
<1>2. /\ mode \in Modes /\ trait \in Traits /\ "idle" \in Turns
      /\ c.mode = mode /\ c.turn = "idle" /\ c.first /\ c.base = Len(output)
  BY DEF Modes, Traits, Turns, Begun
<1>3. Shaped(c) /\ ~Flags(c)
  <2>1. CASE mode = "Seq"
    BY <1>2, <2>1, BegunShape
  <2>2. CASE mode = "Map"
    BY <1>2, <2>2, BegunShape
  <2>3. CASE mode = "Attr"
    BY <1>2, <2>3, BegunShape
  <2> QED
    BY <2>1, <2>2, <2>3
<1> HIDE DEF c
<1>4. Reach(c) = Len(output) + 1 /\ Opens(c) = 1 /\ Own(c) = kind
  BY <1>2 DEF Reach, Opens, Own
<1>5. /\ output' \in Document /\ Len(output') = Len(output) + 1
      /\ Agree(output, output', Len(output))
      /\ Innermost(output') = [kind |-> kind, want |-> "first"]
      /\ output'[Len(output) + 1] = [kind |-> kind, want |-> "first"]
  BY <1>1, EnteredType DEF Entered
<1>6. Owned(c, output')
  BY <1>4, <1>5 DEF Owned
<1>7. Fits(c, Innermost(output'))
  <2>1. CASE mode = "Seq"
    BY <1>2, <1>5, <2>1 DEF Fits, FitsList, Between
  <2>2. CASE mode \in {"Map", "Attr"}
    <3>1. Fits(c, Innermost(output')) <=> FitsMap(c, Innermost(output'))
      BY <1>2, <2>2 DEF Fits
    <3> QED
      BY <1>2, <1>5, <3>1 DEF FitsMap, Between
  <2> QED
    BY <2>1, <2>2
<1> QED
  BY <1>2, <1>3, <1>4, <1>5, <1>6, <1>7, Pushes DEF c

LEMMA SeqStep ==
    ASSUME OrderlyCallers, TypeOK, Writing, SerializeSeq
    PROVE  IInv'
<1>1. /\ Asked("seq") /\ Push("Seq", "seq", "idle") /\ output' = Feed(output, "BeginList")
      /\ is_writing_attributes' = is_writing_attributes
  BY DEF SerializeSeq
<1>2. /\ Wanted /\ output \in Document /\ Len(output) > 0
      /\ Slot # "key" /\ Slot # "attributes" /\ TakesNode(Innermost(output))
      /\ is_writing_attributes = FALSE
  BY <1>1, Place
<1>3. Entered(output, output', "list", "first")
  BY <1>1, <1>2, FeedOpening DEF Bracket
<1> QED
  BY <1>1, <1>2, <1>3, BeginsOne

\* A map, or a struct, in the place of attributes.
LEMMA AttributesStep ==
    ASSUME OrderlyCallers, TypeOK, Writing, NEW call \in {"map", "struct"}, Asked(call),
           is_writing_attributes, Push("Attr", call, "idle"),
           output' = Feed(output, "BeginAttributes"), is_writing_attributes' = FALSE
    PROVE  IInv'
<1>1. /\ Wanted /\ output \in Document /\ Len(output) > 0
      /\ Slot # "key" /\ Slot = "attributes"
      /\ TakesNode(Innermost(output)) /\ TakesAttributes(Innermost(output))
  BY Place
<1>2. Entered(output, output', "attributes", "first")
  BY <1>1, FeedOpening DEF Bracket
<1> QED
  BY <1>1, <1>2, BeginsOne

LEMMA MapStep ==
    ASSUME OrderlyCallers, TypeOK, Writing, SerializeMap
    PROVE  IInv'
<1>1. Asked("map") /\ is_writing_attributes' = FALSE
  BY DEF SerializeMap
<1>2. CASE is_writing_attributes
  <2>1. Push("Attr", "map", "idle") /\ output' = Feed(output, "BeginAttributes")
    BY <1>2 DEF SerializeMap
  <2> QED
    BY <1>1, <1>2, <2>1, AttributesStep
<1>3. CASE ~is_writing_attributes
  <2>1. Push("Map", "map", "idle") /\ output' = Feed(output, "BeginMap")
    BY <1>3 DEF SerializeMap
  <2>2. /\ Wanted /\ output \in Document /\ Len(output) > 0
        /\ Slot # "key" /\ Slot # "attributes" /\ TakesNode(Innermost(output))
    BY <1>1, <1>3, Place
  <2>3. Entered(output, output', "map", "first")
    BY <2>1, <2>2, FeedOpening DEF Bracket
  <2> QED
    BY <1>1, <2>1, <2>2, <2>3, BeginsOne
<1> QED
  BY <1>2, <1>3

LEMMA StructStep ==
    ASSUME OrderlyCallers, TypeOK, Writing, SerializeStruct
    PROVE  IInv'
<1>1. Asked("struct") /\ is_writing_attributes' = FALSE
  BY DEF SerializeStruct
<1>2. CASE is_writing_attributes
  <2>1. Push("Attr", "struct", "idle") /\ output' = Feed(output, "BeginAttributes")
    BY <1>2 DEF SerializeStruct
  <2> QED
    BY <1>1, <1>2, <2>1, AttributesStep
<1>3. CASE ~is_writing_attributes
  <2> DEFINE c == Begun("Struct", "struct", "idle")
  <2>1. Push("Struct", "struct", "idle") /\ output' = output
    BY <1>3 DEF SerializeStruct
  <2>2. /\ Wanted /\ output \in Document /\ Len(output) \in Nat /\ Len(output) > 0
        /\ Slot # "key" /\ Slot # "attributes"
        /\ Slot = "attributed" <=> Innermost(output).want = "node"
        /\ Slot # "attributed" => TakesAttributes(Innermost(output))
    BY <1>1, <1>3, Place
  <2>3. "Struct" \in Modes /\ "struct" \in Traits /\ "idle" \in Turns
    BY DEF Modes, Traits, Turns
  <2>4. Shaped(c) /\ ~Flags(c)
    BY <2>3, BegunShape
  <2>5. Reach(c) = Len(output) /\ Owned(c, output)
    BY <2>2 DEF Begun, Reach, Opens, Owned
  <2>6. Fits(c, Innermost(output))
    BY <2>2 DEF Begun, Fits, FitsStruct
  <2>7. Agree(output, output, Len(output))
    BY DEF Agree
  <2> HIDE DEF c
  <2> QED
    BY <1>1, <2>1, <2>2, <2>3, <2>4, <2>5, <2>6, <2>7, Pushes DEF c
<1> QED
  BY <1>2, <1>3

LEMMA WrapperStep ==
    ASSUME OrderlyCallers, TypeOK, Writing, SerializeWrapper
    PROVE  IInv'
<1> DEFINE c == Begun("AttrWrapper", "struct", "idle")
<1>1. /\ Asked("wrapper") /\ Push("AttrWrapper", "struct", "idle") /\ output' = output
      /\ is_writing_attributes' = is_writing_attributes
  BY DEF SerializeWrapper
<1>2. /\ Wanted /\ output \in Document /\ Len(output) \in Nat /\ Len(output) > 0
      /\ Slot # "key" /\ Slot # "attributes" /\ Slot # "attributed"
      /\ TakesAttributes(Innermost(output)) /\ is_writing_attributes = FALSE
  BY <1>1, Place
<1>3. "AttrWrapper" \in Modes /\ "struct" \in Traits /\ "idle" \in Turns
  BY DEF Modes, Traits, Turns
<1>4. Shaped(c) /\ ~Flags(c)
  BY <1>2, <1>3, BegunShape
<1>5. Reach(c) = Len(output) /\ Owned(c, output)
  BY <1>2 DEF Begun, Reach, Opens, Owned
<1>6. Fits(c, Innermost(output))
  BY <1>2 DEF Begun, Fits, FitsWrapper
<1>7. Agree(output, output, Len(output))
  BY DEF Agree
<1> HIDE DEF c
<1> QED
  BY <1>1, <1>2, <1>3, <1>4, <1>5, <1>6, <1>7, Pushes DEF c

\* The name of a variant, in a map of its own.
LEMMA FeedVariant ==
    ASSUME NEW d \in Document, Len(d) > 0, TakesNode(Innermost(d))
    PROVE  Entered(d, Keyed(Feed(d, "BeginMap")), "map", "value")
<1> DEFINE e == Feed(d, "BeginMap")
<1>1. Entered(d, e, "map", "first")
  BY FeedOpening DEF Bracket
<1> HIDE DEF e
<1>2. e \in Document /\ Len(e) > 0 /\ Innermost(e) = [kind |-> "map", want |-> "first"]
  BY <1>1, EnteredType
<1>3. TakesKey(Innermost(e))
  BY <1>2 DEF TakesKey, Paired
<1>4. Wanting(e, Keyed(e), Len(e), "value")
  BY <1>2, <1>3, FeedKeyed
<1> QED
  BY <1>1, <1>4, EnteredWanting DEF e

LEMMA NewtypeVariantStep ==
    ASSUME OrderlyCallers, TypeOK, Writing, SerializeNewtypeVariant
    PROVE  IInv'
<1> DEFINE c == Begun("NewtypeVariant", "none", "value")
<1>1. /\ Asked("variant") /\ Push("NewtypeVariant", "none", "value")
      /\ output' = Keyed(Feed(output, "BeginMap"))
      /\ is_writing_attributes' = is_writing_attributes
  BY DEF SerializeNewtypeVariant
<1>2. /\ Wanted /\ output \in Document /\ Len(output) \in Nat /\ Len(output) > 0
      /\ Slot # "key" /\ Slot # "attributes" /\ TakesNode(Innermost(output))
      /\ is_writing_attributes = FALSE
  BY <1>1, Place
<1>3. Entered(output, output', "map", "value")
  BY <1>1, <1>2, FeedVariant
<1>4. "NewtypeVariant" \in Modes /\ "none" \in Traits /\ "value" \in Turns
  BY DEF Modes, Traits, Turns
<1>5. Shaped(c) /\ ~Flags(c)
  BY <1>4, BegunShape
<1>6. Reach(c) = Len(output) + 1 /\ Opens(c) = 1 /\ Own(c) = "map"
  BY DEF Begun, Reach, Opens, Own
<1>7. /\ output' \in Document /\ Len(output') = Len(output) + 1
      /\ Agree(output, output', Len(output))
      /\ Innermost(output') = [kind |-> "map", want |-> "value"]
      /\ output'[Len(output) + 1] = [kind |-> "map", want |-> "value"]
  BY <1>2, <1>3, EnteredType DEF Entered
<1>8. Owned(c, output')
  BY <1>6, <1>7 DEF Owned
<1>9. Fits(c, Innermost(output'))
  BY <1>7 DEF Begun, Fits, FitsVariant
<1> HIDE DEF c
<1> QED
  BY <1>1, <1>2, <1>4, <1>5, <1>6, <1>7, <1>8, <1>9, Pushes DEF c

\* A variant with a list, or a map, as its value.
LEMMA BeginsTwo ==
    ASSUME OrderlyCallers, TypeOK, Writing, Asked("variant"),
           NEW mode \in {"VariantSeq", "VariantMap"}, NEW trait,
           trait = IF mode = "VariantSeq" THEN "seq" ELSE "struct",
           Push(mode, trait, "idle"),
           NEW t \in {"BeginList", "BeginMap"}, t = "BeginList" <=> mode = "VariantSeq",
           output' = Feed(Keyed(Feed(output, "BeginMap")), t),
           is_writing_attributes' = is_writing_attributes
    PROVE  IInv'
<1> DEFINE c == Begun(mode, trait, "idle")
           e == Keyed(Feed(output, "BeginMap"))
           kind == Bracket(t)
<1>1. /\ Wanted /\ output \in Document /\ Len(output) \in Nat /\ Len(output) > 0
      /\ Slot # "key" /\ Slot # "attributes" /\ TakesNode(Innermost(output))
      /\ is_writing_attributes = FALSE
  BY Place
<1>2. Entered(output, e, "map", "value")
  BY <1>1, FeedVariant
<1> HIDE DEF e
<1>3. /\ e \in Document /\ Len(e) > 0 /\ Len(e) = Len(output) + 1
      /\ Innermost(e) = [kind |-> "map", want |-> "value"]
      /\ Agree(output, e, Len(output))
      /\ e[Len(output) + 1] = [kind |-> "map", want |-> "value"]
  BY <1>1, <1>2, EnteredType DEF Entered
<1>4. TakesNode(Innermost(e))
  BY <1>3 DEF TakesNode
<1>5. Entered(e, output', kind, "first")
  BY <1>3, <1>4, FeedOpening DEF e
<1>6. kind = IF mode = "VariantSeq" THEN "list" ELSE "map"
  BY DEF Bracket
<1> HIDE DEF kind
<1>7. /\ output' \in Document /\ Len(output') = Len(output) + 2
      /\ \A i \in 1..(Len(output) + 1) : output'[i] = e[i]
      /\ output'[Len(output) + 2] = [kind |-> kind, want |-> "first"]
      /\ Innermost(output') = [kind |-> kind, want |-> "first"]
  BY <1>1, <1>3, <1>5 DEF Entered, Innermost
<1>8. Agree(output, output', Len(output))
  BY <1>1, <1>3, <1>7 DEF Agree
<1>9. /\ mode \in Modes /\ trait \in Traits /\ "idle" \in Turns
      /\ c.mode = mode /\ c.turn = "idle" /\ c.first /\ c.base = Len(output)
  BY DEF Modes, Traits, Turns, Begun
<1>10. Shaped(c) /\ ~Flags(c)
  <2>1. CASE mode = "VariantSeq"
    BY <1>9, <2>1, BegunShape
  <2>2. CASE mode = "VariantMap"
    BY <1>9, <2>2, BegunShape
  <2> QED
    BY <2>1, <2>2
<1> HIDE DEF c
<1>11. Reach(c) = Len(output) + 2 /\ Opens(c) = 2 /\ Own(c) = kind
  BY <1>6, <1>9 DEF Reach, Opens, Own
<1>12. Owned(c, output')
  BY <1>1, <1>3, <1>7, <1>9, <1>11 DEF Owned
<1>13. Fits(c, Innermost(output'))
  <2>1. CASE mode = "VariantSeq"
    BY <1>7, <1>9, <2>1 DEF Fits, FitsList, Between
  <2>2. CASE mode = "VariantMap"
    <3>1. Fits(c, Innermost(output')) <=> FitsMap(c, Innermost(output'))
      BY <1>9, <2>2 DEF Fits
    <3> QED
      BY <1>7, <1>9, <3>1 DEF FitsMap, Between
  <2> QED
    BY <2>1, <2>2
<1> QED
  BY <1>1, <1>7, <1>8, <1>9, <1>10, <1>11, <1>12, <1>13, Pushes DEF c

LEMMA VariantSteps ==
    ASSUME OrderlyCallers, TypeOK, Writing, SerializeTupleVariant \/ SerializeStructVariant
    PROVE  IInv'
<1>1. CASE SerializeTupleVariant
  BY <1>1, BeginsTwo DEF SerializeTupleVariant
<1>2. CASE SerializeStructVariant
  BY <1>2, BeginsTwo DEF SerializeStructVariant
<1> QED
  BY <1>1, <1>2

-----------------------------------------------------------------------------
\* The top compound goes on in the level it is in.
LEMMA GoesOnInside ==
    ASSUME TypeOK, Writing, stack # <<>>,
           NEW c \in Compound, Shaped(c), c.base = Top.base, c.mode = Top.mode,
           Opens(c) = Opens(Top), Own(c) = Own(Top),
           stack' = [stack EXCEPT ![Len(stack)] = c], status' = status,
           NEW w, Wanting(output, output', Len(output), w),
           Fits(c, [kind |-> Innermost(output).kind, want |-> w]),
           is_writing_attributes' \in BOOLEAN, is_writing_attributes' <=> Flags(c)
    PROVE  IInv'
<1>1. /\ Top.base >= 1 /\ Len(output) = Reach(Top) /\ Owned(Top, output)
      /\ output \in Document
  BY TopType, OutputType DEF TypeOK
<1>2. Reach(c) = Reach(Top) /\ Owned(c, output)
  BY <1>1 DEF Reach, Owned
<1>3. /\ output' \in Document /\ Len(output') = Reach(c)
      /\ Agree(output, output', c.base) /\ Owned(c, output')
      /\ Innermost(output') = [kind |-> Innermost(output).kind, want |-> w]
  BY <1>1, <1>2, SameOwned
<1> QED
  BY <1>3, GoesOn

Went(c, first, turn) == [c EXCEPT !.first = first, !.turn = turn]

LEMMA WentType ==
    ASSUME NEW c \in Compound, NEW first \in BOOLEAN, NEW turn \in Turns
    PROVE  LET r == Went(c, first, turn) IN
           /\ r \in Compound
           /\ r.first = first /\ r.turn = turn
           /\ r.mode = c.mode /\ r.trait = c.trait /\ r.state = c.state
           /\ r.fields = c.fields /\ r.attributed = c.attributed /\ r.base = c.base
           /\ Opens(r) = Opens(c) /\ Own(r) = Own(c)
<1> DEFINE r == Went(c, first, turn)
<1>1. r \in Compound
  BY DEF Went, Compound
<1>2. /\ r.first = first /\ r.turn = turn
      /\ r.mode = c.mode /\ r.trait = c.trait /\ r.state = c.state
      /\ r.fields = c.fields /\ r.attributed = c.attributed /\ r.base = c.base
  BY DEF Went, Compound
<1> HIDE DEF r
<1>3. Opens(r) = Opens(c) /\ Own(r) = Own(c)
  BY <1>2 DEF Opens, Own
<1> QED
  BY <1>1, <1>2, <1>3 DEF r

\* A call that separates what it writes from what is there.
LEMMA WentOn ==
    ASSUME NEW s \in Seq(Compound), s # <<>>, NEW turn \in Turns
    PROVE  [s EXCEPT ![Len(s)].first = FALSE, ![Len(s)].turn = turn]
              = [s EXCEPT ![Len(s)] = Went(s[Len(s)], FALSE, turn)]
<1>1. Len(s) \in 1..Len(s)
  BY LenProperties, EmptySeq
<1> QED
  BY <1>1 DEF Went

LEMMA ElementStep ==
    ASSUME OrderlyCallers, TypeOK, Writing, SerializeElement
    PROVE  IInv'
<1> DEFINE c == Went(Top, FALSE, "value")
<1>1. /\ stack # <<>> /\ Top.trait = "seq" /\ Top.turn = "idle"
      /\ output' = Separated(output, Top.first)
      /\ stack' = [stack EXCEPT ![Len(stack)].first = FALSE, ![Len(stack)].turn = "value"]
      /\ is_writing_attributes' = is_writing_attributes /\ status' = status
  BY DEF SerializeElement, Driving
<1>2. stack \in Seq(Compound) /\ is_writing_attributes \in BOOLEAN /\ "value" \in Turns
  BY DEF TypeOK, Turns
<1>3. /\ Top \in Compound /\ Shaped(Top) /\ Owned(Top, output)
      /\ Fits(Top, Innermost(output)) /\ Innermost(output) = output[Reach(Top)]
      /\ is_writing_attributes <=> Flags(Top)
      /\ output \in Document /\ Len(output) > 0
  BY <1>1, <1>2, TopType, OutputType
<1>4. Top.mode \in Modes /\ Top.first \in BOOLEAN
  BY <1>3 DEF Compound
<1>5. Top.mode \in {"Seq", "VariantSeq"}
  BY <1>1, <1>3, <1>4 DEF Shaped, Modes
<1>6. Innermost(output).kind = "list" /\ ~Paired(Innermost(output))
  BY <1>3, <1>5 DEF Owned, Opens, Own, Paired
<1>7. Innermost(output).want = IF Top.first THEN "first" ELSE "more"
  BY <1>1, <1>3, <1>5 DEF Fits, FitsList, Between
<1>8. PICK w \in {"first", "value"} : Wanting(output, output', Len(output), w)
  BY <1>1, <1>3, <1>4, <1>6, <1>7, FeedSeparated
<1>9. stack' = [stack EXCEPT ![Len(stack)] = c]
  BY <1>1, <1>2, WentOn DEF Top
<1>10. /\ c \in Compound /\ ~c.first /\ c.turn = "value"
       /\ c.mode = Top.mode /\ c.trait = Top.trait /\ c.base = Top.base
       /\ Opens(c) = Opens(Top) /\ Own(c) = Own(Top)
  BY <1>2, <1>3, WentType
<1> HIDE DEF c
<1>11. Shaped(c) /\ ~Flags(c)
  BY <1>1, <1>5, <1>10 DEF Shaped, Flags, AsksAttributes
<1>12. Fits(c, [kind |-> Innermost(output).kind, want |-> w])
  BY <1>5, <1>6, <1>8, <1>10 DEF Fits, FitsList, TakesAttributes, TakesNode, Paired
<1>13. is_writing_attributes' = FALSE
  BY <1>1, <1>2, <1>3 DEF Flags
<1> QED
  BY <1>1, <1>8, <1>9, <1>10, <1>11, <1>12, <1>13, GoesOnInside

LEMMA KeyStep ==
    ASSUME OrderlyCallers, TypeOK, Writing, SerializeKey
    PROVE  IInv'
<1> DEFINE c == Went(Top, FALSE, "key")
<1>1. /\ stack # <<>> /\ Top.trait = "map" /\ Top.turn = "idle"
      /\ output' = Separated(output, Top.first)
      /\ stack' = [stack EXCEPT ![Len(stack)].first = FALSE, ![Len(stack)].turn = "key"]
      /\ is_writing_attributes' = is_writing_attributes /\ status' = status
  BY DEF SerializeKey, Driving
<1>2. stack \in Seq(Compound) /\ is_writing_attributes \in BOOLEAN /\ "key" \in Turns
  BY DEF TypeOK, Turns
<1>3. /\ Top \in Compound /\ Shaped(Top) /\ Owned(Top, output)
      /\ Fits(Top, Innermost(output)) /\ Innermost(output) = output[Reach(Top)]
      /\ is_writing_attributes <=> Flags(Top)
      /\ output \in Document /\ Len(output) > 0
  BY <1>1, <1>2, TopType, OutputType
<1>4. Top.mode \in Modes /\ Top.first \in BOOLEAN
  BY <1>3 DEF Compound
<1>5. Top.mode \in {"Map", "Attr"}
  BY <1>1, <1>3, <1>4 DEF Shaped, Modes
<1>6. Paired(Innermost(output))
  BY <1>3, <1>5 DEF Owned, Opens, Own, Paired
<1>7. Innermost(output).want = IF Top.first THEN "first" ELSE "more"
  <2>1. FitsMap(Top, Innermost(output))
    BY <1>3, <1>5 DEF Fits
  <2> QED
    BY <1>1, <2>1 DEF FitsMap, Between
<1>8. PICK w \in {"first", "key"} : Wanting(output, output', Len(output), w)
  BY <1>1, <1>3, <1>4, <1>6, <1>7, FeedSeparated
<1>9. stack' = [stack EXCEPT ![Len(stack)] = c]
  BY <1>1, <1>2, WentOn DEF Top
<1>10. /\ c \in Compound /\ ~c.first /\ c.turn = "key"
       /\ c.mode = Top.mode /\ c.trait = Top.trait /\ c.base = Top.base
       /\ Opens(c) = Opens(Top) /\ Own(c) = Own(Top)
  BY <1>2, <1>3, WentType
<1> HIDE DEF c
<1>11. Shaped(c) /\ ~Flags(c)
  BY <1>1, <1>5, <1>10 DEF Shaped, Flags, AsksAttributes
<1>12. Fits(c, [kind |-> Innermost(output).kind, want |-> w])
  <2> DEFINE l == [kind |-> Innermost(output).kind, want |-> w]
  <2>1. Fits(c, l) <=> FitsMap(c, l)
    BY <1>5, <1>10 DEF Fits
  <2>2. FitsMap(c, l)
    BY <1>8, <1>10 DEF FitsMap
  <2> QED
    BY <2>1, <2>2
<1>13. is_writing_attributes' = FALSE
  BY <1>1, <1>2, <1>3 DEF Flags
<1> QED
  BY <1>1, <1>8, <1>9, <1>10, <1>11, <1>12, <1>13, GoesOnInside

\* A key, and then its value.
LEMMA ValueStep ==
    ASSUME OrderlyCallers, TypeOK, Writing, SerializeValue
    PROVE  IInv'
<1> DEFINE c == Went(Top, Top.first, "value")
<1>1. /\ stack # <<>> /\ Top.turn = "keyed"
      /\ output' = Feed(output, "KeyValueSeparator")
      /\ stack' = [stack EXCEPT ![Len(stack)].turn = "value"]
      /\ is_writing_attributes' = is_writing_attributes /\ status' = status
  BY DEF SerializeValue
<1>2. stack \in Seq(Compound) /\ is_writing_attributes \in BOOLEAN /\ "value" \in Turns
  BY DEF TypeOK, Turns
<1>3. /\ Top \in Compound /\ Shaped(Top) /\ Len(stack) \in 1..Len(stack)
      /\ Fits(Top, Innermost(output))
      /\ is_writing_attributes <=> Flags(Top)
      /\ output \in Document /\ Len(output) > 0
  BY <1>1, <1>2, TopType, OutputType
<1>4. Top.mode \in Modes /\ Top.first \in BOOLEAN
  BY <1>3 DEF Compound
<1>5. Top.mode \in {"Map", "Attr"} /\ Top.trait = "map" /\ ~Top.first
  BY <1>1, <1>3, <1>4 DEF Shaped, Modes
<1>6. Innermost(output).want = "equals"
  <2>1. FitsMap(Top, Innermost(output))
    BY <1>3, <1>5 DEF Fits
  <2> QED
    BY <1>1, <2>1 DEF FitsMap
<1>7. Wanting(output, output', Len(output), "value")
  BY <1>1, <1>3, <1>6, FeedEquals
<1>8. stack' = [stack EXCEPT ![Len(stack)] = c]
  <2>1. c = [Top EXCEPT !.turn = "value"]
    BY <1>3 DEF Went, Compound
  <2> HIDE DEF c
  <2> QED
    BY <1>1, <1>2, <1>3, <2>1 DEF Top
<1>9. /\ c \in Compound /\ ~c.first /\ c.turn = "value"
      /\ c.mode = Top.mode /\ c.trait = Top.trait /\ c.base = Top.base
      /\ Opens(c) = Opens(Top) /\ Own(c) = Own(Top)
  BY <1>2, <1>3, <1>4, <1>5, WentType
<1> HIDE DEF c
<1>10. Shaped(c) /\ ~Flags(c)
  BY <1>1, <1>5, <1>9 DEF Shaped, Flags, AsksAttributes
<1>11. Fits(c, [kind |-> Innermost(output).kind, want |-> "value"])
  <2> DEFINE l == [kind |-> Innermost(output).kind, want |-> "value"]
  <2>1. Fits(c, l) <=> FitsMap(c, l)
    BY <1>5, <1>9 DEF Fits
  <2>2. FitsMap(c, l)
    BY <1>9 DEF FitsMap
  <2> QED
    BY <2>1, <2>2
<1>12. is_writing_attributes' = FALSE
  BY <1>1, <1>2, <1>3 DEF Flags
<1> QED
  BY <1>1, <1>7, <1>8, <1>9, <1>10, <1>11, <1>12, GoesOnInside

\* The name of a field, between fields and at the start.
LEMMA FeedName ==
    ASSUME NEW d \in Document, Len(d) > 0, NEW first \in BOOLEAN, Paired(Innermost(d)),
           Innermost(d).want = IF first THEN "first" ELSE "more"
    PROVE  Wanting(d, Keyed(Separated(d, first)), Len(d), "value")
<1> DEFINE e == Separated(d, first)
<1>1. PICK w \in {"first", "key"} : Wanting(d, e, Len(d), w)
  BY FeedSeparated
<1> HIDE DEF e
<1>2. Len(d) \in Nat /\ 1 <= Len(d)
  BY InnermostType
<1>3. e \in Document /\ Len(e) = Len(d) /\ Innermost(e) = [kind |-> Innermost(d).kind, want |-> w]
  BY <1>1 DEF Wanting, Innermost
<1>4. TakesKey(Innermost(e)) /\ Len(e) > 0
  BY <1>2, <1>3 DEF TakesKey, Paired
<1>5. Wanting(e, Keyed(e), Len(d), "value")
  BY <1>3, <1>4, FeedKeyed
<1> QED
  BY <1>1, <1>2, <1>5, WantingTwice DEF e

LEMMA NamedFieldStep ==
    ASSUME OrderlyCallers, TypeOK, Writing, NamedField
    PROVE  IInv'
<1> DEFINE c == Went(Top, FALSE, "value")
<1>1. /\ stack # <<>> /\ Top.trait = "struct" /\ Top.turn = "idle"
      /\ Top.mode \in {"Attr", "VariantMap"}
      /\ output' = Keyed(Separated(output, Top.first))
      /\ stack' = [stack EXCEPT ![Len(stack)].first = FALSE, ![Len(stack)].turn = "value"]
      /\ is_writing_attributes' = is_writing_attributes /\ status' = status
  BY DEF NamedField, Driving
<1>2. stack \in Seq(Compound) /\ is_writing_attributes \in BOOLEAN /\ "value" \in Turns
  BY DEF TypeOK, Turns
<1>3. /\ Top \in Compound /\ Shaped(Top) /\ Owned(Top, output)
      /\ Fits(Top, Innermost(output)) /\ Innermost(output) = output[Reach(Top)]
      /\ is_writing_attributes <=> Flags(Top)
      /\ output \in Document /\ Len(output) > 0
  BY <1>1, <1>2, TopType, OutputType
<1>4. Top.first \in BOOLEAN
  BY <1>3 DEF Compound
<1>5. Paired(Innermost(output))
  BY <1>1, <1>3 DEF Owned, Opens, Own, Paired
<1>6. Innermost(output).want = IF Top.first THEN "first" ELSE "more"
  <2>1. FitsMap(Top, Innermost(output))
    BY <1>1, <1>3 DEF Fits
  <2> QED
    BY <1>1, <2>1 DEF FitsMap, Between
<1>7. Wanting(output, output', Len(output), "value")
  BY <1>1, <1>3, <1>4, <1>5, <1>6, FeedName
<1>8. stack' = [stack EXCEPT ![Len(stack)] = c]
  BY <1>1, <1>2, WentOn DEF Top
<1>9. /\ c \in Compound /\ ~c.first /\ c.turn = "value"
      /\ c.mode = Top.mode /\ c.trait = Top.trait /\ c.base = Top.base
      /\ Opens(c) = Opens(Top) /\ Own(c) = Own(Top)
  BY <1>2, <1>3, WentType
<1> HIDE DEF c
<1>10. Shaped(c) /\ ~Flags(c)
  BY <1>1, <1>9 DEF Shaped, Flags, AsksAttributes
<1>11. Fits(c, [kind |-> Innermost(output).kind, want |-> "value"])
  <2> DEFINE l == [kind |-> Innermost(output).kind, want |-> "value"]
  <2>1. Fits(c, l) <=> FitsMap(c, l)
    BY <1>1, <1>9 DEF Fits
  <2>2. FitsMap(c, l)
    BY <1>9 DEF FitsMap
  <2> QED
    BY <2>1, <2>2
<1>12. is_writing_attributes' = FALSE
  BY <1>1, <1>2, <1>3 DEF Flags
<1> QED
  BY <1>1, <1>7, <1>8, <1>9, <1>10, <1>11, <1>12, GoesOnInside

\* The fields of WithAttributes, one after the other.
LEMMA WrapperFields ==
    /\ Append(<<>>, "attribute") = <<"attribute">>
    /\ Append(<<"attribute">>, "value") = <<"attribute", "value">>
<1> DEFINE f == <<"attribute">>
           g == <<"attribute", "value">>
<1>1. /\ f \in Seq(FieldKinds) /\ Len(f) = 1 /\ f[1] = "attribute"
      /\ <<>> \in Seq(FieldKinds) /\ Len(<<>>) = 0
      /\ "attribute" \in FieldKinds /\ "value" \in FieldKinds
  BY EmptySeq DEF FieldKinds
<1>2. g \in Seq(FieldKinds) /\ Len(g) = 2 /\ g[1] = "attribute" /\ g[2] = "value"
  BY DEF FieldKinds
<1> HIDE DEF f, g
<1>3. /\ Append(<<>>, "attribute") \in Seq(FieldKinds)
      /\ Len(Append(<<>>, "attribute")) = 1
      /\ Append(<<>>, "attribute")[1] = "attribute"
  BY <1>1, AppendProperties
<1>4. /\ Append(f, "value") \in Seq(FieldKinds)
      /\ Len(Append(f, "value")) = 2
      /\ Append(f, "value")[1] = "attribute" /\ Append(f, "value")[2] = "value"
  <2>1. 1 \in 1..Len(f) /\ Len(f) + 1 = 2
    BY <1>1
  <2>2. ASSUME NEW h \in Seq(FieldKinds), NEW x \in FieldKinds
        PROVE  /\ Append(h, x) \in Seq(FieldKinds)
               /\ Len(Append(h, x)) = Len(h) + 1
               /\ \A i \in 1..Len(h) : Append(h, x)[i] = h[i]
               /\ Append(h, x)[Len(h) + 1] = x
    BY AppendProperties
  <2> DEFINE h == Append(f, "value")
  <2>3. /\ h \in Seq(FieldKinds)
        /\ Len(h) = Len(f) + 1
        /\ \A i \in 1..Len(f) : h[i] = f[i]
        /\ h[Len(f) + 1] = "value"
    BY <1>1, <2>2, Zenon
  <2> HIDE DEF h
  <2>4. h \in Seq(FieldKinds) /\ Len(h) = 2 /\ h[1] = "attribute" /\ h[2] = "value"
    BY <1>1, <2>1, <2>3
  <2> QED
    BY <2>4 DEF h
<1>5. Append(<<>>, "attribute") = f
  BY <1>1, <1>3, SeqEqual
<1>6. Append(f, "value") = g
  <2>1. \A i \in 1..2 : i = 1 \/ i = 2
    OBVIOUS
  <2> QED
    BY <1>2, <1>4, <2>1, SeqEqual
<1> QED
  BY <1>5, <1>6 DEF f, g

\* The two fields of WithAttributes: the flag is up for the first.
LEMMA WrapperFieldStep ==
    ASSUME OrderlyCallers, TypeOK, Writing, WrapperField
    PROVE  IInv'
<1> DEFINE field == IF Top.fields = <<>> THEN "attribute" ELSE "value"
           c == [Top EXCEPT !.turn = "value", !.fields = Append(@, field)]
<1>1. /\ stack # <<>> /\ Top.turn = "idle" /\ Top.mode = "AttrWrapper" /\ Len(Top.fields) < 2
      /\ is_writing_attributes' = (is_writing_attributes \/ field = "attribute")
      /\ stack' = [stack EXCEPT ![Len(stack)].turn = "value",
                                ![Len(stack)].fields = Append(@, field)]
      /\ output' = output /\ status' = status
  BY DEF WrapperField, Driving
<1>2. stack \in Seq(Compound) /\ is_writing_attributes \in BOOLEAN
  BY DEF TypeOK
<1>3. /\ Top \in Compound /\ Shaped(Top) /\ Len(stack) \in 1..Len(stack)
      /\ Fits(Top, Innermost(output))
      /\ is_writing_attributes <=> Flags(Top)
      /\ output \in Document /\ Len(output) > 0
  BY <1>1, <1>2, TopType, OutputType
<1>4. Top.fields = <<>> \/ Top.fields = <<"attribute">>
  BY <1>1, <1>3 DEF Shaped
<1>5. Append(Top.fields, field) \in {<<"attribute">>, <<"attribute", "value">>}
      /\ (Append(Top.fields, field) = <<"attribute">> <=> Top.fields = <<>>)
      /\ Append(Top.fields, field) # <<>>
  <2>1. CASE Top.fields = <<>>
    <3>1. Append(<<>>, "attribute") = <<"attribute">>
      BY WrapperFields
    <3> QED
      BY <2>1, <3>1
  <2>2. CASE Top.fields = <<"attribute">>
    <3>1. Append(<<"attribute">>, "value") = <<"attribute", "value">>
      BY WrapperFields
    <3>2. <<"attribute", "value">> # <<"attribute">> /\ <<"attribute">> # <<>>
      OBVIOUS
    <3>3. field = "value"
      BY <2>2, <3>2
    <3>4. Append(Top.fields, field) = <<"attribute", "value">>
      BY <2>2, <3>1, <3>3
    <3> QED
      BY <2>2, <3>2, <3>4
  <2> QED
    BY <1>4, <2>1, <2>2
<1>6. Append(Top.fields, field) \in Seq(FieldKinds)
  <2>1. Top.fields \in Seq(FieldKinds) /\ field \in FieldKinds
    BY <1>3 DEF Compound, FieldKinds
  <2> QED
    BY <2>1, AppendProperties
<1> DEFINE fields == Append(Top.fields, field)
<1>7. stack' = [stack EXCEPT ![Len(stack)] = c]
  BY <1>1, <1>2, <1>3 DEF Top
<1>8. (field = "attribute") <=> Top.fields = <<>>
  OBVIOUS
<1> HIDE DEF field, fields
<1>9. c = [Top EXCEPT !.turn = "value", !.fields = fields]
  BY DEF fields
<1> HIDE DEF c
<1>10. /\ c \in Compound /\ c.turn = "value" /\ c.fields = fields
       /\ c.mode = Top.mode /\ c.trait = Top.trait /\ c.base = Top.base
       /\ c.state = Top.state /\ c.attributed = Top.attributed
  BY <1>3, <1>6, <1>9 DEF Compound, Turns, fields
<1>11. Opens(c) = Opens(Top) /\ Own(c) = Own(Top)
  BY <1>10 DEF Opens, Own
<1>12. Shaped(c)
  BY <1>1, <1>3, <1>5, <1>10 DEF Shaped, fields
<1>13. is_writing_attributes' \in BOOLEAN /\ (is_writing_attributes' <=> Flags(c))
  <2>1. ~Flags(Top)
    BY <1>1 DEF Flags
  <2>2. Flags(c) <=> field = "attribute"
    BY <1>1, <1>5, <1>8, <1>10 DEF Flags, AsksAttributes, fields
  <2> QED
    BY <1>1, <1>2, <1>3, <2>1, <2>2
<1> DEFINE l == Innermost(output)
<1>14. Wanting(output, output', Len(output), l.want) /\ l = [kind |-> l.kind, want |-> l.want]
  <2>1. l \in Level
    BY <1>3, InnermostType
  <2> QED
    BY <1>1, <1>3, <2>1, WantingSame DEF Level
<1> HIDE DEF l
<1>15. Fits(c, l)
  <2>1. (Fits(c, l) <=> FitsWrapper(c, l)) /\ (Fits(Top, l) <=> FitsWrapper(Top, l))
    BY <1>1, <1>10 DEF Fits
  <2>2. CASE Top.fields = <<>>
    <3>1. TakesAttributes(l)
      BY <1>3, <2>1, <2>2 DEF FitsWrapper, l
    <3>2. c.fields = <<"attribute">>
      BY <1>5, <1>10, <2>2 DEF fields
    <3> QED
      BY <1>10, <2>1, <3>1, <3>2 DEF FitsWrapper
  <2>3. CASE Top.fields = <<"attribute">>
    <3>1. l.want = "node"
      BY <1>1, <1>3, <2>1, <2>3 DEF FitsWrapper, l
    <3>2. c.fields # <<>> /\ c.fields # <<"attribute">>
      BY <1>5, <1>10, <2>3 DEF fields
    <3> QED
      BY <1>10, <2>1, <3>1, <3>2 DEF FitsWrapper
  <2> QED
    BY <1>4, <2>2, <2>3
<1> QED
  BY <1>1, <1>7, <1>10, <1>11, <1>12, <1>13, <1>14, <1>15, GoesOnInside DEF l

-----------------------------------------------------------------------------
(***************************************************************************)
(* The fields of structs.                                                  *)
(***************************************************************************)
LEMMA FieldsType ==
    ASSUME NEW c \in Compound
    PROVE  /\ c.fields \in Seq(FieldKinds) /\ Len(c.fields) \in Nat
           /\ c.fields = <<>> <=> Len(c.fields) = 0
           /\ c.state \in StructStates
<1>1. c.fields \in Seq(FieldKinds) /\ c.state \in StructStates
  BY DEF Compound
<1> QED
  BY <1>1, EmptySeq, LenProperties

LEMMA FieldAppended ==
    ASSUME NEW c \in Compound, NEW kind \in FieldKinds
    PROVE  LET f == Append(c.fields, kind)
               n == Len(c.fields) IN
           /\ f \in Seq(FieldKinds) /\ f # <<>> /\ Len(f) = n + 1
           /\ \A i \in 1..n : f[i] = c.fields[i]
           /\ f[n + 1] = kind
BY FieldsType, AppendProperties

\* A field that is legal in this state leaves the fields in order, ...
LEMMA LegalFits ==
    ASSUME NEW c \in Compound, FieldsFit(c), NEW kind \in FieldKinds, Legal(c.state, kind),
           NEW r, r.state = NextState[kind], r.fields = Append(c.fields, kind)
    PROVE  FieldsFit(r)
<1> DEFINE n == Len(c.fields)
           f == c.fields
           g == r.fields
<1>1. /\ n \in Nat /\ c.state \in StructStates /\ Len(g) = n + 1
      /\ \A i \in 1..n : g[i] = f[i]
      /\ g[n + 1] = kind
  BY FieldsType, FieldAppended
<1>2. CASE kind = "attribute"
  <2>1. r.state = "Attrs" /\ c.state \in {"Start", "Attrs"}
    BY <1>2 DEF NextState, Legal
  <2>2. \A i \in 1..n : f[i] = "attribute"
    <3>1. CASE c.state = "Start"
      BY <3>1 DEF FieldsFit
    <3>2. CASE c.state = "Attrs"
      BY <3>2 DEF FieldsFit
    <3> QED
      BY <2>1, <3>1, <3>2
  <2>3. \A i \in 1..(n + 1) : g[i] = "attribute"
    BY <1>1, <1>2, <2>2
  <2> QED
    BY <1>1, <2>1, <2>3 DEF FieldsFit
<1>3. CASE kind = "value"
  <2>1. r.state = "Value" /\ c.state \in {"Start", "Attrs"}
    BY <1>3 DEF NextState, Legal
  <2>2. \A i \in 1..n : f[i] = "attribute"
    <3>1. CASE c.state = "Start"
      BY <3>1 DEF FieldsFit
    <3>2. CASE c.state = "Attrs"
      BY <3>2 DEF FieldsFit
    <3> QED
      BY <2>1, <3>1, <3>2
  <2>3. g[n + 1] = "value" /\ \A i \in 1..((n + 1) - 1) : g[i] = "attribute"
    BY <1>1, <1>3, <2>2
  <2> QED
    BY <1>1, <2>1, <2>3 DEF FieldsFit
<1>4. CASE kind = "plain"
  <2>1. r.state = "Body" /\ c.state \in {"Start", "Attrs", "Body"}
    BY <1>1, <1>4 DEF NextState, Legal, StructStates
  <2>2. \E k \in 0..n : /\ \A i \in 1..k : f[i] = "attribute"
                        /\ \A i \in (k + 1)..n : f[i] = "plain"
    <3>1. CASE c.state = "Start"
      <4>1. n = 0
        BY <3>1 DEF FieldsFit
      <4> QED
        BY <4>1
    <3>2. CASE c.state = "Attrs"
      <4>1. n \in 0..n /\ (n + 1)..n = {} /\ \A i \in 1..n : f[i] = "attribute"
        BY <1>1, <3>2 DEF FieldsFit
      <4> QED
        BY <4>1
    <3>3. CASE c.state = "Body"
      <4>1. PICK k \in 0..(n - 1) : /\ \A i \in 1..k : f[i] = "attribute"
                                    /\ \A i \in (k + 1)..n : f[i] = "plain"
        BY <3>3 DEF FieldsFit
      <4>2. k \in 0..n
        BY <1>1
      <4> QED
        BY <4>1, <4>2
    <3> QED
      BY <2>1, <3>1, <3>2, <3>3
  <2>3. PICK k \in 0..n : /\ \A i \in 1..k : f[i] = "attribute"
                          /\ \A i \in (k + 1)..n : f[i] = "plain"
    BY <2>2
  <2>4. \A i \in 1..k : g[i] = "attribute"
    BY <1>1, <2>3
  <2>5. \A i \in (k + 1)..(n + 1) : g[i] = "plain"
    BY <1>1, <1>4, <2>3
  <2>6. k \in 0..((n + 1) - 1)
    BY <1>1, <2>3
  <2> QED
    BY <1>1, <2>1, <2>4, <2>5, <2>6 DEF FieldsFit
<1> QED
  BY <1>2, <1>3, <1>4 DEF FieldKinds

LEMMA FitInOrder ==
    ASSUME NEW c \in Compound, FieldsFit(c)
    PROVE  InOrder(c.fields)
<1> DEFINE n == Len(c.fields)
           f == c.fields
<1>1. n \in Nat /\ c.state \in StructStates
  BY FieldsType
<1>2. CASE c.state = "Start"
  <2>1. n = 0
    BY <1>2 DEF FieldsFit
  <2> QED
    BY <2>1 DEF InOrder
<1>3. CASE c.state = "Attrs"
  <2>1. n \in 0..n /\ (n + 1)..n = {} /\ \A i \in 1..n : f[i] = "attribute"
    BY <1>1, <1>3 DEF FieldsFit
  <2> QED
    BY <2>1 DEF InOrder
<1>4. CASE c.state = "Value"
  <2>1. n > 0 /\ f[n] = "value" /\ \A i \in 1..(n - 1) : f[i] = "attribute"
    BY <1>4 DEF FieldsFit
  <2>2. n - 1 \in 0..n /\ (n - 1) + 1 = n
    BY <1>1, <2>1
  <2> QED
    BY <2>1, <2>2 DEF InOrder
<1>5. CASE c.state = "Body"
  <2>1. PICK k \in 0..(n - 1) : /\ \A i \in 1..k : f[i] = "attribute"
                                /\ \A i \in (k + 1)..n : f[i] = "plain"
    BY <1>5 DEF FieldsFit
  <2>2. k \in 0..n
    BY <1>1
  <2> QED
    BY <2>1, <2>2 DEF InOrder
<1> QED
  BY <1>1, <1>2, <1>3, <1>4, <1>5 DEF StructStates

\* ... and one that is not leaves them out of order.
LEMMA IllegalOutOfOrder ==
    ASSUME NEW c \in Compound, FieldsFit(c), NEW kind \in FieldKinds, ~Legal(c.state, kind)
    PROVE  c.state # "Start" /\ ~InOrder(Append(c.fields, kind))
<1> DEFINE n == Len(c.fields)
           f == c.fields
           g == Append(c.fields, kind)
<1>1. /\ n \in Nat /\ c.state \in StructStates /\ Len(g) = n + 1
      /\ \A i \in 1..n : g[i] = f[i]
      /\ g[n + 1] = kind
  BY FieldsType, FieldAppended
<1>2. c.state = "Value" \/ (c.state = "Body" /\ kind # "plain")
  BY <1>1 DEF Legal, StructStates, FieldKinds
<1>3. n > 0 /\ f[n] # "attribute" /\ (f[n] = "plain" => kind # "plain")
  <2>1. CASE c.state = "Value"
    BY <2>1 DEF FieldsFit
  <2>2. CASE c.state = "Body" /\ kind # "plain"
    <3>1. PICK k \in 0..(n - 1) : \A i \in (k + 1)..n : f[i] = "plain"
      BY <2>2 DEF FieldsFit
    <3>2. n > 0 /\ n \in (k + 1)..n
      BY <1>1
    <3> QED
      BY <2>2, <3>1, <3>2
  <2> QED
    BY <1>2, <2>1, <2>2
<1> HIDE DEF g
<1>4. ASSUME InOrder(g) PROVE FALSE
  <2>1. PICK k \in 0..(n + 1) :
           /\ \A i \in 1..k : g[i] = "attribute"
           /\ \/ \A i \in (k + 1)..(n + 1) : g[i] = "plain"
              \/ k + 1 = n + 1 /\ g[k + 1] = "value"
    BY <1>1, <1>4 DEF InOrder
  <2>2. n \in 1..n /\ g[n] = f[n]
    BY <1>1, <1>3
  <2>3. k < n
    BY <1>1, <1>3, <2>1, <2>2
  <2>4. n \in (k + 1)..(n + 1) /\ n + 1 \in (k + 1)..(n + 1) /\ k + 1 # n + 1
    BY <1>1, <2>3
  <2>5. g[n] = "plain" /\ g[n + 1] = "plain"
    BY <2>1, <2>4
  <2> QED
    BY <1>1, <1>3, <2>2, <2>5
<1> QED
  BY <1>2, <1>4 DEF g

\* A struct with one more field.
Fielded(c, kind) ==
    [c EXCEPT !.state = NextState[kind],
              !.first = IF kind = "value" THEN @ ELSE FALSE,
              !.turn = "value",
              !.fields = Append(@, kind)]

LEMMA FieldedType ==
    ASSUME NEW c \in Compound, NEW kind \in FieldKinds, c.mode = "Struct",
           Shaped(c), Legal(c.state, kind)
    PROVE  LET r == Fielded(c, kind) IN
           /\ r \in Compound /\ r.mode = "Struct" /\ r.base = c.base /\ r.turn = "value"
           /\ r.state = NextState[kind] /\ r.fields = Append(c.fields, kind)
           /\ r.attributed = c.attributed
           /\ Shaped(r) /\ ~Flags(r)
           /\ kind = "value" => (HasAttributes(r) <=> c.attributed \/ c.state = "Attrs")
<1> DEFINE r == Fielded(c, kind)
           f == Append(c.fields, kind)
           n == Len(c.fields)
<1>1. /\ f \in Seq(FieldKinds) /\ f[n + 1] = kind /\ n \in Nat
      /\ \A i \in 1..n : f[i] = c.fields[i]
  BY FieldAppended, FieldsType
<1>2. NextState[kind] \in {"Attrs", "Value", "Body"}
  BY DEF NextState, FieldKinds
<1>3. r \in Compound
  BY <1>1, <1>2 DEF Fielded, Compound, StructStates, Turns
<1>4. /\ r.mode = "Struct" /\ r.base = c.base /\ r.turn = "value"
      /\ r.state = NextState[kind] /\ r.fields = f
      /\ r.attributed = c.attributed /\ r.trait = c.trait
      /\ r.first = IF kind = "value" THEN c.first ELSE FALSE
  BY DEF Fielded, Compound
<1> HIDE DEF r
<1>5. FieldsFit(c) /\ c.trait = "struct"
  BY DEF Shaped
<1>6. FieldsFit(r)
  BY <1>4, <1>5, LegalFits
<1>7. kind = "value" => r.state = "Value"
  BY <1>4 DEF NextState
<1>8. Shaped(r) /\ ~Flags(r)
  BY <1>2, <1>4, <1>5, <1>6, <1>7 DEF Shaped, Flags, AsksAttributes
<1>9. ASSUME kind = "value" PROVE HasAttributes(r) <=> c.attributed \/ c.state = "Attrs"
  <2>0. c.state \in {"Start", "Attrs"}
    BY <1>9 DEF Legal
  <2>1. CASE c.state = "Start"
    <3>1. n = 0
      BY <1>5, <2>1 DEF FieldsFit
    <3>2. f[1] = kind
      BY <1>1, <3>1
    <3> QED
      BY <1>4, <1>9, <2>1, <3>2 DEF HasAttributes
  <2>2. CASE c.state = "Attrs"
    <3>1. n > 0 /\ \A i \in 1..n : c.fields[i] = "attribute"
      BY <1>5, <2>2 DEF FieldsFit
    <3>2. 1 \in 1..n
      BY <1>1, <3>1
    <3>3. f[1] = "attribute"
      BY <1>1, <3>1, <3>2
    <3> QED
      BY <1>4, <2>2, <3>3 DEF HasAttributes
  <2> QED
    BY <2>0, <2>1, <2>2
<1> QED
  BY <1>3, <1>4, <1>8, <1>9 DEF r

\* Where a struct is, between two fields.
LEMMA StructTop ==
    ASSUME TypeOK, Writing, stack # <<>>, Top.mode = "Struct", Top.turn = "idle"
    PROVE  /\ Top \in Compound /\ Shaped(Top) /\ Owned(Top, output)
           /\ Top.base \in Nat /\ Top.base >= 1 /\ Top.base > 0
           /\ Reach(Top) = Top.base + Opens(Top) /\ Len(output) = Reach(Top)
           /\ output \in Document /\ Len(output) > 0 /\ Len(output) \in Nat
           /\ Innermost(output) = output[Reach(Top)]
           /\ FitsStruct(Top, Innermost(output))
           /\ Top.state \in StructStates
           /\ is_writing_attributes = FALSE
<1>1. stack \in Seq(Compound) /\ is_writing_attributes \in BOOLEAN
  BY DEF TypeOK
<1>2. /\ Top \in Compound /\ Shaped(Top) /\ Owned(Top, output)
      /\ Top.base \in Nat /\ Top.base >= 1
      /\ Reach(Top) = Top.base + Opens(Top) /\ Len(output) = Reach(Top)
      /\ Innermost(output) = output[Reach(Top)]
      /\ Fits(Top, Innermost(output))
      /\ is_writing_attributes <=> Flags(Top)
  BY <1>1, TopType
<1>3. output \in Document /\ Len(output) > 0 /\ Len(output) \in Nat
  BY <1>1, OutputType
<1>4. FitsStruct(Top, Innermost(output))
  BY <1>2 DEF Fits
<1>5. is_writing_attributes = FALSE
  BY <1>1, <1>2 DEF Flags
<1>6. Top.state \in StructStates
  BY <1>2 DEF Compound
<1> QED
  BY <1>2, <1>3, <1>4, <1>5, <1>6

\* What StructField leaves to be shown is that the output goes with it.
LEMMA Fields ==
    ASSUME OrderlyCallers, TypeOK, Writing, NEW kind \in FieldKinds, StructField(kind)
    PROVE  /\ stack # <<>>
           /\ Top.mode = "Struct" /\ Top.turn = "idle" /\ Legal(Top.state, kind)
           /\ kind = "attribute" => ~Top.attributed
           /\ output' = LET d == Bracketed(output, Top.state, kind, Top.first) IN
                        IF kind = "value" THEN d ELSE Keyed(d)
           /\ stack' = [stack EXCEPT ![Len(stack)] = Fielded(Top, kind)]
           /\ status' = status
           /\ is_writing_attributes' = FALSE
<1>1. /\ stack # <<>> /\ Top.turn = "idle" /\ Top.mode = "Struct"
      /\ kind = "attribute" /\ Top.attributed => "wrapper" \in Calls["attributed"]
      /\ Legal(Top.state, kind)
      /\ output' = LET d == Bracketed(output, Top.state, kind, Top.first) IN
                   IF kind = "value" THEN d ELSE Keyed(d)
      /\ status' = status /\ is_writing_attributes' = is_writing_attributes
  BY DEF StructField, Driving
<1>2. stack' = [stack EXCEPT ![Len(stack)] = Fielded(Top, kind)]
  BY DEF StructField, Fielded
<1>3. kind = "attribute" => ~Top.attributed
  BY <1>1 DEF OrderlyCallers
<1>4. is_writing_attributes' = FALSE
  BY <1>1, StructTop
<1> QED
  BY <1>1, <1>2, <1>3, <1>4

\* A field in a bracket that is open already.
LEMMA FieldInside ==
    ASSUME OrderlyCallers, TypeOK, Writing, NEW kind \in {"attribute", "plain"}, StructField(kind),
           Top.state = NextState[kind]
    PROVE  IInv'
<1> DEFINE c == Fielded(Top, kind)
<1>0. kind \in FieldKinds
  BY DEF FieldKinds
<1>1. /\ Top.mode = "Struct" /\ Top.turn = "idle"
      /\ Top.state = IF kind = "attribute" THEN "Attrs" ELSE "Body"
      /\ stack # <<>> /\ Legal(Top.state, kind)
  <2>1. stack # <<>> /\ Top.mode = "Struct" /\ Top.turn = "idle" /\ Legal(Top.state, kind)
    BY <1>0, Fields
  <2> QED
    BY <2>1 DEF NextState
<1>2. /\ c \in Compound /\ c.mode = "Struct" /\ c.base = Top.base /\ c.turn = "value"
      /\ c.state = Top.state /\ Shaped(c) /\ ~Flags(c)
  BY <1>0, <1>1, StructTop, FieldedType
<1>3. Opens(c) = Opens(Top) /\ Own(c) = Own(Top)
  BY <1>1, <1>2 DEF Opens, Own
<1>4. Paired(Innermost(output))
  <2>1. Owned(Top, output) /\ Innermost(output) = output[Reach(Top)]
    BY <1>1, StructTop
  <2> QED
    BY <1>1, <2>1 DEF Owned, Opens, Own, Paired
<1>5. Innermost(output).want = "more"
  BY <1>1, StructTop DEF FitsStruct
<1>6. ~Top.first /\ Top.first \in BOOLEAN
  BY <1>1, StructTop DEF Shaped, Compound
<1>7. output' = Keyed(Separated(output, Top.first))
  <2>1. output' = Keyed(Bracketed(output, Top.state, kind, Top.first))
    BY <1>0, Fields
  <2> QED
    BY <1>1, <2>1 DEF Bracketed
<1>8. Wanting(output, output', Len(output), "value")
  BY <1>1, <1>4, <1>5, <1>6, <1>7, StructTop, FeedName
<1>9. Fits(c, [kind |-> Innermost(output).kind, want |-> "value"])
  BY <1>1, <1>2 DEF Fits, FitsStruct
<1>10. /\ stack # <<>> /\ stack' = [stack EXCEPT ![Len(stack)] = c] /\ status' = status
       /\ is_writing_attributes' = FALSE
  BY <1>0, Fields
<1> HIDE DEF c
<1> QED
  BY <1>1, <1>2, <1>3, <1>8, <1>9, <1>10, GoesOnInside

\* A field that opens a bracket: in front of it is, with the n levels that are
\* left, where the struct is.
LEMMA FieldOpens ==
    ASSUME OrderlyCallers, TypeOK, Writing, NEW kind \in {"attribute", "plain"}, StructField(kind),
           NEW before \in Document, NEW w, Wanting(output, before, Top.base, w),
           Entered(before, output', IF kind = "attribute" THEN "attributes" ELSE "map", "value")
    PROVE  IInv'
<1> DEFINE c == Fielded(Top, kind)
           own == IF kind = "attribute" THEN "attributes" ELSE "map"
<1>0. kind \in FieldKinds
  BY DEF FieldKinds
<1>1. /\ c \in Compound /\ c.mode = "Struct" /\ c.base = Top.base /\ c.turn = "value"
      /\ c.state = NextState[kind] /\ Shaped(c) /\ ~Flags(c)
  <2>1. stack # <<>> /\ Top.mode = "Struct" /\ Top.turn = "idle" /\ Legal(Top.state, kind)
    BY <1>0, Fields
  <2> QED
    BY <1>0, <2>1, StructTop, FieldedType
<1>2. c.state = IF kind = "attribute" THEN "Attrs" ELSE "Body"
  BY <1>1 DEF NextState
<1>3. /\ stack # <<>> /\ stack' = [stack EXCEPT ![Len(stack)] = c] /\ status' = status
      /\ is_writing_attributes' = FALSE
      /\ Top.base \in Nat /\ Top.base > 0 /\ Top.mode = "Struct" /\ output \in Document
  <2>1. /\ stack # <<>> /\ stack' = [stack EXCEPT ![Len(stack)] = c] /\ status' = status
        /\ is_writing_attributes' = FALSE /\ Top.mode = "Struct" /\ Top.turn = "idle"
    BY <1>0, Fields
  <2> QED
    BY <2>1, StructTop
<1> HIDE DEF c
<1>4. Opens(c) = 1 /\ Reach(c) = Top.base + 1 /\ Own(c) = own
  BY <1>1, <1>2 DEF Opens, Reach, Own
<1> HIDE DEF own
<1>5. /\ output' \in Document /\ Len(output') = Top.base + 1
      /\ Agree(output, output', Top.base)
      /\ output'[Top.base + 1] = [kind |-> own, want |-> "value"]
  BY <1>3, WantingEntered DEF own
<1>6. Owned(c, output')
  BY <1>4, <1>5 DEF Owned
<1>7. Fits(c, Innermost(output'))
  BY <1>1, <1>2, <1>5 DEF Fits, FitsStruct, Innermost
<1> QED
  BY <1>1, <1>3, <1>4, <1>5, <1>6, <1>7, GoesOn

\* The attributes of a struct end.
LEMMA FeedBodied ==
    ASSUME NEW d \in Document, NEW c \in Compound, c.mode = "Struct", c.turn = "idle",
           c.base \in Nat, c.base >= 1, Len(d) = Reach(c), Owned(c, d), c.state = "Attrs",
           FitsStruct(c, Innermost(d))
    PROVE  Wanting(d, Feed(d, "EndAttributes"), c.base, "node")
<1>1. Opens(c) = 1 /\ Own(c) = "attributes" /\ Reach(c) = c.base + 1
  BY DEF Opens, Own, Reach
<1>2. Innermost(d).kind = "attributes" /\ Innermost(d).want = "more"
  BY <1>1 DEF Owned, FitsStruct, Innermost
<1>3. Wanting(d, Feed(d, "EndAttributes"), Len(d) - 1, "node")
  BY <1>1, <1>2, FeedClosing DEF Closable, Bracket, Closing
<1>4. Len(d) - 1 = c.base
  BY <1>1
<1> QED
  BY <1>3, <1>4

LEMMA AttributeFieldStep ==
    ASSUME OrderlyCallers, TypeOK, Writing, StructField("attribute")
    PROVE  IInv'
<1>1. /\ stack # <<>> /\ Top.mode = "Struct" /\ Top.turn = "idle"
      /\ Legal(Top.state, "attribute") /\ ~Top.attributed
      /\ output' = Keyed(Bracketed(output, Top.state, "attribute", Top.first))
  <2>1. "attribute" \in FieldKinds
    BY DEF FieldKinds
  <2> QED
    BY <2>1, Fields
<1>2. Top.state \in {"Start", "Attrs"}
  BY <1>1 DEF Legal
<1>3. CASE Top.state = "Attrs"
  BY <1>3, FieldInside DEF NextState
<1>4. CASE Top.state = "Start"
  <2> DEFINE e == Feed(output, "BeginAttributes")
  <2>1. output' = Keyed(e)
    BY <1>1, <1>4 DEF Bracketed
  <2>2. /\ output \in Document /\ Len(output) > 0 /\ Len(output) = Top.base
        /\ TakesAttributes(Innermost(output))
    <3>1. Opens(Top) = 0
      BY <1>1, <1>4 DEF Opens
    <3>2. /\ output \in Document /\ Len(output) > 0 /\ Len(output) = Top.base
          /\ FitsStruct(Top, Innermost(output))
      BY <1>1, <3>1, StructTop
    <3> QED
      BY <1>1, <1>4, <3>2 DEF FitsStruct
  <2>3. Entered(output, e, "attributes", "first")
    BY <2>2, FeedOpening DEF TakesAttributes, Bracket
  <2> HIDE DEF e
  <2>4. e \in Document /\ Len(e) > 0 /\ Innermost(e) = [kind |-> "attributes", want |-> "first"]
    BY <2>2, <2>3, EnteredType
  <2>5. Wanting(e, output', Len(e), "value")
    <3>1. TakesKey(Innermost(e))
      BY <2>4 DEF TakesKey, Paired
    <3> QED
      BY <2>1, <2>4, <3>1, FeedKeyed
  <2>6. Entered(output, output', "attributes", "value")
    BY <2>2, <2>3, <2>5, EnteredWanting
  <2>7. Wanting(output, output, Top.base, Innermost(output).want)
    BY <2>2, WantingSame
  <2> QED
    BY <2>2, <2>6, <2>7, FieldOpens
<1> QED
  BY <1>2, <1>3, <1>4

LEMMA PlainFieldStep ==
    ASSUME OrderlyCallers, TypeOK, Writing, StructField("plain")
    PROVE  IInv'
<1>1. /\ stack # <<>> /\ Top.mode = "Struct" /\ Top.turn = "idle"
      /\ Legal(Top.state, "plain")
      /\ output' = Keyed(Bracketed(output, Top.state, "plain", Top.first))
  <2>1. "plain" \in FieldKinds
    BY DEF FieldKinds
  <2> QED
    BY <2>1, Fields
<1>2. Top.state \in {"Start", "Attrs", "Body"}
  BY <1>1, StructTop DEF Legal, StructStates
<1>3. CASE Top.state = "Body"
  BY <1>3, FieldInside DEF NextState
<1>4. CASE Top.state \in {"Start", "Attrs"}
  <2> DEFINE e == Bodied(output, Top.state)
  <2>1. output' = Keyed(Feed(e, "BeginMap"))
    BY <1>1, <1>4 DEF Bracketed
  <2>2. \E w : Wanting(output, e, Top.base, w) /\ w \in {"node", "value", "first"}
               /\ TakesNode([kind |-> output[Top.base].kind, want |-> w])
    <3>1. CASE Top.state = "Start"
      <4>1. Opens(Top) = 0 /\ e = output
        BY <1>1, <3>1 DEF Opens, Bodied
      <4>2. /\ output \in Document /\ Len(output) > 0 /\ Len(output) = Top.base
            /\ FitsStruct(Top, Innermost(output))
        BY <1>1, <4>1, StructTop
      <4>3. TakesNode(Innermost(output))
        BY <3>1, <4>2 DEF FitsStruct, TakesAttributes, TakesNode
      <4>4. Innermost(output) = [kind |-> output[Top.base].kind, want |-> Innermost(output).want]
        BY <4>2, InnermostType, LevelType
      <4> HIDE DEF e
      <4>5. Wanting(output, e, Top.base, Innermost(output).want)
        BY <4>1, <4>2, WantingSame
      <4>6. Innermost(output).want \in {"node", "value", "first"}
        BY <4>3 DEF TakesNode
      <4> QED
        BY <4>3, <4>4, <4>5, <4>6
    <3>2. CASE Top.state = "Attrs"
      <4>1. Wanting(output, Feed(output, "EndAttributes"), Top.base, "node")
        BY <1>1, <3>2, StructTop, FeedBodied
      <4>2. e = Feed(output, "EndAttributes")
        BY <3>2 DEF Bodied
      <4> QED
        BY <4>1, <4>2 DEF TakesNode
    <3> QED
      BY <1>4, <3>1, <3>2
  <2> HIDE DEF e
  <2>3. PICK w : /\ Wanting(output, e, Top.base, w)
                 /\ TakesNode([kind |-> output[Top.base].kind, want |-> w])
    BY <2>2
  <2>4. e \in Document /\ Len(e) > 0 /\ TakesNode(Innermost(e))
    <3>1. Top.base \in Nat /\ Top.base >= 1
      BY <1>1, StructTop
    <3> QED
      BY <2>3, <3>1 DEF Wanting, Innermost
  <2>5. Entered(e, output', "map", "value")
    BY <2>1, <2>4, FeedVariant
  <2> QED
    BY <2>3, <2>4, <2>5, FieldOpens
<1> QED
  BY <1>2, <1>3, <1>4

LEMMA ValueFieldStep ==
    ASSUME OrderlyCallers, TypeOK, Writing, StructField("value")
    PROVE  IInv'
<1> DEFINE c == Fielded(Top, "value")
<1>0. "value" \in FieldKinds
  BY DEF FieldKinds
<1>1. /\ stack # <<>> /\ Top.mode = "Struct" /\ Top.turn = "idle"
      /\ Legal(Top.state, "value")
      /\ output' = Bracketed(output, Top.state, "value", Top.first)
      /\ stack' = [stack EXCEPT ![Len(stack)] = c] /\ status' = status
      /\ is_writing_attributes' = FALSE
  BY <1>0, Fields
<1>2. Top.state \in {"Start", "Attrs"} /\ output' = Bodied(output, Top.state)
  BY <1>1 DEF Legal, Bracketed
<1>3. /\ Top.base \in Nat /\ Top.base > 0 /\ Top.base >= 1 /\ output \in Document
      /\ Len(output) = Reach(Top) /\ Reach(Top) = Top.base + Opens(Top)
      /\ FitsStruct(Top, Innermost(output))
      /\ Top \in Compound /\ Shaped(Top) /\ Owned(Top, output)
  BY <1>1, StructTop
<1>4. /\ c \in Compound /\ c.mode = "Struct" /\ c.base = Top.base /\ c.turn = "value"
      /\ c.state = "Value" /\ Shaped(c) /\ ~Flags(c)
      /\ HasAttributes(c) <=> Top.attributed \/ Top.state = "Attrs"
  BY <1>0, <1>1, <1>3, FieldedType DEF NextState
<1> HIDE DEF c
<1>5. Opens(c) = 0 /\ Reach(c) = Top.base
  BY <1>3, <1>4 DEF Opens, Reach
<1>6. Owned(c, output')
  BY <1>5 DEF Owned
<1>7. CASE Top.state = "Start"
  <2>1. Opens(Top) = 0 /\ output' = output
    BY <1>1, <1>2, <1>7 DEF Bodied, Opens
  <2>2. Len(output) = Top.base
    BY <1>3, <2>1
  <2>3. Fits(c, Innermost(output))
    BY <1>3, <1>4, <1>7 DEF Fits, FitsStruct
  <2>4. Agree(output, output', Top.base)
    BY <2>1 DEF Agree
  <2> QED
    BY <1>1, <1>3, <1>4, <1>5, <1>6, <2>1, <2>2, <2>3, <2>4, GoesOn
<1>8. CASE Top.state = "Attrs"
  <2>1. Wanting(output, output', Top.base, "node")
    BY <1>1, <1>2, <1>3, <1>8, FeedBodied DEF Bodied
  <2>2. /\ output' \in Document /\ Len(output') = Top.base /\ Agree(output, output', Top.base)
        /\ Innermost(output').want = "node"
    BY <1>3, <2>1 DEF Wanting, Innermost, Agree
  <2>3. Fits(c, Innermost(output'))
    BY <1>4, <1>8, <2>2 DEF Fits, FitsStruct
  <2> QED
    BY <1>1, <1>4, <1>5, <1>6, <2>2, <2>3, GoesOn
<1> QED
  BY <1>2, <1>7, <1>8

-----------------------------------------------------------------------------
(***************************************************************************)
(* Compounds that end.                                                     *)
(***************************************************************************)
\* One bracket is closed, and the compound with it.
LEMMA FeedEnd ==
    ASSUME NEW d \in Document, NEW n \in Nat, n >= 1, Len(d) = n + 1, NEW t \in Closing,
           Closable(Innermost(d)), Innermost(d).kind = Bracket(t)
    PROVE  Wanting(d, Feed(d, t), n, IF t = "EndAttributes" THEN "node" ELSE "more")
<1>1. Len(d) - 1 = n /\ Len(d) > 1
  OBVIOUS
<1> QED
  BY <1>1, FeedClosing

\* The two brackets of a variant are closed.
LEMMA FeedEnds ==
    ASSUME NEW d \in Document, NEW n \in Nat, n >= 1, Len(d) = n + 2,
           NEW t \in {"EndList", "EndMap"},
           Closable(Innermost(d)), Innermost(d).kind = Bracket(t), d[n + 1].kind = "map"
    PROVE  Wanting(d, Feed(Feed(d, t), "EndMap"), n, "more")
<1> DEFINE e == Feed(d, t)
<1>1. n + 1 \in Nat /\ n + 1 >= 1 /\ Len(d) = (n + 1) + 1 /\ t \in Closing /\ t # "EndAttributes"
  BY DEF Closing
<1>2. Wanting(d, e, n + 1, "more")
  BY <1>1, FeedEnd
<1> HIDE DEF e
<1>3. /\ e \in Document /\ Len(e) = n + 1
      /\ Innermost(e) = [kind |-> "map", want |-> "more"]
  BY <1>2 DEF Wanting, Innermost
<1>4. Closable(Innermost(e)) /\ Innermost(e).kind = Bracket("EndMap") /\ "EndMap" \in Closing
  BY <1>3 DEF Closable, Bracket, Closing
<1>5. Wanting(e, Feed(e, "EndMap"), n, "more")
  BY <1>3, <1>4, FeedEnd
<1>6. n <= n + 1
  OBVIOUS
<1> QED
  BY <1>1, <1>2, <1>5, <1>6, WantingTwice DEF e

\* The state in which a compound may end.
LEMMA Ending ==
    ASSUME TypeOK, Writing, stack # <<>>, Top.turn = "idle"
    PROVE  /\ Top \in Compound /\ Top.mode \in Modes /\ Shaped(Top) /\ Owned(Top, output)
           /\ Top.base \in Nat /\ Top.base >= 1
           /\ Len(output) = Top.base + Opens(Top)
           /\ Reach(Top) = Top.base + Opens(Top)
           /\ Innermost(output) = output[Reach(Top)]
           /\ Fits(Top, Innermost(output))
           /\ output \in Document
           /\ Opens(Top) > 0 => Innermost(output).kind = Own(Top)
           /\ Opens(Top) = 2 => output[Top.base + 1].kind = "map"
<1>1. stack \in Seq(Compound)
  BY DEF TypeOK
<1>2. /\ Top \in Compound /\ Shaped(Top) /\ Owned(Top, output)
      /\ Top.base \in Nat /\ Top.base >= 1
      /\ Len(output) = Reach(Top) /\ Reach(Top) = Top.base + Opens(Top)
      /\ Innermost(output) = output[Reach(Top)]
      /\ Fits(Top, Innermost(output))
  BY <1>1, TopType
<1>3. output \in Document
  BY DEF TypeOK
<1>4. /\ Opens(Top) > 0 => Innermost(output).kind = Own(Top)
      /\ Opens(Top) = 2 => output[Top.base + 1].kind = "map"
  BY <1>2 DEF Owned
<1>5. Top.mode \in Modes
  BY <1>2 DEF Compound
<1> QED
  BY <1>2, <1>3, <1>4, <1>5

LEMMA NewtypeVariantEndStep ==
    ASSUME OrderlyCallers, TypeOK, Writing, NewtypeVariantEnd
    PROVE  IInv'
<1>1. /\ stack # <<>> /\ Top.mode = "NewtypeVariant" /\ Top.turn = "idle"
      /\ Complete(Below) /\ output' = Feed(output, "EndMap")
      /\ is_writing_attributes' = is_writing_attributes
  BY DEF NewtypeVariantEnd
<1>2. Opens(Top) = 1 /\ Own(Top) = "map"
  BY <1>1 DEF Opens, Own
<1>3. Innermost(output).want = "more"
  BY <1>1, Ending DEF Fits, FitsVariant
<1>4. /\ "EndMap" \in Closing /\ "EndMap" # "EndAttributes" /\ Closable(Innermost(output))
      /\ Innermost(output).kind = Bracket("EndMap")
  BY <1>1, <1>2, <1>3, Ending DEF Closing, Closable, Bracket
<1>5. Wanting(output, output', Top.base, "more")
  BY <1>1, <1>2, <1>4, Ending, FeedEnd
<1> QED
  BY <1>1, <1>5, Ends

LEMMA SeqEndStep ==
    ASSUME OrderlyCallers, TypeOK, Writing, SeqEnd
    PROVE  IInv'
<1>1. /\ stack # <<>> /\ Top.trait = "seq" /\ Top.turn = "idle"
      /\ Complete(Below)
      /\ output' = IF Top.mode = "VariantSeq" THEN Feed(Feed(output, "EndList"), "EndMap")
                                              ELSE Feed(output, "EndList")
      /\ is_writing_attributes' = is_writing_attributes
  BY DEF SeqEnd, Driving
<1>2. Top.mode \in {"Seq", "VariantSeq"}
  BY <1>1, Ending DEF Shaped, Modes
<1>3. Opens(Top) = (IF Top.mode = "Seq" THEN 1 ELSE 2) /\ Own(Top) = "list"
  BY <1>2 DEF Opens, Own
<1>4. Innermost(output).want \in {"first", "more"}
  BY <1>1, <1>2, Ending DEF Fits, FitsList, Between
<1>5. /\ "EndList" \in Closing /\ Closable(Innermost(output))
      /\ Innermost(output).kind = Bracket("EndList")
  BY <1>1, <1>3, <1>4, Ending DEF Closing, Closable, Bracket
<1>6. Wanting(output, output', Top.base, "more")
  <2>1. CASE Top.mode = "Seq"
    BY <1>1, <1>3, <1>5, <2>1, Ending, FeedEnd
  <2>2. CASE Top.mode = "VariantSeq"
    BY <1>1, <1>3, <1>5, <2>2, Ending, FeedEnds
  <2> QED
    BY <1>2, <2>1, <2>2
<1> QED
  BY <1>1, <1>2, <1>6, Ends

\* What a map, attributes and a struct variant have in common at their end.
LEMMA MapEnding ==
    ASSUME TypeOK, Writing, stack # <<>>, Top.turn = "idle",
           Top.mode \in {"Map", "Attr", "VariantMap"}
    PROVE  /\ Opens(Top) = IF Top.mode = "VariantMap" THEN 2 ELSE 1
           /\ Closable(Innermost(output))
           /\ Innermost(output).kind = IF Top.mode = "Attr" THEN "attributes" ELSE "map"
<1>1. /\ Opens(Top) = IF Top.mode = "VariantMap" THEN 2 ELSE 1
      /\ Own(Top) = IF Top.mode = "Attr" THEN "attributes" ELSE "map"
  BY DEF Opens, Own
<1>2. FitsMap(Top, Innermost(output))
  BY Ending DEF Fits
<1>3. Innermost(output).want \in {"first", "more"}
  BY <1>2 DEF FitsMap, Between
<1> QED
  BY <1>1, <1>3, Ending DEF Closable

LEMMA MapEndStep ==
    ASSUME OrderlyCallers, TypeOK, Writing, MapEnd
    PROVE  IInv'
<1> DEFINE t == IF Top.mode = "Attr" THEN "EndAttributes" ELSE "EndMap"
<1>1. /\ stack # <<>> /\ Top.trait = "map" /\ Top.turn = "idle"
      /\ Complete(Below) /\ output' = Feed(output, t)
      /\ is_writing_attributes' = is_writing_attributes
  BY DEF MapEnd, Driving
<1>2. Top.mode \in {"Map", "Attr"}
  BY <1>1, Ending DEF Shaped, Modes
<1>3. /\ Opens(Top) = 1 /\ Closable(Innermost(output))
      /\ Innermost(output).kind = IF Top.mode = "Attr" THEN "attributes" ELSE "map"
  BY <1>1, <1>2, MapEnding
<1>4. /\ t \in Closing /\ Innermost(output).kind = Bracket(t)
      /\ t = "EndAttributes" <=> Top.mode = "Attr"
  BY <1>3 DEF Closing, Bracket
<1> HIDE DEF t
<1>5. Wanting(output, output', Top.base, IF Top.mode = "Attr" THEN "node" ELSE "more")
  BY <1>1, <1>3, <1>4, Ending, FeedEnd
<1> QED
  BY <1>1, <1>5, Ends

\* The end of a struct leaves one value where it was begun.
LEMMA FeedClosed ==
    ASSUME TypeOK, Writing, stack # <<>>, Top.turn = "idle", Top.mode = "Struct"
    PROVE  Wanting(output, Closed(output, Top.state), Top.base, "more")
<1>1. /\ Top \in Compound /\ Owned(Top, output)
      /\ Top.base \in Nat /\ Top.base >= 1 /\ output \in Document /\ Len(output) > 0
      /\ Len(output) = Reach(Top) /\ Reach(Top) = Top.base + Opens(Top)
      /\ FitsStruct(Top, Innermost(output)) /\ Top.state \in StructStates
  BY StructTop
<1>2. CASE Top.state = "Start"
  <2>1. Opens(Top) = 0
    BY <1>2 DEF Opens
  <2>2. TakesNode(Innermost(output)) /\ Len(output) = Top.base
    BY <1>1, <1>2, <2>1 DEF FitsStruct, TakesAttributes, TakesNode
  <2>3. Closed(output, Top.state) = Feed(Feed(output, "BeginMap"), "EndMap")
    BY <1>2 DEF Closed
  <2> QED
    BY <1>1, <2>2, <2>3, FeedPair
<1>3. CASE Top.state = "Attrs"
  <2> DEFINE e == Feed(output, "EndAttributes")
  <2>1. Wanting(output, e, Top.base, "node")
    BY <1>1, <1>3, FeedBodied
  <2>2. Closed(output, Top.state) = Feed(e, "entity")
    BY <1>3 DEF Closed
  <2> HIDE DEF e
  <2>3. e \in Document /\ Len(e) = Top.base /\ Len(e) > 0 /\ Innermost(e).want = "node"
    BY <1>1, <2>1 DEF Wanting, Innermost
  <2>4. Wanting(e, Feed(e, "entity"), Top.base, "more")
    BY <2>3, FeedAtom DEF TakesNode, Atoms
  <2> QED
    BY <1>1, <2>1, <2>2, <2>4, WantingTwice
<1>4. CASE Top.state = "Body"
  <2>1. Opens(Top) = 1 /\ Own(Top) = "map"
    BY <1>4 DEF Opens, Own
  <2>2. Innermost(output).want = "more" /\ Innermost(output).kind = "map"
    BY <1>1, <1>4, <2>1, Ending DEF FitsStruct
  <2>3. /\ "EndMap" \in Closing /\ "EndMap" # "EndAttributes"
        /\ Closable(Innermost(output)) /\ Innermost(output).kind = Bracket("EndMap")
    BY <2>2 DEF Closing, Closable, Bracket
  <2>4. Closed(output, Top.state) = Feed(output, "EndMap")
    BY <1>4 DEF Closed
  <2> QED
    BY <1>1, <2>1, <2>3, <2>4, FeedEnd
<1>5. CASE Top.state = "Value"
  <2>1. Opens(Top) = 0 /\ Innermost(output).want = "more" /\ Closed(output, Top.state) = output
    BY <1>1, <1>5 DEF Opens, FitsStruct, Closed
  <2>2. Len(output) = Top.base
    BY <1>1, <2>1
  <2> QED
    BY <1>1, <2>1, <2>2, WantingSame
<1> QED
  BY <1>1, <1>2, <1>3, <1>4, <1>5 DEF StructStates

LEMMA StructEndStep ==
    ASSUME OrderlyCallers, TypeOK, Writing, StructEnd
    PROVE  IInv'
<1>1. /\ stack # <<>> /\ Top.trait = "struct" /\ Top.turn = "idle"
      /\ Top.mode = "AttrWrapper" => Len(Top.fields) = 2
      /\ Complete(Below)
      /\ output' = CASE Top.mode = "Struct" -> Closed(output, Top.state)
                     [] Top.mode = "Attr" -> Feed(output, "EndAttributes")
                     [] Top.mode = "VariantMap" -> Feed(Feed(output, "EndMap"), "EndMap")
                     [] Top.mode = "AttrWrapper" -> output
      /\ is_writing_attributes' = is_writing_attributes
  BY DEF StructEnd, Driving
<1>2. Top.mode \in {"Struct", "Attr", "VariantMap", "AttrWrapper"}
  BY <1>1, Ending DEF Shaped, Modes
<1>3. CASE Top.mode = "Struct"
  <2>1. output' = Closed(output, Top.state)
    BY <1>1, <1>3
  <2>2. Wanting(output, output', Top.base, "more")
    BY <1>1, <1>3, <2>1, FeedClosed
  <2> QED
    BY <1>1, <1>3, <2>2, Ends
<1>4. CASE Top.mode = "Attr"
  <2>1. output' = Feed(output, "EndAttributes")
    BY <1>1, <1>4
  <2>2. /\ Opens(Top) = 1 /\ Closable(Innermost(output)) /\ "EndAttributes" \in Closing
        /\ Innermost(output).kind = Bracket("EndAttributes")
    BY <1>1, <1>4, MapEnding DEF Bracket, Closing
  <2>3. Wanting(output, output', Top.base, "node")
    BY <1>1, <2>1, <2>2, Ending, FeedEnd
  <2> QED
    BY <1>1, <1>4, <2>3, Ends
<1>5. CASE Top.mode = "VariantMap"
  <2>1. output' = Feed(Feed(output, "EndMap"), "EndMap")
    BY <1>1, <1>5
  <2>2. /\ Opens(Top) = 2 /\ Closable(Innermost(output))
        /\ Innermost(output).kind = Bracket("EndMap")
    BY <1>1, <1>5, MapEnding DEF Bracket
  <2>3. Wanting(output, output', Top.base, "more")
    BY <1>1, <2>1, <2>2, Ending, FeedEnds
  <2> QED
    BY <1>1, <1>5, <2>3, Ends
<1>6. CASE Top.mode = "AttrWrapper"
  <2>1. output' = output /\ Opens(Top) = 0
    BY <1>1, <1>6 DEF Opens
  <2>2. Top.fields # <<>> /\ Top.fields # <<"attribute">>
    <3>1. Len(Top.fields) = 2
      BY <1>1, <1>6
    <3>2. Len(<<>>) = 0 /\ Len(<<"attribute">>) = 1
      OBVIOUS
    <3> QED
      BY <3>1, <3>2
  <2>3. Fits(Top, Innermost(output)) <=> FitsWrapper(Top, Innermost(output))
    BY <1>6 DEF Fits
  <2>4. Innermost(output).want = "more"
    BY <1>1, <2>2, <2>3, Ending DEF FitsWrapper
  <2>5. output \in Document /\ Len(output) = Top.base /\ Len(output) > 0
    BY <1>1, <2>1, Ending
  <2>6. Wanting(output, output', Top.base, "more")
    BY <2>1, <2>4, <2>5, WantingSame
  <2> QED
    BY <1>1, <1>6, <2>6, Ends
<1> QED
  BY <1>2, <1>3, <1>4, <1>5, <1>6

-----------------------------------------------------------------------------
(***************************************************************************)
(* A field that is refused, and how a caller goes on.                      *)
(***************************************************************************)
LEMMA RefuseStep ==
    ASSUME TypeOK, Writing, NEW kind \in FieldKinds, RefuseField(kind)
    PROVE  IInv'
<1> DEFINE c == [Top EXCEPT !.fields = Append(@, kind)]
           n == Len(stack)
<1>1. /\ stack # <<>> /\ Top.turn = "idle" /\ Top.mode = "Struct"
      /\ ~Legal(Top.state, kind) /\ status' = "refused"
      /\ output' = output /\ is_writing_attributes' = is_writing_attributes
  BY DEF RefuseField, Driving
<1>2. /\ stack \in Seq(Compound) /\ n <= MaxNesting /\ n \in Nat /\ n \in 1..n
      /\ \A i \in 1..n : stack[i] \in Compound
      /\ output # Rejected
  <2>1. stack \in Seq(Compound) /\ n <= MaxNesting
    BY DEF TypeOK
  <2>2. n \in Nat /\ n \in 1..n
    BY <1>1, <2>1, TopType
  <2>3. \A i \in 1..n : stack[i] \in Compound
    BY <2>1, ElementOfSeq
  <2>4. output # Rejected
    BY <2>1, OutputType, InnermostType
  <2> QED
    BY <2>1, <2>2, <2>3, <2>4
<1>3. Top \in Compound /\ Shaped(Top) /\ is_writing_attributes = FALSE
  BY <1>1, StructTop
<1>4. /\ c \in Compound /\ c.mode = "Struct" /\ c.state = Top.state
      /\ c.fields = Append(Top.fields, kind)
  <2>1. Append(Top.fields, kind) \in Seq(FieldKinds)
    BY <1>3, FieldAppended
  <2> QED
    BY <1>1, <1>3, <2>1 DEF Compound
<1>5. stack' = [stack EXCEPT ![n] = c]
  BY <1>2 DEF RefuseField, Top
<1>6. /\ c.fields # <<>> /\ c.state # "Start" /\ ~InOrder(c.fields)
  <2>1. FieldsFit(Top)
    BY <1>1, <1>3 DEF Shaped
  <2>2. Append(Top.fields, kind) # <<>>
    BY <1>3, FieldAppended
  <2> QED
    BY <1>1, <1>3, <1>4, <2>1, <2>2, IllegalOutOfOrder
<1> HIDE DEF c
<1>7. /\ stack' \in Seq(Compound) /\ Len(stack') = n /\ stack' # <<>>
      /\ stack'[n] = c
      /\ \A i \in 1..(n - 1) : stack'[i] = stack[i]
  <2>1. /\ stack' \in Seq(Compound) /\ Len(stack') = n
        /\ \A i \in 1..n : stack'[i] = IF i = n THEN c ELSE stack[i]
    BY <1>2, <1>4, <1>5, ExceptSeq
  <2>2. stack' # <<>>
    BY <1>2, <2>1, EmptySeq
  <2> QED
    BY <1>2, <2>1, <2>2
<1>8. ASSUME NEW i \in 1..n
      PROVE  /\ i < n => stack'[i].turn \in {"key", "value"}
             /\ stack'[i].mode = "Struct" =>
                   /\ stack'[i].state = "Start" <=> stack'[i].fields = <<>>
                   /\ InOrder(stack'[i].fields) <=> i # n
  <2>1. CASE i = n
    <3>1. stack'[i] = c /\ ~(i < n) /\ c.fields # <<>> /\ c.state # "Start" /\ ~InOrder(c.fields)
      BY <1>2, <1>6, <1>7, <2>1
    <3> QED
      BY <2>1, <3>1, Zenon
  <2>2. CASE i # n
    <3>1. i \in 1..(n - 1) /\ stack'[i] = stack[i] /\ stack[i] \in Compound
      BY <1>2, <1>7, <2>2
    <3>2. Shaped(stack[i])
      BY DEF Writing, Settled, Calling
    <3>3. stack[i].mode = "Struct" => InOrder(stack[i].fields)
      BY <3>1, <3>2, FitInOrder DEF Shaped
    <3>4. /\ i < n => stack[i].turn \in {"key", "value"}
          /\ stack[i].mode = "Struct" => (stack[i].state = "Start" <=> stack[i].fields = <<>>)
      BY <1>2, CallingType DEF Writing, Settled
    <3> QED
      BY <2>2, <3>1, <3>3, <3>4
  <2> QED
    BY <2>1, <2>2
<1>9. TypeOK'
  BY <1>1, <1>2, <1>7, <1>8 DEF TypeOK
<1>10. RefusedOutOfOrder'
  BY <1>1, <1>7, <1>8 DEF RefusedOutOfOrder
<1>11. Refused'
  BY <1>1, <1>2, <1>3, <1>7, <1>10 DEF Refused
<1> QED
  BY <1>1, <1>9, <1>11 DEF IInv

\* An output with nothing written is one to write a value to.
LEMMA FreshSettled == Settled(<<>>, NewFragment, "open", FALSE)
<1>1. NewFragment \in Document /\ Len(NewFragment) = 1
  BY DEF NewFragment, Document, Level, Kinds, Wants
<1>2. NewFragment[1] = [kind |-> "fragment", want |-> "value"]
  BY DEF NewFragment
<1>3. Len(<<>>) = 0
  BY EmptySeq
<1>4. Bracketing(<<>>, NewFragment)
  BY <1>1, <1>2, <1>3 DEF Bracketing
<1>5. Calling(<<>>)
  BY <1>3 DEF Calling
<1>6. Innermosts(<<>>, NewFragment, "open") /\ Flagged(<<>>, FALSE)
  BY <1>2 DEF Innermosts, Flagged
<1> QED
  BY <1>4, <1>5, <1>6 DEF Settled

LEMMA AbandonStep ==
    ASSUME Abandon
    PROVE  IInv'
<1>1. <<>> \in Seq(Compound) /\ Len(<<>>) = 0
  BY EmptySeq
<1>2. MaxNesting \in Nat
  BY CallerAssumption
<1>3. /\ output' = NewFragment /\ is_writing_attributes' = FALSE /\ stack' = <<>>
      /\ status' = "open"
  BY DEF Abandon
<1>4. Settled(stack', output', status', is_writing_attributes')
  BY <1>3, FreshSettled
<1>5. stack' \in Seq(Compound) /\ Len(stack') <= MaxNesting
  BY <1>1, <1>2, <1>3
<1> QED
  BY <1>3, <1>4, <1>5, Keeps

LEMMA SeparateStep ==
    ASSUME TypeOK, Writing, Separate
    PROVE  IInv'
<1>1. /\ status = "done" /\ output' = Feed(output, "ItemSeparator") /\ status' = "open"
      /\ is_writing_attributes' = is_writing_attributes /\ stack' = stack
      /\ stack \in Seq(Compound) /\ Len(stack) <= MaxNesting /\ is_writing_attributes \in BOOLEAN
  BY DEF Separate, TypeOK
<1>2. /\ Bracketing(stack, output) /\ Calling(stack) /\ Innermosts(stack, output, status)
      /\ Flagged(stack, is_writing_attributes)
  BY DEF Writing, Settled
<1>3. stack = <<>> /\ output[1].want = "more" /\ is_writing_attributes = FALSE
  BY <1>1, <1>2 DEF Innermosts, Flagged
<1>4. /\ output \in Document /\ Len(output) = 1 /\ Len(output) > 0
      /\ Innermost(output) = output[1] /\ output[1].kind = "fragment"
  BY <1>1, <1>2, <1>3, OutputType DEF Bracketing
<1>5. Wanting(output, output', Len(output), "value")
  BY <1>1, <1>3, <1>4, FeedSeparator DEF Paired
<1>6. Bracketing(stack, output')
  BY <1>1, <1>2, <1>5, SameLevels
<1>7. output'[1].want = "value"
  BY <1>4, <1>5 DEF Wanting
<1>8. Innermosts(stack, output', status') /\ Flagged(stack, is_writing_attributes')
  BY <1>1, <1>3, <1>7 DEF Innermosts, Flagged
<1> QED
  BY <1>1, <1>2, <1>6, <1>8, Keeps DEF Settled

-----------------------------------------------------------------------------
LEMMA InitIInv == Init => IInv
<1> SUFFICES ASSUME Init PROVE IInv
  OBVIOUS
<1>1. <<>> \in Seq(Compound) /\ Len(<<>>) = 0 /\ MaxNesting \in Nat
  BY EmptySeq, CallerAssumption
<1>2. Writing
  BY FreshSettled DEF Init, Writing
<1>3. output \in Document
  BY <1>2 DEF Writing, Settled, Bracketing
<1>4. TypeOK
  <2>1. stack = <<>> /\ is_writing_attributes = FALSE /\ status = "open"
    BY DEF Init
  <2>2. stack \in Seq(Compound) /\ Len(stack) <= MaxNesting /\ 1..Len(stack) = {}
    BY <1>1, <2>1
  <2> QED
    BY <1>3, <2>1, <2>2 DEF TypeOK
<1> QED
  BY <1>2, <1>4 DEF Init, IInv

\* Once a field was refused, nothing is written until the output is abandoned.
LEMMA RefusedOnly ==
    ASSUME TypeOK, status = "refused", Next
    PROVE  Abandon
BY DEF Next, SerializeAtom, SerializeSeq, SerializeTupleVariant, SerializeStructVariant,
       SerializeNewtypeVariant, NewtypeVariantEnd, SerializeElement, SeqEnd, SerializeMap,
       SerializeKey, SerializeValue, MapEnd, SerializeWrapper, SerializeStruct, WrapperField,
       NamedField, StructField, RefuseField, StructEnd, Separate, Asked, Wanted, Driving

LEMMA NextIInv ==
    ASSUME OrderlyCallers, IInv, [Next]_vars
    PROVE  IInv'
<1>1. CASE UNCHANGED vars
  <2>1. TypeOK' = TypeOK /\ Writing' = Writing /\ Refused' = Refused /\ status' = status
    BY <1>1 DEF vars, TypeOK, Writing, Refused, RefusedOutOfOrder
  <2> QED
    BY <2>1 DEF IInv
<1>2. CASE Next /\ status = "refused"
  BY <1>2, RefusedOnly, AbandonStep DEF IInv
<1>3. CASE Next /\ status # "refused"
  <2>1. TypeOK /\ Writing
    BY <1>3 DEF IInv
  <2>2. CASE SerializeAtom
    BY <2>1, <2>2, AtomStep
  <2>3. CASE SerializeSeq
    BY <2>1, <2>3, SeqStep
  <2>4. CASE SerializeTupleVariant \/ SerializeStructVariant
    BY <2>1, <2>4, VariantSteps
  <2>5. CASE SerializeNewtypeVariant
    BY <2>1, <2>5, NewtypeVariantStep
  <2>6. CASE NewtypeVariantEnd
    BY <2>1, <2>6, NewtypeVariantEndStep
  <2>7. CASE SerializeElement
    BY <2>1, <2>7, ElementStep
  <2>8. CASE SeqEnd
    BY <2>1, <2>8, SeqEndStep
  <2>9. CASE SerializeMap
    BY <2>1, <2>9, MapStep
  <2>10. CASE SerializeKey
    BY <2>1, <2>10, KeyStep
  <2>11. CASE SerializeValue
    BY <2>1, <2>11, ValueStep
  <2>12. CASE MapEnd
    BY <2>1, <2>12, MapEndStep
  <2>13. CASE SerializeWrapper
    BY <2>1, <2>13, WrapperStep
  <2>14. CASE SerializeStruct
    BY <2>1, <2>14, StructStep
  <2>15. CASE WrapperField
    BY <2>1, <2>15, WrapperFieldStep
  <2>16. CASE NamedField
    BY <2>1, <2>16, NamedFieldStep
  <2>17. ASSUME NEW kind \in FieldKinds, StructField(kind)
         PROVE  IInv'
    BY <2>1, <2>17, AttributeFieldStep, PlainFieldStep, ValueFieldStep DEF FieldKinds
  <2>18. ASSUME NEW kind \in FieldKinds, RefuseField(kind)
         PROVE  IInv'
    BY <2>1, <2>18, RefuseStep
  <2>19. CASE StructEnd
    BY <2>1, <2>19, StructEndStep
  <2>20. CASE Separate
    BY <2>1, <2>20, SeparateStep
  <2>21. CASE Abandon
    BY <2>21, AbandonStep
  <2> QED
    BY <1>3, <2>2, <2>3, <2>4, <2>5, <2>6, <2>7, <2>8, <2>9, <2>10, <2>11, <2>12, <2>13,
       <2>14, <2>15, <2>16, <2>17, <2>18, <2>19, <2>20, <2>21 DEF Next
<1> QED
  BY <1>1, <1>2, <1>3

\* The inductive invariant, under callers as the crate means them to be.
THEOREM Inductive ==
    ASSUME OrderlyCallers
    PROVE  Spec => []IInv
<1>1. Init => IInv
  BY InitIInv
<1>2. IInv /\ [Next]_vars => IInv'
  BY NextIInv
<1> QED
  BY <1>1, <1>2, PTL DEF Spec

-----------------------------------------------------------------------------
LEMMA ValidFollows ==
    ASSUME IInv
    PROVE  OutputIsValid
<1>1. CASE status = "refused"
  BY <1>1 DEF IInv, Refused, OutputIsValid
<1>2. CASE status # "refused"
  <2>1. stack \in Seq(Compound) /\ Writing
    BY <1>2 DEF IInv, TypeOK
  <2>2. output \in Document /\ Len(output) > 0 /\ output # Rejected
    BY <2>1, OutputType, InnermostType
  <2>3. ASSUME status = "done" PROVE output = Whole
    <3>1. stack = <<>> /\ output[1].want = "more" /\ output[1].kind = "fragment"
      BY <2>1, <2>3 DEF Writing, Settled, Innermosts, Bracketing
    <3>2. Len(output) = 1
      BY <2>1, <3>1, OutputType
    <3>3. output[1] = [kind |-> "fragment", want |-> "more"]
      <4>1. 1 \in 1..Len(output)
        BY <3>2
      <4> QED
        BY <2>2, <3>1, <4>1, LevelType
    <3>4. Whole \in Seq(Level) /\ Len(Whole) = 1 /\ Whole[1] = [kind |-> "fragment", want |-> "more"]
      BY DEF Whole, Level, Kinds, Wants
    <3>5. output \in Seq(Level)
      BY <2>2 DEF Document
    <3>6. \A i \in 1..Len(output) : output[i] = Whole[i]
      BY <3>2, <3>3, <3>4
    <3> QED
      BY <3>2, <3>4, <3>5, <3>6, SeqEqual
  <2> QED
    BY <2>2, <2>3 DEF OutputIsValid
<1> QED
  BY <1>1, <1>2

LEMMA FlagFollows ==
    ASSUME IInv
    PROVE  FlagIsForAttributes
<1>1. CASE status = "refused"
  BY <1>1 DEF IInv, Refused, FlagIsForAttributes
<1>2. CASE status # "refused"
  <2>1. Flagged(stack, is_writing_attributes)
    BY <1>2 DEF IInv, Writing, Settled
  <2> QED
    BY <2>1 DEF Flagged, FlagIsForAttributes, AsksAttributes, Last, Top
<1> QED
  BY <1>1, <1>2

LEMMA LandFollows ==
    ASSUME IInv
    PROVE  ValuesLand
<1> SUFFICES ASSUME Wanted, stack # <<>>
             PROVE  LET l == Innermost(output)
                        inside == IF Top.mode = "Attr" \/ (Top.mode = "Struct" /\ Top.state = "Attrs")
                                  THEN "attributes" ELSE "map"
                    IN  CASE Slot = "attributes" -> TakesAttributes(l)
                          [] Slot = "attributed" -> l.want = "node"
                          [] Slot = "plain" /\ (Top.trait = "seq" \/ Top.state = "Value") ->
                                TakesAttributes(l)
                          [] Slot = "key" -> l.kind = inside /\ TakesKey(l)
                          [] OTHER -> l = [kind |-> inside, want |-> "value"]
  BY DEF ValuesLand
<1> DEFINE l == Innermost(output)
           inside == IF Top.mode = "Attr" \/ (Top.mode = "Struct" /\ Top.state = "Attrs")
                     THEN "attributes" ELSE "map"
<1>1. Writing /\ stack \in Seq(Compound)
  BY DEF IInv, TypeOK, Wanted
<1>2. Top.turn \in {"key", "value"}
  BY DEF Wanted
<1>3. /\ Slot \in Slots
      /\ Slot = "key" => TakesKey(l)
      /\ Slot \in {"attributes", "plain"} => TakesAttributes(l)
      /\ Slot = "attributed" => l.want = "node"
  BY <1>1, SlotFits
<1>4. /\ Slot = "key" <=> Top.turn = "key"
      /\ Slot = "attributes" <=> Flags(Top)
      /\ Slot = "attributed" <=>
            \/ Top.mode = "AttrWrapper" /\ Top.fields # <<"attribute">>
            \/ Top.mode = "Struct" /\ Top.state = "Value" /\ HasAttributes(Top)
  BY <1>1, <1>2, SlotOfTop
<1>5. /\ Top \in Compound /\ Shaped(Top) /\ Owned(Top, output)
      /\ l = output[Reach(Top)] /\ Fits(Top, l)
  BY <1>1, TopType
<1>6. Top.mode \in Modes /\ Top.state \in StructStates /\ l \in Level
  <2>1. output \in Document /\ Len(output) > 0
    BY <1>1, OutputType
  <2> QED
    BY <1>5, <2>1, InnermostType DEF Compound
<1> HIDE DEF l
<1>7. ASSUME Slot = "key" PROVE l.kind = inside
  <2>1. Top.mode \in {"Map", "Attr"}
    BY <1>4, <1>5, <1>6, <1>7 DEF Shaped, Modes
  <2>2. Opens(Top) > 0 /\ Own(Top) = inside
    BY <2>1 DEF Opens, Own
  <2> QED
    BY <1>5, <2>2 DEF Owned
<1>8. ASSUME Slot = "plain", Top.trait # "seq", Top.state # "Value"
      PROVE  l = [kind |-> inside, want |-> "value"]
  <2>1. Top.turn = "value" /\ Top.mode # "AttrWrapper"
    BY <1>2, <1>4, <1>8 DEF Flags, AsksAttributes
  <2>2. Top.mode \in {"Map", "Attr", "VariantMap", "NewtypeVariant", "Struct"}
    BY <1>5, <1>6, <1>8, <2>1 DEF Shaped, Modes
  <2>3. Top.mode = "Struct" => Top.state \in {"Attrs", "Body"}
    BY <1>5, <1>6, <1>8, <2>1 DEF Shaped, StructStates
  <2>4. Opens(Top) > 0 /\ Own(Top) = inside
    BY <2>2, <2>3 DEF Opens, Own
  <2>5. l.want = "value"
    <3>1. CASE Top.mode \in {"Map", "Attr", "VariantMap"}
      <4>1. FitsMap(Top, l)
        BY <1>5, <3>1 DEF Fits
      <4> QED
        BY <2>1, <4>1 DEF FitsMap
    <3>2. CASE Top.mode = "NewtypeVariant"
      BY <1>5, <2>1, <3>2 DEF Fits, FitsVariant
    <3>3. CASE Top.mode = "Struct"
      <4>1. FitsStruct(Top, l)
        BY <1>5, <3>3 DEF Fits
      <4> QED
        BY <2>1, <2>3, <3>3, <4>1 DEF FitsStruct
    <3> QED
      BY <2>2, <3>1, <3>2, <3>3
  <2>6. l.kind = inside
    BY <1>5, <2>4 DEF Owned
  <2> QED
    BY <1>6, <2>5, <2>6 DEF Level
<1> HIDE DEF inside
<1> QED
  <2>1. CASE Slot = "attributes"
    BY <1>3, <2>1 DEF l
  <2>2. CASE Slot = "attributed"
    BY <1>3, <2>2 DEF l
  <2>3. CASE Slot = "key"
    BY <1>3, <1>7, <2>3 DEF l, inside
  <2>4. CASE Slot = "plain" /\ (Top.trait = "seq" \/ Top.state = "Value")
    BY <1>3, <2>4 DEF l
  <2>5. CASE Slot = "plain" /\ ~(Top.trait = "seq" \/ Top.state = "Value")
    BY <1>8, <2>5 DEF l, inside
  <2> QED
    BY <1>3, <2>1, <2>2, <2>3, <2>4, <2>5 DEF Slots

LEMMA OrderFollows ==
    ASSUME IInv
    PROVE  RefusedOutOfOrder
<1>1. CASE status = "refused"
  BY <1>1 DEF IInv, Refused
<1>2. CASE status # "refused"
  <2>1. stack \in Seq(Compound) /\ Calling(stack)
    BY <1>2 DEF IInv, TypeOK, Writing, Settled
  <2>2. ASSUME NEW i \in 1..Len(stack), stack[i].mode = "Struct" PROVE InOrder(stack[i].fields)
    <3>1. stack[i] \in Compound
      BY <2>1, ElementOfSeq
    <3>2. FieldsFit(stack[i])
      BY <2>1, <2>2 DEF Calling, Shaped
    <3> QED
      BY <3>1, <3>2, FitInOrder
  <2> QED
    BY <1>2, <2>2 DEF RefusedOutOfOrder
<1> QED
  BY <1>1, <1>2

\* The stack is of compounds that are each in the middle of a call but for the
\* last, and the output a document.
THEOREM TypeCorrect ==
    ASSUME OrderlyCallers
    PROVE  Spec => []TypeOK
<1>1. IInv => TypeOK
  BY DEF IInv
<1> QED
  BY <1>1, Inductive, PTL

\* Whatever orderly callers do, and in whatever order the fields of their structs
\* come, no token is out of place and a value is written as a whole.
THEOREM OutputAlwaysValid ==
    ASSUME OrderlyCallers
    PROVE  Spec => []OutputIsValid
<1>1. IInv => OutputIsValid
  BY ValidFollows
<1> QED
  BY <1>1, Inductive, PTL

\* is_writing_attributes is up for the attributes of a WithAttributes only, however
\* deep the values in them and around them are nested.
THEOREM FlagStaysWithAttributes ==
    ASSUME OrderlyCallers
    PROVE  Spec => []FlagIsForAttributes
<1>1. IInv => FlagIsForAttributes
  BY FlagFollows
<1> QED
  BY <1>1, Inductive, PTL

\* A value, key or field is written in the bracket it belongs to.
THEOREM ValuesAlwaysLand ==
    ASSUME OrderlyCallers
    PROVE  Spec => []ValuesLand
<1>1. IInv => ValuesLand
  BY LandFollows
<1> QED
  BY <1>1, Inductive, PTL

\* write_struct_field refuses a struct whose fields are out of order, of however
\* many fields, and no other.
THEOREM RefusedIffOutOfOrder ==
    ASSUME OrderlyCallers
    PROVE  Spec => []RefusedOutOfOrder
<1>1. IInv => RefusedOutOfOrder
  BY OrderFollows
<1> QED
  BY <1>1, Inductive, PTL
=============================================================================
