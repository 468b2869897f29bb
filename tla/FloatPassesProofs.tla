------------------------- MODULE FloatPassesProofs -------------------------
(***************************************************************************)
(* Proofs about the instructions that FloatPasses puts in the place of     *)
(* others, for every number, and about every function that tools are run   *)
(* on, however often and in whatever order: it is well formed, it computes *)
(* what SourceProgram promises, and the runs implement SourceProgram.      *)
(***************************************************************************)
EXTENDS FloatPasses, SequenceTheorems, FiniteSetTheorems, WellFoundedInduction, TLAPS

LEMMA Sizes == Limit \in Nat \ {0} /\ Epsilon \in Nat \ {0} /\ Largest \in Nat
               /\ Limit <= Largest /\ Epsilon <= Largest
BY FloatsAssumption

\* What ConvertFCmpEqInstruction leaves of x op y.
Converted(op, x, y) == Compute(NewPredicate[op], Abs(Compute("fsub", x, y)), Num(Epsilon))

-----------------------------------------------------------------------------
(* The difference of two numbers, and how it compares with epsilon.        *)

LEMMA Difference ==
  ASSUME NEW x, NEW y
  PROVE  Compute("fsub", x, y) = FloatSum(x, Minus(y))
<1>1. "fsub" \notin DOMAIN Predicate
  BY DEF Predicate
<1> QED
  BY <1>1 DEF Compute

LEMMA NaNIsNaN == NaN[1] = "nan" /\ Minus(NaN) = NaN /\ Abs(NaN) = NaN
<1>1. NaN[1] = "nan" /\ NaN[2] = 0
  BY DEF NaN
<1>2. Minus(NaN) = NaN
  <2>1. \A n \in Int : n + n = n => -n = n
    OBVIOUS
  <2>2. NaN[2] \in Int /\ NaN[2] + NaN[2] = NaN[2]
    BY <1>1
  <2>3. -(NaN[2]) = NaN[2]
    BY ONLY <2>1, <2>2
  <2> QED
    BY <1>1, <2>3 DEF NaN, Minus
<1>3. ~(NaN[2] < 0)
  BY <1>1
<1> QED
  BY <1>1, <1>2, <1>3 DEF Abs

LEMMA DifferenceOfNums ==
  ASSUME NEW i \in Int, NEW j \in Int
  PROVE  Compute("fsub", Num(i), Num(j)) = Rounded(i - j)
<1>1. Minus(Num(j)) = Num(-j)
  BY DEF Minus, Num
<1>2. NaN \notin {Num(i), Num(-j)} /\ Num(i)[1] = "num" /\ Num(-j)[1] = "num"
      /\ Num(i)[2] = i /\ Num(-j)[2] = -j
  BY DEF NaN, Num
<1>3. FloatSum(Num(i), Num(-j)) = Rounded(i + (-j))
  BY <1>2, SMTT(30) DEF FloatSum
<1>4. i + (-j) = i - j
  OBVIOUS
<1> QED
  BY <1>1, <1>3, <1>4, Difference

LEMMA RelationOfNums ==
  ASSUME NEW i \in Int, NEW j \in Int
  PROVE  Relation(Num(i), Num(j)) = IF i < j THEN "less" ELSE IF i = j THEN "equal" ELSE "greater"
BY DEF Relation, Rank, Num, NaN

LEMMA RelationOfInf ==
  ASSUME NEW i \in -Largest .. Largest
  PROVE  /\ Relation(Inf, Num(i)) = "greater" /\ Relation(Num(i), Inf) = "less"
         /\ Relation(Minus(Inf), Num(i)) = "less" /\ Relation(Num(i), Minus(Inf)) = "greater"
         /\ Relation(Inf, Minus(Inf)) = "greater" /\ Relation(Minus(Inf), Inf) = "less"
BY Sizes DEF Relation, Rank, Num, NaN, Inf, Minus

LEMMA RelationOfNaN ==
  ASSUME NEW x, NEW y, NaN \in {x, y}
  PROVE  Relation(x, y) = "unordered"
BY DEF Relation

\* The predicates that are compared with epsilon, given how the difference does.
LEMMA OfFarNumbers ==
  ASSUME NEW op \in Equality, NEW x, NEW y, NEW d,
         Relation(x, y) \in {"less", "greater"}, Relation(d, Num(Epsilon)) \in {"equal", "greater"}
  PROVE  Compute(NewPredicate[op], d, Num(Epsilon)) = Compute(op, x, y)
BY DEF Equality, NewPredicate, Compute, Predicate

LEMMA OfNearNumbers ==
  ASSUME NEW op \in Equality, NEW d, Relation(d, Num(Epsilon)) = "less"
  PROVE  Compute(NewPredicate[op], d, Num(Epsilon)) = Bool("equal" \in Predicate[op])
BY DEF Equality, NewPredicate, Compute, Predicate

LEMMA OfNaNs ==
  ASSUME NEW op \in Equality, NEW x, NEW y, NEW d,
         Relation(x, y) = "unordered", Relation(d, Num(Epsilon)) = "unordered"
  PROVE  Compute(NewPredicate[op], d, Num(Epsilon)) = Compute(op, x, y)
BY DEF Equality, NewPredicate, Compute, Predicate

-----------------------------------------------------------------------------
(* The theorem.                                                            *)

LEMMA ConvertedNums ==
  ASSUME NEW op \in Equality, NEW i \in -Largest .. Largest, NEW j \in -Largest .. Largest
  PROVE  Converted(op, Num(i), Num(j)) =
           IF Near(Num(i), Num(j)) THEN Bool("equal" \in Predicate[op]) ELSE Compute(op, Num(i), Num(j))
<1> DEFINE d == IF i < j THEN j - i ELSE i - j
           D == Abs(Compute("fsub", Num(i), Num(j)))
<1>1. d \in Nat /\ i \in Int /\ j \in Int
  BY Sizes
<1>2. Near(Num(i), Num(j)) <=> d < Epsilon
  BY <1>1, Sizes DEF Near, Abs, Num, Minus
<1>3. D = IF d > Largest THEN Inf ELSE Num(d)
  <2>1. \A n \in Int : Abs(Num(n)) = (IF n < 0 THEN Num(-n) ELSE Num(n))
    BY DEF Abs, Num, Minus
  <2>2. Abs(Inf) = Inf /\ Abs(Minus(Inf)) = Inf
    BY DEF Abs, Minus, Inf
  <2>3. D = Abs(Rounded(i - j)) /\ i - j \in Int
    BY <1>1, DifferenceOfNums
  <2>4. CASE i - j > Largest
    BY <1>1, <2>2, <2>3, <2>4, Sizes DEF Rounded
  <2>5. CASE i - j < -Largest
    BY <1>1, <2>2, <2>3, <2>5, Sizes DEF Rounded
  <2>6. CASE ~(i - j > Largest) /\ ~(i - j < -Largest)
    <3>1. D = Abs(Num(i - j))
      BY <2>3, <2>6 DEF Rounded
    <3>2. -(i - j) = j - i
      BY <1>1
    <3> QED
      BY <1>1, <2>1, <2>3, <2>6, <3>1, <3>2, Sizes
  <2> QED
    BY <2>4, <2>5, <2>6
<1>4. CASE d < Epsilon
  <2>1. Relation(D, Num(Epsilon)) = "less"
    BY <1>1, <1>3, <1>4, RelationOfNums, Sizes
  <2> QED
    BY <1>2, <1>4, <2>1, OfNearNumbers DEF Converted
<1>5. CASE ~(d < Epsilon)
  <2>1. Relation(D, Num(Epsilon)) \in {"equal", "greater"}
    <3>1. Relation(Inf, Num(Epsilon)) = "greater"
      BY RelationOfInf, Sizes
    <3>2. Relation(Num(d), Num(Epsilon)) \in {"equal", "greater"}
      BY <1>1, <1>5, RelationOfNums, Sizes
    <3> QED
      BY <1>3, <3>1, <3>2
  <2>2. Relation(Num(i), Num(j)) \in {"less", "greater"}
    BY <1>1, <1>5, RelationOfNums, Sizes
  <2> QED
    BY <1>2, <1>5, <2>1, <2>2, OfFarNumbers DEF Converted
<1> QED
  BY <1>4, <1>5

LEMMA ConvertedNaN ==
  ASSUME NEW op \in Equality, NEW x \in Number, NEW y \in Number, NaN \in {x, y}
  PROVE  Converted(op, x, y) = Compute(op, x, y)
<1>1. NaN \in {x, Minus(y)}
  BY NaNIsNaN
<1>2. FloatSum(x, Minus(y)) = NaN
  BY <1>1, NaNIsNaN DEF FloatSum
<1>3. Abs(Compute("fsub", x, y)) = NaN
  BY <1>2, NaNIsNaN, Difference
<1> QED
  BY <1>3, RelationOfNaN, OfNaNs DEF Converted

\* The difference is infinite, and so are the numbers apart.
LEMMA ConvertedInf ==
  ASSUME NEW op \in Equality, NEW x \in Number, NEW y \in Number,
         NaN \notin {x, y}, x # y, {x, y} \cap {Inf, Minus(Inf)} # {}
  PROVE  Converted(op, x, y) = Compute(op, x, y)
<1>1. /\ Inf = <<"inf", 1>> /\ Minus(Inf) = <<"inf", -1>> /\ Minus(Minus(Inf)) = Inf
      /\ Abs(Inf) = Inf /\ Abs(Minus(Inf)) = Inf
  BY DEF Inf, Minus, Abs
<1>2. Inf # Minus(Inf) /\ NaN # Inf /\ NaN # Minus(Inf)
  BY <1>1 DEF NaN
<1>3. \A n \in -Largest .. Largest :
        Minus(Num(n)) = Num(-n) /\ -n \in -Largest .. Largest
        /\ Num(n)[1] = "num" /\ Num(n) \notin {NaN, Inf, Minus(Inf)}
  BY <1>1, Sizes DEF Minus, Num, NaN
<1>4. Relation(x, y) \in {"less", "greater"}
  BY <1>3, RelationOfInf DEF Number
<1>5. FloatSum(x, Minus(y)) \in {Inf, Minus(Inf)}
  <2>1. CASE x \in {Inf, Minus(Inf)} /\ y \in {Inf, Minus(Inf)}
    <3>1. Minus(y) = x
      BY <1>1, <2>1
    <3>2. x[1] = "inf" /\ x # Minus(x) /\ NaN \notin {x}
      BY <1>1, <1>2, <2>1
    <3> QED
      BY <2>1, <3>1, <3>2 DEF FloatSum
  <2>2. CASE x \in {Inf, Minus(Inf)} /\ y \notin {Inf, Minus(Inf)}
    <3>1. PICK n \in -Largest .. Largest : y = Num(n)
      BY <2>2 DEF Number
    <3>2. Minus(y) \notin {NaN, Inf, Minus(Inf)} /\ x[1] = "inf" /\ Minus(x) \in {Inf, Minus(Inf)}
      BY <1>1, <1>3, <2>2, <3>1
    <3> QED
      BY <1>2, <2>2, <3>2 DEF FloatSum
  <2>3. CASE x \notin {Inf, Minus(Inf)} /\ y \in {Inf, Minus(Inf)}
    <3>1. PICK n \in -Largest .. Largest : x = Num(n)
      BY <2>3 DEF Number
    <3>2. Minus(y) \in {Inf, Minus(Inf)} /\ Minus(y)[1] = "inf" /\ x[1] = "num" /\ x # NaN
      BY <1>1, <1>3, <2>3, <3>1
    <3> QED
      BY <1>2, <3>2 DEF FloatSum
  <2> QED
    BY <2>1, <2>2, <2>3
<1>6. Abs(Compute("fsub", x, y)) = Inf
  BY <1>1, <1>5, Difference
<1>7. Epsilon \in -Largest .. Largest
  BY Sizes
<1>8. Relation(Inf, Num(Epsilon)) = "greater"
  BY <1>7, RelationOfInf
<1> QED
  BY <1>4, <1>6, <1>8, OfFarNumbers DEF Converted

\* What convert_fcmp_eq makes of a comparison takes numbers closer than epsilon for equal
\* and answers as before on all others, infinite or not a number; only for two equal
\* infinities, whose difference is not a number, nothing is said.
THEOREM ConvertedComparison ==
  ASSUME NEW op \in Equality, NEW x \in Number, NEW y \in Number,
         ~(x = y /\ x \in {Inf, Minus(Inf)})
  PROVE  Converted(op, x, y) =
           IF Near(x, y) THEN Bool("equal" \in Predicate[op]) ELSE Compute(op, x, y)
<1>1. CASE NaN \in {x, y}
  <2>1. ~Near(x, y)
    BY <1>1 DEF Near, NaN
  <2> QED
    BY <1>1, <2>1, ConvertedNaN
<1>2. CASE NaN \notin {x, y} /\ {x, y} \cap {Inf, Minus(Inf)} # {}
  <2>1. ~Near(x, y)
    BY <1>2 DEF Near, Inf, Minus
  <2> QED
    BY <1>2, <2>1, ConvertedInf
<1>3. CASE NaN \notin {x, y} /\ {x, y} \cap {Inf, Minus(Inf)} = {}
  <2>1. PICK i, j \in -Largest .. Largest : x = Num(i) /\ y = Num(j)
    BY <1>3 DEF Number
  <2> QED
    BY <2>1, ConvertedNums
<1> QED
  BY <1>1, <1>2, <1>3

\* Of equal infinities oeq becomes false and une true; ueq and one answer as before.
THEOREM ConvertedInfinities ==
  ASSUME NEW op \in Equality, NEW x \in {Inf, Minus(Inf)}
  PROVE  Converted(op, x, x) = Bool(op \in {"ueq", "une"})
<1>1. /\ Inf = <<"inf", 1>> /\ Minus(Inf) = <<"inf", -1>>
  BY DEF Inf, Minus
<1>2. x[1] = "inf"
  BY <1>1
<1>3. FloatSum(x, Minus(x)) = NaN
  BY <1>2 DEF FloatSum
<1>4. Abs(Compute("fsub", x, x)) = NaN
  BY <1>3, NaNIsNaN, Difference
<1>5. Relation(NaN, Num(Epsilon)) = "unordered"
  BY RelationOfNaN
<1> QED
  BY <1>4, <1>5 DEF Converted, Equality, NewPredicate, Compute, Predicate

-----------------------------------------------------------------------------
(* A sequence with an element taken out and others put in.                 *)

LEMMA OwnElements ==
  ASSUME NEW S, NEW s \in Seq(S)
  PROVE  s \in Seq(ToSet(s)) /\ ToSet(s) \subseteq S
<1>1. /\ Len(s) \in Nat /\ DOMAIN s = 1 .. Len(s)
      /\ s = [k \in 1 .. Len(s) |-> s[k]]
      /\ \A k \in 1 .. Len(s) : s[k] \in S
  BY LenProperties, ElementOfSeq
<1>2. \A k \in 1 .. Len(s) : s[k] \in ToSet(s)
  BY <1>1 DEF ToSet
<1>3. s \in [1 .. Len(s) -> ToSet(s)]
  BY <1>1, <1>2
<1>. DEFINE n == Len(s)
            T == ToSet(s)
<1>4. n \in Nat /\ s \in [1 .. n -> T]
  BY <1>1, <1>3
<1>5. \A k \in DOMAIN s : s[k] \in S
  BY <1>1
<1>6. T \subseteq S
  BY <1>5 DEF ToSet
<1>. HIDE DEF n, T
<1>7. s \in Seq(T)
  BY <1>4, SeqDef
<1>. QED  BY <1>6, <1>7 DEF T

\* A sequence s with new in place of its p-th element.
Spliced(s, p, new) == SubSeq(s, 1, p - 1) \o new \o SubSeq(s, p + 1, Len(s))

LEMMA SpliceIs ==
  ASSUME NEW S, NEW s \in Seq(S), NEW p \in 1 .. Len(s), NEW new \in Seq(S)
  PROVE  LET c == Spliced(s, p, new)
             r == Len(new)
         IN  /\ c \in Seq(S) /\ Len(c) = Len(s) + r - 1
             /\ \A k \in 1 .. p - 1 : c[k] = s[k]
             /\ \A k \in p .. p + r - 1 : c[k] = new[k - p + 1]
             /\ \A k \in p + r .. Len(s) + r - 1 : c[k] = s[k - r + 1]
<1>. DEFINE before == SubSeq(s, 1, p - 1)
            after == SubSeq(s, p + 1, Len(s))
            r == Len(new)
            L == Len(s)
<1>0. L \in Nat /\ p \in 1 .. L /\ r \in Nat
  BY LenProperties
<1>1. /\ before \in Seq(S) /\ Len(before) = p - 1
      /\ \A k \in 1 .. p - 1 : before[k] = s[k]
  BY <1>0, SubSeqProperties
<1>2. /\ after \in Seq(S) /\ Len(after) = L - p
      /\ \A k \in 1 .. L - p : after[k] = s[p + k]
  BY <1>0, SubSeqProperties
<1>. HIDE DEF before, after, L
<1>. DEFINE front == before \o new
            c == front \o after
<1>3. /\ front \in Seq(S) /\ Len(front) = p - 1 + r
      /\ \A k \in 1 .. p - 1 + r : front[k] = IF k <= p - 1 THEN before[k] ELSE new[k - (p - 1)]
  <2>1. /\ front \in Seq(S) /\ Len(front) = Len(before) + Len(new)
        /\ \A k \in 1 .. Len(before) + Len(new) :
             front[k] = IF k <= Len(before) THEN before[k] ELSE new[k - Len(before)]
    BY <1>1, ConcatProperties
  <2>. HIDE DEF front
  <2>. QED  BY <1>1, <2>1
<1>. HIDE DEF front
<1>4. /\ c \in Seq(S) /\ Len(c) = p - 1 + r + (L - p)
      /\ \A k \in 1 .. p - 1 + r + (L - p) :
           c[k] = IF k <= p - 1 + r THEN front[k] ELSE after[k - (p - 1 + r)]
  <2>1. front \in Seq(S) /\ after \in Seq(S)
    BY <1>2, <1>3
  <2>2. /\ c \in Seq(S) /\ Len(c) = Len(front) + Len(after)
        /\ \A k \in 1 .. Len(front) + Len(after) :
             c[k] = IF k <= Len(front) THEN front[k] ELSE after[k - Len(front)]
    BY <2>1, ConcatProperties
  <2>. HIDE DEF c
  <2>. QED  BY <1>2, <1>3, <2>2
<1>. HIDE DEF c
<1>5. Len(c) = L + r - 1
  BY <1>0, <1>4
<1>6. ASSUME NEW k \in 1 .. p - 1 PROVE c[k] = s[k]
  <2>1. k \in 1 .. p - 1 + r + (L - p) /\ k <= p - 1 + r /\ k \in 1 .. p - 1 + r /\ k <= p - 1
    BY <1>0
  <2>. QED  BY <1>1, <1>3, <1>4, <2>1
<1>7. ASSUME NEW k \in p .. p + r - 1 PROVE c[k] = new[k - p + 1]
  <2>1. k \in 1 .. p - 1 + r + (L - p) /\ k <= p - 1 + r /\ k \in 1 .. p - 1 + r /\ ~ k <= p - 1
        /\ k - (p - 1) = k - p + 1
    BY <1>0
  <2>2. c[k] = front[k] /\ front[k] = new[k - (p - 1)]
    BY <1>3, <1>4, <2>1
  <2>. QED  BY <2>1, <2>2
<1>8. ASSUME NEW k \in p + r .. L + r - 1 PROVE c[k] = s[k - r + 1]
  <2>1. k \in 1 .. p - 1 + r + (L - p) /\ ~ k <= p - 1 + r /\ k - (p - 1 + r) \in 1 .. L - p
        /\ p + (k - (p - 1 + r)) = k - r + 1
    BY <1>0
  <2>2. c[k] = after[k - (p - 1 + r)]
    BY <1>4, <2>1
  <2>. QED  BY <1>2, <2>1, <2>2
<1>9. Spliced(s, p, new) = c
  BY DEF Spliced, c, front, before, after, L
<1>. QED  BY <1>4, <1>5, <1>6, <1>7, <1>8, <1>9 DEF L

\* Where a one-element sequence is found first.
LEMMA FirstIs ==
  ASSUME NEW S, NEW t \in Seq(S), NEW p \in 1 .. Len(t), IsInjective(t)
  PROVE  <<t[p]>> \in SubSeqs(t) /\ IndexFirstSubSeq(<<t[p]>>, t) = p
<1>. DEFINE one == <<t[p]>>
            L == Len(t)
<1>1. L \in Nat /\ DOMAIN t = 1 .. L /\ \A k \in 1 .. L : t[k] \in S
  BY LenProperties, ElementOfSeq
<1>2. one \in Seq(S) /\ Len(one) = 1 /\ one[1] = t[p]
  BY <1>1
<1>3. ASSUME NEW i \in 0 .. L
      PROVE  one \in SubSeqs(SubSeq(t, 1, i)) <=> p <= i
  <2>. DEFINE u == SubSeq(t, 1, i)
  <2>1. u \in Seq(S) /\ Len(u) = i /\ \A k \in 1 .. i : u[k] = t[k]
    <3>1. \A k \in 1 .. i : t[k] \in S
      BY <1>1
    <3>2. /\ u \in Seq(S) /\ Len(u) = IF 1 <= i THEN i - 1 + 1 ELSE 0
          /\ \A k \in 1 .. i - 1 + 1 : u[k] = t[1 + k - 1]
      BY <3>1, SubSeqProperties
    <3>. HIDE DEF u
    <3>. QED  BY <3>2
  <2>. HIDE DEF u
  <2>2. ASSUME NEW a \in 0 .. i, NEW b \in 0 .. i
        PROVE  /\ SubSeq(u, a + 1, b) \in Seq(S)
               /\ Len(SubSeq(u, a + 1, b)) = IF a + 1 <= b THEN b - a ELSE 0
               /\ a + 1 <= b => SubSeq(u, a + 1, b)[1] = t[a + 1]
    <3>1. \A k \in a + 1 .. b : u[k] \in S
      BY <2>1, ElementOfSeq
    <3>2. /\ SubSeq(u, a + 1, b) \in Seq(S)
          /\ Len(SubSeq(u, a + 1, b)) = IF a + 1 <= b THEN b - (a + 1) + 1 ELSE 0
          /\ \A k \in 1 .. b - (a + 1) + 1 : SubSeq(u, a + 1, b)[k] = u[a + 1 + k - 1]
      BY <3>1, SubSeqProperties
    <3>3. ASSUME a + 1 <= b PROVE SubSeq(u, a + 1, b)[1] = t[a + 1]
      <4>1. 1 \in 1 .. b - (a + 1) + 1 /\ a + 1 + 1 - 1 = a + 1 /\ a + 1 \in 1 .. i
        BY <3>3
      <4>. QED  BY <2>1, <3>2, <4>1
    <3>4. b - (a + 1) + 1 = b - a
      OBVIOUS
    <3>. DEFINE w == SubSeq(u, a + 1, b)
    <3>5. w \in Seq(S) /\ Len(w) = (IF a + 1 <= b THEN b - a ELSE 0) /\ (a + 1 <= b => w[1] = t[a + 1])
      BY ONLY <3>2, <3>3, <3>4
    <3>. QED  BY <3>5
  <2>3. ASSUME one \in SubSeqs(u) PROVE p <= i
    <3>1. PICK a \in 0 .. i, b \in 0 .. i : one = SubSeq(u, a + 1, b)
      <4>. HIDE DEF one
      <4>1. \E a, b \in 0 .. Len(u) : one = SubSeq(u, a + 1, b)
        BY <2>3 DEF SubSeqs
      <4>. QED  BY <2>1, <4>1
    <3>. DEFINE w == SubSeq(u, a + 1, b)
    <3>2. a + 1 <= b /\ t[p] = t[a + 1]
      <4>1. Len(w) = (IF a + 1 <= b THEN b - a ELSE 0) /\ (a + 1 <= b => w[1] = t[a + 1])
        BY <2>2
      <4>2. Len(w) = 1 /\ w[1] = t[p]
        BY <1>2, <3>1
      <4>. QED  BY <4>1, <4>2
    <3>3. p = a + 1
      BY <1>1, <3>2 DEF IsInjective
    <3>. QED  BY <3>2, <3>3
  <2>4. ASSUME p <= i PROVE one \in SubSeqs(u)
    <3>1. p - 1 \in 0 .. i /\ p \in 0 .. i /\ p - 1 + 1 = p /\ p - (p - 1) = 1
      BY <2>4
    <3>2. /\ SubSeq(u, p, p) \in Seq(S) /\ Len(SubSeq(u, p, p)) = 1
          /\ SubSeq(u, p, p)[1] = t[p]
      <4>. DEFINE a == p - 1
      <4>1. a \in 0 .. i /\ a + 1 = p /\ p - a = 1 /\ p \in 0 .. i
        BY <3>1
      <4>. HIDE DEF a
      <4>2. /\ SubSeq(u, a + 1, p) \in Seq(S)
            /\ Len(SubSeq(u, a + 1, p)) = IF a + 1 <= p THEN p - a ELSE 0
            /\ a + 1 <= p => SubSeq(u, a + 1, p)[1] = t[a + 1]
        BY <2>2, <4>1
      <4>. QED  BY <4>1, <4>2
    <3>3. SubSeq(u, p, p) = one
      <4>. DEFINE v == SubSeq(u, p, p)
      <4>1. v \in Seq(S) /\ Len(v) = 1 /\ v[1] = t[p]
        BY <3>2
      <4>. HIDE DEF v
      <4>2. Len(v) = Len(one) /\ \A k \in 1 .. Len(v) : v[k] = one[k]
        BY <1>2, <4>1
      <4>. HIDE DEF one
      <4>3. v = one
        BY <1>2, <4>1, <4>2, SeqEqual
      <4>. QED  BY <4>3 DEF v
    <3>4. \E a, b \in 0 .. Len(u) : one = SubSeq(u, a + 1, b)
      <4>1. p - 1 \in 0 .. Len(u) /\ p \in 0 .. Len(u) /\ one = SubSeq(u, (p - 1) + 1, p)
        BY <2>1, <3>1, <3>3
      <4>. QED  BY <4>1
    <3>. QED  BY <3>4 DEF SubSeqs
  <2>. QED  BY <2>3, <2>4 DEF u
<1>4. SubSeq(t, 1, L) = t
  BY <1>1, SubSeqFull
<1>5. one \in SubSeqs(t)
  <2>1. L \in 0 .. L /\ p <= L
    BY <1>1
  <2>2. one \in SubSeqs(SubSeq(t, 1, L))
    BY <1>3, <2>1
  <2>. QED  BY <1>4, <2>2
<1>. HIDE DEF one
<1>6. \A i \in 0 .. L : (/\ one \in SubSeqs(SubSeq(t, 1, i))
                         /\ \A j \in 0 .. i - 1 : one \notin SubSeqs(SubSeq(t, 1, j))) <=> i = p
  <2>. TAKE i \in 0 .. L
  <2>1. \A j \in 0 .. i - 1 : j \in 0 .. L
    BY <1>1
  <2>2. (/\ one \in SubSeqs(SubSeq(t, 1, i))
         /\ \A j \in 0 .. i - 1 : one \notin SubSeqs(SubSeq(t, 1, j)))
        <=> p <= i /\ \A j \in 0 .. i - 1 : ~ p <= j
    BY <1>3, <2>1
  <2>3. (p <= i /\ \A j \in 0 .. i - 1 : ~ p <= j) <=> i = p
    <3>1. ASSUME p <= i, i # p PROVE p \in 0 .. i - 1
      BY <1>1, <3>1
    <3>. QED  BY <1>1, <3>1
  <2>. QED  BY <2>2, <2>3
<1>7. IndexFirstSubSeq(one, t) = p - (Len(one) - 1)
  <2>1. p \in 0 .. L
    BY <1>1
  <2>. DEFINE last == CHOOSE i \in 0 .. Len(t) :
                        /\ one \in SubSeqs(SubSeq(t, 1, i))
                        /\ \A j \in 0 .. i - 1 : one \notin SubSeqs(SubSeq(t, 1, j))
  <2>2. last = p
    BY <1>6, <2>1
  <2>3. IndexFirstSubSeq(one, t) = last - (Len(one) - 1)
    BY DEF IndexFirstSubSeq
  <2>. HIDE DEF last
  <2>. QED  BY <2>2, <2>3
<1>8. IndexFirstSubSeq(one, t) = p
  BY <1>1, <1>2, <1>7
<1>. QED  BY <1>5, <1>8 DEF one

LEMMA ReplaceFirstIs ==
  ASSUME NEW S, NEW t \in Seq(S), NEW p \in 1 .. Len(t), IsInjective(t), NEW new
  PROVE  ReplaceFirstSubSeq(new, <<t[p]>>, t) = Spliced(t, p, new)
<1>. DEFINE one == <<t[p]>>
<1>1. one \in SubSeqs(t) /\ IndexFirstSubSeq(one, t) = p
  BY FirstIs
<1>2. Len(one) = 1
  OBVIOUS
<1>. HIDE DEF one
<1>3. ReplaceFirstSubSeq(new, one, t) = ReplaceSubSeqAt(p, new, one, t)
  BY <1>1 DEF ReplaceFirstSubSeq
<1>4. ReplaceSubSeqAt(p, new, one, t) = Spliced(t, p, new)
  BY <1>2 DEF ReplaceSubSeqAt, Spliced
<1>. QED  BY <1>3, <1>4 DEF one

\* A block of the layout that is followed by three new ones.
LEMMA LayoutIs ==
  ASSUME NEW S, NEW t \in Seq(S), IsInjective(t), NEW b \in ToSet(t),
         NEW x, NEW y, NEW z, {x, y, z} \cap S = {}, x # y, x # z, y # z
  PROVE  LET u == ReplaceFirstSubSeq(<<b, x, y, z>>, <<b>>, t)
         IN  u \in Seq(S \cup {x, y, z}) /\ ToSet(u) = ToSet(t) \cup {x, y, z} /\ IsInjective(u)
<1>. DEFINE T == S \cup {x, y, z}
            new == <<b, x, y, z>>
            u == ReplaceFirstSubSeq(new, <<b>>, t)
            L == Len(t)
<1>1. L \in Nat /\ DOMAIN t = 1 .. L /\ (\A k \in 1 .. L : t[k] \in S) /\ t \in Seq(T)
  <2>1. L \in Nat /\ DOMAIN t = 1 .. L
    BY LenProperties
  <2>2. \A k \in 1 .. L : t[k] \in S
    BY ElementOfSeq
  <2>. QED  BY <2>1, <2>2, SeqMonotonic
<1>2. PICK p \in 1 .. L : t[p] = b
  BY <1>1 DEF ToSet
<1>3. new \in Seq(T) /\ Len(new) = 4 /\ new[1] = b /\ new[2] = x /\ new[3] = y /\ new[4] = z
  <2>1. b \in T /\ x \in T /\ y \in T /\ z \in T
    BY <1>1, <1>2
  <2>. HIDE DEF T
  <2>. QED  BY <2>1
<1>. HIDE DEF new, T
<1>4. u = Spliced(t, p, new)
  BY <1>1, <1>2, ReplaceFirstIs
<1>5. /\ u \in Seq(T) /\ Len(u) = L + 3
      /\ \A k \in 1 .. p - 1 : u[k] = t[k]
      /\ \A k \in p .. p + 3 : u[k] = new[k - p + 1]
      /\ \A k \in p + 4 .. L + 3 : u[k] = t[k - 3]
  <2>. DEFINE c == Spliced(t, p, new)
              r == Len(new)
  <2>1. /\ c \in Seq(T) /\ Len(c) = Len(t) + r - 1
        /\ \A k \in 1 .. p - 1 : c[k] = t[k]
        /\ \A k \in p .. p + r - 1 : c[k] = new[k - p + 1]
        /\ \A k \in p + r .. Len(t) + r - 1 : c[k] = t[k - r + 1]
    <3>1. t \in Seq(T) /\ new \in Seq(T) /\ p \in 1 .. Len(t)
      BY <1>1, <1>2, <1>3
    <3>. QED  BY <3>1, SpliceIs
  <2>2. r = 4 /\ u = c
    BY <1>3, <1>4
  <2>. HIDE DEF c, r, u
  <2>3. Len(u) = L + 3 /\ p + r - 1 = p + 3 /\ p + r = p + 4 /\ Len(t) + r - 1 = L + 3
    BY <1>1, <2>1, <2>2
  <2>4. \A k \in p + 4 .. L + 3 : k - r + 1 = k - 3
    BY <2>2, <1>1
  <2>. QED  BY <2>1, <2>2, <2>3, <2>4
<1>. HIDE DEF u
<1>6. /\ u[p] = b /\ u[p + 1] = x /\ u[p + 2] = y /\ u[p + 3] = z
  <2>1. /\ p \in p .. p + 3 /\ p + 1 \in p .. p + 3 /\ p + 2 \in p .. p + 3 /\ p + 3 \in p .. p + 3
        /\ p - p + 1 = 1 /\ p + 1 - p + 1 = 2 /\ p + 2 - p + 1 = 3 /\ p + 3 - p + 1 = 4
    OBVIOUS
  <2>. QED  BY <1>3, <1>5, <2>1
<1>7. DOMAIN u = 1 .. L + 3
  BY <1>5, LenProperties
\* Where an element of the old layout went, and what is at a place of the new one.
<1>8. \A k \in 1 .. L : u[IF k <= p THEN k ELSE k + 3] = t[k] /\ (IF k <= p THEN k ELSE k + 3) \in 1 .. L + 3
  <2>. TAKE k \in 1 .. L
  <2>1. CASE k < p
    BY <1>5, <2>1, <1>1
  <2>2. CASE k = p
    BY <1>2, <1>6, <2>2, <1>1
  <2>3. CASE k > p
    <3>1. k + 3 \in p + 4 .. L + 3 /\ k + 3 - 3 = k /\ k + 3 \in 1 .. L + 3
      BY <1>1, <2>3
    <3>. QED  BY <1>5, <2>3, <3>1
  <2>. QED  BY <1>1, <2>1, <2>2, <2>3
<1>9. ASSUME NEW k \in 1 .. L + 3
      PROVE  \/ k \in {p + 1, p + 2, p + 3}
             \/ \E j \in 1 .. L : k = (IF j <= p THEN j ELSE j + 3) /\ u[k] = t[j]
  <2>1. CASE k <= p
    <3>1. k \in 1 .. L
      BY <1>1, <2>1
    <3>. QED  BY <1>8, <2>1, <3>1
  <2>2. CASE k > p + 3
    <3>1. k - 3 \in 1 .. L /\ ~ k - 3 <= p /\ k - 3 + 3 = k
      BY <1>1, <2>2
    <3>2. u[k] = t[k - 3]
      BY <1>8, <3>1
    <3>. QED  BY <3>1, <3>2
  <2>. QED  BY <1>1, <2>1, <2>2
<1>10. ToSet(u) = ToSet(t) \cup {x, y, z}
  <2>1. ASSUME NEW v \in ToSet(u) PROVE v \in ToSet(t) \cup {x, y, z}
    <3>1. PICK k \in 1 .. L + 3 : u[k] = v
      BY <1>7 DEF ToSet
    <3>. QED  BY <1>1, <1>6, <1>9, <3>1 DEF ToSet
  <2>2. ToSet(t) \subseteq ToSet(u)
    BY <1>1, <1>7, <1>8 DEF ToSet
  <2>3. {x, y, z} \subseteq ToSet(u)
    <3>1. p + 1 \in 1 .. L + 3 /\ p + 2 \in 1 .. L + 3 /\ p + 3 \in 1 .. L + 3
      BY <1>1
    <3>. QED  BY <1>6, <1>7, <3>1 DEF ToSet
  <2>. QED  BY <2>1, <2>2, <2>3
<1>11. IsInjective(u)
  <2>. SUFFICES ASSUME NEW j \in 1 .. L + 3, NEW k \in 1 .. L + 3, u[j] = u[k]
                PROVE  j = k
    BY <1>7 DEF IsInjective
  <2>1. CASE j \in {p + 1, p + 2, p + 3} /\ k \in {p + 1, p + 2, p + 3}
    BY <1>6, <2>1
  <2>2. CASE j \in {p + 1, p + 2, p + 3} /\ k \notin {p + 1, p + 2, p + 3}
    <3>1. u[j] \in {x, y, z} /\ u[k] \in S
      BY <1>1, <1>6, <1>9, <2>2
    <3>. QED  BY <3>1
  <2>3. CASE j \notin {p + 1, p + 2, p + 3} /\ k \in {p + 1, p + 2, p + 3}
    <3>1. u[k] \in {x, y, z} /\ u[j] \in S
      BY <1>1, <1>6, <1>9, <2>3
    <3>. QED  BY <3>1
  <2>4. CASE j \notin {p + 1, p + 2, p + 3} /\ k \notin {p + 1, p + 2, p + 3}
    <3>1. PICK i \in 1 .. L : j = (IF i <= p THEN i ELSE i + 3) /\ u[j] = t[i]
      BY <1>9, <2>4
    <3>2. PICK h \in 1 .. L : k = (IF h <= p THEN h ELSE h + 3) /\ u[k] = t[h]
      BY <1>9, <2>4
    <3>3. i = h
      BY <1>1, <3>1, <3>2 DEF IsInjective
    <3>. QED  BY <3>1, <3>2, <3>3
  <2>. QED  BY <2>1, <2>2, <2>3, <2>4
<1>. QED  BY <1>5, <1>10, <1>11 DEF u, new, T

\* A set with 0 in it, and with every number before L its successor, has all up to L.
LEMMA UpTo ==
  ASSUME NEW L \in Nat, NEW A, 0 \in A, \A k \in 0 .. L - 1 : k \in A => k + 1 \in A
  PROVE  \A k \in 0 .. L : k \in A
<1>. DEFINE B == {k \in 0 .. L : k \notin A}
<1>1. SUFFICES ASSUME B # {} PROVE FALSE
  OBVIOUS
<1>. DEFINE To(k) == 0 .. k
            I == {To(k) : k \in B}
<1>3. I \subseteq FiniteSubsetsOf(0 .. L) /\ I # {}
  <2>1. \A k \in B : To(k) \subseteq 0 .. L
    OBVIOUS
  <2>2. IsFiniteSet(0 .. L)
    BY FS_Interval
  <2>. HIDE DEF B, To
  <2>. QED  BY <1>1, <2>1, <2>2, FS_Subset DEF FiniteSubsetsOf
<1>4. PICK x \in I : \A y \in I : <<y, x>> \notin StrictSubsetOrdering(0 .. L)
  <2>. HIDE DEF I
  <2>. QED  BY <1>3, FS_StrictSubsetOrderingWellFounded, WFMin
<1>5. PICK k \in B : x = To(k)
  OBVIOUS
<1>6. \A j \in B : ~ j < k
  <2>. SUFFICES ASSUME NEW j \in B, j < k PROVE FALSE
    OBVIOUS
  <2>1. To(j) \subseteq To(k) /\ k \in To(k) /\ k \notin To(j) /\ To(k) \subseteq 0 .. L
    OBVIOUS
  <2>2. To(j) \in I
    OBVIOUS
  <2>. HIDE DEF To, I, B
  <2>. QED  BY <1>4, <1>5, <2>1, <2>2 DEF StrictSubsetOrdering
<1>7. k # 0 /\ k - 1 \in 0 .. L - 1 /\ k - 1 \in A
  <2>1. k \in 0 .. L /\ k # 0
    OBVIOUS
  <2>2. k - 1 \in 0 .. L - 1 /\ k - 1 < k
    BY <2>1
  <2>. QED  BY <1>6, <2>1, <2>2
<1>. QED
  <2>1. (k - 1) + 1 = k
    BY <1>7
  <2>2. (k - 1) + 1 \in A
    BY <1>7
  <2>. QED  BY <2>1, <2>2
-----------------------------------------------------------------------------
(* What FlattenSeq returns.                                                *)

IsFlattened(s, g, L) == s = [k \in 1 .. L |-> IF k = 1 THEN g[k] ELSE s[k - 1] \o g[k]]

LEMMA FlattenedExists ==
  ASSUME NEW g, NEW L \in Nat
  PROVE  \E s : IsFlattened(s, g, L)
<1>. DEFINE A == {n \in 0 .. L : \E s : IsFlattened(s, g, n)}
<1>1. 0 \in A
  <2>1. IsFlattened([k \in 1 .. 0 |-> g[k]], g, 0)
    BY DEF IsFlattened
  <2>. QED  BY <2>1
<1>2. ASSUME NEW n \in 0 .. L - 1, n \in A PROVE n + 1 \in A
  <2>1. PICK s : IsFlattened(s, g, n)
    BY <1>2
  <2>. DEFINE next == [k \in 1 .. n + 1 |->
                         IF k = n + 1 THEN (IF k = 1 THEN g[k] ELSE s[n] \o g[k]) ELSE s[k]]
  <2>2. \A k \in 1 .. n : s[k] = IF k = 1 THEN g[k] ELSE s[k - 1] \o g[k]
    BY <2>1 DEF IsFlattened
  <2>3. ASSUME NEW k \in 1 .. n + 1
        PROVE  next[k] = IF k = 1 THEN g[k] ELSE next[k - 1] \o g[k]
    <3>1. CASE k = 1
      <4>1. CASE n = 0
        BY <3>1, <4>1
      <4>2. CASE n # 0
        <5>1. k \in 1 .. n /\ k # n + 1
          BY <3>1, <4>2
        <5>. QED  BY <2>2, <3>1, <5>1
      <4>. QED  BY <4>1, <4>2
    <3>2. CASE k # 1 /\ k = n + 1
      <4>1. k - 1 = n /\ n \in 1 .. n + 1 /\ n # n + 1
        BY <3>2
      <4>2. next[k] = s[n] \o g[k] /\ next[k - 1] = s[n]
        BY <3>2, <4>1
      <4>. QED  BY <3>2, <4>2
    <3>3. CASE k # 1 /\ k # n + 1
      <4>1. k - 1 \in 1 .. n + 1 /\ k - 1 # n + 1 /\ k \in 1 .. n
        BY <3>3
      <4>2. next[k - 1] = s[k - 1] /\ next[k] = s[k]
        BY <3>3, <4>1
      <4>. QED  BY <2>2, <3>3, <4>1, <4>2
    <3>. QED  BY <3>1, <3>2, <3>3
  <2>4. next = [k \in 1 .. n + 1 |-> next[k]]
    OBVIOUS
  <2>. HIDE DEF next
  <2>5. IsFlattened(next, g, n + 1)
    BY <2>3, <2>4 DEF IsFlattened
  <2>6. n + 1 \in 0 .. L
    OBVIOUS
  <2>. QED  BY <2>5, <2>6
<1>. HIDE DEF A
<1>3. L \in A
  BY <1>1, <1>2, UpTo
<1>. QED  BY <1>3 DEF A

LEMMA ConcatInjective ==
  ASSUME NEW S, NEW s \in Seq(S), NEW t \in Seq(S), IsInjective(s), IsInjective(t),
         ToSet(s) \cap ToSet(t) = {}
  PROVE  s \o t \in Seq(S) /\ IsInjective(s \o t) /\ ToSet(s \o t) = ToSet(s) \cup ToSet(t)
<1>. DEFINE c == s \o t
            M == Len(s)
            N == Len(t)
<1>1. M \in Nat /\ N \in Nat /\ DOMAIN s = 1 .. M /\ DOMAIN t = 1 .. N
  BY LenProperties
<1>2. /\ c \in Seq(S) /\ Len(c) = M + N
      /\ \A k \in 1 .. M + N : c[k] = IF k <= M THEN s[k] ELSE t[k - M]
  BY ConcatProperties
<1>. HIDE DEF c
<1>3. DOMAIN c = 1 .. M + N
  BY <1>2, LenProperties
<1>4. /\ \A k \in 1 .. M : k \in 1 .. M + N /\ c[k] = s[k]
      /\ \A k \in 1 .. N : k + M \in 1 .. M + N /\ c[k + M] = t[k]
  <2>1. \A k \in 1 .. N : k + M \in 1 .. M + N /\ ~ k + M <= M /\ k + M - M = k
    BY <1>1
  <2>2. \A k \in 1 .. M : k \in 1 .. M + N /\ k <= M
    BY <1>1
  <2>3. ASSUME NEW k \in 1 .. N PROVE c[k + M] = t[k]
    <3>1. \E j \in 1 .. M + N : j = k + M /\ ~ j <= M /\ j - M = k
      BY <1>1
    <3>2. PICK j \in 1 .. M + N : j = k + M /\ ~ j <= M /\ j - M = k
      BY <3>1
    <3>3. c[j] = IF j <= M THEN s[j] ELSE t[j - M]
      BY <1>2, <3>2, Zenon
    <3>4. c[j] = t[j - M]
      BY <3>2, <3>3, Zenon
    <3>. QED  BY <3>2, <3>4
  <2>4. \A k \in 1 .. M : c[k] = s[k]
    BY <1>2, <2>2
  <2>. QED  BY <2>1, <2>2, <2>3, <2>4
<1>5. ASSUME NEW k \in 1 .. M + N
      PROVE  (k \in 1 .. M /\ c[k] = s[k]) \/ (k - M \in 1 .. N /\ c[k] = t[k - M])
  BY <1>1, <1>2
<1>6. ToSet(c) = ToSet(s) \cup ToSet(t)
  <2>1. ToSet(s) \cup ToSet(t) \subseteq ToSet(c)
    BY <1>1, <1>3, <1>4 DEF ToSet
  <2>2. ToSet(c) \subseteq ToSet(s) \cup ToSet(t)
    BY <1>1, <1>3, <1>5 DEF ToSet
  <2>. QED  BY <2>1, <2>2
<1>7. IsInjective(c)
  <2>. SUFFICES ASSUME NEW j \in 1 .. M + N, NEW k \in 1 .. M + N, c[j] = c[k] PROVE j = k
    BY <1>3 DEF IsInjective
  <2>1. CASE j \in 1 .. M /\ k \in 1 .. M /\ c[j] = s[j] /\ c[k] = s[k]
    BY <1>1, <2>1 DEF IsInjective
  <2>2. CASE j - M \in 1 .. N /\ k - M \in 1 .. N /\ c[j] = t[j - M] /\ c[k] = t[k - M]
    <3>1. j - M = k - M
      BY <1>1, <2>2 DEF IsInjective
    <3>. QED  BY <1>1, <3>1
  <2>3. CASE \/ j \in 1 .. M /\ c[j] = s[j] /\ k - M \in 1 .. N /\ c[k] = t[k - M]
             \/ k \in 1 .. M /\ c[k] = s[k] /\ j - M \in 1 .. N /\ c[j] = t[j - M]
    BY <1>1, <2>3 DEF ToSet
  <2>. QED  BY <1>5, <2>1, <2>2, <2>3
<1>. QED  BY <1>2, <1>6, <1>7 DEF c

\* Sequences without repetition, no two of which share an element, one after the other.
LEMMA FlattenSeqIs ==
  ASSUME NEW S, NEW g \in Seq(Seq(S)),
         \A k \in DOMAIN g : IsInjective(g[k]),
         \A j, k \in DOMAIN g : j # k => ToSet(g[j]) \cap ToSet(g[k]) = {}
  PROVE  /\ FlattenSeq(g) \in Seq(S) /\ IsInjective(FlattenSeq(g))
         /\ ToSet(FlattenSeq(g)) = UNION {ToSet(g[k]) : k \in DOMAIN g}
<1>. DEFINE L == Len(g)
<1>1. L \in Nat /\ DOMAIN g = 1 .. L /\ \A k \in 1 .. L : g[k] \in Seq(S)
  BY LenProperties, ElementOfSeq
<1>2. CASE L = 0
  <2>1. FlattenSeq(g) = g
    BY <1>2 DEF FlattenSeq
  <2>2. DOMAIN g = {}
    BY <1>1, <1>2
  <2>3. g = << >>
    BY <1>2, EmptySeq
  <2>. QED  BY <2>1, <2>2, <2>3, EmptySeq DEF IsInjective, ToSet
<1>3. CASE L # 0
  <2>. DEFINE s == CHOOSE s : IsFlattened(s, g, L)
  <2>1. FlattenSeq(g) = s[L]
    BY <1>3 DEF FlattenSeq, IsFlattened
  <2>2. IsFlattened(s, g, L)
    BY <1>1, FlattenedExists
  <2>. HIDE DEF s
  <2>3. \A k \in 1 .. L : s[k] = IF k = 1 THEN g[k] ELSE s[k - 1] \o g[k]
    BY <2>2 DEF IsFlattened
  <2>. DEFINE In(k) == UNION {ToSet(g[j]) : j \in 1 .. k}
              Good(k) == s[k] \in Seq(S) /\ IsInjective(s[k]) /\ ToSet(s[k]) = In(k)
              A == {k \in 0 .. L - 1 : Good(k + 1)}
  <2>4. 0 \in A
    <3>1. s[1] = g[1] /\ 1 \in 1 .. L /\ 0 \in 0 .. L - 1 /\ 0 + 1 = 1
      BY <1>1, <1>3, <2>3
    <3>2. In(1) = ToSet(g[1])
      OBVIOUS
    <3>3. Good(1)
      BY <1>1, <3>1, <3>2
    <3>. QED  BY <3>1, <3>3
  <2>5. ASSUME NEW k \in 0 .. (L - 1) - 1, k \in A PROVE k + 1 \in A
    <3>. DEFINE n == k + 1
    <3>1. n \in 1 .. L /\ n + 1 \in 1 .. L /\ n + 1 # 1 /\ n + 1 - 1 = n /\ n \in 0 .. L - 1
      BY <1>1
    <3>2. Good(n)
      BY <2>5
    <3>. HIDE DEF n
    <3>3. s[n + 1] = s[n] \o g[n + 1]
      <4>1. PICK m \in 1 .. L : m = n + 1 /\ m # 1 /\ m - 1 = n
        BY <3>1
      <4>2. s[m] = s[m - 1] \o g[m]
        BY <2>3, <4>1
      <4>. QED  BY <4>1, <4>2
    <3>4. g[n + 1] \in Seq(S) /\ IsInjective(g[n + 1])
      BY <1>1, <3>1
    <3>5. ToSet(s[n]) \cap ToSet(g[n + 1]) = {}
      <4>1. \A j \in 1 .. n : j \in 1 .. L /\ j # n + 1
        BY <3>1
      <4>2. \A j \in 1 .. n : ToSet(g[j]) \cap ToSet(g[n + 1]) = {}
        BY <1>1, <3>1, <4>1
      <4>. QED  BY <3>2, <4>2
    <3>6. In(n + 1) = In(n) \cup ToSet(g[n + 1])
      <4>1. 1 .. n + 1 = (1 .. n) \cup {n + 1}
        BY <3>1
      <4>. QED  BY <4>1
    <3>. HIDE DEF In
    <3>7. /\ s[n + 1] \in Seq(S) /\ IsInjective(s[n + 1])
          /\ ToSet(s[n + 1]) = ToSet(s[n]) \cup ToSet(g[n + 1])
      BY <3>2, <3>3, <3>4, <3>5, ConcatInjective
    <3>. QED  BY <3>1, <3>2, <3>6, <3>7 DEF n
  <2>. HIDE DEF A
  <2>6. L - 1 \in Nat
    BY <1>1, <1>3
  <2>7. L - 1 \in A
    <3>. DEFINE m == L - 1
    <3>1. m \in Nat /\ \A k \in 0 .. m - 1 : k \in A => k + 1 \in A
      BY <2>5, <2>6
    <3>. HIDE DEF m
    <3>2. \A k \in 0 .. m : k \in A
      BY <2>4, <3>1, UpTo
    <3>3. m \in 0 .. m
      BY <3>1
    <3>. QED  BY <3>2, <3>3 DEF m
  <2>8. Good(L)
    <3>1. L - 1 + 1 = L
      BY <1>1
    <3>2. Good(L - 1 + 1)
      BY <2>7 DEF A
    <3>. QED  BY <3>1, <3>2
  <2>. QED  BY <1>1, <2>1, <2>8
<1>. QED  BY <1>2, <1>3

-----------------------------------------------------------------------------
(* The inductive invariant.                                                *)

Insts(f) == UNION {ToSet(f.code[b]) : b \in DOMAIN f.code}

\* A pass that a function's attribute keeps from it.
Skipped(t) == t = "convert_fcmp_eq" /\ fn.optnone
NoTargets(t, f) == Skipped(t) \/ \A i \in Insts(f) : ~Target(t, i)

\* The tools that leave none of their targets behind.
Final == Tool \ {"work2", "parsetest"}

Typed ==
  /\ fn \in Functions /\ tool \in Tool /\ pc \in {"idle", "rewrite", "run", "over"}
  /\ ran \in Seq(Tool) /\ Len(ran) <= MaxRuns /\ (pc = "rewrite" => Len(ran) < MaxRuns)
  /\ \A f \in {file, module} :
       f.last \in Nat /\ WellFormed(f, f.last) /\ f.optnone = fn.optnone /\ f.entry = fn.entry
  /\ block \in DOMAIN file.code /\ inst \in 1 .. Len(file.code[block]) + 1
  /\ pc \in {"idle", "rewrite"} => block = fn.entry /\ inst = 1

\* What was collected is there, a target, and nothing else is a target that the tool
\* does not put there itself.
Pending ==
  /\ todo \in Seq(Nat) /\ IsInjective(todo)
  /\ \A n \in ToSet(todo) : \E i \in Insts(module) : i.name = n /\ Target(tool, i)
  /\ pc = "rewrite" /\ Skipped(tool) => todo = << >>
  /\ pc = "rewrite" /\ tool \in Final /\ ~Skipped(tool) =>
       \A i \in Insts(module) : Target(tool, i) => i.name \in ToSet(todo)

\* What a tool has replaced does not come back.
Settled ==
  \A t \in ToSet(ran) \cap Final :
    /\ NoTargets(t, file)
    /\ pc = "rewrite" => NoTargets(t, module) /\ (tool = t => todo = << >> /\ module = file)

FInv == Typed /\ Pending /\ Settled

-----------------------------------------------------------------------------
(* The instructions of a function.                                         *)

LEMMA InstsAre ==
  ASSUME NEW f, NEW i
  PROVE  i \in Insts(f) <=> \E b \in DOMAIN f.code : \E k \in DOMAIN f.code[b] : i = f.code[b][k]
BY DEF Insts, ToSet

LEMMA CodeIs ==
  ASSUME NEW f, NEW top, WellFormed(f, top), NEW b \in DOMAIN f.code
  PROVE  /\ Len(f.code[b]) \in Nat /\ DOMAIN f.code[b] = 1 .. Len(f.code[b])
         /\ \A k \in 1 .. Len(f.code[b]) :
              /\ f.code[b][k] \in ToSet(f.code[b]) /\ f.code[b][k] \in Insts(f)
              /\ IsInst(f.code[b][k]) /\ f.code[b][k].name \in 1 .. top
<1>1. f.code[b] \in Seq(ToSet(f.code[b])) /\ \A i \in ToSet(f.code[b]) : IsInst(i) /\ i.name \in 1 .. top
  BY DEF WellFormed
<1>2. Len(f.code[b]) \in Nat /\ DOMAIN f.code[b] = 1 .. Len(f.code[b])
  BY <1>1, LenProperties
<1>3. \A k \in 1 .. Len(f.code[b]) : f.code[b][k] \in ToSet(f.code[b])
  BY <1>2 DEF ToSet
<1>. QED  BY <1>1, <1>2, <1>3 DEF Insts

\* A name has one place.
LEMMA PlaceIs ==
  ASSUME NEW f, NEW top, WellFormed(f, top), NEW i \in Insts(f)
  PROVE  \E b \in DOMAIN f.code : \E k \in 1 .. Len(f.code[b]) :
           f.code[b][k] = i /\ Place(f, i.name) = <<b, k>> /\ InstOf(f, i.name) = i
<1>1. PICK b \in DOMAIN f.code : \E k \in DOMAIN f.code[b] : f.code[b][k] = i
  BY InstsAre
<1>2. PICK k \in DOMAIN f.code[b] : f.code[b][k] = i
  BY <1>1
<1>. DEFINE P == UNION {{c} \X DOMAIN f.code[c] : c \in DOMAIN f.code}
<1>3. <<b, k>> \in P
  <2>1. <<b, k>> \in {b} \X DOMAIN f.code[b]
    OBVIOUS
  <2>. QED  BY <2>1
<1>4. \A p \in P : f.code[p[1]][p[2]].name = i.name <=> p = <<b, k>>
  <2>. TAKE p \in P
  <2>1. PICK c \in DOMAIN f.code : p \in {c} \X DOMAIN f.code[c]
    OBVIOUS
  <2>2. PICK j \in DOMAIN f.code[c] : p = <<c, j>>
    BY <2>1
  <2>3. f.code[c][j].name = i.name => c = b /\ j = k
    BY <1>2 DEF WellFormed, UniqueNames
  <2>. QED  BY <1>2, <2>2, <2>3
<1>5. Place(f, i.name) = CHOOSE p \in P : f.code[p[1]][p[2]].name = i.name
  BY DEF Place
<1>. HIDE DEF P
<1>6. Place(f, i.name) = <<b, k>>
  BY <1>3, <1>4, <1>5
<1>7. InstOf(f, i.name) = i
  BY <1>2, <1>6 DEF InstOf
<1>8. k \in 1 .. Len(f.code[b])
  BY CodeIs
<1>. QED  BY <1>2, <1>6, <1>7, <1>8

LEMMA OneOfName ==
  ASSUME NEW f, NEW top, WellFormed(f, top), NEW i \in Insts(f), NEW j \in Insts(f), i.name = j.name
  PROVE  i = j
<1>1. InstOf(f, i.name) = i /\ InstOf(f, j.name) = j
  BY PlaceIs
<1>. QED  BY <1>1

\* What else there is to a function stays.
SameFrame(f, g) ==
  /\ DOMAIN g = DOMAIN f /\ g.entry = f.entry /\ g.optnone = f.optnone
  /\ g.main = f.main /\ g.type = f.type /\ g.args = f.args

\* Instructions as a tool sees them: of a PHI the entries may change.
Alike(i, j) == i.name = j.name /\ i.op = j.op /\ (i.op # "phi" => i = j)

LEMMA ReplaceInstIs ==
  ASSUME NEW f, NEW top \in Nat, WellFormed(f, top), NEW i \in Insts(f),
         NEW M \in Nat, top <= M, NEW S, NEW s \in Seq(S),
         \A j \in ToSet(s) : IsInst(j) /\ j.name \in {i.name} \cup (top + 1 .. M),
         \A j, k \in DOMAIN s : s[j].name = s[k].name => j = k
  PROVE  LET g == ReplaceInst(f, i.name, s)
             p == Place(f, i.name)
         IN  /\ WellFormed(g, M) /\ SameFrame(f, g) /\ g.last = f.last
             /\ DOMAIN g.code = DOMAIN f.code
             /\ \A j \in Insts(f) : j # i => j \in Insts(g)
             /\ \A j \in Insts(g) : j \in ToSet(s) \/ (j \in Insts(f) /\ j # i)
             /\ ToSet(s) \subseteq Insts(g)
             /\ p[1] \in DOMAIN f.code /\ p[2] \in 1 .. Len(f.code[p[1]])
             /\ Len(g.code[p[1]]) = Len(f.code[p[1]]) + Len(s) - 1
<1>. DEFINE g == ReplaceInst(f, i.name, s)
            p == Place(f, i.name)
<1>1. PICK b \in DOMAIN f.code : \E k \in 1 .. Len(f.code[b]) :
        f.code[b][k] = i /\ p = <<b, k>>
  BY PlaceIs
<1>2. PICK q \in 1 .. Len(f.code[b]) : f.code[b][q] = i /\ p = <<b, q>>
  BY <1>1
<1>. DEFINE code == f.code[b]
            new == Spliced(code, q, s)
            r == Len(s)
            T == ToSet(code) \cup ToSet(s)
<1>3. /\ code \in Seq(T) /\ s \in Seq(T) /\ s \in Seq(ToSet(s)) /\ DOMAIN s = 1 .. r /\ r \in Nat
      /\ Len(code) \in Nat /\ DOMAIN code = 1 .. Len(code)
  <2>1. code \in Seq(ToSet(code)) /\ Len(code) \in Nat /\ DOMAIN code = 1 .. Len(code)
    BY CodeIs DEF WellFormed
  <2>2. s \in Seq(ToSet(s)) /\ DOMAIN s = 1 .. r /\ r \in Nat
    BY OwnElements, LenProperties
  <2>3. ToSet(code) \subseteq T /\ ToSet(s) \subseteq T
    OBVIOUS
  <2>. HIDE DEF T
  <2>. QED  BY <2>1, <2>2, <2>3, SeqMonotonic
<1>4. /\ DOMAIN g = DOMAIN f /\ DOMAIN g.code = DOMAIN f.code
      /\ g.code[b] = new /\ \A c \in DOMAIN f.code : c # b => g.code[c] = f.code[c]
      /\ g.br = f.br /\ g.layout = f.layout /\ g.last = f.last /\ SameFrame(f, g)
  <2>1. DOMAIN f = {"type", "main", "optnone", "args", "entry", "last", "layout", "code", "br"}
    BY DEF WellFormed
  <2>2. g = [f EXCEPT !.code = [@ EXCEPT ![b] = new]]
    BY <1>2 DEF ReplaceInst, Spliced
  <2>. HIDE DEF g, new
  <2>3. DOMAIN g = DOMAIN f /\ g.code = [f.code EXCEPT ![b] = new]
        /\ g.br = f.br /\ g.layout = f.layout /\ g.last = f.last
        /\ g.entry = f.entry /\ g.optnone = f.optnone /\ g.main = f.main /\ g.type = f.type /\ g.args = f.args
    BY <2>1, <2>2
  <2>. QED  BY <2>3 DEF SameFrame
<1>5. /\ new \in Seq(T) /\ Len(new) = Len(code) + r - 1
      /\ \A k \in 1 .. q - 1 : new[k] = code[k]
      /\ \A k \in q .. q + r - 1 : new[k] = s[k - q + 1]
      /\ \A k \in q + r .. Len(code) + r - 1 : new[k] = code[k - r + 1]
  <2>. DEFINE c == Spliced(code, q, s)
  <2>1. code \in Seq(T) /\ s \in Seq(T) /\ q \in 1 .. Len(code)
    BY <1>2, <1>3
  <2>. HIDE DEF T, code
  <2>2. /\ c \in Seq(T) /\ Len(c) = Len(code) + Len(s) - 1
        /\ \A k \in 1 .. q - 1 : c[k] = code[k]
        /\ \A k \in q .. q + Len(s) - 1 : c[k] = s[k - q + 1]
        /\ \A k \in q + Len(s) .. Len(code) + Len(s) - 1 : c[k] = code[k - Len(s) + 1]
    BY <2>1, SpliceIs
  <2>. HIDE DEF c
  <2>3. new = c
    BY DEF c
  <2>. QED  BY <2>2, <2>3
<1>. HIDE DEF g, new, code
<1>6. DOMAIN new = 1 .. Len(code) + r - 1
  BY <1>5, LenProperties
\* Where the instruction at a place of the new code comes from.
<1>. DEFINE Inner(k) == q <= k /\ k <= q + r - 1
            Old(k) == IF k < q THEN k ELSE k - r + 1
<1>7. ASSUME NEW k \in DOMAIN new
      PROVE  /\ Inner(k) => k - q + 1 \in 1 .. r /\ new[k] = s[k - q + 1]
             /\ ~Inner(k) => Old(k) \in 1 .. Len(code) /\ Old(k) # q /\ new[k] = code[Old(k)]
  <2>1. k \in Int /\ q \in 1 .. Len(code) /\ r \in Nat /\ Len(code) \in Nat /\ k \in 1 .. Len(code) + r - 1
    BY <1>2, <1>3, <1>6 DEF code
  <2>2. CASE Inner(k)
    <3>1. k \in q .. q + r - 1 /\ k - q + 1 \in 1 .. r
      BY <2>1, <2>2
    <3>. QED  BY <1>5, <2>2, <3>1
  <2>3. CASE k < q
    <3>1. k \in 1 .. q - 1 /\ ~Inner(k) /\ Old(k) = k /\ k \in 1 .. Len(code) /\ k # q
      BY <2>1, <2>3
    <3>. QED  BY <1>5, <3>1
  <2>4. CASE k > q + r - 1
    <3>1. k \in q + r .. Len(code) + r - 1 /\ ~Inner(k) /\ Old(k) = k - r + 1
          /\ k - r + 1 \in 1 .. Len(code) /\ k - r + 1 # q
      BY <2>1, <2>4
    <3>. QED  BY <1>5, <3>1
  <2>. QED  BY <2>1, <2>2, <2>3, <2>4
\* Where an old instruction, or a new one, went.
<1>8. /\ \A k \in 1 .. Len(code) : k # q => \E l \in DOMAIN new : new[l] = code[k]
      /\ \A k \in 1 .. r : \E l \in DOMAIN new : new[l] = s[k]
  <2>0. q \in 1 .. Len(code) /\ r \in Nat /\ Len(code) \in Nat
    BY <1>2, <1>3 DEF code
  <2>1. ASSUME NEW k \in 1 .. Len(code), k < q PROVE \E l \in DOMAIN new : new[l] = code[k]
    <3>1. k \in 1 .. q - 1 /\ k \in 1 .. Len(code) + r - 1
      BY <2>0, <2>1
    <3>. QED  BY <1>5, <1>6, <3>1
  <2>2. ASSUME NEW k \in 1 .. Len(code), k > q PROVE \E l \in DOMAIN new : new[l] = code[k]
    <3>1. PICK l \in 1 .. Len(code) + r - 1 :
            l = k + r - 1 /\ l \in q + r .. Len(code) + r - 1 /\ l - r + 1 = k
      <4>1. k + r - 1 \in 1 .. Len(code) + r - 1 /\ k + r - 1 \in q + r .. Len(code) + r - 1
            /\ (k + r - 1) - r + 1 = k
        BY <2>0, <2>2
      <4>. QED  BY <4>1
    <3>2. new[l] = code[k]
      BY <1>5, <3>1
    <3>. QED  BY <1>6, <3>1, <3>2
  <2>3. ASSUME NEW k \in 1 .. r PROVE \E l \in DOMAIN new : new[l] = s[k]
    <3>1. PICK l \in 1 .. Len(code) + r - 1 : l \in q .. q + r - 1 /\ l - q + 1 = k
      <4>1. /\ q + k - 1 \in 1 .. Len(code) + r - 1 /\ q + k - 1 \in q .. q + r - 1
            /\ (q + k - 1) - q + 1 = k
        BY <2>0
      <4>. QED  BY <4>1
    <3>2. new[l] = s[k]
      BY <1>5, <3>1
    <3>. QED  BY <1>6, <3>1, <3>2
  <2>. QED  BY <2>0, <2>1, <2>2, <2>3
<1>9. \A k \in 1 .. Len(code) : /\ IsInst(code[k]) /\ code[k].name \in 1 .. top /\ code[k] \in Insts(f)
                                /\ k # q => code[k].name # i.name /\ code[k] # i
                                /\ \A j \in 1 .. Len(code) : code[j].name = code[k].name => j = k
  <2>1. \A k \in 1 .. Len(code) : IsInst(code[k]) /\ code[k].name \in 1 .. top /\ code[k] \in Insts(f)
    BY CodeIs DEF code
  <2>2. \A j, k \in 1 .. Len(code) : code[j].name = code[k].name => j = k
    BY <1>3 DEF WellFormed, UniqueNames, code
  <2>3. code[q] = i /\ q \in 1 .. Len(code)
    BY <1>2 DEF code
  <2>. QED  BY <2>1, <2>2, <2>3
<1>10. \A k \in 1 .. r : /\ s[k] \in ToSet(s) /\ IsInst(s[k])
                         /\ s[k].name \in {i.name} \cup (top + 1 .. M)
                         /\ \A j \in 1 .. r : s[j].name = s[k].name => j = k
  <2>1. \A k \in 1 .. r : s[k] \in ToSet(s)
    BY <1>3 DEF ToSet
  <2>2. \A j, k \in 1 .. r : s[j].name = s[k].name => j = k
    BY <1>3
  <2>. QED  BY <2>1, <2>2
<1>. HIDE DEF Inner, Old, r
<1>11. ASSUME NEW k \in DOMAIN new
       PROVE  /\ new[k] \in ToSet(s) \/ (new[k] \in Insts(f) /\ new[k] # i)
              /\ IsInst(new[k]) /\ new[k].name \in 1 .. M
  <2>1. CASE Inner(k)
    <3>1. PICK j \in 1 .. r : new[k] = s[j]
      BY <1>7, <2>1
    <3>2. IsInst(s[j]) /\ s[j] \in ToSet(s) /\ s[j].name \in {i.name} \cup (top + 1 .. M)
      BY <1>10
    <3>3. i.name \in 1 .. M
      BY <1>2, <1>9 DEF code
    <3>. QED  BY <3>1, <3>2, <3>3
  <2>2. CASE ~Inner(k)
    <3>1. Old(k) \in 1 .. Len(code) /\ Old(k) # q /\ new[k] = code[Old(k)]
      BY <1>7, <2>2
    <3>2. code[Old(k)].name \in 1 .. M
      BY <1>9, <3>1
    <3>. QED  BY <1>9, <3>1, <3>2
  <2>. QED  BY <2>1, <2>2
<1>12. \A c \in DOMAIN f.code :
         c # b => \A k \in DOMAIN f.code[c] : f.code[c][k] \in Insts(f) /\ f.code[c][k] # i
  <2>. TAKE c \in DOMAIN f.code
  <2>. HAVE c # b
  <2>. TAKE k \in DOMAIN f.code[c]
  <2>1. f.code[c][k].name # f.code[b][q].name
    BY <1>3 DEF WellFormed, UniqueNames, code
  <2>2. f.code[c][k] \in Insts(f)
    BY InstsAre
  <2>. QED  BY <1>2, <2>1, <2>2
<1>13. ASSUME NEW j \in Insts(g)
       PROVE  j \in ToSet(s) \/ (j \in Insts(f) /\ j # i)
  <2>1. PICK c \in DOMAIN g.code : \E k \in DOMAIN g.code[c] : j = g.code[c][k]
    BY InstsAre
  <2>. QED  BY <1>4, <1>11, <1>12, <2>1
<1>14. ASSUME NEW j \in Insts(f), j # i
       PROVE  j \in Insts(g)
  <2>1. PICK c \in DOMAIN f.code : \E k \in DOMAIN f.code[c] : j = f.code[c][k]
    BY InstsAre
  <2>2. PICK k \in DOMAIN f.code[c] : j = f.code[c][k]
    BY <2>1
  <2>3. CASE c # b
    BY <1>4, <2>2, <2>3, InstsAre
  <2>4. CASE c = b
    <3>1. k \in 1 .. Len(code) /\ k # q /\ j = code[k]
      BY <1>2, <1>3, <1>14, <2>2, <2>4 DEF code
    <3>2. PICK l \in DOMAIN new : new[l] = j
      BY <1>8, <3>1
    <3>. QED  BY <1>4, <3>2, InstsAre
  <2>. QED  BY <2>3, <2>4
<1>15. ToSet(s) \subseteq Insts(g)
  <2>. SUFFICES ASSUME NEW j \in ToSet(s) PROVE j \in Insts(g)
    OBVIOUS
  <2>1. PICK k \in 1 .. r : s[k] = j
    <3>1. \E k \in DOMAIN s : s[k] = j
      BY DEF ToSet
    <3>. QED  BY <1>3, <3>1
  <2>2. PICK l \in DOMAIN new : new[l] = j
    BY <1>8, <2>1
  <2>. QED  BY <1>4, <2>2, InstsAre
<1>16. UniqueNames(g)
  <2>. SUFFICES ASSUME NEW c \in DOMAIN g.code, NEW d \in DOMAIN g.code,
                       NEW j \in DOMAIN g.code[c], NEW k \in DOMAIN g.code[d],
                       g.code[c][j].name = g.code[d][k].name
                PROVE  c = d /\ j = k
    BY DEF UniqueNames
  <2>1. \A e \in DOMAIN f.code : e # b => \A l \in DOMAIN f.code[e] :
           f.code[e][l].name \in 1 .. top /\ f.code[e][l].name # i.name
    <3>. TAKE e \in DOMAIN f.code
    <3>. HAVE e # b
    <3>. TAKE l \in DOMAIN f.code[e]
    <3>1. f.code[e][l].name # f.code[b][q].name
      BY <1>3 DEF WellFormed, UniqueNames, code
    <3>. QED  BY <1>2, <3>1, CodeIs
  \* No name of the new code is one of another block.
  <2>2. ASSUME NEW e \in DOMAIN f.code, e # b, NEW l \in DOMAIN f.code[e], NEW m \in DOMAIN new
        PROVE  f.code[e][l].name # new[m].name
    <3>1. CASE Inner(m)
      <4>1. PICK n \in 1 .. r : new[m] = s[n]
        BY <1>7, <3>1
      <4>2. new[m].name \in {i.name} \cup (top + 1 .. M)
        BY <1>10, <4>1
      <4>3. f.code[e][l].name \in 1 .. top /\ f.code[e][l].name # i.name
        BY <2>1, <2>2
      <4>. QED  BY <4>2, <4>3
    <3>2. CASE ~Inner(m)
      <4>1. Old(m) \in DOMAIN f.code[b] /\ new[m] = f.code[b][Old(m)]
        BY <1>3, <1>7, <3>2 DEF code
      <4>. QED  BY <2>2, <4>1 DEF WellFormed, UniqueNames
    <3>. QED  BY <3>1, <3>2
  <2>3. CASE c # b /\ d # b
    BY <1>4, <2>3 DEF WellFormed, UniqueNames
  <2>4. CASE c = b /\ d # b
    BY <1>4, <2>2, <2>4
  <2>5. CASE c # b /\ d = b
    BY <1>4, <2>2, <2>5
  <2>6. CASE c = b /\ d = b
    <3>1. j \in DOMAIN new /\ k \in DOMAIN new /\ new[j].name = new[k].name
      BY <1>4, <2>6
    <3>2. CASE Inner(j) /\ Inner(k)
      <4>1. j - q + 1 \in 1 .. r /\ k - q + 1 \in 1 .. r /\ s[j - q + 1].name = s[k - q + 1].name
        BY <1>7, <3>1, <3>2
      <4>2. j - q + 1 = k - q + 1
        BY <1>10, <4>1
      <4>3. j \in Int /\ k \in Int /\ q \in Int
        BY <1>2, <1>3, <1>6, <3>1 DEF r
      <4>. QED  BY <2>6, <4>2, <4>3
    <3>3. CASE ~Inner(j) /\ ~Inner(k)
      <4>1. /\ Old(j) \in 1 .. Len(code) /\ Old(j) # q /\ Old(k) \in 1 .. Len(code) /\ Old(k) # q
            /\ code[Old(j)].name = code[Old(k)].name
        BY <1>7, <3>1, <3>3
      <4>2. Old(j) = Old(k)
        BY <1>9, <4>1
      <4>3. j \in Int /\ k \in Int /\ q \in Int /\ r \in Nat
        BY <1>2, <1>3, <1>6, <3>1
      <4>. QED  BY <2>6, <3>3, <4>2, <4>3 DEF Old, Inner
    <3>4. \A m, n \in DOMAIN new : Inner(m) /\ ~Inner(n) => new[m].name # new[n].name
      <4>. TAKE m, n \in DOMAIN new
      <4>. HAVE Inner(m) /\ ~Inner(n)
      <4>1. PICK l \in 1 .. r : new[m] = s[l]
        BY <1>7
      <4>2. new[m].name \in {i.name} \cup (top + 1 .. M)
        BY <1>10, <4>1
      <4>3. new[n].name \in 1 .. top /\ new[n].name # i.name
        BY <1>7, <1>9
      <4>. QED  BY <4>2, <4>3
    <3>. QED  BY <3>1, <3>2, <3>3, <3>4
  <2>. QED  BY <2>3, <2>4, <2>5, <2>6
<1>17. WellFormed(g, M)
  <2>1. DOMAIN g.code \subseteq 1 .. M /\ g.entry \in DOMAIN g.code
    BY <1>4 DEF WellFormed, SameFrame
  <2>2. ASSUME NEW c \in DOMAIN g.code
        PROVE  /\ g.code[c] \in Seq(ToSet(g.code[c]))
               /\ \A j \in ToSet(g.code[c]) : IsInst(j) /\ j.name \in 1 .. M
    <3>1. CASE c = b
      <4>1. new \in Seq(ToSet(new))
        BY <1>5, OwnElements
      <4>2. \A j \in ToSet(new) : IsInst(j) /\ j.name \in 1 .. M
        BY <1>11 DEF ToSet
      <4>. QED  BY <1>4, <3>1, <4>1, <4>2
    <3>2. CASE c # b
      <4>1. g.code[c] = f.code[c] /\ c \in DOMAIN f.code
        BY <1>4, <3>2
      <4>2. /\ f.code[c] \in Seq(ToSet(f.code[c]))
            /\ \A j \in ToSet(f.code[c]) : IsInst(j) /\ j.name \in 1 .. top
        BY <4>1 DEF WellFormed
      <4>. QED  BY <4>1, <4>2
    <3>. QED  BY <3>1, <3>2
  <2>3. /\ DOMAIN g = {"type", "main", "optnone", "args", "entry", "last", "layout", "code", "br"}
        /\ DOMAIN g.br = DOMAIN g.code /\ \A c \in DOMAIN g.br : IsBr(g.br[c], DOMAIN g.code)
        /\ g.layout \in Seq(DOMAIN g.code) /\ ToSet(g.layout) = DOMAIN g.code /\ IsInjective(g.layout)
    BY <1>4 DEF WellFormed
  <2>. QED  BY <1>16, <2>1, <2>2, <2>3 DEF WellFormed
<1>18. /\ p[1] = b /\ p[2] = q /\ Len(g.code[b]) = Len(f.code[b]) + Len(s) - 1
  BY <1>2, <1>4, <1>5 DEF code, r
<1>. QED  BY <1>2, <1>4, <1>13, <1>14, <1>15, <1>17, <1>18 DEF g

-----------------------------------------------------------------------------
(* What is reached without a block.                                        *)

\* The blocks that r and a step from r reach.
OneMore(f, d, r) == r \cup ((UNION {ToSet(f.br[b].to) : b \in r}) \ {d})

IsReach(s, f, d, L) == s = [k \in 0 .. L |-> IF k = 0 THEN {f.entry} \ {d} ELSE OneMore(f, d, s[k - 1])]

LEMMA ReachExists ==
  ASSUME NEW f, NEW d, NEW L \in Nat
  PROVE  \E s : IsReach(s, f, d, L)
<1>. DEFINE A == {n \in 0 .. L : \E s : IsReach(s, f, d, n)}
            X == {f.entry} \ {d}
            F(r) == OneMore(f, d, r)
<1>. HIDE DEF X, F
<1>0. \A s, n : IsReach(s, f, d, n) <=> s = [k \in 0 .. n |-> IF k = 0 THEN X ELSE F(s[k - 1])]
  BY DEF IsReach, X, F
<1>1. 0 \in A
  <2>. DEFINE s == [k \in 0 .. 0 |-> X]
  <2>1. s = [k \in 0 .. 0 |-> IF k = 0 THEN X ELSE F(s[k - 1])]
    <3>1. \A k \in 0 .. 0 : k = 0
      OBVIOUS
    <3>. QED  BY <3>1
  <2>. HIDE DEF s
  <2>. QED  BY <1>0, <2>1
<1>2. ASSUME NEW n \in 0 .. L - 1, n \in A PROVE n + 1 \in A
  <2>1. PICK s : IsReach(s, f, d, n)
    BY <1>2
  <2>. DEFINE next == [k \in 0 .. n + 1 |-> IF k = n + 1 THEN F(s[n]) ELSE s[k]]
  <2>2. \A k \in 0 .. n : s[k] = IF k = 0 THEN X ELSE F(s[k - 1])
    <3>1. s = [k \in 0 .. n |-> IF k = 0 THEN X ELSE F(s[k - 1])]
      BY <1>0, <2>1
    <3>. DEFINE t == [k \in 0 .. n |-> IF k = 0 THEN X ELSE F(s[k - 1])]
    <3>2. \A k \in 0 .. n : t[k] = IF k = 0 THEN X ELSE F(s[k - 1])
      OBVIOUS
    <3>3. s = t
      BY <3>1
    <3>. HIDE DEF t
    <3>. QED  BY <3>2, <3>3
  <2>3. ASSUME NEW k \in 0 .. n + 1
        PROVE  next[k] = IF k = 0 THEN X ELSE F(next[k - 1])
    <3>1. CASE k = 0
      <4>1. k \in 0 .. n /\ k # n + 1
        BY <3>1
      <4>. QED  BY <2>2, <3>1, <4>1
    <3>2. CASE k # 0 /\ k = n + 1
      <4>1. k - 1 = n /\ n \in 0 .. n + 1 /\ n # n + 1
        BY <3>2
      <4>2. next[k] = F(s[n]) /\ next[k - 1] = s[n]
        BY <3>2, <4>1
      <4>. QED  BY <3>2, <4>2
    <3>3. CASE k # 0 /\ k # n + 1
      <4>1. k - 1 \in 0 .. n + 1 /\ k - 1 # n + 1 /\ k \in 0 .. n
        BY <3>3
      <4>2. next[k - 1] = s[k - 1] /\ next[k] = s[k]
        BY <3>3, <4>1
      <4>. QED  BY <2>2, <3>3, <4>1, <4>2
    <3>. QED  BY <3>1, <3>2, <3>3
  <2>4. next = [k \in 0 .. n + 1 |-> next[k]]
    OBVIOUS
  <2>. HIDE DEF next
  <2>5. next = [k \in 0 .. n + 1 |-> IF k = 0 THEN X ELSE F(next[k - 1])]
    BY <2>3, <2>4
  <2>6. n + 1 \in 0 .. L
    OBVIOUS
  <2>. QED  BY <1>0, <2>5, <2>6
<1>. HIDE DEF A
<1>3. L \in A
  BY <1>1, <1>2, UpTo
<1>. QED  BY <1>3 DEF A

\* A set of blocks that holds the entry and the successors of its own, d apart.
Closed(f, d, S) ==
  /\ f.entry # d => f.entry \in S
  /\ \A c \in S : ToSet(f.br[c].to) \ {d} \subseteq S

\* It is the smallest such set.
LEMMA ReachedIs ==
  ASSUME NEW f, NEW top, WellFormed(f, top), top \in Nat, NEW d
  PROVE  /\ ReachedWithout(f, d) \subseteq DOMAIN f.br
         /\ Closed(f, d, ReachedWithout(f, d))
         /\ \A S : Closed(f, d, S) => ReachedWithout(f, d) \subseteq S
<1>. DEFINE D == DOMAIN f.br
            N == Cardinality(D)
            R == ReachedWithout(f, d)
<1>1. IsFiniteSet(D) /\ N \in Nat /\ f.entry \in D /\ \A b \in D : ToSet(f.br[b].to) \subseteq D
  <2>1. D \subseteq 1 .. top /\ f.entry \in D /\ \A b \in D : f.br[b].to \in Seq(D)
    BY DEF WellFormed, IsBr
  <2>2. IsFiniteSet(1 .. top)
    BY FS_Interval
  <2>3. IsFiniteSet(D) /\ N \in Nat
    BY <2>1, <2>2, FS_Subset, FS_CardinalityType
  <2>. QED  BY <2>1, <2>3, OwnElements
<1>. DEFINE s == CHOOSE s : IsReach(s, f, d, N)
<1>2. R = s[N]
  BY DEF ReachedWithout, IsReach, OneMore
<1>3. IsReach(s, f, d, N)
  BY <1>1, ReachExists
<1>. HIDE DEF s, R, N, D
<1>4. \A k \in 0 .. N : s[k] = IF k = 0 THEN {f.entry} \ {d} ELSE OneMore(f, d, s[k - 1])
  BY <1>3, Zenon DEF IsReach
<1>5. s[0] = {f.entry} \ {d} /\ \A k \in 0 .. N - 1 : s[k + 1] = OneMore(f, d, s[k])
  <2>1. 0 \in 0 .. N
    BY <1>1
  <2>2. ASSUME NEW k \in 0 .. N - 1 PROVE s[k + 1] = OneMore(f, d, s[k])
    <3>1. PICK m \in 0 .. N : m = k + 1 /\ m # 0 /\ m - 1 = k
      BY <1>1
    <3>. QED  BY <1>4, <3>1
  <2>. QED  BY <1>4, <2>1, <2>2
\* Everything is reached within a closed set, and within the blocks.
<1>6. ASSUME NEW S, Closed(f, d, S) PROVE R \subseteq S
  <2>. DEFINE A == {k \in 0 .. N : s[k] \subseteq S}
  <2>1. 0 \in A
    BY <1>1, <1>5, <1>6 DEF Closed
  <2>2. ASSUME NEW k \in 0 .. N - 1, k \in A PROVE k + 1 \in A
    <3>1. s[k + 1] = OneMore(f, d, s[k]) /\ k + 1 \in 0 .. N
      BY <1>1, <1>5
    <3>2. s[k] \subseteq S
      BY <2>2
    <3>3. OneMore(f, d, s[k]) \subseteq S
      BY <1>6, <3>2 DEF Closed, OneMore
    <3>. QED  BY <3>1, <3>3
  <2>. HIDE DEF A
  <2>3. N \in A
    <3>1. N \in 0 .. N
      BY <1>1
    <3>. QED  BY <1>1, <2>1, <2>2, <3>1, UpTo
  <2>. QED  BY <1>2, <2>3 DEF A
<1>7. Closed(f, d, D)
  BY <1>1 DEF Closed
\* Each step adds a block, or none does from there on.
<1>8. ASSUME NEW r, r \subseteq D, f.entry # d => f.entry \in r, OneMore(f, d, r) = r
      PROVE  Closed(f, d, r)
  <2>1. \A c \in r : ToSet(f.br[c].to) \ {d} \subseteq OneMore(f, d, r)
    BY DEF OneMore
  <2>. QED  BY <1>8, <2>1 DEF Closed
<1>9. Closed(f, d, R)
  <2>. DEFINE A == {k \in 0 .. N : /\ s[k] \subseteq D /\ (f.entry # d => f.entry \in s[k])
                                   /\ OneMore(f, d, s[k]) = s[k] \/ Cardinality(s[k]) > k}
  <2>1. 0 \in A
    <3>1. CASE f.entry = d
      <4>1. s[0] = {}
        BY <1>5, <3>1
      <4>2. OneMore(f, d, {}) = {}
        BY DEF OneMore
      <4>3. OneMore(f, d, s[0]) = s[0]
        BY <4>1, <4>2
      <4>4. s[0] \subseteq D /\ 0 \in 0 .. N
        BY <1>1, <4>1
      <4>. QED  BY <3>1, <4>3, <4>4
    <3>2. CASE f.entry # d
      <4>1. s[0] = {f.entry}
        BY <1>5, <3>2
      <4>2. Cardinality({f.entry}) = 1
        BY FS_Singleton
      <4>. QED  BY <1>1, <4>1, <4>2
    <3>. QED  BY <3>1, <3>2
  <2>2. ASSUME NEW k \in 0 .. N - 1, k \in A PROVE k + 1 \in A
    <3>. DEFINE r == s[k]
                t == s[k + 1]
    <3>1. t = OneMore(f, d, r) /\ k + 1 \in 0 .. N
      BY <1>1, <1>5
    <3>2. /\ r \subseteq D /\ (f.entry # d => f.entry \in r)
          /\ OneMore(f, d, r) = r \/ Cardinality(r) > k
      BY <2>2
    <3>. HIDE DEF r, t
    <3>3. t \subseteq D /\ r \subseteq t
      BY <1>1, <3>1, <3>2 DEF OneMore
    <3>4. CASE OneMore(f, d, r) = r
      BY <3>1, <3>2, <3>4 DEF t
    <3>5. CASE OneMore(f, d, r) # r
      <4>1. IsFiniteSet(t) /\ IsFiniteSet(r)
        BY <1>1, <3>3, FS_Subset
      <4>2. Cardinality(r) < Cardinality(t)
        BY <3>1, <3>3, <3>5, <4>1, FS_Subset, FS_CardinalityType
      <4>3. Cardinality(r) \in Nat /\ Cardinality(t) \in Nat
        BY <4>1, FS_CardinalityType
      <4>4. Cardinality(t) > k + 1
        BY <3>2, <3>5, <4>2, <4>3
      <4>. QED  BY <3>1, <3>2, <3>3, <4>4 DEF t
    <3>. QED  BY <3>4, <3>5
  <2>. HIDE DEF A
  <2>3. N \in A
    <3>1. N \in 0 .. N
      BY <1>1
    <3>. QED  BY <1>1, <2>1, <2>2, <3>1, UpTo
  <2>4. /\ R \subseteq D /\ (f.entry # d => f.entry \in R)
        /\ OneMore(f, d, R) = R \/ Cardinality(R) > N
    BY <1>2, <2>3 DEF A
  <2>5. Cardinality(R) <= N /\ Cardinality(R) \in Nat
    BY <1>1, <2>4, FS_Subset, FS_CardinalityType DEF N
  <2>. QED  BY <1>1, <1>8, <2>4, <2>5
<1>. QED  BY <1>6, <1>7, <1>9 DEF R, D

-----------------------------------------------------------------------------
(* The names that an operand may have.                                     *)

\* In the block b, at its k-th instruction, and where it is left.
Above(f, b) == f.args \cup UNION {Names(f, d) : d \in {c \in DOMAIN f.br \ {b} : b \notin ReachedWithout(f, c)}}
Known(f, b, k) == Above(f, b) \cup {f.code[b][j].name : j \in 1 .. k - 1}
Leaving(f, b) == Above(f, b) \cup Names(f, b)

Defined(o, names) == o[1] = "val" => o[2] \in names

PhiFits(f, b, k) ==
  /\ DOMAIN f.code[b][k].in = Preds(f, b)
  /\ \A j \in 1 .. k : f.code[b][j].op = "phi"
  /\ \A p \in Preds(f, b) : Defined(f.code[b][k].in[p], Leaving(f, p))

Fits(f, b, k) ==
  IF f.code[b][k].op = "phi" THEN PhiFits(f, b, k)
  ELSE Defined(f.code[b][k].x, Known(f, b, k)) /\ Defined(f.code[b][k].y, Known(f, b, k))

LEMMA DominateIs ==
  ASSUME NEW f, DOMAIN f.br = DOMAIN f.code
  PROVE  OperandsDominate(f) <=>
           \A b \in DOMAIN f.code : /\ \A k \in DOMAIN f.code[b] : Fits(f, b, k)
                                    /\ Defined(f.br[b].cond, Leaving(f, b))
<1>. DEFINE dom == Dominance(f)
            above(b) == f.args \cup UNION {Names(f, d) : d \in {c \in DOMAIN f.br \ {b} : <<c, b>> \in dom}}
            before(b, k) == above(b) \cup {f.code[b][j].name : j \in 1 .. k - 1}
            known(o, names) == o[1] = "val" => o[2] \in names
            check(b, k) == IF f.code[b][k].op = "phi"
                           THEN /\ DOMAIN f.code[b][k].in = Preds(f, b)
                                /\ \A j \in 1 .. k : f.code[b][j].op = "phi"
                                /\ \A p \in Preds(f, b) : known(f.code[b][k].in[p], above(p) \cup Names(f, p))
                           ELSE known(f.code[b][k].x, before(b, k)) /\ known(f.code[b][k].y, before(b, k))
<1>1. OperandsDominate(f) <=>
        \A b \in DOMAIN f.code : /\ \A k \in DOMAIN f.code[b] : check(b, k)
                                 /\ known(f.br[b].cond, above(b) \cup Names(f, b))
  BY DEF OperandsDominate
<1>2. ASSUME NEW b \in DOMAIN f.br PROVE above(b) = Above(f, b)
  <2>1. \A c \in DOMAIN f.br : <<c, b>> \in dom <=> b \notin ReachedWithout(f, c)
    BY DEF Dominance
  <2>. HIDE DEF dom
  <2>2. {c \in DOMAIN f.br \ {b} : <<c, b>> \in dom} = {c \in DOMAIN f.br \ {b} : b \notin ReachedWithout(f, c)}
    BY <2>1
  <2>. QED  BY <2>2 DEF Above
<1>. HIDE DEF above
<1>3. ASSUME NEW b \in DOMAIN f.code, NEW k PROVE check(b, k) <=> Fits(f, b, k)
  <2>1. above(b) = Above(f, b)
    BY <1>2
  <2>2. before(b, k) = Known(f, b, k)
    BY <2>1 DEF Known
  <2>3. \A p \in Preds(f, b) : above(p) \cup Names(f, p) = Leaving(f, p)
    BY <1>2 DEF Preds, Leaving
  <2>. HIDE DEF before
  <2>. QED  BY <2>2, <2>3 DEF Fits, PhiFits, Defined
<1>4. \A b \in DOMAIN f.code : above(b) \cup Names(f, b) = Leaving(f, b)
  BY <1>2 DEF Leaving
<1>. HIDE DEF check
<1>. QED  BY <1>1, <1>3, <1>4 DEF Defined

LEMMA AboveIs ==
  ASSUME NEW f, NEW b, NEW n
  PROVE  n \in Above(f, b) <=>
           \/ n \in f.args
           \/ \E c \in DOMAIN f.br \ {b} : b \notin ReachedWithout(f, c) /\ n \in Names(f, c)
BY DEF Above

\* An instruction that fits does so as well where more is known.
LEMMA FitsMore ==
  ASSUME NEW f, NEW b, NEW k, Fits(f, b, k), NEW g, NEW c, NEW l, g.code[c][l] = f.code[b][k],
         f.code[b][k].op # "phi" => Known(f, b, k) \subseteq Known(g, c, l),
         f.code[b][k].op = "phi" =>
           /\ Preds(g, c) = Preds(f, b) /\ \A j \in 1 .. l : g.code[c][j].op = "phi"
           /\ \A p \in Preds(f, b) : Leaving(f, p) \subseteq Leaving(g, p)
  PROVE  Fits(g, c, l)
<1>1. CASE f.code[b][k].op = "phi"
  <2>1. \A p \in Preds(f, b) : Defined(f.code[b][k].in[p], Leaving(f, p)) /\ DOMAIN f.code[b][k].in = Preds(f, b)
    BY <1>1 DEF Fits, PhiFits
  <2>2. \A p \in Preds(f, b) : Defined(f.code[b][k].in[p], Leaving(g, p))
    BY <1>1, <2>1 DEF Defined
  <2>3. DOMAIN f.code[b][k].in = Preds(f, b)
    BY <1>1 DEF Fits, PhiFits
  <2>. QED  BY <1>1, <2>2, <2>3 DEF Fits, PhiFits
<1>2. CASE f.code[b][k].op # "phi"
  BY <1>2 DEF Fits, Defined
<1>. QED  BY <1>1, <1>2

\* With the same blocks, what is reached stays, and what is above a block grows with the
\* names of the blocks.
LEMMA SameBlocks ==
  ASSUME NEW f, NEW g, NEW top \in Nat, WellFormed(f, top), NEW M \in Nat, WellFormed(g, M),
         g.br = f.br, g.entry = f.entry, g.args = f.args,
         \A c \in DOMAIN f.code : Names(f, c) \subseteq Names(g, c)
  PROVE  /\ \A c : Preds(g, c) = Preds(f, c)
         /\ \A c \in DOMAIN f.code : Above(f, c) \subseteq Above(g, c) /\ Leaving(f, c) \subseteq Leaving(g, c)
<1>1. ASSUME NEW d PROVE ReachedWithout(g, d) \subseteq ReachedWithout(f, d)
  <2>. DEFINE R == ReachedWithout(f, d)
  <2>1. Closed(f, d, R)
    BY ReachedIs
  <2>. HIDE DEF R
  <2>2. Closed(g, d, R)
    BY <2>1 DEF Closed
  <2>. QED  BY <2>2, ReachedIs DEF R
<1>2. ASSUME NEW c \in DOMAIN f.code PROVE Above(f, c) \subseteq Above(g, c)
  <2>. SUFFICES ASSUME NEW n \in Above(f, c), n \notin f.args PROVE n \in Above(g, c)
    BY AboveIs
  <2>1. PICK d \in DOMAIN f.br \ {c} : c \notin ReachedWithout(f, d) /\ n \in Names(f, d)
    BY AboveIs
  <2>2. c \notin ReachedWithout(g, d) /\ n \in Names(g, d) /\ d \in DOMAIN g.br \ {c}
    BY <1>1, <2>1 DEF WellFormed
  <2>. QED  BY <2>2, AboveIs
<1>. QED  BY <1>2 DEF Preds, Leaving

-----------------------------------------------------------------------------
(* An instruction, replaced.                                               *)

\* In g the sequence s, of length r, is in the place of the q-th instruction of b.
InPlace(f, g, b, q, L, s, r) ==
  /\ b \in DOMAIN f.code /\ L \in Nat /\ DOMAIN f.code[b] = 1 .. L /\ q \in 1 .. L /\ r \in Nat
  /\ SameFrame(f, g) /\ g.last = f.last /\ g.layout = f.layout /\ g.br = f.br
  /\ DOMAIN g.code = DOMAIN f.code /\ \A c \in DOMAIN f.code : c # b => g.code[c] = f.code[c]
  /\ DOMAIN g.code[b] = 1 .. L + r - 1
  /\ \A k \in 1 .. q - 1 : g.code[b][k] = f.code[b][k]
  /\ \A k \in q .. q + r - 1 : g.code[b][k] = s[k - q + 1]
  /\ \A k \in q + r .. L + r - 1 : g.code[b][k] = f.code[b][k - r + 1]

LEMMA ReplacedAt ==
  ASSUME NEW f, NEW top, WellFormed(f, top), NEW b \in DOMAIN f.code, NEW q \in 1 .. Len(f.code[b]),
         NEW S, NEW s \in Seq(S)
  PROVE  InPlace(f, ReplaceInst(f, f.code[b][q].name, s), b, q, Len(f.code[b]), s, Len(s))
<1>. DEFINE i == f.code[b][q]
            g == ReplaceInst(f, i.name, s)
            L == Len(f.code[b])
            r == Len(s)
            code == f.code[b]
            new == Spliced(code, q, s)
            T == ToSet(code) \cup S
<1>1. i \in Insts(f) /\ Place(f, i.name) = <<b, q>>
  <2>1. i \in Insts(f)
    BY CodeIs
  <2>2. PICK c \in DOMAIN f.code : \E k \in 1 .. Len(f.code[c]) : f.code[c][k] = i /\ Place(f, i.name) = <<c, k>>
    BY <2>1, PlaceIs
  <2>3. PICK k \in 1 .. Len(f.code[c]) : f.code[c][k] = i /\ Place(f, i.name) = <<c, k>>
    BY <2>2
  <2>4. k \in DOMAIN f.code[c] /\ q \in DOMAIN f.code[b]
    BY CodeIs
  <2>5. c = b /\ k = q
    BY <2>3, <2>4 DEF WellFormed, UniqueNames
  <2>. QED  BY <2>1, <2>3, <2>5
<1>2. DOMAIN f = {"type", "main", "optnone", "args", "entry", "last", "layout", "code", "br"}
  BY DEF WellFormed
<1>3. g = [f EXCEPT !.code = [@ EXCEPT ![b] = new]]
  <2>. HIDE DEF i
  <2>. QED  BY <1>1 DEF ReplaceInst, Spliced
<1>4. code \in Seq(T) /\ s \in Seq(T)
  <2>1. code \in Seq(ToSet(code))
    BY DEF WellFormed
  <2>2. ToSet(code) \subseteq T /\ S \subseteq T
    OBVIOUS
  <2>. HIDE DEF T, code
  <2>. QED  BY <2>1, <2>2, SeqMonotonic
<1>. HIDE DEF i, T, g
<1>5. /\ new \in Seq(T) /\ Len(new) = L + r - 1
      /\ \A k \in 1 .. q - 1 : new[k] = code[k]
      /\ \A k \in q .. q + r - 1 : new[k] = s[k - q + 1]
      /\ \A k \in q + r .. L + r - 1 : new[k] = code[k - r + 1]
  <2>. HIDE DEF code
  <2>1. q \in 1 .. Len(code)
    BY DEF code
  <2>. DEFINE c == Spliced(code, q, s)
  <2>2. /\ c \in Seq(T) /\ Len(c) = Len(code) + Len(s) - 1
        /\ \A k \in 1 .. q - 1 : c[k] = code[k]
        /\ \A k \in q .. q + Len(s) - 1 : c[k] = s[k - q + 1]
        /\ \A k \in q + Len(s) .. Len(code) + Len(s) - 1 : c[k] = code[k - Len(s) + 1]
    BY <1>4, <2>1, SpliceIs
  <2>. HIDE DEF c
  <2>3. new = c /\ L = Len(code)
    BY DEF c, code
  <2>. QED  BY <2>2, <2>3
<1>. HIDE DEF new
<1>6. /\ g.code = [f.code EXCEPT ![b] = new] /\ g.br = f.br /\ g.layout = f.layout /\ g.last = f.last
      /\ SameFrame(f, g)
  BY <1>2, <1>3 DEF SameFrame
<1>7. DOMAIN new = 1 .. L + r - 1
  BY <1>5, LenProperties
<1>8. g.code[b] = new /\ DOMAIN g.code = DOMAIN f.code /\ \A c \in DOMAIN f.code : c # b => g.code[c] = f.code[c]
  BY <1>6
<1>9. DOMAIN code = 1 .. L /\ L \in Nat /\ r \in Nat /\ q \in 1 .. L
  BY CodeIs, LenProperties
<1>. HIDE DEF L, r
<1>10. InPlace(f, g, b, q, L, s, r)
  BY <1>5, <1>6, <1>7, <1>8, <1>9 DEF InPlace
<1>. QED  BY <1>10 DEF g, i, L, r

\* Whatever takes the place of an instruction, itself among it, knows what that knew.
LEMMA ReplaceKnown ==
  ASSUME NEW f, NEW top \in Nat, WellFormed(f, top), NEW g, NEW M \in Nat, WellFormed(g, M),
         NEW b, NEW q, NEW L, NEW s, NEW r, InPlace(f, g, b, q, L, s, r),
         NEW m \in 1 .. r, s[m].name = f.code[b][q].name
  PROVE  /\ \A c : Preds(g, c) = Preds(f, c)
         /\ \A c \in DOMAIN f.code : Above(f, c) \subseteq Above(g, c) /\ Leaving(f, c) \subseteq Leaving(g, c)
         /\ \A k \in 1 .. q : Known(f, b, k) \subseteq Known(g, b, k)
         /\ \A k \in q + 1 .. L : Known(f, b, k) \subseteq Known(g, b, k + r - 1)
         /\ \A j \in 1 .. r : /\ Known(f, b, q) \subseteq Known(g, b, q + j - 1)
                                   /\ \A n \in 1 .. j - 1 : s[n].name \in Known(g, b, q + j - 1)
<1>0. b \in DOMAIN f.code /\ L \in Nat /\ DOMAIN f.code[b] = 1 .. L /\ q \in 1 .. L /\ r \in Nat
  BY DEF InPlace
<1>1. /\ DOMAIN g.code = DOMAIN f.code /\ g.br = f.br /\ g.entry = f.entry /\ g.args = f.args
      /\ \A c \in DOMAIN f.code : c # b => g.code[c] = f.code[c]
      /\ DOMAIN g.code[b] = 1 .. L + r - 1
      /\ \A k \in 1 .. q - 1 : g.code[b][k] = f.code[b][k]
      /\ \A k \in q .. q + r - 1 : g.code[b][k] = s[k - q + 1]
      /\ \A k \in q + r .. L + r - 1 : g.code[b][k] = f.code[b][k - r + 1]
  BY DEF InPlace, SameFrame
<1>2. ASSUME NEW n \in 1 .. r PROVE q + n - 1 \in 1 .. L + r - 1 /\ g.code[b][q + n - 1] = s[n]
  <2>1. PICK k \in q .. q + r - 1 : k = q + n - 1 /\ k - q + 1 = n /\ k \in 1 .. L + r - 1
    <3>1. q + n - 1 \in q .. q + r - 1 /\ (q + n - 1) - q + 1 = n /\ q + n - 1 \in 1 .. L + r - 1
      BY <1>0
    <3>. QED  BY <3>1
  <2>. QED  BY <1>1, <2>1
<1>3. ASSUME NEW k \in q + 1 .. L PROVE k + r - 1 \in 1 .. L + r - 1 /\ g.code[b][k + r - 1] = f.code[b][k]
  <2>1. PICK l \in q + r .. L + r - 1 : l = k + r - 1 /\ l - r + 1 = k /\ l \in 1 .. L + r - 1
    <3>1. k + r - 1 \in q + r .. L + r - 1 /\ (k + r - 1) - r + 1 = k /\ k + r - 1 \in 1 .. L + r - 1
      BY <1>0
    <3>. QED  BY <3>1
  <2>. QED  BY <1>1, <2>1
\* Where the name of an instruction of b is now, and that it is before the same places.
<1>4. ASSUME NEW k \in 1 .. L
      PROVE  \E l \in 1 .. L + r - 1 : /\ g.code[b][l].name = f.code[b][k].name
                                       /\ k < q => l = k
                                       /\ k = q => l < q + r
                                       /\ k > q => l = k + r - 1
  <2>1. CASE k < q
    <3>1. k \in 1 .. q - 1 /\ k \in 1 .. L + r - 1 /\ ~ k = q /\ ~ k > q
      BY <1>0, <2>1
    <3>. QED  BY <1>1, <2>1, <3>1
  <2>2. CASE k = q
    <3>1. q + m - 1 \in 1 .. L + r - 1 /\ g.code[b][q + m - 1] = s[m] /\ q + m - 1 < q + r
      BY <1>0, <1>2
    <3>. QED  BY <1>0, <2>2, <3>1
  <2>3. CASE k > q
    <3>1. k \in q + 1 .. L /\ ~ k < q /\ ~ k = q
      BY <1>0, <2>3
    <3>. QED  BY <1>3, <2>3, <3>1
  <2>. QED  BY <1>0, <2>1, <2>2, <2>3
<1>5. ASSUME NEW c \in DOMAIN f.code PROVE Names(f, c) \subseteq Names(g, c)
  <2>1. CASE c # b
    BY <1>1, <2>1 DEF Names
  <2>2. CASE c = b
    <3>1. Names(f, b) = {f.code[b][k].name : k \in 1 .. L} /\ Names(g, b) = {g.code[b][l].name : l \in 1 .. L + r - 1}
      BY <1>0, <1>1 DEF Names
    <3>2. Names(f, b) \subseteq Names(g, b)
      BY <1>4, <3>1
    <3>. QED  BY <2>2, <3>2
  <2>. QED  BY <2>1, <2>2
<1>6. /\ \A c : Preds(g, c) = Preds(f, c)
      /\ \A c \in DOMAIN f.code : Above(f, c) \subseteq Above(g, c) /\ Leaving(f, c) \subseteq Leaving(g, c)
  BY <1>1, <1>5, SameBlocks
<1>7. ASSUME NEW k \in 1 .. L, NEW l \in Int, k <= q => l >= k, k > q => l >= k + r - 1
      PROVE  Known(f, b, k) \subseteq Known(g, b, l)
  <2>. SUFFICES ASSUME NEW j \in 1 .. k - 1 PROVE f.code[b][j].name \in Known(g, b, l)
    BY <1>0, <1>6 DEF Known
  <2>1. j \in 1 .. L
    BY <1>0
  <2>2. PICK h \in 1 .. L + r - 1 : /\ g.code[b][h].name = f.code[b][j].name
                                    /\ j < q => h = j
                                    /\ j = q => h < q + r
                                    /\ j > q => h = j + r - 1
    BY <1>4, <2>1
  <2>3. h \in 1 .. l - 1
    <3>1. CASE j < q
      BY <1>0, <1>7, <2>2, <3>1
    <3>2. CASE j = q
      BY <1>0, <1>7, <2>2, <3>2
    <3>3. CASE j > q
      BY <1>0, <1>7, <2>2, <3>3
    <3>. QED  BY <1>0, <3>1, <3>2, <3>3
  <2>. QED  BY <2>2, <2>3 DEF Known
<1>8. \A k \in 1 .. q : Known(f, b, k) \subseteq Known(g, b, k)
  <2>. TAKE k \in 1 .. q
  <2>1. k \in 1 .. L /\ k \in Int /\ ~ k > q /\ k >= k
    BY <1>0
  <2>. QED  BY <1>7, <2>1
<1>9. \A k \in q + 1 .. L : Known(f, b, k) \subseteq Known(g, b, k + r - 1)
  <2>. TAKE k \in q + 1 .. L
  <2>1. k \in 1 .. L /\ k + r - 1 \in Int /\ ~ k <= q /\ k + r - 1 >= k + r - 1
    BY <1>0
  <2>. QED  BY <1>7, <2>1
<1>10. ASSUME NEW j \in 1 .. r
       PROVE  /\ Known(f, b, q) \subseteq Known(g, b, q + j - 1)
              /\ \A n \in 1 .. j - 1 : s[n].name \in Known(g, b, q + j - 1)
  <2>1. q + j - 1 \in Int /\ q + j - 1 >= q /\ ~ q > q /\ q \in 1 .. L
    BY <1>0
  <2>2. Known(f, b, q) \subseteq Known(g, b, q + j - 1)
    BY <1>7, <2>1
  <2>3. ASSUME NEW n \in 1 .. j - 1 PROVE s[n].name \in Known(g, b, q + j - 1)
    <3>1. n \in 1 .. r /\ q + n - 1 \in 1 .. (q + j - 1) - 1
      BY <1>0
    <3>2. g.code[b][q + n - 1] = s[n]
      BY <1>2, <3>1
    <3>. QED  BY <3>1, <3>2 DEF Known
  <2>. QED  BY <2>2, <2>3
<1>. QED  BY <1>6, <1>8, <1>9, <1>10

\* If all that takes the place of an instruction fits there, the whole function does.
LEMMA ReplaceDominates ==
  ASSUME NEW f, NEW top \in Nat, WellFormed(f, top), OperandsDominate(f), NEW g, NEW M \in Nat, WellFormed(g, M),
         NEW b, NEW q, NEW L, NEW s, NEW r, InPlace(f, g, b, q, L, s, r), f.code[b][q].op # "phi",
         NEW m \in 1 .. r, s[m].name = f.code[b][q].name,
         \A j \in 1 .. r : Fits(g, b, q + j - 1)
  PROVE  OperandsDominate(g)
<1>0. b \in DOMAIN f.code /\ L \in Nat /\ DOMAIN f.code[b] = 1 .. L /\ q \in 1 .. L /\ r \in Nat
  BY DEF InPlace
<1>1. /\ DOMAIN g.code = DOMAIN f.code /\ g.br = f.br
      /\ \A c \in DOMAIN f.code : c # b => g.code[c] = f.code[c]
      /\ DOMAIN g.code[b] = 1 .. L + r - 1
      /\ \A k \in 1 .. q - 1 : g.code[b][k] = f.code[b][k]
      /\ \A k \in q + r .. L + r - 1 : g.code[b][k] = f.code[b][k - r + 1]
  BY DEF InPlace, SameFrame
<1>2. /\ \A c : Preds(g, c) = Preds(f, c)
      /\ \A c \in DOMAIN f.code : Above(f, c) \subseteq Above(g, c) /\ Leaving(f, c) \subseteq Leaving(g, c)
      /\ \A k \in 1 .. q : Known(f, b, k) \subseteq Known(g, b, k)
      /\ \A k \in q + 1 .. L : Known(f, b, k) \subseteq Known(g, b, k + r - 1)
  BY ReplaceKnown
<1>3. DOMAIN f.br = DOMAIN f.code /\ DOMAIN g.br = DOMAIN g.code
  BY <1>1 DEF WellFormed
<1>4. \A c \in DOMAIN f.code : /\ \A k \in DOMAIN f.code[c] : Fits(f, c, k)
                               /\ Defined(f.br[c].cond, Leaving(f, c))
  BY <1>3, DominateIs
<1>5. \A c, p : p \in Preds(f, c) => p \in DOMAIN f.code
  BY <1>3 DEF Preds
<1>6. ASSUME NEW c \in DOMAIN f.code, c # b, NEW k \in DOMAIN g.code[c] PROVE Fits(g, c, k)
  <2>1. g.code[c] = f.code[c] /\ Fits(f, c, k)
    BY <1>1, <1>4, <1>6
  <2>2. Known(f, c, k) \subseteq Known(g, c, k)
    BY <1>2, <2>1 DEF Known
  <2>3. f.code[c][k].op = "phi" => \A j \in 1 .. k : g.code[c][j].op = "phi"
    BY <2>1 DEF Fits, PhiFits
  <2>. QED  BY <1>2, <1>5, <2>1, <2>2, <2>3, FitsMore
<1>7. ASSUME NEW k \in 1 .. L, k # q
      PROVE  Fits(g, b, IF k < q THEN k ELSE k + r - 1)
  <2>1. Fits(f, b, k)
    BY <1>0, <1>4
  <2>2. CASE k < q
    <3>1. g.code[b][k] = f.code[b][k] /\ k \in 1 .. q /\ \A j \in 1 .. k : j \in 1 .. q - 1
      BY <1>0, <1>1, <2>2
    <3>2. f.code[b][k].op = "phi" => \A j \in 1 .. k : g.code[b][j].op = "phi"
      BY <1>1, <2>1, <3>1 DEF Fits, PhiFits
    <3>3. Known(f, b, k) \subseteq Known(g, b, k)
      BY <1>2, <3>1
    <3>4. Fits(g, b, k)
      BY <1>2, <1>5, <2>1, <3>1, <3>2, <3>3, FitsMore
    <3>. QED  BY <2>2, <3>4
  <2>3. CASE k > q
    <3>1. PICK l \in q + r .. L + r - 1 : l = k + r - 1 /\ l - r + 1 = k /\ ~ k < q /\ k \in q + 1 .. L /\ q \in 1 .. k
      <4>1. k + r - 1 \in q + r .. L + r - 1 /\ (k + r - 1) - r + 1 = k /\ ~ k < q /\ k \in q + 1 .. L /\ q \in 1 .. k
        BY <1>0, <2>3
      <4>. QED  BY <4>1
    <3>2. g.code[b][l] = f.code[b][k]
      BY <1>1, <3>1
    <3>3. f.code[b][k].op # "phi"
      BY <2>1, <3>1 DEF Fits, PhiFits
    <3>4. Known(f, b, k) \subseteq Known(g, b, l)
      BY <1>2, <3>1
    <3>5. Fits(g, b, l)
      BY <2>1, <3>2, <3>3, <3>4, FitsMore
    <3>. QED  BY <3>1, <3>5
  <2>. QED  BY <1>0, <1>7, <2>2, <2>3
<1>8. ASSUME NEW k \in DOMAIN g.code[b] PROVE Fits(g, b, k)
  <2>0. k \in 1 .. L + r - 1
    BY <1>1
  <2>1. CASE k < q
    <3>1. k \in 1 .. L /\ k # q
      BY <1>0, <2>0, <2>1
    <3>. QED  BY <1>7, <2>1, <3>1
  <2>2. CASE q <= k /\ k <= q + r - 1
    <3>1. k - q + 1 \in 1 .. r /\ q + (k - q + 1) - 1 = k
      BY <1>0, <2>0, <2>2
    <3>2. Fits(g, b, q + (k - q + 1) - 1)
      BY <3>1
    <3>. QED  BY <3>1, <3>2
  <2>3. CASE k > q + r - 1
    <3>1. PICK l \in 1 .. L : l = k - r + 1 /\ l # q /\ ~ l < q /\ l + r - 1 = k
      <4>1. k - r + 1 \in 1 .. L /\ k - r + 1 # q /\ ~ k - r + 1 < q /\ (k - r + 1) + r - 1 = k
        BY <1>0, <2>0, <2>3
      <4>. QED  BY <4>1
    <3>. QED  BY <1>7, <3>1
  <2>. QED  BY <1>0, <2>0, <2>1, <2>2, <2>3
<1>9. \A c \in DOMAIN g.code : Defined(g.br[c].cond, Leaving(g, c))
  BY <1>1, <1>2, <1>4 DEF Defined
<1>. QED  BY <1>1, <1>3, <1>6, <1>8, <1>9, DominateIs

-----------------------------------------------------------------------------
(* The blocks of a function, split.                                        *)

\* An instruction whose entries for b are entries for tail now.
Moved(i, j, b, tail) ==
  /\ Alike(i, j)
  /\ i.op = "phi" /\ tail \notin DOMAIN i.in =>
       /\ DOMAIN j.in = {IF p = b THEN tail ELSE p : p \in DOMAIN i.in}
       /\ \A p \in DOMAIN i.in : j.in[IF p = b THEN tail ELSE p] = i.in[p]

\* A block whose entries were renamed has the same instructions but for those entries.
LEMMA UpdatePhisIs ==
  ASSUME NEW f, NEW top, WellFormed(f, top), NEW b, NEW tail
  PROVE  LET g == UpdatePhis(f, b, tail)
         IN  /\ WellFormed(g, top) /\ SameFrame(f, g) /\ g.last = f.last
             /\ \A i \in Insts(f) : \E j \in Insts(g) : Alike(i, j)
             /\ \A j \in Insts(g) : \E i \in Insts(f) : Alike(i, j)
             /\ g.br = f.br /\ DOMAIN g.code = DOMAIN f.code
             /\ \A c \in DOMAIN f.code :
                  /\ DOMAIN g.code[c] = DOMAIN f.code[c]
                  /\ \A k \in DOMAIN f.code[c] : Moved(f.code[c][k], g.code[c][k], b, tail)
<1>. DEFINE g == UpdatePhis(f, b, tail)
            move(in) == [p \in {IF q = b THEN tail ELSE q : q \in DOMAIN in} |->
                           in[IF p = tail THEN b ELSE p]]
            moved(i) == IF i.op = "phi" /\ b \in DOMAIN i.in THEN [i EXCEPT !.in = move(@)] ELSE i
<1>1. ASSUME NEW i, IsInst(i)
      PROVE  IsInst(moved(i)) /\ Alike(i, moved(i)) /\ Moved(i, moved(i), b, tail)
  <2>1. CASE i.op = "phi" /\ b \in DOMAIN i.in
    <3>1. DOMAIN i = {"name", "op", "in"}
      BY <1>1, <2>1 DEF IsInst
    <3>2. moved(i) = [i EXCEPT !.in = move(i.in)]
      BY <2>1
    <3>. DEFINE in == i.in
    <3>3. /\ DOMAIN move(in) = {IF p = b THEN tail ELSE p : p \in DOMAIN in}
          /\ tail \notin DOMAIN in => \A p \in DOMAIN in : move(in)[IF p = b THEN tail ELSE p] = in[p]
      <4>. HIDE DEF in
      <4>. QED  OBVIOUS
    <3>. HIDE DEF move
    <3>4. /\ DOMAIN moved(i) = DOMAIN i /\ moved(i).name = i.name /\ moved(i).op = i.op
          /\ moved(i).in = move(in)
      BY <3>1, <3>2
    <3>. HIDE DEF moved
    <3>. QED  BY <2>1, <3>1, <3>3, <3>4 DEF IsInst, Alike, Moved
  <2>2. CASE ~(i.op = "phi" /\ b \in DOMAIN i.in)
    <3>1. moved(i) = i
      BY <2>2
    <3>. HIDE DEF moved
    <3>2. i.op = "phi" => \A p \in DOMAIN i.in : (IF p = b THEN tail ELSE p) = p
      BY <2>2
    <3>3. i.op = "phi" => DOMAIN i.in = {IF p = b THEN tail ELSE p : p \in DOMAIN i.in}
      BY <3>2
    <3>. QED  BY <1>1, <3>1, <3>2, <3>3 DEF Alike, Moved
  <2>. QED  BY <2>1, <2>2
<1>. HIDE DEF move
<1>2. g = [f EXCEPT !.code = [c \in DOMAIN f.code |-> [k \in DOMAIN f.code[c] |-> moved(f.code[c][k])]]]
  BY DEF UpdatePhis, move
<1>. HIDE DEF moved, g
<1>3. /\ DOMAIN g = DOMAIN f /\ SameFrame(f, g) /\ g.last = f.last /\ g.br = f.br /\ g.layout = f.layout
      /\ g.code = [c \in DOMAIN f.code |-> [k \in DOMAIN f.code[c] |-> moved(f.code[c][k])]]
  <2>1. DOMAIN f = {"type", "main", "optnone", "args", "entry", "last", "layout", "code", "br"}
    BY DEF WellFormed
  <2>. QED  BY <1>2, <2>1 DEF SameFrame
<1>4. DOMAIN g.code = DOMAIN f.code
  BY <1>3
<1>5. ASSUME NEW c \in DOMAIN f.code
      PROVE  /\ DOMAIN g.code[c] = DOMAIN f.code[c]
             /\ \A k \in DOMAIN f.code[c] : /\ IsInst(g.code[c][k]) /\ Alike(f.code[c][k], g.code[c][k])
                                            /\ Moved(f.code[c][k], g.code[c][k], b, tail)
                                            /\ g.code[c][k].name \in 1 .. top
             /\ g.code[c] \in Seq(ToSet(g.code[c]))
  <2>1. g.code[c] = [k \in DOMAIN f.code[c] |-> moved(f.code[c][k])]
    BY <1>3
  <2>2. DOMAIN g.code[c] = DOMAIN f.code[c]
    BY <2>1
  <2>3. \A k \in DOMAIN f.code[c] : g.code[c][k] = moved(f.code[c][k])
    BY <2>1
  <2>4. \A k \in DOMAIN f.code[c] : IsInst(f.code[c][k]) /\ f.code[c][k].name \in 1 .. top
    BY CodeIs
  <2>5. \A k \in DOMAIN f.code[c] : /\ IsInst(g.code[c][k]) /\ Alike(f.code[c][k], g.code[c][k])
                                    /\ Moved(f.code[c][k], g.code[c][k], b, tail)
    BY <1>1, <2>3, <2>4
  <2>6. \A k \in DOMAIN f.code[c] : g.code[c][k].name \in 1 .. top
    BY <2>4, <2>5 DEF Alike
  <2>7. g.code[c] \in Seq(ToSet(g.code[c]))
    <3>. DEFINE n == Len(f.code[c])
                T == ToSet(g.code[c])
                code == g.code[c]
    <3>1. n \in Nat /\ DOMAIN code = 1 .. n
      BY <2>2, CodeIs
    <3>2. \A k \in 1 .. n : code[k] \in T
      BY <3>1 DEF ToSet
    <3>3. code = [k \in 1 .. n |-> code[k]]
      BY <2>1, <3>1
    <3>. HIDE DEF n, T, code
    <3>4. code \in [1 .. n -> T]
      BY <3>2, <3>3
    <3>. QED  BY <3>1, <3>4, SeqDef DEF T, code
  <2>. QED  BY <2>2, <2>5, <2>6, <2>7
<1>6. \A i \in Insts(f) : \E j \in Insts(g) : Alike(i, j)
  <2>. TAKE i \in Insts(f)
  <2>1. PICK c \in DOMAIN f.code : \E k \in DOMAIN f.code[c] : i = f.code[c][k]
    BY InstsAre
  <2>2. PICK k \in DOMAIN f.code[c] : i = f.code[c][k]
    BY <2>1
  <2>3. g.code[c][k] \in Insts(g) /\ Alike(i, g.code[c][k])
    BY <1>4, <1>5, <2>2, InstsAre
  <2>. QED  BY <2>3
<1>7. \A j \in Insts(g) : \E i \in Insts(f) : Alike(i, j)
  <2>. TAKE j \in Insts(g)
  <2>1. PICK c \in DOMAIN g.code : \E k \in DOMAIN g.code[c] : j = g.code[c][k]
    BY InstsAre
  <2>2. PICK k \in DOMAIN g.code[c] : j = g.code[c][k]
    BY <2>1
  <2>3. c \in DOMAIN f.code /\ k \in DOMAIN f.code[c]
    BY <1>4, <1>5
  <2>4. f.code[c][k] \in Insts(f) /\ Alike(f.code[c][k], j)
    BY <1>5, <2>2, <2>3, InstsAre
  <2>. QED  BY <2>4
<1>8. UniqueNames(g)
  <2>. SUFFICES ASSUME NEW c \in DOMAIN g.code, NEW d \in DOMAIN g.code,
                       NEW j \in DOMAIN g.code[c], NEW k \in DOMAIN g.code[d],
                       g.code[c][j].name = g.code[d][k].name
                PROVE  c = d /\ j = k
    BY DEF UniqueNames
  <2>1. c \in DOMAIN f.code /\ d \in DOMAIN f.code /\ j \in DOMAIN f.code[c] /\ k \in DOMAIN f.code[d]
    BY <1>4, <1>5
  <2>2. f.code[c][j].name = f.code[d][k].name
    BY <1>5, <2>1 DEF Alike
  <2>. QED  BY <2>1, <2>2 DEF WellFormed, UniqueNames
<1>9. WellFormed(g, top)
  <2>1. /\ DOMAIN g = {"type", "main", "optnone", "args", "entry", "last", "layout", "code", "br"}
        /\ DOMAIN g.code \subseteq 1 .. top /\ g.entry \in DOMAIN g.code
        /\ DOMAIN g.br = DOMAIN g.code /\ \A c \in DOMAIN g.br : IsBr(g.br[c], DOMAIN g.code)
        /\ g.layout \in Seq(DOMAIN g.code) /\ ToSet(g.layout) = DOMAIN g.code /\ IsInjective(g.layout)
    BY <1>3, <1>4 DEF WellFormed, SameFrame
  <2>2. ASSUME NEW c \in DOMAIN g.code
        PROVE  /\ g.code[c] \in Seq(ToSet(g.code[c]))
               /\ \A i \in ToSet(g.code[c]) : IsInst(i) /\ i.name \in 1 .. top
    <3>1. c \in DOMAIN f.code
      BY <1>4
    <3>. QED  BY <1>5, <3>1 DEF ToSet
  <2>. QED  BY <1>8, <2>1, <2>2 DEF WellFormed
<1>. QED  BY <1>3, <1>4, <1>5, <1>6, <1>7, <1>9 DEF g

\* In g the block b of f is split before its q-th instruction.
IsSplit(f, g, b, q, L, cond, then, else, tail) ==
  /\ b \in DOMAIN f.code /\ L \in Nat /\ DOMAIN f.code[b] = 1 .. L /\ q \in 1 .. L + 1
  /\ {then, else, tail} \cap DOMAIN f.code = {} /\ then # else /\ then # tail /\ else # tail
  /\ DOMAIN g.code = DOMAIN f.code \cup {then, else, tail} /\ g.entry = f.entry /\ g.args = f.args
  /\ g.br[b].to = <<then, else>> /\ g.br[b].cond = cond /\ g.br[tail] = f.br[b]
  /\ \A c \in {then, else} : g.br[c].to = <<tail>> /\ g.br[c].cond = Bool(TRUE) /\ DOMAIN g.code[c] = {}
  /\ \A c \in {b, then, else} : ~g.br[c].user
  /\ DOMAIN g.code[b] = 1 .. q - 1
  /\ \A k \in 1 .. q - 1 : Moved(f.code[b][k], g.code[b][k], b, tail)
  /\ DOMAIN g.code[tail] = 1 .. L - q + 1
  /\ \A k \in 1 .. L - q + 1 : Moved(f.code[b][q + k - 1], g.code[tail][k], b, tail)
  /\ \A c \in DOMAIN f.code \ {b} :
       /\ g.br[c] = f.br[c] /\ DOMAIN g.code[c] = DOMAIN f.code[c]
       /\ \A k \in DOMAIN f.code[c] : Moved(f.code[c][k], g.code[c][k], b, tail)

LEMMA SplitIs ==
  ASSUME NEW f, NEW top \in Nat, WellFormed(f, top), NEW b \in DOMAIN f.code,
         NEW q \in 1 .. Len(f.code[b]) + 1, NEW cond,
         NEW M \in Nat, top <= M, NEW then \in top + 1 .. M, NEW else \in top + 1 .. M,
         NEW tail \in top + 1 .. M, then # else, then # tail, else # tail
  PROVE  LET g == SplitBlockAndInsertIfThenElse(f, b, q, cond, then, else, tail)
         IN  /\ WellFormed(g, M) /\ SameFrame(f, g) /\ g.last = f.last
             /\ \A i \in Insts(f) : \E j \in Insts(g) : Alike(i, j)
             /\ \A j \in Insts(g) : \E i \in Insts(f) : Alike(i, j)
             /\ IsSplit(f, g, b, q, Len(f.code[b]), cond, then, else, tail)
<1>. DEFINE old == DOMAIN f.code
            new == {then, else, tail}
            blocks == old \cup new
            s == f.code[b]
            front == SubSeq(s, 1, q - 1)
            back == SubSeq(s, q, Len(s))
            goto(c, to) == [cond |-> c, to |-> to, user |-> FALSE]
            code == [c \in blocks |->
                       CASE c = b -> front [] c = tail -> back
                         [] c \in {then, else} -> << >> [] OTHER -> f.code[c]]
            br == [c \in blocks |->
                     CASE c = b -> goto(cond, <<then, else>>) [] c = tail -> f.br[b]
                       [] c \in {then, else} -> goto(Bool(TRUE), <<tail>>) [] OTHER -> f.br[c]]
            layout == ReplaceFirstSubSeq(<<b, then, else, tail>>, <<b>>, f.layout)
            h == [f EXCEPT !.code = code, !.br = br, !.layout = layout]
            g == SplitBlockAndInsertIfThenElse(f, b, q, cond, then, else, tail)
<1>1. g = UpdatePhis(h, b, tail)
  BY DEF SplitBlockAndInsertIfThenElse
<1>2. /\ DOMAIN f = {"type", "main", "optnone", "args", "entry", "last", "layout", "code", "br"}
      /\ old \subseteq 1 .. top /\ f.entry \in old
      /\ DOMAIN f.br = old /\ \A c \in old : IsBr(f.br[c], old)
      /\ f.layout \in Seq(old) /\ ToSet(f.layout) = old /\ IsInjective(f.layout)
  BY DEF WellFormed
<1>3. /\ old \cap new = {} /\ b \in old /\ new \subseteq 1 .. M /\ old \subseteq 1 .. M
  BY <1>2
<1>. HIDE DEF code, br, layout, g
<1>4. /\ DOMAIN h = DOMAIN f /\ SameFrame(f, h) /\ h.last = f.last
      /\ h.code = code /\ h.br = br /\ h.layout = layout
  BY <1>2 DEF SameFrame
<1>. HIDE DEF h
<1>5. /\ DOMAIN code = blocks /\ code[b] = front /\ code[tail] = back
      /\ code[then] = << >> /\ code[else] = << >>
      /\ \A c \in old : c # b => code[c] = f.code[c]
  <2>. HIDE DEF front, back
  <2>1. DOMAIN code = blocks
    BY DEF code
  <2>2. code[b] = front
    BY <1>3 DEF code
  <2>3. b # tail /\ b # then /\ b # else
    BY <1>3
  <2>4. code[tail] = back
    BY <2>3 DEF code
  <2>5. code[then] = << >> /\ code[else] = << >>
    BY <2>3 DEF code
  <2>6. ASSUME NEW c \in old, c # b PROVE code[c] = f.code[c]
    <3>1. c # tail /\ c \notin {then, else} /\ c \in blocks
      BY <1>3
    <3>. QED  BY <2>6, <3>1 DEF code
  <2>. QED  BY <2>1, <2>2, <2>4, <2>5, <2>6
<1>6. /\ DOMAIN br = blocks /\ br[b] = goto(cond, <<then, else>>) /\ br[tail] = f.br[b]
      /\ br[then] = goto(Bool(TRUE), <<tail>>) /\ br[else] = goto(Bool(TRUE), <<tail>>)
      /\ \A c \in old : c # b => br[c] = f.br[c]
  <2>. HIDE DEF goto
  <2>1. DOMAIN br = blocks
    BY DEF br
  <2>2. br[b] = goto(cond, <<then, else>>)
    BY <1>3 DEF br
  <2>3. b # tail /\ b # then /\ b # else
    BY <1>3
  <2>4. br[tail] = f.br[b]
    BY <2>3 DEF br
  <2>5. br[then] = goto(Bool(TRUE), <<tail>>) /\ br[else] = goto(Bool(TRUE), <<tail>>)
    BY <2>3 DEF br
  <2>6. ASSUME NEW c \in old, c # b PROVE br[c] = f.br[c]
    <3>1. c # tail /\ c \notin {then, else} /\ c \in blocks
      BY <1>3
    <3>. QED  BY <2>6, <3>1 DEF br
  <2>. QED  BY <2>1, <2>2, <2>4, <2>5, <2>6
<1>7. /\ s \in Seq(ToSet(s)) /\ Len(s) \in Nat /\ DOMAIN s = 1 .. Len(s) /\ q \in 1 .. Len(s) + 1
      /\ \A k \in 1 .. Len(s) : s[k] \in Insts(f) /\ IsInst(s[k]) /\ s[k].name \in 1 .. top
  <2>1. s \in Seq(ToSet(s))
    BY DEF WellFormed
  <2>. QED  BY <2>1, CodeIs
<1>. DEFINE L == Len(s)
            T == ToSet(s)
<1>8. /\ front \in Seq(T) /\ Len(front) = q - 1 /\ DOMAIN front = 1 .. q - 1
      /\ \A k \in 1 .. q - 1 : front[k] = s[k]
  <2>. HIDE DEF s, front
  <2>1. L \in Nat /\ q \in 1 .. L + 1 /\ \A k \in 1 .. q - 1 : s[k] \in T
    BY <1>7 DEF ToSet
  <2>2. /\ front \in Seq(T) /\ Len(front) = IF 1 <= q - 1 THEN q - 1 - 1 + 1 ELSE 0
        /\ \A k \in 1 .. q - 1 - 1 + 1 : front[k] = s[1 + k - 1]
    BY <2>1, SubSeqProperties DEF front
  <2>3. \A k \in 1 .. q - 1 : k \in 1 .. q - 1 - 1 + 1 /\ 1 + k - 1 = k
    BY <2>1
  <2>4. Len(front) = q - 1 /\ \A k \in 1 .. q - 1 : front[k] = s[k]
    BY <2>1, <2>2, <2>3
  <2>5. front \in Seq(T) /\ DOMAIN front = 1 .. Len(front)
    BY <2>2, LenProperties
  <2>. QED  BY <2>4, <2>5
<1>9. /\ back \in Seq(T) /\ Len(back) = L - q + 1 /\ DOMAIN back = 1 .. L - q + 1
      /\ \A k \in 1 .. L - q + 1 : back[k] = s[q + k - 1]
  <2>. HIDE DEF s, back
  <2>1. L \in Nat /\ q \in 1 .. L + 1 /\ \A k \in q .. L : s[k] \in T
    BY <1>7 DEF ToSet
  <2>2. /\ back \in Seq(T) /\ Len(back) = IF q <= L THEN L - q + 1 ELSE 0
        /\ \A k \in 1 .. L - q + 1 : back[k] = s[q + k - 1]
    BY <2>1, SubSeqProperties DEF back
  <2>3. Len(back) = L - q + 1
    BY <2>1, <2>2
  <2>. QED  BY <2>2, <2>3, LenProperties
<1>. HIDE DEF front, back, s, L, T, old
\* Where an instruction was, and where one goes.
<1>. DEFINE From(c) == IF c = tail THEN b ELSE c
            Was(c, k) == IF c = tail THEN q + k - 1 ELSE k
<1>10. ASSUME NEW c \in blocks, NEW k \in DOMAIN code[c]
       PROVE  /\ From(c) \in old /\ Was(c, k) \in DOMAIN f.code[From(c)]
              /\ code[c][k] = f.code[From(c)][Was(c, k)]
              /\ c \in {b, tail} => k \in Int /\ (c = b => k < q) /\ (c = tail => Was(c, k) >= q)
  <2>1. CASE c = tail
    <3>1. k \in 1 .. L - q + 1 /\ q + k - 1 \in 1 .. L /\ q + k - 1 >= q /\ k \in Int
      BY <1>5, <1>7, <1>9, <2>1 DEF L
    <3>2. c # b
      BY <1>3, <2>1
    <3>. QED  BY <1>3, <1>5, <1>7, <1>9, <2>1, <3>1, <3>2 DEF s, L
  <2>2. CASE c = b
    <3>1. k \in 1 .. q - 1 /\ k \in 1 .. L /\ k < q /\ k \in Int /\ c # tail
      BY <1>3, <1>5, <1>7, <1>8, <2>2 DEF L
    <3>. QED  BY <1>3, <1>5, <1>7, <1>8, <2>2, <3>1 DEF s, L
  <2>3. CASE c \in {then, else}
    BY <1>5, <2>3, EmptySeq
  <2>4. CASE c \in old /\ c # b
    <3>1. c # tail
      BY <1>3, <2>4
    <3>. QED  BY <1>5, <2>4, <3>1
  <2>. QED  BY <2>1, <2>2, <2>3, <2>4
<1>11. ASSUME NEW c \in old, NEW k \in DOMAIN f.code[c]
       PROVE  \E d \in blocks : \E l \in DOMAIN code[d] : code[d][l] = f.code[c][k]
  <2>1. CASE c # b
    BY <1>5, <2>1
  <2>2. CASE c = b
    <3>1. k \in 1 .. L /\ q \in 1 .. L + 1 /\ L \in Nat
      BY <1>7, <2>2 DEF s, L
    <3>2. CASE k < q
      <4>1. k \in 1 .. q - 1
        BY <3>1, <3>2
      <4>. QED  BY <1>3, <1>5, <1>8, <2>2, <4>1 DEF s
    <3>3. CASE k >= q
      <4>1. PICK l \in 1 .. L - q + 1 : q + l - 1 = k
        <5>1. k - q + 1 \in 1 .. L - q + 1 /\ q + (k - q + 1) - 1 = k
          BY <3>1, <3>3
        <5>. QED  BY <5>1
      <4>. QED  BY <1>5, <1>9, <2>2, <4>1 DEF s
    <3>. QED  BY <3>1, <3>2, <3>3
  <2>. QED  BY <2>1, <2>2
<1>12. DOMAIN h.code = blocks
  BY <1>4, <1>5
<1>13. Insts(h) = Insts(f)
  <2>1. ASSUME NEW i \in Insts(h) PROVE i \in Insts(f)
    <3>1. PICK c \in DOMAIN h.code : \E k \in DOMAIN h.code[c] : i = h.code[c][k]
      BY InstsAre
    <3>2. PICK k \in DOMAIN code[c] : i = code[c][k]
      BY <1>4, <3>1
    <3>. QED  BY <1>10, <1>12, <3>2, InstsAre DEF old
  <2>2. ASSUME NEW i \in Insts(f) PROVE i \in Insts(h)
    <3>1. PICK c \in old : \E k \in DOMAIN f.code[c] : i = f.code[c][k]
      BY InstsAre DEF old
    <3>2. PICK d \in blocks : \E l \in DOMAIN code[d] : code[d][l] = i
      BY <1>11, <3>1
    <3>. QED  BY <1>4, <1>12, <3>2, InstsAre
  <2>. QED  BY <2>1, <2>2
<1>14. UniqueNames(h)
  <2>. SUFFICES ASSUME NEW c \in blocks, NEW d \in blocks,
                       NEW j \in DOMAIN code[c], NEW k \in DOMAIN code[d],
                       code[c][j].name = code[d][k].name
                PROVE  c = d /\ j = k
    BY <1>4, <1>12 DEF UniqueNames
  <2>1. From(c) = From(d) /\ Was(c, j) = Was(d, k)
    <3>. HIDE DEF From, Was
    <3>1. /\ From(c) \in old /\ Was(c, j) \in DOMAIN f.code[From(c)]
          /\ code[c][j] = f.code[From(c)][Was(c, j)]
      BY <1>10
    <3>2. /\ From(d) \in old /\ Was(d, k) \in DOMAIN f.code[From(d)]
          /\ code[d][k] = f.code[From(d)][Was(d, k)]
      BY <1>10
    <3>3. f.code[From(c)][Was(c, j)].name = f.code[From(d)][Was(d, k)].name
      BY <3>1, <3>2
    <3>4. UniqueNames(f)
      BY DEF WellFormed
    <3>. QED  BY <3>1, <3>2, <3>3, <3>4 DEF UniqueNames, old
  <2>2. CASE c \notin {b, tail} \/ d \notin {b, tail}
    BY <1>3, <2>1, <2>2
  <2>3. CASE c \in {b, tail} /\ d \in {b, tail}
    <3>1. j \in Int /\ k \in Int /\ q \in Int /\ b # tail
      BY <1>3, <1>7, <1>10, <2>3 DEF L
    <3>2. /\ c = b => j < q /\ Was(c, j) = j
          /\ c = tail => Was(c, j) >= q
          /\ d = b => k < q /\ Was(d, k) = k
          /\ d = tail => Was(d, k) >= q
      BY <1>10, <3>1
    <3>3. c = d
      BY <2>1, <2>3, <3>1, <3>2
    <3>4. CASE c = b
      BY <2>1, <3>2, <3>3, <3>4
    <3>5. CASE c = tail
      <4>1. Was(c, j) = q + j - 1 /\ Was(d, k) = q + k - 1
        BY <3>1, <3>3, <3>5
      <4>. QED  BY <2>1, <3>1, <3>3, <4>1
    <3>. QED  BY <2>3, <3>4, <3>5
  <2>. QED  BY <2>2, <2>3
<1>. HIDE DEF From, Was
<1>15. ASSUME NEW c \in blocks
       PROVE  /\ code[c] \in Seq(ToSet(code[c]))
              /\ \A i \in ToSet(code[c]) : IsInst(i) /\ i.name \in 1 .. M
  <2>1. code[c] \in Seq(ToSet(code[c]))
    <3>1. CASE c = b \/ c = tail
      <4>1. code[c] \in Seq(T)
        BY <1>5, <1>8, <1>9, <3>1
      <4>. QED  BY <4>1, OwnElements
    <3>2. CASE c \in {then, else}
      BY <1>5, <3>2, EmptySeq
    <3>3. CASE c \in old /\ c # b
      BY <1>5, <3>3 DEF WellFormed, old
    <3>. QED  BY <3>1, <3>2, <3>3
  <2>2. ASSUME NEW i \in ToSet(code[c]) PROVE IsInst(i) /\ i.name \in 1 .. M
    <3>1. PICK k \in DOMAIN code[c] : i = code[c][k]
      BY DEF ToSet
    <3>2. PICK d \in old : \E l \in DOMAIN f.code[d] : i = f.code[d][l]
      BY <1>10, <3>1
    <3>3. IsInst(i) /\ i.name \in 1 .. top
      BY <3>2, CodeIs DEF old
    <3>. QED  BY <3>3
  <2>. QED  BY <2>1, <2>2
<1>16. ASSUME NEW c \in blocks PROVE IsBr(br[c], blocks)
  <2>1. \A e : \A x, y \in blocks : IsBr(goto(e, <<x, y>>), blocks) /\ IsBr(goto(e, <<x>>), blocks)
    BY DEF IsBr
  <2>2. \A d \in old : IsBr(f.br[d], blocks)
    <3>. TAKE d \in old
    <3>1. DOMAIN f.br[d] = {"cond", "to", "user"} /\ f.br[d].to \in Seq(old)
      BY <1>2 DEF IsBr
    <3>2. f.br[d].to \in Seq(blocks)
      BY <3>1, SeqMonotonic
    <3>. QED  BY <3>1, <3>2 DEF IsBr
  <2>. HIDE DEF goto
  <2>3. CASE c = b
    BY <1>6, <2>1, <2>3
  <2>4. CASE c = tail
    BY <1>3, <1>6, <2>2, <2>4
  <2>5. CASE c \in {then, else}
    BY <1>6, <2>1, <2>5
  <2>6. CASE c \in old /\ c # b
    BY <1>6, <2>2, <2>6
  <2>. QED  BY <2>3, <2>4, <2>5, <2>6
<1>17. layout \in Seq(blocks) /\ ToSet(layout) = blocks /\ IsInjective(layout)
  <2>. DEFINE u == ReplaceFirstSubSeq(<<b, then, else, tail>>, <<b>>, f.layout)
  <2>1. b \in ToSet(f.layout) /\ {then, else, tail} \cap old = {}
    BY <1>2, <1>3
  <2>2. /\ u \in Seq(old \cup {then, else, tail})
        /\ ToSet(u) = ToSet(f.layout) \cup {then, else, tail} /\ IsInjective(u)
    <3>. DEFINE t == f.layout
    <3>1. t \in Seq(old) /\ IsInjective(t) /\ b \in ToSet(t)
      BY <1>2, <2>1
    <3>. HIDE DEF t, old
    <3>2. LET v == ReplaceFirstSubSeq(<<b, then, else, tail>>, <<b>>, t)
          IN  v \in Seq(old \cup {then, else, tail}) /\ ToSet(v) = ToSet(t) \cup {then, else, tail}
              /\ IsInjective(v)
      BY <2>1, <3>1, LayoutIs
    <3>. QED  BY <3>2 DEF t
  <2>3. layout = u
    BY DEF layout
  <2>. HIDE DEF u
  <2>. QED  BY <1>2, <2>2, <2>3
<1>18. WellFormed(h, M)
  <2>. HIDE DEF new, blocks
  <2>1. blocks \subseteq 1 .. M /\ h.entry \in blocks
    BY <1>2, <1>3, <1>4 DEF SameFrame, blocks
  <2>. QED  BY <1>2, <1>4, <1>5, <1>6, <1>14, <1>15, <1>16, <1>17, <2>1 DEF WellFormed
<1>19. /\ WellFormed(g, M) /\ SameFrame(h, g) /\ g.last = h.last
       /\ \A i \in Insts(h) : \E j \in Insts(g) : Alike(i, j)
       /\ \A j \in Insts(g) : \E i \in Insts(h) : Alike(i, j)
       /\ g.br = h.br /\ DOMAIN g.code = DOMAIN h.code
       /\ \A c \in DOMAIN h.code :
            /\ DOMAIN g.code[c] = DOMAIN h.code[c]
            /\ \A k \in DOMAIN h.code[c] : Moved(h.code[c][k], g.code[c][k], b, tail)
  BY <1>1, <1>18, UpdatePhisIs
<1>20. SameFrame(f, g) /\ g.last = f.last
  BY <1>4, <1>19 DEF SameFrame
<1>21. IsSplit(f, g, b, q, L, cond, then, else, tail)
  <2>1. /\ b \in old /\ L \in Nat /\ DOMAIN f.code[b] = 1 .. L /\ q \in 1 .. L + 1
        /\ new \cap old = {} /\ DOMAIN g.code = old \cup new /\ g.entry = f.entry /\ g.args = f.args
    BY <1>3, <1>4, <1>7, <1>12, <1>19, <1>20 DEF SameFrame, L, s
  <2>2. /\ g.br[b].to = <<then, else>> /\ g.br[b].cond = cond /\ g.br[tail] = f.br[b]
        /\ \A c \in {then, else} : g.br[c].to = <<tail>> /\ g.br[c].cond = Bool(TRUE) /\ DOMAIN g.code[c] = {}
        /\ \A c \in old : c # b => g.br[c] = f.br[c]
    <3>1. \A e, x : goto(e, x).to = x /\ goto(e, x).cond = e
      OBVIOUS
    <3>. HIDE DEF goto
    <3>2. \A c \in {then, else} : DOMAIN g.code[c] = {}
      BY <1>4, <1>5, <1>12, <1>19
    <3>3. g.br = br
      BY <1>4, <1>19
    <3>4. g.br[b].to = <<then, else>> /\ g.br[b].cond = cond
      BY <1>6, <3>1, <3>3
    <3>5. \A c \in {then, else} : g.br[c].to = <<tail>> /\ g.br[c].cond = Bool(TRUE)
      <4>1. g.br[then] = goto(Bool(TRUE), <<tail>>) /\ g.br[else] = goto(Bool(TRUE), <<tail>>)
        BY <1>6, <3>3
      <4>2. goto(Bool(TRUE), <<tail>>).to = <<tail>> /\ goto(Bool(TRUE), <<tail>>).cond = Bool(TRUE)
        BY <3>1
      <4>. QED  BY <4>1, <4>2
    <3>6. g.br[tail] = f.br[b] /\ \A c \in old : c # b => g.br[c] = f.br[c]
      BY <1>6, <3>3
    <3>. QED  BY <3>2, <3>4, <3>5, <3>6
  <2>6. \A c \in {b, then, else} : ~g.br[c].user
    <3>1. \A e, x : ~goto(e, x).user
      OBVIOUS
    <3>. HIDE DEF goto
    <3>2. g.br = br
      BY <1>4, <1>19
    <3>. QED  BY <1>6, <3>1, <3>2, Zenon
  <2>3. /\ DOMAIN g.code[b] = 1 .. q - 1
        /\ \A k \in 1 .. q - 1 : Moved(f.code[b][k], g.code[b][k], b, tail)
    BY <1>3, <1>4, <1>5, <1>8, <1>12, <1>19 DEF s
  <2>4. /\ DOMAIN g.code[tail] = 1 .. L - q + 1
        /\ \A k \in 1 .. L - q + 1 : Moved(f.code[b][q + k - 1], g.code[tail][k], b, tail)
    BY <1>4, <1>5, <1>9, <1>12, <1>19 DEF s
  <2>5. \A c \in old \ {b} :
          /\ DOMAIN g.code[c] = DOMAIN f.code[c]
          /\ \A k \in DOMAIN f.code[c] : Moved(f.code[c][k], g.code[c][k], b, tail)
    BY <1>4, <1>5, <1>12, <1>19
  <2>. QED  BY <2>1, <2>2, <2>3, <2>4, <2>5, <2>6 DEF IsSplit, old
<1>. QED  BY <1>13, <1>19, <1>20, <1>21 DEF g, L, s

\* The blocks of the two, and where they go.
LEMMA SplitBlocks ==
  ASSUME NEW f, NEW top, WellFormed(f, top), NEW g, NEW M, WellFormed(g, M),
         NEW b, NEW q, NEW L, NEW cond, NEW then, NEW else, NEW tail,
         IsSplit(f, g, b, q, L, cond, then, else, tail)
  PROVE  /\ b \in DOMAIN f.code /\ {then, else, tail} \cap DOMAIN f.code = {} /\ g.entry = f.entry
         /\ f.entry \in DOMAIN f.code /\ g.args = f.args /\ DOMAIN f.br = DOMAIN f.code /\ DOMAIN g.br = DOMAIN g.code
         /\ DOMAIN g.code = DOMAIN f.code \cup {then, else, tail}
         /\ L \in Nat /\ DOMAIN f.code[b] = 1 .. L /\ q \in 1 .. L + 1
         /\ then # tail /\ else # tail /\ then # else
BY DEF IsSplit, WellFormed

\* Where the four blocks of a split and the others go on to.
SplitEnds(f, g, b, then, else, tail) ==
  /\ ToSet(g.br[b].to) = {then, else} /\ ToSet(g.br[tail].to) = ToSet(f.br[b].to)
  /\ ToSet(g.br[then].to) = {tail} /\ ToSet(g.br[else].to) = {tail}
  /\ \A c \in DOMAIN f.code : c # b => ToSet(g.br[c].to) = ToSet(f.br[c].to)

LEMMA SplitSuccessors ==
  ASSUME NEW f, NEW g, NEW b, NEW q, NEW L, NEW cond, NEW then, NEW else, NEW tail,
         IsSplit(f, g, b, q, L, cond, then, else, tail)
  PROVE  SplitEnds(f, g, b, then, else, tail)
<1>1. /\ g.br[b].to = <<then, else>> /\ g.br[tail] = f.br[b] /\ g.br[then].to = <<tail>> /\ g.br[else].to = <<tail>>
      /\ \A c \in DOMAIN f.code : c # b => g.br[c] = f.br[c]
  BY DEF IsSplit
<1>2. ToSet(<<then, else>>) = {then, else} /\ ToSet(<<tail>>) = {tail}
  <2>1. DOMAIN <<then, else>> = {1, 2} /\ DOMAIN <<tail>> = {1}
    OBVIOUS
  <2>. QED  BY <2>1 DEF ToSet
<1>. QED  BY <1>1, <1>2 DEF SplitEnds

\* What is reached without a block of f, in terms of what was.
LEMMA SplitReached ==
  ASSUME NEW f, NEW top \in Nat, WellFormed(f, top), NEW g, NEW M \in Nat, WellFormed(g, M),
         NEW b, NEW q, NEW L, NEW cond, NEW then, NEW else, NEW tail,
         IsSplit(f, g, b, q, L, cond, then, else, tail)
  PROVE  /\ \A d \in DOMAIN f.code \ {b} :
              /\ ReachedWithout(g, d) \cap DOMAIN f.code \subseteq ReachedWithout(f, d)
              /\ b \notin ReachedWithout(f, d) => ReachedWithout(g, d) \cap {then, else, tail} = {}
         /\ ReachedWithout(g, b) \subseteq ReachedWithout(f, b)
         /\ ReachedWithout(g, tail) \subseteq ReachedWithout(f, b) \cup {b, then, else}
<1>. DEFINE old == DOMAIN f.code
            new == {then, else, tail}
<1>1. /\ b \in old /\ new \cap old = {} /\ g.entry = f.entry /\ f.entry \in old
      /\ DOMAIN f.br = old /\ then # tail /\ else # tail
  BY SplitBlocks
<1>2. /\ ToSet(g.br[b].to) = {then, else} /\ ToSet(g.br[tail].to) = ToSet(f.br[b].to)
      /\ ToSet(g.br[then].to) = {tail} /\ ToSet(g.br[else].to) = {tail}
      /\ \A c \in old : c # b => ToSet(g.br[c].to) = ToSet(f.br[c].to)
  <2>1. SplitEnds(f, g, b, then, else, tail)
    BY SplitSuccessors
  <2>. QED  BY <2>1 DEF SplitEnds
<1>3. \A d : /\ ReachedWithout(f, d) \subseteq old /\ Closed(f, d, ReachedWithout(f, d))
             /\ \A S : Closed(g, d, S) => ReachedWithout(g, d) \subseteq S
  BY <1>1, ReachedIs
<1>. HIDE DEF old
<1>4. ASSUME NEW d \in old, d # b
      PROVE  ReachedWithout(g, d) \subseteq
               ReachedWithout(f, d) \cup (IF b \in ReachedWithout(f, d) THEN new ELSE {})
  <2>. DEFINE R == ReachedWithout(f, d)
              S == R \cup (IF b \in R THEN new ELSE {})
  <2>1. R \subseteq old /\ Closed(f, d, R)
    BY <1>3
  <2>. HIDE DEF R
  <2>2. g.entry # d => g.entry \in S
    BY <1>1, <2>1 DEF Closed
  <2>3. ASSUME NEW c \in S PROVE ToSet(g.br[c].to) \ {d} \subseteq S
    <3>1. CASE c \in R /\ c # b
      BY <1>2, <2>1, <3>1 DEF Closed
    <3>2. CASE b \in R /\ c = b
      BY <1>2, <3>2
    <3>3. CASE b \in R /\ c = tail
      BY <1>2, <2>1, <3>3 DEF Closed
    <3>4. CASE b \in R /\ c \in {then, else}
      BY <1>2, <3>4
    <3>. QED  BY <3>1, <3>2, <3>3, <3>4
  <2>4. Closed(g, d, S)
    BY <2>2, <2>3 DEF Closed
  <2>. QED  BY <1>3, <2>4 DEF R
<1>5. ReachedWithout(g, b) \subseteq ReachedWithout(f, b)
  <2>. DEFINE R == ReachedWithout(f, b)
  <2>1. R \subseteq old /\ Closed(f, b, R) /\ b \notin R
    <3>1. R \subseteq old /\ Closed(f, b, R)
      BY <1>3
    <3>2. Closed(f, b, R \ {b})
      BY <3>1 DEF Closed
    <3>3. R \subseteq R \ {b}
      BY <3>2, ReachedIs
    <3>. QED  BY <3>1, <3>3
  <2>. HIDE DEF R
  <2>2. Closed(g, b, R)
    BY <1>1, <1>2, <2>1 DEF Closed
  <2>. QED  BY <1>3, <2>2 DEF R
<1>6. ReachedWithout(g, tail) \subseteq ReachedWithout(f, b) \cup {b, then, else}
  <2>. DEFINE R == ReachedWithout(f, b)
              S == R \cup {b, then, else}
  <2>1. R \subseteq old /\ Closed(f, b, R)
    BY <1>3
  <2>. HIDE DEF R
  <2>2. g.entry \in S
    BY <1>1, <2>1 DEF Closed
  <2>3. ASSUME NEW c \in S PROVE ToSet(g.br[c].to) \ {tail} \subseteq S
    <3>1. CASE c \in R /\ c # b
      BY <1>2, <2>1, <3>1 DEF Closed
    <3>2. CASE c \in {b, then, else}
      BY <1>2, <3>2
    <3>. QED  BY <3>1, <3>2
  <2>4. Closed(g, tail, S)
    BY <2>2, <2>3 DEF Closed
  <2>. QED  BY <1>3, <2>4 DEF R
<1>7. \A d \in old \ {b} :
        /\ ReachedWithout(g, d) \cap old \subseteq ReachedWithout(f, d)
        /\ b \notin ReachedWithout(f, d) => ReachedWithout(g, d) \cap new = {}
  <2>. TAKE d \in old \ {b}
  <2>1. ReachedWithout(g, d) \subseteq ReachedWithout(f, d) \cup (IF b \in ReachedWithout(f, d) THEN new ELSE {})
    BY <1>4
  <2>2. ReachedWithout(f, d) \subseteq old
    BY <1>3
  <2>. QED  BY <1>1, <2>1, <2>2
<1>. QED  BY <1>5, <1>6, <1>7 DEF old

\* What is known at an instruction is known where it went, and at the end of b in the tail;
\* the new blocks know what was known where b is split.
LEMMA SplitKnown ==
  ASSUME NEW f, NEW top \in Nat, WellFormed(f, top), NEW g, NEW M \in Nat, WellFormed(g, M),
         NEW b, NEW q, NEW L, NEW cond, NEW then, NEW else, NEW tail,
         IsSplit(f, g, b, q, L, cond, then, else, tail)
  PROVE  /\ \A c \in DOMAIN f.code \ {b} : Above(f, c) \subseteq Above(g, c) /\ Leaving(f, c) \subseteq Leaving(g, c)
         /\ Above(f, b) \subseteq Above(g, b) /\ Leaving(f, b) \subseteq Leaving(g, tail)
         /\ \A k \in 1 .. q : Known(f, b, k) \subseteq Known(g, b, k)
         /\ \A k \in 1 .. L - q + 1 : Known(f, b, q + k - 1) \subseteq Known(g, tail, k)
         /\ Known(f, b, q) \subseteq Leaving(g, b)
         /\ \A c \in {then, else} : Known(f, b, q) \subseteq Leaving(g, c)
<1>. DEFINE old == DOMAIN f.code
            new == {then, else, tail}
            front == {f.code[b][j].name : j \in 1 .. q - 1}
<1>1. /\ b \in old /\ new \cap old = {} /\ DOMAIN f.br = old /\ DOMAIN g.br = old \cup new /\ g.args = f.args
      /\ L \in Nat /\ DOMAIN f.code[b] = 1 .. L /\ q \in 1 .. L + 1 /\ then # tail /\ else # tail
  BY SplitBlocks
\* Names do not change, and stay in their blocks but for those that go to the tail.
<1>2. /\ \A c \in old : c # b => Names(g, c) = Names(f, c)
      /\ \A k \in 1 .. q - 1 : g.code[b][k].name = f.code[b][k].name
      /\ \A k \in 1 .. L - q + 1 : g.code[tail][k].name = f.code[b][q + k - 1].name
      /\ DOMAIN g.code[b] = 1 .. q - 1 /\ DOMAIN g.code[tail] = 1 .. L - q + 1
  <2>1. \A c \in old : c # b => Names(g, c) = Names(f, c)
    <3>. TAKE c \in old
    <3>. HAVE c # b
    <3>1. DOMAIN g.code[c] = DOMAIN f.code[c] /\ \A k \in DOMAIN f.code[c] : Moved(f.code[c][k], g.code[c][k], b, tail)
      BY DEF IsSplit
    <3>2. \A k \in DOMAIN f.code[c] : g.code[c][k].name = f.code[c][k].name
      BY <3>1 DEF Moved, Alike
    <3>. QED  BY <3>1, <3>2 DEF Names
  <2>2. DOMAIN g.code[b] = 1 .. q - 1 /\ \A k \in 1 .. q - 1 : g.code[b][k].name = f.code[b][k].name
    <3>1. DOMAIN g.code[b] = 1 .. q - 1 /\ \A k \in 1 .. q - 1 : Moved(f.code[b][k], g.code[b][k], b, tail)
      BY DEF IsSplit
    <3>. QED  BY <3>1 DEF Moved, Alike
  <2>3. /\ DOMAIN g.code[tail] = 1 .. L - q + 1
        /\ \A k \in 1 .. L - q + 1 : Moved(f.code[b][q + k - 1], g.code[tail][k], b, tail)
    BY DEF IsSplit
  <2>4. \A k \in 1 .. L - q + 1 : g.code[tail][k].name = f.code[b][q + k - 1].name
    BY <2>3 DEF Moved, Alike
  <2>. QED  BY <2>1, <2>2, <2>3, <2>4
<1>3. /\ \A d \in old \ {b} :
           /\ ReachedWithout(g, d) \cap old \subseteq ReachedWithout(f, d)
           /\ b \notin ReachedWithout(f, d) => ReachedWithout(g, d) \cap new = {}
      /\ ReachedWithout(g, b) \subseteq ReachedWithout(f, b)
      /\ ReachedWithout(g, tail) \subseteq ReachedWithout(f, b) \cup {b, then, else}
      /\ ReachedWithout(f, b) \subseteq old
  BY <1>1, SplitReached, ReachedIs
<1>. HIDE DEF old
<1>4. Names(g, b) = front
  <2>1. Names(g, b) = {g.code[b][k].name : k \in 1 .. q - 1}
    BY <1>2 DEF Names
  <2>. QED  BY <1>2, <2>1
<1>5. Names(f, b) = front \cup Names(g, tail)
  <2>1. Names(f, b) = {f.code[b][j].name : j \in 1 .. L}
    BY <1>1 DEF Names
  <2>2. Names(g, tail) = {f.code[b][q + k - 1].name : k \in 1 .. L - q + 1}
    <3>1. Names(g, tail) = {g.code[tail][k].name : k \in 1 .. L - q + 1}
      BY <1>2 DEF Names
    <3>. QED  BY <1>2, <3>1
  <2>3. ASSUME NEW j \in 1 .. L, ~ j <= q - 1 PROVE f.code[b][j].name \in Names(g, tail)
    <3>1. PICK k \in 1 .. L - q + 1 : q + k - 1 = j
      <4>1. j - q + 1 \in 1 .. L - q + 1 /\ q + (j - q + 1) - 1 = j
        BY <1>1, <2>3
      <4>. QED  BY <4>1
    <3>. QED  BY <2>2, <3>1
  <2>4. ASSUME NEW k \in 1 .. L - q + 1 PROVE f.code[b][q + k - 1].name \in Names(f, b)
    <3>1. q + k - 1 \in 1 .. L
      BY <1>1
    <3>. QED  BY <2>1, <3>1
  <2>5. front \subseteq Names(f, b)
    <3>1. \A j \in 1 .. q - 1 : j \in 1 .. L
      BY <1>1
    <3>. QED  BY <2>1, <3>1
  <2>6. Names(f, b) \subseteq front \cup Names(g, tail)
    <3>1. \A j \in 1 .. L : j <= q - 1 => j \in 1 .. q - 1
      BY <1>1
    <3>. QED  BY <2>1, <2>3, <3>1
  <2>7. Names(g, tail) \subseteq Names(f, b)
    BY <2>2, <2>4
  <2>. QED  BY <2>5, <2>6, <2>7
<1>. HIDE DEF front
<1>6. ASSUME NEW c \in old, c # b PROVE Above(f, c) \subseteq Above(g, c)
  <2>. SUFFICES ASSUME NEW n \in Above(f, c), n \notin f.args PROVE n \in Above(g, c)
    BY <1>1, AboveIs
  <2>1. PICK d \in old \ {c} : c \notin ReachedWithout(f, d) /\ n \in Names(f, d)
    BY <1>1, AboveIs
  <2>2. CASE d # b
    <3>1. c \notin ReachedWithout(g, d) /\ n \in Names(g, d) /\ d \in DOMAIN g.br \ {c}
      BY <1>1, <1>2, <1>3, <2>1, <2>2
    <3>. QED  BY <3>1, AboveIs
  <2>3. CASE d = b /\ n \in front
    <3>1. c \notin ReachedWithout(g, b) /\ n \in Names(g, b) /\ b \in DOMAIN g.br \ {c}
      BY <1>1, <1>3, <1>4, <1>6, <2>1, <2>3
    <3>. QED  BY <3>1, AboveIs
  <2>4. CASE d = b /\ n \in Names(g, tail)
    <3>1. c \notin ReachedWithout(g, tail) /\ tail \in DOMAIN g.br \ {c}
      BY <1>1, <1>3, <1>6, <2>1, <2>4
    <3>. QED  BY <2>4, <3>1, AboveIs
  <2>. QED  BY <1>5, <2>1, <2>2, <2>3, <2>4
\* The blocks that b is split into are below the same blocks, and the new ones below b.
<1>7. ASSUME NEW c \in {b} \cup new PROVE Above(f, b) \subseteq Above(g, c)
  <2>. SUFFICES ASSUME NEW n \in Above(f, b), n \notin f.args PROVE n \in Above(g, c)
    BY <1>1, AboveIs
  <2>1. PICK d \in old \ {b} : b \notin ReachedWithout(f, d) /\ n \in Names(f, d)
    BY <1>1, AboveIs
  <2>2. c \notin ReachedWithout(g, d) /\ n \in Names(g, d) /\ d \in DOMAIN g.br \ {c}
    BY <1>1, <1>2, <1>3, <2>1
  <2>. QED  BY <2>2, AboveIs
<1>8. ASSUME NEW c \in new PROVE front \subseteq Above(g, c)
  <2>1. c \notin ReachedWithout(g, b) /\ b \in DOMAIN g.br \ {c}
    BY <1>1, <1>3
  <2>. QED  BY <1>4, <2>1, AboveIs
<1>9. Known(f, b, q) = Above(f, b) \cup front
  BY DEF Known, front
<1>10. \A c \in new : Known(f, b, q) \subseteq Above(g, c) /\ Known(f, b, q) \subseteq Leaving(g, c)
  BY <1>7, <1>8, <1>9 DEF Leaving
<1>11. Known(f, b, q) \subseteq Leaving(g, b)
  BY <1>4, <1>7, <1>9 DEF Leaving
<1>12. \A c \in old \ {b} : Leaving(f, c) \subseteq Leaving(g, c)
  BY <1>2, <1>6 DEF Leaving
<1>13. Leaving(f, b) \subseteq Leaving(g, tail)
  BY <1>5, <1>9, <1>10 DEF Leaving
<1>14. ASSUME NEW k \in 1 .. q PROVE Known(f, b, k) \subseteq Known(g, b, k)
  <2>1. \A j \in 1 .. k - 1 : j \in 1 .. q - 1
    BY <1>1
  <2>2. \A j \in 1 .. k - 1 : g.code[b][j].name = f.code[b][j].name
    BY <1>2, <2>1
  <2>. QED  BY <1>7, <2>2 DEF Known
<1>15. ASSUME NEW k \in 1 .. L - q + 1 PROVE Known(f, b, q + k - 1) \subseteq Known(g, tail, k)
  <2>. PICK l \in Int : l = q + k - 1
    <3>1. q + k - 1 \in Int
      BY <1>1
    <3>. QED  BY <3>1
  <2>1. ASSUME NEW j \in 1 .. l - 1 PROVE f.code[b][j].name \in Known(g, tail, k)
    <3>1. CASE j <= q - 1
      <4>1. j \in 1 .. q - 1
        BY <1>1, <3>1
      <4>2. f.code[b][j].name \in Known(f, b, q)
        BY <4>1 DEF Known
      <4>. QED  BY <1>10, <4>2 DEF Known
    <3>2. CASE ~ j <= q - 1
      <4>1. PICK h \in 1 .. k - 1 : q + h - 1 = j /\ h \in 1 .. L - q + 1
        <5>1. j - q + 1 \in 1 .. k - 1 /\ q + (j - q + 1) - 1 = j /\ j - q + 1 \in 1 .. L - q + 1
          BY <1>1, <3>2
        <5>. QED  BY <5>1
      <4>2. g.code[tail][h].name = f.code[b][j].name
        BY <1>2, <4>1
      <4>. QED  BY <4>1, <4>2 DEF Known
    <3>. QED  BY <3>1, <3>2
  <2>2. Above(f, b) \subseteq Known(g, tail, k)
    BY <1>7 DEF Known
  <2>3. Known(f, b, l) \subseteq Known(g, tail, k)
    BY <2>1, <2>2 DEF Known
  <2>. QED  BY <2>3
<1>16. Above(f, b) \subseteq Above(g, b)
  BY <1>7
<1>. QED  BY <1>6, <1>10, <1>11, <1>12, <1>13, <1>14, <1>15, <1>16 DEF old

\* If what is left of b fits, and so does the condition of the branch, the whole function does.
LEMMA SplitDominates ==
  ASSUME NEW f, NEW top \in Nat, WellFormed(f, top), OperandsDominate(f), NEW g, NEW M \in Nat, WellFormed(g, M),
         NEW b, NEW q, NEW L, NEW cond, NEW then, NEW else, NEW tail,
         IsSplit(f, g, b, q, L, cond, then, else, tail),
         \A k \in q .. L : f.code[b][k].op # "phi",
         Defined(cond, Known(f, b, q))
  PROVE  OperandsDominate(g) /\ Preds(g, tail) = {then, else}
<1>. DEFINE old == DOMAIN f.code
            new == {then, else, tail}
            to(p) == IF p = b THEN tail ELSE p
<1>1. /\ b \in old /\ new \cap old = {} /\ DOMAIN f.br = old /\ DOMAIN g.br = old \cup new
      /\ DOMAIN g.code = old \cup new
      /\ L \in Nat /\ DOMAIN f.code[b] = 1 .. L /\ q \in 1 .. L + 1 /\ then # tail /\ else # tail /\ then # else
  BY SplitBlocks
<1>2. /\ ToSet(g.br[b].to) = {then, else} /\ ToSet(g.br[tail].to) = ToSet(f.br[b].to)
      /\ ToSet(g.br[then].to) = {tail} /\ ToSet(g.br[else].to) = {tail}
      /\ \A c \in old : c # b => ToSet(g.br[c].to) = ToSet(f.br[c].to)
  <2>1. SplitEnds(f, g, b, then, else, tail)
    BY SplitSuccessors
  <2>. QED  BY <2>1 DEF SplitEnds
<1>14. ASSUME NEW c \in old PROVE ToSet(f.br[c].to) \subseteq old
  <2>1. f.br[c].to \in Seq(old)
    BY <1>1 DEF WellFormed, IsBr
  <2>. QED  BY <2>1 DEF ToSet
<1>. HIDE DEF old
<1>3. Preds(g, tail) = {then, else}
  BY <1>1, <1>2, <1>14 DEF Preds
<1>4. ASSUME NEW c \in old
      PROVE  Preds(f, c) \subseteq old /\ Preds(g, c) = {to(p) : p \in Preds(f, c)}
  <2>1. Preds(f, c) \subseteq old
    BY <1>1 DEF Preds
  <2>2. ASSUME NEW p \in Preds(f, c) PROVE to(p) \in Preds(g, c)
    BY <1>1, <1>2, <1>4, <1>14 DEF Preds
  <2>3. ASSUME NEW p \in Preds(g, c) PROVE \E r \in Preds(f, c) : p = to(r)
    <3>1. CASE p = tail
      <4>1. b \in Preds(f, c) /\ to(b) = tail
        BY <1>1, <1>2, <3>1, <2>3, <1>14 DEF Preds
      <4>. QED  BY <3>1, <4>1
    <3>2. CASE p \in old /\ p # b
      <4>1. p \in Preds(f, c) /\ to(p) = p
        BY <1>1, <1>2, <3>2, <2>3 DEF Preds
      <4>. QED  BY <4>1
    <3>3. CASE p \in {b, then, else}
      BY <1>1, <1>2, <3>3, <2>3, <1>4 DEF Preds
    <3>. QED  BY <1>1, <3>1, <3>2, <3>3 DEF Preds
  <2>. QED  BY <2>1, <2>2, <2>3
<1>5. /\ \A c \in old \ {b} : Above(f, c) \subseteq Above(g, c) /\ Leaving(f, c) \subseteq Leaving(g, c)
      /\ Leaving(f, b) \subseteq Leaving(g, tail)
      /\ \A k \in 1 .. q : Known(f, b, k) \subseteq Known(g, b, k)
      /\ \A k \in 1 .. L - q + 1 : Known(f, b, q + k - 1) \subseteq Known(g, tail, k)
      /\ Known(f, b, q) \subseteq Leaving(g, b)
  BY SplitKnown DEF old
<1>6. \A c \in old : /\ \A k \in DOMAIN f.code[c] : Fits(f, c, k)
                     /\ Defined(f.br[c].cond, Leaving(f, c))
  BY <1>1, DominateIs DEF old
<1>7. \A p \in old : Leaving(f, p) \subseteq Leaving(g, to(p))
  BY <1>5
<1>. HIDE DEF to
\* An instruction that keeps its place.
<1>8. ASSUME NEW c \in old, NEW k, Fits(f, c, k), Moved(f.code[c][k], g.code[c][k], b, tail),
             Known(f, c, k) \subseteq Known(g, c, k),
             f.code[c][k].op = "phi" => \A j \in 1 .. k : g.code[c][j].op = "phi"
      PROVE  Fits(g, c, k)
  <2>. DEFINE i == f.code[c][k]
              j == g.code[c][k]
  <2>1. CASE i.op # "phi"
    <3>1. g.code[c][k] = f.code[c][k]
      BY <1>8, <2>1 DEF Moved, Alike
    <3>. QED  BY <1>8, <2>1, <3>1, FitsMore
  <2>2. CASE i.op = "phi"
    <3>1. DOMAIN i.in = Preds(f, c) /\ \A p \in Preds(f, c) : Defined(i.in[p], Leaving(f, p))
      BY <1>8, <2>2 DEF Fits, PhiFits
    <3>2. tail \notin DOMAIN i.in
      BY <1>1, <1>4, <3>1
    <3>3. /\ j.op = "phi" /\ DOMAIN j.in = {to(p) : p \in Preds(f, c)}
          /\ \A p \in Preds(f, c) : j.in[to(p)] = i.in[p]
      BY <1>8, <2>2, <3>1, <3>2 DEF Moved, Alike, to
    <3>. HIDE DEF i, j
    <3>4. DOMAIN j.in = Preds(g, c)
      BY <1>4, <3>3
    <3>5. ASSUME NEW p \in Preds(g, c) PROVE Defined(j.in[p], Leaving(g, p))
      <4>1. PICK r \in Preds(f, c) : p = to(r)
        BY <1>4
      <4>2. Leaving(f, r) \subseteq Leaving(g, p)
        BY <1>4, <1>7, <4>1
      <4>. QED  BY <3>1, <3>3, <4>1, <4>2 DEF Defined
    <3>6. j.op = "phi" /\ \A l \in 1 .. k : g.code[c][l].op = "phi"
      BY <1>8, <2>2, <3>3 DEF i
    <3>7. PhiFits(g, c, k)
      BY <3>4, <3>5, <3>6 DEF PhiFits, j
    <3>. QED  BY <3>6, <3>7 DEF Fits, j
  <2>. QED  BY <2>1, <2>2
<1>9. ASSUME NEW c \in old, c # b, NEW k \in DOMAIN g.code[c] PROVE Fits(g, c, k)
  <2>1. /\ DOMAIN g.code[c] = DOMAIN f.code[c]
        /\ \A j \in DOMAIN f.code[c] : Moved(f.code[c][j], g.code[c][j], b, tail) /\ g.code[c][j].op = f.code[c][j].op
        /\ \A j \in DOMAIN f.code[c] : g.code[c][j].name = f.code[c][j].name
    <3>1. /\ DOMAIN g.code[c] = DOMAIN f.code[c]
          /\ \A j \in DOMAIN f.code[c] : Moved(f.code[c][j], g.code[c][j], b, tail)
      BY <1>9 DEF IsSplit, old
    <3>. QED  BY <3>1 DEF Moved, Alike
  <2>2. DOMAIN f.code[c] = 1 .. Len(f.code[c]) /\ Len(f.code[c]) \in Nat
    BY CodeIs DEF old
  <2>3. Fits(f, c, k) /\ k \in DOMAIN f.code[c]
    BY <1>6, <2>1
  <2>4. \A j \in 1 .. k : j \in DOMAIN f.code[c]
    BY <2>2, <2>3
  <2>5. f.code[c][k].op = "phi" => \A j \in 1 .. k : g.code[c][j].op = "phi"
    BY <2>1, <2>3, <2>4 DEF Fits, PhiFits
  <2>6. \A j \in 1 .. k - 1 : g.code[c][j].name = f.code[c][j].name
    <3>1. \A j \in 1 .. k - 1 : j \in DOMAIN f.code[c]
      BY <2>2, <2>3
    <3>. QED  BY <2>1, <3>1
  <2>7. Known(f, c, k) \subseteq Known(g, c, k)
    BY <1>5, <1>9, <2>6 DEF Known
  <2>. QED  BY <1>8, <2>1, <2>3, <2>5, <2>7
<1>10. ASSUME NEW k \in 1 .. q - 1 PROVE Fits(g, b, k)
  <2>1. k \in 1 .. L /\ k \in 1 .. q /\ \A j \in 1 .. k : j \in 1 .. q - 1
    BY <1>1
  <2>2. \A j \in 1 .. q - 1 : Moved(f.code[b][j], g.code[b][j], b, tail) /\ g.code[b][j].op = f.code[b][j].op
    <3>1. \A j \in 1 .. q - 1 : Moved(f.code[b][j], g.code[b][j], b, tail)
      BY DEF IsSplit
    <3>. QED  BY <3>1 DEF Moved, Alike
  <2>3. Fits(f, b, k)
    BY <1>1, <1>6, <2>1
  <2>4. f.code[b][k].op = "phi" => \A j \in 1 .. k : g.code[b][j].op = "phi"
    BY <2>1, <2>2, <2>3 DEF Fits, PhiFits
  <2>5. Known(f, b, k) \subseteq Known(g, b, k)
    BY <1>5, <2>1
  <2>. QED  BY <1>1, <1>8, <2>2, <2>3, <2>4, <2>5
<1>11. ASSUME NEW k \in 1 .. L - q + 1 PROVE Fits(g, tail, k)
  <2>. PICK l \in q .. L : l = q + k - 1
    <3>1. q + k - 1 \in q .. L
      BY <1>1
    <3>. QED  BY <3>1
  <2>1. Moved(f.code[b][l], g.code[tail][k], b, tail) /\ f.code[b][l].op # "phi"
    BY DEF IsSplit
  <2>2. g.code[tail][k] = f.code[b][l]
    BY <2>1 DEF Moved, Alike
  <2>3. l \in 1 .. L
    BY <1>1
  <2>4. Fits(f, b, l)
    BY <1>1, <1>6, <2>3
  <2>5. Known(f, b, l) \subseteq Known(g, tail, k)
    BY <1>5
  <2>. QED  BY <2>1, <2>2, <2>4, <2>5, FitsMore
<1>12. ASSUME NEW c \in DOMAIN g.code, NEW k \in DOMAIN g.code[c] PROVE Fits(g, c, k)
  <2>1. DOMAIN g.code[b] = 1 .. q - 1 /\ DOMAIN g.code[tail] = 1 .. L - q + 1
        /\ DOMAIN g.code[then] = {} /\ DOMAIN g.code[else] = {}
    BY DEF IsSplit
  <2>. QED  BY <1>1, <1>9, <1>10, <1>11, <2>1
<1>13. ASSUME NEW c \in DOMAIN g.code PROVE Defined(g.br[c].cond, Leaving(g, c))
  <2>1. CASE c = b
    BY <1>5, <2>1 DEF IsSplit, Defined
  <2>2. CASE c = tail
    <3>1. g.br[tail] = f.br[b] /\ Defined(f.br[b].cond, Leaving(f, b))
      BY <1>1, <1>6 DEF IsSplit
    <3>. QED  BY <1>5, <2>2, <3>1 DEF Defined
  <2>3. CASE c \in {then, else}
    <3>1. g.br[c].cond = Bool(TRUE)
      BY <2>3 DEF IsSplit
    <3>2. Bool(TRUE)[1] # "val"
      BY DEF Bool
    <3>. QED  BY <3>1, <3>2 DEF Defined
  <2>4. CASE c \in old /\ c # b
    <3>1. g.br[c] = f.br[c] /\ Defined(f.br[c].cond, Leaving(f, c))
      BY <1>6, <2>4 DEF IsSplit, old
    <3>. QED  BY <1>5, <2>4, <3>1 DEF Defined
  <2>. QED  BY <1>1, <2>1, <2>2, <2>3, <2>4
<1>. QED  BY <1>1, <1>3, <1>12, <1>13, DominateIs

-----------------------------------------------------------------------------
(* What replaces an instruction, as the verifier sees it.                  *)

\* Functions that differ only in what the verifier does not look at.
LEMMA SameCodeDominates ==
  ASSUME NEW f, NEW g, NEW top \in Nat, WellFormed(f, top), NEW M \in Nat, WellFormed(g, M),
         g.code = f.code, g.br = f.br, g.entry = f.entry, g.args = f.args, OperandsDominate(f)
  PROVE  OperandsDominate(g)
<1>1. DOMAIN f.br = DOMAIN f.code /\ DOMAIN g.br = DOMAIN g.code
  BY DEF WellFormed
<1>2. \A c \in DOMAIN f.code : Names(f, c) \subseteq Names(g, c)
  BY DEF Names
<1>3. /\ \A c : Preds(g, c) = Preds(f, c)
      /\ \A c \in DOMAIN f.code : Above(f, c) \subseteq Above(g, c) /\ Leaving(f, c) \subseteq Leaving(g, c)
  BY <1>2, SameBlocks
<1>4. \A c \in DOMAIN f.code : /\ \A k \in DOMAIN f.code[c] : Fits(f, c, k)
                               /\ Defined(f.br[c].cond, Leaving(f, c))
  BY <1>1, DominateIs
<1>5. ASSUME NEW c \in DOMAIN f.code, NEW k \in DOMAIN f.code[c] PROVE Fits(g, c, k)
  <2>1. Fits(f, c, k)
    BY <1>4
  <2>2. Known(f, c, k) \subseteq Known(g, c, k)
    BY <1>3 DEF Known
  <2>3. f.code[c][k].op = "phi" => \A j \in 1 .. k : g.code[c][j].op = "phi"
    BY <2>1 DEF Fits, PhiFits
  <2>4. \A p \in Preds(f, c) : p \in DOMAIN f.code
    BY <1>1 DEF Preds
  <2>. QED  BY <1>3, <2>1, <2>2, <2>3, <2>4, FitsMore
<1>6. \A c \in DOMAIN f.code : Defined(g.br[c].cond, Leaving(g, c))
  BY <1>3, <1>4 DEF Defined
<1>. QED  BY <1>1, <1>5, <1>6, DominateIs

\* Each of the instructions s uses what i uses and the ones before it.
Uses(i, s, r) ==
  \A names : Defined(i.x, names) /\ Defined(i.y, names) =>
    \A k \in 1 .. r : /\ Defined(s[k].x, names \cup {s[n].name : n \in 1 .. k - 1})
                      /\ Defined(s[k].y, names \cup {s[n].name : n \in 1 .. k - 1})

LEMMA InPlaceDominates ==
  ASSUME NEW f, NEW top \in Nat, WellFormed(f, top), OperandsDominate(f), NEW g, NEW M \in Nat, WellFormed(g, M),
         NEW b, NEW q, NEW L, NEW s, NEW r, InPlace(f, g, b, q, L, s, r), f.code[b][q].op # "phi",
         NEW m \in 1 .. r, s[m].name = f.code[b][q].name,
         \A k \in 1 .. r : s[k].op # "phi",
         Uses(f.code[b][q], s, r)
  PROVE  OperandsDominate(g)
<1>0. b \in DOMAIN f.code /\ L \in Nat /\ DOMAIN f.code[b] = 1 .. L /\ q \in 1 .. L /\ r \in Nat
  BY DEF InPlace
<1>1. \A k \in q .. q + r - 1 : g.code[b][k] = s[k - q + 1]
  BY DEF InPlace
<1>2. \A j \in 1 .. r : /\ Known(f, b, q) \subseteq Known(g, b, q + j - 1)
                        /\ \A n \in 1 .. j - 1 : s[n].name \in Known(g, b, q + j - 1)
  BY ReplaceKnown
<1>3. Defined(f.code[b][q].x, Known(f, b, q)) /\ Defined(f.code[b][q].y, Known(f, b, q))
  <2>1. Fits(f, b, q)
    BY <1>0, DominateIs DEF WellFormed
  <2>. QED  BY <2>1 DEF Fits
<1>4. ASSUME NEW j \in 1 .. r PROVE Fits(g, b, q + j - 1)
  <2>. PICK k \in q .. q + r - 1 : k = q + j - 1 /\ k - q + 1 = j
    <3>1. q + j - 1 \in q .. q + r - 1 /\ (q + j - 1) - q + 1 = j
      BY <1>0
    <3>. QED  BY <3>1
  <2>1. g.code[b][k] = s[j]
    BY <1>1
  <2>. DEFINE names == Known(f, b, q) \cup {s[n].name : n \in 1 .. j - 1}
  <2>2. Defined(s[j].x, names) /\ Defined(s[j].y, names)
    BY <1>3 DEF Uses
  <2>3. names \subseteq Known(g, b, k)
    BY <1>2
  <2>. HIDE DEF names
  <2>4. Defined(s[j].x, Known(g, b, k)) /\ Defined(s[j].y, Known(g, b, k))
    BY <2>2, <2>3 DEF Defined
  <2>5. Fits(g, b, k)
    BY <2>1, <2>4 DEF Fits
  <2>. QED  BY <2>5
<1>. QED  BY <1>4, ReplaceDominates

LEMMA ReplaceInstDominates ==
  ASSUME NEW f, NEW top \in Nat, WellFormed(f, top), OperandsDominate(f), NEW i \in Insts(f), i.op # "phi",
         NEW S, NEW s \in Seq(S), NEW M \in Nat, WellFormed(ReplaceInst(f, i.name, s), M),
         \E m \in 1 .. Len(s) : s[m].name = i.name,
         \A k \in 1 .. Len(s) : s[k].op # "phi",
         Uses(i, s, Len(s))
  PROVE  OperandsDominate(ReplaceInst(f, i.name, s))
<1>1. PICK b \in DOMAIN f.code : \E k \in 1 .. Len(f.code[b]) : f.code[b][k] = i
  BY PlaceIs
<1>2. PICK q \in 1 .. Len(f.code[b]) : f.code[b][q] = i
  BY <1>1
<1>3. InPlace(f, ReplaceInst(f, i.name, s), b, q, Len(f.code[b]), s, Len(s))
  BY <1>2, ReplacedAt
<1>. QED  BY <1>2, <1>3, InPlaceDominates

\* A block is split before i, and a PHI takes the place of i.
LEMMA SplitPhiDominates ==
  ASSUME NEW f, NEW top \in Nat, WellFormed(f, top), OperandsDominate(f), NEW g, NEW M \in Nat, WellFormed(g, M),
         NEW b, NEW q, NEW L, NEW cond, NEW then, NEW else, NEW tail,
         IsSplit(f, g, b, q, L, cond, then, else, tail), q <= L,
         f.code[b][q].op # "phi", Defined(cond, Known(f, b, q)),
         NEW h, WellFormed(h, M), NEW s, NEW N, InPlace(g, h, tail, 1, N, s, 1),
         s[1].name = f.code[b][q].name, s[1].op = "phi", DOMAIN s[1].in = {then, else},
         \A p \in {then, else} : Defined(s[1].in[p], Known(f, b, q))
  PROVE  OperandsDominate(h)
<1>1. L \in Nat /\ q \in 1 .. L /\ DOMAIN f.code[b] = 1 .. L /\ b \in DOMAIN f.code
  BY DEF IsSplit
<1>2. \A k \in q .. L : f.code[b][k].op # "phi"
  <2>. SUFFICES ASSUME NEW k \in q .. L, f.code[b][k].op = "phi" PROVE FALSE
    OBVIOUS
  <2>1. k \in 1 .. L /\ q \in 1 .. k
    BY <1>1
  <2>2. Fits(f, b, k)
    BY <1>1, <2>1, DominateIs DEF WellFormed
  <2>. QED  BY <2>1, <2>2 DEF Fits, PhiFits
<1>3. OperandsDominate(g) /\ Preds(g, tail) = {then, else}
  BY <1>2, SplitDominates
<1>4. g.code[tail][1] = f.code[b][q]
  <2>. PICK k \in 1 .. L - q + 1 : k = 1 /\ q + k - 1 = q
    <3>1. 1 \in 1 .. L - q + 1 /\ q + 1 - 1 = q
      BY <1>1
    <3>. QED  BY <3>1
  <2>1. Moved(f.code[b][q + k - 1], g.code[tail][k], b, tail)
    BY DEF IsSplit
  <2>2. Moved(f.code[b][q], g.code[tail][1], b, tail)
    BY <2>1
  <2>. QED  BY <2>2 DEF Moved, Alike
<1>5. /\ tail \in DOMAIN g.code /\ {then, else} \subseteq DOMAIN g.code
      /\ \A c \in {then, else} : Known(f, b, q) \subseteq Leaving(g, c)
  <2>1. tail \in DOMAIN g.code /\ {then, else} \subseteq DOMAIN g.code
    BY DEF IsSplit
  <2>. QED  BY <2>1, SplitKnown
<1>6. 1 \in 1 .. 1 /\ s[1].name = g.code[tail][1].name
  BY <1>4
<1>7. /\ \A c : Preds(h, c) = Preds(g, c)
      /\ \A c \in DOMAIN g.code : Leaving(g, c) \subseteq Leaving(h, c)
  BY <1>6, ReplaceKnown
<1>8. h.code[tail][1] = s[1]
  <2>1. 1 \in 1 .. 1 + 1 - 1 /\ 1 - 1 + 1 = 1
    OBVIOUS
  <2>2. \A k \in 1 .. 1 + 1 - 1 : h.code[tail][k] = s[k - 1 + 1]
    BY DEF InPlace
  <2>. QED  BY <2>1, <2>2
<1>9. Fits(h, tail, 1)
  <2>1. \A p \in {then, else} : Defined(s[1].in[p], Leaving(h, p))
    BY <1>5, <1>7 DEF Defined
  <2>2. \A j \in 1 .. 1 : h.code[tail][j].op = "phi"
    BY <1>8
  <2>. QED  BY <1>3, <1>7, <1>8, <2>1, <2>2 DEF Fits, PhiFits
<1>10. \A j \in 1 .. 1 : Fits(h, tail, 1 + j - 1)
  <2>1. \A j \in 1 .. 1 : 1 + j - 1 = 1
    OBVIOUS
  <2>. QED  BY <1>9, <2>1
<1>11. g.code[tail][1].op # "phi"
  BY <1>4
<1>. QED  BY <1>3, <1>6, <1>10, <1>11, ReplaceDominates

-----------------------------------------------------------------------------
(* What each tool puts in the place of an instruction.                     *)

\* A function in which the instruction i was replaced by ones whose opcodes are in ops.
Rewritten(f, i, g, ops) ==
  /\ g.last \in Nat /\ WellFormed(g, g.last) /\ SameFrame(f, g)
  /\ \A j \in Insts(f) : j # i => \E k \in Insts(g) : Alike(j, k)
  /\ \A k \in Insts(g) : (\E j \in Insts(f) : j # i /\ Alike(j, k)) \/ k.op \in ops
  /\ OperandsDominate(f) => OperandsDominate(g)

\* The number of the last name is not part of what makes a function well formed.
LEMMA LastIs ==
  ASSUME NEW f, NEW top \in Nat, WellFormed(f, top), NEW n
  PROVE  LET g == [f EXCEPT !.last = n]
         IN  /\ WellFormed(g, top) /\ SameFrame(f, g) /\ g.last = n /\ Insts(g) = Insts(f)
             /\ g.code = f.code /\ g.br = f.br
             /\ OperandsDominate(f) => OperandsDominate(g)
<1>. DEFINE g == [f EXCEPT !.last = n]
<1>1. DOMAIN f = {"type", "main", "optnone", "args", "entry", "last", "layout", "code", "br"}
  BY DEF WellFormed
<1>2. /\ DOMAIN g = DOMAIN f /\ g.code = f.code /\ g.br = f.br /\ g.layout = f.layout
      /\ SameFrame(f, g) /\ g.last = n
  BY <1>1 DEF SameFrame
<1>. HIDE DEF g
<1>3. UniqueNames(g) /\ Insts(g) = Insts(f)
  BY <1>2 DEF WellFormed, UniqueNames, Insts
<1>4. WellFormed(g, top)
  BY <1>2, <1>3 DEF WellFormed, SameFrame
<1>5. OperandsDominate(f) => OperandsDominate(g)
  <2>1. g.entry = f.entry /\ g.args = f.args
    BY <1>2 DEF SameFrame
  <2>. QED  BY <1>2, <1>4, <2>1, SameCodeDominates
<1>. QED  BY <1>2, <1>3, <1>4, <1>5 DEF g

\* An instruction that takes the name of the one it replaces.
LEMMA OneForOne ==
  ASSUME NEW f, f.last \in Nat, WellFormed(f, f.last), NEW i \in Insts(f),
         NEW j, IsInst(j), j.name = i.name, i.op # "phi", j.op # "phi",
         \A names : /\ Defined(i.x, names) => Defined(j.x, names)
                    /\ Defined(i.y, names) => Defined(j.y, names)
  PROVE  Rewritten(f, i, ReplaceInst(f, i.name, <<j>>), {j.op})
<1>. DEFINE s == <<j>>
            g == ReplaceInst(f, i.name, s)
<1>1. s \in Seq({j}) /\ DOMAIN s = {1} /\ ToSet(s) = {j} /\ Len(s) = 1 /\ s[1] = j
  BY DEF ToSet
<1>2. /\ \A k \in ToSet(s) : IsInst(k) /\ k.name \in {i.name} \cup (f.last + 1 .. f.last)
      /\ \A k, l \in DOMAIN s : s[k].name = s[l].name => k = l
  BY <1>1
<1>. HIDE DEF s
<1>3. /\ WellFormed(g, f.last) /\ SameFrame(f, g) /\ g.last = f.last
      /\ \A k \in Insts(f) : k # i => k \in Insts(g)
      /\ \A k \in Insts(g) : k \in ToSet(s) \/ (k \in Insts(f) /\ k # i)
  BY <1>1, <1>2, ReplaceInstIs
<1>. HIDE DEF g
<1>4. \A k : Alike(k, k)
  BY DEF Alike
<1>6. OperandsDominate(f) => OperandsDominate(g)
  <2>1. \A k \in 1 .. 1 : k = 1
    OBVIOUS
  <2>2. Uses(i, s, 1)
    BY <1>1, <2>1 DEF Uses, Defined
  <2>3. /\ 1 \in 1 .. Len(s) /\ s[1].name = i.name /\ \A k \in 1 .. Len(s) : s[k].op # "phi"
        /\ Uses(i, s, Len(s))
    BY <1>1, <2>1, <2>2
  <2>. QED  BY <1>1, <1>3, <2>3, ReplaceInstDominates DEF g
<1>5. /\ \A k \in Insts(f) : k # i => \E l \in Insts(g) : Alike(k, l)
      /\ \A k \in Insts(g) : (\E l \in Insts(f) : l # i /\ Alike(l, k)) \/ k.op \in {j.op}
  BY <1>1, <1>3, <1>4
<1>. QED  BY <1>3, <1>5, <1>6 DEF Rewritten, g, s

LEMMA SubFAddIs ==
  ASSUME NEW f, f.last \in Nat, WellFormed(f, f.last), NEW i \in Insts(f), i.op = "fadd"
  PROVE  Rewritten(f, i, SubFAdd(f, i.name), {"fsub"})
<1>. DEFINE j == [i EXCEPT !.op = "fsub"]
<1>1. IsInst(i) /\ InstOf(f, i.name) = i
  BY PlaceIs, CodeIs, InstsAre
<1>2. IsInst(j) /\ j.name = i.name /\ j.op = "fsub" /\ j.x = i.x /\ j.y = i.y
  BY <1>1 DEF IsInst
<1>3. SubFAdd(f, i.name) = ReplaceInst(f, i.name, <<j>>)
  BY <1>1 DEF SubFAdd
<1>. HIDE DEF j
<1>. QED  BY <1>2, <1>3, OneForOne

LEMMA HookFAddIs ==
  ASSUME NEW f, f.last \in Nat, WellFormed(f, f.last), NEW i \in Insts(f), i.op = "fadd"
  PROVE  Rewritten(f, i, HookFAdd(f, i.name), {"hook"})
<1>. DEFINE j == [i EXCEPT !.op = "hook"]
<1>1. IsInst(i) /\ InstOf(f, i.name) = i
  BY PlaceIs, CodeIs, InstsAre
<1>2. IsInst(j) /\ j.name = i.name /\ j.op = "hook" /\ j.x = i.x /\ j.y = i.y
  BY <1>1 DEF IsInst
<1>3. HookFAdd(f, i.name) = ReplaceInst(f, i.name, <<j>>)
  BY <1>1 DEF HookFAdd
<1>. HIDE DEF j
<1>. QED  BY <1>2, <1>3, OneForOne

LEMMA NegateConstantIs ==
  ASSUME NEW f, f.last \in Nat, WellFormed(f, f.last), NEW i \in Insts(f), i.op \in {"add", "sub"}
  PROVE  Rewritten(f, i, NegateConstant(f, i.name), {"add", "sub"})
<1>. DEFINE c == Integer(Signed(-Signed(i.y[2], CInt), CInt) % Word)
            j == [i EXCEPT !.y = c]
<1>1. IsInst(i) /\ InstOf(f, i.name) = i
  BY PlaceIs, CodeIs, InstsAre
<1>2. DOMAIN i = {"name", "op", "x", "y"}
  BY <1>1 DEF IsInst
<1>3. NegateConstant(f, i.name) = ReplaceInst(f, i.name, <<j>>)
  BY <1>1, <1>2 DEF NegateConstant
<1>4. \A names : Defined(c, names)
  BY DEF Defined, Integer
<1>. HIDE DEF c
<1>5. IsInst(j) /\ j.name = i.name /\ j.op = i.op /\ j.x = i.x /\ j.y = c
  BY <1>2 DEF IsInst
<1>. HIDE DEF j
<1>6. Rewritten(f, i, NegateConstant(f, i.name), {i.op})
  BY <1>3, <1>4, <1>5, OneForOne
<1>. QED  BY <1>6 DEF Rewritten

\* The difference, its absolute value and the comparison of that, in the block of i.
Converting(f, i, g) ==
  \E h, b, q, N, s :
    /\ WellFormed(h, f.last + 2) /\ f.code[b][q] = i /\ InPlace(f, h, b, q, N, s, 3)
    /\ s[1].name = f.last + 1 /\ s[1].op = "fsub" /\ s[1].x = i.x /\ s[1].y = i.y
    /\ s[2].name = f.last + 2 /\ s[2].op = "abs" /\ s[2].x = Val(f.last + 1)
    /\ s[3].name = i.name /\ s[3].op = NewPredicate[i.op] /\ s[3].x = Val(f.last + 2) /\ s[3].y = Num(Epsilon)
    /\ g.code = h.code /\ g.br = h.br

LEMMA ConvertIs ==
  ASSUME NEW f, f.last \in Nat, WellFormed(f, f.last), NEW i \in Insts(f), i.op \in Equality
  PROVE  /\ Rewritten(f, i, ConvertFCmpEqInstruction(f, i.name), {"fsub", "abs", "olt", "ult", "oge", "uge"})
         /\ ConvertFCmpEqInstruction(f, i.name).last = f.last + 2
         /\ Converting(f, i, ConvertFCmpEqInstruction(f, i.name))
<1>. DEFINE ops == {"fsub", "abs", "olt", "ult", "oge", "uge"}
            fsub == f.last + 1
            abs == f.last + 2
            a == [name |-> fsub, op |-> "fsub", x |-> i.x, y |-> i.y]
            b == [name |-> abs, op |-> "abs", x |-> Val(fsub), y |-> Val(fsub)]
            c == [i EXCEPT !.op = NewPredicate[@], !.x = Val(abs), !.y = Num(Epsilon)]
            s == <<a, b, c>>
            h == ReplaceInst(f, i.name, s)
            g == [h EXCEPT !.last = abs]
<1>1. IsInst(i) /\ InstOf(f, i.name) = i /\ i.name \in 1 .. f.last
  BY PlaceIs, CodeIs, InstsAre
<1>2. DOMAIN i = {"name", "op", "x", "y"}
  BY <1>1 DEF IsInst, Equality
<1>3. NewPredicate[i.op] \in {"olt", "ult", "oge", "uge"}
  BY DEF NewPredicate, Equality
<1>4. /\ IsInst(a) /\ a.name = f.last + 1 /\ a.op \in ops
      /\ IsInst(b) /\ b.name = f.last + 2 /\ b.op \in ops
  BY DEF IsInst
<1>5. IsInst(c) /\ c.name = i.name /\ c.op \in ops
  <2>1. DOMAIN c = DOMAIN i /\ c.name = i.name /\ c.op = NewPredicate[i.op]
    BY <1>2
  <2>. HIDE DEF c
  <2>. QED  BY <1>2, <1>3, <2>1 DEF IsInst
<1>6. ConvertFCmpEqInstruction(f, i.name) = g
  BY <1>1 DEF ConvertFCmpEqInstruction
<1>14. /\ a.x = i.x /\ a.y = i.y /\ b.x = Val(fsub) /\ b.y = Val(fsub)
       /\ c.x = Val(abs) /\ c.y = Num(Epsilon)
  BY <1>2
<1>16. a.op = "fsub" /\ b.op = "abs" /\ c.op = NewPredicate[i.op]
  BY <1>2
<1>. HIDE DEF a, b, c
<1>7. /\ s \in Seq({a, b, c}) /\ DOMAIN s = 1 .. 3 /\ ToSet(s) = {a, b, c} /\ Len(s) = 3
      /\ s[1] = a /\ s[2] = b /\ s[3] = c
  <2>1. s \in Seq({a, b, c}) /\ DOMAIN s = 1 .. 3 /\ Len(s) = 3 /\ s[1] = a /\ s[2] = b /\ s[3] = c
    OBVIOUS
  <2>2. 1 .. 3 = {1, 2, 3}
    OBVIOUS
  <2>. HIDE DEF s
  <2>. QED  BY <2>1, <2>2 DEF ToSet
<1>8. /\ \A j \in ToSet(s) : IsInst(j) /\ j.name \in {i.name} \cup (f.last + 1 .. f.last + 2)
      /\ \A j, k \in DOMAIN s : s[j].name = s[k].name => j = k
  <2>1. /\ s[1].name = f.last + 1 /\ s[2].name = f.last + 2 /\ s[3].name = i.name
        /\ i.name <= f.last /\ i.name \in Nat
    BY <1>1, <1>4, <1>5
  <2>2. 1 .. 3 = {1, 2, 3}
    OBVIOUS
  <2>3. f.last + 1 \in f.last + 1 .. f.last + 2 /\ f.last + 2 \in f.last + 1 .. f.last + 2
    OBVIOUS
  <2>. HIDE DEF s
  <2>. QED  BY <1>4, <1>5, <1>7, <2>1, <2>2, <2>3
<1>. HIDE DEF s
<1>9. /\ WellFormed(h, f.last + 2) /\ SameFrame(f, h) /\ h.last = f.last
      /\ \A k \in Insts(f) : k # i => k \in Insts(h)
      /\ \A k \in Insts(h) : k \in ToSet(s) \/ (k \in Insts(f) /\ k # i)
  <2>. DEFINE M == f.last + 2
              S == {a, b, c}
  <2>1. M \in Nat /\ f.last <= M /\ s \in Seq(S)
    BY <1>7
  <2>2. /\ \A j \in ToSet(s) : IsInst(j) /\ j.name \in {i.name} \cup (f.last + 1 .. M)
        /\ \A j, k \in DOMAIN s : s[j].name = s[k].name => j = k
    BY <1>8
  <2>. HIDE DEF M, S
  <2>3. /\ WellFormed(h, M) /\ SameFrame(f, h) /\ h.last = f.last
        /\ \A k \in Insts(f) : k # i => k \in Insts(h)
        /\ \A k \in Insts(h) : k \in ToSet(s) \/ (k \in Insts(f) /\ k # i)
    BY <2>1, <2>2, ReplaceInstIs
  <2>. QED  BY <2>3 DEF M
<1>15. OperandsDominate(f) => OperandsDominate(h)
  <2>1. Uses(i, s, 3)
    <3>. SUFFICES ASSUME NEW names, Defined(i.x, names), Defined(i.y, names), NEW k \in 1 .. 3
                  PROVE  /\ Defined(s[k].x, names \cup {s[n].name : n \in 1 .. k - 1})
                         /\ Defined(s[k].y, names \cup {s[n].name : n \in 1 .. k - 1})
      BY DEF Uses
    <3>1. CASE k = 1
      BY <1>7, <1>14, <3>1 DEF Defined
    <3>2. CASE k = 2
      <4>1. 1 \in 1 .. k - 1 /\ s[1].name = fsub
        BY <1>4, <1>7, <3>2
      <4>2. s[k].x[2] = fsub /\ s[k].y[2] = fsub
        BY <1>7, <1>14, <3>2 DEF Val
      <4>. HIDE DEF fsub
      <4>. QED  BY <4>1, <4>2 DEF Defined
    <3>3. CASE k = 3
      <4>1. 2 \in 1 .. k - 1 /\ s[2].name = abs
        BY <1>4, <1>7, <3>3
      <4>2. s[k].x[2] = abs /\ s[k].y[1] = "num"
        BY <1>7, <1>14, <3>3 DEF Val, Num
      <4>. HIDE DEF abs
      <4>. QED  BY <4>1, <4>2 DEF Defined
    <3>. QED  BY <3>1, <3>2, <3>3
  <2>2. i.op # "phi" /\ \A k \in 1 .. 3 : s[k].op # "phi"
    <3>1. \A k \in 1 .. 3 : s[k] \in {a, b, c}
      BY <1>7
    <3>. QED  BY <1>4, <1>5, <3>1 DEF Equality
  <2>3. 3 \in 1 .. Len(s) /\ s[3].name = i.name
    BY <1>5, <1>7
  <2>. DEFINE M == f.last + 2
  <2>4. M \in Nat /\ WellFormed(h, M)
    BY <1>9
  <2>. HIDE DEF M
  <2>. QED  BY <1>7, <2>1, <2>2, <2>3, <2>4, ReplaceInstDominates
<1>. HIDE DEF h
<1>10. /\ WellFormed(g, f.last + 2) /\ SameFrame(h, g) /\ g.last = f.last + 2 /\ Insts(g) = Insts(h)
       /\ g.code = h.code /\ g.br = h.br
       /\ OperandsDominate(h) => OperandsDominate(g)
  BY <1>9, LastIs
<1>. HIDE DEF g
<1>17. Converting(f, i, g)
  <2>1. PICK d \in DOMAIN f.code : \E k \in 1 .. Len(f.code[d]) : f.code[d][k] = i
    BY PlaceIs
  <2>2. PICK q \in 1 .. Len(f.code[d]) : f.code[d][q] = i
    BY <2>1
  <2>3. InPlace(f, h, d, q, Len(f.code[d]), s, 3)
    <3>1. InPlace(f, ReplaceInst(f, f.code[d][q].name, s), d, q, Len(f.code[d]), s, Len(s))
      BY <1>7, ReplacedAt
    <3>. QED  BY <1>7, <2>2, <3>1 DEF h
  <2>. QED  BY <1>4, <1>5, <1>7, <1>9, <1>10, <1>14, <1>16, <2>2, <2>3 DEF Converting
<1>11. \A k : Alike(k, k)
  BY DEF Alike
<1>12. /\ \A k \in Insts(f) : k # i => \E l \in Insts(g) : Alike(k, l)
       /\ \A k \in Insts(g) : (\E l \in Insts(f) : l # i /\ Alike(l, k)) \/ k.op \in ops
  BY <1>4, <1>5, <1>7, <1>9, <1>10, <1>11
<1>13. SameFrame(f, g) /\ g.last \in Nat /\ WellFormed(g, g.last)
  BY <1>9, <1>10 DEF SameFrame
<1>. QED  BY <1>6, <1>10, <1>12, <1>13, <1>15, <1>17 DEF Rewritten

\* The sum and the comparison before i, the split before i, and the PHI in its place.
Clamping(f, i, g) ==
  \E x, y, h, b, q, N, K, s, t :
    /\ WellFormed(x, f.last + 2) /\ WellFormed(y, f.last + 5) /\ WellFormed(h, f.last + 5)
    /\ f.code[b][q] = i /\ InPlace(f, x, b, q, N, s, 3) /\ (OperandsDominate(f) => OperandsDominate(x))
    /\ s[1].name = f.last + 1 /\ s[1].op = "fadd" /\ s[1].x = i.x /\ s[1].y = i.y
    /\ s[2].name = f.last + 2 /\ s[2].op = "ogt" /\ s[2].x = Val(f.last + 1) /\ s[2].y = Num(Limit)
    /\ s[3] = i
    /\ IsSplit(x, y, b, q + 2, N + 2, Val(f.last + 2), f.last + 3, f.last + 4, f.last + 5)
    /\ y.code[f.last + 5][1] = i
    /\ InPlace(y, h, f.last + 5, 1, K, t, 1) /\ t[1] = ClampPhi(i.name, f.last + 1, f.last + 3, f.last + 4)
    /\ g.code = h.code /\ g.br = h.br

LEMMA ClampIs ==
  ASSUME NEW f, f.last \in Nat, WellFormed(f, f.last), NEW i \in Insts(f), i.op = "fadd"
  PROVE  /\ Rewritten(f, i, ClampFAdd(f, i.name), {"fadd", "ogt", "phi"})
         /\ ClampFAdd(f, i.name).last = f.last + 5
         /\ Clamping(f, i, ClampFAdd(f, i.name))
<1>. DEFINE n == i.name
            L == f.last
            p == Place(f, n)
            a == [i EXCEPT !.name = L + 1]
            b == [name |-> L + 2, op |-> "ogt", x |-> Val(L + 1), y |-> Num(Limit)]
            s == Append(<<a, b>>, i)
            then == L + 3
            else == L + 4
            tail == L + 5
            compared == ReplaceInst(f, n, s)
            split == SplitBlockAndInsertIfThenElse(compared, p[1], p[2] + 2, Val(L + 2), then, else, tail)
            phi == ClampPhi(n, L + 1, then, else)
            h == ReplaceInst(split, n, <<phi>>)
            g == [h EXCEPT !.last = tail]
<1>1. IsInst(i) /\ InstOf(f, i.name) = i /\ i.name \in 1 .. f.last
  BY PlaceIs, CodeIs, InstsAre
<1>2. ClampFAdd(f, i.name) = g
  BY <1>1 DEF ClampFAdd
<1>3. /\ IsInst(a) /\ a.name = L + 1 /\ a.op = "fadd" /\ a.x = i.x /\ a.y = i.y
      /\ IsInst(b) /\ b.name = L + 2 /\ b.op = "ogt" /\ b.x = Val(L + 1) /\ b.y = Num(Limit)
  BY <1>1 DEF IsInst
<1>4. /\ IsInst(phi) /\ phi.name = i.name /\ phi.op = "phi" /\ DOMAIN phi.in = {then, else}
      /\ \A q \in {then, else} : phi.in[q] \in {Num(Limit), Val(L + 1)}
  <2>. DEFINE in == [q \in {then, else} |-> IF q = then THEN Num(Limit) ELSE Val(L + 1)]
  <2>1. phi = [name |-> n, op |-> "phi", in |-> in]
    BY DEF ClampPhi
  <2>2. DOMAIN in = {then, else} /\ \A q \in {then, else} : in[q] \in {Num(Limit), Val(L + 1)}
    <3>. HIDE DEF then, else
    <3>. QED  OBVIOUS
  <2>. HIDE DEF in
  <2>. QED  BY <2>1, <2>2 DEF IsInst
<1>. HIDE DEF a, b, phi, p, g
<1>5. /\ s \in Seq({a, b, i}) /\ Len(s) = 3 /\ DOMAIN s = {1, 2, 3} /\ ToSet(s) = {a, b, i}
      /\ s[1] = a /\ s[2] = b /\ s[3] = i
  <2>1. /\ <<a, b>> \in Seq({a, b, i}) /\ Len(<<a, b>>) = 2
        /\ <<a, b>>[1] = a /\ <<a, b>>[2] = b
    OBVIOUS
  <2>2. s \in Seq({a, b, i}) /\ Len(s) = 3 /\ DOMAIN s = 1 .. 3 /\ s[1] = a /\ s[2] = b /\ s[3] = i
    BY <2>1, AppendProperties, LenProperties
  <2>3. 1 .. 3 = {1, 2, 3}
    OBVIOUS
  <2>. HIDE DEF s
  <2>. QED  BY <2>2, <2>3 DEF ToSet
<1>. HIDE DEF s
<1>6. /\ \A j \in ToSet(s) : IsInst(j) /\ j.name \in {i.name} \cup (L + 1 .. L + 2)
      /\ \A j, k \in DOMAIN s : s[j].name = s[k].name => j = k
  <2>1. L + 1 \in L + 1 .. L + 2 /\ L + 2 \in L + 1 .. L + 2
    OBVIOUS
  <2>2. i.name # L + 1 /\ i.name # L + 2 /\ L + 1 # L + 2
    BY <1>1
  <2>. QED  BY <1>1, <1>3, <1>5, <2>1, <2>2
<1>7. /\ WellFormed(compared, L + 2) /\ SameFrame(f, compared) /\ compared.last = L
      /\ DOMAIN compared.code = DOMAIN f.code
      /\ \A k \in Insts(f) : k # i => k \in Insts(compared)
      /\ \A k \in Insts(compared) : k \in ToSet(s) \/ (k \in Insts(f) /\ k # i)
      /\ ToSet(s) \subseteq Insts(compared)
      /\ p[1] \in DOMAIN f.code /\ p[2] \in 1 .. Len(f.code[p[1]])
      /\ Len(compared.code[p[1]]) = Len(f.code[p[1]]) + 2
  <2>. DEFINE M == L + 2
              S == {a, b, i}
  <2>1. M \in Nat /\ L <= M /\ s \in Seq(S)
    BY <1>5
  <2>2. \A j \in ToSet(s) : IsInst(j) /\ j.name \in {i.name} \cup (f.last + 1 .. M)
    BY <1>6
  <2>. HIDE DEF M, S
  <2>3. /\ WellFormed(compared, M) /\ SameFrame(f, compared) /\ compared.last = f.last
        /\ DOMAIN compared.code = DOMAIN f.code
        /\ \A k \in Insts(f) : k # i => k \in Insts(compared)
        /\ \A k \in Insts(compared) : k \in ToSet(s) \/ (k \in Insts(f) /\ k # i)
        /\ ToSet(s) \subseteq Insts(compared)
        /\ p[1] \in DOMAIN f.code /\ p[2] \in 1 .. Len(f.code[p[1]])
        /\ Len(compared.code[p[1]]) = Len(f.code[p[1]]) + Len(s) - 1
    BY <1>6, <2>1, <2>2, ReplaceInstIs DEF p
  <2>. HIDE DEF compared
  <2>4. Len(f.code[p[1]]) \in Nat
    BY <2>3, CodeIs
  <2>. QED  BY <1>5, <2>3, <2>4 DEF M
\* The sum, the comparison and the instruction itself, in its block.
<1>15. PICK c \in DOMAIN f.code : \E k \in 1 .. Len(f.code[c]) : f.code[c][k] = i /\ p = <<c, k>>
  BY PlaceIs DEF p
<1>16. PICK q \in 1 .. Len(f.code[c]) : f.code[c][q] = i /\ p = <<c, q>>
  BY <1>15
<1>17. InPlace(f, compared, c, q, Len(f.code[c]), s, 3)
  <2>1. InPlace(f, ReplaceInst(f, f.code[c][q].name, s), c, q, Len(f.code[c]), s, Len(s))
    BY <1>5, ReplacedAt
  <2>. QED  BY <1>5, <1>16, <2>1
<1>. HIDE DEF compared
<1>18. OperandsDominate(f) => OperandsDominate(compared)
  <2>1. Uses(i, s, 3)
    <3>. SUFFICES ASSUME NEW names, Defined(i.x, names), Defined(i.y, names), NEW k \in 1 .. 3
                  PROVE  /\ Defined(s[k].x, names \cup {s[m].name : m \in 1 .. k - 1})
                         /\ Defined(s[k].y, names \cup {s[m].name : m \in 1 .. k - 1})
      BY DEF Uses
    <3>1. CASE k \in {1, 3}
      BY <1>3, <1>5, <3>1 DEF Defined
    <3>2. CASE k = 2
      <4>1. 1 \in 1 .. k - 1 /\ s[1].name = L + 1
        BY <1>3, <1>5, <3>2
      <4>2. s[k].x[2] = L + 1 /\ s[k].y[1] = "num"
        BY <1>3, <1>5, <3>2 DEF Val, Num
      <4>. QED  BY <4>1, <4>2 DEF Defined
    <3>. QED  BY <3>1, <3>2
  <2>2. i.op # "phi" /\ \A k \in 1 .. 3 : s[k].op # "phi"
    <3>1. \A k \in 1 .. 3 : s[k] \in {a, b, i}
      BY <1>5
    <3>. QED  BY <1>3, <3>1
  <2>3. 3 \in 1 .. 3 /\ s[3].name = f.code[c][q].name
    BY <1>5, <1>16
  <2>. DEFINE M == L + 2
              r == 3
  <2>4. M \in Nat
    OBVIOUS
  <2>5. WellFormed(compared, M)
    BY <1>7
  <2>6. InPlace(f, compared, c, q, Len(f.code[c]), s, r)
    BY <1>17
  <2>. HIDE DEF M
  <2>. QED  BY <1>16, <2>1, <2>2, <2>3, <2>4, <2>5, <2>6, InPlaceDominates
<1>19. /\ c \in DOMAIN compared.code /\ q \in Nat /\ q + 2 \in 1 .. Len(compared.code[c])
       /\ compared.code[c][q + 2] = i
       /\ {L + 1, L + 2} \subseteq Known(compared, c, q + 2)
  <2>1. Len(f.code[c]) \in Nat /\ q \in Nat
    BY CodeIs
  <2>2. q \in q .. q + 3 - 1 /\ q + 1 \in q .. q + 3 - 1 /\ q + 2 \in q .. q + 3 - 1
    BY <2>1
  <2>3. \A k \in q .. q + 3 - 1 : compared.code[c][k] = s[k - q + 1]
    BY <1>17 DEF InPlace
  <2>4. q - q + 1 = 1 /\ q + 1 - q + 1 = 2 /\ q + 2 - q + 1 = 3
    BY <2>1
  <2>5. /\ compared.code[c][q].name = L + 1 /\ compared.code[c][q + 1].name = L + 2
        /\ compared.code[c][q + 2] = i
    BY <1>3, <1>5, <2>2, <2>3, <2>4
  <2>6. q \in 1 .. q + 2 - 1 /\ q + 1 \in 1 .. q + 2 - 1
    BY <2>1
  <2>7. {L + 1, L + 2} \subseteq Known(compared, c, q + 2)
    BY <2>5, <2>6 DEF Known
  <2>8. c \in DOMAIN compared.code /\ q + 2 \in 1 .. Len(compared.code[c])
    BY <1>7, <1>16, <2>1
  <2>. QED  BY <2>1, <2>5, <2>7, <2>8
<1>8. /\ WellFormed(split, L + 5) /\ SameFrame(compared, split)
      /\ \A j \in Insts(compared) : \E k \in Insts(split) : Alike(j, k)
      /\ \A k \in Insts(split) : \E j \in Insts(compared) : Alike(j, k)
      /\ IsSplit(compared, split, p[1], p[2] + 2, Len(compared.code[p[1]]), Val(L + 2), then, else, tail)
  <2>. DEFINE top == L + 2
              M == L + 5
              d == p[1]
              m == p[2] + 2
              x == L + 3
              y == L + 4
              z == L + 5
              cond == Val(L + 2)
  <2>1. Len(f.code[p[1]]) \in Nat
    BY <1>7, CodeIs
  <2>2. /\ top \in Nat /\ M \in Nat /\ top <= M
        /\ x \in top + 1 .. M /\ y \in top + 1 .. M /\ z \in top + 1 .. M /\ x # y /\ x # z /\ y # z
    OBVIOUS
  <2>3. d \in DOMAIN compared.code /\ m \in 1 .. Len(compared.code[d]) + 1
    BY <1>7, <2>1
  <2>4. WellFormed(compared, top)
    BY <1>7
  <2>5. split = SplitBlockAndInsertIfThenElse(compared, d, m, cond, x, y, z)
    OBVIOUS
  <2>. HIDE DEF top, M, d, m, x, y, z, cond, split
  <2>6. /\ WellFormed(split, M) /\ SameFrame(compared, split)
        /\ \A j \in Insts(compared) : \E k \in Insts(split) : Alike(j, k)
        /\ \A k \in Insts(split) : \E j \in Insts(compared) : Alike(j, k)
        /\ IsSplit(compared, split, d, m, Len(compared.code[d]), cond, x, y, z)
    BY <2>2, <2>3, <2>4, <2>5, SplitIs
  <2>. QED  BY <2>6 DEF M, d, m, cond, x, y, z
<1>. HIDE DEF split
<1>20. /\ WellFormed(split, L + 5)
       /\ IsSplit(compared, split, c, q + 2, Len(compared.code[c]), Val(L + 2), then, else, tail)
  BY <1>8, <1>16
<1>21. tail \in DOMAIN split.code /\ 1 \in 1 .. Len(split.code[tail]) /\ split.code[tail][1] = i
  <2>. DEFINE m == q + 2
              N == Len(compared.code[c])
  <2>. PICK k \in 1 .. N - m + 1 : k = 1 /\ m + k - 1 = m
    <3>1. 1 \in 1 .. N - m + 1 /\ m + 1 - 1 = m
      BY <1>19
    <3>. QED  BY <3>1
  <2>. HIDE DEF m, N
  <2>1. IsSplit(compared, split, c, m, N, Val(L + 2), then, else, tail)
    BY <1>20 DEF m, N
  <2>2. /\ tail \in DOMAIN split.code /\ DOMAIN split.code[tail] = 1 .. N - m + 1
        /\ Moved(compared.code[c][m + k - 1], split.code[tail][k], c, tail)
    BY <2>1 DEF IsSplit
  <2>3. Moved(i, split.code[tail][1], c, tail)
    BY <1>19, <2>2 DEF m
  <2>4. split.code[tail][1] = i
    BY <2>3 DEF Moved, Alike
  <2>5. DOMAIN split.code[tail] = 1 .. Len(split.code[tail])
    BY <1>20, <2>2, CodeIs
  <2>. QED  BY <2>2, <2>4, <2>5
<1>9. i \in Insts(split) /\ \A j : Alike(i, j) => j = i
  <2>1. i \in Insts(compared)
    BY <1>5, <1>7
  <2>2. \A j : Alike(i, j) => j = i
    BY DEF Alike
  <2>. QED  BY <1>8, <2>1, <2>2
<1>10. /\ WellFormed(h, L + 5) /\ SameFrame(split, h)
       /\ \A k \in Insts(split) : k # i => k \in Insts(h)
       /\ \A k \in Insts(h) : k = phi \/ (k \in Insts(split) /\ k # i)
       /\ InPlace(split, h, tail, 1, Len(split.code[tail]), <<phi>>, 1)
       /\ OperandsDominate(f) => OperandsDominate(h)
  <2>. DEFINE t == <<phi>>
              M == L + 5
  <2>1. t \in Seq({phi}) /\ DOMAIN t = {1} /\ ToSet(t) = {phi} /\ Len(t) = 1 /\ t[1] = phi
    BY DEF ToSet
  <2>2. h = ReplaceInst(split, i.name, t)
    OBVIOUS
  <2>3. /\ \A k \in ToSet(t) : IsInst(k) /\ k.name \in {i.name} \cup (M + 1 .. M)
        /\ \A k, l \in DOMAIN t : t[k].name = t[l].name => k = l
    BY <1>4, <2>1
  <2>4. M \in Nat /\ M <= M /\ WellFormed(split, M)
    BY <1>8
  <2>. HIDE DEF t, h, M
  <2>5. /\ WellFormed(h, M) /\ SameFrame(split, h)
        /\ \A k \in Insts(split) : k # i => k \in Insts(h)
        /\ \A k \in Insts(h) : k \in ToSet(t) \/ (k \in Insts(split) /\ k # i)
    BY <1>9, <2>1, <2>2, <2>3, <2>4, ReplaceInstIs
  <2>. DEFINE N == Len(split.code[tail])
              top == L + 2
              m == q + 2
              cond == Val(L + 2)
              K == Len(compared.code[c])
  <2>6. InPlace(split, h, tail, 1, N, t, 1)
    <3>1. InPlace(split, ReplaceInst(split, split.code[tail][1].name, t), tail, 1, N, t, Len(t))
      BY <1>20, <1>21, <2>1, ReplacedAt
    <3>. QED  BY <1>21, <2>1, <2>2, <3>1
  <2>7. /\ t[1].name = compared.code[c][m].name /\ t[1].op = "phi" /\ DOMAIN t[1].in = {then, else}
        /\ compared.code[c][m].op # "phi" /\ m <= K
    BY <1>4, <1>19, <2>1
  <2>8. \A k \in {then, else} : Defined(t[1].in[k], Known(compared, c, m))
    <3>1. \A k \in {then, else} : t[1].in[k] \in {Num(Limit), Val(L + 1)}
      BY <1>4, <2>1
    <3>2. L + 1 \in Known(compared, c, m)
      BY <1>19
    <3>3. Defined(Num(Limit), Known(compared, c, m)) /\ Defined(Val(L + 1), Known(compared, c, m))
      BY <3>2 DEF Defined, Num, Val
    <3>. QED  BY <3>1, <3>3
  <2>9. Defined(cond, Known(compared, c, m))
    BY <1>19 DEF Defined, Val
  <2>10. WellFormed(compared, top)
    BY <1>7
  <2>12. top \in Nat
    OBVIOUS
  <2>13. IsSplit(compared, split, c, m, K, cond, then, else, tail)
    BY <1>20
  <2>. HIDE DEF N, top, m, cond, K, then, else, tail
  <2>11. OperandsDominate(compared) => OperandsDominate(h)
    BY <2>4, <2>5, <2>6, <2>7, <2>8, <2>9, <2>10, <2>12, <2>13, SplitPhiDominates
  <2>. QED  BY <1>18, <2>1, <2>5, <2>6, <2>11 DEF M, N, t
<1>. HIDE DEF h
<1>11. /\ WellFormed(g, L + 5) /\ SameFrame(h, g) /\ g.last = L + 5 /\ Insts(g) = Insts(h)
       /\ g.code = h.code /\ g.br = h.br
       /\ OperandsDominate(h) => OperandsDominate(g)
  <2>. DEFINE M == L + 5
  <2>1. M \in Nat
    OBVIOUS
  <2>2. WellFormed(h, M)
    BY <1>10
  <2>. HIDE DEF M, h
  <2>3. /\ WellFormed(g, M) /\ SameFrame(h, g) /\ g.last = tail /\ Insts(g) = Insts(h)
        /\ g.code = h.code /\ g.br = h.br
        /\ OperandsDominate(h) => OperandsDominate(g)
    BY <2>1, <2>2, LastIs DEF g
  <2>. QED  BY <2>3 DEF M
<1>12. ASSUME NEW j \in Insts(f), j # i PROVE \E k \in Insts(g) : Alike(j, k)
  <2>1. PICK k \in Insts(split) : Alike(j, k)
    BY <1>7, <1>8, <1>12
  <2>2. k # i
    BY <1>12, <2>1, OneOfName DEF Alike
  <2>. QED  BY <1>10, <1>11, <2>1, <2>2
<1>13. ASSUME NEW k \in Insts(g)
       PROVE  (\E j \in Insts(f) : j # i /\ Alike(j, k)) \/ k.op \in {"fadd", "ogt", "phi"}
  <2>1. CASE k = phi
    BY <1>4, <2>1
  <2>2. CASE k \in Insts(split) /\ k # i
    <3>1. PICK j \in Insts(compared) : Alike(j, k)
      BY <1>8, <2>2
    <3>2. j # i
      BY <1>9, <2>2, <3>1
    <3>3. CASE j \in {a, b}
      BY <1>3, <3>1, <3>3 DEF Alike
    <3>4. CASE j \in Insts(f)
      BY <3>1, <3>2, <3>4
    <3>. QED  BY <1>5, <1>7, <3>2, <3>3, <3>4
  <2>. QED  BY <1>10, <1>11, <2>1, <2>2
<1>14. SameFrame(f, g) /\ g.last \in Nat /\ WellFormed(g, g.last)
  <2>1. SameFrame(f, g)
    BY <1>7, <1>8, <1>10, <1>11 DEF SameFrame
  <2>2. g.last = L + 5 /\ WellFormed(g, L + 5)
    BY <1>11
  <2>. QED  BY <2>1, <2>2
<1>22. Clamping(f, i, g)
  <2>. DEFINE t == <<phi>>
              N == Len(f.code[c])
              x == compared
              y == split
  <2>1. t[1] = phi
    OBVIOUS
  <2>2. IsSplit(x, y, c, q + 2, N + 2, Val(L + 2), then, else, tail)
    BY <1>7, <1>16, <1>20
  <2>. HIDE DEF t, N
  <2>3. InPlace(f, x, c, q, N, s, 3) /\ InPlace(y, h, tail, 1, Len(y.code[tail]), t, 1)
    BY <1>10, <1>17 DEF t, N
  <2>4. t[1] = ClampPhi(i.name, L + 1, L + 3, L + 4)
    BY <2>1 DEF phi
  <2>. HIDE DEF x, y
  <2>5. /\ WellFormed(x, L + 2) /\ WellFormed(y, L + 5) /\ WellFormed(h, L + 5)
        /\ OperandsDominate(f) => OperandsDominate(x)
        /\ f.code[c][q] = i /\ y.code[tail][1] = i
    BY <1>7, <1>10, <1>16, <1>18, <1>20, <1>21 DEF x, y
  <2>6. /\ s[1].name = L + 1 /\ s[1].op = "fadd" /\ s[1].x = i.x /\ s[1].y = i.y
        /\ s[2].name = L + 2 /\ s[2].op = "ogt" /\ s[2].x = Val(L + 1) /\ s[2].y = Num(Limit)
        /\ s[3] = i
    BY <1>3, <1>5
  <2>7. g.code = h.code /\ g.br = h.br
    BY <1>11
  <2>. QED  BY <2>2, <2>3, <2>4, <2>5, <2>6, <2>7, Zenon DEF Clamping
<1>. QED  BY <1>2, <1>10, <1>11, <1>12, <1>13, <1>14, <1>22 DEF Rewritten

\* What the opcodes are of the instructions that a tool puts in.
NewOps(t) ==
  CASE t = "work1" -> {"fsub"}
    [] t = "work2" -> {"fadd", "ogt", "phi"}
    [] t = "work3" -> {"hook"}
    [] t = "convert_fcmp_eq" -> {"fsub", "abs", "olt", "ult", "oge", "uge"}
    [] t = "parsetest" -> {"add", "sub"}
    [] t = "find_fcmp_eq" -> {}

LEMMA ReplacementIs ==
  ASSUME NEW t \in Tool, NEW f, f.last \in Nat, WellFormed(f, f.last),
         NEW i \in Insts(f), Target(t, i)
  PROVE  Rewritten(f, i, Replacement(t, f, i.name), NewOps(t))
<1>1. CASE t = "work1"
  <2>1. i.op = "fadd" /\ Replacement(t, f, i.name) = SubFAdd(f, i.name) /\ NewOps(t) = {"fsub"}
    BY <1>1 DEF Target, Replacement, NewOps
  <2>. QED  BY <2>1, SubFAddIs
<1>2. CASE t = "work2"
  <2>1. /\ i.op = "fadd" /\ Replacement(t, f, i.name) = ClampFAdd(f, i.name)
        /\ NewOps(t) = {"fadd", "ogt", "phi"}
    BY <1>2 DEF Target, Replacement, NewOps
  <2>. QED  BY <2>1, ClampIs
<1>3. CASE t = "work3"
  <2>1. i.op = "fadd" /\ Replacement(t, f, i.name) = HookFAdd(f, i.name) /\ NewOps(t) = {"hook"}
    BY <1>3 DEF Target, Replacement, NewOps
  <2>. QED  BY <2>1, HookFAddIs
<1>4. CASE t = "convert_fcmp_eq"
  <2>1. /\ i.op \in Equality /\ Replacement(t, f, i.name) = ConvertFCmpEqInstruction(f, i.name)
        /\ NewOps(t) = {"fsub", "abs", "olt", "ult", "oge", "uge"}
    BY <1>4 DEF Target, Replacement, NewOps
  <2>. QED  BY <2>1, ConvertIs
<1>5. CASE t = "parsetest"
  <2>1. /\ i.op \in {"add", "sub"} /\ Replacement(t, f, i.name) = NegateConstant(f, i.name)
        /\ NewOps(t) = {"add", "sub"}
    BY <1>5 DEF Target, Replacement, NewOps
  <2>. QED  BY <2>1, NegateConstantIs
<1>6. CASE t = "find_fcmp_eq"
  BY <1>6 DEF Target
<1>. QED  BY <1>1, <1>2, <1>3, <1>4, <1>5, <1>6 DEF Tool

-----------------------------------------------------------------------------
(* What a pass collects.                                                   *)

\* A pass collects its targets, each once.
LEMMA CollectedIs ==
  ASSUME NEW t, NEW f, NEW top \in Nat, WellFormed(f, top)
  PROVE  /\ Collected(t, f) \in Seq(Nat) /\ IsInjective(Collected(t, f))
         /\ \A n : n \in ToSet(Collected(t, f)) <=> \E i \in Insts(f) : i.name = n /\ Target(t, i)
<1>. DEFINE found(i) == IF Target(t, i) THEN <<i.name>> ELSE << >>
            in(code) == FlattenSeq([k \in DOMAIN code |-> found(code[k])])
            all == [k \in DOMAIN f.layout |-> in(f.code[f.layout[k]])]
            Found(i) == IF Target(t, i) THEN {i.name} ELSE {}
<1>1. ASSUME NEW i, i.name \in Nat
      PROVE  found(i) \in Seq(Nat) /\ IsInjective(found(i)) /\ ToSet(found(i)) = Found(i)
  <2>1. CASE Target(t, i)
    <3>1. found(i) = <<i.name>> /\ Found(i) = {i.name}
      BY <2>1
    <3>2. /\ <<i.name>> \in Seq(Nat) /\ DOMAIN <<i.name>> = {1} /\ <<i.name>>[1] = i.name
      BY <1>1
    <3>. HIDE DEF found, Found
    <3>. QED  BY <3>1, <3>2 DEF IsInjective, ToSet
  <2>2. CASE ~Target(t, i)
    <3>1. found(i) = << >> /\ Found(i) = {}
      BY <2>2
    <3>. HIDE DEF found, Found
    <3>. QED  BY <3>1, EmptySeq DEF IsInjective, ToSet
  <2>. QED  BY <2>1, <2>2
<1>. HIDE DEF found
<1>2. ASSUME NEW b \in DOMAIN f.code
      PROVE  /\ in(f.code[b]) \in Seq(Nat) /\ IsInjective(in(f.code[b]))
             /\ ToSet(in(f.code[b])) = UNION {Found(f.code[b][k]) : k \in DOMAIN f.code[b]}
  <2>. DEFINE code == f.code[b]
              g == [k \in DOMAIN code |-> found(code[k])]
              n == Len(code)
  <2>1. /\ n \in Nat /\ DOMAIN code = 1 .. n
        /\ \A k \in 1 .. n : code[k].name \in Nat
        /\ \A j, k \in 1 .. n : code[j].name = code[k].name => j = k
    <3>1. /\ Len(f.code[b]) \in Nat /\ DOMAIN f.code[b] = 1 .. Len(f.code[b])
          /\ \A k \in 1 .. Len(f.code[b]) : f.code[b][k].name \in 1 .. top
      BY CodeIs
    <3>. QED  BY <3>1 DEF WellFormed, UniqueNames
  <2>. HIDE DEF code, n
  <2>2. /\ \A k \in 1 .. n : /\ g[k] = found(code[k]) /\ g[k] \in Seq(Nat) /\ IsInjective(g[k])
                             /\ ToSet(g[k]) = Found(code[k])
        /\ DOMAIN g = 1 .. n
    BY <1>1, <2>1
  <2>3. g \in Seq(Seq(Nat))
    <3>1. g = [k \in 1 .. n |-> g[k]]
      BY <2>1
    <3>. HIDE DEF g
    <3>2. g \in [1 .. n -> Seq(Nat)]
      BY <2>2, <3>1
    <3>. QED  BY <2>1, <3>2, SeqDef
  <2>4. \A j, k \in DOMAIN g : j # k => ToSet(g[j]) \cap ToSet(g[k]) = {}
    <3>. HIDE DEF g
    <3>1. ASSUME NEW j \in 1 .. n, NEW k \in 1 .. n, j # k
          PROVE  ToSet(g[j]) \cap ToSet(g[k]) = {}
      <4>1. code[j].name # code[k].name
        BY <2>1, <3>1
      <4>2. Found(code[j]) \cap Found(code[k]) = {}
        BY <4>1
      <4>. HIDE DEF Found
      <4>. QED  BY <2>2, <4>2
    <3>. QED  BY <2>2, <3>1
  <2>5. in(code) = FlattenSeq(g)
    OBVIOUS
  <2>. HIDE DEF g, in, Found
  <2>6. /\ FlattenSeq(g) \in Seq(Nat) /\ IsInjective(FlattenSeq(g))
        /\ ToSet(FlattenSeq(g)) = UNION {ToSet(g[k]) : k \in DOMAIN g}
    BY <2>2, <2>3, <2>4, FlattenSeqIs
  <2>7. UNION {ToSet(g[k]) : k \in DOMAIN g} = UNION {Found(code[k]) : k \in DOMAIN code}
    BY <2>1, <2>2
  <2>. QED  BY <2>5, <2>6, <2>7 DEF code
<1>. HIDE DEF in
<1>3. /\ f.layout \in Seq(DOMAIN f.code) /\ ToSet(f.layout) = DOMAIN f.code /\ IsInjective(f.layout)
  BY DEF WellFormed
<1>. DEFINE L == Len(f.layout)
<1>4. /\ L \in Nat /\ DOMAIN f.layout = 1 .. L /\ \A k \in 1 .. L : f.layout[k] \in DOMAIN f.code
  BY <1>3, LenProperties, ElementOfSeq
<1>5. /\ DOMAIN all = 1 .. L
      /\ \A k \in 1 .. L : /\ all[k] \in Seq(Nat) /\ IsInjective(all[k])
                           /\ ToSet(all[k]) = UNION {Found(f.code[f.layout[k]][j]) :
                                                       j \in DOMAIN f.code[f.layout[k]]}
  <2>1. DOMAIN all = 1 .. L /\ \A k \in 1 .. L : all[k] = in(f.code[f.layout[k]])
    BY <1>4
  <2>. HIDE DEF all, Found
  <2>. QED  BY <1>2, <1>4, <2>1
<1>6. \A k \in 1 .. L : \A n \in ToSet(all[k]) :
         \E j \in DOMAIN f.code[f.layout[k]] : n \in Found(f.code[f.layout[k]][j])
  <2>. TAKE k \in 1 .. L
  <2>. TAKE n \in ToSet(all[k])
  <2>. HIDE DEF all, Found
  <2>1. n \in UNION {Found(f.code[f.layout[k]][j]) : j \in DOMAIN f.code[f.layout[k]]}
    BY <1>5
  <2>. QED  BY <2>1
<1>7. all \in Seq(Seq(Nat))
  <2>1. all = [k \in 1 .. L |-> all[k]]
    BY <1>4
  <2>. HIDE DEF all, L
  <2>2. all \in [1 .. L -> Seq(Nat)]
    BY <1>5, <2>1
  <2>. QED  BY <1>4, <2>2, SeqDef
<1>8. Collected(t, f) = FlattenSeq(all)
  BY DEF Collected, in, found
<1>. HIDE DEF all, L
<1>9. ASSUME NEW j \in DOMAIN all, NEW k \in DOMAIN all, j # k
      PROVE  ToSet(all[j]) \cap ToSet(all[k]) = {}
  <2>. SUFFICES ASSUME NEW n \in ToSet(all[j]), n \in ToSet(all[k]) PROVE FALSE
    OBVIOUS
  <2>1. f.layout[j] \in DOMAIN f.code /\ f.layout[k] \in DOMAIN f.code /\ f.layout[j] # f.layout[k]
    BY <1>3, <1>4, <1>5, <1>9 DEF IsInjective
  <2>. HIDE DEF Found
  <2>2. PICK l \in DOMAIN f.code[f.layout[j]] : n \in Found(f.code[f.layout[j]][l])
    BY <1>5, <1>6
  <2>3. PICK m \in DOMAIN f.code[f.layout[k]] : n \in Found(f.code[f.layout[k]][m])
    BY <1>5, <1>6
  <2>4. \A i : n \in Found(i) => i.name = n
    BY DEF Found
  <2>5. f.code[f.layout[j]][l].name = f.code[f.layout[k]][m].name
    BY <2>2, <2>3, <2>4
  <2>6. UniqueNames(f)
    BY DEF WellFormed
  <2>. QED  BY <2>1, <2>5, <2>6 DEF UniqueNames
<1>10. /\ FlattenSeq(all) \in Seq(Nat) /\ IsInjective(FlattenSeq(all))
      /\ ToSet(FlattenSeq(all)) = UNION {ToSet(all[k]) : k \in DOMAIN all}
  BY <1>5, <1>7, <1>9, FlattenSeqIs
<1>11. ASSUME NEW n
       PROVE  n \in UNION {ToSet(all[k]) : k \in DOMAIN all}
                <=> \E i \in Insts(f) : i.name = n /\ Target(t, i)
  <2>1. ASSUME NEW k \in DOMAIN all, n \in ToSet(all[k])
        PROVE  \E i \in Insts(f) : i.name = n /\ Target(t, i)
    <3>1. PICK j \in DOMAIN f.code[f.layout[k]] : n \in Found(f.code[f.layout[k]][j])
      BY <1>5, <1>6, <2>1
    <3>2. f.code[f.layout[k]][j] \in Insts(f)
      BY <1>4, <1>5, InstsAre
    <3>3. f.code[f.layout[k]][j].name = n /\ Target(t, f.code[f.layout[k]][j])
      BY <3>1
    <3>. QED  BY <3>2, <3>3
  <2>2. ASSUME NEW i \in Insts(f), i.name = n, Target(t, i)
        PROVE  \E k \in DOMAIN all : n \in ToSet(all[k])
    <3>1. PICK b \in DOMAIN f.code : \E j \in DOMAIN f.code[b] : i = f.code[b][j]
      BY InstsAre
    <3>2. PICK j \in DOMAIN f.code[b] : i = f.code[b][j]
      BY <3>1
    <3>3. PICK k \in DOMAIN f.layout : b = f.layout[k]
      BY <1>3 DEF ToSet
    <3>4. n \in Found(f.code[f.layout[k]][j])
      BY <2>2, <3>2, <3>3
    <3>5. k \in DOMAIN all
      BY <1>4, <1>5
    <3>. HIDE DEF Found
    <3>6. n \in ToSet(all[k])
      BY <1>5, <3>2, <3>3, <3>4, <3>5
    <3>. QED  BY <3>5, <3>6
  <2>. QED  BY <2>1, <2>2
<1>. QED  BY <1>8, <1>10, <1>11

\* Instructions that look the same to a tool are both its targets or both not.
LEMMA AlikeTargets ==
  ASSUME NEW t \in Tool, NEW i, NEW j, Alike(i, j)
  PROVE  Target(t, i) <=> Target(t, j)
<1>1. CASE i.op = "phi"
  <2>1. j.op = "phi"
    BY <1>1 DEF Alike
  <2>2. \A k : k.op = "phi" => ~Target(t, k)
    BY DEF Target, Equality, Tool
  <2>. QED  BY <1>1, <2>1, <2>2
<1>2. CASE i.op # "phi"
  BY <1>2 DEF Alike
<1>. QED  BY <1>1, <1>2

\* What a tool u puts in is a target of t only if what u takes out is one as well, and u
\* is another tool.
LEMMA NewOpsAre ==
  ASSUME NEW t \in Final, NEW u \in Tool, NEW k, k.op \in NewOps(u), Target(t, k)
  PROVE  u # t /\ \A i : Target(u, i) => Target(t, i)
BY DEF Target, NewOps, Equality, Final, Tool

-----------------------------------------------------------------------------
(* The steps.                                                              *)

LEMMA InitFInv == Init => FInv
<1>. SUFFICES ASSUME Init PROVE FInv
  OBVIOUS
<1>1. /\ fn \in Functions /\ file = fn /\ module = fn /\ tool = "find_fcmp_eq" /\ todo = << >>
      /\ pc = "idle" /\ ran = << >> /\ block = fn.entry /\ inst = 1
  BY DEF Init
<1>2. fn.last \in Nat /\ WellFormed(fn, fn.last) /\ MaxRuns \in Nat
  BY <1>1, FunctionsAssumption
<1>3. /\ << >> \in Seq(Tool) /\ << >> \in Seq(Nat) /\ Len(<< >>) = 0 /\ DOMAIN << >> = {}
      /\ ToSet(<< >>) = {} /\ IsInjective(<< >>)
  BY EmptySeq DEF ToSet, IsInjective
<1>4. fn.entry \in DOMAIN fn.code
  BY <1>2 DEF WellFormed
<1>5. Len(fn.code[fn.entry]) \in Nat
  BY <1>2, <1>4, CodeIs
<1>6. Typed
  BY <1>1, <1>2, <1>3, <1>4, <1>5 DEF Typed, Tool
<1>7. Pending
  BY <1>1, <1>3 DEF Pending
<1>8. Settled
  BY <1>1, <1>3 DEF Settled
<1>. QED  BY <1>6, <1>7, <1>8 DEF FInv

LEMMA ParseKeeps ==
  ASSUME FInv, NEW t \in Tool, Parse(t)
  PROVE  FInv'
<1>1. /\ pc = "idle" /\ Len(ran) < MaxRuns /\ pc' = "rewrite" /\ tool' = t /\ module' = file
      /\ todo' = FindInstsToConvert(t, file)
      /\ fn' = fn /\ file' = file /\ ran' = ran /\ block' = block /\ inst' = inst
  BY DEF Parse, running
<1>2. Typed
  BY DEF FInv
<1>3. file.last \in Nat /\ WellFormed(file, file.last) /\ file.optnone = fn.optnone /\ file.entry = fn.entry
  BY <1>2 DEF Typed
<1>4. Typed'
  BY <1>1, <1>2 DEF Typed
<1>5. << >> \in Seq(Nat) /\ ToSet(<< >>) = {} /\ IsInjective(<< >>)
  BY EmptySeq DEF ToSet, IsInjective
<1>6. /\ Collected(t, file) \in Seq(Nat) /\ IsInjective(Collected(t, file))
      /\ \A n : n \in ToSet(Collected(t, file)) <=> \E i \in Insts(file) : i.name = n /\ Target(t, i)
  BY <1>3, CollectedIs
<1>7. todo' = IF Skipped(t) THEN << >> ELSE Collected(t, file)
  BY <1>1, <1>3 DEF FindInstsToConvert, Skipped
<1>8. Skipped(t)' <=> Skipped(t)
  BY <1>1 DEF Skipped
<1>9. /\ todo' \in Seq(Nat) /\ IsInjective(todo')
      /\ \A n \in ToSet(todo') : \E i \in Insts(file) : i.name = n /\ Target(t, i)
      /\ ~Skipped(t) => \A i \in Insts(file) : Target(t, i) => i.name \in ToSet(todo')
  BY <1>5, <1>6, <1>7
<1>10. Pending'
  BY <1>1, <1>7, <1>8, <1>9 DEF Pending, Skipped
<1>11. ASSUME NEW u \in ToSet(ran) \cap Final
       PROVE  NoTargets(u, file) /\ (t = u => todo' = << >>)
  <2>1. NoTargets(u, file)
    BY DEF FInv, Settled
  <2>2. ASSUME t = u, ~Skipped(u) PROVE todo' = << >>
    <3>1. \A i \in Insts(file) : ~Target(t, i)
      BY <2>1, <2>2 DEF NoTargets
    <3>2. ToSet(todo') = {}
      BY <1>9, <3>1
    <3>3. DOMAIN (todo') = {}
      BY <3>2 DEF ToSet
    <3>. QED  BY <1>9, <3>3, EmptySeq, LenProperties
  <2>. QED  BY <1>7, <2>1, <2>2
<1>12. Settled'
  BY <1>1, <1>11 DEF Settled, NoTargets, Skipped
<1>. QED  BY <1>4, <1>10, <1>12 DEF FInv

\* What is left to replace after the first.
LEMMA RestIs ==
  ASSUME NEW l \in Seq(Nat), IsInjective(l), l # << >>
  PROVE  /\ Tail(l) \in Seq(Nat) /\ IsInjective(Tail(l)) /\ Head(l) \in ToSet(l)
         /\ ToSet(Tail(l)) = ToSet(l) \ {Head(l)}
<1>. DEFINE n == Head(l)
            rest == Tail(l)
            L == Len(l)
<1>1. /\ L \in Nat /\ DOMAIN l = 1 .. L /\ n = l[1] /\ rest \in Seq(Nat) /\ Len(rest) = L - 1
      /\ \A k \in 1 .. L - 1 : rest[k] = l[k + 1]
  BY LenProperties, HeadTailProperties
<1>2. L # 0
  BY EmptySeq
<1>3. DOMAIN rest = 1 .. L - 1
  BY <1>1, LenProperties
<1>. HIDE DEF n, rest, L
<1>4. \A k \in 1 .. L - 1 : k + 1 \in 1 .. L /\ k + 1 # 1
  BY <1>1
<1>5. \A k \in 2 .. L : k - 1 \in 1 .. L - 1 /\ k - 1 + 1 = k
  BY <1>1
<1>6. 1 \in 1 .. L
  BY <1>1, <1>2
<1>7. \A j, k \in 1 .. L : l[j] = l[k] => j = k
  BY <1>1 DEF IsInjective
<1>8. IsInjective(rest)
  <2>1. ASSUME NEW j \in 1 .. L - 1, NEW k \in 1 .. L - 1, rest[j] = rest[k] PROVE j = k
    <3>1. l[j + 1] = l[k + 1]
      BY <1>1, <2>1
    <3>2. j + 1 = k + 1
      BY <1>4, <1>7, <3>1
    <3>. QED  BY <3>2
  <2>. QED  BY <1>3, <2>1 DEF IsInjective
<1>9. ToSet(rest) = ToSet(l) \ {n}
  <2>1. ASSUME NEW m \in ToSet(rest) PROVE m \in ToSet(l) \ {n}
    <3>1. PICK k \in 1 .. L - 1 : m = rest[k]
      BY <1>3 DEF ToSet
    <3>2. m = l[k + 1] /\ k + 1 \in 1 .. L /\ k + 1 # 1
      BY <1>1, <1>4, <3>1
    <3>. QED  BY <1>1, <1>6, <1>7, <3>2 DEF ToSet
  <2>2. ASSUME NEW m \in ToSet(l), m # n PROVE m \in ToSet(rest)
    <3>1. PICK k \in 1 .. L : m = l[k]
      BY <1>1 DEF ToSet
    <3>2. k \in 2 .. L
      BY <1>1, <2>2, <3>1
    <3>3. k - 1 \in 1 .. L - 1 /\ m = rest[k - 1]
      <4>1. k - 1 \in 1 .. L - 1 /\ k - 1 + 1 = k
        BY <1>5, <3>2
      <4>2. rest[k - 1] = l[k - 1 + 1]
        BY <1>1, <4>1
      <4>. QED  BY <3>1, <4>1, <4>2
    <3>. QED  BY <1>3, <3>3 DEF ToSet
  <2>. QED  BY <2>1, <2>2
<1>10. n \in ToSet(l)
  BY <1>1, <1>6 DEF ToSet
<1>. QED  BY <1>1, <1>8, <1>9, <1>10 DEF n, rest

LEMMA ReplaceKeeps ==
  ASSUME FInv, Replace
  PROVE  FInv'
<1>. DEFINE n == Head(todo)
            rest == Tail(todo)
<1>1. /\ pc = "rewrite" /\ todo # << >> /\ module' = Replacement(tool, module, n) /\ todo' = rest
      /\ fn' = fn /\ file' = file /\ tool' = tool /\ pc' = pc /\ ran' = ran /\ block' = block /\ inst' = inst
  BY DEF Replace, running
<1>2. Typed /\ Pending /\ Settled
  BY DEF FInv
<1>3. /\ tool \in Tool /\ module.last \in Nat /\ WellFormed(module, module.last)
      /\ module.optnone = fn.optnone /\ module.entry = fn.entry
  BY <1>2 DEF Typed
<1>4. /\ todo \in Seq(Nat) /\ IsInjective(todo)
      /\ \A m \in ToSet(todo) : \E i \in Insts(module) : i.name = m /\ Target(tool, i)
      /\ ~Skipped(tool)
      /\ tool \in Final => \A i \in Insts(module) : Target(tool, i) => i.name \in ToSet(todo)
  BY <1>1, <1>2 DEF Pending
<1>5. /\ rest \in Seq(Nat) /\ IsInjective(rest) /\ n \in ToSet(todo)
      /\ ToSet(rest) = ToSet(todo) \ {n}
  BY <1>1, <1>4, RestIs
<1>. HIDE DEF n, rest
<1>6. PICK i \in Insts(module) : i.name = n /\ Target(tool, i)
  BY <1>4, <1>5
<1>7. Rewritten(module, i, module', NewOps(tool))
  BY <1>1, <1>3, <1>6, ReplacementIs
<1>8. /\ module'.last \in Nat /\ WellFormed(module', module'.last) /\ SameFrame(module, module')
      /\ \A j \in Insts(module) : j # i => \E k \in Insts(module') : Alike(j, k)
      /\ \A k \in Insts(module') : (\E j \in Insts(module) : j # i /\ Alike(j, k)) \/ k.op \in NewOps(tool)
  BY <1>7 DEF Rewritten
<1>9. Typed'
  <2>1. \A f \in {file, module'} :
          f.last \in Nat /\ WellFormed(f, f.last) /\ f.optnone = fn.optnone /\ f.entry = fn.entry
    BY <1>2, <1>3, <1>8 DEF Typed, SameFrame
  <2>. QED  BY <1>1, <1>2, <2>1 DEF Typed
<1>10. \A m \in ToSet(rest) : \E k \in Insts(module') : k.name = m /\ Target(tool, k)
  <2>. TAKE m \in ToSet(rest)
  <2>1. PICK j \in Insts(module) : j.name = m /\ Target(tool, j)
    BY <1>4, <1>5
  <2>2. j # i
    BY <1>5, <1>6, <2>1
  <2>3. PICK k \in Insts(module') : Alike(j, k)
    BY <1>8, <2>2
  <2>4. k.name = m /\ Target(tool, k)
    BY <1>3, <2>1, <2>3, AlikeTargets DEF Alike
  <2>. QED  BY <2>4
<1>11. ASSUME tool \in Final, NEW k \in Insts(module'), Target(tool, k)
       PROVE  k.name \in ToSet(rest)
  <2>1. k.op \notin NewOps(tool)
    BY <1>3, <1>11, NewOpsAre
  <2>2. PICK j \in Insts(module) : j # i /\ Alike(j, k)
    BY <1>8, <2>1
  <2>3. Target(tool, j) /\ j.name = k.name
    BY <1>3, <1>11, <2>2, AlikeTargets DEF Alike
  <2>4. j.name \in ToSet(todo)
    BY <1>4, <1>11, <2>3
  <2>5. j.name # n
    BY <1>3, <1>6, <2>2, OneOfName
  <2>. QED  BY <1>5, <2>3, <2>4, <2>5
<1>12. Pending'
  BY <1>1, <1>4, <1>5, <1>10, <1>11 DEF Pending, Skipped
<1>13. ASSUME NEW t \in ToSet(ran) \cap Final
       PROVE  NoTargets(t, file) /\ NoTargets(t, module') /\ tool # t
  <2>1. NoTargets(t, file) /\ NoTargets(t, module) /\ (tool = t => todo = << >>)
    BY <1>1, <1>2 DEF Settled
  <2>2. tool # t
    BY <1>1, <2>1
  <2>3. ASSUME ~Skipped(t), NEW k \in Insts(module'), Target(t, k) PROVE FALSE
    <3>1. \A j \in Insts(module) : ~Target(t, j)
      BY <2>1, <2>3 DEF NoTargets
    <3>2. t \in Tool
      BY DEF Final
    <3>3. k.op \in NewOps(tool)
      BY <1>8, <2>3, <3>1, <3>2, AlikeTargets
    <3>4. Target(t, i)
      BY <1>3, <1>6, <2>3, <3>3, NewOpsAre
    <3>. QED  BY <3>1, <3>4
  <2>. QED  BY <2>1, <2>2, <2>3 DEF NoTargets
<1>14. Settled'
  BY <1>1, <1>13 DEF Settled, NoTargets, Skipped
<1>. QED  BY <1>9, <1>12, <1>14 DEF FInv

LEMMA VerifyKeeps ==
  ASSUME FInv, Verify
  PROVE  FInv'
<1>1. /\ pc = "rewrite" /\ todo = << >> /\ pc' = "idle"
      /\ \/ Valid(module) /\ file' = module /\ ran' = Append(ran, tool)
         \/ file' = file /\ ran' = ran
      /\ fn' = fn /\ module' = module /\ tool' = tool /\ todo' = todo /\ block' = block /\ inst' = inst
  BY DEF Verify, running
<1>2. Typed /\ Pending /\ Settled
  BY DEF FInv
<1>3. /\ ran \in Seq(Tool) /\ tool \in Tool /\ Len(ran) < MaxRuns /\ MaxRuns \in Nat
  BY <1>1, <1>2, FunctionsAssumption DEF Typed
<1>4. /\ Append(ran, tool) \in Seq(Tool) /\ Len(Append(ran, tool)) = Len(ran) + 1 /\ Len(ran) \in Nat
      /\ ToSet(Append(ran, tool)) = ToSet(ran) \cup {tool}
  <2>1. /\ Append(ran, tool) \in Seq(Tool) /\ Len(Append(ran, tool)) = Len(ran) + 1 /\ Len(ran) \in Nat
        /\ \A k \in 1 .. Len(ran) : Append(ran, tool)[k] = ran[k]
        /\ Append(ran, tool)[Len(ran) + 1] = tool
    BY <1>3, AppendProperties, LenProperties
  <2>2. DOMAIN ran = 1 .. Len(ran) /\ DOMAIN Append(ran, tool) = 1 .. Len(ran) + 1
    BY <1>3, <2>1, LenProperties
  <2>3. 1 .. Len(ran) + 1 = (1 .. Len(ran)) \cup {Len(ran) + 1}
    BY <2>1
  <2>. QED  BY <2>1, <2>2, <2>3 DEF ToSet
<1>5. /\ block = fn.entry /\ inst = 1 /\ fn \in Functions
      /\ \A f \in {file, module} :
           f.last \in Nat /\ WellFormed(f, f.last) /\ f.optnone = fn.optnone /\ f.entry = fn.entry
  BY <1>1, <1>2 DEF Typed
<1>6. \A f \in {file, module} : fn.entry \in DOMAIN f.code /\ Len(f.code[fn.entry]) \in Nat
  <2>. TAKE f \in {file, module}
  <2>1. WellFormed(f, f.last) /\ f.entry = fn.entry
    BY <1>5
  <2>2. f.entry \in DOMAIN f.code
    BY <2>1 DEF WellFormed
  <2>. QED  BY <2>1, <2>2, CodeIs
<1>7. Typed'
  <2>1. file' \in {file, module} /\ ran' \in Seq(Tool) /\ Len(ran') <= MaxRuns
    BY <1>1, <1>3, <1>4
  <2>2. block' \in DOMAIN file'.code /\ inst' \in 1 .. Len(file'.code[block']) + 1
    <3>1. fn.entry \in DOMAIN file'.code /\ Len(file'.code[fn.entry]) \in Nat
      BY <1>6, <2>1
    <3>. QED  BY <1>1, <1>5, <3>1
  <2>3. \A f \in {file', module'} :
          f.last \in Nat /\ WellFormed(f, f.last) /\ f.optnone = fn.optnone /\ f.entry = fn.entry
    BY <1>1, <1>5, <2>1
  <2>. QED  BY <1>1, <1>3, <1>5, <2>1, <2>2, <2>3 DEF Typed
<1>8. Pending'
  BY <1>1, <1>2 DEF Pending, Skipped
<1>9. ToSet(todo) = {}
  BY <1>1, EmptySeq DEF ToSet
<1>10. ASSUME NEW t \in ToSet(ran') \cap Final
       PROVE  NoTargets(t, file')
  <2>1. CASE t \in ToSet(ran)
    <3>1. NoTargets(t, file) /\ NoTargets(t, module)
      BY <1>1, <1>2, <1>10, <2>1 DEF Settled
    <3>. QED  BY <1>1, <3>1
  <2>2. CASE t \notin ToSet(ran)
    <3>1. t = tool /\ file' = module
      BY <1>1, <1>4, <1>10, <2>2
    <3>2. Skipped(t) \/ \A i \in Insts(module) : ~Target(t, i)
      BY <1>1, <1>2, <1>9, <1>10, <3>1 DEF Pending
    <3>. QED  BY <3>1, <3>2 DEF NoTargets
  <2>. QED  BY <2>1, <2>2
<1>11. Settled'
  BY <1>1, <1>10 DEF Settled, NoTargets, Skipped
<1>. QED  BY <1>7, <1>8, <1>11 DEF FInv

\* A step of the program, or the end of a tool that failed.
LEMMA RunKeeps ==
  ASSUME FInv, pc' \in {"idle", "run", "over"}, UNCHANGED <<fn, rewriting>>,
         block' \in DOMAIN file.code, inst' \in 1 .. Len(file.code[block']) + 1,
         pc' = "idle" => block' = fn.entry /\ inst' = 1
  PROVE  FInv'
<1>1. /\ fn' = fn /\ file' = file /\ module' = module /\ tool' = tool /\ todo' = todo /\ ran' = ran
      /\ pc' # "rewrite" /\ (pc' = "idle" => block' = fn.entry /\ inst' = 1)
  BY DEF rewriting
<1>2. Typed /\ Pending /\ Settled
  BY DEF FInv
<1>3. Typed'
  BY <1>1, <1>2 DEF Typed
<1>4. Pending'
  BY <1>1, <1>2 DEF Pending
<1>5. Settled'
  BY <1>1, <1>2 DEF Settled, NoTargets, Skipped
<1>. QED  BY <1>3, <1>4, <1>5 DEF FInv

LEMMA StepFInv == FInv /\ [Next]_vars => FInv'
<1>. SUFFICES ASSUME FInv, [Next]_vars PROVE FInv'
  OBVIOUS
<1>1. /\ block \in DOMAIN file.code /\ inst \in 1 .. Len(file.code[block]) + 1
      /\ WellFormed(file, file.last)
  BY DEF FInv, Typed
<1>2. ASSUME NEW t \in Tool, Parse(t) PROVE FInv'
  BY <1>2, ParseKeeps
<1>3. CASE Replace
  BY <1>3, ReplaceKeeps
<1>4. CASE Verify
  BY <1>4, VerifyKeeps
<1>5. ASSUME NEW in \in [fn.args -> Numbers], Start(in) PROVE FInv'
  BY <1>1, <1>5, RunKeeps DEF Start
<1>6. CASE Execute
  <2>1. Len(file.code[block]) \in Nat
    BY <1>1, CodeIs
  <2>2. /\ inst' = inst + 1 /\ ~AtEnd /\ pc' = pc /\ pc = "run"
        /\ UNCHANGED <<fn, rewriting>> /\ block' = block
    BY <1>6 DEF Execute
  <2>3. inst' \in 1 .. Len(file.code[block']) + 1
    BY <1>1, <2>1, <2>2 DEF AtEnd
  <2>. QED  BY <1>1, <2>2, <2>3, RunKeeps
<1>7. CASE Branch
  <2>. DEFINE to == file.br[block].to
  <2>1. /\ to # << >> /\ inst' = 1 /\ pc' = pc /\ pc = "run" /\ UNCHANGED <<fn, rewriting>>
        /\ block' = to[1] \/ (Len(to) = 2 /\ block' = to[2])
    BY <1>7 DEF Branch
  <2>2. to \in Seq(DOMAIN file.code)
    BY <1>1 DEF WellFormed, IsBr
  <2>. HIDE DEF to
  <2>3. Len(to) \in Nat /\ Len(to) # 0 /\ \A k \in 1 .. Len(to) : to[k] \in DOMAIN file.code
    BY <2>1, <2>2, EmptySeq, LenProperties, ElementOfSeq
  <2>4. 1 \in 1 .. Len(to) /\ (Len(to) = 2 => 2 \in 1 .. Len(to))
    BY <2>3
  <2>5. block' \in DOMAIN file.code
    BY <2>1, <2>3, <2>4
  <2>6. Len(file.code[block']) \in Nat
    BY <1>1, <2>5, CodeIs
  <2>7. inst' \in 1 .. Len(file.code[block']) + 1
    BY <2>1, <2>6
  <2>. QED  BY <2>1, <2>5, <2>7, RunKeeps
<1>8. CASE Return
  BY <1>1, <1>8, RunKeeps DEF Return, running
<1>9. CASE UNCHANGED vars
  BY <1>9 DEF vars, rewriting, running, FInv, Typed, Pending, Settled, NoTargets, Skipped
<1>10. CASE AssertionFails
  <2>1. block' = fn.entry /\ inst' = 1 /\ block' = block /\ inst' = inst
    BY <1>10 DEF AssertionFails, running, FInv, Typed
  <2>. QED  BY <1>1, <1>10, <2>1, RunKeeps DEF AssertionFails
<1>. QED
  BY <1>2, <1>3, <1>4, <1>5, <1>6, <1>7, <1>8, <1>9, <1>10 DEF Next, NoMain, Terminating

LEMMA FInvHolds == Spec => []FInv
BY InitFInv, StepFInv, PTL DEF Spec

LEMMA FInvGivesType == FInv => TypeOK
<1>. SUFFICES ASSUME FInv PROVE TypeOK
  OBVIOUS
<1>1. Typed /\ Pending
  BY DEF FInv
<1>2. ran \in UNION {[1 .. k -> Tool] : k \in 0 .. MaxRuns}
  <2>. DEFINE L == Len(ran)
  <2>1. L \in 0 .. MaxRuns /\ MaxRuns \in Nat /\ ran \in Seq(Tool)
    BY <1>1, LenProperties, FunctionsAssumption DEF Typed
  <2>2. ran \in [1 .. L -> Tool]
    BY <2>1, LenProperties, ElementOfSeq, SeqDef
  <2>. HIDE DEF L
  <2>. QED  BY <2>1, <2>2
<1>3. ASSUME NEW f \in {file, module}
      PROVE  /\ ToSet(f.layout) = DOMAIN f.code /\ DOMAIN f.br = DOMAIN f.code
             /\ Len(f.layout) = Cardinality(DOMAIN f.code)
             /\ \A b \in DOMAIN f.code : ToSet(f.br[b].to) \subseteq DOMAIN f.code
  <2>1. WellFormed(f, f.last)
    BY <1>1 DEF Typed
  <2>. DEFINE L == Len(f.layout)
              B == DOMAIN f.code
  <2>2. f.layout \in Seq(B) /\ ToSet(f.layout) = B /\ IsInjective(f.layout) /\ DOMAIN f.br = B
    BY <2>1 DEF WellFormed
  <2>3. L \in Nat /\ DOMAIN f.layout = 1 .. L /\ f.layout \in [1 .. L -> B]
    BY <2>2, LenProperties, ElementOfSeq, SeqDef
  <2>4. L = Cardinality(B)
    <3>. HIDE DEF L, B
    <3>1. f.layout \in Bijection(1 .. L, B)
      BY <2>2, <2>3 DEF Bijection, Injection, Surjection, ToSet
    <3>2. IsFiniteSet(1 .. L) /\ Cardinality(1 .. L) = L
      BY <2>3, FS_Interval
    <3>. QED  BY <3>1, <3>2, FS_Bijection DEF ExistsBijection
  <2>5. \A b \in B : ToSet(f.br[b].to) \subseteq B
    <3>. TAKE b \in B
    <3>1. f.br[b].to \in Seq(B)
      BY <2>1, <2>2 DEF WellFormed, IsBr
    <3>. QED  BY <3>1, OwnElements
  <2>. QED  BY <2>2, <2>4, <2>5
<1>4. ASSUME NEW n \in ToSet(todo)
      PROVE  /\ \E b \in DOMAIN module.code : n \in Names(module, b)
             /\ Target(tool, InstOf(module, n))
  <2>1. WellFormed(module, module.last)
    BY <1>1 DEF Typed
  <2>2. PICK i \in Insts(module) : i.name = n /\ Target(tool, i)
    BY <1>1 DEF Pending
  <2>3. PICK b \in DOMAIN module.code : \E k \in 1 .. Len(module.code[b]) :
          module.code[b][k] = i /\ InstOf(module, i.name) = i
    BY <2>1, <2>2, PlaceIs
  <2>4. DOMAIN module.code[b] = 1 .. Len(module.code[b])
    BY <2>1, CodeIs
  <2>. QED  BY <2>2, <2>3, <2>4 DEF Names
<1>. QED  BY <1>1, <1>2, <1>3, <1>4 DEF TypeOK, Typed, Pending

\* What a pass has collected is still there, once, and still to be replaced, however often
\* its block was split since.  Blocks, layout and terminators fit one another.
THEOREM TypeCorrect == Spec => []TypeOK
BY FInvHolds, FInvGivesType, PTL

\* A second run of a tool whose output holds nothing it looks for leaves the file alone,
\* whatever other tools were run in between.
THEOREM RerunsLeaveAlone == Spec => RerunsChangeNothing
<1>1. FInv /\ [Next]_vars =>
        [pc = "rewrite" /\ tool \in ToSet(ran) \ {"work2", "parsetest"} => file' = file]_vars
  <2>. SUFFICES ASSUME FInv, Next, pc = "rewrite", tool \in ToSet(ran) \ {"work2", "parsetest"}
                PROVE  file' = file
    OBVIOUS
  <2>1. tool \in ToSet(ran) \cap Final
    BY DEF FInv, Typed, Final
  <2>2. module = file
    BY <2>1 DEF FInv, Settled
  <2>3. CASE Verify
    BY <2>2, <2>3 DEF Verify
  <2>4. CASE Replace
    BY <2>4 DEF Replace
  <2>. QED
    BY <2>3, <2>4 DEF Next, Parse, NoMain, AssertionFails, Start, Execute, Branch, Return, Terminating, vars, rewriting
<1>. QED  BY <1>1, FInvHolds, PTL DEF Spec, RerunsChangeNothing

-----------------------------------------------------------------------------
(* What the verifier says.                                                 *)

\* The verifier accepts the file, and accepts whatever a tool has made of it so far, but for
\* the floats that convert_fcmp_eq and work3 treat as doubles.
Accepted ==
  /\ \A f \in {file, module} : f.type = fn.type
  /\ TypesMatch(file) /\ OperandsDominate(file)
  /\ pc = "rewrite" => OperandsDominate(module) /\ (TypesMatch(module) \/ tool \in {"convert_fcmp_eq", "work3"})

LEMMA TypesMatchIs ==
  ASSUME NEW f
  PROVE  TypesMatch(f) <=> (f.type = "float" => \A i \in Insts(f) : i.op \notin {"abs", "hook"})
BY InstsAre DEF TypesMatch

LEMMA RewrittenTypes ==
  ASSUME NEW f, TypesMatch(f), NEW i, NEW g, NEW t \in Tool \ {"convert_fcmp_eq", "work3"},
         Rewritten(f, i, g, NewOps(t))
  PROVE  TypesMatch(g)
<1>1. NewOps(t) \cap {"abs", "hook"} = {}
  BY DEF NewOps, Tool
<1>2. \A k \in Insts(g) : (\E j \in Insts(f) : Alike(j, k)) \/ k.op \in NewOps(t)
  BY DEF Rewritten
<1>3. g.type = f.type
  BY DEF Rewritten, SameFrame
<1>4. f.type = "float" => \A k \in Insts(f) : k.op \notin {"abs", "hook"}
  BY TypesMatchIs
<1>5. g.type = "float" => \A k \in Insts(g) : k.op \notin {"abs", "hook"}
  BY <1>1, <1>2, <1>3, <1>4 DEF Alike
<1>. QED  BY <1>5, TypesMatchIs

LEMMA InitAccepted == Init => Accepted
<1>. SUFFICES ASSUME Init PROVE Accepted
  OBVIOUS
<1>1. fn \in Functions /\ file = fn /\ module = fn /\ pc = "idle"
  BY DEF Init
<1>2. TypesMatch(fn) /\ OperandsDominate(fn)
  BY <1>1, FunctionsAssumption DEF Valid
<1>. QED  BY <1>1, <1>2 DEF Accepted

LEMMA ReplaceAccepted ==
  ASSUME FInv, Accepted, Replace
  PROVE  Accepted'
<1>1. /\ pc = "rewrite" /\ todo # << >> /\ module' = Replacement(tool, module, Head(todo))
      /\ fn' = fn /\ file' = file /\ tool' = tool
  BY DEF Replace
<1>2. /\ tool \in Tool /\ module.last \in Nat /\ WellFormed(module, module.last)
      /\ todo \in Seq(Nat) /\ \A m \in ToSet(todo) : \E i \in Insts(module) : i.name = m /\ Target(tool, i)
  BY DEF FInv, Typed, Pending
<1>3. PICK i \in Insts(module) : i.name = Head(todo) /\ Target(tool, i)
  <2>1. Head(todo) \in ToSet(todo)
    <3>1. Head(todo) = todo[1] /\ 1 \in DOMAIN todo
      BY <1>1, <1>2, EmptySeq, LenProperties, HeadTailProperties
    <3>. QED  BY <3>1 DEF ToSet
  <2>. QED  BY <1>2, <2>1
<1>4. Rewritten(module, i, module', NewOps(tool))
  BY <1>1, <1>2, <1>3, ReplacementIs
<1>5. module'.type = fn.type /\ OperandsDominate(module')
  BY <1>1, <1>4 DEF Accepted, Rewritten, SameFrame
<1>6. TypesMatch(module') \/ tool \in {"convert_fcmp_eq", "work3"}
  BY <1>1, <1>2, <1>4, RewrittenTypes DEF Accepted
<1>. QED  BY <1>1, <1>5, <1>6 DEF Accepted

LEMMA StepAccepted == FInv /\ Accepted /\ [Next]_vars => Accepted'
<1>. SUFFICES ASSUME FInv, Accepted, [Next]_vars PROVE Accepted'
  OBVIOUS
<1>1. ASSUME NEW t \in Tool, Parse(t) PROVE Accepted'
  BY <1>1 DEF Parse, Accepted
<1>2. CASE Replace
  BY <1>2, ReplaceAccepted
<1>3. CASE Verify
  <2>1. /\ pc' = "idle" /\ fn' = fn /\ module' = module
        /\ file' = file \/ (Valid(module) /\ file' = module)
    BY <1>3 DEF Verify
  <2>. QED  BY <2>1 DEF Accepted, Valid
<1>4. ASSUME pc' # "rewrite", UNCHANGED <<fn, file, module>> PROVE Accepted'
  BY <1>4 DEF Accepted
<1>5. ASSUME NEW in \in [fn.args -> Numbers], Start(in) PROVE Accepted'
  BY <1>4, <1>5 DEF Start, rewriting
<1>6. CASE Execute
  BY <1>4, <1>6 DEF Execute, rewriting
<1>7. CASE Branch
  BY <1>4, <1>7 DEF Branch, rewriting
<1>8. CASE Return
  BY <1>4, <1>8 DEF Return, rewriting
<1>9. CASE UNCHANGED vars
  BY <1>9 DEF vars, rewriting, Accepted
<1>10. CASE AssertionFails
  BY <1>4, <1>10 DEF AssertionFails, rewriting
<1>. QED
  BY <1>1, <1>2, <1>3, <1>5, <1>6, <1>7, <1>8, <1>9, <1>10 DEF Next, NoMain, Terminating

\* The verifier accepts everything the tools make of a module that it accepts, also of their
\* own output and in whatever order they are run, but what convert_fcmp_eq and work3 make of
\* floats.
THEOREM OnlyFloatsRefused == Spec => []OnlyFloatRefused
<1>1. FInv /\ Accepted => OnlyFloatRefused
  <2>. SUFFICES ASSUME FInv, Accepted, pc = "rewrite", ~Valid(module)
                PROVE  fn.type = "float" /\ tool \in {"convert_fcmp_eq", "work3"}
    BY DEF OnlyFloatRefused
  <2>1. UniqueNames(module)
    BY DEF FInv, Typed, WellFormed
  <2>2. OperandsDominate(module) /\ module.type = fn.type
    BY DEF Accepted
  <2>3. ~TypesMatch(module)
    BY <2>1, <2>2 DEF Valid
  <2>4. module.type = "float"
    BY <2>3 DEF TypesMatch
  <2>. QED  BY <2>2, <2>3, <2>4 DEF Accepted
<1>. QED  BY <1>1, FInvHolds, InitAccepted, StepAccepted, PTL DEF Spec

-----------------------------------------------------------------------------
(* What the instructions of a function do for the user's, fn, when tools   *)
(* have rewritten it.                                                      *)

\* The runs that rename an fadd: work1 and work3.
RenamedIn(s) == {k \in DOMAIN s : s[k] \in {"work1", "work3"}}
\* What an fadd has become after the runs s.
OperationAfter(s) ==
  IF RenamedIn(s) = {} THEN "fadd"
  ELSE IF s[CHOOSE k \in RenamedIn(s) : \A j \in RenamedIn(s) : k <= j] = "work1" THEN "fsub" ELSE "hook"

\* Whether a sum is limited: work2 ran while it was an fadd.
ClampedAfter(s) == \E k \in DOMAIN s : s[k] = "work2" /\ \A j \in RenamedIn(s) : k < j
\* Whether comparisons are converted.
ConvertedAfter(s) == "convert_fcmp_eq" \in ToSet(s) /\ ~fn.optnone
\* How often constants were turned.
TurnsAfter(s) == Cardinality({k \in DOMAIN s : s[k] = "parsetest"})

\* An instruction that a tool put in, of a name that the user did not give.
Hidden(i) == i.name > fn.last

\* The function g goes through the user's instructions in their order: its block b is part of
\* the user's block O[b], and when it is at j there the user's instruction K[b][j] is next.
Follows(g, O, K) ==
  /\ \A b \in DOMAIN fn.code : b \in DOMAIN g.code /\ O[b] = b /\ K[b][1] = 1
  /\ \A b \in DOMAIN g.code :
       LET code == fn.code[O[b]]
           end == K[b][Len(g.code[b]) + 1]
       IN  /\ O[b] \in DOMAIN fn.code
           /\ \A j \in DOMAIN g.code[b] :
                /\ K[b][j] \in DOMAIN code
                /\ IF Hidden(g.code[b][j]) THEN K[b][j + 1] = K[b][j]
                   ELSE K[b][j + 1] = K[b][j] + 1 /\ code[K[b][j]].name = g.code[b][j].name
           /\ IF g.br[b].user THEN end = Len(code) + 1 /\ g.br[b] = fn.br[O[b]]
              ELSE /\ g.br[b].to # << >>
                   /\ \A c \in ToSet(g.br[b].to) : c \notin DOMAIN fn.code /\ O[c] = O[b] /\ K[c][1] = end

\* The PHI at the head of t takes 100 or the sum that h has compared with it.
Clamps(g, t, then, else, h) ==
  LET in == g.code[t][1].in
      m == Len(g.code[h])
  IN  /\ {then, else, h} \subseteq DOMAIN g.code /\ then # else
      /\ DOMAIN in = {then, else} /\ in[then] = Num(Limit) /\ m > 1 /\ in[else] = Val(g.code[h][m - 1].name)
      /\ \A c \in {then, else} : DOMAIN g.code[c] = {} /\ Preds(g, c) = {h} /\ g.br[c].to = <<t>> /\ ~g.br[c].user
      /\ g.br[h].to = <<then, else>> /\ g.br[h].cond = Val(g.code[h][m].name) /\ ~g.br[h].user
      /\ g.code[h][m].op = "ogt" /\ Hidden(g.code[h][m]) /\ Hidden(g.code[h][m - 1])

\* The j-th instruction uses the one before it, a hidden one of the opcode op.
After(g, b, j, op) ==
  /\ j > 1 /\ Hidden(g.code[b][j - 1]) /\ op = g.code[b][j - 1].op
  /\ g.code[b][j].x = Val(g.code[b][j - 1].name)

\* What stands for the user's fadd u: its sum, its comparison with 100 or the PHI of the two.
SumOf(g, b, j, u, s) ==
  LET i == g.code[b][j] IN
  /\ \/ i.op = OperationAfter(s) /\ i.x = u.x /\ i.y = u.y
     \/ i.op = "phi" /\ j = 1 /\ \E then, else, h \in DOMAIN g.code : Clamps(g, b, then, else, h)
     \/ Hidden(i) /\ i.op = "ogt" /\ i.y = Num(Limit) /\ \E op \in {"fadd", "fsub", "hook", "phi"} : After(g, b, j, op)
  /\ ~Hidden(i) => (i.op = "phi" <=> ClampedAfter(s))

\* What stands for the user's comparison u.
CompareOf(g, b, j, u, s) ==
  LET i == g.code[b][j] IN
  IF Hidden(i)
  THEN \/ i.op = "fsub" /\ i.x = u.x /\ i.y = u.y
       \/ i.op = "abs" /\ After(g, b, j, "fsub")
  ELSE IF ConvertedAfter(s) THEN i.op = NewPredicate[u.op] /\ i.y = Num(Epsilon) /\ After(g, b, j, "abs")
  ELSE i = u

\* A constant that an int holds, and so its negative.
SmallInt(c) == Signed(c, Word) \in (1 - CInt \div 2) .. CInt \div 2 - 1
\* What stands for the user's add or sub u of a constant.
OffsetOf(i, u, s) ==
  LET c == u.y[2]
      w == i.y[2]
  IN  /\ ~Hidden(i) /\ i.op = u.op /\ i.x = u.x /\ i.y = Integer(w) /\ w \in Int
      /\ TurnsAfter(s) = 0 => w = c
      /\ SmallInt(c) => w = IF TurnsAfter(s) % 2 = 0 THEN c ELSE (-c) % Word

\* What stands for the user's PHI u.
PhiOf(i, b, u, O) ==
  /\ ~Hidden(i) /\ i.op = "phi" /\ b \in DOMAIN fn.code
  /\ \A c \in DOMAIN i.in : i.in[c] = u.in[O[c]]

\* An add or sub that parsetest rewrites.
IsOffset(u) == u.op \in {"add", "sub"} /\ u.y[1] = "int"
\* What the j-th instruction of b does for the user's instruction u after the runs s.
Meaning(g, O, b, j, u, s) ==
  LET i == g.code[b][j] IN
  /\ u.op = "phi" => PhiOf(i, b, u, O)
  /\ u.op = "fadd" => SumOf(g, b, j, u, s)
  /\ u.op \in Equality => CompareOf(g, b, j, u, s)
  /\ IsOffset(u) => OffsetOf(i, u, s)
  /\ u.op \notin {"phi", "fadd"} \cup Equality /\ ~IsOffset(u) => i = u

\* Every instruction does its work for the user's: those named in d as the runs before have
\* left it, the rest as the runs after will have.
Means(g, O, K, d, before, after) ==
  \A b \in DOMAIN g.code : \A j \in DOMAIN g.code[b] :
    Meaning(g, O, b, j, fn.code[O[b]][K[b][j]], IF g.code[b][j].name \in d THEN before ELSE after)

\* At most 100.
Limited(r) == IF Less(Num(Limit), r) THEN Num(Limit) ELSE r

\* What the tools run so far make of an addition and of a comparison, and how often parsetest
\* was among them.
LEMMA OperationIs ==
  ASSUME NEW s
  PROVE  /\ OperationAfter(s) \in {"fadd", "fsub", "hook"}
         /\ OperationAfter(s) = "fadd" <=> RenamedIn(s) = {}
BY DEF OperationAfter

\* A set of places in a sequence has a first one.
LEMMA LeastIs ==
  ASSUME NEW L \in Nat, NEW S, S \subseteq 1 .. L, S # {}
  PROVE  \E k \in S : \A j \in S : k <= j
<1>. SUFFICES ASSUME \A k \in S : \E j \in S : ~(k <= j) PROVE FALSE
  OBVIOUS
<1>. DEFINE A == {k \in 0 .. L : \A j \in S : k <= j}
<1>1. 0 \in A
  OBVIOUS
<1>2. ASSUME NEW k \in 0 .. L - 1, k \in A PROVE k + 1 \in A
  <2>1. k \notin S
    BY <1>2
  <2>2. \A j \in S : k <= j /\ k # j /\ j \in 1 .. L
    BY <1>2, <2>1
  <2>3. \A j \in S : k + 1 <= j
    BY <2>2
  <2>. QED  BY <2>3
<1>. HIDE DEF A
<1>3. L \in A
  <2>1. \A k \in 0 .. L : k \in A
    BY <1>1, <1>2, UpTo
  <2>. QED  BY <2>1
<1>4. \A j \in S : j = L
  BY <1>3 DEF A
<1>5. PICK k \in S : k = L
  BY <1>4
<1>. QED  BY <1>4, <1>5

\* The runs of the tools and one more.
LEMMA OneMoreRun ==
  ASSUME NEW s \in Seq(Tool), NEW t \in Tool
  PROVE  LET r == Append(s, t)
             L == Len(s)
         IN  /\ L \in Nat /\ DOMAIN s = 1 .. L /\ DOMAIN r = (1 .. L) \cup {L + 1} /\ L + 1 \notin 1 .. L
             /\ \A k \in 1 .. L : r[k] = s[k]
             /\ r[L + 1] = t
<1>. DEFINE r == Append(s, t)
            L == Len(s)
<1>1. /\ L \in Nat /\ DOMAIN s = 1 .. L /\ r \in Seq(Tool) /\ Len(r) = L + 1
      /\ \A k \in 1 .. L : r[k] = s[k]
      /\ r[L + 1] = t
  BY AppendProperties, LenProperties
<1>2. DOMAIN r = 1 .. L + 1
  BY <1>1, LenProperties
<1>3. 1 .. L + 1 = (1 .. L) \cup {L + 1} /\ L + 1 \notin 1 .. L
  BY <1>1
<1>. QED  BY <1>1, <1>2, <1>3

\* It is among those that rename an fadd when it is work1 or work3.
LEMMA OneMoreRenamed ==
  ASSUME NEW s \in Seq(Tool), NEW t \in Tool
  PROVE  /\ RenamedIn(s) \subseteq 1 .. Len(s)
         /\ RenamedIn(Append(s, t)) = RenamedIn(s) \cup (IF t \in {"work1", "work3"} THEN {Len(s) + 1} ELSE {})
<1>. DEFINE r == Append(s, t)
            L == Len(s)
<1>1. /\ L \in Nat /\ DOMAIN s = 1 .. L /\ DOMAIN r = (1 .. L) \cup {L + 1} /\ L + 1 \notin 1 .. L
      /\ \A k \in 1 .. L : r[k] = s[k]
      /\ r[L + 1] = t
  BY OneMoreRun
<1>. HIDE DEF r, L
<1>2. RenamedIn(r) = RenamedIn(s) \cup (IF t \in {"work1", "work3"} THEN {L + 1} ELSE {})
  BY <1>1 DEF RenamedIn
<1>3. RenamedIn(s) \subseteq 1 .. L
  BY <1>1 DEF RenamedIn
<1>. QED  BY <1>2, <1>3 DEF r, L

\* An fadd is renamed once.
LEMMA OperationThen ==
  ASSUME NEW s \in Seq(Tool), NEW t \in Tool
  PROVE  OperationAfter(Append(s, t)) =
           IF OperationAfter(s) # "fadd" THEN OperationAfter(s)
           ELSE IF t = "work1" THEN "fsub" ELSE IF t = "work3" THEN "hook" ELSE "fadd"
<1>. DEFINE r == Append(s, t)
            L == Len(s)
            R(q) == CHOOSE k \in RenamedIn(q) : \A j \in RenamedIn(q) : k <= j
<1>1. /\ L \in Nat /\ \A k \in 1 .. L : r[k] = s[k]
      /\ r[L + 1] = t
  BY OneMoreRun
<1>2. /\ RenamedIn(s) \subseteq 1 .. L
      /\ RenamedIn(r) = RenamedIn(s) \cup (IF t \in {"work1", "work3"} THEN {L + 1} ELSE {})
  BY OneMoreRenamed
<1>. HIDE DEF r, L
<1>3. CASE RenamedIn(s) = {}
  <2>1. OperationAfter(s) = "fadd"
    BY <1>3, OperationIs
  <2>2. CASE t \in {"work1", "work3"}
    <3>1. RenamedIn(r) = {L + 1}
      BY <1>2, <1>3, <2>2
    <3>2. R(r) = L + 1
      BY <1>1, <3>1
    <3>3. OperationAfter(r) = IF r[L + 1] = "work1" THEN "fsub" ELSE "hook"
      BY <3>1, <3>2 DEF OperationAfter
    <3>. QED  BY <1>1, <2>1, <2>2, <3>3 DEF r
  <2>3. CASE t \notin {"work1", "work3"}
    BY <1>2, <1>3, <2>1, <2>3 DEF OperationAfter, r
  <2>. QED  BY <2>2, <2>3
<1>4. CASE RenamedIn(s) # {}
  <2>1. PICK k \in RenamedIn(s) : \A j \in RenamedIn(s) : k <= j
    BY <1>1, <1>2, <1>4, LeastIs
  <2>2. \A j \in RenamedIn(r) : k <= j
    BY <1>1, <1>2, <2>1
  <2>3. RenamedIn(r) \subseteq Nat /\ k \in RenamedIn(r)
    BY <1>1, <1>2
  <2>4. R(s) = k /\ R(r) = k
    <3>1. R(s) = k
      BY <1>1, <1>2, <2>1
    <3>2. R(r) = k
      BY <2>2, <2>3
    <3>. QED  BY <3>1, <3>2
  <2>5. s[k] = r[k]
    BY <1>1, <1>2
  <2>6. OperationAfter(s) = IF s[k] = "work1" THEN "fsub" ELSE "hook"
    BY <1>4, <2>4 DEF OperationAfter
  <2>7. OperationAfter(r) = IF r[k] = "work1" THEN "fsub" ELSE "hook"
    BY <1>4, <2>3, <2>4 DEF OperationAfter
  <2>. QED  BY <2>5, <2>6, <2>7 DEF r
<1>. QED  BY <1>3, <1>4

\* work2 limits what is an fadd still.
LEMMA ClampedThen ==
  ASSUME NEW s \in Seq(Tool), NEW t \in Tool
  PROVE  ClampedAfter(Append(s, t)) <=> ClampedAfter(s) \/ (t = "work2" /\ OperationAfter(s) = "fadd")
<1>. DEFINE r == Append(s, t)
            L == Len(s)
<1>1. /\ L \in Nat /\ DOMAIN s = 1 .. L /\ DOMAIN r = (1 .. L) \cup {L + 1} /\ L + 1 \notin 1 .. L
      /\ \A k \in 1 .. L : r[k] = s[k]
      /\ r[L + 1] = t
  BY OneMoreRun
<1>2. /\ RenamedIn(s) \subseteq 1 .. L
      /\ RenamedIn(r) = RenamedIn(s) \cup (IF t \in {"work1", "work3"} THEN {L + 1} ELSE {})
  BY OneMoreRenamed
<1>3. OperationAfter(s) = "fadd" <=> RenamedIn(s) = {}
  BY OperationIs
<1>. HIDE DEF r, L
<1>4. ASSUME ClampedAfter(s) PROVE ClampedAfter(r)
  <2>1. PICK k \in 1 .. L : s[k] = "work2" /\ \A j \in RenamedIn(s) : k < j
    BY <1>1, <1>4 DEF ClampedAfter
  <2>2. \A j \in RenamedIn(r) : k < j
    BY <1>1, <1>2, <2>1
  <2>. QED  BY <1>1, <2>1, <2>2 DEF ClampedAfter
<1>5. ASSUME t = "work2", RenamedIn(s) = {} PROVE ClampedAfter(r)
  BY <1>1, <1>2, <1>5 DEF ClampedAfter
<1>6. ASSUME ClampedAfter(r) PROVE ClampedAfter(s) \/ (t = "work2" /\ RenamedIn(s) = {})
  <2>1. PICK k \in DOMAIN r : r[k] = "work2" /\ \A j \in RenamedIn(r) : k < j
    BY <1>6 DEF ClampedAfter
  <2>2. CASE k \in 1 .. L
    BY <1>1, <1>2, <2>1, <2>2 DEF ClampedAfter
  <2>3. CASE k = L + 1
    BY <1>1, <1>2, <2>1, <2>3
  <2>. QED  BY <1>1, <2>2, <2>3
<1>. QED  BY <1>3, <1>4, <1>5, <1>6 DEF r

\* convert_fcmp_eq leaves an optnone function alone.
LEMMA ConvertedThen ==
  ASSUME NEW s \in Seq(Tool), NEW t \in Tool
  PROVE  ConvertedAfter(Append(s, t)) <=> ConvertedAfter(s) \/ (t = "convert_fcmp_eq" /\ ~fn.optnone)
<1>1. LET r == Append(s, t)
          L == Len(s)
      IN  /\ L \in Nat /\ DOMAIN s = 1 .. L /\ DOMAIN r = (1 .. L) \cup {L + 1} /\ L + 1 \notin 1 .. L
          /\ \A k \in 1 .. L : r[k] = s[k]
          /\ r[L + 1] = t
  BY OneMoreRun
<1>2. ToSet(Append(s, t)) = ToSet(s) \cup {t}
  BY <1>1 DEF ToSet
<1>. QED  BY <1>2 DEF ConvertedAfter

\* A run of parsetest turns the constants once more.
LEMMA TurnsThen ==
  ASSUME NEW s \in Seq(Tool), NEW t \in Tool
  PROVE  /\ TurnsAfter(s) \in Nat
         /\ TurnsAfter(Append(s, t)) = IF t = "parsetest" THEN TurnsAfter(s) + 1 ELSE TurnsAfter(s)
<1>. DEFINE r == Append(s, t)
            L == Len(s)
            T(q) == {k \in DOMAIN q : q[k] = "parsetest"}
<1>1. /\ L \in Nat /\ DOMAIN s = 1 .. L /\ DOMAIN r = (1 .. L) \cup {L + 1} /\ L + 1 \notin 1 .. L
      /\ \A k \in 1 .. L : r[k] = s[k]
      /\ r[L + 1] = t
  BY OneMoreRun
<1>. HIDE DEF r, L
<1>2. T(s) \subseteq 1 .. L /\ L + 1 \notin T(s) /\ T(r) = T(s) \cup (IF t = "parsetest" THEN {L + 1} ELSE {})
  BY <1>1
<1>. HIDE DEF T
<1>3. IsFiniteSet(T(s))
  <2>1. IsFiniteSet(1 .. L)
    BY <1>1, FS_Interval
  <2>. QED  BY <1>2, <2>1, FS_Subset
<1>4. Cardinality(T(s)) \in Nat /\ Cardinality(T(s) \cup {L + 1}) = Cardinality(T(s)) + 1
  BY <1>2, <1>3, FS_CardinalityType, FS_AddElement
<1>5. Cardinality(T(r)) = IF t = "parsetest" THEN Cardinality(T(s)) + 1 ELSE Cardinality(T(s))
  BY <1>2, <1>4
<1>. QED  BY <1>4, <1>5 DEF TurnsAfter, T, r

-----------------------------------------------------------------------------
(* What instructions compute.                                              *)

\* What an opcode computes.
LEMMA ComputeIs ==
  ASSUME NEW x, NEW y
  PROVE  /\ Compute("fadd", x, y) = FloatSum(x, y)
         /\ Compute("fsub", x, y) = FloatSum(x, Minus(y))
         /\ Compute("hook", x, y) = Hook(x, y)
         /\ Compute("abs", x, y) = Abs(x)
         /\ \A op \in DOMAIN Predicate : Compute(op, x, y) = Bool(Relation(x, y) \in Predicate[op])
         /\ Compute("add", x, y) = Integer((x[2] + y[2]) % Word)
         /\ Compute("sub", x, y) = Integer((x[2] - y[2]) % Word)
<1>1. DOMAIN Predicate = {"oeq", "ueq", "one", "une", "olt", "ult", "oge", "uge", "ogt"}
  BY DEF Predicate
<1>2. /\ Compute("fadd", x, y) = FloatSum(x, y)
      /\ Compute("fsub", x, y) = FloatSum(x, Minus(y))
      /\ Compute("hook", x, y) = Hook(x, y)
      /\ Compute("abs", x, y) = Abs(x)
  BY <1>1 DEF Compute
<1>3. \A op \in DOMAIN Predicate : Compute(op, x, y) = Bool(Relation(x, y) \in Predicate[op])
  BY <1>1 DEF Compute
<1>4. /\ Compute("add", x, y) = Integer((x[2] + y[2]) % Word)
      /\ Compute("sub", x, y) = Integer((x[2] - y[2]) % Word)
  BY <1>1 DEF Compute
<1>. QED  BY <1>2, <1>3, <1>4

\* The numbers, one by one.
LEMMA NumbersAre ==
  ASSUME NEW x
  PROVE  x \in Number <=> \/ x = <<"nan", 0>> \/ x = <<"inf", 1>> \/ x = <<"inf", -1>>
                          \/ \E n \in -Largest .. Largest : x = <<"num", n>>
BY DEF Number, NaN, Inf, Minus, Num

\* Negatives and absolute values are numbers.
LEMMA MinusIs ==
  ASSUME NEW x \in Number
  PROVE  Minus(x) \in Number /\ Abs(x) \in Number
<1>1. Largest \in Nat
  BY Sizes
<1>2. Minus(x) \in Number
  <2>1. CASE x \in {<<"nan", 0>>, <<"inf", 1>>, <<"inf", -1>>}
    BY <2>1, NumbersAre DEF Minus
  <2>2. CASE \E n \in -Largest .. Largest : x = <<"num", n>>
    <3>1. PICK n \in -Largest .. Largest : x = <<"num", n>>
      BY <2>2
    <3>2. Minus(x) = <<"num", -n>> /\ -n \in -Largest .. Largest
      BY <1>1, <3>1 DEF Minus
    <3>. QED  BY <3>2, NumbersAre
  <2>. QED  BY <2>1, <2>2, NumbersAre
<1>. QED  BY <1>2 DEF Abs

\* A sum is a number.
LEMMA SumIs ==
  ASSUME NEW x \in Number, NEW y \in Number
  PROVE  FloatSum(x, y) \in Number
<1>1. Largest \in Nat
  BY Sizes
<1>2. NaN \in Number /\ Inf \in Number /\ Minus(Inf) \in Number
  BY DEF Number
<1>3. \A n \in Int : Rounded(n) \in Number
  BY <1>1 DEF Rounded, Number
<1>4. CASE NaN \in {x, y} \/ (x[1] = "inf" /\ y = Minus(x))
  <2>1. NaN[1] = "nan" /\ (x[1] = "inf" => Minus(x)[1] = "inf")
    BY DEF NaN, Minus
  <2>2. NaN \in {x, y} => x[1] = "nan" \/ y[1] = "nan"
    BY <2>1
  <2>3. FloatSum(x, y) = NaN
    BY <1>4, <2>1, <2>2 DEF FloatSum
  <2>. QED  BY <1>2, <2>3
<1>5. CASE NaN \notin {x, y} /\ x[1] = "inf" /\ y # Minus(x)
  <2>1. FloatSum(x, y) = x
    BY <1>5 DEF FloatSum
  <2>. QED  BY <2>1
<1>6. CASE x[1] = "num" /\ y[1] = "inf"
  <2>1. NaN \notin {x, y}
    BY <1>6 DEF NaN
  <2>2. FloatSum(x, y) = y
    BY <1>6, <2>1 DEF FloatSum
  <2>. QED  BY <2>2
<1>7. CASE x[1] = "num" /\ y[1] = "num"
  <2>1. NaN \notin {x, y}
    BY <1>7 DEF NaN
  <2>2. x[2] \in Int /\ y[2] \in Int
    BY <1>1, <1>7, NumbersAre
  <2>3. FloatSum(x, y) = Rounded(x[2] + y[2])
    BY <1>7, <2>1 DEF FloatSum
  <2>. QED  BY <1>3, <2>2, <2>3
<1>8. \A z \in Number : z = NaN \/ z[1] = "inf" \/ z[1] = "num"
  BY NumbersAre DEF NaN
<1>. QED  BY <1>4, <1>5, <1>6, <1>7, <1>8

\* What Hook returns is a number.
LEMMA HookIs ==
  ASSUME NEW x \in Number, NEW y \in Number
  PROVE  Hook(x, y) \in Number
<1>. DEFINE r == FloatSum(x, y)
<1>1. r \in Number
  BY SumIs
<1>2. Limit \in Nat \ {0} /\ Largest \in Nat /\ Limit <= Largest
  BY Sizes
<1>. HIDE DEF r
<1>3. CASE ~Less(Num(Limit), r)
  BY <1>1, <1>3 DEF Hook, r
<1>4. CASE Less(Num(Limit), r) /\ r = Inf
  <2>1. Hook(x, y) = NaN
    BY <1>4 DEF Hook, r
  <2>. QED  BY <2>1 DEF Number
<1>5. CASE Less(Num(Limit), r) /\ r # Inf
  <2>1. Hook(x, y) = Num(r[2] % Limit)
    BY <1>5 DEF Hook, r
  <2>2. r[2] \in Int
    BY <1>1, <1>2, NumbersAre
  <2>3. r[2] % Limit \in 0 .. Limit - 1
    BY <1>2, <2>2
  <2>4. r[2] % Limit \in -Largest .. Largest
    BY <1>2, <2>3
  <2>. QED  BY <2>1, <2>4 DEF Number
<1>. QED  BY <1>3, <1>4, <1>5

\* A limit that is compared from either side.
LEMMA RelationIs ==
  ASSUME NEW x \in Number, NEW y \in Number
  PROVE  Relation(x, y) = "greater" <=> Less(y, x)
<1>1. Rank(x) \in Int /\ Rank(y) \in Int
  <2>1. Largest \in Nat
    BY Sizes
  <2>2. \A z \in Number : z[2] \in Int
    BY <2>1, NumbersAre
  <2>. QED  BY <2>1, <2>2 DEF Rank
<1>2. CASE NaN \in {x, y}
  BY <1>2 DEF Relation, Less
<1>3. CASE NaN \notin {x, y}
  <2>2. Relation(x, y) = IF Rank(x) < Rank(y) THEN "less" ELSE IF Rank(x) = Rank(y) THEN "equal" ELSE "greater"
    BY <1>1, <1>3 DEF Relation
  <2>3. Relation(y, x) = IF Rank(y) < Rank(x) THEN "less" ELSE IF Rank(y) = Rank(x) THEN "equal" ELSE "greater"
    BY <1>1, <1>3 DEF Relation
  <2>. QED  BY <1>1, <2>2, <2>3 DEF Less
<1>. QED  BY <1>2, <1>3

\* A sum that was limited is limited again to the same.
LEMMA LimitedIs ==
  ASSUME NEW r \in Number, NEW v \in {r, Limited(r)}
  PROVE  /\ v \in Number /\ Limited(r) \in Number
         /\ Limited(r) = IF Less(Num(Limit), v) THEN Num(Limit) ELSE v
         /\ Compute("ogt", v, Num(Limit)) = Bool(Less(Num(Limit), v))
<1>1. Num(Limit) \in Number
  <2>1. Limit \in -Largest .. Largest
    BY Sizes
  <2>. QED  BY <2>1 DEF Number
<1>2. v \in Number /\ Limited(r) \in Number
  BY <1>1 DEF Limited
<1>3. ~Less(Num(Limit), Num(Limit))
  <2>1. NaN # Num(Limit)
    BY DEF NaN, Num
  <2>2. Rank(Num(Limit)) = Limit /\ Limit \in Int
    BY Sizes DEF Rank, Num
  <2>3. Relation(Num(Limit), Num(Limit)) = "equal"
    BY <2>1, <2>2 DEF Relation
  <2>. QED  BY <2>3 DEF Less
<1>4. Limited(r) = IF Less(Num(Limit), v) THEN Num(Limit) ELSE v
  BY <1>3 DEF Limited
<1>5. Compute("ogt", v, Num(Limit)) = Bool(Less(Num(Limit), v))
  <2>1. "ogt" \in DOMAIN Predicate /\ Predicate["ogt"] = {"greater"}
    BY DEF Predicate
  <2>2. Compute("ogt", v, Num(Limit)) = Bool(Relation(v, Num(Limit)) \in {"greater"})
    BY <2>1, ComputeIs
  <2>3. Relation(v, Num(Limit)) \in {"greater"} <=> Less(Num(Limit), v)
    BY <1>1, <1>2, RelationIs
  <2>. QED  BY <2>2, <2>3 DEF Bool
<1>. QED  BY <1>2, <1>4, <1>5

\* What a well-typed instruction computes.
LEMMA ComputedTypes ==
  ASSUME NEW x, NEW y, NEW op
  PROVE  /\ x \in Number /\ y \in Number /\ op \in {"fadd", "fsub", "hook", "abs"} => Compute(op, x, y) \in Number
         /\ op \in DOMAIN Predicate => Compute(op, x, y) \in Values["bool"]
         /\ x[2] \in Int /\ y[2] \in Int /\ op \in {"add", "sub"} => Compute(op, x, y) \in Values["int"]
<1>1. ASSUME x \in Number, y \in Number, op \in {"fadd", "fsub", "hook", "abs"} PROVE Compute(op, x, y) \in Number
  <2>1. Minus(y) \in Number
    BY <1>1, MinusIs
  <2>2. FloatSum(x, y) \in Number /\ FloatSum(x, Minus(y)) \in Number /\ Hook(x, y) \in Number /\ Abs(x) \in Number
    BY <1>1, <2>1, MinusIs, SumIs, HookIs
  <2>. QED  BY <1>1, <2>2, ComputeIs
<1>2. ASSUME op \in DOMAIN Predicate PROVE Compute(op, x, y) \in Values["bool"]
  <2>1. Values["bool"] = {Bool(FALSE), Bool(TRUE)}
    BY DEF Values
  <2>2. Compute(op, x, y) = Bool(Relation(x, y) \in Predicate[op])
    BY <1>2, ComputeIs
  <2>3. CASE Relation(x, y) \in Predicate[op]
    BY <2>1, <2>2, <2>3 DEF Bool
  <2>4. CASE Relation(x, y) \notin Predicate[op]
    BY <2>1, <2>2, <2>4 DEF Bool
  <2>. QED  BY <2>3, <2>4
<1>3. ASSUME x[2] \in Int, y[2] \in Int, op \in {"add", "sub"} PROVE Compute(op, x, y) \in Values["int"]
  <2>1. Word \in Nat \ {0}
    BY FloatsAssumption
  <2>2. (x[2] + y[2]) % Word \in 0 .. Word - 1 /\ (x[2] - y[2]) % Word \in 0 .. Word - 1
    BY <1>3, <2>1
  <2>3. Values["int"] = {Integer(v) : v \in 0 .. Word - 1}
    BY DEF Values
  <2>. QED  BY <1>3, <2>2, <2>3, ComputeIs
<1>. QED  BY <1>1, <1>2, <1>3

-----------------------------------------------------------------------------
(* Constants whose sign is turned.                                         *)

\* Division with remainder.
LEMMA Remainder ==
  ASSUME NEW M \in Nat \ {0}, NEW x \in Int
  PROVE  (x % M) \in 0 .. M - 1 /\ (x \div M) \in Int /\ x = (x \div M) * M + (x % M)
BY Z3

\* The remainder is the only one.
LEMMA UniqueRemainder ==
  ASSUME NEW M \in Nat \ {0}, NEW q \in Int, NEW r \in 0 .. M - 1
  PROVE  (q * M + r) % M = r
BY Z3

\* A multiple of the modulus makes no difference.
LEMMA ShiftedRemainder ==
  ASSUME NEW M \in Nat \ {0}, NEW q \in Int, NEW x \in Int
  PROVE  (x + q * M) % M = x % M
<1>. DEFINE k == x \div M
            r == x % M
<1>1. r \in 0 .. M - 1 /\ k \in Int /\ x = k * M + r
  BY Remainder
<1>. HIDE DEF k, r
<1>2. (k + q) * M = k * M + q * M /\ k + q \in Int
  BY <1>1
<1>3. k * M \in Int /\ q * M \in Int
  BY <1>1
<1>4. x + q * M = (k + q) * M + r
  BY <1>1, <1>2, <1>3
<1>5. ((k + q) * M + r) % M = r
  BY <1>1, <1>2, UniqueRemainder
<1>. QED  BY <1>4, <1>5 DEF r

\* The signed number that a remainder stands for.
LEMMA SignedIs ==
  ASSUME NEW m \in Nat \ {0}, NEW h \in Nat, m = h + h, NEW q \in Int, NEW r \in 1 - h .. h - 1
  PROVE  Signed(q * m + r, m) = r
<1>1. m \div 2 = h
  OBVIOUS
<1>2. CASE r >= 0
  <2>1. r \in 0 .. m - 1 /\ r < h
    BY <1>2
  <2>2. (q * m + r) % m = r
    BY <2>1, UniqueRemainder
  <2>. QED  BY <1>1, <2>1, <2>2 DEF Signed
<1>3. CASE r < 0
  <2>. DEFINE p == q - 1
              t == m + r
  <2>1. p \in Int /\ t \in 0 .. m - 1 /\ ~(t < h) /\ t - m = r
    BY <1>3
  <2>2. q * m + r = p * m + t
    <3>1. (q - 1) * m = q * m - m /\ q * m \in Int
      OBVIOUS
    <3>. QED  BY <3>1
  <2>. HIDE DEF p, t
  <2>3. (q * m + r) % m = t
    BY <2>1, <2>2, UniqueRemainder
  <2>. QED  BY <1>1, <2>1, <2>3 DEF Signed
<1>. QED  BY <1>2, <1>3

\* What NegateConstant makes of the constant w.
Turned(w) == Signed(-Signed(w, CInt), CInt) % Word

\* The constant that fits an int is turned, and the second time turned back.
LEMMA TurnedIs ==
  ASSUME NEW c \in 0 .. Word - 1, SmallInt(c)
  PROVE  Turned(c) = (-c) % Word /\ Turned((-c) % Word) = c
<1>. DEFINE h == CInt \div 2
            r == Signed(c, Word)
            e == Word \div CInt
<1>1. CInt \in Nat \ {0} /\ Word \in Nat \ {0} /\ h \in Nat /\ CInt = h + h
  BY FloatsAssumption
<1>2. e \in Int /\ Word = e * CInt
  <2>1. Word % CInt = 0
    BY FloatsAssumption
  <2>2. e \in Int /\ Word = e * CInt + (Word % CInt)
    BY <1>1, Remainder
  <2>3. e * CInt \in Int
    BY <1>1, <2>2
  <2>. QED  BY <2>1, <2>2, <2>3
<1>3. r \in 1 - h .. h - 1
  BY DEF SmallInt
<1>4. PICK q \in {0, 1} : c = r + q * Word
  <2>1. c % Word = c
    <3>1. (0 * Word + c) % Word = c
      BY <1>1, UniqueRemainder
    <3>2. 0 * Word + c = c
      BY <1>1
    <3>. QED  BY <3>1, <3>2
  <2>2. r = c \/ r = c - Word
    BY <2>1 DEF Signed
  <2>3. c = r + 0 * Word \/ c = r + 1 * Word
    BY <1>1, <2>2
  <2>. QED  BY <2>3
<1>. HIDE DEF r, h, e
<1>5. \A k \in Int : \A x \in 1 - h .. h - 1 : Signed(k * Word + x, CInt) = x
  <2>. TAKE k \in Int
  <2>. TAKE x \in 1 - h .. h - 1
  <2>1. k * Word = (k * e) * CInt /\ k * e \in Int
    BY <1>1, <1>2
  <2>2. Signed((k * e) * CInt + x, CInt) = x
    BY <1>1, <2>1, SignedIs
  <2>. QED  BY <2>1, <2>2
<1>14. \A y \in Int, m \in Int : (y + m * Word) % Word = y % Word
  BY <1>1, ShiftedRemainder
<1>6. -r \in 1 - h .. h - 1 /\ r \in Int /\ h \in Int
  BY <1>1, <1>3
<1>7. Signed(c, CInt) = r
  <2>1. c = q * Word + r /\ q \in Int
    BY <1>1, <1>4, <1>6
  <2>. QED  BY <1>3, <1>5, <2>1
<1>8. \A x \in 1 - h .. h - 1 : Signed(x, CInt) = x
  <2>. TAKE x \in 1 - h .. h - 1
  <2>1. 0 * Word + x = x
    BY <1>1, <1>6
  <2>2. Signed(0 * Word + x, CInt) = x
    BY <1>5
  <2>. QED  BY <2>1, <2>2
<1>9. (-r) % Word = (-c) % Word
  <2>1. -r = (-c) + q * Word
    BY <1>1, <1>4, <1>6
  <2>2. -c \in Int /\ q \in Int
    BY <1>1
  <2>3. ((-c) + q * Word) % Word = (-c) % Word
    BY <1>14, <2>2, Zenon
  <2>. QED  BY <2>1, <2>3, Zenon
<1>10. Turned(c) = (-c) % Word
  <2>1. Signed(-r, CInt) = -r
    BY <1>6, <1>8
  <2>. QED  BY <1>7, <1>9, <2>1 DEF Turned
<1>. DEFINE w == (-c) % Word
            k == (-c) \div Word
<1>11. k \in Int /\ -c = k * Word + w /\ w \in Int
  BY <1>1, Remainder
<1>12. Signed(w, CInt) = -r
  <2>1. PICK p \in Int : p = -k - q
    BY <1>4, <1>11
  <2>3. w = p * Word + (-r)
    <3>. DEFINE kW == k * Word
                qW == q * Word
                pW == p * Word
    <3>1. k \in Int /\ q \in Int /\ Word \in Int
      BY <1>1, <1>4, <1>11
    <3>3. kW \in Int /\ qW \in Int /\ pW = -kW - qW
      <4>. HIDE DEF k
      <4>1. k * Word \in Int /\ q * Word \in Int /\ (-k - q) * Word = -(k * Word) - q * Word
        BY <3>1
      <4>2. p * Word = (-k - q) * Word
        BY <2>1, Zenon
      <4>3. p * Word = -(k * Word) - q * Word
        BY <4>1, <4>2, Zenon
      <4>. QED  BY <4>1, <4>3, Zenon
    <3>4. c = r + qW /\ -c = kW + w /\ w \in Int /\ r \in Int
      BY <1>4, <1>6, <1>11
    <3>. HIDE DEF w, k, kW, qW, pW
    <3>5. w = pW + (-r)
      BY <3>3, <3>4
    <3>. QED  BY <3>5 DEF pW
  <2>. HIDE DEF w
  <2>. QED  BY <1>5, <1>6, <2>3
<1>13. Turned(w) = c
  <2>1. Signed(-(-r), CInt) = r
    <3>1. -(-r) = r
      BY <1>6
    <3>. QED  BY <1>3, <1>8, <3>1
  <2>2. r % Word = c
    <3>1. (0 * Word + c) % Word = c /\ 0 * Word + c = c
      BY <1>1, UniqueRemainder
    <3>2. (r + q * Word) % Word = r % Word
      <4>1. q \in Int
        BY <1>4
      <4>. QED  BY <1>6, <1>14, <4>1, Zenon
    <3>3. c % Word = c
      BY <3>1, Zenon
    <3>. QED  BY <1>4, <3>2, <3>3, Zenon
  <2>. HIDE DEF w
  <2>. QED  BY <1>12, <2>1, <2>2 DEF Turned
<1>. QED  BY <1>10, <1>13

\* Subtracting a number is adding the one that the width leaves of its negative.
LEMMA OffsetIs ==
  ASSUME NEW a, a[2] \in Int, NEW c \in Int, NEW op \in {"add", "sub"}
  PROVE  Compute(op, a, Integer((-c) % Word)) = Compute(op, a, Integer(-c))
<1>. DEFINE w == (-c) % Word
            k == (-c) \div Word
<1>1. Word \in Nat \ {0}
  BY FloatsAssumption
<1>2. k \in Int /\ -c = k * Word + w /\ w \in Int
  BY <1>1, Remainder
<1>. HIDE DEF w, k
<1>3. (a[2] + (-c)) % Word = (a[2] + w) % Word
  <2>1. a[2] + (-c) = (a[2] + w) + k * Word /\ a[2] + w \in Int
    <3>1. k * Word \in Int
      BY <1>1, <1>2
    <3>. QED  BY <1>2, <3>1
  <2>2. \A y \in Int, m \in Int : (y + m * Word) % Word = y % Word
    BY <1>1, ShiftedRemainder
  <2>3. ((a[2] + w) + k * Word) % Word = (a[2] + w) % Word
    BY <1>2, <2>1, <2>2, Zenon
  <2>. QED  BY <2>1, <2>3, Zenon
<1>4. (a[2] - (-c)) % Word = (a[2] - w) % Word
  <2>1. a[2] - (-c) = (a[2] - w) + (-k) * Word /\ a[2] - w \in Int /\ -k \in Int
    <3>1. k * Word \in Int /\ (-k) * Word = -(k * Word)
      BY <1>1, <1>2
    <3>. QED  BY <1>2, <3>1
  <2>2. \A y \in Int, m \in Int : (y + m * Word) % Word = y % Word
    BY <1>1, ShiftedRemainder
  <2>3. ((a[2] - w) + (-k) * Word) % Word = (a[2] - w) % Word
    BY <2>1, <2>2, Zenon
  <2>. QED  BY <2>1, <2>3, Zenon
<1>5. Integer(w)[2] = w /\ Integer(-c)[2] = -c
  BY DEF Integer
<1>. QED  BY <1>3, <1>4, <1>5, ComputeIs DEF w

\* An add or sub whose constant is turned once more.
LEMMA OffsetThen ==
  ASSUME NEW s \in Seq(Tool), NEW u, u.y[2] \in 0 .. Word - 1, NEW i, OffsetOf(i, u, s),
         NEW j, j.name = i.name, j.op = i.op, j.x = i.x, j.y = Integer(Turned(i.y[2]))
  PROVE  OffsetOf(j, u, Append(s, "parsetest"))
<1>. DEFINE c == u.y[2]
            w == i.y[2]
            T == TurnsAfter(s)
            r == Append(s, "parsetest")
<1>1. T \in Nat /\ TurnsAfter(r) = T + 1
  BY TurnsThen DEF Tool
<1>2. Word \in Nat \ {0} /\ w \in Int /\ c \in 0 .. Word - 1
  BY FloatsAssumption DEF OffsetOf
<1>3. j.y[2] = Turned(w)
  BY DEF Integer
<1>4. Turned(w) \in Int
  <2>1. CInt \in Nat \ {0}
    BY FloatsAssumption
  <2>2. \A x \in Int : Signed(x, CInt) \in Int
    BY <2>1 DEF Signed
  <2>3. Signed(w, CInt) \in Int
    BY <1>2, <2>2
  <2>4. -Signed(w, CInt) \in Int
    BY <2>3
  <2>5. Signed(-Signed(w, CInt), CInt) \in Int
    BY <2>2, <2>4
  <2>. QED  BY <1>2, <2>5 DEF Turned
<1>5. ASSUME SmallInt(c) PROVE Turned(w) = IF (T + 1) % 2 = 0 THEN c ELSE (-c) % Word
  <2>1. w = IF T % 2 = 0 THEN c ELSE (-c) % Word
    BY <1>5 DEF OffsetOf
  <2>2. T % 2 = 0 <=> (T + 1) % 2 # 0
    BY <1>1
  <2>3. Turned(c) = (-c) % Word /\ Turned((-c) % Word) = c
    BY <1>2, <1>5, TurnedIs
  <2>. QED  BY <2>1, <2>2, <2>3
<1>6. TurnsAfter(r) # 0
  BY <1>1
<1>7. ~Hidden(j) /\ j.op = u.op /\ j.x = u.x
  BY DEF OffsetOf, Hidden
<1>. HIDE DEF c, w, T, r
<1>. QED  BY <1>1, <1>3, <1>4, <1>5, <1>6, <1>7 DEF OffsetOf, c, w, r

-----------------------------------------------------------------------------
(* What an instruction means stays when others are rewritten.              *)

\* The instruction before it, if another uses that, is still the one of its name.
Behind(f, b, j, g, c, l) ==
  j > 1 /\ f.code[b][j].op # "fadd" =>
    /\ l > 1 /\ g.code[c][l - 1].name = f.code[b][j - 1].name
    /\ \/ g.code[c][l - 1].op = f.code[b][j - 1].op
       \/ f.code[b][j - 1].op = "fadd" /\ g.code[c][l - 1].op \in {"fadd", "fsub", "hook", "phi"}
       \/ f.code[b][j - 1].op \in Equality \cup {"add", "sub"}

\* An instruction like another in a like place means the same.
LEMMA Kept ==
  ASSUME NEW f, NEW g, NEW O, NEW P, NEW b, NEW j, NEW c, NEW l, NEW u, NEW s,
         Meaning(f, O, b, j, u, s),
         Alike(f.code[b][j], g.code[c][l]), Behind(f, b, j, g, c, l), j = 1 /\ f.code[b][j].op = "phi" => l = 1,
         f.code[b][j].op = "phi" /\ b \in DOMAIN fn.code =>
           c = b /\ \A p \in DOMAIN g.code[c][l].in : \E o \in DOMAIN f.code[b][j].in :
                      g.code[c][l].in[p] = f.code[b][j].in[o] /\ P[p] = O[o],
         \A then, else, h \in DOMAIN f.code : f.code[b][j].op = "phi" /\ j = 1 /\ Clamps(f, b, then, else, h) =>
           {then, else} \subseteq DOMAIN g.code /\ \E k \in DOMAIN g.code : Clamps(g, c, then, else, k)
  PROVE  Meaning(g, P, c, l, u, s)
<1>. DEFINE i == f.code[b][j]
            k == g.code[c][l]
<1>1. k.name = i.name /\ k.op = i.op /\ (i.op # "phi" => k = i) /\ (Hidden(k) <=> Hidden(i))
  BY DEF Alike, Hidden
<1>2. ASSUME NEW op \in {"fadd", "fsub", "hook", "phi", "abs"}, After(f, b, j, op), i.op \notin {"fadd", "phi"}
      PROVE  \/ After(g, c, l, op)
             \/ op = "fadd" /\ \E o \in {"fadd", "fsub", "hook", "phi"} : After(g, c, l, o)
  <2>1. j > 1 /\ Hidden(f.code[b][j - 1]) /\ op = f.code[b][j - 1].op /\ i.x = Val(f.code[b][j - 1].name)
    BY <1>2 DEF After
  <2>2. /\ l > 1 /\ g.code[c][l - 1].name = f.code[b][j - 1].name
        /\ \/ g.code[c][l - 1].op = f.code[b][j - 1].op
           \/ f.code[b][j - 1].op = "fadd" /\ g.code[c][l - 1].op \in {"fadd", "fsub", "hook", "phi"}
    BY <1>2, <2>1 DEF Behind, Equality
  <2>3. After(g, c, l, g.code[c][l - 1].op)
    BY <1>1, <1>2, <2>1, <2>2 DEF After, Hidden
  <2>. QED  BY <2>1, <2>2, <2>3
<1>. HIDE DEF i, k
<1>3. ASSUME u.op = "phi" PROVE PhiOf(k, c, u, P)
  <2>1. PhiOf(i, b, u, O)
    BY <1>3 DEF Meaning, i
  <2>2. i.op = "phi" /\ b \in DOMAIN fn.code /\ \A o \in DOMAIN i.in : i.in[o] = u.in[O[o]]
    BY <2>1 DEF PhiOf
  <2>3. c = b /\ \A p \in DOMAIN k.in : \E o \in DOMAIN i.in : k.in[p] = i.in[o] /\ P[p] = O[o]
    BY <2>2 DEF i, k
  <2>4. \A p \in DOMAIN k.in : k.in[p] = u.in[P[p]]
    BY <2>2, <2>3
  <2>. QED  BY <1>1, <2>1, <2>2, <2>3, <2>4 DEF PhiOf
<1>4. ASSUME u.op = "fadd" PROVE SumOf(g, c, l, u, s)
  <2>1. SumOf(f, b, j, u, s)
    BY <1>4 DEF Meaning
  <2>2. ~Hidden(k) => (k.op = "phi" <=> ClampedAfter(s))
    BY <1>1, <2>1 DEF SumOf, i
  <2>3. CASE i.op = OperationAfter(s) /\ i.x = u.x /\ i.y = u.y
    <3>1. i.op # "phi"
      BY <2>3, OperationIs
    <3>. QED  BY <1>1, <2>2, <2>3, <3>1 DEF SumOf, k
  <2>4. CASE i.op = "phi" /\ j = 1 /\ \E then, else, h \in DOMAIN f.code : Clamps(f, b, then, else, h)
    <3>1. PICK then, else, h \in DOMAIN f.code : Clamps(f, b, then, else, h)
      BY <2>4
    <3>2. {then, else} \subseteq DOMAIN g.code /\ \E m \in DOMAIN g.code : Clamps(g, c, then, else, m)
      BY <2>4, <3>1 DEF i
    <3>3. l = 1 /\ k.op = "phi"
      BY <1>1, <2>4 DEF i
    <3>. QED  BY <2>2, <3>2, <3>3 DEF SumOf, k
  <2>5. CASE Hidden(i) /\ i.op = "ogt" /\ i.y = Num(Limit) /\ \E op \in {"fadd", "fsub", "hook", "phi"} : After(f, b, j, op)
    <3>1. \E op \in {"fadd", "fsub", "hook", "phi"} : After(g, c, l, op)
      BY <1>2, <2>5
    <3>. QED  BY <1>1, <2>2, <2>5, <3>1 DEF SumOf, k
  <2>. QED  BY <2>1, <2>3, <2>4, <2>5 DEF SumOf, i
<1>5. ASSUME u.op \in Equality PROVE CompareOf(g, c, l, u, s)
  <2>1. CompareOf(f, b, j, u, s)
    BY <1>5 DEF Meaning
  <2>2. NewPredicate[u.op] \in {"olt", "ult", "oge", "uge"}
    BY <1>5 DEF NewPredicate, Equality
  <2>3. i.op \notin {"fadd", "phi"}
    BY <1>5, <2>1, <2>2 DEF CompareOf, i, Equality
  <2>4. k = i /\ (Hidden(k) <=> Hidden(i))
    BY <1>1, <2>3
  <2>5. After(f, b, j, "abs") => After(g, c, l, "abs")
    BY <1>2, <2>3
  <2>6. After(f, b, j, "fsub") => After(g, c, l, "fsub")
    BY <1>2, <2>3
  <2>. QED  BY <2>1, <2>4, <2>5, <2>6 DEF CompareOf, i, k
<1>6. ASSUME IsOffset(u) PROVE OffsetOf(k, u, s)
  <2>1. OffsetOf(i, u, s)
    BY <1>6 DEF Meaning, i
  <2>2. i.op # "phi"
    BY <1>6, <2>1 DEF OffsetOf, IsOffset
  <2>. QED  BY <1>1, <2>1, <2>2
<1>7. ASSUME u.op \notin {"phi", "fadd"} \cup Equality, ~IsOffset(u) PROVE k = u
  <2>1. i = u
    BY <1>7 DEF Meaning, i
  <2>. QED  BY <1>1, <1>7, <2>1
<1>. QED  BY <1>3, <1>4, <1>5, <1>6, <1>7 DEF Meaning, k

\* Equal ranges have equal ends.
LEMMA SameLength ==
  ASSUME NEW k \in Nat, NEW l \in Nat, 1 .. k = 1 .. l
  PROVE  k = l
<1>1. ASSUME NEW m \in Nat, NEW n \in Nat, m < n PROVE 1 .. m # 1 .. n
  <2>1. n \in 1 .. n /\ n \notin 1 .. m
    BY <1>1
  <2>. QED  BY <2>1
<1>2. k = l \/ k < l \/ l < k
  OBVIOUS
<1>. QED  BY <1>1, <1>2

\* An addition that is limited stays so when another instruction is replaced.
LEMMA ReplaceClamps ==
  ASSUME NEW f, NEW top, WellFormed(f, top), NEW g, NEW M, WellFormed(g, M),
         NEW b, NEW q, NEW L, NEW s, NEW r, InPlace(f, g, b, q, L, s, r), r > 0,
         s[r].name = f.code[b][q].name, f.code[b][q].op \notin {"ogt", "phi"},
         NEW t \in DOMAIN f.code, NEW then, NEW else, NEW h, Clamps(f, t, then, else, h), f.code[t][1].op = "phi"
  PROVE  Clamps(g, t, then, else, h) /\ g.code[t][1] = f.code[t][1]
<1>. DEFINE m == Len(f.code[h])
            w == Len(g.code[h])
<1>1. /\ b \in DOMAIN f.code /\ L \in Nat /\ DOMAIN f.code[b] = 1 .. L /\ q \in 1 .. L /\ r \in Nat /\ r >= 1
      /\ DOMAIN g.code = DOMAIN f.code /\ g.br = f.br /\ \A c \in DOMAIN f.code : c # b => g.code[c] = f.code[c]
      /\ DOMAIN g.code[b] = 1 .. L + r - 1
      /\ \A k \in 1 .. q - 1 : g.code[b][k] = f.code[b][k]
      /\ \A k \in q .. q + r - 1 : g.code[b][k] = s[k - q + 1]
      /\ \A k \in q + r .. L + r - 1 : g.code[b][k] = f.code[b][k - r + 1]
  BY DEF InPlace
<1>2. g.code[t][1] = f.code[t][1]
  <2>1. CASE t # b
    BY <1>1, <2>1
  <2>2. CASE t = b
    <3>1. q # 1
      BY <2>2
    <3>2. 1 \in 1 .. q - 1
      BY <1>1, <3>1
    <3>. QED  BY <1>1, <2>2, <3>2
  <2>. QED  BY <2>1, <2>2
<1>3. \A c : Preds(g, c) = Preds(f, c)
  BY <1>1 DEF Preds
<1>4. {then, else, h} \subseteq DOMAIN f.code /\ then # b /\ else # b /\ m > 1 /\ f.code[h][m].op = "ogt"
  <2>1. {then, else, h} \subseteq DOMAIN f.code /\ m > 1 /\ f.code[h][m].op = "ogt"
        /\ DOMAIN f.code[then] = {} /\ DOMAIN f.code[else] = {}
    BY DEF Clamps
  <2>. QED  BY <1>1, <2>1
<1>5. w > 1 /\ g.code[h][w] = f.code[h][m] /\ g.code[h][w - 1].name = f.code[h][m - 1].name
  <2>1. CASE h # b
    BY <1>1, <1>4, <2>1
  <2>2. CASE h = b
    <3>1. m = L /\ w = L + r - 1
      <4>3. DOMAIN f.code[b] = 1 .. Len(f.code[b]) /\ Len(f.code[b]) \in Nat
        BY <1>1, CodeIs
      <4>4. DOMAIN g.code[b] = 1 .. Len(g.code[b]) /\ Len(g.code[b]) \in Nat
        BY <1>1, CodeIs
      <4>1. DOMAIN f.code[b] = 1 .. m /\ m \in Nat /\ DOMAIN g.code[b] = 1 .. w /\ w \in Nat
        BY <2>2, <4>3, <4>4
      <4>. HIDE DEF m, w
      <4>2. L + r - 1 \in Nat
        BY <1>1
      <4>. QED  BY <1>1, <2>2, <4>1, <4>2, SameLength
    <3>. HIDE DEF m, w
    <3>2. q # L
      BY <1>4, <2>2, <3>1
    <3>3. w \in q + r .. L + r - 1 /\ w - r + 1 = m
      BY <1>1, <3>1, <3>2
    <3>4. g.code[h][w] = f.code[h][m]
      BY <1>1, <2>2, <3>3
    <3>5. CASE q = L - 1
      <4>1. w - 1 \in q .. q + r - 1 /\ (w - 1) - q + 1 = r /\ m - 1 = q
        BY <1>1, <3>1, <3>5
      <4>2. g.code[h][w - 1] = s[r]
        BY <1>1, <2>2, <4>1
      <4>. QED  BY <1>1, <1>4, <2>2, <3>1, <3>4, <4>1, <4>2
    <3>6. CASE q # L - 1
      <4>1. w - 1 \in q + r .. L + r - 1 /\ (w - 1) - r + 1 = m - 1
        BY <1>1, <3>1, <3>2, <3>6
      <4>2. g.code[h][w - 1] = f.code[h][m - 1]
        BY <1>1, <2>2, <4>1
      <4>. QED  BY <1>1, <1>4, <3>1, <3>4, <4>2
    <3>. QED  BY <3>5, <3>6
  <2>. QED  BY <2>1, <2>2
<1>6. g.code[then] = f.code[then] /\ g.code[else] = f.code[else]
  BY <1>1, <1>4
<1>. HIDE DEF m, w
<1>7. Clamps(g, t, then, else, h)
  <2>. DEFINE in == f.code[t][1].in
  <2>1. /\ {then, else, h} \subseteq DOMAIN f.code /\ then # else
        /\ DOMAIN in = {then, else} /\ in[then] = Num(Limit) /\ m > 1 /\ in[else] = Val(f.code[h][m - 1].name)
        /\ \A c \in {then, else} : DOMAIN f.code[c] = {} /\ Preds(f, c) = {h} /\ f.br[c].to = <<t>> /\ ~f.br[c].user
        /\ f.br[h].to = <<then, else>> /\ f.br[h].cond = Val(f.code[h][m].name) /\ ~f.br[h].user
        /\ f.code[h][m].op = "ogt" /\ Hidden(f.code[h][m]) /\ Hidden(f.code[h][m - 1])
    BY DEF Clamps, m
  <2>. HIDE DEF in
  <2>2. in = g.code[t][1].in
    BY <1>2 DEF in
  <2>. QED  BY <1>1, <1>3, <1>5, <1>6, <2>1, <2>2, Zenon DEF Clamps, w, Hidden
<1>. QED  BY <1>2, <1>7

\* Where the j-th instruction was before a sequence of r took the place of the q-th.
Was(q, r, j) == IF j <= q THEN j ELSE IF j <= q + r - 1 THEN q ELSE j - r + 1
\* The user's places when r instructions take the place of the q-th of b.
Widened(f, K, b, q, L, r) ==
  [c \in DOMAIN f.code |-> IF c = b THEN [j \in 1 .. L + r |-> K[b][Was(q, r, j)]] ELSE K[c]]

\* The length of a block from its places.
LEMMA LengthIs ==
  ASSUME NEW f, NEW top, WellFormed(f, top), NEW b \in DOMAIN f.code, NEW L \in Nat, DOMAIN f.code[b] = 1 .. L
  PROVE  Len(f.code[b]) = L
<1>1. DOMAIN f.code[b] = 1 .. Len(f.code[b]) /\ Len(f.code[b]) \in Nat
  BY CodeIs
<1>. QED  BY <1>1, SameLength

\* Before, within and after what was put in.
LEMMA WasAt ==
  ASSUME NEW L \in Nat, NEW q \in 1 .. L, NEW r \in Nat, r >= 1
  PROVE  /\ \A j \in 1 .. q - 1 : Was(q, r, j) = j /\ Was(q, r, j + 1) = j + 1 /\ j \notin q .. q + r - 2
         /\ \A j \in q .. q + r - 2 :
              Was(q, r, j) = q /\ Was(q, r, j + 1) = q /\ j - q + 1 \in 1 .. r - 1 /\ j \in q .. q + r - 1
         /\ \A j : j = q + r - 1 =>
              Was(q, r, j) = q /\ Was(q, r, j + 1) = q + 1 /\ j \notin q .. q + r - 2 /\ j - q + 1 = r /\ j \in q .. q + r - 1
         /\ \A j \in q + r .. L + r - 1 :
              Was(q, r, j) = j - r + 1 /\ Was(q, r, j + 1) = j - r + 2 /\ j \notin q .. q + r - 2 /\ j - r + 1 \in 1 .. L
<1>1. \A j \in 1 .. q - 1 : Was(q, r, j) = j /\ Was(q, r, j + 1) = j + 1 /\ j \notin q .. q + r - 2
  BY DEF Was
<1>2. \A j \in q .. q + r - 2 :
        Was(q, r, j) = q /\ Was(q, r, j + 1) = q /\ j - q + 1 \in 1 .. r - 1 /\ j \in q .. q + r - 1
  BY DEF Was
<1>3. \A j : j = q + r - 1 =>
        Was(q, r, j) = q /\ Was(q, r, j + 1) = q + 1 /\ j \notin q .. q + r - 2 /\ j - q + 1 = r /\ j \in q .. q + r - 1
  BY DEF Was
<1>4. \A j \in q + r .. L + r - 1 :
        Was(q, r, j) = j - r + 1 /\ Was(q, r, j + 1) = j - r + 2 /\ j \notin q .. q + r - 2 /\ j - r + 1 \in 1 .. L
  BY DEF Was
<1>. QED  BY <1>1, <1>2, <1>3, <1>4

\* The first place and the one past the last.
LEMMA WasFirst ==
  ASSUME NEW L \in Nat, NEW q \in 1 .. L, NEW r \in Nat, r >= 1
  PROVE  /\ Was(q, r, 1) = 1 /\ 1 \in 1 .. L + r
         /\ (L + r - 1) + 1 \in 1 .. L + r /\ Was(q, r, (L + r - 1) + 1) = L + 1
<1>1. Was(q, r, 1) = 1 /\ 1 \in 1 .. L + r
  BY DEF Was
<1>2. (L + r - 1) + 1 = L + r /\ L + r \in 1 .. L + r
  OBVIOUS
<1>3. Was(q, r, L + r) = L + 1
  BY DEF Was
<1>. QED  BY <1>1, <1>2, <1>3

\* What is at a place, and where it was.
LEMMA WasIs ==
  ASSUME NEW f, NEW g, NEW b, NEW q, NEW L, NEW s, NEW r, InPlace(f, g, b, q, L, s, r), r > 0,
         s[r].name = f.code[b][q].name, NEW j \in 1 .. L + r - 1
  PROVE  /\ Was(q, r, j) \in 1 .. L
         /\ \/ j \in q .. q + r - 2 /\ Was(q, r, j) = q /\ Was(q, r, j + 1) = q /\ j - q + 1 \in 1 .. r - 1
               /\ g.code[b][j] = s[j - q + 1]
            \/ j \notin q .. q + r - 2 /\ Was(q, r, j + 1) = Was(q, r, j) + 1
               /\ g.code[b][j].name = f.code[b][Was(q, r, j)].name
<1>1. /\ L \in Nat /\ q \in 1 .. L /\ r \in Nat
      /\ \A k \in 1 .. q - 1 : g.code[b][k] = f.code[b][k]
      /\ \A k \in q .. q + r - 1 : g.code[b][k] = s[k - q + 1]
      /\ \A k \in q + r .. L + r - 1 : g.code[b][k] = f.code[b][k - r + 1]
  BY DEF InPlace
<1>0. L \in Nat /\ q \in 1 .. L /\ r \in Nat /\ r >= 1
  BY <1>1
<1>2. CASE j \in 1 .. q - 1
  <2>1. Was(q, r, j) = j /\ Was(q, r, j + 1) = j + 1 /\ j \notin q .. q + r - 2
    BY <1>0, <1>2, WasAt, Zenon
  <2>2. j \in 1 .. L
    BY <1>0, <1>2
  <2>. QED  BY <1>1, <1>2, <2>1, <2>2
<1>3. CASE j \in q .. q + r - 2
  <2>1. Was(q, r, j) = q /\ Was(q, r, j + 1) = q /\ j - q + 1 \in 1 .. r - 1 /\ j \in q .. q + r - 1
    BY <1>0, <1>3, WasAt
  <2>. QED  BY <1>1, <1>3, <2>1
<1>4. CASE j = q + r - 1
  <2>1. Was(q, r, j) = q /\ Was(q, r, j + 1) = q + 1 /\ j \notin q .. q + r - 2 /\ j - q + 1 = r /\ j \in q .. q + r - 1
    BY <1>0, <1>4, WasAt
  <2>. QED  BY <1>1, <2>1
<1>5. CASE j \in q + r .. L + r - 1
  <2>1. Was(q, r, j) = j - r + 1 /\ Was(q, r, j + 1) = j - r + 2 /\ j \notin q .. q + r - 2 /\ j - r + 1 \in 1 .. L
    BY <1>0, <1>5, WasAt
  <2>2. Was(q, r, j + 1) = Was(q, r, j) + 1
    BY <1>1, <2>1
  <2>. QED  BY <1>1, <1>5, <2>1, <2>2
<1>. QED  BY <1>1, <1>2, <1>3, <1>4, <1>5

\* The user's instructions are still done in their order when one is replaced.
LEMMA ReplaceFollows ==
  ASSUME fn \in Functions, NEW f, NEW top, WellFormed(f, top), NEW g, NEW M, WellFormed(g, M),
         NEW b, NEW q, NEW L, NEW s, NEW r, InPlace(f, g, b, q, L, s, r), r > 0,
         s[r].name = f.code[b][q].name, \A k \in 1 .. r - 1 : Hidden(s[k]),
         NEW O, NEW K, Follows(f, O, K)
  PROVE  Follows(g, O, Widened(f, K, b, q, L, r))
<1>. DEFINE J == Widened(f, K, b, q, L, r)
<1>1. /\ b \in DOMAIN f.code /\ L \in Nat /\ DOMAIN f.code[b] = 1 .. L /\ q \in 1 .. L /\ r \in Nat /\ r >= 1
      /\ DOMAIN g.code = DOMAIN f.code /\ g.br = f.br /\ \A c \in DOMAIN f.code : c # b => g.code[c] = f.code[c]
      /\ DOMAIN g.code[b] = 1 .. L + r - 1
  BY DEF InPlace
<1>2. /\ \A c \in DOMAIN f.code : c # b => J[c] = K[c]
      /\ \A j \in 1 .. L + r : J[b][j] = K[b][Was(q, r, j)]
  <2>1. b \in DOMAIN f.code
    BY <1>1
  <2>. QED  BY <2>1 DEF Widened
<1>. HIDE DEF J
<1>3. Len(f.code[b]) = L /\ Len(g.code[b]) = L + r - 1
  <2>1. PICK N \in Nat : N = L + r - 1
    BY <1>1
  <2>. QED  BY <1>1, <2>1, LengthIs
<1>4. \A c \in DOMAIN f.code : J[c][1] = K[c][1]
  <2>1. Was(q, r, 1) = 1 /\ 1 \in 1 .. L + r
    BY <1>1, WasFirst
  <2>. QED  BY <1>2, <2>1
<1>5. \A c \in DOMAIN g.code : J[c][Len(g.code[c]) + 1] = K[c][Len(f.code[c]) + 1]
  <2>1. (L + r - 1) + 1 \in 1 .. L + r /\ Was(q, r, (L + r - 1) + 1) = L + 1
    BY <1>1, WasFirst
  <2>2. J[b][(L + r - 1) + 1] = K[b][L + 1]
    BY <1>2, <2>1
  <2>3. J[b][Len(g.code[b]) + 1] = K[b][Len(f.code[b]) + 1]
    BY <1>3, <2>2
  <2>. QED  BY <1>1, <1>2, <2>3
<1>6. \A c \in DOMAIN fn.code : c \in DOMAIN g.code /\ O[c] = c /\ J[c][1] = 1
  BY <1>1, <1>4 DEF Follows
<1>7. ASSUME NEW c \in DOMAIN g.code
      PROVE  LET code == fn.code[O[c]]
                 end == J[c][Len(g.code[c]) + 1]
             IN  /\ O[c] \in DOMAIN fn.code
                 /\ \A j \in DOMAIN g.code[c] :
                      /\ J[c][j] \in DOMAIN code
                      /\ IF Hidden(g.code[c][j]) THEN J[c][j + 1] = J[c][j]
                         ELSE J[c][j + 1] = J[c][j] + 1 /\ code[J[c][j]].name = g.code[c][j].name
                 /\ IF g.br[c].user THEN end = Len(code) + 1 /\ g.br[c] = fn.br[O[c]]
                    ELSE /\ g.br[c].to # << >>
                         /\ \A d \in ToSet(g.br[c].to) : d \notin DOMAIN fn.code /\ O[d] = O[c] /\ J[d][1] = end
  <2>. DEFINE code == fn.code[O[c]]
              end == K[c][Len(f.code[c]) + 1]
  <2>1. /\ O[c] \in DOMAIN fn.code
        /\ \A j \in DOMAIN f.code[c] :
             /\ K[c][j] \in DOMAIN code
             /\ IF Hidden(f.code[c][j]) THEN K[c][j + 1] = K[c][j]
                ELSE K[c][j + 1] = K[c][j] + 1 /\ code[K[c][j]].name = f.code[c][j].name
        /\ IF f.br[c].user THEN end = Len(code) + 1 /\ f.br[c] = fn.br[O[c]]
           ELSE /\ f.br[c].to # << >>
                /\ \A d \in ToSet(f.br[c].to) : d \notin DOMAIN fn.code /\ O[d] = O[c] /\ K[d][1] = end
    BY <1>1 DEF Follows
  <2>. HIDE DEF code, end
  <2>2. ASSUME NEW j \in DOMAIN g.code[c]
        PROVE  /\ J[c][j] \in DOMAIN code
               /\ IF Hidden(g.code[c][j]) THEN J[c][j + 1] = J[c][j]
                  ELSE J[c][j + 1] = J[c][j] + 1 /\ code[J[c][j]].name = g.code[c][j].name
    <3>1. CASE c # b
      BY <1>1, <1>2, <2>1, <3>1
    <3>2. CASE c = b
      <4>1. j \in 1 .. L + r - 1 /\ j \in 1 .. L + r /\ j + 1 \in 1 .. L + r
        BY <1>1, <3>2
      <4>2. J[b][j] = K[b][Was(q, r, j)] /\ J[b][j + 1] = K[b][Was(q, r, j + 1)]
        BY <1>2, <4>1
      <4>3. Was(q, r, j) \in 1 .. L
        BY <4>1, WasIs
      <4>4. CASE j \in q .. q + r - 2 /\ Was(q, r, j) = q /\ Was(q, r, j + 1) = q /\ j - q + 1 \in 1 .. r - 1
                 /\ g.code[b][j] = s[j - q + 1]
        BY <1>1, <2>1, <3>2, <4>2, <4>3, <4>4
      <4>5. CASE j \notin q .. q + r - 2 /\ Was(q, r, j + 1) = Was(q, r, j) + 1
                 /\ g.code[b][j].name = f.code[b][Was(q, r, j)].name
        <5>1. Hidden(g.code[b][j]) <=> Hidden(f.code[b][Was(q, r, j)])
          BY <4>5 DEF Hidden
        <5>. QED  BY <1>1, <2>1, <3>2, <4>2, <4>3, <4>5, <5>1
      <4>. QED  BY <4>1, <4>4, <4>5, WasIs
    <3>. QED  BY <3>1, <3>2
  <2>3. J[c][Len(g.code[c]) + 1] = end
    BY <1>5 DEF end
  <2>4. ~f.br[c].user => \A d \in ToSet(f.br[c].to) : J[d][1] = end
    <3>1. ToSet(f.br[c].to) \subseteq DOMAIN f.code
      <4>1. f.br[c].to \in Seq(DOMAIN f.code)
        BY <1>1 DEF WellFormed, IsBr
      <4>. QED  BY <4>1 DEF ToSet
    <3>. QED  BY <1>4, <2>1, <3>1
  <2>. QED  BY <1>1, <2>1, <2>2, <2>3, <2>4 DEF code
<1>. QED  BY <1>6, <1>7 DEF Follows, J

\* What a tool replaces is no PHI and no comparison with 100.
Replaced == {"fadd", "add", "sub"} \cup Equality

\* What the others mean stays when one instruction is replaced.
LEMMA ReplaceMeans ==
  ASSUME NEW f, NEW top, WellFormed(f, top), NEW g, NEW M, WellFormed(g, M),
         NEW b, NEW q, NEW L, NEW s, NEW r, InPlace(f, g, b, q, L, s, r), r > 0,
         s[r].name = f.code[b][q].name, f.code[b][q].op \in Replaced,
         f.code[b][q].op = "fadd" => s[r].op \in {"fadd", "fsub", "hook", "phi"},
         NEW O, NEW K, NEW d, NEW e, NEW before, NEW after, Means(f, O, K, d, before, after),
         \A n : n # s[r].name /\ (\E i \in Insts(f) : i.name = n) => (n \in d <=> n \in e),
         \A k \in 1 .. r : Meaning(g, O, b, q + k - 1, fn.code[O[b]][K[b][q]], IF s[k].name \in e THEN before ELSE after)
  PROVE  Means(g, O, Widened(f, K, b, q, L, r), e, before, after)
<1>. DEFINE J == Widened(f, K, b, q, L, r)
            S(n, x) == IF n \in x THEN before ELSE after
<1>1. /\ b \in DOMAIN f.code /\ L \in Nat /\ DOMAIN f.code[b] = 1 .. L /\ q \in 1 .. L /\ r \in Nat
      /\ DOMAIN g.code = DOMAIN f.code /\ g.br = f.br /\ \A c \in DOMAIN f.code : c # b => g.code[c] = f.code[c]
      /\ DOMAIN g.code[b] = 1 .. L + r - 1
      /\ \A k \in 1 .. q - 1 : g.code[b][k] = f.code[b][k]
      /\ \A k \in q .. q + r - 1 : g.code[b][k] = s[k - q + 1]
      /\ \A k \in q + r .. L + r - 1 : g.code[b][k] = f.code[b][k - r + 1]
  BY DEF InPlace
<1>0. L \in Nat /\ q \in 1 .. L /\ r \in Nat /\ r >= 1
  BY <1>1
<1>2. /\ \A c \in DOMAIN f.code : c # b => J[c] = K[c]
      /\ \A j \in 1 .. L + r : J[b][j] = K[b][Was(q, r, j)]
  <2>1. b \in DOMAIN f.code
    BY <1>1
  <2>. QED  BY <2>1 DEF Widened
<1>. HIDE DEF J
\* An instruction that was at l of the same block.
<1>3. ASSUME NEW c \in DOMAIN f.code, NEW l \in DOMAIN f.code[c], NEW j \in DOMAIN g.code[c],
             g.code[c][j] = f.code[c][l], c # b \/ l # q, J[c][j] = K[c][l], l = 1 => j = 1,
             Behind(f, c, l, g, c, j)
      PROVE  Meaning(g, O, c, j, fn.code[O[c]][J[c][j]], S(g.code[c][j].name, e))
  <2>. DEFINE i == f.code[c][l]
              u == fn.code[O[c]][K[c][l]]
              t == S(i.name, d)
  <2>1. Meaning(f, O, c, l, u, t)
    BY DEF Means
  <2>2. i.name # s[r].name /\ i \in Insts(f)
    <3>1. i \in Insts(f)
      BY InstsAre
    <3>2. UniqueNames(f) /\ q \in DOMAIN f.code[b] /\ b \in DOMAIN f.code
      BY <1>1 DEF WellFormed
    <3>3. i.name # f.code[b][q].name
      BY <1>3, <3>2 DEF UniqueNames
    <3>. QED  BY <3>1, <3>3
  <2>3. t = S(i.name, e)
    BY <2>2
  <2>4. \A x, y, h \in DOMAIN f.code : f.code[c][l].op = "phi" /\ l = 1 /\ Clamps(f, c, x, y, h) =>
          {x, y} \subseteq DOMAIN g.code /\ \E k \in DOMAIN g.code : Clamps(g, c, x, y, k)
    <3>. SUFFICES ASSUME NEW x \in DOMAIN f.code, NEW y \in DOMAIN f.code, NEW h \in DOMAIN f.code,
                         f.code[c][1].op = "phi", Clamps(f, c, x, y, h)
                  PROVE  Clamps(g, c, x, y, h)
      BY <1>1
    <3>1. f.code[b][q].op \notin {"ogt", "phi"}
      BY DEF Replaced, Equality
    <3>. QED  BY <1>0, <3>1, ReplaceClamps
  <2>5. Alike(i, g.code[c][j])
    BY <1>3 DEF Alike
  <2>6. i.op = "phi" /\ c \in DOMAIN fn.code =>
          c = c /\ \A p \in DOMAIN g.code[c][j].in : \E o \in DOMAIN i.in : g.code[c][j].in[p] = i.in[o] /\ O[p] = O[o]
    BY <1>3
  <2>. HIDE DEF u, t
  <2>7. Meaning(g, O, c, j, u, t)
    BY <1>3, <2>1, <2>4, <2>5, <2>6, Kept
  <2>. QED  BY <1>3, <2>3, <2>7 DEF u
<1>4. ASSUME NEW c \in DOMAIN f.code, c # b, NEW j \in DOMAIN g.code[c]
      PROVE  Meaning(g, O, c, j, fn.code[O[c]][J[c][j]], S(g.code[c][j].name, e))
  <2>1. g.code[c] = f.code[c] /\ J[c] = K[c]
    BY <1>1, <1>2, <1>4
  <2>3. Behind(f, c, j, g, c, j)
    BY <2>1 DEF Behind
  <2>. QED  BY <1>3, <1>4, <2>1, <2>3
<1>5. ASSUME NEW j \in DOMAIN g.code[b]
      PROVE  Meaning(g, O, b, j, fn.code[O[b]][J[b][j]], S(g.code[b][j].name, e))
  <2>0. j \in 1 .. L + r - 1 /\ j \in 1 .. L + r
    BY <1>0, <1>1
  <2>1. CASE j \in q .. q + r - 1
    <3>1. j - q + 1 \in 1 .. r /\ q + (j - q + 1) - 1 = j
      BY <1>0, <2>1
    <3>2. Was(q, r, j) = q
      BY <1>0, <2>1 DEF Was
    <3>3. J[b][j] = K[b][q] /\ g.code[b][j] = s[j - q + 1]
      BY <1>1, <1>2, <2>0, <2>1, <3>2
    <3>4. Meaning(g, O, b, q + (j - q + 1) - 1, fn.code[O[b]][K[b][q]], S(s[j - q + 1].name, e))
      BY <3>1
    <3>. QED  BY <3>1, <3>3, <3>4
  <2>2. CASE j \in 1 .. q - 1
    <3>1. Was(q, r, j) = j /\ j \in 1 .. L /\ j # q
      BY <1>0, <2>2 DEF Was
    <3>2. g.code[b][j] = f.code[b][j] /\ J[b][j] = K[b][j] /\ j \in DOMAIN f.code[b]
      BY <1>1, <1>2, <2>0, <2>2, <3>1
    <3>3. j > 1 => g.code[b][j - 1] = f.code[b][j - 1]
      <4>1. j > 1 => j - 1 \in 1 .. q - 1
        BY <1>0, <2>2
      <4>. QED  BY <1>1, <4>1
    <3>4. Behind(f, b, j, g, b, j)
      BY <3>3 DEF Behind
    <3>. QED  BY <1>1, <1>3, <3>1, <3>2, <3>4
  <2>3. CASE j \in q + r .. L + r - 1
    <3>. DEFINE l == j - r + 1
    <3>1. Was(q, r, j) = l /\ l \in 1 .. L /\ l > q /\ l # 1 /\ j > 1 /\ l - 1 \in q .. L
      BY <1>0, <2>3 DEF Was
    <3>2. g.code[b][j] = f.code[b][l] /\ J[b][j] = K[b][l] /\ l \in DOMAIN f.code[b]
      BY <1>1, <1>2, <2>0, <2>3, <3>1
    <3>3. CASE l - 1 = q
      <4>1. j - 1 \in q .. q + r - 1 /\ (j - 1) - q + 1 = r
        BY <1>0, <2>3, <3>3
      <4>2. g.code[b][j - 1] = s[r]
        BY <1>1, <4>1
      <4>3. f.code[b][l - 1].op = "fadd" \/ f.code[b][l - 1].op \in Equality \cup {"add", "sub"}
        BY <3>3 DEF Replaced
      <4>4. Behind(f, b, l, g, b, j)
        <5>. HIDE DEF l
        <5>. QED  BY <3>1, <3>3, <4>2, <4>3 DEF Behind
      <4>5. b \in DOMAIN f.code /\ l # q /\ (l = 1 => j = 1)
        BY <1>0, <1>1, <3>1
      <4>. HIDE DEF l
      <4>. QED  BY <1>3, <3>2, <4>4, <4>5
    <3>4. CASE l - 1 # q
      <4>1. j - 1 \in q + r .. L + r - 1 /\ (j - 1) - r + 1 = l - 1
        BY <1>0, <2>3, <3>1, <3>4
      <4>2. g.code[b][j - 1] = f.code[b][l - 1]
        BY <1>1, <4>1
      <4>3. Behind(f, b, l, g, b, j)
        <5>. HIDE DEF l
        <5>. QED  BY <3>1, <4>2 DEF Behind
      <4>5. b \in DOMAIN f.code /\ l # q /\ (l = 1 => j = 1)
        BY <1>0, <1>1, <3>1
      <4>. HIDE DEF l
      <4>. QED  BY <1>3, <3>2, <4>3, <4>5
    <3>. QED  BY <3>3, <3>4
  <2>. QED  BY <1>0, <2>0, <2>1, <2>2, <2>3
<1>6. ASSUME NEW c \in DOMAIN g.code, NEW j \in DOMAIN g.code[c]
      PROVE  Meaning(g, O, c, j, fn.code[O[c]][J[c][j]], S(g.code[c][j].name, e))
  <2>1. CASE c = b
    BY <1>5, <2>1
  <2>2. CASE c # b
    <3>1. c \in DOMAIN f.code
      BY <1>1
    <3>. QED  BY <1>4, <2>2, <3>1
  <2>. QED  BY <2>1, <2>2
<1>. QED  BY <1>6 DEF Means, J

\* The blocks that a split makes of b go through the same instructions of the user's.
Origins(f, O, b, then, else, tail) ==
  [c \in DOMAIN f.code \cup {then, else, tail} |-> IF c \in {then, else, tail} THEN O[b] ELSE O[c]]

\* The places of the user's in the four blocks that a split makes of b.
Places(f, K, b, q, L, then, else, tail) ==
  [c \in DOMAIN f.code \cup {then, else, tail} |->
     IF c \in {then, else} THEN <<K[b][q]>>
     ELSE IF c = tail THEN [j \in 1 .. L - q + 2 |-> K[b][q + j - 1]] ELSE K[c]]

\* The user's instructions are still done in their order when a block is split.
LEMMA SplitFollows ==
  ASSUME NEW f, NEW top, WellFormed(f, top), NEW g, NEW M, WellFormed(g, M),
         NEW b, NEW q, NEW L, NEW cond, NEW then, NEW else, NEW tail,
         IsSplit(f, g, b, q, L, cond, then, else, tail), q <= L,
         NEW O, NEW K, Follows(f, O, K)
  PROVE  Follows(g, Origins(f, O, b, then, else, tail), Places(f, K, b, q, L, then, else, tail))
<1>. DEFINE P == Origins(f, O, b, then, else, tail)
            J == Places(f, K, b, q, L, then, else, tail)
            old == DOMAIN f.code
            Right(h, X, Y, c, e, br) ==
              LET code == fn.code[X[c]]
                  end == Y[c][e]
              IN  IF br.user THEN end = Len(code) + 1 /\ br = fn.br[X[c]]
                  ELSE /\ br.to # << >>
                       /\ \A d \in ToSet(br.to) : d \notin DOMAIN fn.code /\ X[d] = X[c] /\ Y[d][1] = end
            Goes(h, X, Y, c) ==
              /\ X[c] \in DOMAIN fn.code
              /\ \A j \in DOMAIN h.code[c] :
                   /\ Y[c][j] \in DOMAIN fn.code[X[c]]
                   /\ IF Hidden(h.code[c][j]) THEN Y[c][j + 1] = Y[c][j]
                      ELSE Y[c][j + 1] = Y[c][j] + 1 /\ fn.code[X[c]][Y[c][j]].name = h.code[c][j].name
            Fine(h, X, Y, c) ==
              /\ Goes(h, X, Y, c)
              /\ Right(h, X, Y, c, Len(h.code[c]) + 1, h.br[c])
<1>1. /\ b \in old /\ L \in Nat /\ DOMAIN f.code[b] = 1 .. L /\ q \in 1 .. L
      /\ {then, else, tail} \cap old = {} /\ then # else /\ then # tail /\ else # tail
      /\ DOMAIN g.code = old \cup {then, else, tail}
      /\ g.br[b].to = <<then, else>> /\ g.br[tail] = f.br[b]
      /\ \A c \in {then, else} : g.br[c].to = <<tail>> /\ DOMAIN g.code[c] = {}
      /\ \A c \in {b, then, else} : ~g.br[c].user
      /\ DOMAIN g.code[b] = 1 .. q - 1
      /\ \A k \in 1 .. q - 1 : g.code[b][k].name = f.code[b][k].name
      /\ DOMAIN g.code[tail] = 1 .. L - q + 1
      /\ \A k \in 1 .. L - q + 1 : g.code[tail][k].name = f.code[b][q + k - 1].name
      /\ \A c \in old \ {b} :
           /\ g.br[c] = f.br[c] /\ DOMAIN g.code[c] = DOMAIN f.code[c]
           /\ \A k \in DOMAIN f.code[c] : g.code[c][k].name = f.code[c][k].name
  BY DEF IsSplit, Moved, Alike
<1>2. /\ \A c \in {then, else, tail} : P[c] = O[b]
      /\ \A c \in old : P[c] = O[c] /\ J[c] = K[c]
      /\ J[then][1] = K[b][q] /\ J[else][1] = K[b][q]
      /\ \A j \in 1 .. L - q + 2 : J[tail][j] = K[b][q + j - 1]
  <2>1. /\ \A c \in {then, else, tail} : P[c] = O[b]
        /\ \A c \in old : P[c] = O[c]
    BY <1>1 DEF Origins
  <2>2. /\ \A c \in old : J[c] = K[c]
        /\ J[then] = <<K[b][q]>> /\ J[else] = <<K[b][q]>>
        /\ J[tail] = [j \in 1 .. L - q + 2 |-> K[b][q + j - 1]]
    BY <1>1 DEF Places
  <2>. HIDE DEF P, J
  <2>3. J[then][1] = K[b][q] /\ J[else][1] = K[b][q]
    BY <2>2
  <2>4. \A j \in 1 .. L - q + 2 : J[tail][j] = K[b][q + j - 1]
    BY <2>2
  <2>. QED  BY <2>1, <2>2, <2>3, <2>4
<1>3. /\ \A c \in DOMAIN fn.code : c \in old /\ O[c] = c /\ K[c][1] = 1
      /\ \A c \in old : Fine(f, O, K, c)
  BY DEF Follows
<1>4. ASSUME NEW c \in old PROVE ToSet(f.br[c].to) \subseteq old
  <2>1. f.br[c].to \in Seq(old)
    BY DEF WellFormed, IsBr
  <2>. QED  BY <2>1 DEF ToSet
<1>. HIDE DEF P, J, old
<1>5. /\ Len(f.code[b]) = L /\ Len(g.code[b]) = q - 1 /\ Len(g.code[tail]) = L - q + 1
      /\ Len(g.code[then]) = 0 /\ Len(g.code[else]) = 0
      /\ \A c \in old \ {b} : Len(g.code[c]) = Len(f.code[c])
  <2>1. q - 1 \in Nat /\ L - q + 1 \in Nat /\ 0 \in Nat /\ 1 .. 0 = {}
    BY <1>1
  <2>2. Len(f.code[b]) = L
    BY <1>1, LengthIs DEF old
  <2>3. b \in DOMAIN g.code /\ tail \in DOMAIN g.code /\ then \in DOMAIN g.code /\ else \in DOMAIN g.code
    BY <1>1
  <2>7. ASSUME NEW c \in DOMAIN g.code, NEW m \in Nat, DOMAIN g.code[c] = 1 .. m PROVE Len(g.code[c]) = m
    BY <2>7, LengthIs
  <2>4. Len(g.code[b]) = q - 1 /\ Len(g.code[tail]) = L - q + 1
    <3>1. DOMAIN g.code[b] = 1 .. q - 1 /\ DOMAIN g.code[tail] = 1 .. L - q + 1
      BY <1>1
    <3>. QED  BY <2>1, <2>3, <2>7, <3>1
  <2>5. Len(g.code[then]) = 0 /\ Len(g.code[else]) = 0
    <3>1. DOMAIN g.code[then] = 1 .. 0 /\ DOMAIN g.code[else] = 1 .. 0
      BY <1>1, <2>1
    <3>. QED  BY <2>1, <2>3, <2>7, <3>1
  <2>6. ASSUME NEW c \in old \ {b} PROVE Len(g.code[c]) = Len(f.code[c])
    <3>1. Len(f.code[c]) \in Nat /\ DOMAIN f.code[c] = 1 .. Len(f.code[c])
      BY CodeIs DEF old
    <3>2. DOMAIN g.code[c] = 1 .. Len(f.code[c]) /\ c \in DOMAIN g.code
      BY <1>1, <3>1
    <3>. QED  BY <3>1, <3>2, LengthIs
  <2>. QED  BY <2>2, <2>4, <2>5, <2>6
<1>6. ToSet(<<then, else>>) = {then, else} /\ ToSet(<<tail>>) = {tail}
  <2>1. DOMAIN <<then, else>> = {1, 2} /\ DOMAIN <<tail>> = {1}
    OBVIOUS
  <2>. QED  BY <2>1 DEF ToSet
<1>7. Fine(g, P, J, b)
  <2>1. Fine(f, O, K, b)
    BY <1>1, <1>3
  <2>9. Goes(f, O, K, b)
    <3>. HIDE DEF Goes, Right
    <3>. QED  BY <2>1
  <2>2. ASSUME NEW j \in DOMAIN g.code[b]
        PROVE  /\ J[b][j] \in DOMAIN fn.code[P[b]]
               /\ IF Hidden(g.code[b][j]) THEN J[b][j + 1] = J[b][j]
                  ELSE J[b][j + 1] = J[b][j] + 1 /\ fn.code[P[b]][J[b][j]].name = g.code[b][j].name
    <3>1. j \in 1 .. q - 1 /\ j \in 1 .. L
      BY <1>1
    <3>2. g.code[b][j].name = f.code[b][j].name /\ (Hidden(g.code[b][j]) <=> Hidden(f.code[b][j]))
      BY <1>1, <3>1 DEF Hidden
    <3>3. P[b] = O[b] /\ J[b] = K[b] /\ j \in DOMAIN f.code[b]
      BY <1>1, <1>2, <3>1
    <3>. QED  BY <2>9, <3>2, <3>3
  <2>3. \A d \in {then, else} : d \notin DOMAIN fn.code /\ P[d] = P[b] /\ J[d][1] = J[b][q]
    BY <1>1, <1>2, <1>3
  <2>4. Len(g.code[b]) + 1 = q
    BY <1>1, <1>5
  <2>5. g.br[b].to # << >>
    <3>1. DOMAIN <<then, else>> # DOMAIN << >>
      OBVIOUS
    <3>. QED  BY <1>1, <3>1
  <2>6. ~g.br[b].user /\ ToSet(g.br[b].to) = {then, else}
    BY <1>1, <1>6
  <2>7. Right(g, P, J, b, Len(g.code[b]) + 1, g.br[b])
    BY <2>3, <2>4, <2>5, <2>6
  <2>8. P[b] \in DOMAIN fn.code
    BY <1>1, <1>2, <2>1
  <2>. HIDE DEF Right
  <2>. QED  BY <2>2, <2>7, <2>8, Zenon
<1>8. ASSUME NEW c \in {then, else} PROVE Fine(g, P, J, c)
  <2>1. Len(g.code[c]) + 1 = 1 /\ DOMAIN g.code[c] = {}
    BY <1>1, <1>5
  <2>2. ~g.br[c].user /\ g.br[c].to = <<tail>> /\ <<tail>> # << >> /\ ToSet(g.br[c].to) = {tail}
    BY <1>1, <1>6
  <2>3. tail \notin DOMAIN fn.code /\ P[tail] = P[c] /\ J[tail][1] = J[c][1]
    <3>1. 1 \in 1 .. L - q + 2 /\ q + 1 - 1 = q
      BY <1>1
    <3>. QED  BY <1>1, <1>2, <1>3, <3>1
  <2>4. P[c] \in DOMAIN fn.code
    BY <1>1, <1>2, <1>3
  <2>. QED  BY <2>1, <2>2, <2>3, <2>4
<1>9. Fine(g, P, J, tail)
  <2>1. Fine(f, O, K, b)
    BY <1>1, <1>3
  <2>9. Goes(f, O, K, b)
    <3>. HIDE DEF Goes, Right
    <3>. QED  BY <2>1
  <2>2. ASSUME NEW j \in DOMAIN g.code[tail]
        PROVE  /\ J[tail][j] \in DOMAIN fn.code[P[tail]]
               /\ IF Hidden(g.code[tail][j]) THEN J[tail][j + 1] = J[tail][j]
                  ELSE J[tail][j + 1] = J[tail][j] + 1 /\ fn.code[P[tail]][J[tail][j]].name = g.code[tail][j].name
    <3>. DEFINE l == q + j - 1
    <3>1. j \in 1 .. L - q + 1 /\ j \in 1 .. L - q + 2 /\ j + 1 \in 1 .. L - q + 2 /\ l \in 1 .. L /\ q + (j + 1) - 1 = l + 1
      BY <1>1
    <3>2. J[tail][j] = K[b][l] /\ J[tail][j + 1] = K[b][l + 1]
      BY <1>2, <3>1
    <3>3. g.code[tail][j].name = f.code[b][l].name
      BY <1>1, <3>1
    <3>. HIDE DEF l
    <3>4. Hidden(g.code[tail][j]) <=> Hidden(f.code[b][l])
      BY <3>3 DEF Hidden
    <3>5. P[tail] = O[b] /\ l \in DOMAIN f.code[b]
      BY <1>1, <1>2, <3>1
    <3>. QED  BY <2>9, <3>2, <3>3, <3>4, <3>5
  <2>3. J[tail][L - q + 2] = K[b][L + 1] /\ Len(g.code[tail]) + 1 = L - q + 2
    <3>1. L - q + 2 \in 1 .. L - q + 2 /\ q + (L - q + 2) - 1 = L + 1 /\ L - q + 1 + 1 = L - q + 2
      BY <1>1
    <3>. QED  BY <1>2, <1>5, <3>1
  <2>4. \A d \in ToSet(f.br[b].to) : P[d] = O[d] /\ J[d] = K[d]
    BY <1>1, <1>2, <1>4
  <2>5. Right(f, O, K, b, L + 1, f.br[b])
    BY <1>5, <2>1
  <2>6. P[tail] = O[b] /\ g.br[tail] = f.br[b] /\ P[tail] \in DOMAIN fn.code
    BY <1>1, <1>2, <2>1
  <2>7. Right(g, P, J, tail, Len(g.code[tail]) + 1, g.br[tail])
    BY <2>3, <2>4, <2>5, <2>6
  <2>. HIDE DEF Right
  <2>. QED  BY <2>2, <2>6, <2>7, Zenon
<1>10. ASSUME NEW c \in old, c # b PROVE Fine(g, P, J, c)
  <2>1. Fine(f, O, K, c)
    BY <1>3
  <2>2. /\ DOMAIN g.code[c] = DOMAIN f.code[c] /\ Len(g.code[c]) = Len(f.code[c]) /\ g.br[c] = f.br[c]
        /\ \A k \in DOMAIN f.code[c] : g.code[c][k].name = f.code[c][k].name
        /\ P[c] = O[c] /\ J[c] = K[c]
    BY <1>1, <1>2, <1>5, <1>10
  <2>3. \A d \in ToSet(f.br[c].to) : P[d] = O[d] /\ J[d] = K[d]
    BY <1>2, <1>4
  <2>. QED  BY <2>1, <2>2, <2>3 DEF Hidden
<1>11. \A c \in DOMAIN g.code : Fine(g, P, J, c)
  <2>. HIDE DEF Fine
  <2>. QED  BY <1>1, <1>7, <1>8, <1>9, <1>10
<1>12. \A c \in DOMAIN fn.code : c \in DOMAIN g.code /\ P[c] = c /\ J[c][1] = 1
  <2>1. \A c \in DOMAIN fn.code : c \in old /\ O[c] = c /\ K[c][1] = 1
    BY <1>3
  <2>. QED  BY <1>1, <1>2, <2>1
<1>. QED  BY <1>11, <1>12 DEF Follows, P, J

\* What goes on to a block is a block.
LEMMA PredsAre ==
  ASSUME NEW f, NEW top, WellFormed(f, top), NEW b
  PROVE  Preds(f, b) \subseteq DOMAIN f.code
BY DEF Preds, WellFormed

\* The entries of a PHI of a block are for the blocks before it.
LEMMA PhisAre ==
  ASSUME NEW f, NEW top, WellFormed(f, top), OperandsDominate(f), NEW b \in DOMAIN f.code, NEW j \in DOMAIN f.code[b],
         f.code[b][j].op = "phi"
  PROVE  DOMAIN f.code[b][j].in = Preds(f, b) /\ \A l \in 1 .. j : f.code[b][l].op = "phi"
<1>1. Fits(f, b, j)
  BY DominateIs DEF WellFormed
<1>. QED  BY <1>1 DEF Fits, PhiFits

\* A PHI whose entry for b is for tail now.
LEMMA MovedPhi ==
  ASSUME NEW i, NEW k, NEW b, NEW tail, Moved(i, k, b, tail), i.op = "phi", tail \notin DOMAIN i.in
  PROVE  /\ b \notin DOMAIN i.in => DOMAIN k.in = DOMAIN i.in /\ \A p \in DOMAIN i.in : k.in[p] = i.in[p]
         /\ \A p \in DOMAIN k.in : \E o \in DOMAIN i.in : k.in[p] = i.in[o] /\ (p = o \/ (p = tail /\ o = b))
<1>1. /\ DOMAIN k.in = {IF p = b THEN tail ELSE p : p \in DOMAIN i.in}
      /\ \A p \in DOMAIN i.in : k.in[IF p = b THEN tail ELSE p] = i.in[p]
  BY DEF Moved
<1>2. ASSUME b \notin DOMAIN i.in PROVE DOMAIN k.in = DOMAIN i.in /\ \A p \in DOMAIN i.in : k.in[p] = i.in[p]
  <2>1. \A p \in DOMAIN i.in : (IF p = b THEN tail ELSE p) = p
    BY <1>2
  <2>. QED  BY <1>1, <2>1
<1>. QED  BY <1>1, <1>2

\* An addition that is limited stays so when a block is split before an fadd.
LEMMA SplitClamps ==
  ASSUME NEW f, NEW top, WellFormed(f, top), NEW g, NEW M, WellFormed(g, M),
         NEW b, NEW q, NEW L, NEW cond, NEW then, NEW else, NEW tail,
         IsSplit(f, g, b, q, L, cond, then, else, tail), q > 1, q <= L, f.code[b][q].op = "fadd",
         NEW t \in DOMAIN f.code, NEW x, NEW y, NEW h, Clamps(f, t, x, y, h), f.code[t][1].op = "phi", 1 \in DOMAIN f.code[t]
  PROVE  Clamps(g, t, x, y, IF h = b THEN tail ELSE h)
<1>. DEFINE old == DOMAIN f.code
            m == Len(f.code[h])
            k == IF h = b THEN tail ELSE h
            w == Len(g.code[k])
            in == f.code[t][1].in
<1>0. L \in Nat /\ q \in 1 .. L
  BY DEF IsSplit
<1>1. /\ b \in old /\ DOMAIN f.code[b] = 1 .. L
      /\ {then, else, tail} \cap old = {} /\ then # else /\ then # tail /\ else # tail
      /\ DOMAIN g.code = old \cup {then, else, tail}
      /\ g.br[tail] = f.br[b]
      /\ DOMAIN g.code[tail] = 1 .. L - q + 1
      /\ \A c \in old \ {b} : g.br[c] = f.br[c] /\ DOMAIN g.code[c] = DOMAIN f.code[c]
  BY DEF IsSplit
<1>2. /\ \A l \in 1 .. q - 1 : Moved(f.code[b][l], g.code[b][l], b, tail)
      /\ \A l \in 1 .. L - q + 1 : Moved(f.code[b][q + l - 1], g.code[tail][l], b, tail)
      /\ \A c \in old \ {b} : \A l \in DOMAIN f.code[c] : Moved(f.code[c][l], g.code[c][l], b, tail)
  BY DEF IsSplit
<1>3. /\ {x, y, h} \subseteq old /\ x # y
      /\ DOMAIN in = {x, y} /\ in[x] = Num(Limit) /\ m > 1 /\ in[y] = Val(f.code[h][m - 1].name)
      /\ \A c \in {x, y} : DOMAIN f.code[c] = {} /\ Preds(f, c) = {h} /\ f.br[c].to = <<t>> /\ ~f.br[c].user
      /\ f.br[h].to = <<x, y>> /\ f.br[h].cond = Val(f.code[h][m].name) /\ ~f.br[h].user
      /\ f.code[h][m].op = "ogt" /\ Hidden(f.code[h][m]) /\ Hidden(f.code[h][m - 1])
  BY DEF Clamps
<1>4. x # b /\ y # b /\ tail \notin {x, y}
  <2>1. DOMAIN f.code[b] # {}
    BY <1>0, <1>1
  <2>. QED  BY <1>1, <1>3, <2>1
<1>5. Moved(f.code[t][1], g.code[t][1], b, tail)
  <2>1. CASE t = b
    <3>1. 1 \in 1 .. q - 1
      BY <1>0
    <3>. QED  BY <1>2, <2>1, <3>1
  <2>2. CASE t # b
    BY <1>2, <2>2
  <2>. QED  BY <2>1, <2>2
<1>6. DOMAIN g.code[t][1].in = {x, y} /\ \A p \in {x, y} : g.code[t][1].in[p] = in[p]
  <2>1. tail \notin DOMAIN in /\ b \notin DOMAIN in
    BY <1>3, <1>4
  <2>. QED  BY <1>3, <1>5, <2>1, MovedPhi
<1>7. /\ w > 1 /\ w \in Nat /\ m \in Nat
      /\ g.code[k][w].name = f.code[h][m].name /\ g.code[k][w].op = f.code[h][m].op
      /\ g.code[k][w - 1].name = f.code[h][m - 1].name
  <2>0. DOMAIN f.code[h] = 1 .. m /\ m \in Nat
    BY <1>3, CodeIs
  <2>1. CASE h # b
    <3>1. DOMAIN g.code[h] = 1 .. m /\ h \in DOMAIN g.code /\ k = h
      BY <1>1, <1>3, <2>0, <2>1
    <3>2. w = m
      BY <2>0, <3>1, LengthIs
    <3>3. m \in DOMAIN f.code[h] /\ m - 1 \in DOMAIN f.code[h]
      BY <1>3, <2>0
    <3>4. Moved(f.code[h][m], g.code[h][m], b, tail) /\ Moved(f.code[h][m - 1], g.code[h][m - 1], b, tail)
      BY <1>2, <1>3, <2>1, <3>3
    <3>. HIDE DEF w, m
    <3>. QED  BY <1>3, <2>0, <3>1, <3>2, <3>4 DEF Moved, Alike
  <2>2. CASE h = b
    <3>1. m = L
      BY <1>0, <1>1, <2>0, <2>2, SameLength
    <3>2. k = tail /\ w = L - q + 1
      <4>1. L - q + 1 \in Nat /\ k = tail /\ tail \in DOMAIN g.code
        BY <1>0, <1>1, <2>2
      <4>2. Len(g.code[tail]) = L - q + 1
        BY <1>1, <4>1, LengthIs
      <4>. QED  BY <4>1, <4>2
    <3>. HIDE DEF m, w, k
    <3>3. q # L
      BY <1>3, <2>2, <3>1
    <3>4. w \in 1 .. L - q + 1 /\ w - 1 \in 1 .. L - q + 1 /\ q + w - 1 = m /\ q + (w - 1) - 1 = m - 1 /\ w > 1 /\ w \in Nat
      BY <1>0, <3>1, <3>2, <3>3
    <3>5. Moved(f.code[b][q + w - 1], g.code[tail][w], b, tail) /\ Moved(f.code[b][q + (w - 1) - 1], g.code[tail][w - 1], b, tail)
      BY <1>2, <3>4
    <3>6. Moved(f.code[h][m], g.code[k][w], b, tail) /\ Moved(f.code[h][m - 1], g.code[k][w - 1], b, tail)
      BY <2>2, <3>2, <3>4, <3>5
    <3>. QED  BY <2>0, <3>4, <3>6 DEF Moved, Alike
  <2>. QED  BY <2>1, <2>2
<1>8. g.br[k] = f.br[h] /\ k \in DOMAIN g.code /\ {x, y} \subseteq DOMAIN g.code
  BY <1>1, <1>3
<1>9. \A c \in {x, y} : DOMAIN g.code[c] = {} /\ g.br[c] = f.br[c]
  BY <1>1, <1>3, <1>4
<1>10. ASSUME NEW c \in {x, y} PROVE Preds(g, c) = {k}
  <2>1. /\ ToSet(g.br[b].to) = {then, else} /\ ToSet(g.br[tail].to) = ToSet(f.br[b].to)
        /\ ToSet(g.br[then].to) = {tail} /\ ToSet(g.br[else].to) = {tail}
        /\ \A d \in old : d # b => ToSet(g.br[d].to) = ToSet(f.br[d].to)
    <3>1. SplitEnds(f, g, b, then, else, tail)
      BY SplitSuccessors
    <3>. QED  BY <3>1 DEF SplitEnds
  <2>2. Preds(f, c) = {h} /\ c \notin {then, else, tail}
    BY <1>1, <1>3
  <2>3. DOMAIN f.br = old /\ DOMAIN g.br = old \cup {then, else, tail}
    BY <1>1 DEF WellFormed
  <2>4. \A p \in old : c \in ToSet(f.br[p].to) <=> p = h
    BY <2>2, <2>3 DEF Preds
  <2>. HIDE DEF m, w, in, old
  <2>5. ASSUME NEW p \in old, p # b PROVE c \in ToSet(g.br[p].to) <=> p = k
    <3>1. c \in ToSet(g.br[p].to) <=> p = h
      BY <2>1, <2>4, <2>5
    <3>2. p # tail
      BY <1>1, <2>5
    <3>. QED  BY <2>5, <3>1, <3>2
  <2>6. c \notin ToSet(g.br[b].to) /\ b # k
    BY <1>1, <2>1, <2>2
  <2>7. c \in ToSet(g.br[tail].to) <=> tail = k
    <3>1. c \in ToSet(g.br[tail].to) <=> b = h
      BY <1>1, <2>1, <2>4
    <3>2. h # tail
      BY <1>1, <1>3
    <3>. QED  BY <3>1, <3>2
  <2>8. \A p \in {then, else} : c \notin ToSet(g.br[p].to) /\ p # k
    BY <1>1, <1>3, <2>1, <2>2
  <2>9. \A p \in old \cup {then, else, tail} : c \in ToSet(g.br[p].to) <=> p = k
    BY <2>5, <2>6, <2>7, <2>8
  <2>10. k \in DOMAIN g.br
    BY <1>1, <1>3, <2>3
  <2>. HIDE DEF k
  <2>. QED  BY <2>3, <2>9, <2>10 DEF Preds
<1>. HIDE DEF m, w, k, in
<1>. QED  BY <1>3, <1>6, <1>7, <1>8, <1>9, <1>10, Zenon DEF Clamps, w, k, Hidden

\* What the instructions mean stays when a block is split before an fadd.
LEMMA SplitMeans ==
  ASSUME NEW f, NEW top, WellFormed(f, top), OperandsDominate(f), NEW g, NEW M, WellFormed(g, M),
         NEW b, NEW q, NEW L, NEW cond, NEW then, NEW else, NEW tail,
         IsSplit(f, g, b, q, L, cond, then, else, tail), q > 1, q <= L, f.code[b][q].op = "fadd",
         NEW O, NEW K, NEW d, NEW before, NEW after, Means(f, O, K, d, before, after)
  PROVE  Means(g, Origins(f, O, b, then, else, tail), Places(f, K, b, q, L, then, else, tail), d, before, after)
<1>. DEFINE P == Origins(f, O, b, then, else, tail)
            J == Places(f, K, b, q, L, then, else, tail)
            old == DOMAIN f.code
            S(i) == IF i.name \in d THEN before ELSE after
<1>0. L \in Nat /\ q \in 1 .. L /\ q - 1 \in Nat
  BY DEF IsSplit
<1>1. /\ b \in old /\ DOMAIN f.code[b] = 1 .. L
      /\ {then, else, tail} \cap old = {} /\ then # else /\ then # tail /\ else # tail
      /\ DOMAIN g.code = old \cup {then, else, tail}
      /\ \A c \in {then, else} : DOMAIN g.code[c] = {}
      /\ DOMAIN g.code[b] = 1 .. q - 1
      /\ DOMAIN g.code[tail] = 1 .. L - q + 1
      /\ \A c \in old \ {b} : DOMAIN g.code[c] = DOMAIN f.code[c]
  BY DEF IsSplit
<1>2. /\ \A l \in 1 .. q - 1 : Moved(f.code[b][l], g.code[b][l], b, tail)
      /\ \A l \in 1 .. L - q + 1 : Moved(f.code[b][q + l - 1], g.code[tail][l], b, tail)
      /\ \A c \in old \ {b} : \A l \in DOMAIN f.code[c] : Moved(f.code[c][l], g.code[c][l], b, tail)
  BY DEF IsSplit
<1>3. /\ \A c \in {then, else, tail} : P[c] = O[b]
      /\ \A c \in old : P[c] = O[c] /\ J[c] = K[c]
      /\ J[tail] = [j \in 1 .. L - q + 2 |-> K[b][q + j - 1]]
  <2>1. /\ \A c \in {then, else, tail} : P[c] = O[b]
        /\ \A c \in old : P[c] = O[c]
    BY <1>1 DEF Origins
  <2>2. /\ \A c \in old : J[c] = K[c]
        /\ J[tail] = [j \in 1 .. L - q + 2 |-> K[b][q + j - 1]]
    BY <1>1 DEF Places
  <2>. QED  BY <2>1, <2>2
<1>. HIDE DEF P, J
<1>4. ASSUME NEW c \in old, NEW j \in DOMAIN f.code[c], f.code[c][j].op = "phi"
      PROVE  DOMAIN f.code[c][j].in \subseteq old /\ tail \notin DOMAIN f.code[c][j].in
  BY <1>1, <1>4, PhisAre, PredsAre
\* An instruction that was at j of a block, and is at l of one.
<1>5. ASSUME NEW c \in old, NEW j \in DOMAIN f.code[c], NEW e \in DOMAIN g.code, NEW l \in DOMAIN g.code[e],
             Moved(f.code[c][j], g.code[e][l], b, tail), Behind(f, c, j, g, e, l),
             f.code[c][j].op = "phi" => c = e /\ j = l
      PROVE  Meaning(g, P, e, l, fn.code[O[c]][K[c][j]], S(g.code[e][l]))
  <2>. DEFINE i == f.code[c][j]
              k == g.code[e][l]
              u == fn.code[O[c]][K[c][j]]
  <2>1. Meaning(f, O, c, j, u, S(i))
    BY DEF Means
  <2>2. Alike(i, k) /\ S(k) = S(i)
    BY <1>5 DEF Moved, Alike
  <2>3. i.op = "phi" => \A p \in DOMAIN k.in : \E o \in DOMAIN i.in : k.in[p] = i.in[o] /\ P[p] = O[o]
    <3>. SUFFICES ASSUME i.op = "phi", NEW p \in DOMAIN k.in
                  PROVE  \E o \in DOMAIN i.in : k.in[p] = i.in[o] /\ P[p] = O[o]
      OBVIOUS
    <3>1. DOMAIN i.in \subseteq old /\ tail \notin DOMAIN i.in
      BY <1>4
    <3>2. PICK o \in DOMAIN i.in : k.in[p] = i.in[o] /\ (p = o \/ (p = tail /\ o = b))
      <4>. HIDE DEF i, k
      <4>1. Moved(i, k, b, tail)
        BY <1>5 DEF i, k
      <4>. QED  BY <3>1, <4>1, MovedPhi
    <3>. QED  BY <1>3, <3>1, <3>2
  <2>4. \A x, y, h \in old : f.code[c][j].op = "phi" /\ j = 1 /\ Clamps(f, c, x, y, h) =>
          {x, y} \subseteq DOMAIN g.code /\ \E m \in DOMAIN g.code : Clamps(g, e, x, y, m)
    <3>. SUFFICES ASSUME NEW x \in old, NEW y \in old, NEW h \in old,
                         f.code[c][1].op = "phi", 1 \in DOMAIN f.code[c], c = e, Clamps(f, c, x, y, h)
                  PROVE  \E m \in DOMAIN g.code : Clamps(g, e, x, y, m)
      BY <1>1, <1>5
    <3>1. Clamps(g, c, x, y, IF h = b THEN tail ELSE h)
      BY SplitClamps
    <3>2. (IF h = b THEN tail ELSE h) \in DOMAIN g.code
      BY <1>1
    <3>. QED  BY <3>1, <3>2
  <2>5. j = 1 /\ i.op = "phi" => l = 1
    BY <1>5
  <2>6. i.op = "phi" /\ c \in DOMAIN fn.code =>
          e = c /\ \A p \in DOMAIN g.code[e][l].in : \E o \in DOMAIN i.in : g.code[e][l].in[p] = i.in[o] /\ P[p] = O[o]
    BY <1>5, <2>3
  <2>. HIDE DEF u, S
  <2>7. Meaning(g, P, e, l, u, S(i))
    BY <1>5, <2>1, <2>2, <2>4, <2>5, <2>6, Kept
  <2>. QED  BY <2>2, <2>7 DEF u
<1>6. ASSUME NEW l \in DOMAIN g.code[b] PROVE Meaning(g, P, b, l, fn.code[P[b]][J[b][l]], S(g.code[b][l]))
  <2>1. l \in 1 .. q - 1 /\ l \in DOMAIN f.code[b] /\ (l > 1 => l - 1 \in 1 .. q - 1)
    BY <1>0, <1>1
  <2>2. Moved(f.code[b][l], g.code[b][l], b, tail) /\ (l > 1 => Alike(f.code[b][l - 1], g.code[b][l - 1]))
    BY <1>2, <2>1 DEF Moved
  <2>3. Behind(f, b, l, g, b, l)
    BY <2>2 DEF Behind, Alike
  <2>4. P[b] = O[b] /\ J[b] = K[b] /\ b \in DOMAIN g.code /\ b \in old
    BY <1>1, <1>3
  <2>. HIDE DEF S, old
  <2>. QED  BY <1>5, <2>1, <2>2, <2>3, <2>4
<1>7. ASSUME NEW c \in old, c # b, NEW l \in DOMAIN g.code[c]
      PROVE  Meaning(g, P, c, l, fn.code[P[c]][J[c][l]], S(g.code[c][l]))
  <2>1. DOMAIN f.code[c] = 1 .. Len(f.code[c]) /\ Len(f.code[c]) \in Nat
    BY CodeIs
  <2>2. l \in DOMAIN f.code[c] /\ (l > 1 => l - 1 \in DOMAIN f.code[c])
    BY <1>1, <1>7, <2>1
  <2>3. Moved(f.code[c][l], g.code[c][l], b, tail) /\ (l > 1 => Alike(f.code[c][l - 1], g.code[c][l - 1]))
    BY <1>2, <1>7, <2>2 DEF Moved
  <2>4. Behind(f, c, l, g, c, l)
    BY <2>3 DEF Behind, Alike
  <2>5. P[c] = O[c] /\ J[c] = K[c] /\ c \in DOMAIN g.code
    BY <1>1, <1>3
  <2>. HIDE DEF S, old
  <2>. QED  BY <1>5, <2>2, <2>3, <2>4, <2>5
<1>8. ASSUME NEW l \in DOMAIN g.code[tail] PROVE Meaning(g, P, tail, l, fn.code[P[tail]][J[tail][l]], S(g.code[tail][l]))
  <2>. DEFINE j == q + l - 1
  <2>1. /\ l \in 1 .. L - q + 1 /\ l \in 1 .. L - q + 2 /\ j \in 1 .. L /\ j >= q /\ (l = 1 => j = q)
        /\ (l # 1 => l > 1 /\ l - 1 \in 1 .. L - q + 1 /\ q + (l - 1) - 1 = j - 1)
    BY <1>0, <1>1
  <2>2. J[tail][l] = K[b][j]
    BY <1>3, <2>1
  <2>3. Moved(f.code[b][j], g.code[tail][l], b, tail)
    BY <1>2, <2>1
  <2>. HIDE DEF j
  <2>4. Behind(f, b, j, g, tail, l)
    <3>1. CASE l = 1
      <4>1. f.code[b][j].op = "fadd"
        BY <2>1, <3>1
      <4>. QED  BY <4>1 DEF Behind
    <3>2. CASE l # 1
      <4>1. Moved(f.code[b][j - 1], g.code[tail][l - 1], b, tail)
        BY <1>2, <2>1, <3>2
      <4>. QED  BY <2>1, <3>2, <4>1 DEF Behind, Moved, Alike
    <3>. QED  BY <3>1, <3>2
  <2>5. f.code[b][j].op # "phi"
    <3>. SUFFICES ASSUME f.code[b][j].op = "phi" PROVE FALSE
      OBVIOUS
    <3>1. q \in 1 .. j
      BY <1>0, <2>1
    <3>2. f.code[b][q].op = "phi"
      BY <1>1, <2>1, <3>1, PhisAre
    <3>. QED  BY <3>2
  <2>6. P[tail] = O[b] /\ tail \in DOMAIN g.code /\ b \in old /\ j \in DOMAIN f.code[b]
    BY <1>1, <1>3, <2>1
  <2>. HIDE DEF S, old
  <2>. QED  BY <1>5, <2>2, <2>3, <2>4, <2>5, <2>6
<1>9. ASSUME NEW c \in DOMAIN g.code, NEW l \in DOMAIN g.code[c]
      PROVE  Meaning(g, P, c, l, fn.code[P[c]][J[c][l]], S(g.code[c][l]))
  <2>1. c \in old \/ c = tail \/ DOMAIN g.code[c] = {}
    BY <1>1
  <2>. HIDE DEF S, old
  <2>. QED  BY <1>6, <1>7, <1>8, <2>1
<1>. QED  BY <1>9 DEF Means, P, J

-----------------------------------------------------------------------------
(* What each tool makes of what the instructions mean.                     *)

\* What is replaced does the work of one of the user's instructions.
LEMMA UserIs ==
  ASSUME NEW f, NEW O, NEW b, NEW q, NEW u, NEW s, Meaning(f, O, b, q, u, s)
  PROVE  LET i == f.code[b][q] IN
         /\ i.op = "fadd" => /\ u.op = "fadd" /\ OperationAfter(s) = "fadd" /\ i.x = u.x /\ i.y = u.y
                             /\ ~Hidden(i) => ~ClampedAfter(s)
         /\ i.op \in Equality => i = u
         /\ i.op \in {"add", "sub"} /\ i.y[1] = "int" => IsOffset(u) /\ OffsetOf(i, u, s)
<1>. DEFINE i == f.code[b][q]
<1>1. i.op = "fadd" => u.op = "fadd"
  <2>. SUFFICES ASSUME i.op = "fadd", u.op # "fadd" PROVE FALSE
    OBVIOUS
  <2>1. CASE u.op = "phi"
    BY <2>1 DEF Meaning, PhiOf
  <2>2. CASE u.op \in Equality
    <3>1. NewPredicate[u.op] \in {"olt", "ult", "oge", "uge"}
      BY <2>2 DEF NewPredicate, Equality
    <3>2. CompareOf(f, b, q, u, s)
      BY <2>2 DEF Meaning
    <3>. QED  BY <3>1, <3>2 DEF CompareOf
  <2>3. CASE IsOffset(u)
    BY <2>3 DEF Meaning, OffsetOf, IsOffset
  <2>. QED  BY <2>1, <2>2, <2>3 DEF Meaning
<1>2. ASSUME i.op = "fadd"
      PROVE  OperationAfter(s) = "fadd" /\ i.x = u.x /\ i.y = u.y /\ (~Hidden(i) => ~ClampedAfter(s))
  <2>1. SumOf(f, b, q, u, s)
    BY <1>1, <1>2 DEF Meaning
  <2>. QED  BY <1>2, <2>1 DEF SumOf
<1>3. ASSUME i.op \in Equality PROVE i = u
  <2>1. CASE u.op \in {"phi", "fadd"}
    <3>1. i.op \in {"phi", "ogt"} \cup {OperationAfter(s)}
      BY <2>1 DEF Meaning, PhiOf, SumOf
    <3>. QED  BY <1>3, <3>1, OperationIs DEF Equality
  <2>2. CASE u.op \in Equality
    <3>1. NewPredicate[u.op] \in {"olt", "ult", "oge", "uge"}
      BY <2>2 DEF NewPredicate, Equality
    <3>2. CompareOf(f, b, q, u, s)
      BY <2>2 DEF Meaning
    <3>. QED  BY <1>3, <3>1, <3>2 DEF CompareOf, Equality
  <2>3. CASE IsOffset(u)
    BY <1>3, <2>3 DEF Meaning, OffsetOf, IsOffset, Equality
  <2>. QED  BY <2>1, <2>2, <2>3 DEF Meaning
<1>4. ASSUME i.op \in {"add", "sub"}, i.y[1] = "int" PROVE IsOffset(u) /\ OffsetOf(i, u, s)
  <2>1. CASE u.op \in {"phi", "fadd"}
    <3>1. i.op \in {"phi", "ogt"} \cup {OperationAfter(s)}
      BY <2>1 DEF Meaning, PhiOf, SumOf
    <3>. QED  BY <1>4, <3>1, OperationIs
  <2>2. CASE u.op \in Equality
    <3>1. NewPredicate[u.op] \in {"olt", "ult", "oge", "uge"}
      BY <2>2 DEF NewPredicate, Equality
    <3>2. CompareOf(f, b, q, u, s)
      BY <2>2 DEF Meaning
    <3>. QED  BY <1>4, <2>2, <3>1, <3>2 DEF CompareOf, Equality
  <2>3. CASE ~IsOffset(u) /\ u.op \notin {"phi", "fadd"} \cup Equality
    <3>1. i = u
      BY <2>3 DEF Meaning
    <3>. QED  BY <1>4, <2>3, <3>1 DEF IsOffset
  <2>. QED  BY <2>1, <2>2, <2>3 DEF Meaning
<1>. QED  BY <1>1, <1>2, <1>3, <1>4

\* An instruction that takes the place of one.
LEMMA OneMeans ==
  ASSUME fn \in Functions, NEW f, f.last \in Nat, WellFormed(f, f.last), NEW i \in Insts(f), i.op \in Replaced,
         NEW j, j.name = i.name, i.op = "fadd" => j.op \in {"fadd", "fsub", "hook", "phi"},
         NEW g, g = ReplaceInst(f, i.name, <<j>>), WellFormed(g, g.last),
         NEW O, NEW K, NEW d, NEW before, NEW after, Follows(f, O, K), Means(f, O, K, d, before, after), i.name \in d,
         \A b, q : \A u \in Insts(fn) : f.code[b][q] = i /\ g.code[b][q] = j /\ Meaning(f, O, b, q, u, before) => Meaning(g, O, b, q, u, after)
  PROVE  \E J : Follows(g, O, J) /\ Means(g, O, J, d \ {i.name}, before, after)
<1>1. PICK b \in DOMAIN f.code : \E k \in 1 .. Len(f.code[b]) : f.code[b][k] = i
  BY PlaceIs
<1>2. PICK q \in 1 .. Len(f.code[b]) : f.code[b][q] = i
  BY <1>1
<1>. DEFINE s == <<j>>
            L == Len(f.code[b])
            r == 1
            J == Widened(f, K, b, q, L, r)
            e == d \ {i.name}
<1>3. s \in Seq({j}) /\ Len(s) = r /\ s[1] = j /\ r > 0
  OBVIOUS
<1>. HIDE DEF s
<1>4. InPlace(f, g, b, q, L, s, r)
  <2>1. InPlace(f, ReplaceInst(f, f.code[b][q].name, s), b, q, L, s, Len(s))
    BY <1>3, ReplacedAt
  <2>. QED  BY <1>2, <1>3, <2>1 DEF s
<1>5. s[r].name = f.code[b][q].name /\ \A k \in 1 .. r - 1 : Hidden(s[k])
  BY <1>2, <1>3
<1>6. q + r - 1 = q /\ g.code[b][q] = j /\ q \in DOMAIN f.code[b]
  <2>1. L \in Nat /\ DOMAIN f.code[b] = 1 .. L
    BY CodeIs
  <2>2. q \in q .. q + r - 1 /\ q - q + 1 = 1 /\ q + r - 1 = q
    BY <2>1
  <2>. QED  BY <1>3, <1>4, <2>1, <2>2 DEF InPlace
<1>. HIDE DEF L
<1>7. Follows(g, O, J)
  BY <1>3, <1>4, <1>5, ReplaceFollows
<1>8. Means(g, O, J, e, before, after)
  <2>. DEFINE u == fn.code[O[b]][K[b][q]]
  <2>1. Meaning(f, O, b, q, u, before)
    BY <1>2, <1>6 DEF Means
  <2>2. Meaning(g, O, b, q, u, after)
    <3>2. O[b] \in DOMAIN fn.code /\ K[b][q] \in DOMAIN fn.code[O[b]]
      BY <1>6 DEF Follows
    <3>3. u \in Insts(fn)
      BY <3>2, InstsAre
    <3>. QED  BY <1>2, <1>6, <2>1, <3>3
  <2>. HIDE DEF u
  <2>3. ASSUME NEW k \in 1 .. r
        PROVE  Meaning(g, O, b, q + k - 1, u, IF s[k].name \in e THEN before ELSE after)
    <3>1. k = 1 /\ q + k - 1 = q /\ s[k].name \notin e
      BY <1>2, <1>3
    <3>. QED  BY <2>2, <3>1
  <2>4. \A n : n # s[r].name /\ (\E k \in Insts(f) : k.name = n) => (n \in d <=> n \in e)
    BY <1>3
  <2>5. f.code[b][q].op \in Replaced /\ (f.code[b][q].op = "fadd" => s[r].op \in {"fadd", "fsub", "hook", "phi"})
    BY <1>2, <1>3
  <2>. HIDE DEF r, e, J
  <2>. QED  BY <1>3, <1>4, <1>5, <2>3, <2>4, <2>5, ReplaceMeans DEF J, u
<1>. QED  BY <1>7, <1>8

\* work1 and work3 rename the fadd.
LEMMA SubMeans ==
  ASSUME fn \in Functions, NEW f, f.last \in Nat, WellFormed(f, f.last), NEW i \in Insts(f), i.op = "fadd",
         NEW t \in {"work1", "work3"}, NEW s \in Seq(Tool),
         NEW O, NEW K, NEW d, Follows(f, O, K), Means(f, O, K, d, s, Append(s, t)), i.name \in d
  PROVE  LET g == Replacement(t, f, i.name)
         IN  g.last = f.last /\ \E J : Follows(g, O, J) /\ Means(g, O, J, d \ {i.name}, s, Append(s, t))
<1>. DEFINE op == IF t = "work1" THEN "fsub" ELSE "hook"
            j == [i EXCEPT !.op = op]
            g == Replacement(t, f, i.name)
            after == Append(s, t)
<1>1. IsInst(i) /\ InstOf(f, i.name) = i
  BY PlaceIs, CodeIs, InstsAre
<1>2. IsInst(j) /\ j.name = i.name /\ j.op = op /\ j.x = i.x /\ j.y = i.y
  BY <1>1 DEF IsInst
<1>3. g = ReplaceInst(f, i.name, <<j>>)
  BY <1>1 DEF Replacement, SubFAdd, HookFAdd
<1>4. WellFormed(g, g.last) /\ g.last = f.last
  <2>1. t \in Tool /\ Target(t, i)
    BY DEF Tool, Target
  <2>2. WellFormed(g, g.last)
    BY <2>1, ReplacementIs DEF Rewritten
  <2>3. g.last = f.last
    BY <1>3 DEF ReplaceInst, WellFormed
  <2>. QED  BY <2>2, <2>3
<1>5. OperationAfter(s) = "fadd" => OperationAfter(after) = op /\ (ClampedAfter(after) <=> ClampedAfter(s))
  <2>1. t \in Tool
    BY DEF Tool
  <2>. QED  BY <2>1, OperationThen, ClampedThen
<1>. HIDE DEF j, g, after
<1>6. ASSUME NEW b, NEW q, NEW u \in Insts(fn), f.code[b][q] = i, g.code[b][q] = j, Meaning(f, O, b, q, u, s)
      PROVE  Meaning(g, O, b, q, u, after)
  <2>1. /\ u.op = "fadd" /\ OperationAfter(s) = "fadd" /\ i.x = u.x /\ i.y = u.y
        /\ ~Hidden(i) => ~ClampedAfter(s)
    BY <1>6, UserIs
  <2>2. (Hidden(j) <=> Hidden(i)) /\ op # "phi"
    BY <1>2 DEF Hidden
  <2>3. SumOf(g, b, q, u, after)
    BY <1>2, <1>5, <1>6, <2>1, <2>2 DEF SumOf
  <2>. QED  BY <2>1, <2>3 DEF Meaning, IsOffset, Equality
<1>7. i.op \in Replaced /\ j.op \in {"fadd", "fsub", "hook", "phi"}
  BY <1>2 DEF Replaced
<1>. HIDE DEF op
<1>9. j.name = i.name
  BY <1>2
<1>10. Means(f, O, K, d, s, after)
  BY DEF after
<1>11. \A b, q : \A u \in Insts(fn) : f.code[b][q] = i /\ g.code[b][q] = j /\ Meaning(f, O, b, q, u, s) =>
         Meaning(g, O, b, q, u, after)
  BY <1>6
<1>8. \E J : Follows(g, O, J) /\ Means(g, O, J, d \ {i.name}, s, after)
  BY <1>3, <1>4, <1>7, <1>9, <1>10, <1>11, OneMeans
<1>. QED  BY <1>4, <1>8 DEF g, after

\* parsetest turns the constant.
LEMMA NegateMeans ==
  ASSUME fn \in Functions, \A u \in Insts(fn) : IsOffset(u) => u.y[2] \in 0 .. Word - 1,
         NEW f, f.last \in Nat, WellFormed(f, f.last), NEW i \in Insts(f), i.op \in {"add", "sub"}, i.y[1] = "int",
         NEW s \in Seq(Tool),
         NEW O, NEW K, NEW d, Follows(f, O, K), Means(f, O, K, d, s, Append(s, "parsetest")), i.name \in d
  PROVE  LET g == Replacement("parsetest", f, i.name)
         IN  g.last = f.last /\ \E J : Follows(g, O, J) /\ Means(g, O, J, d \ {i.name}, s, Append(s, "parsetest"))
<1>. DEFINE c == Integer(Turned(i.y[2]))
            j == [i EXCEPT !.y = c]
            g == Replacement("parsetest", f, i.name)
            after == Append(s, "parsetest")
<1>1. IsInst(i) /\ InstOf(f, i.name) = i
  BY PlaceIs, CodeIs, InstsAre
<1>2. DOMAIN i = {"name", "op", "x", "y"}
  BY <1>1 DEF IsInst
<1>3. g = ReplaceInst(f, i.name, <<j>>)
  BY <1>1, <1>2 DEF Replacement, NegateConstant, Turned
<1>. HIDE DEF c
<1>4. j.name = i.name /\ j.op = i.op /\ j.x = i.x /\ j.y = c
  BY <1>2
<1>5. WellFormed(g, g.last) /\ g.last = f.last
  <2>1. "parsetest" \in Tool /\ Target("parsetest", i)
    BY DEF Tool, Target
  <2>2. WellFormed(g, g.last)
    BY <2>1, ReplacementIs DEF Rewritten
  <2>3. g.last = f.last
    BY <1>3 DEF ReplaceInst, WellFormed
  <2>. QED  BY <2>2, <2>3
<1>. HIDE DEF j, g, after
<1>6. ASSUME NEW b, NEW q, NEW u \in Insts(fn), f.code[b][q] = i, g.code[b][q] = j, Meaning(f, O, b, q, u, s)
      PROVE  Meaning(g, O, b, q, u, after)
  <2>1. IsOffset(u) /\ OffsetOf(i, u, s)
    BY <1>6, UserIs
  <2>2. u.y[2] \in 0 .. Word - 1
    BY <1>6, <2>1
  <2>3. OffsetOf(j, u, after)
    BY <1>4, <2>1, <2>2, OffsetThen DEF c, after
  <2>. QED  BY <1>6, <2>1, <2>3 DEF Meaning, IsOffset, Equality
<1>7. i.op \in Replaced /\ i.op # "fadd"
  BY DEF Replaced
<1>8. \E J : Follows(g, O, J) /\ Means(g, O, J, d \ {i.name}, s, after)
  BY <1>3, <1>4, <1>5, <1>6, <1>7, OneMeans DEF after
<1>. QED  BY <1>5, <1>8 DEF g, after

\* Only the code and the terminators matter.
LEMMA SameMeans ==
  ASSUME NEW f, NEW g, g.code = f.code, g.br = f.br, NEW O, NEW K
  PROVE  /\ Follows(f, O, K) => Follows(g, O, K)
         /\ \A d, before, after : Means(f, O, K, d, before, after) => Means(g, O, K, d, before, after)
<1>1. Follows(f, O, K) => Follows(g, O, K)
  BY DEF Follows
<1>2. \A b, t, x, h : Clamps(f, b, t, x, h) <=> Clamps(g, b, t, x, h)
  BY DEF Clamps, Preds
<1>3. \A b, j, op : After(f, b, j, op) <=> After(g, b, j, op)
  BY DEF After
<1>4. \A b, j, u, s : SumOf(f, b, j, u, s) <=> SumOf(g, b, j, u, s)
  BY <1>2, <1>3 DEF SumOf
<1>5. \A b, j, u, s : CompareOf(f, b, j, u, s) <=> CompareOf(g, b, j, u, s)
  BY <1>3 DEF CompareOf
<1>6. \A b, j, u, s : Meaning(f, O, b, j, u, s) => Meaning(g, O, b, j, u, s)
  BY <1>4, <1>5 DEF Meaning
<1>7. \A d, before, after : Means(f, O, K, d, before, after) => Means(g, O, K, d, before, after)
  BY <1>6 DEF Means
<1>. QED  BY <1>1, <1>7

\* convert_fcmp_eq puts the difference and its absolute value before the comparison.
LEMMA ConvertMeans ==
  ASSUME fn \in Functions, ~fn.optnone, NEW f, f.last \in Nat, fn.last \in Nat, fn.last <= f.last, WellFormed(f, f.last),
         NEW i \in Insts(f), i.op \in Equality, NEW s \in Seq(Tool),
         NEW O, NEW K, NEW d, Follows(f, O, K), Means(f, O, K, d, s, Append(s, "convert_fcmp_eq")), i.name \in d
  PROVE  LET g == Replacement("convert_fcmp_eq", f, i.name)
         IN  /\ g.last = f.last + 2
             /\ \E J : Follows(g, O, J) /\ Means(g, O, J, d \ {i.name}, s, Append(s, "convert_fcmp_eq"))
<1>. DEFINE g == Replacement("convert_fcmp_eq", f, i.name)
            after == Append(s, "convert_fcmp_eq")
            e == d \ {i.name}
            r == 3
<1>1. g = ConvertFCmpEqInstruction(f, i.name)
  BY DEF Replacement
<1>2. g.last = f.last + 2 /\ Converting(f, i, g)
  BY <1>1, ConvertIs
<1>3. ConvertedAfter(after)
  BY ConvertedThen DEF Tool
<1>. HIDE DEF g, after
<1>4. PICK h, b, q, N, m :
        /\ WellFormed(h, f.last + 2) /\ f.code[b][q] = i /\ InPlace(f, h, b, q, N, m, 3)
        /\ m[1].name = f.last + 1 /\ m[1].op = "fsub" /\ m[1].x = i.x /\ m[1].y = i.y
        /\ m[2].name = f.last + 2 /\ m[2].op = "abs" /\ m[2].x = Val(f.last + 1)
        /\ m[3].name = i.name /\ m[3].op = NewPredicate[i.op] /\ m[3].x = Val(f.last + 2) /\ m[3].y = Num(Epsilon)
        /\ g.code = h.code /\ g.br = h.br
  BY <1>2 DEF Converting
<1>. DEFINE J == Widened(f, K, b, q, N, r)
            M == f.last + 2
            u == fn.code[O[b]][K[b][q]]
<1>5. InPlace(f, h, b, q, N, m, r) /\ WellFormed(h, M) /\ r > 0 /\ m[r].name = f.code[b][q].name
  BY <1>4
<1>6. Hidden(m[1]) /\ Hidden(m[2])
  BY <1>4 DEF Hidden
<1>7. \A k \in 1 .. r - 1 : Hidden(m[k])
  <2>1. \A k \in 1 .. r - 1 : k = 1 \/ k = 2
    OBVIOUS
  <2>. QED  BY <1>6, <2>1
<1>8. b \in DOMAIN f.code /\ q \in DOMAIN f.code[b] /\ N \in Nat /\ q \in 1 .. N
  BY <1>4 DEF InPlace
<1>9. i = u
  <2>1. Meaning(f, O, b, q, u, IF i.name \in d THEN s ELSE after)
    BY <1>4, <1>8 DEF Means, after
  <2>. HIDE DEF u
  <2>. QED  BY <1>4, <2>1, UserIs
<1>10. h.code[b][q] = m[1] /\ h.code[b][q + 1] = m[2] /\ h.code[b][q + 2] = m[3]
  <2>1. q \in q .. q + 3 - 1 /\ q + 1 \in q .. q + 3 - 1 /\ q + 2 \in q .. q + 3 - 1
    BY <1>8
  <2>2. q - q + 1 = 1 /\ q + 1 - q + 1 = 2 /\ q + 2 - q + 1 = 3
    BY <1>8
  <2>. QED  BY <1>4, <2>1, <2>2 DEF InPlace
<1>11. ~Hidden(i)
  <2>1. u \in Insts(fn)
    <3>1. O[b] \in DOMAIN fn.code /\ K[b][q] \in DOMAIN fn.code[O[b]]
      BY <1>8 DEF Follows
    <3>. QED  BY <3>1, InstsAre
  <2>2. u.name \in 1 .. fn.last
    <3>1. WellFormed(fn, fn.last)
      BY FunctionsAssumption
    <3>. QED  BY <2>1, <3>1, CodeIs, InstsAre
  <2>. QED  BY <1>9, <2>2 DEF Hidden
<1>. HIDE DEF u, M
<1>12. u.op \in Equality /\ ~IsOffset(u) /\ u.op \notin {"phi", "fadd"}
  BY <1>9 DEF Equality, IsOffset
<1>13. \A p : Meaning(h, O, b, q, u, p)
  <2>1. \A p : CompareOf(h, b, q, u, p)
    BY <1>4, <1>6, <1>9, <1>10 DEF CompareOf
  <2>. QED  BY <1>12, <2>1 DEF Meaning
<1>14. \A p : Meaning(h, O, b, q + 1, u, p)
  <2>1. After(h, b, q + 1, "fsub")
    <3>1. q + 1 > 1 /\ (q + 1) - 1 = q
      BY <1>8
    <3>. QED  BY <1>4, <1>6, <1>10, <3>1 DEF After
  <2>2. \A p : CompareOf(h, b, q + 1, u, p)
    BY <1>4, <1>6, <1>10, <2>1 DEF CompareOf
  <2>. QED  BY <1>12, <2>2 DEF Meaning
<1>15. Meaning(h, O, b, q + 2, u, after)
  <2>1. After(h, b, q + 2, "abs")
    <3>1. q + 2 > 1 /\ (q + 2) - 1 = q + 1
      BY <1>8
    <3>. QED  BY <1>4, <1>6, <1>10, <3>1 DEF After
  <2>2. ~Hidden(m[3])
    BY <1>4, <1>11 DEF Hidden
  <2>3. CompareOf(h, b, q + 2, u, after)
    BY <1>3, <1>4, <1>9, <1>10, <2>1, <2>2 DEF CompareOf, after
  <2>. QED  BY <1>12, <2>3 DEF Meaning
<1>16. Follows(h, O, J)
  BY <1>5, <1>7, ReplaceFollows
<1>17. Means(h, O, J, e, s, after)
  <2>1. ASSUME NEW k \in 1 .. r
        PROVE  Meaning(h, O, b, q + k - 1, u, IF m[k].name \in e THEN s ELSE after)
    <3>1. CASE k = 1
      <4>1. q + k - 1 = q
        BY <1>8, <3>1
      <4>. QED  BY <1>13, <4>1
    <3>2. CASE k = 2
      <4>1. q + k - 1 = q + 1
        BY <1>8, <3>2
      <4>. QED  BY <1>14, <4>1
    <3>3. CASE k = 3
      <4>1. q + k - 1 = q + 2 /\ m[k].name \notin e
        BY <1>4, <1>8, <3>3
      <4>. QED  BY <1>15, <4>1
    <3>. QED  BY <3>1, <3>2, <3>3
  <2>2. \A n : n # m[r].name /\ (\E k \in Insts(f) : k.name = n) => (n \in d <=> n \in e)
    BY <1>4
  <2>3. f.code[b][q].op \in Replaced /\ f.code[b][q].op # "fadd"
    BY <1>4 DEF Replaced, Equality
  <2>4. Means(f, O, K, d, s, after)
    BY DEF after
  <2>. HIDE DEF r, e, J
  <2>. QED  BY <1>5, <2>1, <2>2, <2>3, <2>4, ReplaceMeans DEF J, u
<1>18. Follows(g, O, J) /\ Means(g, O, J, e, s, after)
  BY <1>4, <1>16, <1>17, SameMeans
<1>. QED  BY <1>2, <1>18 DEF g, after

\* The two blocks of a split follow the first half alone.
LEMMA SplitPreds ==
  ASSUME NEW f, NEW top, WellFormed(f, top), NEW g, NEW M, WellFormed(g, M),
         NEW b, NEW q, NEW L, NEW cond, NEW then, NEW else, NEW tail,
         IsSplit(f, g, b, q, L, cond, then, else, tail)
  PROVE  Preds(g, then) = {b} /\ Preds(g, else) = {b}
<1>1. /\ ToSet(g.br[b].to) = {then, else} /\ ToSet(g.br[tail].to) = ToSet(f.br[b].to)
      /\ ToSet(g.br[then].to) = {tail} /\ ToSet(g.br[else].to) = {tail}
      /\ \A p \in DOMAIN f.code : p # b => ToSet(g.br[p].to) = ToSet(f.br[p].to)
  <2>1. SplitEnds(f, g, b, then, else, tail)
    BY SplitSuccessors
  <2>. QED  BY <2>1 DEF SplitEnds
<1>2. /\ b \in DOMAIN f.code /\ {then, else, tail} \cap DOMAIN f.code = {} /\ then # else /\ then # tail /\ else # tail
      /\ DOMAIN g.code = DOMAIN f.code \cup {then, else, tail}
  BY DEF IsSplit
<1>3. \A p \in DOMAIN f.code : ToSet(f.br[p].to) \subseteq DOMAIN f.code
  <2>1. \A p \in DOMAIN f.code : f.br[p].to \in Seq(DOMAIN f.code)
    BY DEF WellFormed, IsBr
  <2>. QED  BY <2>1 DEF ToSet
<1>4. DOMAIN g.br = DOMAIN g.code
  BY DEF WellFormed
<1>5. ASSUME NEW c \in {then, else} PROVE Preds(g, c) = {b}
  <2>1. \A p \in DOMAIN g.code : c \in ToSet(g.br[p].to) <=> p = b
    BY <1>1, <1>2, <1>3
  <2>. QED  BY <1>2, <1>4, <2>1 DEF Preds
<1>. QED  BY <1>5

\* The sum, its comparison and the PHI that takes one of the two values.
LEMMA ClampMeans ==
  ASSUME fn \in Functions, NEW f, f.last \in Nat, fn.last \in Nat, fn.last <= f.last, WellFormed(f, f.last),
         OperandsDominate(f), NEW i \in Insts(f), i.op = "fadd", NEW s \in Seq(Tool),
         NEW O, NEW K, NEW d, Follows(f, O, K), Means(f, O, K, d, s, Append(s, "work2")), i.name \in d
  PROVE  LET g == Replacement("work2", f, i.name)
         IN  /\ g.last = f.last + 5
             /\ \E P, J : Follows(g, P, J) /\ Means(g, P, J, d \ {i.name}, s, Append(s, "work2"))
<1>. DEFINE g == Replacement("work2", f, i.name)
            after == Append(s, "work2")
            e == d \ {i.name}
            r == 3
            A == f.last + 1
            B == f.last + 2
            then == f.last + 3
            else == f.last + 4
            tail == f.last + 5
            phi == ClampPhi(i.name, A, then, else)
<1>1. g = ClampFAdd(f, i.name)
  BY DEF Replacement
<1>2. g.last = f.last + 5 /\ Clamping(f, i, g)
  BY <1>1, ClampIs
<1>. HIDE DEF g
<1>4. PICK x, y, h, b, q, N, L, m, t :
        /\ WellFormed(x, B) /\ WellFormed(y, tail) /\ WellFormed(h, tail)
        /\ f.code[b][q] = i /\ InPlace(f, x, b, q, N, m, 3) /\ (OperandsDominate(f) => OperandsDominate(x))
        /\ m[1].name = A /\ m[1].op = "fadd" /\ m[1].x = i.x /\ m[1].y = i.y
        /\ m[2].name = B /\ m[2].op = "ogt" /\ m[2].x = Val(A) /\ m[2].y = Num(Limit)
        /\ m[3] = i
        /\ IsSplit(x, y, b, q + 2, N + 2, Val(B), then, else, tail)
        /\ y.code[tail][1] = i
        /\ InPlace(y, h, tail, 1, L, t, 1) /\ t[1] = phi
        /\ g.code = h.code /\ g.br = h.br
  BY <1>2 DEF Clamping
<1>5. A > fn.last /\ B > fn.last /\ A \in Nat /\ B \in Nat /\ tail \in Nat
  OBVIOUS
<1>6. then # else /\ then # tail /\ else # tail
  OBVIOUS
<1>7. /\ phi.name = i.name /\ phi.op = "phi" /\ DOMAIN phi.in = {then, else}
      /\ phi.in[then] = Num(Limit) /\ phi.in[else] = Val(A)
  BY <1>6 DEF ClampPhi
<1>. HIDE DEF A, B, then, else, tail, phi
<1>8. Hidden(m[1]) /\ Hidden(m[2])
  BY <1>4, <1>5 DEF Hidden
<1>9. b \in DOMAIN f.code /\ q \in DOMAIN f.code[b] /\ N \in Nat /\ q \in 1 .. N /\ b \in DOMAIN x.code
  BY <1>4 DEF InPlace
<1>10. x.code[b][q] = m[1] /\ x.code[b][q + 1] = m[2] /\ x.code[b][q + 2] = i
  <2>1. q \in q .. q + 3 - 1 /\ q + 1 \in q .. q + 3 - 1 /\ q + 2 \in q .. q + 3 - 1
    BY <1>9
  <2>2. q - q + 1 = 1 /\ q + 1 - q + 1 = 2 /\ q + 2 - q + 1 = 3
    BY <1>9
  <2>. QED  BY <1>4, <2>1, <2>2 DEF InPlace
\* The sum and the comparison are put before the instruction.
<1>. DEFINE J == Widened(f, K, b, q, N, r)
            u == fn.code[O[b]][K[b][q]]
<1>11. InPlace(f, x, b, q, N, m, r) /\ r > 0 /\ m[r].name = f.code[b][q].name
  BY <1>4
<1>12. \A k \in 1 .. r - 1 : Hidden(m[k])
  <2>1. \A k \in 1 .. r - 1 : k = 1 \/ k = 2
    OBVIOUS
  <2>. QED  BY <1>8, <2>1
<1>13. Follows(x, O, J)
  BY <1>4, <1>11, <1>12, ReplaceFollows
<1>. HIDE DEF u
<1>14. Meaning(f, O, b, q, u, s)
  BY <1>4, <1>9 DEF Means, u
<1>15. /\ u.op = "fadd" /\ OperationAfter(s) = "fadd" /\ i.x = u.x /\ i.y = u.y
       /\ ~Hidden(i) => ~ClampedAfter(s)
  BY <1>4, <1>14, UserIs
<1>16. OperationAfter(after) = "fadd" /\ ClampedAfter(after)
  BY <1>15, OperationThen, ClampedThen DEF Tool
<1>17. Means(f, O, K, d, s, after)
  OBVIOUS
<1>. HIDE DEF after
<1>18. \A g2, b2, j, p : SumOf(g2, b2, j, u, p) => Meaning(g2, O, b2, j, u, p)
  BY <1>15 DEF Meaning, IsOffset, Equality
<1>19. \A p \in {s, after} : Meaning(x, O, b, q, u, p) /\ Meaning(x, O, b, q + 1, u, p)
  <2>. TAKE p \in {s, after}
  <2>1. SumOf(x, b, q, u, p)
    BY <1>4, <1>8, <1>10, <1>15, <1>16 DEF SumOf
  <2>2. After(x, b, q + 1, "fadd")
    <3>1. q + 1 > 1 /\ (q + 1) - 1 = q
      BY <1>9
    <3>. QED  BY <1>4, <1>8, <1>10, <3>1 DEF After
  <2>3. SumOf(x, b, q + 1, u, p)
    BY <1>4, <1>8, <1>10, <2>2 DEF SumOf
  <2>. QED  BY <1>18, <2>1, <2>3
<1>20. Meaning(x, O, b, q + 2, u, s)
  <2>1. SumOf(x, b, q + 2, u, s)
    BY <1>10, <1>15 DEF SumOf
  <2>. QED  BY <1>18, <2>1
<1>21. Means(x, O, J, d, s, after)
  <2>1. ASSUME NEW k \in 1 .. r
        PROVE  Meaning(x, O, b, q + k - 1, u, IF m[k].name \in d THEN s ELSE after)
    <3>1. CASE k = 1
      <4>1. q + k - 1 = q
        BY <1>9, <3>1
      <4>. QED  BY <1>19, <4>1
    <3>2. CASE k = 2
      <4>1. q + k - 1 = q + 1
        BY <1>9, <3>2
      <4>. QED  BY <1>19, <4>1
    <3>3. CASE k = 3
      <4>1. q + k - 1 = q + 2 /\ m[k].name \in d
        BY <1>4, <1>9, <3>3
      <4>. QED  BY <1>20, <4>1
    <3>. QED  BY <3>1, <3>2, <3>3
  <2>3. f.code[b][q].op \in Replaced /\ m[r].op = "fadd"
    BY <1>4 DEF Replaced
  <2>. HIDE DEF r, J
  <2>. QED  BY <1>4, <1>11, <1>17, <2>1, <2>3, ReplaceMeans DEF J, u
<1>. HIDE DEF J, r
\* The block is split before the instruction.
<1>. DEFINE P == Origins(x, O, b, then, else, tail)
            H == Places(x, J, b, q + 2, N + 2, then, else, tail)
            v == fn.code[P[tail]][H[tail][1]]
            I == Widened(y, H, tail, 1, L, 1)
<1>22. /\ IsSplit(x, y, b, q + 2, N + 2, Val(B), then, else, tail) /\ q + 2 > 1 /\ q + 2 <= N + 2
       /\ x.code[b][q + 2].op = "fadd" /\ OperandsDominate(x)
  BY <1>4, <1>9, <1>10
<1>23. Follows(y, P, H) /\ Means(y, P, H, d, s, after)
  <2>1. Follows(y, P, H)
    <3>. DEFINE Q == q + 2
                R == N + 2
    <3>1. IsSplit(x, y, b, Q, R, Val(B), then, else, tail) /\ Q <= R
      BY <1>22
    <3>. HIDE DEF Q, R
    <3>2. Follows(y, P, Places(x, J, b, Q, R, then, else, tail))
      BY <1>4, <1>13, <3>1, SplitFollows
    <3>. QED  BY <3>2 DEF Q, R
  <2>2. Means(y, P, H, d, s, after)
    <3>. DEFINE Q == q + 2
                R == N + 2
    <3>1. IsSplit(x, y, b, Q, R, Val(B), then, else, tail) /\ Q > 1 /\ Q <= R /\ x.code[b][Q].op = "fadd"
      BY <1>22
    <3>. HIDE DEF Q, R
    <3>2. Means(y, P, Places(x, J, b, Q, R, then, else, tail), d, s, after)
      BY <1>4, <1>21, <1>22, <3>1, SplitMeans
    <3>. QED  BY <3>2 DEF Q, R
  <2>. QED  BY <2>1, <2>2
<1>. HIDE DEF P, H
\* The PHI takes its place.
<1>24. /\ h.br = y.br /\ DOMAIN h.code = DOMAIN y.code /\ \A c \in DOMAIN y.code : c # tail => h.code[c] = y.code[c]
       /\ h.code[tail][1] = phi /\ 1 \in DOMAIN y.code[tail] /\ tail \in DOMAIN y.code
  <2>1. L \in Nat /\ 1 \in 1 .. L /\ 1 \in 1 .. 1 + 1 - 1 /\ 1 - 1 + 1 = 1
    BY <1>4 DEF InPlace
  <2>. QED  BY <1>4, <2>1 DEF InPlace
<1>25. /\ DOMAIN y.code[b] = 1 .. q + 1 /\ y.code[b][q] = m[1] /\ y.code[b][q + 1] = m[2]
       /\ {then, else, tail} \cap DOMAIN x.code = {}
       /\ DOMAIN y.code = DOMAIN x.code \cup {then, else, tail}
       /\ y.br[b].to = <<then, else>> /\ y.br[b].cond = Val(B) /\ ~y.br[b].user
       /\ \A c \in {then, else} : y.br[c].to = <<tail>> /\ DOMAIN y.code[c] = {} /\ ~y.br[c].user
  <2>. DEFINE Q == q + 2
  <2>1. IsSplit(x, y, b, Q, N + 2, Val(B), then, else, tail)
    BY <1>4
  <2>2. q \in 1 .. Q - 1 /\ q + 1 \in 1 .. Q - 1 /\ Q - 1 = q + 1
    BY <1>9
  <2>. HIDE DEF Q
  <2>3. DOMAIN y.code[b] = 1 .. q + 1 /\ Moved(x.code[b][q], y.code[b][q], b, tail)
        /\ Moved(x.code[b][q + 1], y.code[b][q + 1], b, tail)
    BY <2>1, <2>2 DEF IsSplit
  <2>4. y.code[b][q] = m[1] /\ y.code[b][q + 1] = m[2]
    BY <1>4, <1>10, <2>3 DEF Moved, Alike
  <2>5. /\ {then, else, tail} \cap DOMAIN x.code = {}
        /\ DOMAIN y.code = DOMAIN x.code \cup {then, else, tail}
        /\ y.br[b].to = <<then, else>> /\ y.br[b].cond = Val(B)
        /\ \A c \in {then, else} : y.br[c].to = <<tail>> /\ DOMAIN y.code[c] = {}
        /\ \A c \in {b, then, else} : ~y.br[c].user
    BY <2>1 DEF IsSplit
  <2>. QED  BY <2>3, <2>4, <2>5
<1>26. \A c \in {then, else} : Preds(h, c) = {b}
  <2>. DEFINE Q == q + 2
              R == N + 2
  <2>1. IsSplit(x, y, b, Q, R, Val(B), then, else, tail)
    BY <1>22
  <2>. HIDE DEF Q, R
  <2>2. Preds(y, then) = {b} /\ Preds(y, else) = {b}
    BY <1>4, <2>1, SplitPreds
  <2>. QED  BY <1>24, <2>2 DEF Preds
<1>27. Clamps(h, tail, then, else, b)
  <2>. DEFINE k == Len(h.code[b])
  <2>1. b # tail /\ then # tail /\ else # tail /\ {b, then, else} \subseteq DOMAIN y.code
    BY <1>6, <1>9, <1>25
  <2>2. h.code[b] = y.code[b] /\ h.code[then] = y.code[then] /\ h.code[else] = y.code[else]
    BY <1>24, <2>1
  <2>3. k = q + 1 /\ k > 1 /\ k - 1 = q
    <3>1. q + 1 \in Nat /\ DOMAIN h.code[b] = 1 .. q + 1 /\ b \in DOMAIN h.code
      BY <1>9, <1>24, <1>25, <2>1, <2>2
    <3>2. k = q + 1
      BY <1>4, <3>1, LengthIs
    <3>. QED  BY <1>9, <3>2
  <2>4. /\ {then, else, b} \subseteq DOMAIN h.code
        /\ \A c \in {then, else} : DOMAIN h.code[c] = {} /\ Preds(h, c) = {b} /\ h.br[c].to = <<tail>> /\ ~h.br[c].user
        /\ h.br[b].to = <<then, else>> /\ h.br[b].cond = Val(B) /\ ~h.br[b].user
    BY <1>24, <1>25, <1>26, <2>1, <2>2
  <2>5. h.code[b][k] = m[2] /\ h.code[b][k - 1] = m[1]
    BY <1>25, <2>2, <2>3
  <2>. HIDE DEF k
  <2>6. /\ h.code[b][k].name = B /\ h.code[b][k].op = "ogt" /\ Hidden(h.code[b][k])
        /\ h.code[b][k - 1].name = A /\ Hidden(h.code[b][k - 1])
    BY <1>4, <1>8, <2>5
  <2>. QED  BY <1>6, <1>7, <1>24, <2>3, <2>4, <2>6 DEF Clamps, k
<1>28. InPlace(y, h, tail, 1, L, t, 1) /\ t[1].name = y.code[tail][1].name /\ y.code[tail][1] = i /\ t[1] = phi
  BY <1>4, <1>7
<1>29. Follows(h, P, I)
  <2>1. \A k \in 1 .. 1 - 1 : Hidden(t[k])
    OBVIOUS
  <2>. QED  BY <1>4, <1>23, <1>28, <2>1, ReplaceFollows
<1>. HIDE DEF v
<1>30. Meaning(y, P, tail, 1, v, s)
  BY <1>23, <1>24, <1>28 DEF Means, v
<1>31. Meaning(h, P, tail, 1, v, after)
  <2>1. v.op = "fadd"
    BY <1>28, <1>30, UserIs
  <2>2. {then, else, b} \subseteq DOMAIN h.code
    BY <1>27 DEF Clamps
  <2>3. SumOf(h, tail, 1, v, after)
    BY <1>7, <1>16, <1>24, <1>27, <2>2 DEF SumOf
  <2>. QED  BY <2>1, <2>3 DEF Meaning, IsOffset, Equality
<1>32. Means(h, P, I, e, s, after)
  <2>1. ASSUME NEW k \in 1 .. 1
        PROVE  Meaning(h, P, tail, 1 + k - 1, v, IF t[k].name \in e THEN s ELSE after)
    <3>1. k = 1 /\ 1 + k - 1 = 1 /\ t[k].name \notin e
      BY <1>7, <1>28
    <3>. QED  BY <1>31, <3>1
  <2>2. \A n : n # t[1].name /\ (\E k \in Insts(y) : k.name = n) => (n \in d <=> n \in e)
    BY <1>7, <1>28
  <2>3. y.code[tail][1].op \in Replaced /\ t[1].op = "phi"
    BY <1>7, <1>28 DEF Replaced
  <2>. HIDE DEF e, I
  <2>. QED  BY <1>4, <1>23, <1>28, <2>1, <2>2, <2>3, ReplaceMeans DEF I, v
<1>33. Follows(g, P, I) /\ Means(g, P, I, e, s, after)
  BY <1>4, <1>29, <1>32, SameMeans
<1>. QED  BY <1>2, <1>33 DEF g, after

\* What a tool does not collect means the same after it.
LEMMA Untouched ==
  ASSUME NEW s \in Seq(Tool), NEW t \in Tool, NEW f, NEW O, NEW b, NEW j, NEW u, Meaning(f, O, b, j, u, s),
         Skipped(t) \/ ~Target(t, f.code[b][j])
  PROVE  Meaning(f, O, b, j, u, Append(s, t))
<1>. DEFINE i == f.code[b][j]
            after == Append(s, t)
<1>1. /\ i.op = "fadd" => t \notin {"work1", "work2", "work3"}
      /\ i.op \in Equality => t # "convert_fcmp_eq" \/ fn.optnone
      /\ i.op \in {"add", "sub"} /\ i.y[1] = "int" => t # "parsetest"
  BY DEF Target, Skipped
<1>. HIDE DEF i
<1>2. ASSUME u.op = "fadd" PROVE SumOf(f, b, j, u, after)
  <2>1. SumOf(f, b, j, u, s)
    BY <1>2 DEF Meaning
  <2>2. /\ OperationAfter(after) =
             IF OperationAfter(s) # "fadd" THEN OperationAfter(s)
             ELSE IF t = "work1" THEN "fsub" ELSE IF t = "work3" THEN "hook" ELSE "fadd"
        /\ ClampedAfter(after) <=> ClampedAfter(s) \/ (t = "work2" /\ OperationAfter(s) = "fadd")
        /\ OperationAfter(s) # "phi"
    BY OperationThen, ClampedThen, OperationIs
  <2>. HIDE DEF after
  <2>3. i.op = OperationAfter(s) => OperationAfter(after) = OperationAfter(s)
    BY <1>1, <2>2
  <2>4. ~Hidden(i) => (i.op = "phi" <=> ClampedAfter(after))
    BY <1>1, <2>1, <2>2 DEF SumOf, i
  <2>. QED  BY <2>1, <2>3, <2>4 DEF SumOf, i
<1>3. ASSUME u.op \in Equality PROVE CompareOf(f, b, j, u, after)
  <2>1. CompareOf(f, b, j, u, s)
    BY <1>3 DEF Meaning
  <2>2. ConvertedAfter(after) <=> ConvertedAfter(s) \/ (t = "convert_fcmp_eq" /\ ~fn.optnone)
    BY ConvertedThen
  <2>. HIDE DEF after
  <2>. QED  BY <1>1, <1>3, <2>1, <2>2 DEF CompareOf, i
<1>4. ASSUME IsOffset(u) PROVE OffsetOf(i, u, after)
  <2>1. OffsetOf(i, u, s)
    BY <1>4 DEF Meaning, i
  <2>2. TurnsAfter(after) = IF t = "parsetest" THEN TurnsAfter(s) + 1 ELSE TurnsAfter(s)
    BY TurnsThen
  <2>3. i.op \in {"add", "sub"} /\ i.y[1] = "int"
    BY <1>4, <2>1 DEF OffsetOf, IsOffset, Integer
  <2>4. TurnsAfter(after) = TurnsAfter(s)
    BY <1>1, <2>2, <2>3
  <2>. QED  BY <2>1, <2>4 DEF OffsetOf
<1>. QED  BY <1>2, <1>3, <1>4 DEF Meaning, i

\* When a tool has collected its targets, all else means already what it will after the run.
LEMMA ParseMeans ==
  ASSUME NEW s \in Seq(Tool), NEW t \in Tool, NEW f, NEW top, WellFormed(f, top), NEW O, NEW K, NEW d,
         Means(f, O, K, {}, s, s), \A i \in Insts(f) : Skipped(t) \/ ~Target(t, i) \/ i.name \in d
  PROVE  Means(f, O, K, d, s, Append(s, t))
<1>1. ASSUME NEW b \in DOMAIN f.code, NEW j \in DOMAIN f.code[b]
      PROVE  Meaning(f, O, b, j, fn.code[O[b]][K[b][j]], IF f.code[b][j].name \in d THEN s ELSE Append(s, t))
  <2>. DEFINE u == fn.code[O[b]][K[b][j]]
  <2>1. Meaning(f, O, b, j, u, s)
    BY DEF Means
  <2>. HIDE DEF u
  <2>2. CASE f.code[b][j].name \in d
    BY <2>1, <2>2 DEF u
  <2>3. CASE f.code[b][j].name \notin d
    <3>1. f.code[b][j] \in Insts(f)
      BY InstsAre
    <3>2. Meaning(f, O, b, j, u, Append(s, t))
      BY <2>1, <2>3, <3>1, Untouched
    <3>. QED  BY <2>3, <3>2 DEF u
  <2>. QED  BY <2>2, <2>3
<1>. QED  BY <1>1 DEF Means

\* The user's function means itself.
LEMMA SelfMeans ==
  ASSUME fn \in Functions, \A u \in Insts(fn) : IsOffset(u) => u.y = Integer(u.y[2]) /\ u.y[2] \in Int
  PROVE  LET O == [b \in DOMAIN fn.code |-> b]
             K == [b \in DOMAIN fn.code |-> [j \in 1 .. Len(fn.code[b]) + 1 |-> j]]
         IN  Follows(fn, O, K) /\ Means(fn, O, K, {}, << >>, << >>)
<1>. DEFINE O == [b \in DOMAIN fn.code |-> b]
            K == [b \in DOMAIN fn.code |-> [j \in 1 .. Len(fn.code[b]) + 1 |-> j]]
<1>1. /\ fn.last \in Nat /\ WellFormed(fn, fn.last) /\ OperandsDominate(fn) /\ \A b \in DOMAIN fn.br : fn.br[b].user
  BY FunctionsAssumption DEF Valid
<1>2. ASSUME NEW b \in DOMAIN fn.code
      PROVE  /\ Len(fn.code[b]) \in Nat /\ DOMAIN fn.code[b] = 1 .. Len(fn.code[b]) /\ O[b] = b
             /\ \A j \in 1 .. Len(fn.code[b]) + 1 : K[b][j] = j
             /\ \A j \in 1 .. Len(fn.code[b]) : fn.code[b][j] \in Insts(fn) /\ ~Hidden(fn.code[b][j])
  <2>1. /\ Len(fn.code[b]) \in Nat /\ DOMAIN fn.code[b] = 1 .. Len(fn.code[b])
        /\ \A j \in 1 .. Len(fn.code[b]) : fn.code[b][j] \in Insts(fn) /\ fn.code[b][j].name \in 1 .. fn.last
    BY <1>1, CodeIs
  <2>2. \A j \in 1 .. Len(fn.code[b]) : ~Hidden(fn.code[b][j])
    BY <1>1, <2>1 DEF Hidden
  <2>3. K[b] = [j \in 1 .. Len(fn.code[b]) + 1 |-> j]
    OBVIOUS
  <2>. HIDE DEF K
  <2>. QED  BY <2>1, <2>2, <2>3
<1>. HIDE DEF O, K
<1>3. Follows(fn, O, K)
  <2>1. ASSUME NEW b \in DOMAIN fn.code
        PROVE  /\ O[b] \in DOMAIN fn.code
               /\ \A j \in DOMAIN fn.code[b] :
                    /\ K[b][j] \in DOMAIN fn.code[O[b]]
                    /\ K[b][j + 1] = K[b][j] + 1 /\ fn.code[O[b]][K[b][j]].name = fn.code[b][j].name
                    /\ ~Hidden(fn.code[b][j])
               /\ fn.br[b].user /\ K[b][Len(fn.code[b]) + 1] = Len(fn.code[O[b]]) + 1 /\ fn.br[b] = fn.br[O[b]]
               /\ K[b][1] = 1 /\ O[b] = b
    <3>1. \A j \in 1 .. Len(fn.code[b]) : j \in 1 .. Len(fn.code[b]) + 1 /\ j + 1 \in 1 .. Len(fn.code[b]) + 1
      BY <1>2
    <3>2. 1 \in 1 .. Len(fn.code[b]) + 1 /\ Len(fn.code[b]) + 1 \in 1 .. Len(fn.code[b]) + 1
      BY <1>2
    <3>3. fn.br[b].user
      BY <1>1 DEF WellFormed
    <3>4. O[b] = b /\ DOMAIN fn.code[b] = 1 .. Len(fn.code[b])
      BY <1>2
    <3>5. \A j \in DOMAIN fn.code[b] : K[b][j] = j /\ K[b][j + 1] = j + 1 /\ ~Hidden(fn.code[b][j])
      BY <1>2, <3>1, <3>4
    <3>6. K[b][1] = 1 /\ K[b][Len(fn.code[b]) + 1] = Len(fn.code[b]) + 1
      BY <1>2, <3>2
    <3>7. \A j \in DOMAIN fn.code[b] : K[b][j] \in DOMAIN fn.code[O[b]] /\ fn.code[O[b]][K[b][j]].name = fn.code[b][j].name
      BY <3>4, <3>5
    <3>8. \A j \in DOMAIN fn.code[b] : K[b][j + 1] = K[b][j] + 1
      BY <3>5
    <3>9. K[b][Len(fn.code[b]) + 1] = Len(fn.code[O[b]]) + 1 /\ fn.br[b] = fn.br[O[b]]
      BY <3>4, <3>6
    <3>. HIDE <1>2
    <3>. QED  BY <3>3, <3>4, <3>5, <3>6, <3>7, <3>8, <3>9
  <2>. QED  BY <2>1 DEF Follows
<1>4. Means(fn, O, K, {}, << >>, << >>)
  <2>1. ASSUME NEW b \in DOMAIN fn.code, NEW j \in DOMAIN fn.code[b]
        PROVE  Meaning(fn, O, b, j, fn.code[O[b]][K[b][j]], << >>)
    <3>. DEFINE i == fn.code[b][j]
    <3>1. j \in 1 .. Len(fn.code[b]) /\ j \in 1 .. Len(fn.code[b]) + 1 /\ i \in Insts(fn) /\ ~Hidden(i) /\ O[b] = b
      BY <1>2
    <3>2. fn.code[O[b]][K[b][j]] = i
      BY <1>2, <3>1
    <3>. DEFINE s == << >>
    <3>3. DOMAIN s = {}
      OBVIOUS
    <3>. HIDE DEF s, i
    <3>4. RenamedIn(s) = {} /\ OperationAfter(s) = "fadd" /\ ~ClampedAfter(s) /\ ~ConvertedAfter(s)
      BY <3>3 DEF RenamedIn, OperationAfter, ClampedAfter, ConvertedAfter, ToSet
    <3>5. TurnsAfter(s) = 0
      <4>1. {k \in DOMAIN s : s[k] = "parsetest"} = {}
        BY <3>3
      <4>. QED  BY <4>1, FS_EmptySet DEF TurnsAfter
    <3>6. i.op = "phi" => PhiOf(i, b, i, O)
      <4>1. ASSUME i.op = "phi" PROVE \A c \in DOMAIN i.in : O[c] = c
        <5>1. DOMAIN i.in \subseteq DOMAIN fn.code
          BY <1>1, <4>1, PhisAre, PredsAre DEF i
        <5>. QED  BY <1>2, <5>1
      <4>. QED  BY <3>1, <4>1 DEF PhiOf
    <3>7. i.op = "fadd" => SumOf(fn, b, j, i, s)
      BY <3>1, <3>4 DEF SumOf, i
    <3>8. i.op \in Equality => CompareOf(fn, b, j, i, s)
      BY <3>1, <3>4 DEF CompareOf, i
    <3>9. IsOffset(i) => OffsetOf(i, i, s)
      <4>1. SUFFICES ASSUME IsOffset(i) PROVE OffsetOf(i, i, s)
        OBVIOUS
      <4>2. i.y = Integer(i.y[2]) /\ i.y[2] \in Int
        BY <3>1, <4>1
      <4>3. TurnsAfter(s) % 2 = 0
        BY <3>5
      <4>. QED  BY <3>1, <3>5, <4>2, <4>3 DEF OffsetOf
    <3>10. Meaning(fn, O, b, j, i, s)
      BY <3>6, <3>7, <3>8, <3>9 DEF Meaning, i
    <3>. QED  BY <3>2, <3>10 DEF s
  <2>. QED  BY <2>1 DEF Means
<1>. QED  BY <1>3, <1>4 DEF O, K

-----------------------------------------------------------------------------
(* The types of the user's function.                                       *)

\* The operand o is of the type t.
Has(type, o, t) == IF o[1] = "val" THEN type[o[2]] = t ELSE o \in Values[t]
\* The instruction i is of the type t and its operands of theirs.
IsOf(type, i, t, operands) == type[i.name] = t /\ Has(type, i.x, operands) /\ Has(type, i.y, operands)

\* The types of the names of the user's function.
Typing(type) ==
  /\ type \in [fn.args \cup UNION {Names(fn, b) : b \in DOMAIN fn.code} -> DOMAIN Values]
  /\ \A n \in fn.args : type[n] = "number"
  /\ \A i \in Insts(fn) :
       \/ i.op = "phi" /\ \A p \in DOMAIN i.in : Has(type, i.in[p], type[i.name])
       \/ i.op \in {"fadd", "fsub", "hook", "abs"} /\ IsOf(type, i, "number", "number")
       \/ i.op \in DOMAIN Predicate /\ IsOf(type, i, "bool", "number")
       \/ i.op \in {"add", "sub"} /\ IsOf(type, i, "int", "int")

\* The user's function is well typed.
LEMMA TypingExists ==
  ASSUME fn \in Functions
  PROVE  \E type : Typing(type)
<1>1. WellTyped(fn)
  BY FunctionsAssumption
<1>2. PICK type \in [fn.args \cup UNION {Names(fn, b) : b \in DOMAIN fn.code} -> DOMAIN Values] :
        /\ \A n \in fn.args : type[n] = "number"
        /\ \A b \in DOMAIN fn.code : \A k \in DOMAIN fn.code[b] : LET i == fn.code[b][k] IN
             \/ i.op = "phi" /\ \A p \in DOMAIN i.in : Has(type, i.in[p], type[i.name])
             \/ i.op \in {"fadd", "fsub", "hook", "abs"} /\ IsOf(type, i, "number", "number")
             \/ i.op \in DOMAIN Predicate /\ IsOf(type, i, "bool", "number")
             \/ i.op \in {"add", "sub"} /\ IsOf(type, i, "int", "int")
  BY <1>1, Zenon DEF WellTyped, Has, IsOf
<1>3. ASSUME NEW i \in Insts(fn)
      PROVE  \/ i.op = "phi" /\ \A p \in DOMAIN i.in : Has(type, i.in[p], type[i.name])
             \/ i.op \in {"fadd", "fsub", "hook", "abs"} /\ IsOf(type, i, "number", "number")
             \/ i.op \in DOMAIN Predicate /\ IsOf(type, i, "bool", "number")
             \/ i.op \in {"add", "sub"} /\ IsOf(type, i, "int", "int")
  <2>1. \E b \in DOMAIN fn.code : \E k \in DOMAIN fn.code[b] : i = fn.code[b][k]
    BY InstsAre
  <2>. QED  BY <1>2, <2>1
<1>. QED  BY <1>2, <1>3 DEF Typing

\* An integer constant is one of the integer type.
LEMMA ConstantsAre ==
  ASSUME NEW type, Typing(type), NEW u \in Insts(fn), IsOffset(u)
  PROVE  u.y = Integer(u.y[2]) /\ u.y[2] \in 0 .. Word - 1
<1>1. u.op \in {"add", "sub"} /\ u.y[1] = "int"
  BY DEF IsOffset
<1>2. Has(type, u.y, "int")
  BY <1>1 DEF Typing, IsOf, Predicate
<1>3. u.y \in {Integer(v) : v \in 0 .. Word - 1}
  BY <1>1, <1>2 DEF Has, Values
<1>. QED  BY <1>3 DEF Integer

-----------------------------------------------------------------------------
(* The file and the module mean what the tools promise.                    *)

\* Invariant: the file does what the tools that ran promise, and so does the module but for
\* the instructions that its tool has collected and not replaced yet.
Mapped ==
  /\ fn.last <= file.last /\ fn.last <= module.last
  /\ \E f, s, O, K : f = file /\ s = ran /\ Follows(f, O, K) /\ Means(f, O, K, {}, s, s)
  /\ pc = "rewrite" =>
       \E f, d, s, r, O, K : /\ f = module /\ d = ToSet(todo) /\ s = ran /\ r = Append(ran, tool)
                             /\ Follows(f, O, K) /\ Means(f, O, K, d, s, r)

\* They speak of the user's function, which stays.
LEMMA FollowsStays ==
  ASSUME fn' = fn, NEW f, NEW O, NEW K, NEW d, NEW s, NEW r
  PROVE  (Follows(f, O, K)' <=> Follows(f, O, K)) /\ (Means(f, O, K, d, s, r)' <=> Means(f, O, K, d, s, r))
<1>1. Follows(f, O, K)' <=> Follows(f, O, K)
  BY DEF Follows, Hidden
<1>2. ASSUME NEW b, NEW j, NEW u, NEW q
      PROVE  Meaning(f, O, b, j, u, q)' <=> Meaning(f, O, b, j, u, q)
  <2>1. PhiOf(f.code[b][j], b, u, O)' <=> PhiOf(f.code[b][j], b, u, O)
    BY DEF PhiOf, Hidden
  <2>2. SumOf(f, b, j, u, q)' <=> SumOf(f, b, j, u, q)
    BY DEF SumOf, Hidden, After, Clamps
  <2>3. CompareOf(f, b, j, u, q)' <=> CompareOf(f, b, j, u, q)
    BY DEF CompareOf, Hidden, After, ConvertedAfter
  <2>4. OffsetOf(f.code[b][j], u, q)' <=> OffsetOf(f.code[b][j], u, q)
    BY DEF OffsetOf, Hidden
  <2>. QED  BY <2>1, <2>2, <2>3, <2>4 DEF Meaning
<1>3. Means(f, O, K, d, s, r)' <=> Means(f, O, K, d, s, r)
  BY <1>2 DEF Means
<1>. QED  BY <1>1, <1>3

\* Nothing has run: the function means itself.
LEMMA InitMapped == Init => Mapped
<1>. SUFFICES ASSUME Init PROVE Mapped
  OBVIOUS
<1>1. /\ fn \in Functions /\ file = fn /\ module = fn /\ ran = << >> /\ pc = "idle"
  BY DEF Init
<1>2. fn.last \in Nat
  BY <1>1, FunctionsAssumption
<1>3. PICK type : Typing(type)
  BY <1>1, TypingExists
<1>4. \A u \in Insts(fn) : IsOffset(u) => u.y = Integer(u.y[2]) /\ u.y[2] \in Int
  <2>1. ASSUME NEW u \in Insts(fn), IsOffset(u) PROVE u.y = Integer(u.y[2]) /\ u.y[2] \in 0 .. Word - 1
    BY <1>3, <2>1, ConstantsAre
  <2>. QED  BY <2>1
<1>5. \E O, K : Follows(fn, O, K) /\ Means(fn, O, K, {}, << >>, << >>)
  BY <1>1, <1>4, SelfMeans
<1>6. fn.last <= fn.last
  BY <1>2
<1>7. \E f, s, O, K : f = file /\ s = ran /\ Follows(f, O, K) /\ Means(f, O, K, {}, s, s)
  BY <1>1, <1>5
<1>. QED  BY <1>1, <1>6, <1>7 DEF Mapped

\* A tool begins.
LEMMA ParseMapped ==
  ASSUME FInv, Mapped, NEW t \in Tool, Parse(t)
  PROVE  Mapped'
<1>1. /\ pc = "idle" /\ pc' = "rewrite" /\ tool' = t /\ module' = file
      /\ todo' = FindInstsToConvert(t, file) /\ fn' = fn /\ file' = file /\ ran' = ran
  BY DEF Parse
<1>2. file.last \in Nat /\ WellFormed(file, file.last) /\ file.optnone = fn.optnone /\ ran \in Seq(Tool)
  BY DEF FInv, Typed
<1>3. PICK f, s, O, K : f = file /\ s = ran /\ Follows(f, O, K) /\ Means(f, O, K, {}, s, s)
  BY DEF Mapped
<1>4. \A i \in Insts(file) : Skipped(t) \/ ~Target(t, i) \/ i.name \in ToSet(todo')
  <2>1. ASSUME NEW i \in Insts(file), ~Skipped(t), Target(t, i) PROVE i.name \in ToSet(todo')
    <3>1. todo' = Collected(t, file)
      BY <1>1, <1>2, <2>1 DEF FindInstsToConvert, Skipped
    <3>. QED  BY <1>2, <2>1, <3>1, CollectedIs
  <2>. QED  BY <2>1
<1>5. Means(f, O, K, ToSet(todo'), s, Append(s, t))
  <2>. DEFINE d == ToSet(todo')
  <2>1. \A i \in Insts(f) : Skipped(t) \/ ~Target(t, i) \/ i.name \in d
    BY <1>3, <1>4
  <2>. HIDE DEF d
  <2>2. WellFormed(f, f.last) /\ s \in Seq(Tool)
    BY <1>2, <1>3
  <2>3. Means(f, O, K, d, s, Append(s, t))
    BY <1>3, <2>1, <2>2, ParseMeans
  <2>. QED  BY <2>3 DEF d
<1>6. PICK d, r : d = ToSet(todo') /\ r = Append(s, t)
  OBVIOUS
<1>7. Follows(f, O, K)' /\ Means(f, O, K, {}, s, s)' /\ Means(f, O, K, d, s, r)'
  BY <1>1, <1>3, <1>5, <1>6, FollowsStays
<1>8. fn'.last <= file'.last /\ fn'.last <= module'.last
  BY <1>1 DEF Mapped
<1>9. f = file' /\ f = module' /\ s = ran' /\ r = Append(ran', tool') /\ d = ToSet(todo')
  BY <1>1, <1>3, <1>6
<1>. QED  BY <1>7, <1>8, <1>9 DEF Mapped

\* What a tool makes of what the module means.
LEMMA ReplacementMeans ==
  ASSUME fn \in Functions, NEW t \in Tool, ~Skipped(t), NEW f, f.last \in Nat, fn.last <= f.last, WellFormed(f, f.last),
         OperandsDominate(f), NEW i \in Insts(f), Target(t, i), NEW s \in Seq(Tool),
         NEW O, NEW K, NEW d, Follows(f, O, K), Means(f, O, K, d, s, Append(s, t)), i.name \in d
  PROVE  LET g == Replacement(t, f, i.name)
         IN  fn.last <= g.last /\ \E P, J : Follows(g, P, J) /\ Means(g, P, J, d \ {i.name}, s, Append(s, t))
<1>. DEFINE g == Replacement(t, f, i.name)
<1>1. fn.last \in Nat
  BY FunctionsAssumption
<1>2. CASE t \in {"work1", "work3"}
  <2>1. i.op = "fadd"
    BY <1>2 DEF Target
  <2>2. g.last = f.last /\ \E J : Follows(g, O, J) /\ Means(g, O, J, d \ {i.name}, s, Append(s, t))
    BY <1>2, <2>1, SubMeans
  <2>. HIDE DEF g
  <2>3. fn.last <= g.last
    BY <2>2
  <2>. QED  BY <2>2, <2>3 DEF g
<1>3. CASE t = "work2"
  <2>1. i.op = "fadd"
    BY <1>3 DEF Target
  <2>2. g.last = f.last + 5 /\ \E P, J : Follows(g, P, J) /\ Means(g, P, J, d \ {i.name}, s, Append(s, t))
    BY <1>1, <1>3, <2>1, ClampMeans
  <2>. HIDE DEF g
  <2>3. fn.last <= g.last
    BY <1>1, <2>2
  <2>. QED  BY <2>2, <2>3 DEF g
<1>4. CASE t = "convert_fcmp_eq"
  <2>1. i.op \in Equality /\ ~fn.optnone
    BY <1>4 DEF Target, Skipped
  <2>2. g.last = f.last + 2 /\ \E J : Follows(g, O, J) /\ Means(g, O, J, d \ {i.name}, s, Append(s, t))
    BY <1>1, <1>4, <2>1, ConvertMeans
  <2>. HIDE DEF g
  <2>3. fn.last <= g.last
    BY <1>1, <2>2
  <2>. QED  BY <2>2, <2>3 DEF g
<1>5. CASE t = "parsetest"
  <2>1. i.op \in {"add", "sub"} /\ i.y[1] = "int"
    BY <1>5 DEF Target
  <2>2. PICK type : Typing(type)
    BY TypingExists
  <2>3. \A u \in Insts(fn) : IsOffset(u) => u.y[2] \in 0 .. Word - 1
    BY <2>2, ConstantsAre
  <2>4. g.last = f.last /\ \E J : Follows(g, O, J) /\ Means(g, O, J, d \ {i.name}, s, Append(s, t))
    BY <1>5, <2>1, <2>3, NegateMeans
  <2>. HIDE DEF g
  <2>5. fn.last <= g.last
    BY <2>4
  <2>. QED  BY <2>4, <2>5 DEF g
<1>6. t # "find_fcmp_eq"
  BY DEF Target
<1>. QED  BY <1>2, <1>3, <1>4, <1>5, <1>6 DEF Tool

\* A tool replaces the next instruction.
LEMMA ReplaceMapped ==
  ASSUME FInv, Accepted, Mapped, Replace
  PROVE  Mapped'
<1>1. /\ pc = "rewrite" /\ pc' = pc /\ todo # << >> /\ module' = Replacement(tool, module, Head(todo))
      /\ todo' = Tail(todo) /\ fn' = fn /\ file' = file /\ tool' = tool /\ ran' = ran
  BY DEF Replace
<1>2. /\ fn \in Functions /\ tool \in Tool /\ module.last \in Nat /\ WellFormed(module, module.last) /\ ran \in Seq(Tool)
      /\ todo \in Seq(Nat) /\ IsInjective(todo) /\ \A m \in ToSet(todo) : \E i \in Insts(module) : i.name = m /\ Target(tool, i)
      /\ ~Skipped(tool) /\ OperandsDominate(module)
  BY <1>1 DEF FInv, Typed, Pending, Accepted
<1>3. /\ Head(todo) \in ToSet(todo) /\ ToSet(Tail(todo)) = ToSet(todo) \ {Head(todo)}
  BY <1>1, <1>2, RestIs
<1>4. PICK i \in Insts(module) : i.name = Head(todo) /\ Target(tool, i)
  BY <1>2, <1>3
<1>5. PICK f, d, s, r, O, K : /\ f = module /\ d = ToSet(todo) /\ s = ran /\ r = Append(ran, tool)
                              /\ Follows(f, O, K) /\ Means(f, O, K, d, s, r)
  BY <1>1 DEF Mapped
<1>6. fn.last <= module.last /\ fn.last <= file.last
  BY DEF Mapped
<1>7. PICK t : t = tool
  OBVIOUS
<1>8. PICK g : g = Replacement(t, f, i.name)
  OBVIOUS
<1>9. fn.last <= g.last /\ \E P, J : Follows(g, P, J) /\ Means(g, P, J, d \ {i.name}, s, Append(s, t))
  <2>1. /\ t \in Tool /\ ~Skipped(t) /\ f.last \in Nat /\ fn.last <= f.last /\ WellFormed(f, f.last)
        /\ OperandsDominate(f) /\ i \in Insts(f) /\ Target(t, i) /\ s \in Seq(Tool)
        /\ Means(f, O, K, d, s, Append(s, t)) /\ i.name \in d
    BY <1>2, <1>3, <1>4, <1>5, <1>6, <1>7
  <2>. QED  BY <1>2, <1>5, <1>8, <2>1, ReplacementMeans
<1>10. PICK P, J : Follows(g, P, J) /\ Means(g, P, J, d \ {i.name}, s, r)
  BY <1>5, <1>7, <1>9
<1>11. PICK e : e = d \ {i.name}
  OBVIOUS
<1>12. /\ g = module' /\ e = ToSet(todo') /\ s = ran' /\ r = Append(ran', tool')
  BY <1>1, <1>3, <1>4, <1>5, <1>7, <1>8, <1>11
<1>13. Follows(g, P, J)' /\ Means(g, P, J, e, s, r)'
  BY <1>1, <1>10, <1>11, FollowsStays
<1>14. fn'.last <= file'.last /\ fn'.last <= module'.last
  BY <1>1, <1>6, <1>9, <1>12
<1>15. \E h, q, A, B : h = file' /\ q = ran' /\ Follows(h, A, B)' /\ Means(h, A, B, {}, q, q)'
  <2>1. PICK h, q, A, B : h = file /\ q = ran /\ Follows(h, A, B) /\ Means(h, A, B, {}, q, q)
    BY DEF Mapped
  <2>2. Follows(h, A, B)' /\ Means(h, A, B, {}, q, q)'
    BY <1>1, <2>1, FollowsStays
  <2>. QED  BY <1>1, <2>1, <2>2
<1>. QED  BY <1>12, <1>13, <1>14, <1>15 DEF Mapped

\* A tool is done, and its module becomes the file or is dropped.
LEMMA VerifyMapped ==
  ASSUME FInv, Mapped, Verify
  PROVE  Mapped'
<1>1. /\ pc = "rewrite" /\ pc' = "idle" /\ todo = << >> /\ fn' = fn /\ module' = module
      /\ \/ file' = module /\ ran' = Append(ran, tool)
         \/ file' = file /\ ran' = ran
  BY DEF Verify
<1>2. fn'.last <= file'.last /\ fn'.last <= module'.last
  BY <1>1 DEF Mapped
<1>3. \E f, s, O, K : f = file' /\ s = ran' /\ Follows(f, O, K) /\ Means(f, O, K, {}, s, s)
  <2>1. CASE file' = module /\ ran' = Append(ran, tool)
    <3>1. PICK f, d, s, r, O, K : /\ f = module /\ d = ToSet(todo) /\ s = ran /\ r = Append(ran, tool)
                                  /\ Follows(f, O, K) /\ Means(f, O, K, d, s, r)
      BY <1>1 DEF Mapped
    <3>2. \A n : n \notin d
      BY <1>1, <3>1 DEF ToSet
    <3>3. Means(f, O, K, {}, r, r)
      BY <3>1, <3>2 DEF Means
    <3>. QED  BY <2>1, <3>1, <3>3
  <2>2. CASE file' = file /\ ran' = ran
    BY <2>2 DEF Mapped
  <2>. QED  BY <1>1, <2>1, <2>2
<1>4. PICK f, s, O, K : f = file' /\ s = ran' /\ Follows(f, O, K) /\ Means(f, O, K, {}, s, s)
  BY <1>3
<1>5. Follows(f, O, K)' /\ Means(f, O, K, {}, s, s)'
  BY <1>1, <1>4, FollowsStays
<1>. QED  BY <1>1, <1>2, <1>4, <1>5 DEF Mapped

\* Every step keeps the file and the module to what the tools promise.
LEMMA StepMapped == FInv /\ Accepted /\ Mapped /\ [Next]_vars => Mapped'
<1>. SUFFICES ASSUME FInv, Accepted, Mapped, [Next]_vars PROVE Mapped'
  OBVIOUS
<1>1. ASSUME NEW t \in Tool, Parse(t) PROVE Mapped'
  BY <1>1, ParseMapped
<1>2. CASE Replace
  BY <1>2, ReplaceMapped
<1>3. CASE Verify
  BY <1>3, VerifyMapped
<1>4. ASSUME pc' # "rewrite" \/ (pc' = pc /\ UNCHANGED <<tool, todo>>), UNCHANGED <<fn, file, module, ran>> PROVE Mapped'
  <2>1. fn'.last <= file'.last /\ fn'.last <= module'.last
    BY <1>4 DEF Mapped
  <2>2. \E f, s, O, K : f = file' /\ s = ran' /\ Follows(f, O, K)' /\ Means(f, O, K, {}, s, s)'
    <3>1. PICK f, s, O, K : f = file /\ s = ran /\ Follows(f, O, K) /\ Means(f, O, K, {}, s, s)
      BY DEF Mapped
    <3>2. Follows(f, O, K)' /\ Means(f, O, K, {}, s, s)'
      BY <1>4, <3>1, FollowsStays
    <3>. QED  BY <1>4, <3>1, <3>2
  <2>3. pc' = "rewrite" =>
          \E f, d, s, r, O, K : /\ f = module' /\ d = ToSet(todo') /\ s = ran' /\ r = Append(ran', tool')
                                /\ Follows(f, O, K)' /\ Means(f, O, K, d, s, r)'
    <3>1. SUFFICES ASSUME pc' = "rewrite"
                   PROVE  \E f, d, s, r, O, K : /\ f = module' /\ d = ToSet(todo') /\ s = ran' /\ r = Append(ran', tool')
                                                /\ Follows(f, O, K)' /\ Means(f, O, K, d, s, r)'
      OBVIOUS
    <3>2. PICK f, d, s, r, O, K : /\ f = module /\ d = ToSet(todo) /\ s = ran /\ r = Append(ran, tool)
                                  /\ Follows(f, O, K) /\ Means(f, O, K, d, s, r)
      BY <1>4, <3>1 DEF Mapped
    <3>3. Follows(f, O, K)' /\ Means(f, O, K, d, s, r)'
      BY <1>4, <3>2, FollowsStays
    <3>. QED  BY <1>4, <3>1, <3>2, <3>3
  <2>. QED  BY <2>1, <2>2, <2>3 DEF Mapped
<1>5. ASSUME NEW in \in [fn.args -> Numbers], Start(in) PROVE Mapped'
  BY <1>4, <1>5 DEF Start, rewriting
<1>6. CASE Execute
  BY <1>4, <1>6 DEF Execute, rewriting
<1>7. CASE Branch
  BY <1>4, <1>7 DEF Branch, rewriting
<1>8. CASE Return
  BY <1>4, <1>8 DEF Return, rewriting
<1>9. CASE UNCHANGED vars
  BY <1>4, <1>9 DEF vars, rewriting
<1>10. CASE AssertionFails
  BY <1>4, <1>10 DEF AssertionFails, rewriting
<1>. QED
  BY <1>1, <1>2, <1>3, <1>5, <1>6, <1>7, <1>8, <1>9, <1>10 DEF Next, NoMain, Terminating

-----------------------------------------------------------------------------
(* What the program has computed, e, when it is at the place a[2] of the   *)
(* block a[1] of the user's function and was in the block p before.        *)

\* The value of the operand o in the environment e.
GetIn(e, o) == IF o[1] = "val" THEN e[o[2]] ELSE o
\* The environment e when n has got the value v.
With(e, n, v) == [m \in DOMAIN e \cup {n} |-> IF m = n THEN v ELSE e[m]]

\* All that the user's instruction at a can use, come from p, has a value in e of its type.
Knows(type, e, a, p) ==
  /\ \A n \in DOMAIN type : n \in DOMAIN e => e[n] \in Values[type[n]]
  /\ Above(fn, a[1]) \subseteq DOMAIN e
  /\ \A k \in DOMAIN fn.code[a[1]] : k < a[2] => fn.code[a[1]][k].name \in DOMAIN e
  /\ a[1] # fn.entry => p \in Preds(fn, a[1]) /\ Leaving(fn, p) \subseteq DOMAIN e

\* An operand of the user's that has a value.
Ready(e, o, t) ==
  /\ o[1] = "val" => o[2] \in DOMAIN e /\ o[2] \in 1 .. fn.last
  /\ GetIn(e, o) \in Values[t]

\* The names that the user gave.
LEMMA UserNames ==
  ASSUME fn \in Functions, NEW type, Typing(type)
  PROVE  /\ fn.last \in Nat /\ WellFormed(fn, fn.last) /\ OperandsDominate(fn) /\ DOMAIN fn.br = DOMAIN fn.code
         /\ DOMAIN type \subseteq 1 .. fn.last /\ DOMAIN type = fn.args \cup UNION {Names(fn, b) : b \in DOMAIN fn.code}
         /\ \A n \in DOMAIN type : type[n] \in DOMAIN Values
         /\ \A b : Above(fn, b) \subseteq DOMAIN type /\ (b \in DOMAIN fn.code => Leaving(fn, b) \subseteq DOMAIN type)
<1>1. /\ fn.last \in Nat /\ WellFormed(fn, fn.last) /\ OperandsDominate(fn) /\ fn.args \subseteq 1 .. fn.last
  BY FunctionsAssumption DEF Valid
<1>2. DOMAIN fn.br = DOMAIN fn.code
  BY <1>1 DEF WellFormed
<1>3. /\ DOMAIN type = fn.args \cup UNION {Names(fn, b) : b \in DOMAIN fn.code}
      /\ \A n \in DOMAIN type : type[n] \in DOMAIN Values
  BY DEF Typing
<1>4. \A b \in DOMAIN fn.code : Names(fn, b) \subseteq 1 .. fn.last
  <2>1. ASSUME NEW b \in DOMAIN fn.code, NEW n \in Names(fn, b) PROVE n \in 1 .. fn.last
    <3>1. PICK k \in DOMAIN fn.code[b] : n = fn.code[b][k].name
      BY DEF Names
    <3>2. k \in 1 .. Len(fn.code[b])
      BY <1>1, CodeIs
    <3>. QED  BY <1>1, <3>1, <3>2, CodeIs
  <2>. QED  BY <2>1
<1>5. DOMAIN type \subseteq 1 .. fn.last
  BY <1>1, <1>3, <1>4
<1>6. \A b : Above(fn, b) \subseteq DOMAIN type
  <2>1. ASSUME NEW b, NEW n \in Above(fn, b) PROVE n \in DOMAIN type
    BY <1>2, <1>3, AboveIs
  <2>. QED  BY <2>1
<1>7. \A b \in DOMAIN fn.code : Leaving(fn, b) \subseteq DOMAIN type
  BY <1>3, <1>6 DEF Leaving
<1>. QED  BY <1>1, <1>2, <1>3, <1>5, <1>6, <1>7

\* An operand of a type that is among the names known.
LEMMA ReadyIs ==
  ASSUME fn \in Functions, NEW type, Typing(type), NEW e, NEW a, NEW p, Knows(type, e, a, p),
         NEW o, NEW t, Has(type, o, t), NEW names, names \subseteq DOMAIN e, names \subseteq DOMAIN type, Defined(o, names)
  PROVE  Ready(e, o, t)
<1>1. DOMAIN type \subseteq 1 .. fn.last /\ \A n \in DOMAIN type : n \in DOMAIN e => e[n] \in Values[type[n]]
  BY UserNames DEF Knows
<1>2. CASE o[1] = "val"
  <2>1. o[2] \in DOMAIN e /\ o[2] \in DOMAIN type /\ type[o[2]] = t
    BY <1>2 DEF Has, Defined
  <2>. QED  BY <1>1, <1>2, <2>1 DEF Ready, GetIn
<1>3. CASE o[1] # "val"
  BY <1>3 DEF Has, Ready, GetIn
<1>. QED  BY <1>2, <1>3

\* The operands of the user's instruction u are, coming from p, what its operation takes.
OperandsReady(type, e, u, p) ==
  /\ u.op = "phi" => Ready(e, u.in[p], type[u.name])
  /\ u.op \in {"fadd", "fsub", "hook", "abs"} => type[u.name] = "number" /\ Ready(e, u.x, "number") /\ Ready(e, u.y, "number")
  /\ u.op \in DOMAIN Predicate => type[u.name] = "bool" /\ Ready(e, u.x, "number") /\ Ready(e, u.y, "number")
  /\ u.op \in {"add", "sub"} => type[u.name] = "int" /\ Ready(e, u.x, "int") /\ Ready(e, u.y, "int")
  /\ u.op \in {"phi", "fadd", "fsub", "hook", "abs", "add", "sub"} \cup DOMAIN Predicate

\* The operands of the user's instruction that is next have values of their types.
LEMMA ReadyOperands ==
  ASSUME fn \in Functions, NEW type, Typing(type), NEW e, NEW b \in DOMAIN fn.code, NEW k \in DOMAIN fn.code[b],
         NEW p, Knows(type, e, <<b, k>>, p)
  PROVE  /\ fn.code[b][k].name \in DOMAIN type /\ fn.code[b][k].name \in 1 .. fn.last
         /\ fn.code[b][k].op = "phi" => b # fn.entry
         /\ OperandsReady(type, e, fn.code[b][k], p)
<1>. DEFINE u == fn.code[b][k]
<1>1. /\ fn.last \in Nat /\ WellFormed(fn, fn.last) /\ OperandsDominate(fn) /\ DOMAIN fn.br = DOMAIN fn.code
      /\ DOMAIN type \subseteq 1 .. fn.last /\ DOMAIN type = fn.args \cup UNION {Names(fn, c) : c \in DOMAIN fn.code}
      /\ \A c : Above(fn, c) \subseteq DOMAIN type /\ (c \in DOMAIN fn.code => Leaving(fn, c) \subseteq DOMAIN type)
  BY UserNames
<1>2. DOMAIN fn.code[b] = 1 .. Len(fn.code[b]) /\ Len(fn.code[b]) \in Nat /\ u \in Insts(fn)
  BY <1>1, CodeIs
<1>3. u.name \in Names(fn, b)
  BY DEF Names
<1>4. u.name \in DOMAIN type
  BY <1>1, <1>3
<1>5. u.name \in 1 .. fn.last
  BY <1>1, <1>4
<1>6. Known(fn, b, k) \subseteq DOMAIN e
  <2>1. ASSUME NEW j \in 1 .. k - 1 PROVE fn.code[b][j].name \in DOMAIN e
    <3>1. j \in DOMAIN fn.code[b] /\ j < k
      BY <1>2
    <3>. QED  BY <3>1 DEF Knows
  <2>2. Above(fn, b) \subseteq DOMAIN e
    BY DEF Knows
  <2>. QED  BY <2>1, <2>2 DEF Known
<1>7. Known(fn, b, k) \subseteq DOMAIN type
  <2>1. ASSUME NEW j \in 1 .. k - 1 PROVE fn.code[b][j].name \in DOMAIN type
    <3>1. j \in DOMAIN fn.code[b]
      BY <1>2
    <3>2. fn.code[b][j].name \in Names(fn, b)
      BY <3>1 DEF Names
    <3>. QED  BY <1>1, <3>2
  <2>. QED  BY <1>1, <2>1 DEF Known
<1>8. Fits(fn, b, k)
  BY <1>1, DominateIs
<1>. DEFINE names == Known(fn, b, k)
<1>9. \/ u.op = "phi" /\ \A q \in DOMAIN u.in : Has(type, u.in[q], type[u.name])
      \/ u.op \in {"fadd", "fsub", "hook", "abs"} /\ IsOf(type, u, "number", "number")
      \/ u.op \in DOMAIN Predicate /\ IsOf(type, u, "bool", "number")
      \/ u.op \in {"add", "sub"} /\ IsOf(type, u, "int", "int")
  BY <1>2 DEF Typing
<1>10. DOMAIN Predicate = {"oeq", "ueq", "one", "une", "olt", "ult", "oge", "uge", "ogt"}
  BY DEF Predicate
<1>11. ASSUME u.op # "phi" PROVE Defined(u.x, names) /\ Defined(u.y, names)
  BY <1>8, <1>11 DEF Fits
<1>12. ASSUME u.op = "phi" PROVE b # fn.entry /\ DOMAIN u.in = Preds(fn, b) /\ \A q \in Preds(fn, b) : Defined(u.in[q], Leaving(fn, q))
  <2>1. \A j \in DOMAIN fn.code[fn.entry] : fn.code[fn.entry][j].op # "phi"
    BY FunctionsAssumption
  <2>. QED  BY <1>8, <1>12, <2>1 DEF Fits, PhiFits
<1>13. u.op = "phi" => b # fn.entry /\ Ready(e, u.in[p], type[u.name])
  <2>1. SUFFICES ASSUME u.op = "phi" PROVE b # fn.entry /\ Ready(e, u.in[p], type[u.name])
    OBVIOUS
  <2>2. b # fn.entry /\ p \in Preds(fn, b) /\ Leaving(fn, p) \subseteq DOMAIN e
    BY <1>12, <2>1 DEF Knows
  <2>3. p \in DOMAIN fn.code
    BY <1>1, <2>2 DEF Preds
  <2>4. Has(type, u.in[p], type[u.name]) /\ Defined(u.in[p], Leaving(fn, p))
    BY <1>9, <1>10, <1>12, <2>1, <2>2
  <2>5. Leaving(fn, p) \subseteq DOMAIN type
    BY <1>1, <2>3
  <2>. HIDE DEF u
  <2>. QED  BY <2>2, <2>4, <2>5, ReadyIs
<1>. HIDE DEF u
<1>14. ASSUME NEW t, NEW r, IsOf(type, u, r, t), u.op # "phi"
       PROVE  type[u.name] = r /\ Ready(e, u.x, t) /\ Ready(e, u.y, t)
  <2>1. type[u.name] = r /\ Has(type, u.x, t) /\ Has(type, u.y, t)
    BY <1>14 DEF IsOf
  <2>. HIDE DEF names
  <2>2. names \subseteq DOMAIN e /\ names \subseteq DOMAIN type
    BY <1>6, <1>7 DEF names
  <2>3. Ready(e, u.x, t)
    BY <1>11, <1>14, <2>1, <2>2, ReadyIs
  <2>4. Ready(e, u.y, t)
    BY <1>11, <1>14, <2>1, <2>2, ReadyIs
  <2>. QED  BY <2>1, <2>3, <2>4
<1>15. OperandsReady(type, e, u, p)
  BY <1>9, <1>10, <1>13, <1>14 DEF OperandsReady
<1>. QED  BY <1>4, <1>5, <1>13, <1>15 DEF u

\* The condition of a branch of the user's has a value at the end of its block.
LEMMA ReadyCondition ==
  ASSUME fn \in Functions, NEW type, Typing(type), NEW e, NEW b \in DOMAIN fn.code,
         NEW p, Knows(type, e, <<b, Len(fn.code[b]) + 1>>, p)
  PROVE  LET o == fn.br[b].cond IN
         /\ o[1] = "val" => o[2] \in DOMAIN e /\ o[2] \in 1 .. fn.last
         /\ Leaving(fn, b) \subseteq DOMAIN e
<1>1. /\ fn.last \in Nat /\ WellFormed(fn, fn.last) /\ OperandsDominate(fn) /\ DOMAIN fn.br = DOMAIN fn.code
      /\ DOMAIN type \subseteq 1 .. fn.last /\ Leaving(fn, b) \subseteq DOMAIN type
  BY UserNames
<1>2. DOMAIN fn.code[b] = 1 .. Len(fn.code[b]) /\ Len(fn.code[b]) \in Nat
  BY <1>1, CodeIs
<1>3. ASSUME NEW n \in Names(fn, b) PROVE n \in DOMAIN e
  <2>1. PICK k \in DOMAIN fn.code[b] : n = fn.code[b][k].name
    BY DEF Names
  <2>2. k < Len(fn.code[b]) + 1
    BY <1>2, <2>1
  <2>. QED  BY <2>1, <2>2 DEF Knows
<1>4. Leaving(fn, b) \subseteq DOMAIN e
  BY <1>3 DEF Leaving, Knows
<1>5. Defined(fn.br[b].cond, Leaving(fn, b))
  BY <1>1, DominateIs
<1>. QED  BY <1>1, <1>4, <1>5 DEF Defined

\* A value of no name of the user's is added.
LEMMA HiddenKnows ==
  ASSUME fn \in Functions, NEW type, Typing(type), NEW e, NEW a, NEW p, Knows(type, e, a, p), NEW n \in Int, n > fn.last, NEW v
  PROVE  /\ Knows(type, With(e, n, v), a, p)
         /\ \A o, t : Ready(e, o, t) => Ready(With(e, n, v), o, t) /\ GetIn(With(e, n, v), o) = GetIn(e, o)
<1>1. /\ fn.last \in Nat /\ DOMAIN type \subseteq 1 .. fn.last
  BY UserNames
<1>2. /\ DOMAIN With(e, n, v) = DOMAIN e \cup {n}
      /\ \A m \in DOMAIN e : m # n => With(e, n, v)[m] = e[m]
  BY DEF With
<1>3. n \notin 1 .. fn.last
  BY <1>1
<1>. DEFINE E == With(e, n, v)
<1>. HIDE DEF E
<1>4. \A m \in DOMAIN type : m \in DOMAIN E => E[m] \in Values[type[m]]
  BY <1>1, <1>2, <1>3 DEF Knows, E
<1>5. Knows(type, E, a, p)
  BY <1>2, <1>4 DEF Knows, E
<1>6. ASSUME NEW o, NEW t, Ready(e, o, t) PROVE Ready(E, o, t) /\ GetIn(E, o) = GetIn(e, o)
  <2>1. GetIn(E, o) = GetIn(e, o)
    BY <1>2, <1>3, <1>6 DEF Ready, GetIn, E
  <2>. QED  BY <1>2, <1>6, <2>1 DEF Ready, E
<1>. QED  BY <1>5, <1>6 DEF E

\* An instruction of the user's is done.
LEMMA UserKnows ==
  ASSUME fn \in Functions, NEW type, Typing(type), NEW e, NEW b \in DOMAIN fn.code, NEW k \in DOMAIN fn.code[b],
         NEW p, Knows(type, e, <<b, k>>, p), NEW v \in Values[type[fn.code[b][k].name]]
  PROVE  Knows(type, With(e, fn.code[b][k].name, v), <<b, k + 1>>, p)
<1>. DEFINE n == fn.code[b][k].name
            E == With(e, n, v)
<1>1. fn.last \in Nat /\ WellFormed(fn, fn.last)
  BY UserNames
<1>2. DOMAIN fn.code[b] = 1 .. Len(fn.code[b]) /\ Len(fn.code[b]) \in Nat
  BY <1>1, CodeIs
<1>3. /\ DOMAIN E = DOMAIN e \cup {n} /\ E[n] = v /\ \A m \in DOMAIN e : m # n => E[m] = e[m]
  BY DEF With
<1>. HIDE DEF E
<1>4. \A m \in DOMAIN type : m \in DOMAIN E => E[m] \in Values[type[m]]
  BY <1>3 DEF Knows
<1>5. \A j \in DOMAIN fn.code[b] : j < k + 1 => fn.code[b][j].name \in DOMAIN E
  <2>1. ASSUME NEW j \in DOMAIN fn.code[b], j < k + 1 PROVE fn.code[b][j].name \in DOMAIN E
    <3>1. j < k \/ j = k
      BY <1>2, <2>1
    <3>2. j < k => fn.code[b][j].name \in DOMAIN e
      BY DEF Knows
    <3>. QED  BY <1>3, <3>1, <3>2
  <2>. QED  BY <2>1
<1>. QED  BY <1>3, <1>4, <1>5 DEF Knows, E

\* A branch of the user's is taken: what is known above a block is known where the blocks
\* before it are left.
LEMMA BranchKnows ==
  ASSUME fn \in Functions, NEW type, Typing(type), NEW e, NEW b \in DOMAIN fn.code,
         NEW p, Knows(type, e, <<b, Len(fn.code[b]) + 1>>, p), NEW c \in ToSet(fn.br[b].to), c \in DOMAIN fn.code
  PROVE  Knows(type, e, <<c, 1>>, b)
<1>1. /\ fn.last \in Nat /\ WellFormed(fn, fn.last) /\ DOMAIN fn.br = DOMAIN fn.code
  BY UserNames
<1>2. Leaving(fn, b) \subseteq DOMAIN e
  BY ReadyCondition
<1>3. DOMAIN fn.code[c] = 1 .. Len(fn.code[c]) /\ Len(fn.code[c]) \in Nat
  BY <1>1, CodeIs
<1>4. ASSUME NEW n \in Above(fn, c) PROVE n \in Leaving(fn, b)
  <2>1. CASE n \in fn.args
    BY <2>1, AboveIs DEF Leaving
  <2>2. ASSUME NEW d \in DOMAIN fn.br \ {c}, c \notin ReachedWithout(fn, d), n \in Names(fn, d) PROVE n \in Leaving(fn, b)
    <3>1. Closed(fn, d, ReachedWithout(fn, d))
      BY <1>1, ReachedIs
    <3>2. b \notin ReachedWithout(fn, d)
      BY <2>2, <3>1 DEF Closed
    <3>3. CASE b = d
      BY <2>2, <3>3 DEF Leaving
    <3>4. CASE b # d
      BY <1>1, <2>2, <3>2, <3>4, AboveIs DEF Leaving
    <3>. QED  BY <3>3, <3>4
  <2>. QED  BY <1>4, <2>1, <2>2, AboveIs
<1>5. b \in Preds(fn, c)
  BY <1>1 DEF Preds
<1>6. \A k \in DOMAIN fn.code[c] : ~(k < 1)
  BY <1>3
<1>. QED  BY <1>2, <1>4, <1>5, <1>6 DEF Knows

\* The function is called.
LEMMA StartKnows ==
  ASSUME fn \in Functions, NEW type, Typing(type), NEW in \in [fn.args -> Numbers]
  PROVE  Knows(type, in, <<fn.entry, 1>>, 0)
<1>1. /\ fn.last \in Nat /\ WellFormed(fn, fn.last) /\ DOMAIN fn.br = DOMAIN fn.code /\ fn.entry \in DOMAIN fn.code
  BY UserNames DEF WellFormed
<1>2. \A n \in fn.args : type[n] = "number" /\ in[n] \in Values[type[n]]
  BY FunctionsAssumption DEF Typing, Values
<1>3. ASSUME NEW n \in Above(fn, fn.entry) PROVE n \in fn.args
  <2>1. ASSUME NEW d \in DOMAIN fn.br \ {fn.entry} PROVE fn.entry \in ReachedWithout(fn, d)
    <3>1. Closed(fn, d, ReachedWithout(fn, d))
      BY <1>1, ReachedIs
    <3>. QED  BY <3>1 DEF Closed
  <2>. QED  BY <1>3, <2>1, AboveIs
<1>4. DOMAIN fn.code[fn.entry] = 1 .. Len(fn.code[fn.entry]) /\ Len(fn.code[fn.entry]) \in Nat
  BY <1>1, CodeIs
<1>5. \A k \in DOMAIN fn.code[fn.entry] : ~(k < 1)
  BY <1>4
<1>. QED  BY <1>2, <1>3, <1>5 DEF Knows

-----------------------------------------------------------------------------
(* One instruction of the file, i, at the j-th place of b, does the work   *)
(* of the user's instruction u.                                            *)

\* What the instruction i computes, come from c.
ValueIn(e, c, i) == IF i.op = "phi" THEN GetIn(e, i.in[c]) ELSE Compute(i.op, GetIn(e, i.x), GetIn(e, i.y))
\* What the user's fadd u has become.
SumIn(s, e, u) == Compute(OperationAfter(s), GetIn(e, u.x), GetIn(e, u.y))
\* The difference that convert_fcmp_eq compares for the user's comparison u.
DifferenceIn(e, u) == Compute("fsub", GetIn(e, u.x), GetIn(e, u.y))

\* What the instruction before it, if no name of the user's, has computed.
HeldAt(f, u, s, e, b, j) ==
  j > 1 /\ Hidden(f.code[b][j - 1]) =>
    LET i == f.code[b][j - 1]
        c == f.code[b][j - 2].name
    IN  /\ i.name \in DOMAIN e
        /\ u.op = "fadd" /\ i.op # "ogt" => e[i.name] \in {SumIn(s, e, u), Limited(SumIn(s, e, u))}
        /\ u.op = "fadd" /\ i.op = "ogt" =>
             /\ j > 2 /\ c \in DOMAIN e /\ e[c] \in {SumIn(s, e, u), Limited(SumIn(s, e, u))}
             /\ e[i.name] = Bool(Less(Num(Limit), e[c]))
        /\ u.op \in Equality /\ i.op = "fsub" => e[i.name] = DifferenceIn(e, u)
        /\ u.op \in Equality /\ i.op = "abs" => e[i.name] = Abs(DifferenceIn(e, u))

\* The operands of an addition or a comparison are there.
NumbersReady(e, u) == u.op \in {"fadd"} \cup Equality => Ready(e, u.x, "number") /\ Ready(e, u.y, "number")

\* Sums of what is there are numbers.
LEMMA SumsAre ==
  ASSUME NEW e, NEW u, NumbersReady(e, u), u.op \in {"fadd"} \cup Equality, NEW s
  PROVE  /\ GetIn(e, u.x) \in Number /\ GetIn(e, u.y) \in Number
         /\ SumIn(s, e, u) \in Number /\ Limited(SumIn(s, e, u)) \in Number
<1>1. GetIn(e, u.x) \in Number /\ GetIn(e, u.y) \in Number
  BY DEF NumbersReady, Ready, Values
<1>2. OperationAfter(s) \in {"fadd", "fsub", "hook", "abs"}
  BY OperationIs
<1>3. SumIn(s, e, u) \in Number
  <2>. DEFINE x == GetIn(e, u.x)
              y == GetIn(e, u.y)
              op == OperationAfter(s)
  <2>1. x \in Number /\ y \in Number /\ op \in {"fadd", "fsub", "hook", "abs"}
    BY <1>1, <1>2
  <2>. HIDE DEF x, y, op
  <2>2. Compute(op, x, y) \in Number
    BY <2>1, ComputedTypes
  <2>. QED  BY <2>2 DEF SumIn, x, y, op
<1>. QED  BY <1>1, <1>3, LimitedIs

\* An instruction that uses the hidden one before it.
LEMMA AfterIs ==
  ASSUME NEW f, NEW b, NEW j, NEW op, After(f, b, j, op), NEW u, NEW s, NEW e, HeldAt(f, u, s, e, b, j), op # "ogt"
  PROVE  LET x == GetIn(e, f.code[b][j].x) IN
         /\ j > 1 /\ f.code[b][j - 1].name \in DOMAIN e /\ x = e[f.code[b][j - 1].name]
         /\ u.op = "fadd" => x \in {SumIn(s, e, u), Limited(SumIn(s, e, u))}
         /\ u.op \in Equality /\ op = "fsub" => x = DifferenceIn(e, u)
         /\ u.op \in Equality /\ op = "abs" => x = Abs(DifferenceIn(e, u))
<1>1. j > 1 /\ Hidden(f.code[b][j - 1]) /\ op = f.code[b][j - 1].op /\ f.code[b][j].x = Val(f.code[b][j - 1].name)
  BY DEF After
<1>2. GetIn(e, f.code[b][j].x) = e[f.code[b][j - 1].name]
  BY <1>1 DEF GetIn, Val
<1>. QED  BY <1>1, <1>2 DEF HeldAt

\* What a PHI that limits an addition takes, coming from c.
TakenHere(f, u, s, e, b, j, c) ==
  \A then, else, h \in DOMAIN f.code :
    u.op = "fadd" /\ f.code[b][1].op = "phi" /\ j = 1 /\ Clamps(f, b, then, else, h) =>
      GetIn(e, f.code[b][1].in[c]) = Limited(SumIn(s, e, u))

\* A hidden instruction holds what the next one needs.
LEMMA HiddenStep ==
  ASSUME fn \in Functions, NEW f, NEW top \in Nat, WellFormed(f, top), NEW b \in DOMAIN f.code, NEW j \in DOMAIN f.code[b],
         NEW O, NEW u, NEW s, NEW e, Meaning(f, O, b, j, u, s), Hidden(f.code[b][j]), NumbersReady(e, u), HeldAt(f, u, s, e, b, j),
         NEW c, TakenHere(f, u, s, e, b, j, c)
  PROVE  HeldAt(f, u, s, With(e, f.code[b][j].name, ValueIn(e, c, f.code[b][j])), b, j + 1)
<1>. DEFINE i == f.code[b][j]
            v == ValueIn(e, c, i)
            E == With(e, i.name, v)
            S == SumIn(s, e, u)
<1>1. DOMAIN f.code[b] = 1 .. Len(f.code[b]) /\ Len(f.code[b]) \in Nat /\ i.name \in 1 .. top /\ j \in Nat
  BY CodeIs
<1>2. fn.last \in Nat
  BY FunctionsAssumption
<1>3. i.name \in Int /\ i.name > fn.last
  BY <1>1 DEF Hidden
<1>4. DOMAIN E = DOMAIN e \cup {i.name} /\ E[i.name] = v /\ \A m \in DOMAIN e : m # i.name => E[m] = e[m]
  BY DEF With
<1>. HIDE DEF i, E, v
<1>5. ASSUME u.op \in {"fadd"} \cup Equality
      PROVE  GetIn(E, u.x) = GetIn(e, u.x) /\ GetIn(E, u.y) = GetIn(e, u.y)
  <2>1. \A o : Ready(e, o, "number") => GetIn(E, o) = GetIn(e, o)
    <3>1. i.name \notin 1 .. fn.last
      BY <1>2, <1>3
    <3>. QED  BY <1>4, <3>1 DEF Ready, GetIn
  <2>. QED  BY <1>5, <2>1 DEF NumbersReady
<1>6. u.op \in {"fadd"} \cup Equality => SumIn(s, E, u) = S /\ DifferenceIn(E, u) = DifferenceIn(e, u)
  BY <1>5 DEF SumIn, DifferenceIn
<1>7. ASSUME u.op = "fadd", i.op # "ogt" PROVE v \in {S, Limited(S)}
  <2>1. SumOf(f, b, j, u, s)
    BY <1>7 DEF Meaning
  <2>2. CASE i.op = OperationAfter(s) /\ i.x = u.x /\ i.y = u.y
    BY <2>2, OperationIs DEF v, ValueIn, SumIn
  <2>3. CASE i.op = "phi" /\ j = 1 /\ \E then, else, h \in DOMAIN f.code : Clamps(f, b, then, else, h)
    <3>1. GetIn(e, i.in[c]) = Limited(S)
      BY <1>7, <2>3 DEF TakenHere, i
    <3>. QED  BY <2>3, <3>1 DEF v, ValueIn
  <2>. QED  BY <1>7, <2>1, <2>2, <2>3 DEF SumOf, i
<1>8. ASSUME u.op = "fadd", i.op = "ogt"
      PROVE  LET n == f.code[b][j - 1].name IN
             j > 1 /\ n \in DOMAIN e /\ n # i.name /\ e[n] \in {S, Limited(S)} /\ v = Bool(Less(Num(Limit), e[n]))
  <2>1. SumOf(f, b, j, u, s)
    BY <1>8 DEF Meaning
  <2>2. i.y = Num(Limit) /\ \E op \in {"fadd", "fsub", "hook", "phi"} : After(f, b, j, op)
    BY <1>8, <2>1, OperationIs DEF SumOf, i
  <2>3. PICK op \in {"fadd", "fsub", "hook", "phi"} : After(f, b, j, op)
    BY <2>2
  <2>. DEFINE n == f.code[b][j - 1].name
  <2>4. j > 1 /\ n \in DOMAIN e /\ GetIn(e, i.x) = e[n] /\ e[n] \in {S, Limited(S)}
    BY <1>8, <2>3, AfterIs DEF i
  <2>5. n # i.name
    <3>1. j - 1 \in DOMAIN f.code[b] /\ j - 1 # j
      BY <1>1, <2>4
    <3>. QED  BY <3>1 DEF WellFormed, UniqueNames, i
  <2>6. S \in Number
    BY <1>8, SumsAre
  <2>7. GetIn(e, i.y) = Num(Limit)
    BY <2>2 DEF GetIn, Num
  <2>8. v = Compute("ogt", e[n], Num(Limit))
    BY <1>8, <2>4, <2>7 DEF v, ValueIn
  <2>. HIDE DEF n, S
  <2>9. v = Bool(Less(Num(Limit), e[n]))
    BY <2>4, <2>6, <2>8, LimitedIs
  <2>. QED  BY <2>4, <2>5, <2>9 DEF n, S
<1>9. ASSUME u.op \in Equality
      PROVE  /\ i.op = "fsub" => v = DifferenceIn(e, u)
             /\ i.op = "abs" => v = Abs(DifferenceIn(e, u))
  <2>1. CompareOf(f, b, j, u, s)
    BY <1>9 DEF Meaning
  <2>2. \/ i.op = "fsub" /\ i.x = u.x /\ i.y = u.y
        \/ i.op = "abs" /\ After(f, b, j, "fsub")
    BY <2>1 DEF CompareOf, i
  <2>3. i.op = "fsub" => v = DifferenceIn(e, u)
    BY <2>2 DEF v, ValueIn, DifferenceIn
  <2>4. ASSUME i.op = "abs" PROVE v = Abs(DifferenceIn(e, u))
    <3>1. After(f, b, j, "fsub")
      BY <2>2, <2>4
    <3>2. GetIn(e, i.x) = DifferenceIn(e, u)
      BY <1>9, <3>1, AfterIs DEF i
    <3>3. v = Compute("abs", GetIn(e, i.x), GetIn(e, i.y))
      BY <2>4 DEF v, ValueIn
    <3>. QED  BY <3>2, <3>3, ComputeIs
  <2>. QED  BY <2>3, <2>4
<1>10. (j + 1) - 1 = j /\ (j + 1) - 2 = j - 1 /\ (j > 1 => j + 1 > 2)
  BY <1>1
<1>. HIDE DEF S
<1>. DEFINE n == f.code[b][j - 1].name
<1>11. /\ i.name \in DOMAIN E
       /\ u.op = "fadd" /\ i.op # "ogt" => E[i.name] \in {SumIn(s, E, u), Limited(SumIn(s, E, u))}
       /\ u.op = "fadd" /\ i.op = "ogt" =>
            /\ j > 1 /\ n \in DOMAIN E /\ E[n] \in {SumIn(s, E, u), Limited(SumIn(s, E, u))}
            /\ E[i.name] = Bool(Less(Num(Limit), E[n]))
       /\ u.op \in Equality /\ i.op = "fsub" => E[i.name] = DifferenceIn(E, u)
       /\ u.op \in Equality /\ i.op = "abs" => E[i.name] = Abs(DifferenceIn(E, u))
  <2>1. i.name \in DOMAIN E
    BY <1>4
  <2>2. u.op = "fadd" /\ i.op # "ogt" => E[i.name] \in {SumIn(s, E, u), Limited(SumIn(s, E, u))}
    BY <1>4, <1>6, <1>7
  <2>3. u.op = "fadd" /\ i.op = "ogt" =>
            /\ j > 1 /\ n \in DOMAIN E /\ E[n] \in {SumIn(s, E, u), Limited(SumIn(s, E, u))}
            /\ E[i.name] = Bool(Less(Num(Limit), E[n]))
    BY <1>4, <1>6, <1>8
  <2>4. u.op \in Equality => SumIn(s, E, u) = S /\ DifferenceIn(E, u) = DifferenceIn(e, u)
    BY <1>6
  <2>. QED  BY <1>4, <1>9, <2>1, <2>2, <2>3, <2>4
<1>12. f.code[b][(j + 1) - 1] = i /\ f.code[b][(j + 1) - 2].name = n
  BY <1>10 DEF i
<1>. HIDE DEF n
<1>. DEFINE l == j + 1
<1>13. j > 1 => l > 2
  BY <1>10
<1>. HIDE DEF l
<1>14. f.code[b][l - 1] = i /\ f.code[b][l - 2].name = n
  BY <1>12 DEF l
<1>15. HeldAt(f, u, s, E, b, l)
  BY <1>11, <1>13, <1>14, Zenon DEF HeldAt
<1>. QED  BY <1>15 DEF E, v, i, l

\* What the instruction of the name of the user's u computes, v, once the passes s have run: x and y are
\* u's operands, and q is what u takes if it is a PHI.
Computes(s, u, x, y, q, v) ==
  /\ u.op = "phi" => v = q
  /\ u.op = "fadd" =>
       v = IF ClampedAfter(s) THEN Limited(Compute(OperationAfter(s), x, y)) ELSE Compute(OperationAfter(s), x, y)
  /\ u.op \in Equality => v = IF ConvertedAfter(s) THEN Converted(u.op, x, y) ELSE Compute(u.op, x, y)
  /\ IsOffset(u) => \E w \in Int :
       /\ v = Compute(u.op, x, Integer(w))
       /\ TurnsAfter(s) = 0 => w = u.y[2]
       /\ SmallInt(u.y[2]) => w = IF TurnsAfter(s) % 2 = 0 THEN u.y[2] ELSE (-u.y[2]) % Word
  /\ u.op \notin {"phi", "fadd"} \cup Equality /\ ~IsOffset(u) => v = Compute(u.op, x, y)

\* What the instruction of the user's name computes.
LEMMA UserStep ==
  ASSUME NEW f, NEW b, NEW j, NEW O, NEW u, NEW s, NEW e, Meaning(f, O, b, j, u, s), ~Hidden(f.code[b][j]),
         HeldAt(f, u, s, e, b, j),
         NEW c, TakenHere(f, u, s, e, b, j, c),
         u.op = "phi" => c \in DOMAIN f.code[b][j].in
  PROVE  Computes(s, u, GetIn(e, u.x), GetIn(e, u.y), GetIn(e, u.in[O[c]]), ValueIn(e, c, f.code[b][j]))
<1>. DEFINE i == f.code[b][j]
            v == ValueIn(e, c, i)
            x == GetIn(e, u.x)
            y == GetIn(e, u.y)
<1>. HIDE DEF i, v, x, y
<1>1. i.op = "phi" => v = GetIn(e, i.in[c])
  BY DEF v, ValueIn
<1>2. i.op # "phi" => v = Compute(i.op, GetIn(e, i.x), GetIn(e, i.y))
  BY DEF v, ValueIn
<1>3. ASSUME u.op = "phi" PROVE v = GetIn(e, u.in[O[c]])
  <2>1. PhiOf(i, b, u, O)
    BY <1>3 DEF Meaning, i
  <2>. QED  BY <1>1, <1>3, <2>1 DEF PhiOf, i
<1>4. ASSUME u.op = "fadd"
      PROVE  v = IF ClampedAfter(s) THEN Limited(Compute(OperationAfter(s), x, y)) ELSE Compute(OperationAfter(s), x, y)
  <2>1. SumOf(f, b, j, u, s)
    BY <1>4 DEF Meaning
  <2>2. i.op = "phi" <=> ClampedAfter(s)
    BY <2>1 DEF SumOf, i
  <2>3. OperationAfter(s) # "phi"
    BY OperationIs
  <2>4. \/ i.op = OperationAfter(s) /\ i.x = u.x /\ i.y = u.y
        \/ i.op = "phi" /\ j = 1 /\ \E then, else, h \in DOMAIN f.code : Clamps(f, b, then, else, h)
    BY <2>1 DEF SumOf, i
  <2>5. CASE ~ClampedAfter(s)
    BY <1>2, <2>2, <2>3, <2>4, <2>5 DEF x, y
  <2>6. CASE ClampedAfter(s)
    <3>1. i.op = "phi" /\ j = 1 /\ \E then, else, h \in DOMAIN f.code : Clamps(f, b, then, else, h)
      BY <2>2, <2>3, <2>4, <2>6
    <3>2. GetIn(e, i.in[c]) = Limited(SumIn(s, e, u))
      BY <1>4, <3>1 DEF i, TakenHere
    <3>. QED  BY <1>1, <2>6, <3>1, <3>2 DEF SumIn, x, y
  <2>. QED  BY <2>5, <2>6
<1>5. ASSUME u.op \in Equality PROVE v = IF ConvertedAfter(s) THEN Converted(u.op, x, y) ELSE Compute(u.op, x, y)
  <2>1. CompareOf(f, b, j, u, s)
    BY <1>5 DEF Meaning
  <2>2. CASE ConvertedAfter(s)
    <3>1. i.op = NewPredicate[u.op] /\ i.y = Num(Epsilon) /\ After(f, b, j, "abs")
      BY <2>1, <2>2 DEF CompareOf, i
    <3>2. GetIn(e, i.x) = Abs(DifferenceIn(e, u))
      BY <1>5, <3>1, AfterIs DEF i
    <3>3. GetIn(e, i.y) = Num(Epsilon)
      BY <3>1 DEF GetIn, Num
    <3>4. NewPredicate[u.op] # "phi"
      BY <1>5 DEF NewPredicate, Equality
    <3>5. v = Compute(NewPredicate[u.op], Abs(Compute("fsub", x, y)), Num(Epsilon))
      BY <1>2, <3>1, <3>2, <3>3, <3>4 DEF DifferenceIn, x, y
    <3>. QED  BY <2>2, <3>5 DEF Converted
  <2>3. CASE ~ConvertedAfter(s)
    <3>1. i = u
      BY <2>1, <2>3 DEF CompareOf, i
    <3>2. i.op # "phi"
      BY <1>5, <3>1 DEF Equality
    <3>. QED  BY <1>2, <2>3, <3>1, <3>2 DEF x, y
  <2>. QED  BY <2>2, <2>3
<1>6. ASSUME IsOffset(u)
      PROVE  \E w \in Int :
                  /\ v = Compute(u.op, x, Integer(w))
                  /\ TurnsAfter(s) = 0 => w = u.y[2]
                  /\ SmallInt(u.y[2]) => w = IF TurnsAfter(s) % 2 = 0 THEN u.y[2] ELSE (-u.y[2]) % Word
  <2>1. OffsetOf(i, u, s)
    BY <1>6 DEF Meaning, i
  <2>. DEFINE w == i.y[2]
  <2>2. /\ i.op = u.op /\ i.x = u.x /\ i.y = Integer(w) /\ w \in Int
        /\ TurnsAfter(s) = 0 => w = u.y[2]
        /\ SmallInt(u.y[2]) => w = IF TurnsAfter(s) % 2 = 0 THEN u.y[2] ELSE (-u.y[2]) % Word
    BY <2>1, Zenon DEF OffsetOf
  <2>. HIDE DEF w
  <2>3. u.op # "phi"
    BY <1>6 DEF IsOffset
  <2>4. GetIn(e, Integer(w)) = Integer(w)
    BY DEF GetIn, Integer
  <2>5. v = Compute(u.op, x, Integer(w))
    BY <1>2, <2>2, <2>3, <2>4 DEF x
  <2>. QED  BY <2>2, <2>5, Zenon
<1>7. ASSUME u.op \notin {"phi", "fadd"} \cup Equality, ~IsOffset(u) PROVE v = Compute(u.op, x, y)
  <2>1. i = u
    BY <1>7 DEF Meaning, i
  <2>. QED  BY <1>2, <1>7, <2>1 DEF x, y
<1>8. Computes(s, u, x, y, GetIn(e, u.in[O[c]]), v)
  BY <1>3, <1>4, <1>5, <1>6, <1>7, Zenon DEF Computes
<1>. QED  BY <1>8 DEF i, v, x, y

-----------------------------------------------------------------------------
(* What SourceProgram lets an instruction compute.                         *)

\* SourceProgram sees the same values,
LEMMA SourceGet ==
  ASSUME NEW o, o[1] = "val" => o[2] \in DOMAIN env /\ o[2] \in 1 .. fn.last, fn.last \in Nat
  PROVE  Source!Get(o) = GetIn(env, o)
BY DEF Source!Get, GetIn

\* computes the same,
LEMMA SourceValues ==
  /\ \A n : Source!Num(n) = Num(n) /\ Source!Bool(n) = Bool(n) /\ Source!Integer(n) = Integer(n)
  /\ \A a : Source!Minus(a) = Minus(a) /\ Source!Abs(a) = Abs(a)
  /\ \A a, b : Source!Near(a, b) <=> Near(a, b)
  /\ \A a, b : Source!Less(a, b) <=> Less(a, b)
  /\ \A op, a, b : Source!Compute(op, a, b) = Compute(op, a, b)
  /\ \A n, m : Source!Signed(n, m) = Signed(n, m)
  /\ Source!Predicate = Predicate
  /\ \A s : Source!ToSet(s) = ToSet(s) /\ Source!Cardinality(s) = Cardinality(s)
<1>1. /\ \A n : Source!Num(n) = Num(n) /\ Source!Bool(n) = Bool(n) /\ Source!Integer(n) = Integer(n)
      /\ Source!NaN = NaN /\ Source!Inf = Inf
  BY DEF Source!Num, Num, Source!Bool, Bool, Source!Integer, Integer, Source!NaN, NaN, Source!Inf, Inf
<1>2. \A a : Source!Minus(a) = Minus(a)
  BY DEF Source!Minus, Minus
<1>3. \A a : Source!Abs(a) = Abs(a)
  BY <1>2 DEF Source!Abs, Abs
<1>4. \A a, b : Source!Near(a, b) <=> Near(a, b)
  BY <1>1, <1>3 DEF Source!Near, Near
<1>5. \A a : Source!Rank(a) = Rank(a)
  BY DEF Source!Rank, Rank
<1>6. \A a, b : Source!Relation(a, b) = Relation(a, b)
  BY <1>1, <1>5, Zenon DEF Source!Relation, Relation
<1>7. \A a, b : Source!Less(a, b) <=> Less(a, b)
  BY <1>6 DEF Source!Less, Less
<1>8. \A n : Source!Rounded(n) = Rounded(n)
  BY <1>1, <1>2 DEF Source!Rounded, Rounded
<1>9. \A a, b : Source!FloatSum(a, b) = FloatSum(a, b)
  BY <1>1, <1>2, <1>8, Zenon DEF Source!FloatSum, FloatSum
<1>10. \A a, b : Source!Hook(a, b) = Hook(a, b)
  BY <1>1, <1>7, <1>9, Zenon DEF Source!Hook, Hook
<1>11. Source!Predicate = Predicate
  BY DEF Source!Predicate, Predicate
<1>12. \A op, a, b : Source!Compute(op, a, b) = Compute(op, a, b)
  BY <1>1, <1>2, <1>3, <1>6, <1>9, <1>10, <1>11, Zenon DEF Source!Compute, Compute
<1>13. \A n, m : Source!Signed(n, m) = Signed(n, m)
  BY DEF Source!Signed, Signed
<1>14. \A s : Source!ToSet(s) = ToSet(s)
  BY DEF Source!ToSet, ToSet
<1>15. \A s : Source!Cardinality(s) = Cardinality(s)
  BY DEF Source!Cardinality, Cardinality
<1>. QED  BY <1>1, <1>2, <1>3, <1>4, <1>7, <1>11, <1>12, <1>13, <1>14, <1>15

\* and counts the same runs.
LEMMA SourceOperation ==
  /\ Source!Operation = OperationAfter(ran) /\ (Source!Clamped <=> ClampedAfter(ran)) /\ Source!Turns = TurnsAfter(ran)
  /\ \A c : Source!IsInt(c) <=> SmallInt(c)
<1>1. Source!Renamed = RenamedIn(ran)
  BY DEF Source!Renamed, RenamedIn
<1>2. Source!Operation = OperationAfter(ran)
  BY <1>1 DEF Source!Operation, OperationAfter
<1>3. Source!Clamped <=> ClampedAfter(ran)
  BY <1>1 DEF Source!Clamped, ClampedAfter
<1>4. Source!Turns = TurnsAfter(ran)
  BY SourceValues DEF Source!Turns, TurnsAfter
<1>5. \A c : Source!IsInt(c) <=> SmallInt(c)
  BY SourceValues DEF Source!IsInt, SmallInt
<1>. QED  BY <1>2, <1>3, <1>4, <1>5

\* What SourceProgram lets the instruction u compute, M.
Lets(s, u, x, y, q, M) ==
  /\ u.op = "phi" => M = {q}
  /\ u.op = "fadd" => M = LET r == Compute(OperationAfter(s), x, y) IN {IF ClampedAfter(s) THEN Limited(r) ELSE r}
  /\ u.op \in Equality =>
       M = IF ~ConvertedAfter(s) THEN {Compute(u.op, x, y)}
           ELSE IF Near(x, y) THEN {Bool("equal" \in Predicate[u.op])}
           ELSE IF x[1] = "inf" /\ x = y THEN {Bool(FALSE), Bool(TRUE)}
           ELSE {Compute(u.op, x, y)}
  /\ IsOffset(u) =>
       M = IF TurnsAfter(s) = 0 THEN {Compute(u.op, x, y)}
           ELSE IF SmallInt(u.y[2]) THEN {Compute(u.op, x, Integer(IF TurnsAfter(s) % 2 = 0 THEN u.y[2] ELSE -u.y[2]))}
           ELSE Values["int"]
  /\ u.op \notin {"phi", "fadd"} \cup Equality /\ ~IsOffset(u) => M = {Compute(u.op, x, y)}

\* What it takes an instruction for.
LEMMA SourceMeanings ==
  ASSUME NEW u, NEW x, NEW y, NEW q, u.op # "phi" => Source!Get(u.x) = x /\ Source!Get(u.y) = y,
         u.op = "phi" => Source!Get(u.in[from]) = q
  PROVE  Lets(ran, u, x, y, q, Source!Meanings(u))
<1>1. u.op = "phi" => Source!Meanings(u) = {q}
  BY DEF Source!Meanings
<1>2. ASSUME u.op = "fadd"
      PROVE  Source!Meanings(u) =
              LET r == Compute(OperationAfter(ran), x, y) IN {IF ClampedAfter(ran) THEN Limited(r) ELSE r}
  <2>1. Source!Meanings(u) = {Source!Added(x, y)}
    BY <1>2 DEF Source!Meanings
  <2>2. Source!Added(x, y) = LET r == Compute(OperationAfter(ran), x, y) IN IF ClampedAfter(ran) THEN Limited(r) ELSE r
    BY SourceOperation, SourceValues DEF Source!Added, Limited
  <2>. QED  BY <2>1, <2>2
<1>3. ASSUME u.op \in Equality
      PROVE  Source!Meanings(u) =
              IF ~ConvertedAfter(ran) THEN {Compute(u.op, x, y)}
              ELSE IF Near(x, y) THEN {Bool("equal" \in Predicate[u.op])}
              ELSE IF x[1] = "inf" /\ x = y THEN {Bool(FALSE), Bool(TRUE)}
              ELSE {Compute(u.op, x, y)}
  <2>1. Source!Meanings(u) = Source!Compared(u.op, x, y)
    BY <1>3 DEF Source!Meanings, Equality
  <2>. QED  BY <2>1, SourceValues, Zenon DEF Source!Compared, ConvertedAfter
<1>4. u.op \in {"add", "sub"} => Source!Meanings(u) = Source!Offset(u.op, x, u.y)
  BY DEF Source!Meanings
<1>5. ASSUME IsOffset(u)
      PROVE  Source!Meanings(u) =
              IF TurnsAfter(ran) = 0 THEN {Compute(u.op, x, y)}
              ELSE IF SmallInt(u.y[2]) THEN {Compute(u.op, x, Integer(IF TurnsAfter(ran) % 2 = 0 THEN u.y[2] ELSE -u.y[2]))}
              ELSE Values["int"]
  <2>1. u.op \in {"add", "sub"} /\ u.y[1] = "int"
    BY <1>5 DEF IsOffset
  <2>2. Values["int"] = {Integer(v) : v \in 0 .. Word - 1}
    BY DEF Values
  <2>. QED  BY <1>4, <2>1, <2>2, SourceOperation, SourceValues, Zenon DEF Source!Offset
<1>6. ASSUME u.op \notin {"phi", "fadd"} \cup Equality, ~IsOffset(u) PROVE Source!Meanings(u) = {Compute(u.op, x, y)}
  <2>2. CASE u.op \in {"add", "sub"}
    <3>1. u.y[1] # "int"
      BY <1>6, <2>2 DEF IsOffset
    <3>. QED  BY <1>4, <2>2, <3>1, SourceValues, Zenon DEF Source!Offset
  <2>3. CASE u.op \notin {"add", "sub"}
    BY <1>6, <2>3, SourceValues DEF Source!Meanings, Equality
  <2>. QED  BY <2>2, <2>3
<1>. QED  BY <1>1, <1>2, <1>3, <1>5, <1>6, Zenon DEF Lets

\* What convert_fcmp_eq makes of a comparison is what it may compute.
LEMMA ComparedIs ==
  ASSUME NEW op \in Equality, NEW x \in Number, NEW y \in Number
  PROVE  /\ Converted(op, x, y) \in
              IF Near(x, y) THEN {Bool("equal" \in Predicate[op])}
              ELSE IF x[1] = "inf" /\ x = y THEN {Bool(FALSE), Bool(TRUE)}
              ELSE {Compute(op, x, y)}
         /\ Converted(op, x, y) \in Values["bool"]
<1>1. NewPredicate[op] \in DOMAIN Predicate
  BY DEF NewPredicate, Predicate, Equality
<1>2. Converted(op, x, y) \in Values["bool"]
  BY <1>1, ComputedTypes DEF Converted
<1>3. \A z \in {Inf, Minus(Inf)} : z[1] = "inf"
  BY DEF Inf, Minus
<1>4. x[1] = "inf" => x \in {Inf, Minus(Inf)}
  BY DEF Number, NaN, Inf, Minus, Num
<1>5. Near(x, y) => x[1] = "num"
  BY DEF Near
<1>6. CASE x = y /\ x \in {Inf, Minus(Inf)}
  <2>1. Converted(op, x, y) = Bool(op \in {"ueq", "une"})
    BY <1>6, ConvertedInfinities
  <2>2. Bool(op \in {"ueq", "une"}) \in {Bool(FALSE), Bool(TRUE)}
    BY DEF Bool
  <2>3. ~Near(x, y) /\ x[1] = "inf"
    BY <1>3, <1>5, <1>6
  <2>. QED  BY <1>2, <1>6, <2>1, <2>2, <2>3
<1>7. CASE ~(x = y /\ x \in {Inf, Minus(Inf)})
  <2>1. Converted(op, x, y) = IF Near(x, y) THEN Bool("equal" \in Predicate[op]) ELSE Compute(op, x, y)
    BY <1>7, ConvertedComparison
  <2>2. ~(x[1] = "inf" /\ x = y)
    BY <1>4, <1>7
  <2>. QED  BY <1>2, <2>1, <2>2
<1>. QED  BY <1>6, <1>7

\* The operands of u have the values x and y of u's type, or q.
OperandsAre(u, t, x, y, q) ==
  /\ u.op = "phi" => q \in Values[t]
  /\ u.op \in {"fadd", "fsub", "hook", "abs"} => t = "number" /\ x \in Number /\ y \in Number
  /\ u.op \in DOMAIN Predicate => t = "bool" /\ x \in Number /\ y \in Number
  /\ u.op \in {"add", "sub"} => t = "int" /\ x \in Values["int"] /\ y \in Values["int"]
  /\ u.op \in {"phi", "fadd", "fsub", "hook", "abs", "add", "sub"} \cup DOMAIN Predicate

\* What it computes is what SourceProgram lets it.
LEMMA ComputesLets ==
  ASSUME NEW u, NEW t, NEW x, NEW y, NEW q, OperandsAre(u, t, x, y, q), NEW s, NEW v, Computes(s, u, x, y, q, v),
         NEW M, Lets(s, u, x, y, q, M), NEW d, IsOffset(u) => d \in Int /\ u.y[2] = d /\ y = Integer(d)
  PROVE  v \in M /\ v \in Values[t]
<1>1. ASSUME u.op = "phi" PROVE v \in M /\ v \in Values[t]
  <2>1. v = q /\ M = {q} /\ q \in Values[t]
    BY <1>1, Zenon DEF Computes, Lets, OperandsAre
  <2>. QED  BY <2>1
<1>2. ASSUME u.op = "fadd" PROVE v \in M /\ v \in Values[t]
  <2>. DEFINE r == Compute(OperationAfter(s), x, y)
  <2>1. t = "number" /\ x \in Number /\ y \in Number
    BY <1>2 DEF OperandsAre
  <2>2. v = (IF ClampedAfter(s) THEN Limited(r) ELSE r) /\ M = {IF ClampedAfter(s) THEN Limited(r) ELSE r}
    BY <1>2, Zenon DEF Computes, Lets
  <2>3. r \in Number
    BY <2>1, OperationIs, ComputedTypes
  <2>. HIDE DEF r
  <2>4. Limited(r) \in Number
    BY <2>3, LimitedIs
  <2>5. Values["number"] = Number
    BY DEF Values
  <2>. QED  BY <2>1, <2>2, <2>3, <2>4, <2>5
<1>3. ASSUME u.op \in Equality PROVE v \in M /\ v \in Values[t]
  <2>1. u.op \in DOMAIN Predicate
    BY <1>3 DEF Equality, Predicate
  <2>2. t = "bool" /\ x \in Number /\ y \in Number
    BY <2>1 DEF OperandsAre
  <2>3. CASE ConvertedAfter(s)
    <3>1. v = Converted(u.op, x, y)
      BY <1>3, <2>3, Zenon DEF Computes
    <3>2. v \in Values["bool"]
      BY <1>3, <2>2, <3>1, ComparedIs
    <3>3. v \in IF Near(x, y) THEN {Bool("equal" \in Predicate[u.op])}
                ELSE IF x[1] = "inf" /\ x = y THEN {Bool(FALSE), Bool(TRUE)}
                ELSE {Compute(u.op, x, y)}
      BY <1>3, <2>2, <3>1, ComparedIs
    <3>4. v \in M
      BY <1>3, <2>3, <3>3, Zenon DEF Lets
    <3>. QED  BY <2>2, <3>2, <3>4
  <2>4. CASE ~ConvertedAfter(s)
    <3>1. v = Compute(u.op, x, y) /\ M = {Compute(u.op, x, y)}
      BY <1>3, <2>4, Zenon DEF Computes, Lets
    <3>2. v \in Values["bool"]
      BY <2>1, <3>1, ComputedTypes
    <3>. QED  BY <2>2, <3>1, <3>2
  <2>. QED  BY <2>3, <2>4
<1>4. ASSUME u.op \in {"add", "sub"} PROVE t = "int" /\ x[2] \in Int /\ y[2] \in Int
  BY <1>4 DEF OperandsAre, Values, Integer
<1>5. ASSUME IsOffset(u) PROVE v \in M /\ v \in Values[t]
  <2>1. u.op \in {"add", "sub"} /\ t = "int" /\ x[2] \in Int /\ d \in Int /\ y = Integer(d)
    BY <1>4, <1>5 DEF IsOffset
  <2>2. PICK w \in Int :
           /\ v = Compute(u.op, x, Integer(w))
           /\ TurnsAfter(s) = 0 => w = d
           /\ SmallInt(d) => w = IF TurnsAfter(s) % 2 = 0 THEN d ELSE (-d) % Word
    BY <1>5, Zenon DEF Computes
  <2>3. M = IF TurnsAfter(s) = 0 THEN {Compute(u.op, x, y)}
            ELSE IF SmallInt(d) THEN {Compute(u.op, x, Integer(IF TurnsAfter(s) % 2 = 0 THEN d ELSE -d))}
            ELSE Values["int"]
    BY <1>5, Zenon DEF Lets
  <2>4. v \in Values["int"]
    <3>1. Integer(w)[2] = w
      BY DEF Integer
    <3>. QED  BY <2>1, <2>2, <3>1, ComputedTypes
  <2>5. CASE TurnsAfter(s) = 0
    BY <2>1, <2>2, <2>3, <2>4, <2>5
  <2>6. CASE TurnsAfter(s) # 0 /\ SmallInt(d)
    <3>1. Compute(u.op, x, Integer((-d) % Word)) = Compute(u.op, x, Integer(-d))
      BY <2>1, OffsetIs
    <3>2. v = Compute(u.op, x, Integer(IF TurnsAfter(s) % 2 = 0 THEN d ELSE -d))
      BY <2>2, <2>6, <3>1
    <3>. QED  BY <2>1, <2>3, <2>4, <2>6, <3>2
  <2>7. CASE TurnsAfter(s) # 0 /\ ~SmallInt(d)
    BY <2>1, <2>3, <2>4, <2>7
  <2>. QED  BY <2>5, <2>6, <2>7
<1>6. ASSUME u.op \notin {"phi", "fadd"} \cup Equality, ~IsOffset(u) PROVE v \in M /\ v \in Values[t]
  <2>1. v = Compute(u.op, x, y) /\ M = {Compute(u.op, x, y)}
    BY <1>6, Zenon DEF Computes, Lets
  <2>2. CASE u.op \in {"fsub", "hook", "abs"}
    <3>1. t = "number" /\ x \in Number /\ y \in Number
      BY <2>2 DEF OperandsAre
    <3>2. v \in Number
      BY <2>1, <2>2, <3>1, ComputedTypes
    <3>3. Values["number"] = Number
      BY DEF Values
    <3>. QED  BY <2>1, <3>1, <3>2, <3>3
  <2>3. CASE u.op \in DOMAIN Predicate
    <3>1. t = "bool"
      BY <2>3 DEF OperandsAre
    <3>2. v \in Values["bool"]
      BY <2>1, <2>3, ComputedTypes
    <3>. QED  BY <2>1, <3>1, <3>2
  <2>4. CASE u.op \in {"add", "sub"}
    <3>1. v \in Values["int"]
      BY <1>4, <2>1, <2>4, ComputedTypes
    <3>. QED  BY <1>4, <2>1, <2>4, <3>1
  <2>. QED  BY <1>6, <2>2, <2>3, <2>4 DEF OperandsAre
<1>. QED  BY <1>1, <1>2, <1>3, <1>5, <1>6, Zenon

\* The instruction of the user's name computes what SourceProgram lets it.
LEMMA MeaningsHave ==
  ASSUME fn \in Functions, NEW type, Typing(type), NEW a \in DOMAIN fn.code, NEW k \in DOMAIN fn.code[a],
         Knows(type, env, <<a, k>>, from),
         NEW f, NEW b, NEW j, NEW O, NEW u, u = fn.code[a][k], Meaning(f, O, b, j, u, ran), ~Hidden(f.code[b][j]),
         HeldAt(f, u, ran, env, b, j),
         NEW c, TakenHere(f, u, ran, env, b, j, c),
         u.op = "phi" => c \in DOMAIN f.code[b][j].in /\ O[c] = from
  PROVE  LET v == ValueIn(env, c, f.code[b][j])
         IN  v \in Source!Meanings(u) /\ v \in Values[type[u.name]]
<1>. DEFINE v == ValueIn(env, c, f.code[b][j])
            x == GetIn(env, u.x)
            y == GetIn(env, u.y)
            q == GetIn(env, u.in[from])
            M == Source!Meanings(u)
            t == type[u.name]
            d == u.y[2]
<1>1. OperandsReady(type, env, u, from)
  BY ReadyOperands
<1>2. fn.last \in Nat /\ u \in Insts(fn)
  BY UserNames, InstsAre
<1>3. Computes(ran, u, x, y, q, v)
  <2>1. Computes(ran, u, x, y, GetIn(env, u.in[O[c]]), v)
    BY UserStep
  <2>. HIDE DEF x, y, v
  <2>. QED  BY <2>1, Zenon DEF Computes
<1>4. \A o, T : Ready(env, o, T) => Source!Get(o) = GetIn(env, o) /\ GetIn(env, o) \in Values[T]
  BY <1>2, SourceGet DEF Ready
<1>5. Values["number"] = Number
  BY DEF Values
<1>6. OperandsAre(u, t, x, y, q)
  BY <1>1, <1>4, <1>5, Zenon DEF OperandsReady, OperandsAre
<1>7. u.op # "phi" => Source!Get(u.x) = x /\ Source!Get(u.y) = y
  BY <1>1, <1>4 DEF OperandsReady
<1>8. u.op = "phi" => Source!Get(u.in[from]) = q
  BY <1>1, <1>4 DEF OperandsReady
<1>9. IsOffset(u) => d \in Int /\ u.y[2] = d /\ y = Integer(d)
  <2>1. IsOffset(u) => u.y = Integer(u.y[2]) /\ u.y[2] \in 0 .. Word - 1 /\ u.y[1] = "int"
    BY <1>2, ConstantsAre DEF IsOffset
  <2>. QED  BY <2>1, FloatsAssumption DEF GetIn
<1>. HIDE DEF x, y, q, v, M, t, d
<1>10. Lets(ran, u, x, y, q, M)
  BY <1>7, <1>8, SourceMeanings DEF M
<1>11. v \in M /\ v \in Values[t]
  BY <1>3, <1>6, <1>9, <1>10, ComputesLets
<1>. QED  BY <1>11 DEF v, M, t

-----------------------------------------------------------------------------
(* The program of the file f is at the j-th instruction of b, came from c  *)
(* and has computed e; the user's function is at a and came from p.        *)

\* The PHI of a limited addition takes the sum, or the limit.
TakenAt(f, O, K, s, e, b, j, c) ==
  \A t, then, else, h \in DOMAIN f.code :
    LET i == f.code[t][1]
        u == fn.code[O[t]][K[t][1]]
    IN  1 \in DOMAIN f.code[t] /\ i.op = "phi" /\ u.op = "fadd" /\ Clamps(f, t, then, else, h) =>
          /\ b \in {then, else} => GetIn(e, i.in[b]) = Limited(SumIn(s, e, u))
          /\ b = t /\ j = 1 => GetIn(e, i.in[c]) = Limited(SumIn(s, e, u))

\* The one is where the other is, for all that the rest of the run depends on.
Simulates(f, O, K, s, type, e, b, j, c, a, p) ==
  /\ Typing(type) /\ Knows(type, e, a, p)
  /\ a = <<O[b], K[b][j]>>
  /\ b # fn.entry => c \in Preds(f, b) /\ (b \in DOMAIN fn.code => p = O[c])
  /\ HeldAt(f, fn.code[O[b]][K[b][j]], s, e, b, j)
  /\ TakenAt(f, O, K, s, e, b, j, c)

\* What the places of an instruction and of the user's it works for are.
LEMMA PlacesAre ==
  ASSUME fn \in Functions, NEW f, NEW O, NEW K, Follows(f, O, K), NEW s, NEW type, NEW e,
         NEW b \in DOMAIN f.code, NEW j \in DOMAIN f.code[b], NEW c, NEW a, NEW p,
         Simulates(f, O, K, s, type, e, b, j, c, a, p)
  PROVE  LET i == f.code[b][j] IN
         /\ a = <<a[1], a[2]>> /\ a[1] = O[b] /\ a[2] = K[b][j]
         /\ a[1] \in DOMAIN fn.code /\ a[2] \in DOMAIN fn.code[a[1]]
         /\ Hidden(i) => K[b][j + 1] = K[b][j]
         /\ ~Hidden(i) => K[b][j + 1] = a[2] + 1 /\ i.name = fn.code[a[1]][a[2]].name
<1>1. a = <<O[b], K[b][j]>>
  BY DEF Simulates
<1>2. /\ O[b] \in DOMAIN fn.code /\ K[b][j] \in DOMAIN fn.code[O[b]]
      /\ IF Hidden(f.code[b][j]) THEN K[b][j + 1] = K[b][j]
         ELSE K[b][j + 1] = K[b][j] + 1 /\ fn.code[O[b]][K[b][j]].name = f.code[b][j].name
  BY DEF Follows
<1>. QED  BY <1>1, <1>2

\* The PHI of a limited addition is where TakenAt says.
LEMMA PhiTakes ==
  ASSUME NEW f, NEW O, NEW K, NEW s, NEW e, NEW b \in DOMAIN f.code, NEW j \in DOMAIN f.code[b], NEW c,
         TakenAt(f, O, K, s, e, b, j, c), NEW u, u = fn.code[O[b]][K[b][j]]
  PROVE  TakenHere(f, u, s, e, b, j, c)
BY DEF TakenAt, TakenHere

\* Nothing is taken within a block.
LEMMA WithinBlock ==
  ASSUME NEW f, NEW O, NEW K, NEW s, NEW e, NEW b \in DOMAIN f.code, NEW j \in Nat \ {0}, NEW c, DOMAIN f.code[b] # {}
  PROVE  TakenAt(f, O, K, s, e, b, j + 1, c)
<1>1. j + 1 # 1
  OBVIOUS
<1>2. ASSUME NEW t \in DOMAIN f.code, NEW then \in DOMAIN f.code, NEW else \in DOMAIN f.code, NEW h \in DOMAIN f.code,
             Clamps(f, t, then, else, h)
      PROVE  b \notin {then, else}
  BY <1>2 DEF Clamps
<1>. QED  BY <1>1, <1>2 DEF TakenAt

\* The operands of the user's instruction that is next have values.
LEMMA NextReady ==
  ASSUME fn \in Functions, NEW type, Typing(type), NEW e, NEW a, NEW p, Knows(type, e, a, p), NEW m, NEW n, a = <<m, n>>,
         m \in DOMAIN fn.code, n \in DOMAIN fn.code[m]
  PROVE  NumbersReady(e, fn.code[m][n])
<1>. DEFINE u == fn.code[m][n]
<1>1. OperandsReady(type, e, u, p)
  BY ReadyOperands
<1>2. Equality \subseteq DOMAIN Predicate
  BY DEF Equality, Predicate
<1>. HIDE DEF u
<1>3. NumbersReady(e, u)
  BY <1>1, <1>2 DEF NumbersReady, OperandsReady
<1>. QED  BY <1>3 DEF u

\* An instruction that a tool put in is no step of the user's.
LEMMA HiddenSimulates ==
  ASSUME fn \in Functions, NEW f, NEW top \in Nat, WellFormed(f, top), NEW O, NEW K, Follows(f, O, K),
         NEW s, Means(f, O, K, {}, s, s), NEW type, NEW e,
         NEW b \in DOMAIN f.code, NEW j \in DOMAIN f.code[b], NEW c, NEW a, NEW p,
         Simulates(f, O, K, s, type, e, b, j, c, a, p), Hidden(f.code[b][j])
  PROVE  Simulates(f, O, K, s, type, With(e, f.code[b][j].name, ValueIn(e, c, f.code[b][j])), b, j + 1, c, a, p)
<1>. DEFINE i == f.code[b][j]
            v == ValueIn(e, c, i)
            E == With(e, i.name, v)
            u == fn.code[O[b]][K[b][j]]
<1>1. /\ a = <<a[1], a[2]>> /\ a[1] = O[b] /\ a[2] = K[b][j]
      /\ a[1] \in DOMAIN fn.code /\ a[2] \in DOMAIN fn.code[a[1]] /\ K[b][j + 1] = K[b][j]
  BY PlacesAre
<1>2. /\ Typing(type) /\ Knows(type, e, a, p)
      /\ a = <<O[b], K[b][j]>>
      /\ b # fn.entry => c \in Preds(f, b) /\ (b \in DOMAIN fn.code => p = O[c])
      /\ HeldAt(f, u, s, e, b, j)
      /\ TakenAt(f, O, K, s, e, b, j, c)
  BY DEF Simulates
<1>3. DOMAIN f.code[b] = 1 .. Len(f.code[b]) /\ Len(f.code[b]) \in Nat /\ i.name \in 1 .. top /\ j \in Nat \ {0}
  BY CodeIs
<1>4. Meaning(f, O, b, j, u, s)
  BY DEF Means
<1>5. i.name \in Int /\ i.name > fn.last
  BY <1>3 DEF Hidden
<1>6. Knows(type, E, a, p)
  <2>. HIDE DEF i, v
  <2>. QED  BY <1>2, <1>5, HiddenKnows
<1>7. NumbersReady(e, u)
  <2>1. a = <<O[b], K[b][j]>> /\ O[b] \in DOMAIN fn.code /\ K[b][j] \in DOMAIN fn.code[O[b]]
    BY <1>1, <1>2
  <2>. QED  BY <1>2, <2>1, NextReady
<1>8. TakenHere(f, u, s, e, b, j, c)
  BY <1>2, PhiTakes
<1>9. HeldAt(f, u, s, E, b, j + 1)
  <2>. HIDE DEF u
  <2>. QED  BY <1>2, <1>4, <1>7, <1>8, HiddenStep
<1>10. fn.code[O[b]][K[b][j + 1]] = u
  BY <1>1
<1>11. TakenAt(f, O, K, s, E, b, j + 1, c)
  BY <1>3, WithinBlock
<1>. HIDE DEF u, E
<1>12. a = <<O[b], K[b][j + 1]>>
  BY <1>1, <1>2
<1>13. Simulates(f, O, K, s, type, E, b, j + 1, c, a, p)
  BY <1>2, <1>6, <1>9, <1>10, <1>11, <1>12 DEF Simulates
<1>. QED  BY <1>13 DEF E

\* An instruction with a name of the user's is the user's step.
LEMMA UserSimulates ==
  ASSUME fn \in Functions, NEW f, NEW top \in Nat, WellFormed(f, top), NEW O, NEW K, Follows(f, O, K), NEW s,
         NEW type, NEW e, NEW b \in DOMAIN f.code, NEW j \in DOMAIN f.code[b], NEW c, NEW a, NEW p,
         Simulates(f, O, K, s, type, e, b, j, c, a, p), ~Hidden(f.code[b][j]), NEW v \in Values[type[f.code[b][j].name]]
  PROVE  Simulates(f, O, K, s, type, With(e, f.code[b][j].name, v), b, j + 1, c, <<a[1], a[2] + 1>>, p)
<1>. DEFINE i == f.code[b][j]
            E == With(e, i.name, v)
<1>1. /\ a = <<a[1], a[2]>> /\ a[1] = O[b] /\ a[2] = K[b][j]
      /\ a[1] \in DOMAIN fn.code /\ a[2] \in DOMAIN fn.code[a[1]]
      /\ K[b][j + 1] = a[2] + 1 /\ i.name = fn.code[a[1]][a[2]].name
  BY PlacesAre
<1>2. /\ Typing(type) /\ Knows(type, e, a, p)
      /\ b # fn.entry => c \in Preds(f, b) /\ (b \in DOMAIN fn.code => p = O[c])
  BY DEF Simulates
<1>3. DOMAIN f.code[b] = 1 .. Len(f.code[b]) /\ Len(f.code[b]) \in Nat /\ j \in Nat \ {0}
  BY CodeIs
<1>4. Knows(type, E, <<a[1], a[2] + 1>>, p)
  <2>1. PICK m, n : m = a[1] /\ n = a[2]
    OBVIOUS
  <2>2. m \in DOMAIN fn.code /\ n \in DOMAIN fn.code[m] /\ Knows(type, e, <<m, n>>, p) /\ i.name = fn.code[m][n].name
    BY <1>1, <1>2, <2>1, Zenon
  <2>3. v \in Values[type[fn.code[m][n].name]]
    BY <2>2
  <2>4. Knows(type, With(e, fn.code[m][n].name, v), <<m, n + 1>>, p)
    BY <1>2, <2>2, <2>3, UserKnows
  <2>. QED  BY <2>1, <2>2, <2>4, Zenon
<1>5. TakenAt(f, O, K, s, E, b, j + 1, c)
  BY <1>3, WithinBlock
<1>6. (j + 1) - 1 = j
  BY <1>3
<1>7. HeldAt(f, fn.code[O[b]][K[b][j + 1]], s, E, b, j + 1)
  BY <1>6, Zenon DEF HeldAt
<1>. HIDE DEF E
<1>8. <<a[1], a[2] + 1>> = <<O[b], K[b][j + 1]>>
  BY <1>1, Zenon
<1>9. Simulates(f, O, K, s, type, E, b, j + 1, c, <<a[1], a[2] + 1>>, p)
  BY <1>2, <1>4, <1>5, <1>7, <1>8, Zenon DEF Simulates
<1>. QED  BY <1>9 DEF E

\* The program has come to the end of b.
EndsAt(f, O, K, s, type, e, b, c, a, p) == Simulates(f, O, K, s, type, e, b, Len(f.code[b]) + 1, c, a, p)

\* An empty block has the length 0.
LEMMA EmptyRange ==
  ASSUME NEW k \in Nat, 1 .. k = {}
  PROVE  k = 0
<1>1. k > 0 => 1 \in 1 .. k
  OBVIOUS
<1>. QED  BY <1>1

\* Nothing is held at the head of a block.
LEMMA HeldAtHead ==
  ASSUME NEW f, NEW u, NEW s, NEW e, NEW b
  PROVE  HeldAt(f, u, s, e, b, 1)
BY DEF HeldAt

\* Where a block goes on.
NextOf(e, br) == IF Len(br.to) = 2 /\ GetIn(e, br.cond) = Bool(FALSE) THEN br.to[2] ELSE br.to[1]

\* A block goes on to one of its successors.
LEMMA NextIs ==
  ASSUME NEW f, NEW top, WellFormed(f, top), NEW b \in DOMAIN f.code, f.br[b].to # << >>, NEW e
  PROVE  /\ NextOf(e, f.br[b]) \in ToSet(f.br[b].to) /\ NextOf(e, f.br[b]) \in DOMAIN f.code
         /\ b \in Preds(f, NextOf(e, f.br[b])) /\ Len(f.br[b].to) \in Nat \ {0}
<1>. DEFINE to == f.br[b].to
            n == NextOf(e, f.br[b])
<1>1. to \in Seq(DOMAIN f.code) /\ DOMAIN f.br = DOMAIN f.code
  BY DEF WellFormed, IsBr
<1>2. Len(to) \in Nat \ {0} /\ DOMAIN to = 1 .. Len(to)
  BY <1>1, EmptySeq, LenProperties
<1>3. n = to[1] \/ (Len(to) = 2 /\ n = to[2])
  BY DEF NextOf
<1>. HIDE DEF n, to
<1>4. PICK k \in 1 .. Len(to) : n = to[k]
  BY <1>2, <1>3
<1>5. n \in ToSet(to)
  BY <1>2, <1>4 DEF ToSet
<1>6. n \in DOMAIN f.code
  BY <1>1, <1>4, ElementOfSeq
<1>. QED  BY <1>1, <1>2, <1>5, <1>6 DEF n, to, Preds

\* At the end of the header of a limited addition the one of the two blocks is taken whose
\* value is the limited sum.
LEMMA HeaderTakes ==
  ASSUME fn \in Functions, NEW f, NEW top \in Nat, WellFormed(f, top), NEW O, NEW K, Follows(f, O, K),
         NEW s, NEW type, NEW e, NEW h \in DOMAIN f.code, NEW c, NEW a, NEW p,
         EndsAt(f, O, K, s, type, e, h, c, a, p),
         NEW t \in DOMAIN f.code, NEW then, NEW else, Clamps(f, t, then, else, h), 1 \in DOMAIN f.code[t],
         fn.code[O[t]][K[t][1]].op = "fadd"
  PROVE  LET i == f.code[t][1]
             u == fn.code[O[t]][K[t][1]]
         IN  GetIn(e, i.in[NextOf(e, f.br[h])]) = Limited(SumIn(s, e, u))
<1>. DEFINE i == f.code[t][1]
            u == fn.code[O[t]][K[t][1]]
            m == Len(f.code[h])
            S == SumIn(s, e, u)
            n == f.code[h][m - 1].name
<1>1. DOMAIN f.code[h] = 1 .. m /\ m \in Nat
  BY CodeIs
<1>2. /\ {then, else, h} \subseteq DOMAIN f.code /\ then # else
      /\ DOMAIN i.in = {then, else} /\ i.in[then] = Num(Limit) /\ m > 1 /\ i.in[else] = Val(n)
      /\ \A d \in {then, else} : DOMAIN f.code[d] = {} /\ f.br[d].to = <<t>> /\ ~f.br[d].user
      /\ f.br[h].to = <<then, else>> /\ f.br[h].cond = Val(f.code[h][m].name) /\ ~f.br[h].user
      /\ f.code[h][m].op = "ogt" /\ Hidden(f.code[h][m]) /\ Hidden(f.code[h][m - 1])
  BY DEF Clamps
<1>3. Len(f.code[then]) = 0
  <2>1. DOMAIN f.code[then] = 1 .. Len(f.code[then]) /\ Len(f.code[then]) \in Nat /\ DOMAIN f.code[then] = {}
    BY <1>2, CodeIs
  <2>. QED  BY <2>1, EmptyRange
<1>4. O[then] = O[h] /\ K[then][1] = K[h][m + 1]
  <2>1. ~f.br[h].user /\ then \in ToSet(f.br[h].to)
    <3>1. 1 \in DOMAIN f.br[h].to /\ f.br[h].to[1] = then
      BY <1>2
    <3>. QED  BY <1>2, <3>1 DEF ToSet
  <2>. QED  BY <2>1 DEF Follows
<1>5. O[t] = O[then] /\ K[t][1] = K[then][1]
  <2>1. ~f.br[then].user /\ t \in ToSet(f.br[then].to) /\ then \in DOMAIN f.code
    <3>1. 1 \in DOMAIN f.br[then].to /\ f.br[then].to[1] = t
      BY <1>2
    <3>. QED  BY <1>2, <3>1 DEF ToSet
  <2>2. O[t] = O[then] /\ K[t][1] = K[then][Len(f.code[then]) + 1]
    BY <2>1 DEF Follows
  <2>3. Len(f.code[then]) + 1 = 1
    BY <1>3
  <2>. QED  BY <2>2, <2>3
<1>6. u = fn.code[O[h]][K[h][m + 1]] /\ <<O[t], K[t][1]>> = <<O[h], K[h][m + 1]>>
  BY <1>4, <1>5
<1>7. O[t] \in DOMAIN fn.code /\ K[t][1] \in DOMAIN fn.code[O[t]]
  BY DEF Follows
<1>8. Typing(type) /\ Knows(type, e, a, p) /\ a = <<O[t], K[t][1]>> /\ HeldAt(f, u, s, e, h, m + 1)
  BY <1>6, Zenon DEF Simulates, EndsAt
<1>9. NumbersReady(e, u)
  BY <1>7, <1>8, NextReady
<1>. HIDE DEF u, S, m, n, i
<1>10. S \in Number
  <2>1. u.op = "fadd"
    BY DEF u
  <2>. QED  BY <1>9, <2>1, SumsAre DEF S
<1>11. (m + 1) - 1 = m /\ (m + 1) - 2 = m - 1 /\ m + 1 > 1
  BY <1>1, <1>2
<1>12. n \in DOMAIN e /\ e[n] \in {S, Limited(S)} /\ e[f.code[h][m].name] = Bool(Less(Num(Limit), e[n]))
  <2>1. u.op = "fadd"
    BY DEF u
  <2>2. PICK l : l = m + 1
    OBVIOUS
  <2>3. l > 1 /\ f.code[h][l - 1] = f.code[h][m] /\ f.code[h][l - 2].name = n /\ HeldAt(f, u, s, e, h, l)
    BY <1>8, <1>11, <2>2 DEF n
  <2>. QED  BY <1>2, <2>1, <2>3 DEF HeldAt, S
<1>13. Limited(S) = IF Less(Num(Limit), e[n]) THEN Num(Limit) ELSE e[n]
  BY <1>10, <1>12, LimitedIs
<1>14. GetIn(e, f.br[h].cond) = Bool(Less(Num(Limit), e[n]))
  BY <1>2, <1>12 DEF GetIn, Val
<1>19. Less(Num(Limit), e[n]) \in BOOLEAN
  BY DEF Less
<1>15. Bool(TRUE) # Bool(FALSE)
  BY DEF Bool
<1>16. NextOf(e, f.br[h]) = IF GetIn(e, f.br[h].cond) = Bool(FALSE) THEN else ELSE then
  <2>1. Len(f.br[h].to) = 2 /\ f.br[h].to[1] = then /\ f.br[h].to[2] = else
    BY <1>2
  <2>. QED  BY <2>1 DEF NextOf
<1>17. CASE Less(Num(Limit), e[n])
  <2>1. GetIn(e, f.br[h].cond) = Bool(TRUE)
    BY <1>14, <1>17
  <2>2. NextOf(e, f.br[h]) = then
    BY <1>15, <1>16, <2>1
  <2>3. GetIn(e, i.in[then]) = Num(Limit)
    BY <1>2 DEF GetIn, Num
  <2>4. GetIn(e, i.in[NextOf(e, f.br[h])]) = Limited(S)
    BY <1>13, <1>17, <2>2, <2>3
  <2>. QED  BY <2>4 DEF S, i, u
<1>18. CASE ~Less(Num(Limit), e[n])
  <2>1. GetIn(e, f.br[h].cond) = Bool(FALSE)
    BY <1>14, <1>18, <1>19 DEF Bool
  <2>2. NextOf(e, f.br[h]) = else
    BY <1>16, <2>1
  <2>3. GetIn(e, i.in[else]) = e[n]
    BY <1>2 DEF GetIn, Val
  <2>4. GetIn(e, i.in[NextOf(e, f.br[h])]) = Limited(S)
    BY <1>13, <1>18, <2>2, <2>3
  <2>. QED  BY <2>4 DEF S, i, u
<1>. QED  BY <1>17, <1>18

\* A branch to or from the blocks of a limited addition brings its PHI the limited sum.
LEMMA BranchTakes ==
  ASSUME fn \in Functions, NEW f, NEW top \in Nat, WellFormed(f, top), OperandsDominate(f), NEW O, NEW K, Follows(f, O, K),
         NEW s, NEW type, NEW e, NEW b \in DOMAIN f.code, NEW c, NEW a, NEW p,
         EndsAt(f, O, K, s, type, e, b, c, a, p), f.br[b].to # << >>
  PROVE  TakenAt(f, O, K, s, e, NextOf(e, f.br[b]), 1, b)
<1>. DEFINE n == NextOf(e, f.br[b])
<1>1. n \in ToSet(f.br[b].to) /\ n \in DOMAIN f.code /\ b \in Preds(f, n)
  BY NextIs
<1>2. TakenAt(f, O, K, s, e, b, Len(f.code[b]) + 1, c)
  BY DEF Simulates, EndsAt
<1>3. ASSUME NEW t \in DOMAIN f.code, NEW then \in DOMAIN f.code, NEW else \in DOMAIN f.code, NEW h \in DOMAIN f.code,
             1 \in DOMAIN f.code[t], f.code[t][1].op = "phi", fn.code[O[t]][K[t][1]].op = "fadd", Clamps(f, t, then, else, h)
      PROVE  LET i == f.code[t][1]
                 u == fn.code[O[t]][K[t][1]]
             IN  /\ n \in {then, else} => GetIn(e, i.in[n]) = Limited(SumIn(s, e, u))
                 /\ n = t => GetIn(e, i.in[b]) = Limited(SumIn(s, e, u))
  <2>. DEFINE i == f.code[t][1]
              u == fn.code[O[t]][K[t][1]]
  <2>1. ASSUME n \in {then, else} PROVE GetIn(e, i.in[n]) = Limited(SumIn(s, e, u))
    <3>1. Preds(f, n) = {h}
      BY <1>3, <2>1 DEF Clamps
    <3>2. b = h
      BY <1>1, <3>1
    <3>3. EndsAt(f, O, K, s, type, e, h, c, a, p)
      BY <3>2
    <3>4. GetIn(e, i.in[NextOf(e, f.br[h])]) = Limited(SumIn(s, e, u))
      BY <1>3, <3>3, HeaderTakes
    <3>. QED  BY <3>2, <3>4
  <2>2. ASSUME n = t PROVE GetIn(e, i.in[b]) = Limited(SumIn(s, e, u))
    <3>1. DOMAIN i.in = Preds(f, t)
      BY <1>3, PhisAre
    <3>2. DOMAIN i.in = {then, else}
      BY <1>3 DEF Clamps
    <3>3. b \in {then, else}
      BY <1>1, <2>2, <3>1, <3>2
    <3>. QED  BY <1>2, <1>3, <3>3 DEF TakenAt
  <2>. QED  BY <2>1, <2>2
<1>. HIDE DEF n
<1>4. TakenAt(f, O, K, s, e, n, 1, b)
  BY <1>3 DEF TakenAt
<1>. QED  BY <1>4 DEF n

\* A branch that no user wrote stays with the user's instruction.
LEMMA OtherBranch ==
  ASSUME fn \in Functions, NEW f, NEW top \in Nat, WellFormed(f, top), OperandsDominate(f), NEW O, NEW K, Follows(f, O, K),
         NEW s, NEW type, NEW e, NEW b \in DOMAIN f.code, NEW c, NEW a, NEW p,
         EndsAt(f, O, K, s, type, e, b, c, a, p), f.br[b].to # << >>, ~f.br[b].user
  PROVE  Simulates(f, O, K, s, type, e, NextOf(e, f.br[b]), 1, b, a, p)
<1>. DEFINE n == NextOf(e, f.br[b])
<1>1. n \in ToSet(f.br[b].to) /\ n \in DOMAIN f.code /\ b \in Preds(f, n)
  BY NextIs
<1>2. TakenAt(f, O, K, s, e, n, 1, b)
  BY BranchTakes
<1>3. n \notin DOMAIN fn.code /\ O[n] = O[b] /\ K[n][1] = K[b][Len(f.code[b]) + 1]
  BY <1>1 DEF Follows
<1>. HIDE DEF n
<1>4. HeldAt(f, fn.code[O[n]][K[n][1]], s, e, n, 1)
  BY HeldAtHead
<1>5. Simulates(f, O, K, s, type, e, n, 1, b, a, p)
  BY <1>1, <1>2, <1>3, <1>4, Zenon DEF Simulates, EndsAt
<1>. QED  BY <1>5 DEF n

\* At a terminator of the user's the user's block is at its end.
LEMMA UserEnd ==
  ASSUME NEW f, NEW O, NEW K, Follows(f, O, K), NEW s, NEW type, NEW e, NEW b \in DOMAIN f.code, NEW c, NEW a, NEW p,
         EndsAt(f, O, K, s, type, e, b, c, a, p), f.br[b].user
  PROVE  /\ a[1] = O[b] /\ a[1] \in DOMAIN fn.code /\ a = <<a[1], Len(fn.code[a[1]]) + 1>> /\ a[2] = Len(fn.code[a[1]]) + 1
         /\ f.br[b] = fn.br[a[1]]
<1>1. a = <<O[b], K[b][Len(f.code[b]) + 1]>>
  BY DEF Simulates, EndsAt
<1>2. O[b] \in DOMAIN fn.code /\ K[b][Len(f.code[b]) + 1] = Len(fn.code[O[b]]) + 1 /\ f.br[b] = fn.br[O[b]]
  BY DEF Follows
<1>. QED  BY <1>1, <1>2

\* A branch that a user wrote is taken in both programs.
LEMMA UserBranch ==
  ASSUME fn \in Functions, NEW f, NEW top \in Nat, WellFormed(f, top), OperandsDominate(f), NEW O, NEW K, Follows(f, O, K),
         NEW s, NEW type, NEW e, NEW b \in DOMAIN f.code, NEW c, NEW a, NEW p,
         EndsAt(f, O, K, s, type, e, b, c, a, p), f.br[b].to # << >>, f.br[b].user
  PROVE  Simulates(f, O, K, s, type, e, NextOf(e, f.br[b]), 1, b, <<NextOf(e, f.br[b]), 1>>, a[1])
<1>. DEFINE n == NextOf(e, f.br[b])
<1>1. n \in ToSet(f.br[b].to) /\ n \in DOMAIN f.code /\ b \in Preds(f, n)
  BY NextIs
<1>2. TakenAt(f, O, K, s, e, n, 1, b)
  BY BranchTakes
<1>3. /\ a[1] = O[b] /\ a[1] \in DOMAIN fn.code /\ a = <<a[1], Len(fn.code[a[1]]) + 1>>
      /\ f.br[b] = fn.br[a[1]]
  BY UserEnd
<1>4. Typing(type) /\ Knows(type, e, a, p)
  BY DEF Simulates, EndsAt
<1>5. n \in DOMAIN fn.code
  <2>1. WellFormed(fn, fn.last)
    BY FunctionsAssumption
  <2>2. fn.br[a[1]].to # << >>
    BY <1>3
  <2>3. NextOf(e, fn.br[a[1]]) \in DOMAIN fn.code
    BY <1>3, <2>1, <2>2, NextIs
  <2>. QED  BY <1>3, <2>3
<1>. HIDE DEF n
<1>6. O[n] = n /\ K[n][1] = 1
  BY <1>5 DEF Follows
<1>7. Knows(type, e, <<n, 1>>, a[1])
  <2>1. PICK m : m = a[1]
    OBVIOUS
  <2>2. m \in DOMAIN fn.code /\ Knows(type, e, <<m, Len(fn.code[m]) + 1>>, p) /\ n \in ToSet(fn.br[m].to)
    BY <1>1, <1>3, <1>4, <2>1
  <2>3. Knows(type, e, <<n, 1>>, m)
    BY <1>4, <1>5, <2>2, BranchKnows
  <2>. QED  BY <2>1, <2>3
<1>8. HeldAt(f, fn.code[O[n]][K[n][1]], s, e, n, 1)
  BY HeldAtHead
<1>9. Simulates(f, O, K, s, type, e, n, 1, b, <<n, 1>>, a[1])
  BY <1>1, <1>2, <1>3, <1>4, <1>6, <1>7, <1>8, Zenon DEF Simulates, EndsAt
<1>. QED  BY <1>9 DEF n

-----------------------------------------------------------------------------
(* The program of the file and that of the user.                           *)

\* Invariant: until the program runs the user's is at its start, and then it is simulated.
Simulating ==
  /\ pc \in {"idle", "rewrite"} => at = <<fn.entry, 1>> /\ from = 0 /\ came = 0
  /\ pc = "run" =>
       \E f, O, K, s, type, e, b, j, c, a, p :
         /\ f = file /\ s = ran /\ e = env /\ b = block /\ j = inst /\ c = came /\ a = at /\ p = from
         /\ Follows(f, O, K) /\ Means(f, O, K, {}, s, s) /\ Simulates(f, O, K, s, type, e, b, j, c, a, p)

\* It speaks of the user's function, which stays.
LEMMA SimulatesStays ==
  ASSUME fn' = fn, NEW f, NEW O, NEW K, NEW s, NEW type, NEW e, NEW b, NEW j, NEW c, NEW a, NEW p
  PROVE  Simulates(f, O, K, s, type, e, b, j, c, a, p)' <=> Simulates(f, O, K, s, type, e, b, j, c, a, p)
<1>1. Typing(type)' <=> Typing(type)
  BY DEF Typing, Names, Insts, Has, IsOf
<1>2. Knows(type, e, a, p)' <=> Knows(type, e, a, p)
  BY DEF Knows
<1>3. \A u : HeldAt(f, u, s, e, b, j)' <=> HeldAt(f, u, s, e, b, j)
  BY DEF HeldAt, Hidden
<1>4. TakenAt(f, O, K, s, e, b, j, c)' <=> TakenAt(f, O, K, s, e, b, j, c)
  BY DEF TakenAt, Clamps, Hidden
<1>. QED  BY <1>1, <1>2, <1>3, <1>4 DEF Simulates

-----------------------------------------------------------------------------
(* What the user's function sees of the values: those of its own names.    *)

\* What SourceProgram sees of the environment e.
Seen(e) == [n \in {m \in DOMAIN e : m <= fn.last} |-> e[n]]

\* It does not see the names that tools gave.
LEMMA SeenHidden ==
  ASSUME fn.last \in Nat, NEW e, NEW n \in Int, n > fn.last, NEW v
  PROVE  Seen(With(e, n, v)) = Seen(e)
<1>. DEFINE E == With(e, n, v)
<1>1. DOMAIN E = DOMAIN e \cup {n} /\ \A m \in DOMAIN e : m # n => E[m] = e[m]
  BY DEF With
<1>2. ~(n <= fn.last)
  OBVIOUS
<1>. HIDE DEF E
<1>3. {m \in DOMAIN E : m <= fn.last} = {m \in DOMAIN e : m <= fn.last}
  BY <1>1, <1>2
<1>4. \A m \in {l \in DOMAIN e : l <= fn.last} : E[m] = e[m]
  BY <1>1, <1>2
<1>5. Seen(E) = Seen(e)
  BY <1>3, <1>4 DEF Seen
<1>. QED  BY <1>5 DEF E

\* It sees its own.
LEMMA SeenUsers ==
  ASSUME NEW e, NEW n, n <= fn.last, NEW v
  PROVE  Seen(With(e, n, v)) = With(Seen(e), n, v)
<1>. DEFINE E == With(e, n, v)
<1>1. DOMAIN E = DOMAIN e \cup {n} /\ E[n] = v /\ \A m \in DOMAIN e : m # n => E[m] = e[m]
  BY DEF With
<1>. HIDE DEF E
<1>2. DOMAIN Seen(e) = {m \in DOMAIN e : m <= fn.last} /\ \A m \in DOMAIN Seen(e) : Seen(e)[m] = e[m]
  BY DEF Seen
<1>3. {m \in DOMAIN E : m <= fn.last} = DOMAIN Seen(e) \cup {n}
  BY <1>1, <1>2
<1>4. \A m \in DOMAIN Seen(e) \cup {n} : E[m] = IF m = n THEN v ELSE Seen(e)[m]
  BY <1>1, <1>2
<1>5. Seen(E) = [m \in DOMAIN Seen(e) \cup {n} |-> E[m]]
  BY <1>3 DEF Seen
<1>6. Seen(E) = With(Seen(e), n, v)
  BY <1>4, <1>5 DEF With
<1>. QED  BY <1>6 DEF E

\* The arguments are seen.
LEMMA SeenStart ==
  ASSUME fn \in Functions, NEW in \in [fn.args -> Numbers]
  PROVE  Seen(in) = in
<1>1. fn.last \in Nat /\ fn.args \subseteq 1 .. fn.last
  BY FunctionsAssumption
<1>2. {m \in fn.args : m <= fn.last} = fn.args
  BY <1>1
<1>. QED  BY <1>2 DEF Seen

-----------------------------------------------------------------------------
(* The start.                                                              *)

\* Both programs begin at the entry, where no PHI is.
LEMMA StartSimulates ==
  ASSUME fn \in Functions, NEW f, NEW O, NEW K, Follows(f, O, K), NEW s, NEW type, Typing(type), NEW in \in [fn.args -> Numbers]
  PROVE  Simulates(f, O, K, s, type, in, fn.entry, 1, 0, <<fn.entry, 1>>, 0)
<1>1. fn.entry \in DOMAIN fn.code
  BY FunctionsAssumption DEF WellFormed
<1>2. O[fn.entry] = fn.entry /\ K[fn.entry][1] = 1
  BY <1>1 DEF Follows
<1>3. Knows(type, in, <<fn.entry, 1>>, 0)
  BY StartKnows
<1>4. ASSUME NEW t \in DOMAIN f.code, NEW then \in DOMAIN f.code, NEW else \in DOMAIN f.code, NEW h \in DOMAIN f.code,
             Clamps(f, t, then, else, h)
      PROVE  fn.entry \notin {t, then, else}
  <2>1. /\ ~f.br[h].user /\ f.br[h].to = <<then, else>>
        /\ ~f.br[then].user /\ f.br[then].to = <<t>>
    BY <1>4 DEF Clamps
  <2>2. {then, else} \subseteq ToSet(f.br[h].to) /\ t \in ToSet(f.br[then].to)
    BY <2>1 DEF ToSet
  <2>3. \A x \in DOMAIN f.code : ~f.br[x].user => \A y \in ToSet(f.br[x].to) : y \notin DOMAIN fn.code
    BY DEF Follows
  <2>4. t \notin DOMAIN fn.code /\ then \notin DOMAIN fn.code /\ else \notin DOMAIN fn.code
    BY <2>1, <2>2, <2>3
  <2>. QED  BY <1>1, <2>4
<1>5. TakenAt(f, O, K, s, in, fn.entry, 1, 0)
  BY <1>4 DEF TakenAt
<1>6. HeldAt(f, fn.code[O[fn.entry]][K[fn.entry][1]], s, in, fn.entry, 1)
  BY HeldAtHead
<1>. QED  BY <1>2, <1>3, <1>5, <1>6 DEF Simulates

\* The call of the program is the call of the user's.
LEMMA StartStep ==
  ASSUME FInv, Mapped, Simulating, NEW in \in [fn.args -> Numbers], Start(in)
  PROVE  Simulating' /\ Source!Call(in)
<1>1. /\ pc = "idle" /\ pc' = "run" /\ env' = in
      /\ UNCHANGED <<fn, file, ran, block, inst, came, at, from>>
  BY DEF Start, rewriting
<1>2. /\ fn \in Functions /\ block = fn.entry /\ inst = 1
      /\ at = <<fn.entry, 1>> /\ from = 0 /\ came = 0
  BY <1>1 DEF FInv, Typed, Simulating
<1>3. PICK f, s, O, K : f = file /\ s = ran /\ Follows(f, O, K) /\ Means(f, O, K, {}, s, s)
  BY DEF Mapped
<1>4. PICK type : Typing(type)
  BY <1>2, TypingExists
<1>5. Simulates(f, O, K, s, type, in, fn.entry, 1, 0, <<fn.entry, 1>>, 0)
  BY <1>2, <1>3, <1>4, StartSimulates
<1>6. PICK b, j, c, a, p : b = fn.entry /\ j = 1 /\ c = 0 /\ a = <<fn.entry, 1>> /\ p = 0
  OBVIOUS
<1>7. Simulates(f, O, K, s, type, in, b, j, c, a, p)
  BY <1>5, <1>6
<1>8. Simulates(f, O, K, s, type, in, b, j, c, a, p)' /\ Follows(f, O, K)' /\ Means(f, O, K, {}, s, s)'
  BY <1>1, <1>3, <1>7, SimulatesStays, FollowsStays
<1>9. Simulating'
  <2>1. /\ f = file' /\ s = ran' /\ in = env' /\ b = block' /\ j = inst' /\ c = came' /\ a = at' /\ p = from'
    BY <1>1, <1>2, <1>3, <1>6
  <2>. QED  BY <1>1, <1>8, <2>1 DEF Simulating
<1>10. Seen(in) = in
  BY <1>2, SeenStart
<1>11. Source!Call(in)
  BY <1>1, <1>10 DEF Source!Call, Seen
<1>. QED  BY <1>9, <1>11

\* An instruction is the user's, with a value that SourceProgram allows, or goes unseen.
LEMMA ExecuteStep ==
  ASSUME FInv, Accepted, Simulating, Execute
  PROVE  Simulating' /\ [Source!Next]_(Source!vars)
<1>1. /\ pc = "run" /\ pc' = "run" /\ ~AtEnd /\ inst' = inst + 1
      /\ UNCHANGED <<fn, file, ran, block, came, from>>
  BY DEF Execute, rewriting
<1>2. PICK f, O, K, s, type, e, b, j, c, a, p :
         /\ f = file /\ s = ran /\ e = env /\ b = block /\ j = inst /\ c = came /\ a = at /\ p = from
         /\ Follows(f, O, K) /\ Means(f, O, K, {}, s, s) /\ Simulates(f, O, K, s, type, e, b, j, c, a, p)
  BY <1>1 DEF Simulating
<1>3. /\ fn \in Functions /\ f.last \in Nat /\ WellFormed(f, f.last) /\ OperandsDominate(f)
      /\ b \in DOMAIN f.code /\ j \in 1 .. Len(f.code[b]) + 1 /\ fn.last \in Nat
  BY <1>2, FunctionsAssumption DEF FInv, Typed, Accepted
<1>4. DOMAIN f.code[b] = 1 .. Len(f.code[b]) /\ Len(f.code[b]) \in Nat
  BY <1>3, CodeIs
<1>5. j \in DOMAIN f.code[b]
  <2>1. ~(j > Len(f.code[b]))
    BY <1>1, <1>2 DEF AtEnd
  <2>. QED  BY <1>3, <1>4, <2>1
<1>. DEFINE i == f.code[b][j]
            v == ValueIn(e, c, i)
            E == With(e, i.name, v)
            u == fn.code[O[b]][K[b][j]]
<1>6. i.name \in Int
  BY <1>3, <1>5, CodeIs
<1>7. env' = E
  <2>1. Value(file.code[block][inst]) = ValueIn(env, came, file.code[block][inst])
    BY DEF Value, ValueIn, Get, GetIn
  <2>2. env' = With(env, file.code[block][inst].name, Value(file.code[block][inst]))
    BY DEF Execute, With
  <2>. QED  BY <1>2, <2>1, <2>2
<1>8. at' = IF i.name <= fn.last THEN <<a[1], a[2] + 1>> ELSE a
  BY <1>2 DEF Execute
<1>9. /\ a = <<a[1], a[2]>> /\ a[1] = O[b] /\ a[2] = K[b][j]
      /\ a[1] \in DOMAIN fn.code /\ a[2] \in DOMAIN fn.code[a[1]]
      /\ ~Hidden(i) => i.name = fn.code[a[1]][a[2]].name
  BY <1>2, <1>3, <1>5, PlacesAre
<1>10. ASSUME NEW g, NEW A, Simulates(f, O, K, s, type, g, b, j + 1, c, A, p), g = env', A = at'
       PROVE  Simulating'
  <2>1. PICK l : l = j + 1
    OBVIOUS
  <2>2. Simulates(f, O, K, s, type, g, b, l, c, A, p)
    BY <1>10, <2>1
  <2>3. Simulates(f, O, K, s, type, g, b, l, c, A, p)' /\ Follows(f, O, K)' /\ Means(f, O, K, {}, s, s)'
    BY <1>1, <1>2, <2>2, SimulatesStays, FollowsStays
  <2>4. f = file' /\ s = ran' /\ g = env' /\ b = block' /\ l = inst' /\ c = came' /\ A = at' /\ p = from'
    BY <1>1, <1>2, <1>10, <2>1
  <2>. QED  BY <1>1, <2>3, <2>4 DEF Simulating
<1>11. CASE Hidden(i)
  <2>1. i.name > fn.last /\ ~(i.name <= fn.last)
    BY <1>3, <1>6, <1>11 DEF Hidden
  <2>2. Simulates(f, O, K, s, type, E, b, j + 1, c, a, p)
    BY <1>2, <1>3, <1>5, <1>11, HiddenSimulates
  <2>3. at' = at
    BY <1>2, <1>8, <2>1
  <2>4. Seen(E) = Seen(e)
    <3>. HIDE DEF i, v
    <3>. QED  BY <1>3, <1>6, <2>1, SeenHidden
  <2>. HIDE DEF E, i
  <2>5. Simulating'
    BY <1>2, <1>7, <1>10, <2>2, <2>3
  <2>6. Seen(env') = Seen(env)
    BY <1>2, <1>7, <2>4
  <2>7. UNCHANGED Source!vars
    BY <1>1, <2>3, <2>6 DEF Source!vars, Seen
  <2>. QED  BY <2>5, <2>7
<1>12. CASE ~Hidden(i)
  <2>1. i.name <= fn.last
    BY <1>3, <1>6, <1>12 DEF Hidden
  <2>2. /\ Typing(type) /\ Knows(type, e, a, p)
        /\ b # fn.entry => c \in Preds(f, b) /\ (b \in DOMAIN fn.code => p = O[c])
        /\ HeldAt(f, u, s, e, b, j) /\ TakenAt(f, O, K, s, e, b, j, c)
    BY <1>2 DEF Simulates
  <2>3. Meaning(f, O, b, j, u, s)
    BY <1>2, <1>3, <1>5 DEF Means
  <2>4. TakenHere(f, u, s, e, b, j, c)
    BY <1>3, <1>5, <2>2, PhiTakes
  <2>5. PICK m, n : m = a[1] /\ n = a[2]
    OBVIOUS
  <2>6. m \in DOMAIN fn.code /\ n \in DOMAIN fn.code[m] /\ Knows(type, e, <<m, n>>, p) /\ u = fn.code[m][n] /\ i.name = u.name
    BY <1>9, <1>12, <2>2, <2>5
  <2>7. u.op = "phi" => c \in DOMAIN i.in /\ O[c] = p
    <3>1. SUFFICES ASSUME u.op = "phi" PROVE c \in DOMAIN i.in /\ O[c] = p
      OBVIOUS
    <3>2. i.op = "phi" /\ b \in DOMAIN fn.code
      BY <2>3, <3>1 DEF Meaning, PhiOf
    <3>3. m = b
      BY <1>2, <1>9, <2>5, <3>2 DEF Follows
    <3>4. m # fn.entry
      <4>. DEFINE w == fn.code[m][n]
      <4>1. w.op = "phi"
        BY <2>6, <3>1
      <4>2. w.op = "phi" => m # fn.entry
        BY <1>3, <2>2, <2>6, ReadyOperands
      <4>. QED  BY <4>1, <4>2
    <3>5. DOMAIN i.in = Preds(f, b)
      BY <1>3, <1>5, <3>2, PhisAre
    <3>. QED  BY <2>2, <3>2, <3>3, <3>4, <3>5
  <2>. DEFINE U == u
  <2>. HIDE DEF U
  <2>8. v \in Source!Meanings(fn.code[m][n]) /\ v \in Values[type[i.name]]
    <3>1. PICK w : w = u
      OBVIOUS
    <3>2. /\ w = fn.code[m][n] /\ Meaning(f, O, b, j, w, ran) /\ HeldAt(f, w, ran, env, b, j)
          /\ Knows(type, env, <<m, n>>, from)
          /\ TakenHere(f, w, ran, env, b, j, c)
          /\ w.op = "phi" => c \in DOMAIN f.code[b][j].in /\ O[c] = from
          /\ ~Hidden(f.code[b][j])
      BY <1>2, <1>12, <2>2, <2>3, <2>4, <2>6, <2>7, <3>1, Zenon
    <3>3. ValueIn(env, c, f.code[b][j]) \in Source!Meanings(w) /\ ValueIn(env, c, f.code[b][j]) \in Values[type[w.name]]
      BY <1>3, <2>2, <2>6, <3>2, MeaningsHave, Zenon
    <3>. QED  BY <1>2, <2>6, <3>1, <3>3
  <2>9. Simulates(f, O, K, s, type, E, b, j + 1, c, <<a[1], a[2] + 1>>, p)
    BY <1>2, <1>3, <1>5, <1>12, <2>8, UserSimulates
  <2>10. at' = <<a[1], a[2] + 1>>
    BY <1>8, <2>1
  <2>11. Seen(E) = With(Seen(e), i.name, v)
    <3>. HIDE DEF i, v
    <3>. QED  BY <2>1, SeenUsers
  <2>. HIDE DEF E, v
  <2>12. Simulating'
    <3>1. PICK A : A = <<a[1], a[2] + 1>>
      OBVIOUS
    <3>. QED  BY <1>7, <1>10, <2>9, <2>10, <3>1
  <2>13. Source!Execute
    <3>1. at[1] = m /\ at[2] = n /\ fn.code[m][n].name = i.name
      BY <1>2, <2>5, <2>6
    <3>2. at[2] <= Len(fn.code[at[1]])
      <4>1. DOMAIN fn.code[m] = 1 .. Len(fn.code[m]) /\ Len(fn.code[m]) \in Nat
        BY <1>3, <2>6, CodeIs, FunctionsAssumption
      <4>. QED  BY <2>6, <3>1, <4>1
    <3>3. Seen(env)' = [l \in DOMAIN Seen(env) \cup {i.name} |-> IF l = i.name THEN v ELSE Seen(env)[l]]
      BY <1>1, <1>2, <1>7, <2>11 DEF Seen, With
    <3>4. v \in Source!Meanings(fn.code[at[1]][at[2]]) /\ fn.code[at[1]][at[2]].name = i.name
      BY <2>8, <3>1
    <3>5. at' = <<at[1], at[2] + 1>>
      BY <1>2, <2>10
    <3>. HIDE DEF i
    <3>. DEFINE code == fn.code[at[1]]
                name == code[at[2]].name
    <3>6. name = i.name
      BY <3>4
    <3>. HIDE DEF code, name
    <3>7. \E w \in Source!Meanings(code[at[2]]) :
            Seen(env)' = [l \in DOMAIN Seen(env) \cup {name} |-> IF l = name THEN w ELSE Seen(env)[l]]
      BY <3>3, <3>4, <3>6 DEF code
    <3>8. (IF pc \in {"run", "over"} THEN pc ELSE "idle") = "run"
      BY <1>1
    <3>9. UNCHANGED <<fn, ran, IF pc \in {"run", "over"} THEN pc ELSE "idle", from>>
      BY <1>1
    <3>. QED  BY <3>2, <3>5, <3>7, <3>8, <3>9, Zenon DEF Source!Execute, Seen, code, name
  <2>. QED  BY <2>12, <2>13 DEF Source!Next
<1>. QED  BY <1>11, <1>12

\* The program that has come to the end of a block.
LEMMA SimulatedEnd ==
  ASSUME FInv, Accepted, Simulating, pc = "run", AtEnd
  PROVE  \E f, O, K, s, type, e, b, c, a, p :
           /\ f = file /\ s = ran /\ e = env /\ b = block /\ c = came /\ a = at /\ p = from
           /\ Follows(f, O, K) /\ Means(f, O, K, {}, s, s) /\ EndsAt(f, O, K, s, type, e, b, c, a, p)
           /\ fn \in Functions /\ f.last \in Nat /\ WellFormed(f, f.last) /\ OperandsDominate(f) /\ b \in DOMAIN f.code
<1>1. PICK f, O, K, s, type, e, b, j, c, a, p :
         /\ f = file /\ s = ran /\ e = env /\ b = block /\ j = inst /\ c = came /\ a = at /\ p = from
         /\ Follows(f, O, K) /\ Means(f, O, K, {}, s, s) /\ Simulates(f, O, K, s, type, e, b, j, c, a, p)
  BY DEF Simulating
<1>2. /\ fn \in Functions /\ f.last \in Nat /\ WellFormed(f, f.last) /\ OperandsDominate(f)
      /\ b \in DOMAIN f.code /\ j \in 1 .. Len(f.code[b]) + 1
  BY <1>1 DEF FInv, Typed, Accepted
<1>3. Len(f.code[b]) \in Nat
  BY <1>2, CodeIs
<1>4. j = Len(f.code[b]) + 1
  <2>1. j > Len(f.code[b])
    BY <1>1 DEF AtEnd
  <2>. QED  BY <1>2, <1>3, <2>1
<1>5. EndsAt(f, O, K, s, type, e, b, c, a, p)
  BY <1>1, <1>4 DEF EndsAt
<1>. QED  BY <1>1, <1>2, <1>5

\* Where the user's function ends, the end of its block is.
LEMMA SourceEnd ==
  ASSUME fn \in Functions, NEW f, NEW O, NEW K, Follows(f, O, K), NEW s, NEW type, NEW e, NEW b \in DOMAIN f.code, NEW c, NEW a, NEW p,
         EndsAt(f, O, K, s, type, e, b, c, a, p), f.br[b].user, e = env
  PROVE  /\ a[1] \in DOMAIN fn.code /\ a[2] > Len(fn.code[a[1]]) /\ f.br[b] = fn.br[a[1]]
         /\ Source!Get(fn.br[a[1]].cond) = GetIn(e, fn.br[a[1]].cond)
<1>1. /\ a[1] = O[b] /\ a[1] \in DOMAIN fn.code /\ a = <<a[1], Len(fn.code[a[1]]) + 1>> /\ a[2] = Len(fn.code[a[1]]) + 1
      /\ f.br[b] = fn.br[a[1]]
  BY UserEnd
<1>2. Typing(type) /\ Knows(type, e, a, p)
  BY DEF EndsAt, Simulates
<1>3. fn.last \in Nat /\ WellFormed(fn, fn.last)
  BY FunctionsAssumption
<1>4. PICK m : m = a[1]
  OBVIOUS
<1>5. m \in DOMAIN fn.code /\ Knows(type, e, <<m, Len(fn.code[m]) + 1>>, p)
  BY <1>1, <1>2, <1>4
<1>6. Len(fn.code[m]) \in Nat
  BY <1>3, <1>5, CodeIs
<1>. DEFINE o == fn.br[m].cond
<1>7. o[1] = "val" => o[2] \in DOMAIN env /\ o[2] \in 1 .. fn.last
  BY <1>2, <1>5, ReadyCondition
<1>. HIDE DEF o
<1>8. Source!Get(o) = GetIn(env, o)
  BY <1>3, <1>7, SourceGet
<1>9. a[2] > Len(fn.code[a[1]])
  BY <1>1, <1>4, <1>6
<1>. QED  BY <1>1, <1>4, <1>8, <1>9 DEF o

\* A branch is the user's or goes unseen.
LEMMA BranchStep ==
  ASSUME FInv, Accepted, Simulating, Branch
  PROVE  Simulating' /\ [Source!Next]_(Source!vars)
<1>1. /\ pc = "run" /\ pc' = "run" /\ AtEnd /\ file.br[block].to # << >> /\ inst' = 1 /\ came' = block
      /\ UNCHANGED <<fn, file, ran, env>>
  BY DEF Branch, rewriting
<1>2. PICK f, O, K, s, type, e, b, c, a, p :
         /\ f = file /\ s = ran /\ e = env /\ b = block /\ c = came /\ a = at /\ p = from
         /\ Follows(f, O, K) /\ Means(f, O, K, {}, s, s) /\ EndsAt(f, O, K, s, type, e, b, c, a, p)
         /\ fn \in Functions /\ f.last \in Nat /\ WellFormed(f, f.last) /\ OperandsDominate(f) /\ b \in DOMAIN f.code
  BY <1>1, SimulatedEnd
<1>. DEFINE n == NextOf(e, f.br[b])
<1>3. block' = n /\ f.br[b].to # << >>
  BY <1>1, <1>2 DEF Branch, NextOf, Get, GetIn
<1>4. /\ at' = IF f.br[b].user THEN <<n, 1>> ELSE a
      /\ from' = IF f.br[b].user THEN a[1] ELSE p
  BY <1>2 DEF Branch, NextOf, Get, GetIn
<1>5. ASSUME NEW A, NEW P, Simulates(f, O, K, s, type, e, n, 1, b, A, P), A = at', P = from'
      PROVE  Simulating'
  <2>. HIDE DEF n
  <2>1. PICK j : j = 1
    OBVIOUS
  <2>2. Simulates(f, O, K, s, type, e, n, j, b, A, P)
    BY <1>5, <2>1
  <2>3. PICK N : N = n
    OBVIOUS
  <2>4. Simulates(f, O, K, s, type, e, N, j, b, A, P)
    BY <2>2, <2>3
  <2>5. Simulates(f, O, K, s, type, e, N, j, b, A, P)' /\ Follows(f, O, K)' /\ Means(f, O, K, {}, s, s)'
    BY <1>1, <1>2, <2>4, SimulatesStays, FollowsStays
  <2>6. f = file' /\ s = ran' /\ e = env' /\ N = block' /\ j = inst' /\ b = came' /\ A = at' /\ P = from'
    BY <1>1, <1>2, <1>3, <1>5, <2>1, <2>3
  <2>. QED  BY <1>1, <2>5, <2>6 DEF Simulating
<1>6. CASE ~f.br[b].user
  <2>1. Simulates(f, O, K, s, type, e, n, 1, b, a, p)
    BY <1>2, <1>3, <1>6, OtherBranch
  <2>2. at' = a /\ from' = p
    BY <1>4, <1>6
  <2>. HIDE DEF n
  <2>3. Simulating'
    BY <1>5, <2>1, <2>2
  <2>4. UNCHANGED Source!vars
    BY <1>1, <1>2, <2>2 DEF Source!vars
  <2>. QED  BY <2>3, <2>4
<1>7. CASE f.br[b].user
  <2>1. Simulates(f, O, K, s, type, e, n, 1, b, <<n, 1>>, a[1])
    BY <1>2, <1>3, <1>7, UserBranch
  <2>2. at' = <<n, 1>> /\ from' = a[1]
    BY <1>4, <1>7
  <2>3. Simulating'
    <3>. HIDE DEF n
    <3>1. PICK A, P : A = <<n, 1>> /\ P = a[1]
      OBVIOUS
    <3>. QED  BY <1>5, <2>1, <2>2, <3>1
  <2>4. Source!Branch
    <3>1. /\ a[1] \in DOMAIN fn.code /\ a[2] > Len(fn.code[a[1]]) /\ f.br[b] = fn.br[a[1]]
          /\ Source!Get(fn.br[a[1]].cond) = GetIn(e, fn.br[a[1]].cond)
      BY <1>2, <1>7, SourceEnd
    <3>2. Source!Bool(FALSE) = Bool(FALSE)
      BY SourceValues
    <3>3. Len(fn.br[at[1]].to) > 0
      <4>1. Len(f.br[b].to) \in Nat \ {0}
        BY <1>2, <1>3, NextIs
      <4>2. fn.br[at[1]] = f.br[b]
        BY <1>2, <3>1
      <4>. QED  BY <4>1, <4>2
    <3>. DEFINE br == fn.br[at[1]]
    <3>4. n = IF Len(br.to) = 2 /\ Source!Get(br.cond) = Source!Bool(FALSE) THEN br.to[2] ELSE br.to[1]
      BY <1>2, <3>1, <3>2 DEF NextOf
    <3>5. at' = <<n, 1>> /\ from' = at[1] /\ at[2] > Len(fn.code[at[1]])
      BY <1>2, <2>2, <3>1
    <3>6. /\ (IF pc \in {"run", "over"} THEN pc ELSE "idle") = "run"
          /\ UNCHANGED <<fn, ran, IF pc \in {"run", "over"} THEN pc ELSE "idle", Seen(env)>>
      BY <1>1 DEF Seen
    <3>. HIDE DEF n
    <3>. QED  BY <3>3, <3>4, <3>5, <3>6 DEF Source!Branch, Seen
  <2>. QED  BY <2>3, <2>4 DEF Source!Next
<1>. QED  BY <1>6, <1>7

\* The program returns when the user's does.
LEMMA ReturnStep ==
  ASSUME FInv, Accepted, Simulating, Return
  PROVE  Simulating' /\ Source!Return
<1>1. /\ pc = "run" /\ pc' = "over" /\ AtEnd /\ file.br[block].to = << >>
      /\ UNCHANGED <<fn, ran, env, at, from>>
  BY DEF Return, rewriting, running
<1>2. PICK f, O, K, s, type, e, b, c, a, p :
         /\ f = file /\ s = ran /\ e = env /\ b = block /\ c = came /\ a = at /\ p = from
         /\ Follows(f, O, K) /\ Means(f, O, K, {}, s, s) /\ EndsAt(f, O, K, s, type, e, b, c, a, p)
         /\ fn \in Functions /\ f.last \in Nat /\ WellFormed(f, f.last) /\ OperandsDominate(f) /\ b \in DOMAIN f.code
  BY <1>1, SimulatedEnd
<1>3. f.br[b].user
  BY <1>1, <1>2 DEF Follows
<1>4. /\ a[1] \in DOMAIN fn.code /\ a[2] > Len(fn.code[a[1]]) /\ f.br[b] = fn.br[a[1]]
  BY <1>2, <1>3, SourceEnd
<1>5. at[2] > Len(fn.code[at[1]]) /\ fn.br[at[1]].to = << >>
  BY <1>1, <1>2, <1>4
<1>6. /\ (IF pc \in {"run", "over"} THEN pc ELSE "idle") = "run" /\ (IF pc \in {"run", "over"} THEN pc ELSE "idle")' = "over"
      /\ UNCHANGED <<fn, ran, at, from, Seen(env)>>
  BY <1>1 DEF Seen
<1>7. Source!Return
  BY <1>5, <1>6 DEF Source!Return, Seen
<1>8. Simulating'
  BY <1>1 DEF Simulating
<1>. QED  BY <1>7, <1>8

\* The tools are the ones of SourceProgram.
LEMMA VerifyStep ==
  ASSUME FInv, Simulating, Verify
  PROVE  Simulating' /\ [Source!Next]_(Source!vars)
<1>1. /\ pc = "rewrite" /\ pc' = "idle" /\ UNCHANGED <<fn, tool, came, env, at, from>>
      /\ (ran' = Append(ran, tool) \/ ran' = ran)
  BY DEF Verify, running
<1>2. tool \in Tool
  BY DEF FInv, Typed
<1>3. Simulating'
  BY <1>1 DEF Simulating
<1>4. /\ (IF pc \in {"run", "over"} THEN pc ELSE "idle") = "idle" /\ (IF pc \in {"run", "over"} THEN pc ELSE "idle")' = "idle"
      /\ UNCHANGED <<fn, at, from, Seen(env)>>
  BY <1>1 DEF Seen
<1>5. CASE ran' = Append(ran, tool)
  <2>1. Source!Rewrite(tool)
    BY <1>4, <1>5 DEF Source!Rewrite, Seen
  <2>2. tool \in Source!Tool
    BY <1>2 DEF Tool, Source!Tool
  <2>. QED  BY <1>3, <2>1, <2>2 DEF Source!Next
<1>6. CASE ran' = ran
  BY <1>3, <1>4, <1>6 DEF Source!vars, Seen
<1>. QED  BY <1>1, <1>5, <1>6

\* Every step is one of SourceProgram's or goes unseen by it.
LEMMA SimulatingStep ==
  FInv /\ Accepted /\ Mapped /\ Simulating /\ [Next]_vars => Simulating' /\ [Source!Next]_(Source!vars)
<1>. SUFFICES ASSUME FInv, Accepted, Mapped, Simulating, [Next]_vars PROVE Simulating' /\ [Source!Next]_(Source!vars)
  OBVIOUS
<1>1. CASE UNCHANGED <<fn, ran, running>> /\ (pc \in {"idle", "rewrite"} /\ pc' \in {"idle", "rewrite"})
  BY <1>1 DEF Simulating, running, Source!vars
<1>2. CASE UNCHANGED vars
  <2>1. UNCHANGED Source!vars
    BY <1>2 DEF vars, rewriting, running, Source!vars
  <2>2. Simulating'
    <3>1. CASE pc = "run"
      <4>1. PICK f, O, K, s, type, e, b, j, c, a, p :
              /\ f = file /\ s = ran /\ e = env /\ b = block /\ j = inst /\ c = came /\ a = at /\ p = from
              /\ Follows(f, O, K) /\ Means(f, O, K, {}, s, s) /\ Simulates(f, O, K, s, type, e, b, j, c, a, p)
        BY <3>1 DEF Simulating
      <4>2. Simulates(f, O, K, s, type, e, b, j, c, a, p)' /\ Follows(f, O, K)' /\ Means(f, O, K, {}, s, s)'
        BY <1>2, <4>1, SimulatesStays, FollowsStays DEF vars
      <4>. QED  BY <1>2, <3>1, <4>1, <4>2 DEF Simulating, vars, rewriting, running
    <3>2. CASE pc # "run"
      BY <1>2, <3>2 DEF Simulating, vars, running
    <3>. QED  BY <3>1, <3>2
  <2>. QED  BY <2>1, <2>2
<1>3. ASSUME NEW t \in Tool, Parse(t) PROVE Simulating' /\ [Source!Next]_(Source!vars)
  BY <1>1, <1>3 DEF Parse
<1>4. CASE Replace
  BY <1>1, <1>4 DEF Replace
<1>5. CASE Verify
  BY <1>5, VerifyStep
<1>6. ASSUME NEW in \in [fn.args -> Numbers], Start(in) PROVE Simulating' /\ [Source!Next]_(Source!vars)
  <2>1. Simulating' /\ Source!Call(in)
    BY <1>6, StartStep
  <2>. QED  BY <2>1 DEF Source!Next
<1>7. CASE Execute
  BY <1>7, ExecuteStep
<1>8. CASE Branch
  BY <1>8, BranchStep
<1>9. CASE Return
  <2>1. Simulating' /\ Source!Return
    BY <1>9, ReturnStep
  <2>. QED  BY <2>1 DEF Source!Next
<1>10. CASE AssertionFails
  BY <1>1, <1>10 DEF AssertionFails, rewriting
<1>. QED  BY <1>2, <1>3, <1>4, <1>5, <1>6, <1>7, <1>8, <1>9, <1>10 DEF Next, NoMain, Terminating

\* The start is the start of SourceProgram.
LEMMA InitSimulates == Init => Simulating /\ Source!Init
<1>. SUFFICES ASSUME Init PROVE Simulating /\ Source!Init
  OBVIOUS
<1>1. /\ pc = "idle" /\ fn \in Functions /\ ran = << >> /\ env = Empty /\ came = 0
      /\ at = <<fn.entry, 1>> /\ from = 0
  BY DEF Init
<1>2. Simulating
  BY <1>1 DEF Simulating
<1>3. Seen(env) = Source!Empty
  BY <1>1 DEF Seen, Empty, Source!Empty
<1>. QED  BY <1>1, <1>2, <1>3 DEF Source!Init, Seen

\* The program of the file, whatever tools have rewritten it in whatever order, computes
\* what the tools promise of the function the user wrote: each value, step by step, and the
\* path taken.  Every step is a step of SourceProgram or goes unseen by it.
THEOREM ImplementsSource == Spec => Implements
<1>1. Init => FInv /\ Accepted /\ Mapped /\ Simulating /\ Source!Init
  BY InitFInv, InitAccepted, InitMapped, InitSimulates
<1>2. FInv /\ Accepted /\ Mapped /\ Simulating /\ [Next]_vars =>
        Accepted' /\ Mapped' /\ Simulating' /\ [Source!Next]_(Source!vars)
  BY StepAccepted, StepMapped, SimulatingStep
<1>. QED  BY <1>1, <1>2, FInvHolds, PTL DEF Spec, Implements, Source!Spec
=============================================================================
