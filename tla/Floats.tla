------------------------------- MODULE Floats -------------------------------
(***************************************************************************)
(* The values that the programs rewritten by convert_fcmp_eq and by the    *)
(* tools of src/work compute with: floating-point numbers, outcomes of     *)
(* comparisons and integers.  Numbers are multiples of a unit far smaller  *)
(* than the epsilon of convert_fcmp_eq; a sum is exact until it overflows. *)
(***************************************************************************)
EXTENDS Integers

CONSTANTS
  Limit,       \* 100. in work2.cc and lib.c
  Epsilon,     \* 2^-52 in convert_fcmp_eq.cc
  Largest,     \* the largest finite number
  Word,        \* the size of the integer type, 2^32 or 2^64
  CInt         \* the size of an int, 2^32

ASSUME FloatsAssumption ==
  /\ Limit \in Nat \ {0} /\ Epsilon \in Nat \ {0} /\ Largest \in Nat
  /\ Limit <= Largest /\ Epsilon <= Largest
  /\ CInt \in Nat \ {0} /\ CInt % 2 = 0
  /\ Word \in Nat \ {0} /\ Word % CInt = 0

Num(n) == <<"num", n>>
NaN == <<"nan", 0>>
Inf == <<"inf", 1>>
Bool(b) == <<"bool", IF b THEN 1 ELSE 0>>
Integer(n) == <<"int", n>>

Minus(a) == <<a[1], -a[2]>>
Abs(a) == IF a[2] < 0 THEN Minus(a) ELSE a

Number == {NaN, Inf, Minus(Inf)} \cup {Num(n) : n \in -Largest .. Largest}
Values == [number |-> Number, int |-> {Integer(v) : v \in 0 .. Word - 1}, bool |-> {Bool(FALSE), Bool(TRUE)}]

Rounded(n) == IF n > Largest THEN Inf ELSE IF n < -Largest THEN Minus(Inf) ELSE Num(n)

FloatSum(a, b) ==
  CASE NaN \in {a, b} \/ (a[1] = "inf" /\ b = Minus(a)) -> NaN
    [] a[1] = "inf" /\ b \notin {NaN, Minus(a)} -> a
    [] a[1] = "num" /\ b[1] = "inf" -> b
    [] a[1] = "num" /\ b[1] = "num" -> Rounded(a[2] + b[2])

\* How two numbers compare: one of four ways.
Rank(a) == IF a[1] = "inf" THEN a[2] * (Largest + 1) ELSE a[2]
Relation(a, b) ==
  CASE NaN \in {a, b} -> "unordered"
    [] NaN \notin {a, b} /\ Rank(a) < Rank(b) -> "less"
    [] NaN \notin {a, b} /\ Rank(a) = Rank(b) -> "equal"
    [] NaN \notin {a, b} /\ Rank(a) > Rank(b) -> "greater"

\* The predicates of fcmp, by what they are true of.
Predicate ==
  [oeq |-> {"equal"},           ueq |-> {"equal", "unordered"},
   one |-> {"less", "greater"}, une |-> {"less", "greater", "unordered"},
   olt |-> {"less"},            ult |-> {"less", "unordered"},
   oge |-> {"equal", "greater"}, uge |-> {"equal", "greater", "unordered"},
   ogt |-> {"greater"}]

\* Numbers that differ by less than epsilon.
Near(a, b) == a[1] = "num" /\ b[1] = "num" /\ Abs(Num(a[2] - b[2]))[2] < Epsilon

Less(a, b) == Relation(a, b) = "less"

\* Hook of lib.c: fmod of an infinity is not a number.
Hook(a, b) ==
  LET r == FloatSum(a, b)
  IN  IF Less(Num(Limit), r) THEN (IF r = Inf THEN NaN ELSE Num(r[2] % Limit)) ELSE r

\* What an instruction computes of its operands.
Compute(op, a, b) ==
  CASE op = "fadd" -> FloatSum(a, b)
    [] op = "fsub" -> FloatSum(a, Minus(b))
    [] op = "hook" -> Hook(a, b)
    [] op = "abs" -> Abs(a)
    [] op \in DOMAIN Predicate -> Bool(Relation(a, b) \in Predicate[op])
    [] op = "add" -> Integer((a[2] + b[2]) % Word)
    [] op = "sub" -> Integer((a[2] - b[2]) % Word)

\* A number of n bits read as one with a sign, m being 2^n.
Signed(n, m) == IF n % m < m \div 2 THEN n % m ELSE (n % m) - m
=============================================================================
