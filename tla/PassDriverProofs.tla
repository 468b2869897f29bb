-------------------------- MODULE PassDriverProofs --------------------------
(***************************************************************************)
(* Proofs about the tools that replace arithmetic, for every function, any *)
(* integer types and any number of runs.                                   *)
(***************************************************************************)
EXTENDS PassDriver, SequenceTheorems, FiniteSetTheorems, WellFoundedInduction, TLAPS

-----------------------------------------------------------------------------
(* Arithmetic.                                                             *)

\* The expression of mba_sub, at the size m of the type.
LEMMA SubIdentity ==
  ASSUME NEW m \in Nat \ {0, 1}, NEW a \in 0 .. m - 1, NEW b \in 0 .. m - 1
  PROVE  (((a + (m - 1 - b)) % m) + 1) % m = (a - b) % m
<1>1. CASE a <= b
  <2>1. (a + (m - 1 - b)) % m = a + (m - 1 - b)
    BY <1>1, Z3
  <2>2. CASE a = b
    BY <2>1, <2>2, Z3
  <2>3. CASE a < b
    BY <2>1, <2>3, Z3
  <2> QED
    BY <1>1, <2>2, <2>3
<1>2. CASE a > b
  BY <1>2, Z3
<1> QED
  BY <1>1, <1>2

-----------------------------------------------------------------------------
(* What is put in place of one instruction.                                *)

\* The operands it may have: those of i, constants, and results it computed before.
LEMMA ReplacementShape ==
  ASSUME NEW t \in Tool, NEW i \in Instruction, Matches(t, i), NEW n \in Nat
  PROVE  LET new == Replacement(t, i, n)
             r == Len(new)
         IN  /\ new \in Seq(Instruction) /\ r \in Nat \ {0, 1}
             /\ \A k \in 1 .. r : new[k].size = i.size
             /\ new[r].name = i.name
             /\ \A k \in 1 .. r - 1 : new[k].name = n + k
             /\ \A k \in 1 .. r : \A o \in {new[k].x, new[k].y} :
                  \/ o \in {i.x, i.y}
                  \/ o[1] = "const" /\ o[2] < i.size
                  \/ \E j \in 1 .. k - 1 : j < r /\ o = Val(n + j)
<1>s. i.size \in Nat \ {0, 1} /\ i.size \in Size
  BY BitsAssumption DEF Instruction
<1>1. CASE t = "mba_add"
  <2>1. i.size = 256 /\ Byte = 256
    BY <1>1 DEF Matches, Byte
  <2>2. Replacement(t, i, n) = AddReplacement(i, n)
    BY <1>1 DEF Replacement
  <2>3. AddReplacement(i, n) \in Seq(Instruction) /\ Len(AddReplacement(i, n)) = 8
    BY <2>1, <1>s DEF AddReplacement, Inst, Instruction, Val, Const, Operand, Ops
  <2>4. \A k \in 1 .. 8 : AddReplacement(i, n)[k].size = i.size
    BY <2>1 DEF AddReplacement, Inst
  <2>5. /\ AddReplacement(i, n)[8].name = i.name
        /\ \A k \in 1 .. 7 : AddReplacement(i, n)[k].name = n + k
    BY DEF AddReplacement, Inst
  <2>6. \A k \in 1 .. 8 : \A o \in {AddReplacement(i, n)[k].x, AddReplacement(i, n)[k].y} :
          \/ o \in {i.x, i.y}
          \/ o[1] = "const" /\ o[2] < i.size
          \/ \E j \in 1 .. k - 1 : j < 8 /\ o = Val(n + j)
    BY <2>1 DEF AddReplacement, Inst, Const
  <2> DEFINE new == Replacement(t, i, n)
  <2>7. new \in Seq(Instruction) /\ Len(new) = 8
    BY <2>2, <2>3
  <2>8. /\ \A k \in 1 .. 8 : new[k].size = i.size
        /\ new[8].name = i.name /\ \A k \in 1 .. 7 : new[k].name = n + k
    BY <2>2, <2>4, <2>5
  <2>9. \A k \in 1 .. 8 : \A o \in {new[k].x, new[k].y} :
          o \in {i.x, i.y} \/ (o[1] = "const" /\ o[2] < i.size) \/ \E j \in 1 .. k - 1 : j < 8 /\ o = Val(n + j)
    BY <2>2, <2>6
  <2> DEFINE r == Len(new)
  <2> HIDE DEF new
  <2>10. r = 8 /\ r \in Nat \ {0, 1} /\ r - 1 = 7
    BY <2>7
  <2> HIDE DEF r
  <2>11. /\ \A k \in 1 .. r : new[k].size = i.size
         /\ new[r].name = i.name
         /\ \A k \in 1 .. r - 1 : new[k].name = n + k
    BY <2>8, <2>10
  <2>12. \A k \in 1 .. r : \A o \in {new[k].x, new[k].y} :
           \/ o \in {i.x, i.y}
           \/ o[1] = "const" /\ o[2] < i.size
           \/ \E j \in 1 .. k - 1 : j < r /\ o = Val(n + j)
    BY <2>9, <2>10
  <2> QED
    BY <2>7, <2>10, <2>11, <2>12, Zenon DEF new, r
<1>2. CASE t = "mba_sub"
  <2>2. Replacement(t, i, n) = SubReplacement(i, n)
    BY <1>2 DEF Replacement
  <2>3. SubReplacement(i, n) \in Seq(Instruction) /\ Len(SubReplacement(i, n)) = 3
    BY <1>s DEF SubReplacement, Inst, Instruction, Val, Const, Operand, Ops
  <2>4. \A k \in 1 .. 3 : SubReplacement(i, n)[k].size = i.size
    BY DEF SubReplacement, Inst
  <2>5. /\ SubReplacement(i, n)[3].name = i.name
        /\ \A k \in 1 .. 2 : SubReplacement(i, n)[k].name = n + k
    BY DEF SubReplacement, Inst
  <2>6. \A k \in 1 .. 3 : \A o \in {SubReplacement(i, n)[k].x, SubReplacement(i, n)[k].y} :
          \/ o \in {i.x, i.y}
          \/ o[1] = "const" /\ o[2] < i.size
          \/ \E j \in 1 .. k - 1 : j < 3 /\ o = Val(n + j)
    BY <1>s DEF SubReplacement, Inst, Const
  <2> QED
    BY <2>2, <2>3, <2>4, <2>5, <2>6
<1> QED
  BY <1>1, <1>2 DEF Tool

InType(env, i, o) == Get(env, o) \in 0 .. i.size - 1

\* Where the new instructions have their values, the last has the value the old one
\* would have.
LEMMA ReplacementSound ==
  ASSUME NEW t \in Tool, NEW i \in Instruction, Matches(t, i), NEW n \in Nat, NEW env,
         InType(env, i, i.x), InType(env, i, i.y), Satisfies(env, Replacement(t, i, n))
  PROVE  Satisfies(env, <<i>>)
<1> DEFINE a == Get(env, i.x)
           b == Get(env, i.y)
           v(k) == env[n + k]
<1>s. i.size \in Nat \ {0, 1} /\ i.size \in Size
  BY BitsAssumption DEF Instruction
<1>0. a \in 0 .. i.size - 1 /\ b \in 0 .. i.size - 1
  BY DEF InType
<1>1. CASE t = "mba_add"
  <2> DEFINE new == AddReplacement(i, n)
  <2>1. i.size = 256 /\ Byte = 256 /\ i.op = "add" /\ Satisfies(env, new)
    BY <1>1 DEF Matches, Byte, Replacement
  <2>2. DOMAIN new = 1 .. 8
    BY DEF AddReplacement
  <2>3. \A k \in 1 .. 8 : /\ env[new[k].name] \in 0 .. new[k].size - 1
                          /\ env[new[k].name] = Result(env, new[k])
    BY <2>1, <2>2 DEF Satisfies
  <2>4. /\ v(1) = BitXor(a, b) /\ v(1) \in 0 .. 255
        /\ v(2) = BitAnd(a, b) /\ v(2) \in 0 .. 255
    <3>1. new[1] = Inst(n + 1, "xor", Byte, i.x, i.y) /\ new[2] = Inst(n + 2, "and", Byte, i.x, i.y)
      BY DEF AddReplacement
    <3> QED
      BY <2>1, <2>3, <3>1, SMTT(20) DEF Inst, Result
  <2>5. /\ v(3) = (2 * v(2)) % 256
        /\ v(4) = (v(1) + v(3)) % 256
        /\ v(5) = (v(4) * 39) % 256
        /\ v(6) = (v(5) + 23) % 256
        /\ v(7) = (v(6) * 151) % 256
        /\ env[i.name] = (v(7) + 111) % 256
    <3>1. /\ new[3] = Inst(n + 3, "mul", Byte, Const(2), Val(n + 2))
          /\ new[4] = Inst(n + 4, "add", Byte, Val(n + 1), Val(n + 3))
          /\ new[5] = Inst(n + 5, "mul", Byte, Val(n + 4), Const(39))
          /\ new[6] = Inst(n + 6, "add", Byte, Val(n + 5), Const(23))
          /\ new[7] = Inst(n + 7, "mul", Byte, Val(n + 6), Const(151))
          /\ new[8] = Inst(i.name, "add", Byte, Val(n + 7), Const(111))
      BY DEF AddReplacement
    <3>2. \A k \in Nat : Get(env, Val(k)) = env[k] /\ Get(env, Const(k)) = k
      BY DEF Get, Val, Const
    <3>3. \A name, x, y : /\ Result(env, Inst(name, "add", Byte, x, y)) = (Get(env, x) + Get(env, y)) % Byte
                          /\ Result(env, Inst(name, "mul", Byte, x, y)) = (Get(env, x) * Get(env, y)) % Byte
      BY DEF Result, Inst
    <3>4. \A k \in 3 .. 7 : new[k].name = n + k
      BY <3>1 DEF Inst
    <3>5. new[8].name = i.name
      BY <3>1 DEF Inst
    <3>6. v(3) = (2 * v(2)) % 256
      BY <2>1, <2>3, <3>1, <3>2, <3>3, <3>4
    <3>7. v(4) = (v(1) + v(3)) % 256
      BY <2>1, <2>3, <3>1, <3>2, <3>3, <3>4
    <3>8. v(5) = (v(4) * 39) % 256
      BY <2>1, <2>3, <3>1, <3>2, <3>3, <3>4
    <3>9. v(6) = (v(5) + 23) % 256
      BY <2>1, <2>3, <3>1, <3>2, <3>3, <3>4
    <3>10. v(7) = (v(6) * 151) % 256
      BY <2>1, <2>3, <3>1, <3>2, <3>3, <3>4
    <3>11. env[i.name] = (v(7) + 111) % 256
      BY <2>1, <2>3, <3>1, <3>2, <3>3, <3>5
    <3> QED
      BY <3>6, <3>7, <3>8, <3>9, <3>10, <3>11
  <2>6. v(1) + 2 * v(2) = a + b
    <3>0. Byte \in Size /\ Byte - 1 = 255
      BY <1>s, <2>1
    <3>a. \A x, y \in 0 .. Byte - 1 : BitXor(x, y) + 2 * BitAnd(x, y) = x + y
      BY <3>0, BitsAssumption, Zenon
    <3>1. \A x, y \in 0 .. 255 : BitXor(x, y) + 2 * BitAnd(x, y) = x + y
      BY <3>0, <3>a, Zenon
    <3>2. a \in 0 .. 255 /\ b \in 0 .. 255
      BY <1>0, <2>1
    <3> HIDE DEF a, b, v
    <3> QED
      BY <2>4, <3>1, <3>2
  <2>7. env[i.name] = (a + b) % 256
    <3>1. a \in 0 .. 255 /\ b \in 0 .. 255
      BY <1>0, <2>1
    <3> DEFINE v1 == v(1)
               v2 == v(2)
               v3 == v(3)
               v4 == v(4)
               v5 == v(5)
               v6 == v(6)
               v7 == v(7)
    <3>2. /\ v1 \in 0 .. 255 /\ v2 \in 0 .. 255 /\ v1 + 2 * v2 = a + b
          /\ v3 = (2 * v2) % 256 /\ v4 = (v1 + v3) % 256 /\ v5 = (v4 * 39) % 256
          /\ v6 = (v5 + 23) % 256 /\ v7 = (v6 * 151) % 256
      BY <2>4, <2>5, <2>6
    <3> HIDE DEF v1, v2, v3, v4, v5, v6, v7, a, b
    <3>3. v4 \in 0 .. 255 /\ v4 = (a + b) % 256
      <4>1. CASE v2 <= 127
        <5>1. v3 = 2 * v2
          BY <3>2, <4>1, Z3
        <5>2. v4 = (a + b) % 256
          BY <3>2, <5>1
        <5> QED
          BY <3>1, <5>2, Z3
      <4>2. CASE v2 >= 128
        <5>1. v3 = 2 * v2 - 256
          BY <3>2, <4>2, Z3
        <5>2. v1 + v3 = a + b - 256
          BY <3>1, <3>2, <5>1, Z3
        <5>3. v4 = (a + b - 256) % 256
          BY <3>2, <5>2
        <5>4. (a + b - 256) % 256 = (a + b) % 256 /\ (a + b) % 256 \in 0 .. 255
          BY <3>1, Z3
        <5> QED
          BY <5>3, <5>4
      <4> QED
        BY <3>2, <4>1, <4>2, Z3
    <3>4. (v7 + 111) % 256 = v4
      BY <3>2, <3>3, Z3
    <3> QED
      BY <2>5, <3>3, <3>4, ZenonT(30) DEF v7
  <2>8. Result(env, i) = (a + b) % 256 /\ (a + b) % 256 \in 0 .. 255
    <3>1. Result(env, i) = (a + b) % 256
      BY <2>1 DEF Result
    <3>2. a \in Int /\ b \in Int
      BY <1>0, <1>s
    <3> HIDE DEF a, b
    <3>3. (a + b) % 256 \in 0 .. 255
      BY <3>2
    <3> QED
      BY <3>1, <3>3
  <2> QED
    BY <2>1, <2>7, <2>8 DEF Satisfies
<1>2. CASE t = "mba_sub"
  <2> DEFINE new == SubReplacement(i, n)
             m == i.size
  <2>1. i.op = "sub" /\ Satisfies(env, new)
    BY <1>2 DEF Matches, Replacement
  <2>2. DOMAIN new = 1 .. 3
    BY DEF SubReplacement
  <2>3. \A k \in 1 .. 3 : env[new[k].name] = Result(env, new[k])
    BY <2>1, <2>2 DEF Satisfies
  <2>4. v(1) = BitXor(b, m - 1) /\ v(2) = (a + v(1)) % m /\ env[i.name] = (v(2) + 1) % m
    <3>1. /\ new[1] = Inst(n + 1, "xor", m, i.y, Const(m - 1))
          /\ new[2] = Inst(n + 2, "add", m, i.x, Val(n + 1))
          /\ new[3] = Inst(i.name, "add", m, Val(n + 2), Const(1))
      BY DEF SubReplacement
    <3>2. v(1) = Result(env, new[1]) /\ v(2) = Result(env, new[2]) /\ env[i.name] = Result(env, new[3])
      BY <2>3, <3>1 DEF Inst
    <3>3. Result(env, new[1]) = BitXor(b, m - 1)
      BY <3>1 DEF Inst, Result, Get, Const
    <3>4. Result(env, new[2]) = (a + v(1)) % m
      BY <3>1 DEF Inst, Result, Get, Val
    <3>5. Result(env, new[3]) = (v(2) + 1) % m
      BY <3>1 DEF Inst, Result, Get, Val, Const
    <3> QED
      BY <3>2, <3>3, <3>4, <3>5
  <2>5. v(1) = m - 1 - b
    BY <1>0, <1>s, <2>4, BitsAssumption
  <2>6. env[i.name] = (a - b) % m
    BY <1>0, <1>s, <2>4, <2>5, SubIdentity
  <2>7. (a - b) % m \in 0 .. m - 1
    BY <1>0, <1>s
  <2> QED
    BY <2>1, <2>6, <2>7 DEF Satisfies, Result
<1> QED
  BY <1>1, <1>2 DEF Tool

-----------------------------------------------------------------------------
(* A block with one instruction replaced.                                  *)

Splice(code, p, new) == SubSeq(code, 1, p - 1) \o new \o SubSeq(code, p + 1, Len(code))

\* Where an instruction of the block is then, new standing at p having r of them.
Moved(j, p, r) == IF j < p THEN j ELSE j + r - 1

LEMMA SpliceElements ==
  ASSUME NEW S, NEW code \in Seq(S), NEW p \in 1 .. Len(code), NEW new \in Seq(S),
         Len(new) \in Nat \ {0}
  PROVE  LET c == Splice(code, p, new)
             r == Len(new)
         IN  /\ c \in Seq(S) /\ Len(c) = Len(code) + r - 1
             /\ \A j \in 1 .. Len(code) : j # p => c[Moved(j, p, r)] = code[j]
             /\ \A k \in 1 .. r : c[p - 1 + k] = new[k]
<1> DEFINE before == SubSeq(code, 1, p - 1)
           after == SubSeq(code, p + 1, Len(code))
           r == Len(new)
           L == Len(code)
<1>0. L \in Nat /\ p \in 1 .. L /\ r \in Nat \ {0}
  OBVIOUS
<1>1. /\ before \in Seq(S) /\ Len(before) = p - 1
      /\ \A j \in 1 .. p - 1 : before[j] = code[j]
  BY <1>0, SubSeqProperties
<1>2. /\ after \in Seq(S) /\ Len(after) = L - p
      /\ \A j \in 1 .. L - p : after[j] = code[p + j]
  BY <1>0, SubSeqProperties
<1> HIDE DEF before, after, L
<1> DEFINE front == before \o new
           c == front \o after
<1>3. /\ front \in Seq(S) /\ Len(front) = p - 1 + r
      /\ \A j \in 1 .. p - 1 : front[j] = code[j]
      /\ \A k \in 1 .. r : front[p - 1 + k] = new[k]
  <2>1. /\ front \in Seq(S) /\ Len(front) = Len(before) + Len(new)
        /\ \A k \in 1 .. Len(before) + Len(new) :
             front[k] = IF k <= Len(before) THEN before[k] ELSE new[k - Len(before)]
    BY <1>1, ConcatProperties
  <2> HIDE DEF front
  <2>2. Len(front) = p - 1 + r
    BY <1>1, <2>1
  <2>3. ASSUME NEW j \in 1 .. p - 1 PROVE front[j] = code[j]
    <3>1. j \in 1 .. Len(before) + Len(new) /\ j <= Len(before)
      BY <1>0, <1>1
    <3> QED
      BY <3>1, <2>1, <1>1
  <2>4. ASSUME NEW k \in 1 .. r PROVE front[p - 1 + k] = new[k]
    <3>1. /\ p - 1 + k \in 1 .. Len(before) + Len(new) /\ ~(p - 1 + k <= Len(before))
          /\ p - 1 + k - Len(before) = k
      BY <1>0, <1>1
    <3> QED
      BY <3>1, <2>1, SMTT(20)
  <2> QED
    BY <2>1, <2>2, <2>3, <2>4
<1> HIDE DEF front
<1>4. /\ c \in Seq(S) /\ Len(c) = L + r - 1
      /\ \A k \in 1 .. p - 1 + r : c[k] = front[k]
      /\ \A j \in 1 .. L - p : c[p - 1 + r + j] = after[j]
  <2>1. /\ c \in Seq(S) /\ Len(c) = Len(front) + Len(after)
        /\ \A k \in 1 .. Len(front) + Len(after) :
             c[k] = IF k <= Len(front) THEN front[k] ELSE after[k - Len(front)]
    <3>1. front \in Seq(S) /\ after \in Seq(S)
      BY <1>2, <1>3
    <3> QED
      BY <3>1, ConcatProperties
  <2> HIDE DEF c
  <2>2. Len(c) = L + r - 1
    BY <1>0, <1>2, <1>3, <2>1
  <2>3. ASSUME NEW k \in 1 .. p - 1 + r PROVE c[k] = front[k]
    <3>1. k \in 1 .. Len(front) + Len(after) /\ k <= Len(front)
      BY <1>0, <1>2, <1>3
    <3> QED
      BY <3>1, <2>1
  <2>4. ASSUME NEW j \in 1 .. L - p PROVE c[p - 1 + r + j] = after[j]
    <3>1. /\ p - 1 + r + j \in 1 .. Len(front) + Len(after) /\ ~(p - 1 + r + j <= Len(front))
          /\ p - 1 + r + j - Len(front) = j
      BY <1>0, <1>2, <1>3
    <3> QED
      BY <3>1, <2>1
  <2> QED
    BY <2>1, <2>2, <2>3, <2>4
<1> HIDE DEF c
<1>5. \A j \in 1 .. p - 1 : c[j] = code[j]
  BY <1>0, <1>3, <1>4
<1>6. \A k \in 1 .. r : c[p - 1 + k] = new[k]
  BY <1>0, <1>3, <1>4
<1>7. \A j \in p + 1 .. L : c[j + r - 1] = code[j]
  <2> TAKE j \in p + 1 .. L
  <2>1. j - p \in 1 .. L - p /\ p - 1 + r + (j - p) = j + r - 1 /\ p + (j - p) = j
    BY <1>0
  <2> QED
    BY <2>1, <1>2, <1>4
<1>8. Splice(code, p, new) = c
  BY DEF Splice, before, after, front, c, L
<1>9. ASSUME NEW j \in 1 .. L, j # p PROVE c[Moved(j, p, r)] = code[j]
  <2>1. CASE j < p
    <3>1. j \in 1 .. p - 1 /\ Moved(j, p, r) = j
      BY <1>0, <2>1 DEF Moved
    <3> QED
      BY <3>1, <1>5
  <2>2. CASE j > p
    <3>1. j \in p + 1 .. L /\ Moved(j, p, r) = j + r - 1
      BY <1>0, <2>2 DEF Moved
    <3> QED
      BY <3>1, <1>7
  <2> QED
    BY <1>0, <1>9, <2>1, <2>2
<1> QED
  BY <1>4, <1>6, <1>8, <1>9 DEF L

Bounded(args, code, n) == \A m \in DOMAIN args \cup Names(code) : m \in Nat /\ m <= n

\* What a replacement makes of a block: every instruction is there, under its name, and
\* the others have names that were free.
IsReplaced(c, t, code, p, n, r) ==
  /\ c \in Seq(Instruction) /\ r \in Nat \ {0, 1} /\ Len(c) = Len(code) + r - 1
  /\ \A j \in 1 .. Len(code) :
       /\ c[Moved(j, p, r)].name = code[j].name /\ c[Moved(j, p, r)].size = code[j].size
       /\ j # p => c[Moved(j, p, r)] = code[j]
  /\ \A k \in 1 .. r : c[p - 1 + k] = Replacement(t, code[p], n)[k]
  /\ \A m \in 1 .. Len(c) : \/ \E j \in 1 .. Len(code) : m = Moved(j, p, r)
                            \/ \E k \in 1 .. r - 1 : m = p - 1 + k /\ c[m].name = n + k

LEMMA Replaced ==
  ASSUME NEW t \in Tool, NEW code \in Seq(Instruction), NEW p \in 1 .. Len(code),
         Matches(t, code[p]), NEW n \in Nat
  PROVE  IsReplaced(Splice(code, p, Replacement(t, code[p], n)), t, code, p, n,
                    Len(Replacement(t, code[p], n)))
<1> DEFINE new == Replacement(t, code[p], n)
           r == Len(new)
           c == Splice(code, p, new)
<1>0. code[p] \in Instruction /\ Len(code) \in Nat
  OBVIOUS
<1>1. /\ new \in Seq(Instruction) /\ r \in Nat \ {0, 1}
      /\ new[r].size = code[p].size /\ new[r].name = code[p].name
      /\ \A k \in 1 .. r - 1 : new[k].name = n + k
  <2>1. /\ new \in Seq(Instruction) /\ r \in Nat \ {0, 1}
        /\ \A k \in 1 .. r : new[k].size = code[p].size
        /\ new[r].name = code[p].name
        /\ \A k \in 1 .. r - 1 : new[k].name = n + k
    BY <1>0, ReplacementShape
  <2>2. r \in 1 .. r
    BY <2>1
  <2> HIDE DEF new
  <2> QED
    BY <2>1, <2>2
<1> HIDE DEF new
<1>2. /\ c \in Seq(Instruction) /\ Len(c) = Len(code) + r - 1
      /\ \A j \in 1 .. Len(code) : j # p => c[Moved(j, p, r)] = code[j]
      /\ \A k \in 1 .. r : c[p - 1 + k] = new[k]
  BY <1>1, SpliceElements
<1> HIDE DEF c, r
<1>3. Moved(p, p, r) = p - 1 + r /\ r \in 1 .. r
  BY <1>1 DEF Moved
<1>4. c[Moved(p, p, r)].name = code[p].name /\ c[Moved(p, p, r)].size = code[p].size
  BY <1>1, <1>2, <1>3 DEF r
<1>5. ASSUME NEW m \in 1 .. Len(c)
      PROVE  \/ \E j \in 1 .. Len(code) : m = Moved(j, p, r)
             \/ \E k \in 1 .. r - 1 : m = p - 1 + k /\ c[m].name = n + k
  <2>1. CASE m < p
    BY <1>0, <2>1 DEF Moved
  <2>2. CASE m >= p /\ m < p + r - 1
    <3>1. m - p + 1 \in 1 .. r - 1 /\ m = p - 1 + (m - p + 1)
      BY <1>0, <1>1, <2>2
    <3>2. c[m] = new[m - p + 1] /\ new[m - p + 1].name = n + (m - p + 1)
      BY <3>1, <1>1, <1>2
    <3> QED
      BY <3>1, <3>2
  <2>3. CASE m >= p + r - 1
    <3>1. m - r + 1 \in 1 .. Len(code) /\ m = Moved(m - r + 1, p, r)
      BY <1>0, <1>1, <1>2, <2>3 DEF Moved
    <3> QED
      BY <3>1
  <2> QED
    BY <1>0, <1>1, <2>1, <2>2, <2>3
<1> QED
  BY <1>1, <1>2, <1>4, <1>5 DEF r, c, new, IsReplaced

\* The arguments of a function and the names in use.
ArgsOK(args) == DOMAIN args \subseteq Nat /\ args \in [DOMAIN args -> Nat]

LEMMA ReplacedBounded ==
  ASSUME NEW args, NEW t \in Tool, NEW code \in Seq(Instruction), NEW p \in 1 .. Len(code),
         Matches(t, code[p]), NEW n \in Nat, Bounded(args, code, n)
  PROVE  LET new == Replacement(t, code[p], n)
         IN  Bounded(args, Splice(code, p, new), n + Len(new))
<1> DEFINE new == Replacement(t, code[p], n)
           r == Len(new)
           c == Splice(code, p, new)
<1>1. /\ c \in Seq(Instruction) /\ r \in Nat \ {0, 1}
      /\ \A j \in 1 .. Len(code) : c[Moved(j, p, r)].name = code[j].name
      /\ \A m \in 1 .. Len(c) : \/ \E j \in 1 .. Len(code) : m = Moved(j, p, r)
                                \/ \E k \in 1 .. r - 1 : m = p - 1 + k /\ c[m].name = n + k
  <2>1. IsReplaced(c, t, code, p, n, r)
    BY Replaced
  <2> HIDE DEF new, c, r
  <2> QED
    BY <2>1 DEF IsReplaced, new
<1> HIDE DEF new, c, r
<1>2. ASSUME NEW m \in 1 .. Len(c) PROVE c[m].name \in Nat /\ c[m].name <= n + r
  <2>1. ASSUME NEW j \in 1 .. Len(code), m = Moved(j, p, r) PROVE c[m].name \in Nat /\ c[m].name <= n + r
    <3>1. code[j].name \in Nat /\ code[j].name <= n
      BY DEF Bounded, Names
    <3> QED
      BY <1>1, <2>1, <3>1
  <2>2. ASSUME NEW k \in 1 .. r - 1, c[m].name = n + k PROVE c[m].name \in Nat /\ c[m].name <= n + r
    BY <1>1, <2>2
  <2> QED
    BY <1>1, <2>1, <2>2
<1>3. \A m \in DOMAIN args : m \in Nat /\ m <= n + r
  BY <1>1 DEF Bounded
<1>4. DOMAIN c = 1 .. Len(c)
  BY <1>1
<1> QED
  BY <1>2, <1>3, <1>4 DEF Bounded, Names, new, c, r

\* The operand o of the instruction at m is there: a small constant, an argument, or an
\* earlier result, of the right type.
Supplied(args, code, m, o) ==
  \/ o[1] = "const" /\ o[2] < code[m].size
  \/ o[1] = "val" /\ o[2] \in DOMAIN args /\ args[o[2]] = code[m].size
  \/ o[1] = "val" /\ \E j \in 1 .. m - 1 : code[j].name = o[2] /\ code[j].size = code[m].size

\* If the block was one the verifier accepts, so is the new one.
LEMMA ReplacedValid ==
  ASSUME NEW args, NEW t \in Tool, NEW code \in Seq(Instruction), NEW p \in 1 .. Len(code),
         Matches(t, code[p]), NEW n \in Nat, Bounded(args, code, n), Valid(args, code)
  PROVE  Valid(args, Splice(code, p, Replacement(t, code[p], n)))
<1> DEFINE new == Replacement(t, code[p], n)
           r == Len(new)
           c == Splice(code, p, new)
           Old(m) == \E j \in 1 .. Len(code) : m = Moved(j, p, r)
           New(m) == \E k \in 1 .. r - 1 : m = p - 1 + k /\ c[m].name = n + k
<1>0. Len(code) \in Nat /\ DOMAIN code = 1 .. Len(code) /\ code[p] \in Instruction
  OBVIOUS
<1>1. /\ c \in Seq(Instruction) /\ r \in Nat \ {0, 1} /\ Len(c) = Len(code) + r - 1
      /\ \A j \in 1 .. Len(code) :
           /\ c[Moved(j, p, r)].name = code[j].name /\ c[Moved(j, p, r)].size = code[j].size
           /\ j # p => c[Moved(j, p, r)] = code[j]
      /\ \A k \in 1 .. r : c[p - 1 + k] = new[k]
      /\ \A m \in 1 .. Len(c) : Old(m) \/ New(m)
  <2>1. IsReplaced(c, t, code, p, n, r)
    BY Replaced
  <2> HIDE DEF new, c, r
  <2> QED
    BY <2>1 DEF IsReplaced, new
<1>2. /\ \A k \in 1 .. r : new[k].size = code[p].size
      /\ \A k \in 1 .. r - 1 : new[k].name = n + k
      /\ \A k \in 1 .. r : \A o \in {new[k].x, new[k].y} :
           \/ o \in {code[p].x, code[p].y}
           \/ o[1] = "const" /\ o[2] < code[p].size
           \/ \E j \in 1 .. k - 1 : j < r /\ o = Val(n + j)
  BY <1>0, ReplacementShape
<1>3. /\ \A j \in 1 .. Len(code) : code[j].name \in Nat /\ code[j].name <= n
      /\ \A m \in DOMAIN args : m \in Nat /\ m <= n
  BY <1>0 DEF Bounded, Names
<1>4. /\ \A i, j \in 1 .. Len(code) : code[i].name = code[j].name => i = j
      /\ \A j \in 1 .. Len(code) : code[j].name \notin DOMAIN args
      /\ \A j \in 1 .. Len(code) : \A o \in {code[j].x, code[j].y} : Supplied(args, code, j, o)
  BY <1>0 DEF Valid, Names, Supplied
<1> HIDE DEF new, r, c
<1>5. \A m \in 1 .. Len(c) : /\ Old(m) => c[m].name \in Nat /\ c[m].name <= n
                             /\ New(m) => c[m].name \in Nat /\ c[m].name > n
  <2> TAKE m \in 1 .. Len(c)
  <2>1. ASSUME NEW j \in 1 .. Len(code), m = Moved(j, p, r) PROVE c[m].name \in Nat /\ c[m].name <= n
    BY <2>1, <1>1, <1>3
  <2>2. ASSUME NEW k \in 1 .. r - 1, c[m].name = n + k PROVE c[m].name \in Nat /\ c[m].name > n
    BY <2>2, <1>1
  <2> QED
    BY <2>1, <2>2
<1>6. \A l, m \in 1 .. Len(c) : c[l].name = c[m].name => l = m
  <2> TAKE l, m \in 1 .. Len(c)
  <2> HAVE c[l].name = c[m].name
  <2>1. CASE Old(l) /\ Old(m)
    <3>1. PICK i \in 1 .. Len(code), j \in 1 .. Len(code) : l = Moved(i, p, r) /\ m = Moved(j, p, r)
      BY <2>1
    <3>2. code[i].name = code[j].name
      BY <3>1, <1>1
    <3> QED
      BY <3>1, <3>2, <1>4
  <2>2. CASE New(l) /\ New(m)
    <3>1. PICK i \in 1 .. r - 1, k \in 1 .. r - 1 : /\ l = p - 1 + i /\ c[l].name = n + i
                                                  /\ m = p - 1 + k /\ c[m].name = n + k
      BY <2>2
    <3>2. n + i = n + k
      BY <3>1
    <3> QED
      BY <3>1, <3>2, <1>1
  <2>3. CASE Old(l) /\ New(m)
    <3>1. c[l].name \in Nat /\ c[l].name <= n /\ c[m].name > n
      BY <2>3, <1>5
    <3> QED
      BY <3>1
  <2>4. CASE New(l) /\ Old(m)
    <3>1. c[m].name \in Nat /\ c[m].name <= n /\ c[l].name > n
      BY <2>4, <1>5
    <3> QED
      BY <3>1
  <2> QED
    BY <2>1, <2>2, <2>3, <2>4, <1>1
<1>7. \A m \in 1 .. Len(c) : c[m].name \notin DOMAIN args
  BY <1>1, <1>3, <1>4, <1>5
<1>8. ASSUME NEW j \in 1 .. Len(code), NEW o, Supplied(args, code, j, o),
             NEW m \in 1 .. Len(c), c[m].size = code[j].size,
             m = Moved(j, p, r) \/ (j = p /\ m >= p)
      PROVE  Supplied(args, c, m, o)
  <2>1. ASSUME NEW i \in 1 .. j - 1, code[i].name = o[2], code[i].size = code[j].size
        PROVE  \E l \in 1 .. m - 1 : c[l].name = o[2] /\ c[l].size = c[m].size
    <3>1. Moved(i, p, r) \in 1 .. m - 1
      BY <1>0, <1>1, <1>8, <2>1, SMTT(20) DEF Moved
    <3>2. i \in 1 .. Len(code)
      BY <1>0
    <3> QED
      BY <3>1, <3>2, <1>1, <1>8, <2>1
  <2> QED
    BY <1>8, <2>1 DEF Supplied
<1>9. ASSUME NEW m \in 1 .. Len(c), NEW o \in {c[m].x, c[m].y} PROVE Supplied(args, c, m, o)
  <2>1. ASSUME NEW j \in 1 .. Len(code), m = Moved(j, p, r), j # p PROVE Supplied(args, c, m, o)
    <3>1. c[m] = code[j] /\ Supplied(args, code, j, o)
      BY <2>1, <1>1, <1>4
    <3> QED
      BY <3>1, <2>1, <1>8
  <2>2. ASSUME NEW k \in 1 .. r, m = p - 1 + k PROVE Supplied(args, c, m, o)
    <3>1. c[m] = new[k] /\ c[m].size = code[p].size /\ m >= p
      BY <2>2, <1>0, <1>1, <1>2, SMTT(20)
    <3>2. CASE o \in {code[p].x, code[p].y}
      <4>1. Supplied(args, code, p, o)
        BY <3>2, <1>4
      <4> QED
        BY <4>1, <3>1, <1>8
    <3>3. CASE o[1] = "const" /\ o[2] < code[p].size
      BY <3>1, <3>3 DEF Supplied
    <3>4. ASSUME NEW j \in 1 .. k - 1, j < r, o = Val(n + j) PROVE Supplied(args, c, m, o)
      <4>1. j \in 1 .. r /\ p - 1 + j \in 1 .. m - 1
        BY <2>2, <3>4, <1>0, <1>1
      <4>2. c[p - 1 + j].name = n + j /\ c[p - 1 + j].size = code[p].size
        <5>1. c[p - 1 + j] = new[j] /\ j \in 1 .. r - 1
          BY <3>4, <4>1, <1>1
        <5> QED
          BY <4>1, <5>1, <1>2
      <4>3. o[1] = "val" /\ o[2] = n + j
        BY <3>4 DEF Val
      <4> QED
        BY <3>1, <4>1, <4>2, <4>3 DEF Supplied
    <3> QED
      BY <3>1, <3>2, <3>3, <3>4, <1>2
  <2>3. (\E j \in 1 .. Len(code) : m = Moved(j, p, r) /\ j # p) \/ (\E k \in 1 .. r : m = p - 1 + k)
    <3>1. CASE New(m)
      BY <3>1, <1>1
    <3>2. CASE Old(m)
      <4>1. r \in 1 .. r /\ Moved(p, p, r) = p - 1 + r
        BY <1>0, <1>1 DEF Moved
      <4> QED
        BY <4>1, <3>2
    <3> QED
      BY <3>1, <3>2, <1>1
  <2> QED
    BY <2>1, <2>2, <2>3
<1>10. DOMAIN c = 1 .. Len(c)
  BY <1>1
<1> QED
  BY <1>6, <1>7, <1>9, <1>10 DEF Valid, Names, Supplied, c, new

\* env gives the arguments numbers of their types.
Call(args, env) == \A a \in DOMAIN args : env[a] \in 0 .. args[a] - 1

\* What the new block computes, the old one computes.
LEMMA ReplacedMeans ==
  ASSUME NEW args, NEW t \in Tool, NEW code \in Seq(Instruction), NEW p \in 1 .. Len(code),
         Matches(t, code[p]), NEW n \in Nat, Valid(args, code), NEW env, Call(args, env),
         Satisfies(env, Splice(code, p, Replacement(t, code[p], n)))
  PROVE  Satisfies(env, code)
<1> DEFINE new == Replacement(t, code[p], n)
           r == Len(new)
           c == Splice(code, p, new)
<1>0. Len(code) \in Nat /\ DOMAIN code = 1 .. Len(code) /\ code[p] \in Instruction
  OBVIOUS
<1>1. IsReplaced(c, t, code, p, n, r)
  BY Replaced
<1>2. new \in Seq(Instruction)
  BY <1>0, ReplacementShape
<1> HIDE DEF new, r, c
<1>3. /\ DOMAIN c = 1 .. Len(c) /\ r \in Nat \ {0, 1} /\ Len(c) = Len(code) + r - 1
      /\ \A j \in 1 .. Len(code) : j # p => c[Moved(j, p, r)] = code[j]
      /\ \A k \in 1 .. r : c[p - 1 + k] = new[k]
  BY <1>1 DEF IsReplaced, new
<1>4. \A m \in 1 .. Len(c) : /\ env[c[m].name] \in 0 .. c[m].size - 1
                             /\ env[c[m].name] = Result(env, c[m])
  BY <1>3 DEF Satisfies, c, new
<1>5. ASSUME NEW j \in 1 .. Len(code), j # p
      PROVE  env[code[j].name] \in 0 .. code[j].size - 1 /\ env[code[j].name] = Result(env, code[j])
  <2>1. Moved(j, p, r) \in 1 .. Len(c)
    BY <1>0, <1>3, <1>5 DEF Moved
  <2> QED
    BY <2>1, <1>3, <1>4, <1>5
<1>6. ASSUME NEW o \in {code[p].x, code[p].y} PROVE InType(env, code[p], o)
  <2>1. code[p].size \in Nat \ {0, 1} /\ o \in Operand
    BY <1>0, BitsAssumption DEF Instruction
  <2>2. Supplied(args, code, p, o)
    BY <1>0 DEF Valid, Supplied
  <2>3. CASE o[1] = "const" /\ o[2] < code[p].size
    BY <2>1, <2>3 DEF InType, Get, Operand
  <2>4. CASE o[1] = "val" /\ o[2] \in DOMAIN args /\ args[o[2]] = code[p].size
    BY <2>4 DEF InType, Get, Call
  <2>5. ASSUME o[1] = "val", NEW j \in 1 .. p - 1, code[j].name = o[2], code[j].size = code[p].size
        PROVE  InType(env, code[p], o)
    <3>1. j \in 1 .. Len(code) /\ j # p
      BY <1>0
    <3> QED
      BY <2>5, <3>1, <1>5 DEF InType, Get
  <2> QED
    BY <2>2, <2>3, <2>4, <2>5 DEF Supplied
<1>7. Satisfies(env, new)
  <2> SUFFICES ASSUME NEW k \in 1 .. r
               PROVE  env[new[k].name] \in 0 .. new[k].size - 1 /\ env[new[k].name] = Result(env, new[k])
    BY <1>2 DEF Satisfies, r
  <2>1. p - 1 + k \in 1 .. Len(c)
    BY <1>0, <1>3
  <2> QED
    BY <2>1, <1>3, <1>4
<1>8. Satisfies(env, <<code[p]>>)
  BY <1>0, <1>6, <1>7, ReplacementSound DEF new
<1>9. env[code[p].name] \in 0 .. code[p].size - 1 /\ env[code[p].name] = Result(env, code[p])
  BY <1>8 DEF Satisfies
<1> QED
  BY <1>0, <1>5, <1>9 DEF Satisfies

-----------------------------------------------------------------------------
(* The invariant.                                                          *)

\* Whatever values satisfy the block, for a call of the function, are those that the
\* block the file held at first gives its names.
Means(code) ==
  \A env \in [Nat -> Nat] : Call(fn.args, env) /\ Satisfies(env, code) => Satisfies(env, fn.code)

Good(code) ==
  /\ Bounded(fn.args, code, last)
  /\ Valid(fn.args, code)
  /\ code # << >> => Means(code)

IInv == TypeOK /\ Good(file.code) /\ Good(block)

LEMMA GoodEmpty == ASSUME Bounded(fn.args, << >>, last) PROVE Good(<< >>)
BY DEF Good, Valid, Names

LEMMA Init_IInv == Init => IInv
<1> SUFFICES ASSUME Init PROVE IInv
  OBVIOUS
<1>1. fn \in Functions /\ block = << >> /\ file = File(fn.code) /\ last = fn.last
  BY DEF Init
<1>2. /\ DOMAIN fn.args \subseteq Nat /\ fn.code \in Seq(Instruction) /\ fn.code # << >>
      /\ fn.last \in Nat /\ \A n \in DOMAIN fn.args \cup Names(fn.code) : n <= fn.last
      /\ Valid(fn.args, fn.code)
  BY <1>1, FunctionsAssumption
<1>3. TypeOK
  BY <1>1, <1>2, RunsAssumption DEF Init, TypeOK, File
<1>4. \A n \in Names(fn.code) : n \in Nat
  <2>1. \A k \in DOMAIN fn.code : fn.code[k] \in Instruction
    BY <1>2
  <2>2. \A i \in Instruction : i.name \in Nat
    BY DEF Instruction
  <2> QED
    BY <2>1, <2>2 DEF Names
<1>5. Good(fn.code)
  BY <1>1, <1>2, <1>4 DEF Good, Bounded, Means
<1>6. Good(<< >>)
  BY <1>5, GoodEmpty DEF Good, Bounded, Names
<1> QED
  BY <1>1, <1>3, <1>5, <1>6 DEF IInv, File

LEMMA ReplaceInst_IInv == ASSUME IInv, ReplaceInst PROVE IInv'
<1> DEFINE new == Replacement(tool, block[inst], last)
           r == Len(new)
           c == Splice(block, inst, new)
<1>1. /\ tool \in Tool /\ block \in Seq(Instruction) /\ inst \in 1 .. Len(block)
      /\ Matches(tool, block[inst]) /\ last \in Nat
  BY DEF IInv, TypeOK, ReplaceInst, AtInst
<1>2. block' = c /\ inst' = inst + r /\ last' = last + r /\ UNCHANGED <<fn, file, tool, read, pc, runs>>
  BY DEF ReplaceInst, Splice
<1>3. /\ c \in Seq(Instruction) /\ r \in Nat \ {0, 1} /\ Len(c) = Len(block) + r - 1
  <2>1. IsReplaced(c, tool, block, inst, last, r)
    BY <1>1, Replaced
  <2> HIDE DEF c, r
  <2> QED
    BY <2>1 DEF IsReplaced
<1>4. block # << >>
  BY <1>1
<1>5. Bounded(fn.args, c, last + r) /\ Valid(fn.args, c)
  BY <1>1, ReplacedBounded, ReplacedValid DEF IInv, Good
<1>6. Means(c)
  <2> SUFFICES ASSUME NEW env \in [Nat -> Nat], Call(fn.args, env), Satisfies(env, c)
               PROVE  Satisfies(env, fn.code)
    BY DEF Means
  <2>1. Satisfies(env, block)
    BY <1>1, ReplacedMeans DEF IInv, Good
  <2> QED
    BY <2>1, <1>4 DEF IInv, Good, Means
<1> HIDE DEF c, r
<1>7. TypeOK'
  <2>1. inst' \in 1 .. Len(block') + 1 /\ last' \in Nat
    BY <1>1, <1>2, <1>3
  <2> QED
    BY <2>1, <1>2, <1>3 DEF IInv, TypeOK
<1>8. Good(block)'
  BY <1>2, <1>5, <1>6 DEF Good, Means
<1>9. Good(file.code)'
  <2>1. last' \in Nat /\ last' >= last
    BY <1>1, <1>2, <1>3
  <2>2. Good(file.code)
    BY DEF IInv
  <2>3. Bounded(fn.args, file.code, last)'
    BY <2>1, <2>2, <1>1, <1>2 DEF Good, Bounded
  <2> QED
    BY <2>2, <2>3, <1>2 DEF Good, Means
<1> QED
  BY <1>7, <1>8, <1>9 DEF IInv

LEMMA Step_IInv == ASSUME IInv, [Next]_vars PROVE IInv'
<1>0. TypeOK /\ Good(file.code) /\ Good(block) /\ Good(<< >>)
  BY GoodEmpty DEF IInv, Good, Bounded, Names
<1>1. CASE ReplaceInst
  BY <1>1, ReplaceInst_IInv
<1>2. ASSUME NEW t \in Tool, Parse(t) PROVE IInv'
  <2>1. TypeOK'
    BY <1>0, <1>2, RunsAssumption DEF TypeOK, Parse
  <2> QED
    BY <1>0, <1>2, <2>1 DEF IInv, Good, Means, Parse
<1>3. ASSUME NEW t \in Tool, ParseFails(t) PROVE IInv'
  <2>1. TypeOK'
    BY <1>0, <1>3, RunsAssumption DEF TypeOK, ParseFails
  <2> QED
    BY <1>0, <1>3, <2>1 DEF IInv, Good, Means, ParseFails
<1>4. CASE SkipInst \/ Verify \/ OpenFails \/ UNCHANGED vars
  <2>1. TypeOK'
    BY <1>0, <1>4 DEF TypeOK, SkipInst, AtInst, Verify, OpenFails, vars
  <2>2. UNCHANGED <<fn, file, block, last>>
    BY <1>4 DEF SkipInst, Verify, OpenFails, vars
  <2> QED
    BY <1>0, <2>1, <2>2 DEF IInv, Good, Means
<1>5. CASE OpenOutput
  <2>1. TypeOK' /\ file'.code = << >>
    BY <1>0, <1>5 DEF TypeOK, OpenOutput, File
  <2> QED
    BY <1>0, <1>5, <2>1 DEF IInv, Good, Means, OpenOutput
<1>6. CASE PrintModule
  <2>1. TypeOK' /\ file'.code = block
    BY <1>0, <1>6 DEF TypeOK, PrintModule, File
  <2> QED
    BY <1>0, <1>6, <2>1 DEF IInv, Good, Means, PrintModule
<1>7. CASE Kill
  <2>1. file' = file \/ file' = Partial
    BY <1>7 DEF Kill
  <2>2. /\ file'.code \in Seq(Instruction) /\ file'.state \in {"whole", "empty", "partial"}
        /\ file'.state = "whole" <=> file'.code # << >>
        /\ file'.code = file.code \/ file'.code = << >>
    <3>1. CASE file' = file
      BY <3>1, <1>0 DEF TypeOK
    <3>2. CASE file' = Partial
      BY <3>2 DEF Partial
    <3> QED
      BY <2>1, <3>1, <3>2
  <2>3. TypeOK'
    BY <1>0, <1>7, <2>2 DEF TypeOK, Kill
  <2> QED
    BY <1>0, <1>7, <2>2, <2>3 DEF IInv, Good, Means, Kill
<1> QED
  BY <1>1, <1>2, <1>3, <1>4, <1>5, <1>6, <1>7 DEF Next, Terminating

LEMMA Invariant == Spec => []IInv
BY Init_IInv, Step_IInv, PTL DEF Spec

-----------------------------------------------------------------------------
(* Theorems.                                                               *)

\* The iterator stays within the block that grows behind it, and only a file that was
\* truncated holds no code.
THEOREM TypeCorrect == Spec => []TypeOK
<1>1. IInv => TypeOK
  BY DEF IInv
<1> QED
  BY <1>1, Invariant, PTL

\* verifyModule never refuses what mba_add and mba_sub make of a module, however often
\* they are run on each other's output.
THEOREM NeverRefused == Spec => []VerifierAccepts
<1>1. IInv => VerifierAccepts
  BY DEF IInv, Good, VerifierAccepts
<1> QED
  BY <1>1, Invariant, PTL

\* A file that holds a module, after any runs of the tools, killed or not, holds one
\* that gives every name the value the first one gave it.
Equivalent == file.state = "whole" => Means(file.code)

THEOREM MeaningKept == Spec => []Equivalent
<1>1. IInv => Equivalent
  BY DEF IInv, TypeOK, Good, Equivalent
<1> QED
  BY <1>1, Invariant, PTL

-----------------------------------------------------------------------------
(* The loop over the block.                                                *)

\* What one replaced instruction adds: instructions that the tool would replace again,
\* and instructions at all.
Gain == IF tool = "mba_add" THEN 3 ELSE 0
Growth == IF tool = "mba_add" THEN 7 ELSE 2

FoundIn(code, n) == {k \in 1 .. n : Matches(tool, code[k])}

\* How many of the instructions that were read the loop is past.
Past == Len(read) - (Len(block) - inst + 1)

\* From the iterator on the block is what was read; before it every instruction that was
\* read is still there, replaced if it had to be.
Walk ==
  pc = "rewrite" =>
    LET found == Cardinality(FoundIn(read, Past)) IN
      /\ Past \in 0 .. Len(read)
      /\ \A k \in inst .. Len(block) : block[k] = read[Past + 1 + k - inst]
      /\ Cardinality(FoundIn(block, inst - 1)) = Gain * found
      /\ inst - 1 = Past + Growth * found
      /\ \A k \in 1 .. Past : \E j \in 1 .. inst - 1 : block[j].name = read[k].name

LEMMA FoundFinite ==
  ASSUME NEW code, NEW n \in Nat
  PROVE  IsFiniteSet(FoundIn(code, n)) /\ Cardinality(FoundIn(code, n)) \in Nat
<1>1. IsFiniteSet(1 .. n) /\ FoundIn(code, n) \subseteq 1 .. n
  BY FS_Interval DEF FoundIn
<1>. QED  BY <1>1, FS_Subset, FS_CardinalityType

LEMMA FoundNone == ASSUME NEW code PROVE FoundIn(code, 0) = {} /\ Cardinality({}) = 0
BY FS_EmptySet DEF FoundIn

\* One instruction more.
LEMMA FoundNext ==
  ASSUME NEW code, NEW n \in Nat
  PROVE  Cardinality(FoundIn(code, n + 1)) =
           Cardinality(FoundIn(code, n)) + (IF Matches(tool, code[n + 1]) THEN 1 ELSE 0)
<1>1. IsFiniteSet(FoundIn(code, n)) /\ n + 1 \notin FoundIn(code, n) /\ Cardinality(FoundIn(code, n)) \in Nat
  <2>1. n + 1 \notin FoundIn(code, n)
    BY DEF FoundIn
  <2>. QED  BY <2>1, FoundFinite
<1>2. CASE Matches(tool, code[n + 1])
  <2>1. FoundIn(code, n + 1) = FoundIn(code, n) \cup {n + 1}
    BY <1>2 DEF FoundIn
  <2>. QED  BY <1>1, <1>2, <2>1, FS_AddElement
<1>3. CASE ~Matches(tool, code[n + 1])
  <2>1. FoundIn(code, n + 1) = FoundIn(code, n)
    BY <1>3 DEF FoundIn
  <2>. QED  BY <1>1, <1>3, <2>1
<1>. QED  BY <1>2, <1>3

LEMMA FoundSame ==
  ASSUME NEW code, NEW c, NEW n \in Nat, \A k \in 1 .. n : code[k] = c[k]
  PROVE  FoundIn(code, n) = FoundIn(c, n)
BY DEF FoundIn

\* What a tool puts in the place of an instruction.
LEMMA ReplacementGrows ==
  ASSUME tool \in Tool, NEW i \in Instruction, Matches(tool, i), NEW n \in Nat
  PROVE  LET new == Replacement(tool, i, n) IN
           /\ Len(new) = Growth + 1
           /\ \A k \in 1 .. Growth + 1 : Matches(tool, new[k]) <=> tool = "mba_add" /\ k \in {4, 6, 8}
<1>1. CASE tool = "mba_add"
  <2>1. Replacement(tool, i, n) = AddReplacement(i, n) /\ Growth = 7
    BY <1>1 DEF Replacement, Growth
  <2>2. Len(AddReplacement(i, n)) = 8
    BY DEF AddReplacement
  <2>3. \A k \in 1 .. 8 : /\ AddReplacement(i, n)[k].size = Byte
                          /\ AddReplacement(i, n)[k].op = "add" <=> k \in {4, 6, 8}
    BY DEF AddReplacement, Inst
  <2>4. \A k \in 1 .. 8 : Matches(tool, AddReplacement(i, n)[k]) <=> k \in {4, 6, 8}
    BY <1>1, <2>3 DEF Matches
  <2>. HIDE DEF Growth
  <2>5. Growth + 1 = 8
    BY <2>1
  <2>. QED  BY <1>1, <2>1, <2>2, <2>4, <2>5
<1>2. CASE tool = "mba_sub"
  <2>1. Replacement(tool, i, n) = SubReplacement(i, n) /\ Growth = 2
    BY <1>2 DEF Replacement, Growth
  <2>2. Len(SubReplacement(i, n)) = 3
    BY DEF SubReplacement
  <2>3. \A k \in 1 .. 3 : SubReplacement(i, n)[k].op # "sub"
    BY DEF SubReplacement, Inst
  <2>. QED  BY <1>2, <2>1, <2>2, <2>3 DEF Matches
<1>. QED  BY <1>1, <1>2 DEF Tool

\* Eight instructions of which three are additions.
LEMMA FoundReplaced ==
  ASSUME tool \in Tool, NEW c, NEW n \in Nat,
         \A k \in 1 .. Growth + 1 : Matches(tool, c[n + k]) <=> tool = "mba_add" /\ k \in {4, 6, 8}
  PROVE  Cardinality(FoundIn(c, n + Growth + 1)) = Cardinality(FoundIn(c, n)) + Gain
<1>. DEFINE F(k) == Cardinality(FoundIn(c, n + k))
<1>1. ASSUME NEW k \in 0 .. Growth
      PROVE  /\ F(k) \in Nat
             /\ F(k + 1) = F(k) + (IF tool = "mba_add" /\ k + 1 \in {4, 6, 8} THEN 1 ELSE 0)
  <2>1. n + k \in Nat /\ (n + k) + 1 = n + (k + 1) /\ k + 1 \in 1 .. Growth + 1
    BY DEF Growth
  <2>2. F(k) \in Nat
    BY <2>1, FoundFinite
  <2>3. Cardinality(FoundIn(c, (n + k) + 1)) = F(k) + (IF Matches(tool, c[(n + k) + 1]) THEN 1 ELSE 0)
    BY <2>1, FoundNext
  <2>. QED  BY <2>1, <2>2, <2>3
<1>. HIDE DEF F
<1>2. CASE tool = "mba_add"
  <2>1. /\ F(1) = F(0) /\ F(2) = F(1) /\ F(3) = F(2) /\ F(4) = F(3) + 1
        /\ F(5) = F(4) /\ F(6) = F(5) + 1 /\ F(7) = F(6) /\ F(8) = F(7) + 1 /\ F(0) \in Nat
    BY <1>1, <1>2 DEF Growth
  <2>2. F(8) = F(0) + 3
    BY <2>1
  <2>. QED  BY <1>2, <2>2 DEF F, Growth, Gain
<1>3. CASE tool = "mba_sub"
  <2>1. F(1) = F(0) /\ F(2) = F(1) /\ F(3) = F(2) /\ F(0) \in Nat
    BY <1>1, <1>3 DEF Growth
  <2>2. F(3) = F(0)
    BY <2>1
  <2>. QED  BY <1>3, <2>1, <2>2 DEF F, Growth, Gain
<1>. QED  BY <1>2, <1>3 DEF Tool

\* The loop steps over an instruction that is not replaced.
LEMMA SkipInst_Walk == ASSUME TypeOK, Walk, SkipInst PROVE Walk'
<1>. DEFINE w == Past
<1>1. /\ pc = "rewrite" /\ inst \in 1 .. Len(block) /\ ~Matches(tool, block[inst])
      /\ inst' = inst + 1 /\ UNCHANGED <<tool, read, block, pc>>
      /\ Len(block) \in Nat /\ Len(read) \in Nat
  BY DEF TypeOK, SkipInst, AtInst
<1>2. /\ w \in 0 .. Len(read)
      /\ \A k \in inst .. Len(block) : block[k] = read[w + 1 + k - inst]
      /\ Cardinality(FoundIn(block, inst - 1)) = Gain * Cardinality(FoundIn(read, w))
      /\ inst - 1 = w + Growth * Cardinality(FoundIn(read, w))
      /\ \A k \in 1 .. w : \E j \in 1 .. inst - 1 : block[j].name = read[k].name
  BY <1>1 DEF Walk
<1>3. Past' = w + 1 /\ w + 1 \in 0 .. Len(read)
  BY <1>1, <1>2 DEF Past
<1>. HIDE DEF w
<1>4. block[inst] = read[w + 1]
  <2>1. inst \in inst .. Len(block) /\ w + 1 + inst - inst = w + 1
    BY <1>1, <1>2
  <2>2. block[inst] = read[w + 1 + inst - inst]
    BY <1>2, <2>1
  <2>. QED  BY <2>1, <2>2
<1>5. Cardinality(FoundIn(read, w + 1)) = Cardinality(FoundIn(read, w))
  BY <1>1, <1>2, <1>4, FoundFinite, FoundNext
<1>6. Cardinality(FoundIn(block, inst)) = Cardinality(FoundIn(block, inst - 1))
  <2>1. PICK m \in Nat : m = inst - 1 /\ m + 1 = inst
    BY <1>1
  <2>2. Cardinality(FoundIn(block, m + 1)) = Cardinality(FoundIn(block, m))
    <3>1. Cardinality(FoundIn(block, m + 1)) =
            Cardinality(FoundIn(block, m)) + (IF Matches(tool, block[m + 1]) THEN 1 ELSE 0)
      BY FoundNext
    <3>2. Cardinality(FoundIn(block, m)) \in Nat
      BY FoundFinite
    <3>3. ~Matches(tool, block[m + 1])
      BY <1>1, <2>1
    <3>. QED  BY <3>1, <3>2, <3>3
  <2>. QED  BY <2>1, <2>2
<1>7. \A k \in inst + 1 .. Len(block) : block[k] = read[w + 1 + 1 + k - (inst + 1)]
  <2>. TAKE k \in inst + 1 .. Len(block)
  <2>1. k \in inst .. Len(block) /\ w + 1 + 1 + k - (inst + 1) = w + 1 + k - inst
    BY <1>1, <1>2
  <2>2. block[k] = read[w + 1 + k - inst]
    BY <1>2, <2>1
  <2>. QED  BY <2>1, <2>2
<1>8. \A k \in 1 .. w + 1 : \E j \in 1 .. inst : block[j].name = read[k].name
  <2>. TAKE k \in 1 .. w + 1
  <2>1. CASE k = w + 1
    <3>1. inst \in 1 .. inst /\ block[inst].name = read[k].name
      BY <1>1, <1>4, <2>1
    <3>. QED  BY <3>1
  <2>2. CASE k \in 1 .. w
    BY <1>1, <1>2, <2>2
  <2>. QED  BY <1>2, <2>1, <2>2
<1>9. inst' - 1 = inst /\ inst = w + 1 + Growth * Cardinality(FoundIn(read, w))
  <2>1. Growth * Cardinality(FoundIn(read, w)) \in Nat
    BY <1>2, FoundFinite DEF Growth
  <2>2. inst - 1 = w + Growth * Cardinality(FoundIn(read, w)) /\ inst' - 1 = inst + 1 - 1
    BY <1>1, <1>2
  <2>. QED  BY <1>1, <1>2, <2>1, <2>2
<1>10. Gain' = Gain /\ Growth' = Growth
  BY <1>1 DEF Gain, Growth
<1>11. FoundIn(read, Past)' = FoundIn(read, w + 1) /\ FoundIn(block, inst - 1)' = FoundIn(block, inst)
  BY <1>1, <1>3, <1>9 DEF FoundIn
<1>. QED  BY <1>1, <1>2, <1>3, <1>5, <1>6, <1>7, <1>8, <1>9, <1>10, <1>11 DEF Walk

\* It replaces one, and steps over what it has put there.
LEMMA ReplaceInst_Walk == ASSUME TypeOK, Walk, ReplaceInst PROVE Walk'
<1>. DEFINE w == Past
            new == Replacement(tool, block[inst], last)
            r == Growth + 1
            c == Splice(block, inst, new)
<1>1. /\ pc = "rewrite" /\ inst \in 1 .. Len(block) /\ Matches(tool, block[inst])
      /\ inst' = inst + Len(new) /\ block' = c /\ UNCHANGED <<tool, read, pc>>
      /\ Len(block) \in Nat /\ Len(read) \in Nat
      /\ tool \in Tool /\ block \in Seq(Instruction) /\ last \in Nat /\ block[inst] \in Instruction
  <2>1. /\ tool \in Tool /\ block \in Seq(Instruction) /\ read \in Seq(Instruction) /\ last \in Nat
        /\ inst \in Nat /\ inst >= 1
    BY DEF TypeOK
  <2>2. /\ pc = "rewrite" /\ inst <= Len(block) /\ Matches(tool, block[inst])
        /\ inst' = inst + Len(new) /\ block' = c /\ UNCHANGED <<tool, read, pc>>
    BY DEF ReplaceInst, AtInst, Splice
  <2>. HIDE DEF c, new
  <2>3. Len(block) \in Nat /\ Len(read) \in Nat /\ inst \in 1 .. Len(block)
    BY <2>1, <2>2
  <2>. QED  BY <2>1, <2>2, <2>3
<1>2. /\ w \in 0 .. Len(read)
      /\ \A k \in inst .. Len(block) : block[k] = read[w + 1 + k - inst]
      /\ Cardinality(FoundIn(block, inst - 1)) = Gain * Cardinality(FoundIn(read, w))
      /\ inst - 1 = w + Growth * Cardinality(FoundIn(read, w))
      /\ \A k \in 1 .. w : \E j \in 1 .. inst - 1 : block[j].name = read[k].name
  BY <1>1 DEF Walk
<1>3. Len(new) = r /\ r \in Nat \ {0, 1} /\ Growth \in Nat
      /\ \A k \in 1 .. r : Matches(tool, new[k]) <=> tool = "mba_add" /\ k \in {4, 6, 8}
  <2>1. r \in Nat \ {0, 1} /\ Growth \in Nat
    BY DEF Growth
  <2>2. Len(new) = Growth + 1
        /\ \A k \in 1 .. Growth + 1 : Matches(tool, new[k]) <=> tool = "mba_add" /\ k \in {4, 6, 8}
    BY <1>1, ReplacementGrows
  <2>. QED  BY <2>1, <2>2
<1>4. /\ c \in Seq(Instruction) /\ Len(c) = Len(block) + r - 1
      /\ \A j \in 1 .. Len(block) :
           /\ c[Moved(j, inst, r)].name = block[j].name
           /\ j # inst => c[Moved(j, inst, r)] = block[j]
      /\ \A k \in 1 .. r : c[inst - 1 + k] = new[k]
  <2>1. IsReplaced(c, tool, block, inst, last, Len(new))
    BY <1>1, Replaced
  <2>. HIDE DEF c, r
  <2>2. IsReplaced(c, tool, block, inst, last, r)
    BY <1>3, <2>1
  <2>. QED  BY <2>2 DEF IsReplaced
<1>. HIDE DEF r, c, new
<1>5. Past' = w + 1 /\ w + 1 \in 0 .. Len(read) /\ inst' = inst + r /\ Len(block') = Len(block) + r - 1
  <2>1. inst' = inst + r /\ Len(block') = Len(block) + r - 1
    BY <1>1, <1>3, <1>4
  <2>2. /\ w = Len(read) - (Len(block) - inst + 1)
        /\ Past' = Len(read') - (Len(block') - inst' + 1) /\ read' = read
    BY <1>1 DEF Past
  <2>. HIDE DEF w
  <2>3. Past' = Len(read) - (Len(block) + r - 1 - (inst + r) + 1)
    BY <1>1, <1>3, <2>1, <2>2
  <2>. QED  BY <1>1, <1>2, <1>3, <2>1, <2>2, <2>3
<1>. HIDE DEF w
<1>6. block[inst] = read[w + 1]
  <2>1. inst \in inst .. Len(block) /\ w + 1 + inst - inst = w + 1
    BY <1>1, <1>2
  <2>2. block[inst] = read[w + 1 + inst - inst]
    BY <1>2, <2>1
  <2>. QED  BY <2>1, <2>2
<1>7. Cardinality(FoundIn(read, w + 1)) = Cardinality(FoundIn(read, w)) + 1
      /\ Cardinality(FoundIn(read, w)) \in Nat
  BY <1>1, <1>2, <1>6, FoundFinite, FoundNext
<1>8. Cardinality(FoundIn(c, inst + r - 1)) = Cardinality(FoundIn(block, inst - 1)) + Gain
  <2>1. inst - 1 \in Nat /\ inst - 1 + Growth + 1 = inst + r - 1
    BY <1>1, <1>3 DEF r
  <2>2. \A k \in 1 .. Growth + 1 : Matches(tool, c[inst - 1 + k]) <=> tool = "mba_add" /\ k \in {4, 6, 8}
    BY <1>3, <1>4 DEF r
  <2>3. Cardinality(FoundIn(c, inst - 1 + Growth + 1)) = Cardinality(FoundIn(c, inst - 1)) + Gain
    BY <1>1, <2>1, <2>2, FoundReplaced
  <2>4. \A k \in 1 .. inst - 1 : block[k] = c[k]
    <3>. TAKE k \in 1 .. inst - 1
    <3>1. k \in 1 .. Len(block) /\ k # inst /\ Moved(k, inst, r) = k
      BY <1>1 DEF Moved
    <3>2. c[Moved(k, inst, r)] = block[k]
      BY <1>4, <3>1
    <3>. QED  BY <3>1, <3>2
  <2>5. FoundIn(block, inst - 1) = FoundIn(c, inst - 1)
    BY <2>1, <2>4, FoundSame
  <2>. QED  BY <2>1, <2>3, <2>5
<1>9. \A k \in inst + r .. Len(block) + r - 1 : c[k] = read[w + 1 + 1 + k - (inst + r)]
  <2>. TAKE k \in inst + r .. Len(block) + r - 1
  <2>. DEFINE j == k - r + 1
  <2>1. /\ j \in inst .. Len(block) /\ j \in 1 .. Len(block) /\ j # inst /\ Moved(j, inst, r) = k
        /\ w + 1 + j - inst = w + 1 + 1 + k - (inst + r)
    BY <1>1, <1>2, <1>3 DEF Moved
  <2>. HIDE DEF j
  <2>2. c[Moved(j, inst, r)] = block[j] /\ block[j] = read[w + 1 + j - inst]
    BY <1>2, <1>4, <2>1
  <2>. QED  BY <2>1, <2>2
<1>10. \A k \in 1 .. w + 1 : \E j \in 1 .. inst + r - 1 : c[j].name = read[k].name
  <2>. TAKE k \in 1 .. w + 1
  <2>1. PICK i \in 1 .. inst : block[i].name = read[k].name
    <3>1. CASE k = w + 1
      <4>1. inst \in 1 .. inst /\ block[inst].name = read[k].name
        BY <1>1, <1>6, <3>1
      <4>. QED  BY <4>1
    <3>2. CASE k \in 1 .. w
      <4>1. PICK j \in 1 .. inst - 1 : block[j].name = read[k].name
        BY <1>2, <3>2
      <4>2. j \in 1 .. inst
        BY <1>1
      <4>. QED  BY <4>1, <4>2
    <3>. QED  BY <1>2, <3>1, <3>2
  <2>2. i \in 1 .. Len(block) /\ Moved(i, inst, r) \in 1 .. inst + r - 1
    BY <1>1, <1>3 DEF Moved
  <2>3. c[Moved(i, inst, r)].name = block[i].name
    BY <1>4, <2>2
  <2>. QED  BY <2>1, <2>2, <2>3
<1>11. /\ inst + r - 1 = w + 1 + Growth * (Cardinality(FoundIn(read, w)) + 1)
       /\ Cardinality(FoundIn(block, inst - 1)) + Gain = Gain * (Cardinality(FoundIn(read, w)) + 1)
  <2>. DEFINE n == Cardinality(FoundIn(read, w))
  <2>1. n \in Nat /\ inst - 1 = w + Growth * n /\ w \in Int /\ inst \in Int
        /\ Cardinality(FoundIn(block, inst - 1)) = Gain * n
    BY <1>1, <1>2, <1>7
  <2>. HIDE DEF n
  <2>2. Growth * (n + 1) = Growth * n + Growth /\ Gain * (n + 1) = Gain * n + Gain /\ Growth * n \in Nat
    BY <2>1 DEF Growth, Gain
  <2>3. inst + r - 1 = w + 1 + Growth * (n + 1)
    BY <1>3, <2>1, <2>2 DEF r
  <2>. QED  BY <2>1, <2>2, <2>3 DEF n
<1>12. Gain' = Gain /\ Growth' = Growth
  BY <1>1 DEF Gain, Growth
<1>13. FoundIn(read, Past)' = FoundIn(read, w + 1) /\ FoundIn(block, inst - 1)' = FoundIn(c, inst + r - 1)
  <2>1. /\ FoundIn(read, Past)' = {k \in 1 .. Past' : Matches(tool', read'[k])}
        /\ FoundIn(block, inst - 1)' = {k \in 1 .. inst' - 1 : Matches(tool', block'[k])}
    BY DEF FoundIn
  <2>2. inst' - 1 = inst + r - 1 /\ Past' = w + 1
    BY <1>1, <1>3, <1>5
  <2>3. tool' = tool /\ read' = read /\ block' = c
    BY <1>1
  <2>. QED  BY <2>1, <2>2, <2>3 DEF FoundIn
<1>14. /\ Past' \in 0 .. Len(read')
       /\ \A k \in inst' .. Len(block') : block'[k] = read'[Past' + 1 + k - inst']
       /\ \A k \in 1 .. Past' : \E j \in 1 .. inst' - 1 : block'[j].name = read'[k].name
  <2>1. /\ read' = read /\ block' = c /\ Len(block') = Len(block) + r - 1 /\ inst' - 1 = inst + r - 1
        /\ Past' = w + 1 /\ inst' = inst + r
    BY <1>1, <1>3, <1>5
  <2>. QED  BY <1>5, <1>9, <1>10, <2>1
<1>15. /\ Cardinality(FoundIn(block, inst - 1))' = Gain' * Cardinality(FoundIn(read, Past))'
       /\ inst' - 1 = Past' + Growth' * Cardinality(FoundIn(read, Past))'
  <2>1. inst' - 1 = inst + r - 1 /\ Past' = w + 1
    BY <1>1, <1>3, <1>5
  <2>. QED  BY <1>2, <1>7, <1>8, <1>11, <1>12, <1>13, <2>1
<1>. QED  BY <1>14, <1>15 DEF Walk

\* At the end of the loop.
LEMMA WalkEnds == ASSUME TypeOK, Walk, Verify, pc' = "open" PROVE EachReplacedOnce'
<1>1. /\ pc = "rewrite" /\ inst = Len(block) + 1 /\ UNCHANGED <<tool, read, block>>
      /\ Len(block) \in Nat /\ Len(read) \in Nat
      /\ DOMAIN block = 1 .. Len(block) /\ DOMAIN read = 1 .. Len(read)
  BY DEF TypeOK, Verify
<1>2. Past = Len(read) /\ inst - 1 = Len(block)
  BY <1>1 DEF Past
<1>3. /\ Cardinality(FoundIn(block, Len(block))) = Gain * Cardinality(FoundIn(read, Len(read)))
      /\ Len(block) = Len(read) + Growth * Cardinality(FoundIn(read, Len(read)))
      /\ \A k \in 1 .. Len(read) : \E j \in 1 .. Len(block) : block[j].name = read[k].name
  BY <1>1, <1>2 DEF Walk
<1>4. Found(block) = FoundIn(block, Len(block)) /\ Found(read) = FoundIn(read, Len(read))
  BY <1>1 DEF Found, FoundIn
<1>5. Names(read) \subseteq Names(block)
  BY <1>1, <1>3 DEF Names
<1>6. Cardinality(Found(read)) \in Nat
  BY <1>1, <1>4, FoundFinite
<1>7. EachReplacedOnce'
  <2>1. /\ Cardinality(Found(block)) = IF tool = "mba_add" THEN 3 * Cardinality(Found(read)) ELSE 0
        /\ Len(block) = Len(read) + (IF tool = "mba_add" THEN 7 ELSE 2) * Cardinality(Found(read))
    BY <1>3, <1>4, <1>6 DEF Gain, Growth
  <2>2. Found(block)' = Found(block) /\ Found(read)' = Found(read) /\ Names(block)' = Names(block)
        /\ Names(read)' = Names(read)
    BY <1>1 DEF Found, Names
  <2>. QED  BY <1>1, <1>5, <2>1, <2>2 DEF EachReplacedOnce
<1>. QED  BY <1>7

\* The loop goes over a list that grows behind the iterator (EachReplacedOnce): it
\* replaces all it should, and looks at nothing that it put there, for any block.
THEOREM ReplacesOnce == Spec => []EachReplacedOnce
<1>1. ASSUME Init PROVE Walk /\ EachReplacedOnce
  BY <1>1 DEF Init, Walk, EachReplacedOnce
<1>2. ASSUME TypeOK, TypeOK', Walk, EachReplacedOnce, [Next]_vars PROVE Walk' /\ EachReplacedOnce'
  <2>1. CASE SkipInst
    BY <1>2, <2>1, SkipInst_Walk DEF SkipInst, AtInst, EachReplacedOnce
  <2>2. CASE ReplaceInst
    BY <1>2, <2>2, ReplaceInst_Walk DEF ReplaceInst, AtInst, EachReplacedOnce
  <2>3. CASE Verify
    <3>1. Walk'
      BY <2>3 DEF Verify, Walk
    <3>2. CASE pc' = "open"
      BY <1>2, <2>3, <3>1, <3>2, WalkEnds
    <3>. QED  BY <3>1, <3>2 DEF EachReplacedOnce
  <2>4. ASSUME NEW t \in Tool, Parse(t) PROVE Walk' /\ EachReplacedOnce'
    <3>1. /\ pc' = "rewrite" /\ inst' = 1 /\ block' = read' /\ Len(read') \in Nat
      BY <1>2, <2>4 DEF Parse, TypeOK
    <3>2. Past' = 0
      BY <3>1 DEF Past
    <3>3. FoundIn(read, Past)' = {} /\ FoundIn(block, inst - 1)' = {}
      BY <3>1, <3>2 DEF FoundIn
    <3>4. Gain' * 0 = 0 /\ Growth' * 0 = 0
      BY DEF Gain, Growth
    <3>5. Walk'
      <4>1. /\ Past' \in 0 .. Len(read')
            /\ \A k \in inst' .. Len(block') : block'[k] = read'[Past' + 1 + k - inst']
            /\ \A k \in 1 .. Past' : \E j \in 1 .. inst' - 1 : block'[j].name = read'[k].name
        BY <3>1, <3>2
      <4>2. /\ Cardinality(FoundIn(block, inst - 1))' = Gain' * Cardinality(FoundIn(read, Past))'
            /\ inst' - 1 = Past' + Growth' * Cardinality(FoundIn(read, Past))'
        <5>1. Cardinality(FoundIn(block, inst - 1))' = 0 /\ Cardinality(FoundIn(read, Past))' = 0
          BY <3>3, FS_EmptySet
        <5>. QED  BY <3>1, <3>2, <3>4, <5>1
      <4>. QED  BY <4>1, <4>2 DEF Walk
    <3>. QED  BY <3>1, <3>5 DEF EachReplacedOnce
  <2>5. CASE (\E t \in Tool : ParseFails(t)) \/ UNCHANGED vars
    <3>1. UNCHANGED <<pc, inst, block, read>> /\ (tool' = tool \/ pc \notin {"rewrite", "open"})
      BY <2>5 DEF ParseFails, vars
    <3>2. CASE tool' = tool
      <4>1. /\ Past' = Past /\ Gain' = Gain /\ Growth' = Growth
            /\ FoundIn(read, Past)' = FoundIn(read, Past) /\ FoundIn(block, inst - 1)' = FoundIn(block, inst - 1)
            /\ Found(block)' = Found(block) /\ Found(read)' = Found(read)
            /\ Names(block)' = Names(block) /\ Names(read)' = Names(read)
        BY <3>1, <3>2 DEF Past, FoundIn, Gain, Growth, Found, Names
      <4>2. Walk'
        BY <1>2, <3>1, <4>1 DEF Walk
      <4>3. EachReplacedOnce'
        BY <1>2, <3>1, <3>2, <4>1 DEF EachReplacedOnce
      <4>. QED  BY <4>2, <4>3
    <3>3. CASE pc \notin {"rewrite", "open"}
      BY <3>1, <3>3 DEF Walk, EachReplacedOnce
    <3>. QED  BY <3>1, <3>2, <3>3
  <2>6. CASE OpenOutput \/ OpenFails \/ PrintModule \/ Kill
    BY <2>6 DEF OpenOutput, OpenFails, PrintModule, Kill, Walk, EachReplacedOnce
  <2>. QED  BY <1>2, <2>1, <2>2, <2>3, <2>4, <2>5, <2>6 DEF Next, Terminating
<1>. QED  BY <1>1, <1>2, TypeCorrect, PTL DEF Spec

-----------------------------------------------------------------------------
(* What a block computes when it is executed.                              *)

\* A set with 0 in it, and with every number before L its successor, has all up to L.
LEMMA UpTo ==
  ASSUME NEW L \in Nat, NEW A, 0 \in A, \A k \in 0 .. L - 1 : k \in A => k + 1 \in A
  PROVE  \A k \in 0 .. L : k \in A
<1>. DEFINE B == {k \in 0 .. L : k \notin A}
<1>1. SUFFICES ASSUME B # {} PROVE FALSE
  OBVIOUS
<1>2. B \subseteq Nat
  OBVIOUS
<1>. DEFINE To(k) == 0 .. k
            I == {To(k) : k \in B}
<1>3. I \subseteq FiniteSubsetsOf(0 .. L) /\ I # {}
  <2>1. \A k \in B : To(k) \subseteq 0 .. L
    OBVIOUS
  <2>2. IsFiniteSet(0 .. L)
    BY FS_Interval
  <2>. HIDE DEF B, To
  <2>. QED  BY <1>1, <2>1, <2>2, FS_Subset DEF FiniteSubsetsOf
<1>4. PICK x \in I : \A y \in I : <<y, x>> \notin StrictSubsetOrdering(0 .. L)
  <2>. HIDE DEF I
  <2>. QED  BY <1>3, FS_StrictSubsetOrderingWellFounded, WFMin
<1>5. PICK k \in B : x = To(k)
  OBVIOUS
<1>6. \A j \in B : ~ j < k
  <2>. SUFFICES ASSUME NEW j \in B, j < k PROVE FALSE
    OBVIOUS
  <2>1. To(j) \subseteq To(k) /\ k \in To(k) /\ k \notin To(j) /\ To(k) \subseteq 0 .. L
    OBVIOUS
  <2>2. To(j) \in I
    OBVIOUS
  <2>. HIDE DEF To, I, B
  <2>. QED  BY <1>4, <1>5, <2>1, <2>2 DEF StrictSubsetOrdering
<1>7. k # 0 /\ k - 1 \in 0 .. L - 1 /\ k - 1 \in A
  <2>1. k \in 0 .. L /\ k # 0
    OBVIOUS
  <2>2. k - 1 \in 0 .. L - 1 /\ k - 1 < k
    BY <2>1
  <2>. QED  BY <1>6, <2>1, <2>2
<1>. QED
  <2>1. (k - 1) + 1 = k
    BY <1>7
  <2>2. (k - 1) + 1 \in A
    BY <1>7
  <2>. QED  BY <2>1, <2>2

\* The places of a block as it is executed: step[k] has the values after k instructions.
IsExecution(step, code, in, L) ==
  step = [k \in 0 .. L |-> IF k = 0 THEN in ELSE After(step[k - 1], code[k])]

LEMMA ExecutionExists ==
  ASSUME NEW code, NEW in, NEW L \in Nat
  PROVE  \E step : IsExecution(step, code, in, L)
<1>. DEFINE A == {n \in 0 .. L : \E step : IsExecution(step, code, in, n)}
<1>1. 0 \in A
  <2>1. IsExecution([k \in 0 .. 0 |-> in], code, in, 0)
    BY DEF IsExecution
  <2>. QED  BY <2>1
<1>2. ASSUME NEW n \in 0 .. L - 1, n \in A PROVE n + 1 \in A
  <2>1. PICK step : IsExecution(step, code, in, n)
    BY <1>2
  <2>. DEFINE next == [k \in 0 .. n + 1 |-> IF k = n + 1 THEN After(step[n], code[n + 1]) ELSE step[k]]
  <2>2. \A k \in 0 .. n : step[k] = IF k = 0 THEN in ELSE After(step[k - 1], code[k])
    BY <2>1 DEF IsExecution
  <2>3. ASSUME NEW k \in 0 .. n + 1
        PROVE  next[k] = IF k = 0 THEN in ELSE After(next[k - 1], code[k])
    <3>1. CASE k = n + 1
      <4>1. k # 0 /\ k - 1 = n /\ n \in 0 .. n + 1 /\ n # n + 1
        BY <3>1
      <4>2. next[k] = After(step[n], code[k]) /\ next[k - 1] = step[n]
        BY <3>1, <4>1
      <4>. QED  BY <4>1, <4>2
    <3>2. CASE k = 0
      <4>1. 0 \in 0 .. n /\ 0 # n + 1
        OBVIOUS
      <4>. QED  BY <2>2, <3>2, <4>1
    <3>3. CASE k \in 1 .. n
      <4>1. k - 1 \in 0 .. n + 1 /\ k - 1 # n + 1 /\ k # n + 1 /\ k # 0 /\ k \in 0 .. n
        BY <3>3
      <4>2. next[k - 1] = step[k - 1] /\ next[k] = step[k]
        BY <4>1
      <4>. QED  BY <2>2, <4>1, <4>2
    <3>. QED  BY <3>1, <3>2, <3>3
  <2>4. DOMAIN next = 0 .. n + 1 /\ next = [k \in 0 .. n + 1 |-> next[k]]
    OBVIOUS
  <2>. HIDE DEF next
  <2>5. IsExecution(next, code, in, n + 1)
    BY <2>3, <2>4 DEF IsExecution
  <2>. QED  BY <2>5
<1>. HIDE DEF A
<1>3. L \in A
  BY <1>1, <1>2, UpTo
<1>. QED  BY <1>3 DEF A

IsRun(step, code, in) ==
  /\ Values(code, in) = step[Len(code)]
  /\ step[0] = in
  /\ \A k \in 1 .. Len(code) : step[k] = After(step[k - 1], code[k])

LEMMA ValuesAre ==
  ASSUME NEW code, NEW in, Len(code) \in Nat
  PROVE  \E step : IsRun(step, code, in)
<1>. DEFINE step == CHOOSE s : IsExecution(s, code, in, Len(code))
<1>1. Values(code, in) = step[Len(code)]
  BY DEF Values, IsExecution
<1>2. IsExecution(step, code, in, Len(code))
  BY ExecutionExists
<1>. HIDE DEF step
<1>3. step[0] = in /\ \A k \in 1 .. Len(code) : step[k] = After(step[k - 1], code[k])
  BY <1>2 DEF IsExecution
<1>. QED  BY <1>1, <1>3 DEF IsRun

\* What an instruction computes from operands of its type has its type.
LEMMA ResultInType ==
  ASSUME NEW i \in Instruction, NEW env, InType(env, i, i.x), InType(env, i, i.y)
  PROVE  Result(env, i) \in 0 .. i.size - 1
<1>. DEFINE m == i.size
            x == Get(env, i.x)
            y == Get(env, i.y)
<1>1. m \in Size /\ m \in Nat \ {0, 1} /\ i.op \in Ops
  BY BitsAssumption DEF Instruction
<1>2. x \in 0 .. m - 1 /\ y \in 0 .. m - 1
  BY DEF InType
<1>3. /\ i.op = "add" => Result(env, i) = (x + y) % m
      /\ i.op = "sub" => Result(env, i) = (x - y) % m
      /\ i.op = "mul" => Result(env, i) = (x * y) % m
      /\ i.op = "xor" => Result(env, i) = BitXor(x, y)
      /\ i.op = "and" => Result(env, i) = BitAnd(x, y)
  BY DEF Result
<1>. HIDE DEF m, x, y
<1>4. \A z \in Int : z % m \in 0 .. m - 1
  BY <1>1
<1>5. x + y \in Int /\ x - y \in Int /\ x * y \in Int
  BY <1>1, <1>2
<1>6. BitXor(x, y) \in 0 .. m - 1 /\ BitAnd(x, y) \in 0 .. m - 1
  BY <1>1, <1>2, BitsAssumption, Zenon
<1>. DEFINE z == Result(env, i)
<1>7. z \in 0 .. m - 1
  <2>. HIDE DEF z
  <2>1. (x + y) % m \in 0 .. m - 1 /\ (x - y) % m \in 0 .. m - 1 /\ (x * y) % m \in 0 .. m - 1
    BY <1>4, <1>5
  <2>2. CASE i.op = "add"  BY <1>3, <2>1, <2>2 DEF z
  <2>3. CASE i.op = "sub"  BY <1>3, <2>1, <2>3 DEF z
  <2>4. CASE i.op = "mul"  BY <1>3, <2>1, <2>4 DEF z
  <2>5. CASE i.op = "xor"  BY <1>3, <1>6, <2>5 DEF z
  <2>6. CASE i.op = "and"  BY <1>3, <1>6, <2>6 DEF z
  <2>. QED  BY <1>1, <2>2, <2>3, <2>4, <2>5, <2>6 DEF Ops
<1>. QED  BY <1>7 DEF m

\* Two environments that agree on an instruction's operands compute the same.
LEMMA SameResult ==
  ASSUME NEW i, NEW e1, NEW e2, Get(e1, i.x) = Get(e2, i.x), Get(e1, i.y) = Get(e2, i.y)
  PROVE  Result(e1, i) = Result(e2, i)
BY DEF Result

\* env has the values of the first k instructions of a block called with in.
Executed(env, args, code, in, k) ==
  /\ DOMAIN env = DOMAIN args \cup {code[j].name : j \in 1 .. k}
  /\ \A a \in DOMAIN args : env[a] = in[a]
  /\ \A j \in 1 .. k : /\ env[code[j].name] \in 0 .. code[j].size - 1
                       /\ env[code[j].name] = Result(env, code[j])

LEMMA ExecuteNext ==
  ASSUME NEW args, NEW code \in Seq(Instruction), Valid(args, code), NEW in, NEW env,
         \A a \in DOMAIN args : in[a] \in 0 .. args[a] - 1,
         NEW k \in 0 .. Len(code) - 1, Executed(env, args, code, in, k)
  PROVE  Executed(After(env, code[k + 1]), args, code, in, k + 1)
<1>. DEFINE i == code[k + 1]
            e == After(env, i)
<1>1. /\ Len(code) \in Nat /\ DOMAIN code = 1 .. Len(code)
      /\ k + 1 \in 1 .. Len(code) /\ i \in Instruction
      /\ \A j \in 1 .. k : j \in 1 .. Len(code) /\ j # k + 1
      /\ 1 .. k + 1 = 1 .. k \cup {k + 1}
  OBVIOUS
<1>2. i.name \notin DOMAIN env
  <2>1. i.name \notin DOMAIN args
    BY <1>1 DEF Valid, Names
  <2>2. \A j \in 1 .. k : code[j].name # i.name
    BY <1>1 DEF Valid
  <2>. QED  BY <2>1, <2>2 DEF Executed
<1>3. /\ DOMAIN e = DOMAIN env \cup {i.name} /\ e[i.name] = Result(env, i)
      /\ \A n \in DOMAIN env : e[n] = env[n]
  BY <1>2 DEF After
<1>4. ASSUME NEW j \in 1 .. k + 1, NEW o \in {code[j].x, code[j].y}
      PROVE  Get(e, o) = Get(env, o) /\ Get(env, o) \in 0 .. code[j].size - 1
  <2>1. j \in DOMAIN code /\ code[j] \in Instruction
    BY <1>1
  <2>2. Supplied(args, code, j, o)
    BY <2>1 DEF Valid, Supplied
  <2>3. CASE o[1] = "const" /\ o[2] < code[j].size
    <3>1. o \in Operand /\ code[j].size \in Nat
      BY <2>1, BitsAssumption DEF Instruction
    <3>2. o[2] \in Nat
      BY <3>1 DEF Operand
    <3>3. o[2] \in 0 .. code[j].size - 1
      BY <2>3, <3>1, <3>2
    <3>. QED  BY <2>3, <3>3 DEF Get
  <2>4. CASE o[1] = "val" /\ o[2] \in DOMAIN args /\ args[o[2]] = code[j].size
    <3>1. o[2] \in DOMAIN env /\ env[o[2]] \in 0 .. code[j].size - 1
      BY <2>4 DEF Executed
    <3>. QED  BY <1>3, <2>4, <3>1 DEF Get
  <2>5. ASSUME o[1] = "val", NEW h \in 1 .. j - 1, code[h].name = o[2], code[h].size = code[j].size
        PROVE  Get(e, o) = Get(env, o) /\ Get(env, o) \in 0 .. code[j].size - 1
    <3>1. h \in 1 .. k
      BY <1>1
    <3>2. o[2] \in DOMAIN env /\ env[o[2]] \in 0 .. code[j].size - 1
      BY <2>5, <3>1 DEF Executed
    <3>. QED  BY <1>3, <2>5, <3>2 DEF Get
  <2>. QED  BY <2>2, <2>3, <2>4, <2>5 DEF Supplied
<1>. HIDE DEF e, i
<1>5. ASSUME NEW j \in 1 .. k + 1 PROVE Result(e, code[j]) = Result(env, code[j])
  <2>1. Get(e, code[j].x) = Get(env, code[j].x) /\ Get(e, code[j].y) = Get(env, code[j].y)
    BY <1>4
  <2>. QED  BY <2>1, SameResult
<1>6. /\ e[i.name] \in 0 .. i.size - 1 /\ e[i.name] = Result(e, i)
  <2>1. k + 1 \in 1 .. k + 1
    BY <1>1
  <2>2. InType(env, i, i.x) /\ InType(env, i, i.y)
    BY <1>4, <2>1 DEF InType, i
  <2>3. Result(env, i) \in 0 .. i.size - 1
    BY <1>1, <2>2, ResultInType
  <2>4. Result(e, i) = Result(env, i)
    BY <1>5, <2>1 DEF i
  <2>. QED  BY <1>3, <2>3, <2>4
<1>7. ASSUME NEW j \in 1 .. k
      PROVE  e[code[j].name] \in 0 .. code[j].size - 1 /\ e[code[j].name] = Result(e, code[j])
  <2>1. /\ code[j].name \in DOMAIN env
        /\ env[code[j].name] \in 0 .. code[j].size - 1 /\ env[code[j].name] = Result(env, code[j])
    BY DEF Executed
  <2>2. j \in 1 .. k + 1
    BY <1>1
  <2>3. Result(e, code[j]) = Result(env, code[j])
    BY <1>5, <2>2
  <2>. QED  BY <1>3, <2>1, <2>3
<1>8. \A a \in DOMAIN args : e[a] = in[a]
  BY <1>3 DEF Executed
<1>9. DOMAIN e = DOMAIN args \cup {code[j].name : j \in 1 .. k + 1}
  <2>1. {code[j].name : j \in 1 .. k + 1} = {code[j].name : j \in 1 .. k} \cup {i.name}
    BY <1>1 DEF i
  <2>. QED  BY <1>3, <2>1 DEF Executed
<1>10. \A j \in 1 .. k + 1 : /\ e[code[j].name] \in 0 .. code[j].size - 1
                             /\ e[code[j].name] = Result(e, code[j])
  BY <1>1, <1>6, <1>7 DEF i
<1>11. Executed(e, args, code, in, k + 1)
  BY <1>8, <1>9, <1>10 DEF Executed
<1>. QED  BY <1>11 DEF e, i

\* A block that the verifier accepts, executed with any arguments, gives every name the
\* value that its instruction computes.
LEMMA ValuesSatisfy ==
  ASSUME NEW args, NEW code \in Seq(Instruction), Valid(args, code), NEW in,
         DOMAIN in = DOMAIN args, \A a \in DOMAIN args : in[a] \in 0 .. args[a] - 1
  PROVE  LET env == Values(code, in)
         IN  DOMAIN env = DOMAIN args \cup Names(code) /\ Call(args, env) /\ Satisfies(env, code)
<1>. DEFINE L == Len(code)
<1>1. L \in Nat /\ DOMAIN code = 1 .. L
  OBVIOUS
<1>s. PICK step : IsRun(step, code, in)
  BY <1>1, ValuesAre
<1>2. /\ Values(code, in) = step[L] /\ step[0] = in
      /\ \A k \in 1 .. L : step[k] = After(step[k - 1], code[k])
  BY <1>s DEF IsRun
<1>. DEFINE A == {k \in 0 .. L : Executed(step[k], args, code, in, k)}
<1>3. 0 \in A
  <2>1. 1 .. 0 = {}
    OBVIOUS
  <2>2. {code[j].name : j \in 1 .. 0} = {}
    BY <2>1
  <2>3. Executed(step[0], args, code, in, 0)
    BY <1>2, <2>1, <2>2 DEF Executed
  <2>. QED  BY <1>1, <2>3
<1>4. ASSUME NEW k \in 0 .. L - 1, k \in A PROVE k + 1 \in A
  <2>1. k + 1 \in 1 .. L /\ (k + 1) - 1 = k /\ k + 1 \in 0 .. L
    BY <1>1
  <2>2. step[k + 1] = After(step[k], code[k + 1])
    <3>1. step[k + 1] = After(step[(k + 1) - 1], code[k + 1])
      BY <1>2, <2>1
    <3>. QED  BY <2>1, <3>1
  <2>3. Executed(step[k + 1], args, code, in, k + 1)
    <3>1. Executed(step[k], args, code, in, k)
      BY <1>4
    <3>2. Executed(After(step[k], code[k + 1]), args, code, in, k + 1)
      BY <3>1, ExecuteNext
    <3>. QED  BY <2>2, <3>2
  <2>. QED  BY <2>1, <2>3
<1>. HIDE DEF A, L
<1>5. L \in A
  BY <1>1, <1>3, <1>4, UpTo
<1>6. Executed(Values(code, in), args, code, in, L)
  BY <1>2, <1>5 DEF A
<1>. QED  BY <1>1, <1>6 DEF Executed, Names, Call, Satisfies
-----------------------------------------------------------------------------
(* Executing what the file holds.                                          *)

\* No name of the function the file held at first is lost.
Holds(code) == code # << >> => Names(fn.code) \subseteq Names(code)

NInv == Holds(file.code) /\ Holds(block)

LEMMA ReplacedNames ==
  ASSUME NEW t \in Tool, NEW code \in Seq(Instruction), NEW p \in 1 .. Len(code),
         Matches(t, code[p]), NEW n \in Nat
  PROVE  Names(code) \subseteq Names(Splice(code, p, Replacement(t, code[p], n)))
<1>. DEFINE r == Len(Replacement(t, code[p], n))
            c == Splice(code, p, Replacement(t, code[p], n))
<1>1. IsReplaced(c, t, code, p, n, r)
  BY Replaced
<1>. HIDE DEF c, r
<1>2. /\ c \in Seq(Instruction) /\ r \in Nat \ {0, 1} /\ Len(c) = Len(code) + r - 1
      /\ \A j \in 1 .. Len(code) : c[Moved(j, p, r)].name = code[j].name
  BY <1>1 DEF IsReplaced
<1>3. Len(code) \in Nat /\ DOMAIN code = 1 .. Len(code) /\ DOMAIN c = 1 .. Len(c)
  BY <1>2
<1>4. ASSUME NEW j \in DOMAIN code PROVE code[j].name \in Names(c)
  <2>1. Moved(j, p, r) \in DOMAIN c
    BY <1>2, <1>3 DEF Moved
  <2>. QED  BY <1>2, <1>3, <2>1 DEF Names
<1>. QED  BY <1>4 DEF Names, c

LEMMA Step_NInv == ASSUME TypeOK, NInv, [Next]_vars PROVE NInv'
<1>1. CASE ReplaceInst
  <2>1. /\ tool \in Tool /\ block \in Seq(Instruction) /\ inst \in 1 .. Len(block) /\ last \in Nat
        /\ Matches(tool, block[inst])
        /\ block' = Splice(block, inst, Replacement(tool, block[inst], last))
        /\ UNCHANGED <<fn, file>>
    BY <1>1 DEF TypeOK, ReplaceInst, AtInst, Splice
  <2>2. Names(block) \subseteq Names(block') /\ block # << >>
    BY <2>1, ReplacedNames
  <2>. QED  BY <2>1, <2>2 DEF NInv, Holds
<1>2. CASE PrintModule
  <2>1. file'.code = block /\ UNCHANGED <<fn, block>>
    BY <1>2 DEF PrintModule, File
  <2>. QED  BY <2>1 DEF NInv, Holds
<1>3. CASE OpenOutput
  <2>1. file'.code = << >> /\ UNCHANGED <<fn, block>>
    BY <1>3 DEF OpenOutput, File
  <2>. QED  BY <2>1 DEF NInv, Holds
<1>4. CASE Kill
  <2>1. file' = file \/ file' = Partial
    BY <1>4 DEF Kill
  <2>2. (file'.code = file.code \/ file'.code = << >>) /\ UNCHANGED <<fn, block>>
    BY <1>4, <2>1 DEF Kill, Partial
  <2>. QED  BY <2>2 DEF NInv, Holds
<1>5. ASSUME NEW t \in Tool, Parse(t) PROVE NInv'
  BY <1>5 DEF Parse, NInv, Holds
<1>6. CASE \/ \E t \in Tool : ParseFails(t)
           \/ SkipInst \/ Verify \/ OpenFails \/ UNCHANGED vars
  BY <1>6 DEF ParseFails, SkipInst, Verify, OpenFails, vars, NInv, Holds
<1>. QED  BY <1>1, <1>2, <1>3, <1>4, <1>5, <1>6 DEF Next, Terminating

LEMMA NamesKept == Spec => []NInv
<1>1. Init => NInv
  BY DEF Init, File, NInv, Holds
<1>. QED  BY <1>1, Step_NInv, TypeCorrect, PTL DEF Spec

\* In any environment of numbers a block that has its operands means what it means in
\* one that also has values for all other names.
LEMMA MeaningIsLocal ==
  ASSUME NEW args, NEW code \in Seq(Instruction), Valid(args, code), NEW e1, NEW e2,
         \A n \in DOMAIN args \cup Names(code) : e1[n] = e2[n], Satisfies(e1, code)
  PROVE  Satisfies(e2, code)
<1>. SUFFICES ASSUME NEW k \in DOMAIN code
              PROVE  e2[code[k].name] \in 0 .. code[k].size - 1 /\ e2[code[k].name] = Result(e2, code[k])
  BY DEF Satisfies
<1>1. e1[code[k].name] \in 0 .. code[k].size - 1 /\ e1[code[k].name] = Result(e1, code[k])
  BY DEF Satisfies
<1>2. e1[code[k].name] = e2[code[k].name]
  BY DEF Names
<1>3. ASSUME NEW o \in {code[k].x, code[k].y} PROVE Get(e1, o) = Get(e2, o)
  <2>1. Supplied(args, code, k, o)
    BY DEF Valid, Supplied
  <2>2. o[1] = "val" => o[2] \in DOMAIN args \cup Names(code)
    <3>1. k \in 1 .. Len(code) /\ Len(code) \in Nat /\ DOMAIN code = 1 .. Len(code)
      OBVIOUS
    <3>2. 1 .. k - 1 \subseteq DOMAIN code
      BY <3>1
    <3>. QED  BY <2>1, <3>2 DEF Supplied, Names
  <2>3. CASE o[1] = "const"
    BY <2>3 DEF Get
  <2>4. CASE o[1] = "val"
    BY <2>2, <2>4 DEF Get
  <2>. QED  BY <2>1, <2>3, <2>4 DEF Supplied
<1>4. Result(e1, code[k]) = Result(e2, code[k])
  BY <1>3, SameResult
<1>. QED  BY <1>1, <1>2, <1>4

\* Whatever the file holds (FileKeepsMeaning): called with any arguments of the types,
\* it gives every name of the first function the value that function gives it.
THEOREM FileMeansTheSame == Spec => []FileKeepsMeaning
<1>1. ASSUME IInv, NInv PROVE FileKeepsMeaning
  <2>. SUFFICES ASSUME file.state = "whole", NEW in \in Calls
                PROVE  LET env == Values(file.code, in)
                       IN  Names(fn.code) \subseteq DOMAIN env /\ Satisfies(env, fn.code)
    BY DEF FileKeepsMeaning
  <2>. DEFINE args == fn.args
              code == file.code
              env == Values(code, in)
              ext == [n \in Nat |-> IF n \in DOMAIN env THEN env[n] ELSE 0]
  <2>1. /\ fn \in Functions /\ code \in Seq(Instruction) /\ code # << >>
        /\ Bounded(args, code, last) /\ Valid(args, code) /\ Means(code)
        /\ Names(fn.code) \subseteq Names(code)
    BY <1>1 DEF IInv, TypeOK, Good, NInv, Holds
  <2>2. /\ args \in [DOMAIN args -> Size] /\ DOMAIN args \subseteq Nat
        /\ fn.code \in Seq(Instruction) /\ Valid(args, fn.code)
    BY <2>1, FunctionsAssumption
  <2>3. DOMAIN in = DOMAIN args /\ \A a \in DOMAIN args : in[a] \in 0 .. args[a] - 1
    <3>1. DOMAIN in = DOMAIN args /\ \A a \in DOMAIN args : in[a] \in Sample /\ in[a] < args[a]
      BY DEF Calls
    <3>2. \A a \in DOMAIN args : in[a] \in Nat
      BY <3>1, RunsAssumption
    <3>3. \A a \in DOMAIN args : args[a] \in Nat
      BY <2>2, BitsAssumption
    <3>. HIDE DEF args
    <3>. QED  BY <3>1, <3>2, <3>3
  <2>. HIDE DEF args, code
  <2>4. DOMAIN env = DOMAIN args \cup Names(code) /\ Call(args, env) /\ Satisfies(env, code)
    BY <2>1, <2>3, ValuesSatisfy
  <2>. HIDE DEF env
  <2>5. DOMAIN env \subseteq Nat
    BY <2>1, <2>4 DEF Bounded
  <2>6. \A n \in DOMAIN env : ext[n] = env[n]
    BY <2>5
  <2>7. ext \in [Nat -> Nat]
    <3>1. \A a \in DOMAIN args : args[a] \in Nat /\ env[a] \in 0 .. args[a] - 1
      BY <2>2, <2>4, BitsAssumption DEF Call
    <3>2. \A a \in DOMAIN args : env[a] \in Nat
      BY <3>1
    <3>3. ASSUME NEW k \in DOMAIN code PROVE env[code[k].name] \in Nat
      <4>1. code[k].size \in Nat /\ env[code[k].name] \in 0 .. code[k].size - 1
        <5>1. code[k] \in Instruction
          BY <2>1
        <5>2. code[k].size \in Nat
          BY <5>1, BitsAssumption DEF Instruction
        <5>3. env[code[k].name] \in 0 .. code[k].size - 1
          BY <2>4 DEF Satisfies
        <5>. QED  BY <5>2, <5>3
      <4>. QED  BY <4>1
    <3>4. \A n \in DOMAIN env : env[n] \in Nat
      BY <2>4, <3>2, <3>3 DEF Names
    <3>. QED  BY <3>4
  <2>. HIDE DEF ext
  <2>8. Satisfies(ext, code)
    BY <2>1, <2>4, <2>6, MeaningIsLocal
  <2>9. Call(args, ext)
    BY <2>4, <2>6 DEF Call
  <2>10. Satisfies(ext, fn.code)
    BY <2>1, <2>7, <2>8, <2>9 DEF Means, args
  <2>11. \A n \in DOMAIN args \cup Names(fn.code) : ext[n] = env[n]
    BY <2>1, <2>4, <2>6
  <2>12. Satisfies(env, fn.code)
    BY <2>2, <2>10, <2>11, MeaningIsLocal
  <2>13. Names(fn.code) \subseteq DOMAIN env
    BY <2>1, <2>4
  <2>. QED  BY <2>12, <2>13 DEF env, code
<1>. QED  BY <1>1, Invariant, NamesKept, PTL
=============================================================================
