-------------------------------- MODULE Mba --------------------------------
(***************************************************************************)
(* Integer instructions, and the mixed boolean-arithmetic expressions that *)
(* src/llvm-tutor/mba_add/mba_add.cc and mba_sub/mba_sub.cc put in place   *)
(* of additions and subtractions.                                          *)
(*                                                                         *)
(* An instruction has a name, the op, the size of its type (2 to the bit   *)
(* width) and two operands.  What follows uses it by its name: replacing   *)
(* it by one of the same name is what ReplaceInstWithInst does.            *)
(***************************************************************************)
EXTENDS Integers, Sequences

CONSTANTS
  Size,        \* the sizes of the integer types
  BitXor(_, _),   \* the exclusive or of two numbers, bit by bit
  BitAnd(_, _)

Byte == 256

ASSUME BitsAssumption ==
  /\ Size \subseteq Nat \ {0, 1}
  /\ \A m \in Size : \A a, b \in 0 .. m - 1 : BitXor(a, b) \in 0 .. m - 1 /\ BitAnd(a, b) \in 0 .. m - 1
  /\ \A m \in Size : \A b \in 0 .. m - 1 : BitXor(b, m - 1) = m - 1 - b
  /\ Byte \in Size => \A a, b \in 0 .. Byte - 1 : BitXor(a, b) + 2 * BitAnd(a, b) = a + b

Ops == {"add", "sub", "mul", "xor", "and"}
Val(n) == <<"val", n>>
Const(c) == <<"const", c>>
Operand == {"val", "const"} \X Nat
Instruction == [name : Nat, op : Ops, size : Size, x : Operand, y : Operand]

Inst(n, op, m, x, y) == [name |-> n, op |-> op, size |-> m, x |-> x, y |-> y]

\* What an operand stands for, env giving the names their values.
Get(env, o) == IF o[1] = "const" THEN o[2] ELSE env[o[2]]

\* Arithmetic wraps at the width of the type.
Result(env, i) ==
  LET x == Get(env, i.x)
      y == Get(env, i.y)
  IN  CASE i.op = "add" -> (x + y) % i.size
        [] i.op = "sub" -> (x - y) % i.size
        [] i.op = "mul" -> (x * y) % i.size
        [] i.op = "xor" -> BitXor(x, y)
        [] i.op = "and" -> BitAnd(x, y)

\* env gives every name a value of its type, the one that its instruction computes.
Satisfies(env, code) ==
  \A k \in DOMAIN code : /\ env[code[k].name] \in 0 .. code[k].size - 1
                         /\ env[code[k].name] = Result(env, code[k])

\* The instructions each tool replaces.
Matches(tool, i) ==
  \/ tool = "mba_add" /\ i.op = "add" /\ i.size = Byte
  \/ tool = "mba_sub" /\ i.op = "sub"

\* Multiplies by the wrong inverse.
AddReplacement_bug(i, n) ==
  <<Inst(n + 1, "xor", Byte, i.x, i.y),
    Inst(n + 2, "and", Byte, i.x, i.y),
    Inst(n + 3, "mul", Byte, Const(2), Val(n + 2)),
    Inst(n + 4, "add", Byte, Val(n + 1), Val(n + 3)),
    Inst(n + 5, "mul", Byte, Val(n + 4), Const(39)),
    Inst(n + 6, "add", Byte, Val(n + 5), Const(23)),
    Inst(n + 7, "mul", Byte, Val(n + 6), Const(115)),
    Inst(i.name, "add", Byte, Val(n + 7), Const(111))>>

\* a + b as (((a ^ b) + 2 * (a & b)) * 39 + 23) * 151 + 111.  The names from n + 1 on
\* are free.
AddReplacement(i, n) ==
  <<Inst(n + 1, "xor", Byte, i.x, i.y),
    Inst(n + 2, "and", Byte, i.x, i.y),
    Inst(n + 3, "mul", Byte, Const(2), Val(n + 2)),
    Inst(n + 4, "add", Byte, Val(n + 1), Val(n + 3)),
    Inst(n + 5, "mul", Byte, Val(n + 4), Const(39)),
    Inst(n + 6, "add", Byte, Val(n + 5), Const(23)),
    Inst(n + 7, "mul", Byte, Val(n + 6), Const(151)),
    Inst(i.name, "add", Byte, Val(n + 7), Const(111))>>

\* The builder inserts behind the subtraction, and so behind what takes its place.
SubReplacement_behind(i, n) ==
  <<Inst(i.name, "add", i.size, Val(n + 2), Const(1)),
    Inst(n + 1, "xor", i.size, i.y, Const(i.size - 1)),
    Inst(n + 2, "add", i.size, i.x, Val(n + 1))>>

\* a - b as (a + ~b) + 1, where ~b is b ^ -1.
SubReplacement(i, n) ==
  <<Inst(n + 1, "xor", i.size, i.y, Const(i.size - 1)),
    Inst(n + 2, "add", i.size, i.x, Val(n + 1)),
    Inst(i.name, "add", i.size, Val(n + 2), Const(1))>>

Replacement(tool, i, n) ==
  IF tool = "mba_add" THEN AddReplacement(i, n) ELSE SubReplacement(i, n)
=============================================================================
