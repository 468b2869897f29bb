--------------------------- MODULE SourceProgram ---------------------------
(***************************************************************************)
(* What convert_fcmp_eq and the tools of src/work promise: the function    *)
(* the user wrote, in which every fadd, every comparison for equality and  *)
(* every constant means something else once tools have run.  A tool takes  *)
(* one step, and so does an instruction.                                   *)
(***************************************************************************)
EXTENDS Floats, SequencesExt

CONSTANTS
  Functions,   \* the functions a user writes
  Numbers      \* bound: the numbers they are called with

VARIABLES
  fn,          \* the function
  ran,         \* the tools that have rewritten it, in order
  phase,       \* "idle", "run" or "over"
  at,          \* the instruction to execute next: a block and a place in it
  from,        \* the block that was left last
  env          \* the values of the names

vars == <<fn, ran, phase, at, from, env>>

Tool == {"work1", "work2", "work3", "convert_fcmp_eq", "find_fcmp_eq", "parsetest"}
Empty == [n \in {} |-> NaN]

Init ==
  /\ fn \in Functions
  /\ ran = << >>
  /\ phase = "idle"
  /\ at = <<fn.entry, 1>> /\ from = 0
  /\ env = Empty

Rewrite(t) ==
  /\ phase = "idle"
  /\ ran' = Append(ran, t)
  /\ UNCHANGED <<fn, phase, at, from, env>>

Call(in) ==
  /\ phase = "idle"
  /\ phase' = "run"
  /\ env' = in
  /\ UNCHANGED <<fn, ran, at, from>>

-----------------------------------------------------------------------------
Get(o) == IF o[1] = "val" THEN env[o[2]] ELSE o

\* The runs that change what an addition is: work1 makes it a difference, work3 a
\* call, and after the first of them it is no fadd any more.
Renamed == {k \in DOMAIN ran : ran[k] \in {"work1", "work3"}}
Operation ==
  IF Renamed = {} THEN "fadd"
  ELSE IF ran[CHOOSE k \in Renamed : \A j \in Renamed : k <= j] = "work1" THEN "fsub" ELSE "hook"
Clamped == \E k \in DOMAIN ran : ran[k] = "work2" /\ \A j \in Renamed : k < j

Added(a, b) ==
  LET r == Compute(Operation, a, b)
  IN  IF Clamped /\ Less(Num(Limit), r) THEN Num(Limit) ELSE r

\* A comparison that convert_fcmp_eq rewrote takes numbers closer than epsilon for
\* equal.  Of equal infinities, whose difference is not a number, it promises nothing.
Compared(op, a, b) ==
  IF "convert_fcmp_eq" \notin ToSet(ran) \/ fn.optnone THEN {Compute(op, a, b)}
  ELSE IF Near(a, b) THEN {Bool("equal" \in Predicate[op])}
  ELSE IF a[1] = "inf" /\ a = b THEN {Bool(FALSE), Bool(TRUE)}
  ELSE {Compute(op, a, b)}

\* parsetest turns the sign of a constant, run twice it turns it back; it promises
\* nothing of a constant that is no int.
IsInt(c) == Signed(c, Word) \in (1 - CInt \div 2) .. CInt \div 2 - 1
Turns == Cardinality({k \in DOMAIN ran : ran[k] = "parsetest"})
Offset(op, a, c) ==
  IF Turns = 0 \/ c[1] # "int" THEN {Compute(op, a, Get(c))}
  ELSE IF IsInt(c[2]) THEN {Compute(op, a, Integer(IF Turns % 2 = 0 THEN c[2] ELSE -c[2]))}
  ELSE {Integer(v) : v \in 0 .. Word - 1}

Meanings(i) ==
  CASE i.op = "phi" -> {Get(i.in[from])}
    [] i.op = "fadd" -> {Added(Get(i.x), Get(i.y))}
    [] i.op \in {"oeq", "ueq", "one", "une"} -> Compared(i.op, Get(i.x), Get(i.y))
    [] i.op \in {"add", "sub"} -> Offset(i.op, Get(i.x), i.y)
    [] OTHER -> {Compute(i.op, Get(i.x), Get(i.y))}

Execute ==
  LET code == fn.code[at[1]]
      name == code[at[2]].name
  IN
  /\ phase = "run" /\ at[2] <= Len(code)
  /\ \E v \in Meanings(code[at[2]]) :
       env' = [n \in DOMAIN env \cup {name} |-> IF n = name THEN v ELSE env[n]]
  /\ at' = <<at[1], at[2] + 1>>
  /\ UNCHANGED <<fn, ran, phase, from>>

Branch ==
  LET br == fn.br[at[1]] IN
  /\ phase = "run" /\ at[2] > Len(fn.code[at[1]])
  /\ Len(br.to) > 0
  /\ at' = <<IF Len(br.to) = 2 /\ Get(br.cond) = Bool(FALSE) THEN br.to[2] ELSE br.to[1], 1>>
  /\ from' = at[1]
  /\ UNCHANGED <<fn, ran, phase, env>>

Return ==
  /\ phase = "run" /\ at[2] > Len(fn.code[at[1]])
  /\ fn.br[at[1]].to = << >>
  /\ phase' = "over"
  /\ UNCHANGED <<fn, ran, at, from, env>>

Next ==
  \/ \E t \in Tool : Rewrite(t)
  \/ \E in \in [fn.args -> Numbers] : Call(in)
  \/ Execute \/ Branch \/ Return

Spec == Init /\ [][Next]_vars
=============================================================================
