---------------------------- MODULE FloatPasses ----------------------------
(***************************************************************************)
(* The tools that rewrite single instructions of a function: work1, work2  *)
(* and work3 (fadd), convert_fcmp_eq (fcmp) and parsetest (add and sub),   *)
(* beside find_fcmp_eq, which writes back what it has read.  One function  *)
(* goes through one file; tools are run on it in any order, so each meets  *)
(* its own output and the others'.  Then the program of the file is run.   *)
(* SourceProgram says what it has to compute.                              *)
(*                                                                         *)
(* Numbers are scalars of type double or float; an instruction has no      *)
(* fast-math or overflow flags.                                            *)
(***************************************************************************)
EXTENDS Floats, SequencesExt

CONSTANTS
  Functions,   \* the functions a user writes
  Numbers,     \* bound: the numbers they are called with
  MaxRuns      \* bound: how many tools rewrite the file

VARIABLES
  fn,          \* the function as the user wrote it
  file,        \* the one that the file holds
  module,      \* the one in the memory of the tool
  tool,        \* the tool that runs
  todo,        \* the instructions it has collected and not replaced yet
  pc,          \* "idle", "rewrite", "run" or "over"
  ran,         \* history: the tools that have rewritten the file
  block, inst, \* the next instruction of the program
  came,        \* the block it was in before
  env,         \* the values it has computed
  at, from     \* history: block, inst and came in the function of the user

rewriting == <<file, module, tool, todo, ran>>
running == <<block, inst, came, env, at, from>>
vars == <<fn, rewriting, pc, running>>

Tool == {"work1", "work2", "work3", "convert_fcmp_eq", "find_fcmp_eq", "parsetest"}
Equality == {"oeq", "ueq", "one", "une"}
Val(n) == <<"val", n>>
Empty == [n \in {} |-> NaN]

Init ==
  /\ fn \in Functions
  /\ file = fn /\ module = fn
  /\ tool = "find_fcmp_eq" /\ todo = << >>
  /\ pc = "idle" /\ ran = << >>
  /\ block = fn.entry /\ inst = 1 /\ came = 0 /\ env = Empty
  /\ at = <<fn.entry, 1>> /\ from = 0

-----------------------------------------------------------------------------
(* A function f: f.code[b] is the sequence of instructions of the block b, *)
(* f.br[b] its terminator and whether the user wrote that, f.layout the    *)
(* order of the blocks, and f.last the last number given to a name or a    *)
(* block.                                                                  *)

UniqueNames(f) ==
  \A b, c \in DOMAIN f.code : \A j \in DOMAIN f.code[b], k \in DOMAIN f.code[c] :
    f.code[b][j].name = f.code[c][k].name => b = c /\ j = k

IsInst(i) == DOMAIN i = {"name", "op"} \cup (IF i.op = "phi" THEN {"in"} ELSE {"x", "y"})
IsBr(br, blocks) == DOMAIN br = {"cond", "to", "user"} /\ br.to \in Seq(blocks)

\* Names and blocks are numbers from 1 to top.
WellFormed(f, top) ==
  /\ DOMAIN f = {"type", "main", "optnone", "args", "entry", "last", "layout", "code", "br"}
  /\ DOMAIN f.code \subseteq 1 .. top /\ f.entry \in DOMAIN f.code
  /\ \A b \in DOMAIN f.code :
       /\ f.code[b] \in Seq(ToSet(f.code[b]))
       /\ \A i \in ToSet(f.code[b]) : IsInst(i) /\ i.name \in 1 .. top
  /\ UniqueNames(f)
  /\ DOMAIN f.br = DOMAIN f.code /\ \A b \in DOMAIN f.br : IsBr(f.br[b], DOMAIN f.code)
  /\ f.layout \in Seq(DOMAIN f.code) /\ ToSet(f.layout) = DOMAIN f.code /\ IsInjective(f.layout)

-----------------------------------------------------------------------------
(* llvm::verifyModule.                                                     *)

Names(f, b) == {f.code[b][k].name : k \in DOMAIN f.code[b]}
Preds(f, b) == {p \in DOMAIN f.br : b \in ToSet(f.br[p].to)}

\* The blocks that are reached from the entry without passing through d.
ReachedWithout(f, d) ==
  LET step[k \in 0 .. Cardinality(DOMAIN f.br)] ==
        IF k = 0 THEN {f.entry} \ {d}
        ELSE LET r == step[k - 1] IN r \cup ((UNION {ToSet(f.br[b].to) : b \in r}) \ {d})
  IN  step[Cardinality(DOMAIN f.br)]
Dominance(f) == UNION {{d} \X (DOMAIN f.br \ ReachedWithout(f, d)) : d \in DOMAIN f.br}

\* A bitcast to i64 and a call of Hook take doubles.
TypesMatch(f) ==
  f.type = "float" => \A b \in DOMAIN f.code : \A k \in DOMAIN f.code[b] : f.code[b][k].op \notin {"abs", "hook"}

OperandsDominate(f) ==
  LET dom == Dominance(f)
      above(b) == f.args \cup UNION {Names(f, d) : d \in {c \in DOMAIN f.br \ {b} : <<c, b>> \in dom}}
      before(b, k) == above(b) \cup {f.code[b][j].name : j \in 1 .. k - 1}
      known(o, names) == o[1] = "val" => o[2] \in names
  IN  \A b \in DOMAIN f.code :
        /\ \A k \in DOMAIN f.code[b] : LET i == f.code[b][k] IN
             IF i.op = "phi"
             THEN /\ DOMAIN i.in = Preds(f, b)
                  /\ \A j \in 1 .. k : f.code[b][j].op = "phi"
                  /\ \A p \in Preds(f, b) : known(i.in[p], above(p) \cup Names(f, p))
             ELSE known(i.x, before(b, k)) /\ known(i.y, before(b, k))
        /\ known(f.br[b].cond, above(b) \cup Names(f, b))

Valid(f) == UniqueNames(f) /\ TypesMatch(f) /\ OperandsDominate(f)

\* Every name has a type, its instruction's, and is used as one of it.
WellTyped(f) ==
  \E type \in [f.args \cup UNION {Names(f, b) : b \in DOMAIN f.code} -> DOMAIN Values] :
    LET Has(o, t) == IF o[1] = "val" THEN type[o[2]] = t ELSE o \in Values[t]
        IsOf(i, t, operands) == type[i.name] = t /\ Has(i.x, operands) /\ Has(i.y, operands)
    IN  /\ \A n \in f.args : type[n] = "number"
        /\ \A b \in DOMAIN f.code : \A k \in DOMAIN f.code[b] : LET i == f.code[b][k] IN
             \/ i.op = "phi" /\ \A p \in DOMAIN i.in : Has(i.in[p], type[i.name])
             \/ i.op \in {"fadd", "fsub", "hook", "abs"} /\ IsOf(i, "number", "number")
             \/ i.op \in DOMAIN Predicate /\ IsOf(i, "bool", "number")
             \/ i.op \in {"add", "sub"} /\ IsOf(i, "int", "int")

\* What the user wrote is a module that the verifier accepts; the entry has no PHIs.
ASSUME FunctionsAssumption ==
  /\ \A f \in Functions :
       /\ f.last \in Nat /\ WellFormed(f, f.last) /\ Valid(f) /\ WellTyped(f)
       /\ f.args \subseteq 1 .. f.last /\ \A b \in DOMAIN f.br : f.br[b].user
       /\ \A k \in DOMAIN f.code[f.entry] : f.code[f.entry][k].op # "phi"
  /\ Numbers \subseteq Number /\ MaxRuns \in Nat

-----------------------------------------------------------------------------
(* What a tool collects.                                                   *)

Place(f, n) ==
  CHOOSE p \in UNION {{b} \X DOMAIN f.code[b] : b \in DOMAIN f.code} : f.code[p[1]][p[2]].name = n
InstOf(f, n) == LET p == Place(f, n) IN f.code[p[1]][p[2]]

\* The instructions s take the place of n.
ReplaceInst(f, n, s) ==
  LET p == Place(f, n)
  IN  [f EXCEPT !.code[p[1]] = SubSeq(@, 1, p[2] - 1) \o s \o SubSeq(@, p[2] + 1, Len(@))]

\* What a tool replaces.
Target(t, i) ==
  CASE t \in {"work1", "work2", "work3"} -> i.op = "fadd"
    [] t = "convert_fcmp_eq" -> i.op \in Equality
    [] t = "parsetest" -> i.op \in {"add", "sub"} /\ i.y[1] = "int"
    [] t = "find_fcmp_eq" -> FALSE

\* The loop of a pass goes over the blocks and the instructions in order.  (work1 and
\* parsetest replace each as they meet it, which leaves the list of targets alone.)
Collected(t, f) ==
  LET found(i) == IF Target(t, i) THEN <<i.name>> ELSE << >>
      in(code) == FlattenSeq([k \in DOMAIN code |-> found(code[k])])
  IN  FlattenSeq([k \in DOMAIN f.layout |-> in(f.code[f.layout[k]])])

\* Every block is searched twice.
FindInstsToConvert_bug(t, f) == Collected(t, f) \o Collected(t, f)

\* A function marked optnone is ignored by convert_fcmp_eq alone.
FindInstsToConvert(t, f) ==
  IF t = "convert_fcmp_eq" /\ f.optnone THEN << >> ELSE Collected(t, f)

\* main reads the file and the pass begins.  work1 and parsetest look for main.
Parse(t) ==
  /\ pc = "idle" /\ Len(ran) < MaxRuns
  /\ t \in {"work1", "parsetest"} => file.main
  /\ pc' = "rewrite" /\ tool' = t
  /\ module' = file
  /\ todo' = FindInstsToConvert(t, file)
  /\ UNCHANGED <<fn, file, ran, running>>

\* No main: a null pointer is dereferenced, and the file is as it was.
NoMain(t) ==
  /\ pc = "idle" /\ t \in {"work1", "parsetest"} /\ ~file.main
  /\ UNCHANGED vars

-----------------------------------------------------------------------------
(* The replacements.                                                       *)

SubFAdd(f, n) == ReplaceInst(f, n, <<[InstOf(f, n) EXCEPT !.op = "fsub"]>>)

\* The call is put before the fadd, which stays.
HookFAdd_keep(f, n) ==
  [ReplaceInst(f, n, <<[InstOf(f, n) EXCEPT !.name = f.last + 1, !.op = "hook"], InstOf(f, n)>>)
   EXCEPT !.last = @ + 1]

\* CreateCall has inserted the call already when ReplaceInstWithInst does (see
\* AssertionFails).  Linked twice in one place, it is there once for whoever reads the
\* block from its beginning, as the verifier and the printer do.
HookFAdd(f, n) == ReplaceInst(f, n, <<[InstOf(f, n) EXCEPT !.op = "hook"]>>)

\* The entries for b stay.
UpdatePhis_bug(f, b, tail) == f

\* The PHIs of b's successors have entries for tail from now on.
UpdatePhis(f, b, tail) ==
  LET move(in) == [p \in {IF q = b THEN tail ELSE q : q \in DOMAIN in} |->
                     in[IF p = tail THEN b ELSE p]]
      moved(i) == IF i.op = "phi" /\ b \in DOMAIN i.in THEN [i EXCEPT !.in = move(@)] ELSE i
  IN  [f EXCEPT !.code = [c \in DOMAIN f.code |-> [k \in DOMAIN f.code[c] |-> moved(f.code[c][k])]]]

\* SplitBlockAndInsertIfThenElse: the instructions from the k-th on and the terminator
\* move from b to tail; b branches on cond to the new empty blocks then and else.
SplitBlockAndInsertIfThenElse(f, b, k, cond, then, else, tail) ==
  LET blocks == DOMAIN f.code \cup {then, else, tail}
      goto(c, to) == [cond |-> c, to |-> to, user |-> FALSE]
      split ==
       [f EXCEPT
         !.code = [c \in blocks |->
           CASE c = b -> SubSeq(f.code[b], 1, k - 1)
             [] c = tail -> SubSeq(f.code[b], k, Len(f.code[b]))
             [] c \in {then, else} -> << >>
             [] OTHER -> f.code[c]],
         !.br = [c \in blocks |->
           CASE c = b -> goto(cond, <<then, else>>)
             [] c = tail -> f.br[b]
             [] c \in {then, else} -> goto(Bool(TRUE), <<tail>>)
             [] OTHER -> f.br[c]],
         !.layout = ReplaceFirstSubSeq(<<b, then, else, tail>>, <<b>>, @)]
  IN  UpdatePhis(split, b, tail)

\* What is left of the fadd n in the tail: 100 from one side, the sum from the other.
ClampPhi_swapped(n, clone, then, else) ==
  [name |-> n, op |-> "phi",
   in |-> [p \in {then, else} |-> IF p = then THEN Val(clone) ELSE Num(Limit)]]
ClampPhi(n, clone, then, else) ==
  [name |-> n, op |-> "phi",
   in |-> [p \in {then, else} |-> IF p = then THEN Num(Limit) ELSE Val(clone)]]

\* The sum and its comparison with 100 stay before the branch.
ClampFAdd(f, n) ==
  LET p == Place(f, n)
      clone == f.last + 1  ogt == f.last + 2
      then == f.last + 3   else == f.last + 4   tail == f.last + 5
      condition == <<[InstOf(f, n) EXCEPT !.name = clone],
                     [name |-> ogt, op |-> "ogt", x |-> Val(clone), y |-> Num(Limit)]>>
      compared == ReplaceInst(f, n, Append(condition, InstOf(f, n)))
      split == SplitBlockAndInsertIfThenElse(compared, p[1], p[2] + 2, Val(ogt), then, else, tail)
  IN  [ReplaceInst(split, n, <<ClampPhi(n, clone, then, else)>>) EXCEPT !.last = tail]

\* |x - y| is compared with epsilon.  ("abs" is a bitcast to i64, an and, and a bitcast
\* to double.)
NewPredicate == [oeq |-> "olt", ueq |-> "ult", one |-> "oge", une |-> "uge"]
ConvertFCmpEqInstruction(f, n) ==
  LET i == InstOf(f, n)
      fsub == f.last + 1  abs == f.last + 2
  IN  [ReplaceInst(f, n, <<[name |-> fsub, op |-> "fsub", x |-> i.x, y |-> i.y],
                           [name |-> abs, op |-> "abs", x |-> Val(fsub), y |-> Val(fsub)],
                           [i EXCEPT !.op = NewPredicate[@], !.x = Val(abs), !.y = Num(Epsilon)]>>)
       EXCEPT !.last = abs]

\* The constant passes through an int v, and -v wraps in one.
NegateConstant(f, n) ==
  ReplaceInst(f, n, <<[InstOf(f, n) EXCEPT !.y = Integer(Signed(-Signed(@[2], CInt), CInt) % Word)]>>)

Replacement(t, f, n) ==
  CASE t = "work1" -> SubFAdd(f, n)
    [] t = "work2" -> ClampFAdd(f, n)
    [] t = "work3" -> HookFAdd(f, n)
    [] t = "convert_fcmp_eq" -> ConvertFCmpEqInstruction(f, n)
    [] t = "parsetest" -> NegateConstant(f, n)

Replace ==
  /\ pc = "rewrite" /\ todo # << >>
  /\ module' = Replacement(tool, module, Head(todo))
  /\ todo' = Tail(todo)
  /\ UNCHANGED <<fn, file, tool, pc, ran, running>>

\* An LLVM with assertions stops the tool at its first replacement: an instruction that
\* replaces another is in no block yet, and a float is not cast to i64.
AssertionFails ==
  /\ pc = "rewrite" /\ todo # << >> /\ module = file
  /\ tool = "work3" \/ (tool = "convert_fcmp_eq" /\ module.type = "float")
  /\ pc' = "idle"
  /\ UNCHANGED <<fn, rewriting, running>>

-----------------------------------------------------------------------------
(* The end of a tool.                                                      *)

\* A module that the verifier accepts is printed over the file, and main ends.
Verify ==
  /\ pc = "rewrite" /\ todo = << >>
  /\ pc' = "idle"
  /\ IF Valid(module) THEN file' = module /\ ran' = Append(ran, tool)
                      ELSE UNCHANGED <<file, ran>>
  /\ UNCHANGED <<fn, module, tool, todo, running>>

-----------------------------------------------------------------------------
(* The program.                                                            *)

Get(o) == IF o[1] = "val" THEN env[o[2]] ELSE o
Value(i) == IF i.op = "phi" THEN Get(i.in[came]) ELSE Compute(i.op, Get(i.x), Get(i.y))

Start(in) ==
  /\ pc = "idle" /\ pc' = "run"
  /\ env' = in
  /\ UNCHANGED <<fn, rewriting, block, inst, came, at, from>>

AtEnd == inst > Len(file.code[block])

\* An instruction of the user's is done when the one of its name is.
Execute ==
  LET i == file.code[block][inst] IN
  /\ pc = "run" /\ ~AtEnd
  /\ env' = [n \in DOMAIN env \cup {i.name} |-> IF n = i.name THEN Value(i) ELSE env[n]]
  /\ inst' = inst + 1
  /\ at' = IF i.name <= fn.last THEN <<at[1], at[2] + 1>> ELSE at
  /\ UNCHANGED <<fn, rewriting, pc, block, came, from>>

Branch ==
  LET br == file.br[block]
      next == IF Len(br.to) = 2 /\ Get(br.cond) = Bool(FALSE) THEN br.to[2] ELSE br.to[1]
  IN
  /\ pc = "run" /\ AtEnd /\ br.to # << >>
  /\ block' = next /\ inst' = 1 /\ came' = block
  /\ at' = IF br.user THEN <<next, 1>> ELSE at
  /\ from' = IF br.user THEN at[1] ELSE from
  /\ UNCHANGED <<fn, rewriting, pc, env>>

Return ==
  /\ pc = "run" /\ AtEnd /\ file.br[block].to = << >>
  /\ pc' = "over"
  /\ UNCHANGED <<fn, rewriting, running>>

Terminating == pc = "over" /\ UNCHANGED vars

Next ==
  \/ \E t \in Tool : Parse(t) \/ NoMain(t)
  \/ Replace \/ AssertionFails \/ Verify
  \/ \E in \in [fn.args -> Numbers] : Start(in)
  \/ Execute \/ Branch \/ Return \/ Terminating

Spec == Init /\ [][Next]_vars

-----------------------------------------------------------------------------
(* Properties.                                                             *)

\* What a pass has collected is still there, once, and still to be replaced, however
\* often its block was split since: the pointers to instructions are never stale.
TypeOK ==
  /\ fn \in Functions /\ tool \in Tool
  /\ pc \in {"idle", "rewrite", "run", "over"}
  /\ ran \in UNION {[1 .. k -> Tool] : k \in 0 .. MaxRuns}
  /\ \A f \in {file, module} :
       /\ ToSet(f.layout) = DOMAIN f.code /\ DOMAIN f.br = DOMAIN f.code
       /\ Len(f.layout) = Cardinality(DOMAIN f.code)
       /\ \A b \in DOMAIN f.code : ToSet(f.br[b].to) \subseteq DOMAIN f.code
  /\ block \in DOMAIN file.code /\ inst \in 1 .. Len(file.code[block]) + 1
  /\ IsInjective(todo)
  /\ \A n \in ToSet(todo) :
       /\ \E b \in DOMAIN module.code : n \in Names(module, b)
       /\ Target(tool, InstOf(module, n))

\* The program of the file, whatever tools have rewritten it in whatever order,
\* computes what the tools promise of the function the user wrote: each value, step by
\* step, and the path taken.
Source == INSTANCE SourceProgram WITH
  phase <- IF pc \in {"run", "over"} THEN pc ELSE "idle",
  env <- [n \in {m \in DOMAIN env : m <= fn.last} |-> env[n]]
Implements == Source!Spec

\* The verifier accepts everything the tools make, also of their own output, but what
\* convert_fcmp_eq and work3 make of floats.
OnlyFloatRefused ==
  pc = "rewrite" /\ todo = << >> /\ ~Valid(module) =>
    fn.type = "float" /\ tool \in {"convert_fcmp_eq", "work3"}

\* A second run of a tool whose output holds nothing it looks for leaves the file alone,
\* whatever other tools were run in between.  (work2 and parsetest start over.)
RerunsChangeNothing ==
  [][pc = "rewrite" /\ tool \in ToSet(ran) \ {"work2", "parsetest"} => file' = file]_vars
=============================================================================
