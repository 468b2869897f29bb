----------------------------- MODULE PassDriver -----------------------------
(***************************************************************************)
(* The main that every tool of src/llvm-tutor and src/work has (that of    *)
(* mba_add.cc, lines 6-25, and of mba_sub.cc, lines 3-22): parse the file, *)
(* rewrite the module, verify it, truncate the file, print to it.  The     *)
(* tools modelled are mba_add and mba_sub, with their loop over a block;   *)
(* they are run on one file one after the other, in any order, also on     *)
(* their own output, and may be killed.                                    *)
(***************************************************************************)
EXTENDS Mba, SequencesExt

CONSTANTS
  Functions,   \* what the file holds at first
  Sample,      \* bound: the numbers the function is called with
  MaxRuns      \* bound: how many runs of tools

\* A function has args, the size of each argument by its name, code, a block, and
\* last: names greater than that are free.
Names(code) == {code[k].name : k \in DOMAIN code}

\* What verifyModule checks of a block: the operands of an instruction are arguments
\* or come before it, and are of its type; no name is defined twice.
Valid(args, code) ==
  /\ \A j, k \in DOMAIN code : code[j].name = code[k].name => j = k
  /\ Names(code) \cap DOMAIN args = {}
  /\ \A k \in DOMAIN code : \A o \in {code[k].x, code[k].y} :
       \/ o[1] = "const" /\ o[2] < code[k].size
       \/ o[1] = "val" /\ o[2] \in DOMAIN args /\ args[o[2]] = code[k].size
       \/ o[1] = "val" /\ \E j \in 1 .. k - 1 : code[j].name = o[2] /\ code[j].size = code[k].size

ASSUME RunsAssumption == MaxRuns \in Nat /\ Sample \subseteq Nat

\* IRBuilder would fold an operation on two constants, and x & -1.  No operand of the
\* file is a constant, and none of those the tools put there leads to that.
ASSUME FunctionsAssumption ==
  \A f \in Functions :
    /\ f.args \in [DOMAIN f.args -> Size] /\ DOMAIN f.args \subseteq Nat
    /\ f.code \in Seq(Instruction) /\ f.code # << >>
    /\ f.last \in Nat /\ \A n \in DOMAIN f.args \cup Names(f.code) : n <= f.last
    /\ Valid(f.args, f.code)
    /\ \A k \in DOMAIN f.code : f.code[k].x[1] = "val" /\ f.code[k].y[1] = "val"

Tool == {"mba_add", "mba_sub"}

VARIABLES
  fn,          \* the function the file held at first
  file,        \* the file: "whole", "empty" or "partial", and its code
  tool,        \* the tool that was started last
  read,        \* history: the code it read
  block,       \* the block in memory
  inst,        \* the iterator
  last,        \* the last name in use
  pc,          \* "idle", "rewrite", "open" or "print"
  runs         \* bound: the runs so far

vars == <<fn, file, tool, read, block, inst, last, pc, runs>>

\* A file with no code is an empty module for parseIRFile: no error.
File(code) == [state |-> IF code = << >> THEN "empty" ELSE "whole", code |-> code]
Partial == [state |-> "partial", code |-> << >>]

Init ==
  /\ fn \in Functions
  /\ file = File(fn.code)
  /\ tool \in Tool
  /\ read = << >>
  /\ block = << >>
  /\ inst = 1
  /\ last = fn.last
  /\ pc = "idle"
  /\ runs = 0

\* parseIRFile
Parse(t) ==
  /\ pc = "idle" /\ runs < MaxRuns
  /\ file.state # "partial"
  /\ tool' = t
  /\ read' = file.code
  /\ block' = file.code
  /\ inst' = 1
  /\ pc' = "rewrite"
  /\ runs' = runs + 1
  /\ UNCHANGED <<fn, file, last>>

\* What a kill left does not parse: main returns 1.
ParseFails(t) ==
  /\ pc = "idle" /\ runs < MaxRuns
  /\ file.state = "partial"
  /\ tool' = t
  /\ runs' = runs + 1
  /\ UNCHANGED <<fn, file, read, block, inst, last, pc>>

AtInst == pc = "rewrite" /\ inst <= Len(block)

\* The instruction is none the tool replaces.  (kRatio of mba_add is 1: the random
\* number is never larger.)
SkipInst ==
  /\ AtInst /\ ~Matches(tool, block[inst])
  /\ inst' = inst + 1
  /\ UNCHANGED <<fn, file, tool, read, block, last, pc, runs>>

\* Steps over the instruction that comes next, as if the iterator were past the new
\* one already.
ReplaceInst_skip ==
  /\ AtInst /\ Matches(tool, block[inst])
  /\ LET new == Replacement(tool, block[inst], last) IN
     /\ block' = SubSeq(block, 1, inst - 1) \o new \o SubSeq(block, inst + 1, Len(block))
     /\ inst' = Min({inst + Len(new) + 1, Len(block') + 1})
     /\ last' = last + Len(new)
  /\ UNCHANGED <<fn, file, tool, read, pc, runs>>

\* The same, and past the end of the block.
ReplaceInst_bug ==
  /\ AtInst /\ Matches(tool, block[inst])
  /\ LET new == Replacement(tool, block[inst], last) IN
     /\ block' = SubSeq(block, 1, inst - 1) \o new \o SubSeq(block, inst + 1, Len(block))
     /\ inst' = inst + Len(new) + 1
     /\ last' = last + Len(new)
  /\ UNCHANGED <<fn, file, tool, read, pc, runs>>

\* The new instructions are inserted before the old one, which the last of them
\* replaces; the iterator is at that one, then steps on.
ReplaceInst ==
  /\ AtInst /\ Matches(tool, block[inst])
  /\ LET new == Replacement(tool, block[inst], last) IN
     /\ block' = SubSeq(block, 1, inst - 1) \o new \o SubSeq(block, inst + 1, Len(block))
     /\ inst' = inst + Len(new)
     /\ last' = last + Len(new)
  /\ UNCHANGED <<fn, file, tool, read, pc, runs>>

\* verifyModule; main returns 1 and leaves the file alone if it finds an error.
Verify ==
  /\ pc = "rewrite" /\ inst > Len(block)
  /\ pc' = IF Valid(fn.args, block) THEN "open" ELSE "idle"
  /\ UNCHANGED <<fn, file, tool, read, block, inst, last, runs>>

\* raw_fd_ostream with F_None truncates the file.
OpenOutput ==
  /\ pc = "open"
  /\ file' = File(<< >>)
  /\ pc' = "print"
  /\ UNCHANGED <<fn, tool, read, block, inst, last, runs>>

\* The file cannot be opened for writing: ec, which says so, is not looked at, and
\* printing to the stream ends in a fatal error.
OpenFails ==
  /\ pc = "open"
  /\ pc' = "idle"
  /\ UNCHANGED <<fn, file, tool, read, block, inst, last, runs>>

PrintModule ==
  /\ pc = "print"
  /\ file' = File(block)
  /\ pc' = "idle"
  /\ UNCHANGED <<fn, tool, read, block, inst, last, runs>>

\* The process is killed, in PrintModule perhaps after a part was printed.
Kill ==
  /\ pc # "idle"
  /\ file' \in IF pc = "print" THEN {file, Partial} ELSE {file}
  /\ pc' = "idle"
  /\ UNCHANGED <<fn, tool, read, block, inst, last, runs>>

Terminating == pc = "idle" /\ runs = MaxRuns /\ UNCHANGED vars

Next ==
  \/ \E t \in Tool : Parse(t) \/ ParseFails(t)
  \/ SkipInst \/ ReplaceInst \/ Verify
  \/ OpenOutput \/ OpenFails \/ PrintModule \/ Kill \/ Terminating

Spec == Init /\ [][Next]_vars
-----------------------------------------------------------------------------
(* Properties.                                                             *)

TypeOK ==
  /\ fn \in Functions
  /\ file.code \in Seq(Instruction) /\ file.state \in {"whole", "empty", "partial"}
  /\ file.state = "whole" <=> file.code # << >>
  /\ tool \in Tool
  /\ read \in Seq(Instruction) /\ block \in Seq(Instruction)
  /\ inst \in 1 .. Len(block) + 1 /\ last \in Nat
  /\ pc \in {"idle", "rewrite", "open", "print"}
  /\ runs \in 0 .. MaxRuns

\* The values of the names after the instruction i.
After(env, i) == [n \in DOMAIN env \cup {i.name} |-> IF n = i.name THEN Result(env, i) ELSE env[n]]

\* The values of all names for a call with the arguments in.
Values(code, in) ==
  LET env[k \in 0 .. Len(code)] == IF k = 0 THEN in ELSE After(env[k - 1], code[k])
  IN  env[Len(code)]

Calls == {in \in [DOMAIN fn.args -> Sample] : \A n \in DOMAIN fn.args : in[n] < fn.args[n]}

\* Whichever tools ran on the file, completely, on each other's output, or killed on
\* the way: if the file still holds a module it computes, at every width and with
\* all intermediate results wrapping, every value that it computed at first.
FileKeepsMeaning ==
  file.state = "whole" => \A in \in Calls :
    LET env == Values(file.code, in) IN
      Names(fn.code) \subseteq DOMAIN env /\ Satisfies(env, fn.code)

\* At the end of the loop the module is one that verifyModule accepts: new
\* instructions come before their uses, of the same type, under names of their own.
VerifierAccepts == pc = "rewrite" /\ inst > Len(block) => Valid(fn.args, block)

\* The places of the instructions that the tool replaces.
Found(code) == {k \in DOMAIN code : Matches(tool, code[k])}

\* The loop goes over a list that grows behind the iterator: every instruction to
\* replace is replaced, and none of those put there is looked at.  (Three of the
\* instructions for an addition are additions again.)
EachReplacedOnce ==
  pc = "open" =>
    LET found == Cardinality(Found(read))
    IN  /\ Cardinality(Found(block)) = IF tool = "mba_add" THEN 3 * found ELSE 0
        /\ Len(block) = Len(read) + (IF tool = "mba_add" THEN 7 ELSE 2) * found
        /\ Names(read) \subseteq Names(block)
=============================================================================
