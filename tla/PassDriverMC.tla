---------------------------- MODULE PassDriverMC ----------------------------
(***************************************************************************)
(* Blocks of two instructions on bytes and on numbers of four bits, among  *)
(* them x - x, an operation on the result of another, and others that no   *)
(* tool replaces.  The assumption on the bits is checked for every pair of *)
(* bytes.                                                                  *)
(***************************************************************************)
EXTENDS PassDriver, Bitwise

MCSize == {16, 256}
MCXor(x, y) == x ^^ y
MCAnd(x, y) == x & y
MCSample == {0, 1, 7, 15, 128, 255}

\* The arguments 1 and 2 are bytes, 3 and 4 of four bits; 5 is the first result.
First == {Inst(5, op, 256, Val(1), Val(2)) : op \in {"add", "sub", "mul"}}
           \cup {Inst(5, op, 16, Val(3), Val(4)) : op \in {"add", "sub"}}
Second(first) ==
  {Inst(6, op, first.size, Val(5), first.y) : op \in {"add", "sub"}}
    \cup {Inst(6, "sub", first.size, Val(5), Val(5)), Inst(6, "add", 256, Val(1), Val(1))}

\* A function has the arguments it uses.
Uses(i) == {o[2] : o \in {i.x, i.y}} \ {5}
Args(used) == [n \in used |-> IF n <= 2 THEN 256 ELSE 16]

MCFunctions == {[args |-> Args(Uses(i) \cup Uses(j)), code |-> <<i, j>>, last |-> 6] :
                  <<i, j>> \in UNION {{f} \X Second(f) : f \in First}}
=============================================================================
