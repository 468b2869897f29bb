----------------------------- MODULE MergeBBMC -----------------------------
(***************************************************************************)
(* Small functions for TLC.  E is the entry, S the common successor, the   *)
(* others are the blocks that may be duplicates of each other.             *)
(***************************************************************************)
EXTENDS MergeBB, SequencesExt

MCBlock == {"E", "A", "B", "C", "D", "S"}
MCLeaf == {"x", "y"}

\* Two instruction names for each block.
Name == [E |-> <<"E1", "E2">>, A |-> <<"A1", "A2">>, B |-> <<"B1", "B2">>,
         C |-> <<"C1", "C2">>, D |-> <<"D1", "D2">>, S |-> <<"S1", "S2">>]
MCInst == UNION {{Name[b][1], Name[b][2]} : b \in MCBlock}

\* A block: its terminator, its instructions (operation and operands, an operand
\* "own" being the block's first instruction) and the value it gives PHIs.
Blk(kind, targs, code, gives) ==
  [kind |-> kind, targs |-> targs, code |-> code, gives |-> gives]

None == << >>
Call(v) == <<[op |-> "call", opnd |-> <<v>>]>>
Chain == <<[op |-> "add", opnd |-> <<"x">>], [op |-> "call", opnd |-> <<"own">>]>>
OwnPhi == <<[op |-> "phi", opnd |-> << >>]>>
TwoPhis == OwnPhi \o OwnPhi

Placed(b, v) == IF v = "own" THEN Name[b][1] ELSE v

\* The entries of a PHI of s, one for each edge into s.  A second PHI of a block
\* takes x on every edge.
Entries(order, blk, s, second) ==
  FlattenSeq([n \in 1 .. Len(order) |->
    LET c == order[n] IN
      [k \in 1 .. Cardinality({j \in DOMAIN blk[c].targs : blk[c].targs[j] = s}) |->
         <<c, IF second THEN "x" ELSE Placed(c, blk[c].gives)>>]])

Function(order, blk) ==
  LET at(i) == CHOOSE bn \in MCBlock \X {1, 2} : Name[bn[1]][bn[2]] = i
      used(i) == at(i)[2] <= Len(blk[at(i)[1]].code)
      inst(i) == blk[at(i)[1]].code[at(i)[2]]
      isphi(i) == used(i) /\ inst(i).op = "phi"
  IN  [order |-> order,
       kind |-> [b \in MCBlock |-> blk[b].kind],
       targets |-> [b \in MCBlock |-> blk[b].targs],
       body |-> [b \in MCBlock |-> [n \in 1 .. Len(blk[b].code) |-> Name[b][n]]],
       phi |-> {i \in MCInst : isphi(i)},
       op |-> [i \in MCInst |-> IF used(i) THEN inst(i).op ELSE "none"],
       opnd |-> [i \in MCInst |->
                   IF used(i) /\ ~isphi(i)
                   THEN [k \in 1 .. Len(inst(i).opnd) |-> Placed(at(i)[1], inst(i).opnd[k])]
                   ELSE << >>],
       incoming |-> [i \in MCInst |->
                       IF isphi(i) THEN Entries(order, blk, at(i)[1], at(i)[2] = 2)
                                   ELSE << >>],
       topnd |-> [b \in MCBlock |-> IF blk[b].kind \in {"condbr", "switch"}
                                    THEN <<"x">> ELSE << >>]]

Ret(code) == Blk("other", << >>, code, "x")
Jump(s, code, gives) == Blk("br", <<s>>, code, gives)
Six(e, a, b, c, d, s) == [E |-> e, A |-> a, B |-> b, C |-> c, D |-> d, S |-> s]
Layout == <<"E", "A", "B", "C", "D", "S">>

\* Control: three blocks with any targets among themselves, S, or a branch that
\* cannot be merged; one of them may be unreachable, or reached by an edge that is
\* neither br nor switch.
Inner == {Jump(s, c, "x") : s \in {"A", "B", "C", "S"}, c \in {None, Call("x")}}
           \cup {Blk("condbr", <<"A", "S">>, None, "x"), Blk("other", <<"B">>, None, "x")}
ControlFunctions ==
  {Function(Layout, Six(Blk(k, t, None, "x"), a, b, c, Ret(None), Ret(None))) :
     k \in {"switch", "other"}, t \in {<<"A", "B", "C">>, <<"A", "B">>},
     a \in Inner, b \in Inner, c \in Inner}

\* Data: three blocks that jump to S, whose PHIs take a leaf or a value of theirs.
Data == {Jump("S", c, g) : c \in {Call("x"), Chain, OwnPhi}, g \in {"x", "own"}}
          \cup {Jump("S", None, g) : g \in {"x", "y"}}
          \cup {Jump("S", Call("y"), "x")}
DataFunctions ==
  {Function(Layout, Six(Blk("switch", t, None, "x"), a, b, c, Ret(None), Ret(s))) :
     t \in {<<"A", "B", "C">>, <<"A", "B", "C", "B">>},
     a \in Data, b \in Data, c \in Data, s \in {None, OwnPhi, TwoPhis}}

\* Chains: A and B lead to C and D, which lead to S, laid out in any order, so
\* that blocks become duplicates, or predecessors, as others are merged.
Top == {Jump(s, None, g) : s \in {"C", "D"}, g \in {"x", "y"}}
         \cup {Jump(s, Call("x"), "x") : s \in {"C", "D"}}
Bottom == {Jump("S", c, "x") : c \in {None, OwnPhi, Call("x")}} \cup {Jump("S", None, "y")}
ChainFunctions ==
  {Function(o, Six(Blk("condbr", <<"A", "B">>, None, "x"), a, b, c, d, Ret(s))) :
     o \in {Layout, <<"E", "C", "D", "A", "B", "S">>, <<"E", "S", "D", "A", "C", "B">>},
     a \in Top, b \in Top, c \in Bottom, d \in Bottom, s \in {None, OwnPhi}}

MCFunctions == ControlFunctions \cup DataFunctions \cup ChainFunctions

MCBuilds == {"assert", "ndebug"}
AssertOnly == {"assert"}

\* One function for each disagreement with what the source says of itself.
UseByPhi == {Function(Layout, Six(Blk("condbr", <<"A", "B">>, None, "x"),
                                  Jump("S", Call("x"), "own"), Jump("S", Call("x"), "own"),
                                  Ret(None), Ret(None), Ret(OwnPhi)))}
=============================================================================
