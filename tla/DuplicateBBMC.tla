--------------------------- MODULE DuplicateBBMC ---------------------------
(***************************************************************************)
(* Three functions: a diamond whose blocks use each other's values, a loop *)
(* on one block with PHIs, an exit and an unreachable block, and an invoke *)
(* whose normal and unwind paths join.                                     *)
(***************************************************************************)
EXTENDS DuplicateBB

MCBlock == {"E", "A", "B", "J"}
MCInst == {"e1", "e2", "a1", "a2", "a3", "b1", "j1", "j2", "j3"}
MCLeaf == {"x", "y", "const"}

I(name) == <<"inst", name>>
X == <<"leaf", "x">>
Y == <<"leaf", "y">>

\* The operands of a function: ops for its instructions, terms for the terminators
\* that have any.
Opnds(ops, terms) ==
  [v \in ({"inst"} \X DOMAIN ops) \cup ({"term"} \X MCBlock) |->
     IF v[1] = "inst" THEN ops[v[2]]
     ELSE IF v[2] \in DOMAIN terms THEN terms[v[2]] ELSE << >>]

NoResult == [b \in MCBlock |-> NoInst]
Nowhere == [b \in MCBlock |-> b]

\* a2 and j3 are stores; a3 is no integer.
Diamond ==
  [entry |-> "E", order |-> <<"E", "A", "B", "J">>, pads |-> {},
   succ |-> [E |-> {"A", "B"}, A |-> {"J"}, B |-> {"J"}, J |-> {}],
   body |-> [E |-> <<"e1", "e2">>, A |-> <<"a1", "a2", "a3">>, B |-> <<"b1">>, J |-> <<"j1", "j2", "j3">>],
   phis |-> {"j1"}, void |-> {"a2", "j3"}, int |-> {"e1", "e2", "a1", "b1", "j1", "j2"},
   from |-> [j1 |-> <<"A", "B">>],
   result |-> NoResult, normal |-> Nowhere, args |-> {"x", "y"},
   opnds |-> Opnds([e1 |-> <<X, Y>>, e2 |-> <<I("e1"), X>>, a1 |-> <<I("e1"), I("e2")>>,
                    a2 |-> <<I("a1")>>, a3 |-> <<I("a1"), I("a1")>>, b1 |-> <<I("e2")>>,
                    j1 |-> <<I("a1"), I("b1")>>, j2 |-> <<I("j1"), I("e1")>>, j3 |-> <<I("j2")>>],
                   [E |-> <<I("e2")>>, J |-> <<I("j2")>>])]

\* A loops with a1 and the PHIs a2, a3 of each other; B is unreachable.
Loop ==
  [entry |-> "E", order |-> <<"E", "B", "A", "J">>, pads |-> {},
   succ |-> [E |-> {"A"}, A |-> {"A", "J"}, B |-> {"J"}, J |-> {}],
   body |-> [E |-> <<"e1">>, A |-> <<"a2", "a3", "a1", "e2">>, B |-> <<"b1">>, J |-> <<"j1", "j2">>],
   phis |-> {"a2", "a3", "j1"}, void |-> {"e2"}, int |-> {"e1", "a1", "a2", "a3", "b1", "j1", "j2"},
   from |-> [a2 |-> <<"E", "A">>, a3 |-> <<"E", "A">>, j1 |-> <<"A", "B">>],
   result |-> NoResult, normal |-> Nowhere, args |-> {"x"},
   opnds |-> Opnds([e1 |-> <<X>>, a1 |-> <<I("a2"), I("e1")>>, a2 |-> <<I("e1"), I("a1")>>,
                    a3 |-> <<X, I("a2")>>, e2 |-> <<I("a1"), I("a3")>>, b1 |-> <<I("b1")>>,
                    j1 |-> <<I("a1"), I("b1")>>, j2 |-> <<I("j1"), I("a3")>>],
                   [A |-> <<I("a1")>>, J |-> <<I("j2")>>])]

\* E ends in an invoke, with the value e2, to A, or to the landing pad B.
Invoke ==
  [entry |-> "E", order |-> <<"E", "A", "B", "J">>, pads |-> {"B"},
   succ |-> [E |-> {"A", "B"}, A |-> {"J"}, B |-> {"J"}, J |-> {}],
   body |-> [E |-> <<"e1">>, A |-> <<"a1">>, B |-> <<"b1">>, J |-> <<"j1", "j2">>],
   phis |-> {"j1"}, void |-> {}, int |-> {"e1", "e2", "a1", "j1", "j2"},
   from |-> [j1 |-> <<"A", "B">>],
   result |-> [NoResult EXCEPT !["E"] = "e2"], normal |-> [Nowhere EXCEPT !["E"] = "A"],
   args |-> {"x"},
   opnds |-> Opnds([e1 |-> <<X>>, a1 |-> <<I("e2"), I("e1")>>, b1 |-> << >>,
                    j1 |-> <<I("a1"), I("e1")>>, j2 |-> <<I("j1"), I("e1")>>],
                   [E |-> <<I("e1")>>, J |-> <<I("j2")>>])]

MCFunctions == {Diamond, Loop, Invoke}
=============================================================================
