------------------------------- MODULE RivMC -------------------------------
(***************************************************************************)
(* Every graph on an entry and three other blocks with at most two         *)
(* successors each: trees, diamonds, loops, irreducible loops, unreachable *)
(* blocks.  Every block defines one integer value; there is one argument.  *)
(***************************************************************************)
EXTENDS Riv

MCBlock == {"E", "A", "B", "C"}
MCIntValue == {"arg", "e", "a", "b", "c"}
Defs == [E |-> {"e"}, A |-> {"a"}, B |-> {"b"}, C |-> {"c"}]

Succs == {S \in SUBSET {"A", "B", "C"} : Cardinality(S) <= 2}
MCFunctions == {[entry |-> "E", succ |-> s, defs |-> Defs, args |-> {"arg"}] :
                  s \in [MCBlock -> Succs]}
=============================================================================
