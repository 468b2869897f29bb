----------------------------- MODULE Dominators -----------------------------
(***************************************************************************)
(* The dominator tree of a control-flow graph, as llvm::DominatorTree      *)
(* gives it to src/llvm-tutor/riv/riv.cc and duplicate_bb.cc.  A graph g   *)
(* has an entry block g.entry and the successors g.succ[b] of each block.  *)
(***************************************************************************)
CONSTANT Block

\* The blocks that a path from the entry reaches without going through a: the
\* smallest set with the entry in it that is closed under successor.
ReachedAvoiding(g, a) ==
  {b \in Block : \A S \in SUBSET Block :
     /\ g.entry # a => g.entry \in S
     /\ \A c \in S : g.succ[c] \ {a} \subseteq S
     => b \in S}

Reached(g) == {b \in Block : \A S \in SUBSET Block :
                 g.entry \in S /\ (\A c \in S : g.succ[c] \subseteq S) => b \in S}

\* Every path from the entry to b goes through a.
Dominates(g, a, b) == b \in Reached(g) /\ b \notin ReachedAvoiding(g, a)
StrictlyDominates(g, a, b) == a # b /\ Dominates(g, a, b)

\* Every path from the entry to b takes the edge from a to n.
EdgeDominates(g, a, n, b) ==
  b \in Reached(g) /\ b \notin Reached([g EXCEPT !.succ = [@ EXCEPT ![a] = @ \ {n}]])

\* The parent in the tree: the strict dominator that the others dominate.
IsIdom(g, a, b) ==
  /\ StrictlyDominates(g, a, b)
  /\ \A c \in Block : StrictlyDominates(g, c, b) => Dominates(g, c, a)

Children(g, a) == {b \in Block : IsIdom(g, a, b)}
=============================================================================
