----------------------------- MODULE RivProofs -----------------------------
(***************************************************************************)
(* Proofs about BuildRiv, for every control-flow graph.                    *)
(***************************************************************************)
EXTENDS Riv, FiniteSetTheorems, WellFoundedInduction, TLAPS

-----------------------------------------------------------------------------
(* Dominance.                                                              *)

IsGraph(g) == g.entry \in Block /\ g.succ \in [Block -> SUBSET Block]

\* Reached is inside every set that is closed under successor.
LEMMA ReachedLeast ==
  ASSUME NEW g, NEW S \in SUBSET Block, g.entry \in S,
         \A c \in S : g.succ[c] \subseteq S
  PROVE  Reached(g) \subseteq S
BY DEF Reached

\* What is reached avoiding a is closed under the successors other than a.
LEMMA AvoidingClosed ==
  ASSUME NEW g, IsGraph(g), NEW a, NEW c \in ReachedAvoiding(g, a),
         NEW d \in g.succ[c], d # a
  PROVE  d \in ReachedAvoiding(g, a)
<1>1. d \in Block
  BY DEF IsGraph, ReachedAvoiding
<1> QED
  BY <1>1 DEF ReachedAvoiding

LEMMA EntryAvoiding ==
  ASSUME NEW g, IsGraph(g), NEW a, a # g.entry
  PROVE  g.entry \in ReachedAvoiding(g, a)
BY DEF IsGraph, ReachedAvoiding

\* Two blocks do not strictly dominate each other: otherwise neither could be the
\* first of the two on a path.
LEMMA DominanceAntisymmetric ==
  ASSUME NEW g, IsGraph(g), NEW a \in Block, NEW b \in Block,
         Dominates(g, a, b), Dominates(g, b, a)
  PROVE  a = b
<1> SUFFICES ASSUME a # b PROVE FALSE
  OBVIOUS
<1> DEFINE T == ReachedAvoiding(g, a) \cap ReachedAvoiding(g, b)
<1>1. a \notin ReachedAvoiding(g, b) /\ b \notin ReachedAvoiding(g, a) /\ a \in Reached(g)
  BY DEF Dominates
<1>2. g.entry \in T
  <2>1. a # g.entry /\ b # g.entry
    BY <1>1, EntryAvoiding
  <2> QED
    BY <2>1, EntryAvoiding
<1>3. ASSUME NEW c \in T, NEW d \in g.succ[c]
      PROVE  d \in T
  <2>1. d # a => d \in ReachedAvoiding(g, a)
    BY <1>3, AvoidingClosed
  <2>2. d # b => d \in ReachedAvoiding(g, b)
    BY <1>3, AvoidingClosed
  <2> QED
    BY <1>1, <2>1, <2>2
<1>4. T \subseteq Block
  BY DEF ReachedAvoiding
<1>5. Reached(g) \subseteq T
  BY <1>2, <1>3, <1>4, ReachedLeast
<1> QED
  BY <1>1, <1>5

\* The dominator tree is a tree: a block has one parent.
LEMMA OneParent ==
  ASSUME NEW g, IsGraph(g), NEW a \in Block, NEW c \in Block,
         NEW b \in Children(g, a), b \in Children(g, c)
  PROVE  a = c
<1>1. Dominates(g, a, c) /\ Dominates(g, c, a)
  BY DEF Children, IsIdom
<1> QED
  BY <1>1, DominanceAntisymmetric

\* The entry has no parent.
LEMMA EntryIsRoot ==
  ASSUME NEW g, IsGraph(g), NEW a \in Block
  PROVE  g.entry \notin Children(g, a)
<1> SUFFICES ASSUME g.entry \in Children(g, a) PROVE FALSE
  OBVIOUS
<1>1. a # g.entry /\ g.entry \notin ReachedAvoiding(g, a)
  BY DEF Children, IsIdom, StrictlyDominates, Dominates
<1> QED
  BY <1>1, EntryAvoiding

\* A reachable block dominates itself.
LEMMA DominanceReflexive ==
  ASSUME NEW g, IsGraph(g), NEW a \in Reached(g)
  PROVE  Dominates(g, a, a)
<1> DEFINE S == ReachedAvoiding(g, a) \ {a}
<1>1. S \in SUBSET Block /\ (g.entry # a => g.entry \in S)
  BY EntryAvoiding DEF ReachedAvoiding
<1>2. \A c \in S : g.succ[c] \ {a} \subseteq S
  BY AvoidingClosed
<1>3. a \notin ReachedAvoiding(g, a)
  BY <1>1, <1>2 DEF ReachedAvoiding
<1> QED
  BY <1>3 DEF Dominates

\* Only reachable blocks dominate any: what an unreachable one would hide is reached.
LEMMA DominatorReached ==
  ASSUME NEW g, IsGraph(g), NEW a \in Block, NEW b, Dominates(g, a, b)
  PROVE  a \in Reached(g)
<1> SUFFICES ASSUME a \notin Reached(g) PROVE FALSE
  OBVIOUS
<1> DEFINE S == ReachedAvoiding(g, a) \cap Reached(g)
<1>1. S \in SUBSET Block /\ g.entry \in Reached(g)
  BY DEF Reached, IsGraph
<1>2. g.entry \in S
  BY <1>1, EntryAvoiding
<1>3. ASSUME NEW c \in S, NEW d \in g.succ[c] PROVE d \in S
  <2>1. d \in Reached(g)
    BY <1>3 DEF Reached, IsGraph
  <2> QED
    BY <1>3, <2>1, AvoidingClosed
<1>4. Reached(g) \subseteq S
  BY <1>1, <1>2, <1>3, ReachedLeast
<1> QED
  BY <1>4 DEF Dominates

LEMMA DominanceTransitive ==
  ASSUME NEW g, IsGraph(g), NEW d \in Block, NEW a \in Block, NEW c,
         Dominates(g, d, a), Dominates(g, a, c)
  PROVE  Dominates(g, d, c)
<1> SUFFICES ASSUME c \in ReachedAvoiding(g, d) PROVE FALSE
  BY DEF Dominates
<1> DEFINE S == ReachedAvoiding(g, d) \cap ReachedAvoiding(g, a)
<1>1. S \in SUBSET Block /\ a \notin ReachedAvoiding(g, d)
  BY DEF ReachedAvoiding, Dominates
<1>2. g.entry # d => g.entry \in S
  BY <1>1, EntryAvoiding
<1>3. \A e \in S : g.succ[e] \ {d} \subseteq S
  BY <1>1, AvoidingClosed
<1>4. c \in S
  BY <1>1, <1>2, <1>3 DEF ReachedAvoiding
<1> QED
  BY <1>4 DEF Dominates

\* The dominators of a block are in a row.
LEMMA DominanceLinear ==
  ASSUME NEW g, IsGraph(g), NEW a \in Block, NEW c \in Block, NEW b,
         Dominates(g, a, b), Dominates(g, c, b)
  PROVE  Dominates(g, a, c) \/ Dominates(g, c, a)
<1> SUFFICES ASSUME ~Dominates(g, a, c), ~Dominates(g, c, a) PROVE FALSE
  OBVIOUS
<1> DEFINE T == ReachedAvoiding(g, a) \cup ReachedAvoiding(g, c)
<1>1. c \in ReachedAvoiding(g, a) /\ a \in ReachedAvoiding(g, c) /\ a # c
  BY DominatorReached, DominanceReflexive DEF Dominates
<1>2. T \in SUBSET Block /\ g.entry \in T
  BY <1>1, EntryAvoiding DEF ReachedAvoiding
<1>3. \A e \in T : g.succ[e] \subseteq T
  BY <1>1, AvoidingClosed
<1>4. b \in T
  BY <1>2, <1>3, ReachedLeast DEF Dominates
<1> QED
  BY <1>4 DEF Dominates

\* Among sets of blocks there is one that has no other inside it.
LEMMA MinimalSet ==
  ASSUME NEW I \in SUBSET SUBSET Block, I # {}
  PROVE  \E x \in I : \A y \in I : y \subseteq x => y = x
<1>1. \A x \in SUBSET Block : IsFiniteSet(x)
  BY BlockAssumption, FS_Subset
<1>2. I \subseteq FiniteSubsetsOf(Block)
  BY <1>1, Zenon DEF FiniteSubsetsOf
<1>3. PICK x \in I : \A y \in I : <<y, x>> \notin StrictSubsetOrdering(Block)
  BY <1>2, FS_StrictSubsetOrderingWellFounded, WFMin
<1> QED
  BY <1>3 DEF StrictSubsetOrdering

Doms(g, b) == {d \in Block : Dominates(g, d, b)}

LEMMA DomsOfDominator ==
  ASSUME NEW g, IsGraph(g), NEW a \in Block, NEW b \in Block, StrictlyDominates(g, a, b)
  PROVE  Doms(g, a) \subseteq Doms(g, b) /\ b \in Doms(g, b) /\ b \notin Doms(g, a)
<1>1. Doms(g, a) \subseteq Doms(g, b)
  BY DominanceTransitive DEF Doms, StrictlyDominates
<1>2. b \in Doms(g, b)
  BY DominanceReflexive DEF Doms, StrictlyDominates, Dominates
<1>3. b \notin Doms(g, a)
  BY DominanceAntisymmetric DEF Doms, StrictlyDominates
<1> QED
  BY <1>1, <1>2, <1>3

\* Every reachable block but the entry has a parent in the tree: of its strict
\* dominators the one with the most dominators.
LEMMA HasParent ==
  ASSUME NEW g, IsGraph(g), NEW b \in Reached(g), b # g.entry
  PROVE  \E a \in Block : b \in Children(g, a)
<1> DEFINE SD == {a \in Block : StrictlyDominates(g, a, b)}
           I == {Block \ Doms(g, a) : a \in SD}
<1>1. b \in Block
  BY DEF Reached
<1>2. g.entry \in SD
  <2>1. b \notin ReachedAvoiding(g, g.entry)
    <3> DEFINE S == {}
    <3>1. S \in SUBSET Block /\ b \notin S /\ \A c \in S : g.succ[c] \ {g.entry} \subseteq S
      OBVIOUS
    <3> HIDE DEF S
    <3> QED
      BY <3>1 DEF ReachedAvoiding
  <2> QED
    BY <2>1 DEF StrictlyDominates, Dominates, IsGraph
<1>3. I \in SUBSET SUBSET Block /\ I # {}
  BY <1>2
<1> HIDE DEF I
<1>4. PICK x \in I : \A y \in I : y \subseteq x => y = x
  BY <1>3, MinimalSet
<1>5. PICK a \in SD : x = Block \ Doms(g, a)
  BY DEF I
<1>6. ASSUME NEW c \in Block, StrictlyDominates(g, c, b), ~Dominates(g, c, a)
      PROVE  FALSE
  <2>1. Dominates(g, a, c) /\ a # c
    BY <1>5, <1>6, DominanceLinear, DominatorReached, DominanceReflexive DEF StrictlyDominates
  <2>2. Doms(g, a) \subseteq Doms(g, c) /\ c \in Doms(g, c) /\ c \notin Doms(g, a)
    BY <1>5, <2>1, DomsOfDominator DEF StrictlyDominates
  <2>3. Block \ Doms(g, c) \in I
    BY <1>6 DEF I
  <2>4. Block \ Doms(g, c) = Block \ Doms(g, a)
    BY <1>4, <1>5, <2>2, <2>3
  <2> QED
    BY <1>6, <2>2, <2>4
<1>7. IsIdom(g, a, b)
  BY <1>5, <1>6 DEF IsIdom
<1> QED
  BY <1>1, <1>5, <1>7 DEF Children

\* What holds the entry and the children of its members holds every reachable block.
LEMMA TreeSpansReached ==
  ASSUME NEW g, IsGraph(g), NEW P, g.entry \in P,
         \A a \in P \cap Block : Children(g, a) \subseteq P
  PROVE  Reached(g) \subseteq P
<1> DEFINE U == Reached(g) \ P
           I == {Doms(g, b) : b \in U}
<1> SUFFICES ASSUME U # {} PROVE FALSE
  OBVIOUS
<1>1. U \subseteq Block
  BY DEF Reached
<1>2. I \in SUBSET SUBSET Block /\ I # {}
  BY DEF Doms
<1> HIDE DEF I, U
<1>3. PICK x \in I : \A y \in I : y \subseteq x => y = x
  BY <1>2, MinimalSet
<1>4. PICK b \in U : x = Doms(g, b)
  BY DEF I
<1>5. PICK a \in Block : b \in Children(g, a)
  BY <1>4, HasParent DEF U
<1>6. StrictlyDominates(g, a, b) /\ a \in Reached(g) /\ b \in Block
  BY <1>1, <1>5, DominatorReached DEF Children, IsIdom, StrictlyDominates
<1>7. Doms(g, a) \subseteq Doms(g, b) /\ b \in Doms(g, b) /\ b \notin Doms(g, a)
  BY <1>6, DomsOfDominator
<1>8. a \notin U
  BY <1>3, <1>4, <1>7 DEF I
<1> QED
  BY <1>4, <1>5, <1>6, <1>8 DEF U
-----------------------------------------------------------------------------
(* The inductive invariant.                                                *)

\* Every block met but the entry was met as a child of a block popped.
MetFromParent ==
  \A b \in DOMAIN result_map : b # fn.entry =>
    \E a \in processed : b \in Children(fn, a)

Inv ==
  /\ fn \in Functions
  /\ dominator_tree = [b \in Block |-> Children(fn, b)]
  /\ TypeOK
  /\ fn.entry \in DOMAIN result_map
  /\ \A k \in DOMAIN basic_blocks_to_process : basic_blocks_to_process[k] \in DOMAIN result_map
  /\ MetFromParent
  /\ OnlyIdomValues

LEMMA FunctionIsGraph ==
  ASSUME NEW f \in Functions
  PROVE  IsGraph(f) /\ f.args \subseteq IntValue /\ f.defs \in [Block -> SUBSET IntValue]
BY FunctionsAssumption DEF WellFormed, IsGraph

\* A listing of a set of blocks is a sequence of them.
LEMMA OrdersAreSeqs ==
  ASSUME NEW S \in SUBSET Block, NEW s \in Orders(S)
  PROVE  s \in Seq(S)
<1>1. IsFiniteSet(S)
  BY BlockAssumption, FS_Subset
<1>2. Cardinality(S) \in Nat
  BY <1>1, FS_CardinalityType
<1> QED
  BY <1>2 DEF Orders

LEMMA InitInv == Init => Inv
<1> SUFFICES ASSUME Init PROVE Inv
  OBVIOUS
<1>1. fn \in Functions /\ IsGraph(fn) /\ fn.args \subseteq IntValue
  BY FunctionIsGraph DEF Init
<1>2. fn.entry \in Block
  BY <1>1 DEF IsGraph
<1>3. TypeOK
  BY <1>1, <1>2 DEF Init, TypeOK, Children
<1> QED
  BY <1>1, <1>2, <1>3 DEF Init, Inv, MetFromParent, OnlyIdomValues

\* One turn of the loop.  A child met before was met from the same parent, so the
\* values added are the ones it has.
LEMMA StepInv == Inv /\ ProcessNode => Inv'
<1> SUFFICES ASSUME Inv, ProcessNode PROVE Inv'
  OBVIOUS
<1> DEFINE deque == basic_blocks_to_process
           parent == Last(deque)
           kids == Children(fn, parent)
<1>1. /\ fn \in Functions /\ dominator_tree = [b \in Block |-> Children(fn, b)]
      /\ TypeOK /\ fn.entry \in DOMAIN result_map /\ MetFromParent /\ OnlyIdomValues
      /\ \A k \in DOMAIN deque : deque[k] \in DOMAIN result_map
  BY DEF Inv
<1>2. IsGraph(fn) /\ fn.entry \in Block /\ fn.defs \in [Block -> SUBSET IntValue]
  BY <1>1, FunctionIsGraph DEF IsGraph
<1>3. /\ deque \in Seq(Block) /\ deque # << >> /\ Len(deque) \in Nat /\ Len(deque) \in DOMAIN deque
      /\ parent \in Block /\ parent \in DOMAIN result_map
  BY <1>1 DEF TypeOK, ProcessNode, Last
<1>4. kids \subseteq Block /\ dominator_tree[parent] = kids
  BY <1>1, <1>3 DEF Children
<1>5. PICK pushed \in Orders(kids) : deque' = Front(deque) \o pushed
  BY <1>4 DEF ProcessNode, AfterPop
<1>6. /\ DOMAIN result_map' = DOMAIN result_map \cup kids
      /\ \A b \in DOMAIN result_map \ kids : result_map'[b] = result_map[b]
      /\ \A b \in kids : result_map'[b] = IF b \in DOMAIN result_map
                                           THEN result_map[b] \cup fn.defs[parent]
                                           ELSE fn.defs[parent]
      /\ processed' = processed \cup {parent}
      /\ UNCHANGED <<fn, dominator_tree>>
  BY <1>4 DEF ProcessNode, WithChildren
<1>7. deque' \in Seq(Block) /\ \A k \in DOMAIN deque' : deque'[k] \in DOMAIN result_map'
  <2>1. pushed \in Seq(kids)
    BY <1>4, OrdersAreSeqs
  <2>2. /\ Front(deque) \in Seq(Block)
        /\ \A k \in DOMAIN Front(deque) : k \in DOMAIN deque /\ Front(deque)[k] = deque[k]
    BY <1>3 DEF Front
  <2> HIDE DEF deque, kids
  <2>3. \A k \in DOMAIN Front(deque) : Front(deque)[k] \in DOMAIN result_map
    BY <1>1, <2>2
  <2>4. \A k \in DOMAIN pushed : pushed[k] \in kids
    BY <2>1
  <2> QED
    BY <1>4, <1>5, <1>6, <2>1, <2>2, <2>3, <2>4
<1> HIDE DEF deque, kids, parent
\* What a child had before, it had from this parent.
<1>8. ASSUME NEW b \in kids
      PROVE  b # fn.entry /\ result_map'[b] = fn.defs[parent]
  <2>1. b # fn.entry
    BY <1>2, <1>3, <1>8, EntryIsRoot DEF kids
  <2>2. CASE b \in DOMAIN result_map
    <3>1. PICK a \in processed : b \in Children(fn, a)
      BY <1>1, <2>1, <2>2 DEF MetFromParent
    <3>2. a \in Block
      BY <1>1 DEF TypeOK
    <3>3. a = parent
      BY <1>2, <1>3, <1>8, <3>1, <3>2, OneParent DEF kids
    <3>4. result_map[b] = fn.defs[parent]
      BY <1>1, <3>1, <3>2, <3>3 DEF OnlyIdomValues
    <3> QED
      BY <1>6, <2>1, <3>4
  <2> QED
    BY <1>6, <2>1, <2>2
<1>9. TypeOK'
  <2>1. ASSUME NEW b \in DOMAIN result_map'
        PROVE  b \in Block /\ result_map'[b] \subseteq IntValue
    <3>1. CASE b \in kids
      BY <1>2, <1>3, <1>4, <1>8, <3>1
    <3>2. CASE b \notin kids
      BY <1>1, <1>6, <3>2 DEF TypeOK
    <3> QED
      BY <3>1, <3>2
  <2> QED
    BY <1>1, <1>3, <1>6, <1>7, <2>1 DEF TypeOK, deque
<1>10. MetFromParent'
  BY <1>1, <1>6 DEF MetFromParent, kids
<1>11. OnlyIdomValues'
  <2>1. result_map'[fn.entry] = fn.args
    BY <1>1, <1>6, <1>8 DEF OnlyIdomValues
  <2>2. ASSUME NEW a \in processed', NEW b \in Children(fn, a)
        PROVE  b \in DOMAIN result_map' /\ result_map'[b] = fn.defs[a]
    <3>1. CASE b \in kids
      <4>1. a \in Block
        BY <1>1, <1>3, <1>6 DEF TypeOK
      <4>2. a = parent
        BY <1>2, <1>3, <2>2, <3>1, <4>1, OneParent DEF kids
      <4> QED
        BY <1>6, <1>8, <3>1, <4>2
    <3>2. CASE b \notin kids
      <4>1. a \in processed /\ a \in Block
        BY <1>1, <1>6, <2>2, <3>2 DEF kids, TypeOK
      <4>2. b \in DOMAIN result_map /\ result_map[b] = fn.defs[a]
        BY <1>1, <2>2, <4>1 DEF OnlyIdomValues
      <4> QED
        BY <1>6, <3>2, <4>2
    <3> QED
      BY <3>1, <3>2
  <2>3. ASSUME NEW a \in processed'
        PROVE  dominator_tree'[a] = Children(fn, a)
    BY <1>1, <1>3, <1>6 DEF TypeOK
  <2> QED
    BY <1>6, <2>1, <2>2, <2>3 DEF OnlyIdomValues
<1> QED
  BY <1>1, <1>6, <1>7, <1>9, <1>10, <1>11 DEF Inv, deque

LEMMA Invariance == Spec => []Inv
<1>1. Inv /\ [Next]_vars => Inv'
  <2> SUFFICES ASSUME Inv, [Next]_vars PROVE Inv'
    OBVIOUS
  <2>1. CASE ProcessNode
    BY <2>1, StepInv
  <2>2. CASE UNCHANGED vars
    BY <2>2 DEF vars, Inv, TypeOK, MetFromParent, OnlyIdomValues
  <2> QED
    BY <2>1, <2>2 DEF Next, Terminating
<1> QED
  BY <1>1, InitInv, PTL DEF Spec

\* Type correctness: the deque holds nodes of the tree, and blocks are popped only
\* after they have a set of RIVs (lines 70-95).
THEOREM TypeCorrect == Spec => []TypeOK
<1>1. Inv => TypeOK
  BY DEF Inv
<1> QED
  BY <1>1, Invariance, PTL

\* Whatever order the tree lists children in, the RIVs of a block met are exactly
\* the integer values of its parent in the tree.
THEOREM RivsAreIdomValues == Spec => []OnlyIdomValues
<1>1. Inv => OnlyIdomValues
  BY DEF Inv
<1> QED
  BY <1>1, Invariance, PTL

\* A context value taken from the RIVs of a block is available at its head.
THEOREM RivsSound == Spec => []RivsAvailable
<1>1. Inv => RivsAvailable
  <2> SUFFICES ASSUME Inv, NEW b \in DOMAIN result_map, NEW v \in result_map[b]
               PROVE  v \in fn.args \/ \E a \in Block : StrictlyDominates(fn, a, b) /\ v \in fn.defs[a]
    BY DEF RivsAvailable
  <2>1. CASE b = fn.entry
    BY <2>1 DEF Inv, OnlyIdomValues
  <2>2. CASE b # fn.entry
    <3>1. PICK a \in processed : b \in Children(fn, a)
      BY <2>2 DEF Inv, MetFromParent
    <3>2. a \in Block /\ dominator_tree[a] = Children(fn, a)
      BY DEF Inv, TypeOK
    <3>3. result_map[b] = fn.defs[a] /\ StrictlyDominates(fn, a, b)
      BY <3>1, <3>2 DEF Inv, OnlyIdomValues, Children, IsIdom
    <3> QED
      BY <3>2, <3>3
  <2> QED
    BY <2>1, <2>2
<1> QED
  BY <1>1, Invariance, PTL
-----------------------------------------------------------------------------
(* The end of the walk.                                                    *)

\* A block met is reachable, and is still on the deque or was popped.
Walk ==
  /\ DOMAIN result_map \subseteq Reached(fn)
  /\ \A b \in DOMAIN result_map :
       b \in processed \/ \E k \in DOMAIN basic_blocks_to_process : basic_blocks_to_process[k] = b

WInv == Inv /\ Walk

LEMMA Init_WInv == Init => WInv
<1> SUFFICES ASSUME Init PROVE WInv
  OBVIOUS
<1>1. fn.entry \in Reached(fn)
  BY FunctionIsGraph DEF Init, IsGraph, Reached
<1>2. Walk
  BY <1>1 DEF Init, Walk
<1> QED
  BY <1>2, InitInv DEF WInv

LEMMA FrontOfSeq ==
  ASSUME NEW s \in Seq(Block), s # << >>
  PROVE  /\ Front(s) \in Seq(Block) /\ Len(Front(s)) = Len(s) - 1
         /\ \A k \in 1 .. Len(s) - 1 : Front(s)[k] = s[k]
<1> DEFINE n == Len(s) - 1
<1>1. n \in Nat /\ n <= Len(s) /\ \A k \in 1 .. n : s[k] \in Block
  OBVIOUS
<1>2. Front(s) = SubSeq(s, 1, n)
  BY DEF Front
<1> HIDE DEF n
<1>3. SubSeq(s, 1, n) \in Seq(Block) /\ Len(SubSeq(s, 1, n)) = n
      /\ \A k \in 1 .. n : SubSeq(s, 1, n)[k] = s[k]
  BY <1>1
<1> QED
  BY <1>2, <1>3 DEF n

LEMMA Step_Walk ==
  ASSUME WInv, ProcessNode
  PROVE  Walk'
<1> DEFINE deque == basic_blocks_to_process
           parent == Last(deque)
           kids == Children(fn, parent)
<1>1. dominator_tree = [b \in Block |-> Children(fn, b)] /\ TypeOK
  BY DEF WInv, Inv
<1>2. deque \in Seq(Block) /\ deque # << >> /\ Len(deque) \in Nat \ {0} /\ parent \in Block
      /\ parent = deque[Len(deque)]
  BY <1>1 DEF TypeOK, ProcessNode, Last
<1>3. kids \subseteq Block /\ dominator_tree[parent] = kids /\ kids \subseteq Reached(fn)
  BY <1>1, <1>2 DEF Children, IsIdom, StrictlyDominates, Dominates
<1>4. PICK pushed \in Orders(kids) : deque' = Front(deque) \o pushed
  BY <1>3 DEF ProcessNode, AfterPop
<1>5. /\ DOMAIN result_map' = DOMAIN result_map \cup kids
      /\ processed' = processed \cup {parent} /\ fn' = fn
  BY <1>3 DEF ProcessNode, WithChildren
<1>6. /\ Front(deque) \in Seq(Block) /\ Len(Front(deque)) = Len(deque) - 1
      /\ \A k \in 1 .. Len(deque) - 1 : Front(deque)[k] = deque[k]
  BY <1>2, FrontOfSeq
<1>7. pushed \in Seq(kids) /\ \A b \in kids : \E k \in DOMAIN pushed : pushed[k] = b
  BY <1>3, OrdersAreSeqs DEF Orders
<1> HIDE DEF deque, kids, parent
<1>8. ASSUME NEW b \in DOMAIN result_map'
      PROVE  b \in processed' \/ \E k \in DOMAIN deque' : deque'[k] = b
  <2>1. CASE b \in kids
    <3>1. PICK k \in DOMAIN pushed : pushed[k] = b
      BY <1>7, <2>1
    <3>2. Len(deque) - 1 + k \in DOMAIN deque' /\ deque'[Len(deque) - 1 + k] = b
      BY <1>2, <1>4, <1>6, <1>7, <3>1
    <3> QED
      BY <3>2
  <2>2. CASE b \notin kids
    <3>1. b \in DOMAIN result_map
      BY <1>5, <2>2
    <3>2. b \in processed \/ \E k \in DOMAIN deque : deque[k] = b
      BY <3>1 DEF WInv, Walk, deque
    <3>3. ASSUME NEW k \in DOMAIN deque, deque[k] = b, k # Len(deque)
          PROVE  k \in DOMAIN deque' /\ deque'[k] = b
      BY <1>2, <1>4, <1>6, <1>7, <3>3
    <3> QED
      BY <1>2, <1>5, <3>2, <3>3
  <2> QED
    BY <2>1, <2>2
<1> QED
  BY <1>3, <1>5, <1>8 DEF WInv, Walk, deque

LEMMA WalkInvariance == Spec => []WInv
<1>1. WInv /\ [Next]_vars => WInv'
  <2> SUFFICES ASSUME WInv, [Next]_vars PROVE WInv'
    OBVIOUS
  <2>1. CASE ProcessNode
    BY <2>1, StepInv, Step_Walk DEF WInv
  <2>2. CASE UNCHANGED vars
    BY <2>2 DEF vars, WInv, Walk, Inv, TypeOK, MetFromParent, OnlyIdomValues
  <2> QED
    BY <2>1, <2>2 DEF Next, Terminating
<1> QED
  BY <1>1, Init_WInv, PTL DEF Spec

\* When the deque is empty the walk has been to every reachable block, whatever the
\* graph and the order of the children, and to no other (lines 79-95).
THEOREM WalkIsComplete == Spec => []AllBlocksMet
<1>1. WInv => AllBlocksMet
  <2> SUFFICES ASSUME WInv, basic_blocks_to_process = << >>
               PROVE  processed = Reached(fn) /\ DOMAIN result_map = Reached(fn)
    BY DEF AllBlocksMet
  <2>1. IsGraph(fn) /\ processed \subseteq DOMAIN result_map /\ processed \subseteq Block
    BY FunctionIsGraph DEF WInv, Inv, TypeOK
  <2>2. DOMAIN result_map = processed
    BY <2>1 DEF WInv, Walk
  <2>3. \A a \in processed \cap Block : Children(fn, a) \subseteq processed
    BY <2>1, <2>2 DEF WInv, Inv, OnlyIdomValues
  <2>4. Reached(fn) \subseteq processed
    BY <2>1, <2>2, <2>3, TreeSpansReached DEF WInv, Inv
  <2> QED
    BY <2>2, <2>4 DEF WInv, Walk
<1> QED
  BY <1>1, WalkInvariance, PTL
=============================================================================
