-------------------------------- MODULE Riv --------------------------------
(***************************************************************************)
(* BuildRiv of src/llvm-tutor/riv/riv.cc (and the copy of it in            *)
(* src/llvm-tutor/duplicate_bb/duplicate_bb.cc): the reachable integer     *)
(* values (RIVs) of every block of a function, gathered by a walk down its *)
(* dominator tree with a deque used as a stack.                            *)
(***************************************************************************)
EXTENDS Dominators, Integers, FiniteSets, SequencesExt

CONSTANTS
  IntValue,    \* the values of integer type
  Functions    \* the functions analysed

\* defs[b]: the integer instructions of b; args: the integer arguments.  The
\* globals add nothing: the type of a GlobalVariable is a pointer.  No block ends in
\* an invoke with an integer value, which is not there on all the ways out of the
\* block (DuplicateBB.tla has them).
WellFormed(f) ==
  /\ f.entry \in Block
  /\ f.succ \in [Block -> SUBSET (Block \ {f.entry})]
  /\ f.defs \in [Block -> SUBSET IntValue]
  /\ f.args \subseteq IntValue

ASSUME BlockAssumption == IsFiniteSet(Block)

ASSUME FunctionsAssumption == \A f \in Functions : WellFormed(f)

VARIABLES
  fn,                        \* the function
  dominator_tree,            \* the children of each block, as built by RunOnFunction
  basic_blocks_to_process,   \* the deque: nodes of the dominator tree
  result_map,                \* block |-> the set of its RIVs, for the blocks met
  processed                  \* history: the blocks popped

vars == <<fn, dominator_tree, basic_blocks_to_process, result_map, processed>>

\* Lists one block only.
Orders_bug(S) == {<<b>> : b \in S} \cup {<< >>}

\* The blocks of S in some order, each once.
Orders(S) == {s \in [1 .. Cardinality(S) -> S] : \A b \in S : \E k \in DOMAIN s : s[k] = b}

\* STEP 1 and STEP 2: the entry starts with the integer arguments.
Init ==
  /\ fn \in Functions
  /\ dominator_tree = [b \in Block |-> Children(fn, b)]
  /\ basic_blocks_to_process = <<fn.entry>>
  /\ result_map = [b \in {fn.entry} |-> fn.args]
  /\ processed = {}

\* What the comments of the loop describe: parent_rivs goes to the children too.
WithChildren_bug(parent) ==
  [b \in DOMAIN result_map \cup dominator_tree[parent] |->
     IF b \in dominator_tree[parent] THEN fn.defs[parent] \cup result_map[parent]
                                     ELSE result_map[b]]

\* Takes the successors in the control-flow graph for the children in the tree.
WithChildren_succ(parent) ==
  LET rivs(b) == IF b \in DOMAIN result_map THEN result_map[b] ELSE {}
  IN  [b \in DOMAIN result_map \cup fn.succ[parent] |->
         IF b \in fn.succ[parent] THEN rivs(b) \cup fn.defs[parent] ELSE result_map[b]]

\* The RIVs after the loop over the children of parent.  Both insert calls of the
\* loop add the same set, parent_defs; parent_rivs is copied and not used.
WithChildren(parent) ==
  LET parent_defs == fn.defs[parent]
      rivs(b) == IF b \in DOMAIN result_map THEN result_map[b] ELSE {}
  IN  [b \in DOMAIN result_map \cup dominator_tree[parent] |->
         IF b \in dominator_tree[parent] THEN rivs(b) \cup parent_defs \cup parent_defs
                                         ELSE result_map[b]]

\* back() without pop_back().
AfterPop_bug(deque) == deque

AfterPop(deque) == Front(deque)

\* STEP 3, one turn of the loop: pop a node, push its children in the order the
\* tree lists them, and give them values.
ProcessNode ==
  /\ basic_blocks_to_process # << >>
  /\ LET parent == Last(basic_blocks_to_process) IN
     /\ \E pushed \in Orders(dominator_tree[parent]) :
          basic_blocks_to_process' = AfterPop(basic_blocks_to_process) \o pushed
     /\ result_map' = WithChildren(parent)
     /\ processed' = processed \cup {parent}
  /\ UNCHANGED <<fn, dominator_tree>>

Terminating == basic_blocks_to_process = << >> /\ UNCHANGED vars

Next == ProcessNode \/ Terminating

Spec == Init /\ [][Next]_vars
FairSpec == Spec /\ WF_vars(ProcessNode)
-----------------------------------------------------------------------------
(* Properties.                                                             *)

TypeOK ==
  /\ dominator_tree \in [Block -> SUBSET Block]
  /\ basic_blocks_to_process \in Seq(Block)
  /\ DOMAIN result_map \subseteq Block
  /\ \A b \in DOMAIN result_map : result_map[b] \subseteq IntValue
  /\ processed \subseteq DOMAIN result_map

\* A value is a RIV of a block only if it is available where the block starts, on
\* whatever path the block is reached: an argument, or defined in a block that
\* strictly dominates it.  duplicate_bb.cc inserts a test of a RIV at the head of
\* the block and relies on it.
RivsAvailable ==
  \A b \in DOMAIN result_map : \A v \in result_map[b] :
    v \in fn.args \/ \E a \in Block : StrictlyDominates(fn, a, b) /\ v \in fn.defs[a]

\* What the loop computes, in whatever order the nodes are popped: the RIVs of a
\* block are the values of its immediate dominator and no others; the entry alone
\* has the arguments.
OnlyIdomValues ==
  /\ result_map[fn.entry] = fn.args
  /\ \A a \in processed : \A b \in dominator_tree[a] :
       b \in DOMAIN result_map /\ result_map[b] = fn.defs[a]

\* When the deque is empty every reachable block has been popped and has a set of
\* RIVs; unreachable blocks have none.
AllBlocksMet ==
  basic_blocks_to_process = << >> =>
    processed = Reached(fn) /\ DOMAIN result_map = Reached(fn)

\* The deque runs empty: no node is ever pushed again once it was popped.
EventuallyEmpty == <>(basic_blocks_to_process = << >>)
=============================================================================
