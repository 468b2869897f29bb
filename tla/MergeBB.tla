------------------------------ MODULE MergeBB ------------------------------
(***************************************************************************)
(* The block de-duplication pass src/llvm-tutor/merge_bb/merge_bb.cc, run  *)
(* on one function of a module: RunOnFunction walks the blocks in layout   *)
(* order, redirects every edge into a duplicated block to its duplicate,   *)
(* collects the duplicated blocks in `delete_list', erases them after the  *)
(* walk, and main accepts the module only if verifyModule does.            *)
(*                                                                         *)
(* A block is its non-debug, non-terminator instructions (the pass skips   *)
(* debug intrinsics everywhere) and a terminator.  An operand is an        *)
(* instruction or a leaf: an argument or a constant.                       *)
(***************************************************************************)
EXTENDS Integers, Sequences, FiniteSets

CONSTANTS
  Block,       \* the basic blocks of the function
  Inst,        \* its instructions, terminators excepted
  Leaf,        \* arguments and constants
  Functions,   \* the functions the pass is run on
  Builds       \* how the tool is built: with "assert" and/or with "ndebug"

Val == Inst \cup Leaf

(***************************************************************************)
(* A function of the input.  `incoming[p]' lists the <<block, value>>      *)
(* entries of the PHI p; `opnd[i]' the operands of any other instruction;  *)
(* `topnd[b]' the non-block operands of b's terminator.  `op[i]' stands    *)
(* for all that Instruction::isSameOperationAs compares: opcode, types and *)
(* special state.  "other" is any terminator but br and switch.            *)
(***************************************************************************)
Kinds == {"br", "condbr", "switch", "other"}

Shape == [order    : Seq(Block),
          kind     : [Block -> Kinds],
          targets  : [Block -> Seq(Block)],
          body     : [Block -> Seq(Inst)],
          phi      : SUBSET Inst,
          op       : [Inst -> STRING],
          opnd     : [Inst -> Seq(Val)],
          incoming : [Inst -> Seq(Block \X Val)],
          topnd    : [Block -> Seq(Val)]]

\* How many edges lead from b to s in the target lists t.
NumEdges(t, b, s) == Cardinality({k \in DOMAIN t[b] : t[b][k] = s})

\* The positions of the entries for the block b of the PHI p.
EntriesIn(inc, p, b) == {k \in DOMAIN inc[p] : inc[p][k][1] = b}

\* What parseIRFile lets through: it verifies the module it reads.
WellFormed(f) ==
  /\ f.order # << >>
  /\ \A b \in Block : \E n \in DOMAIN f.order : f.order[n] = b
  /\ \A m, n \in DOMAIN f.order : f.order[m] = f.order[n] => m = n
  /\ \A b \in Block : f.kind[b] = "br" => Len(f.targets[b]) = 1 /\ f.topnd[b] = << >>
  /\ \A b \in Block : \A k \in DOMAIN f.targets[b] : f.targets[b][k] # f.order[1]
  /\ \A b, c \in Block : \A m \in DOMAIN f.body[b], n \in DOMAIN f.body[c] :
       f.body[b][m] = f.body[c][n] => b = c /\ m = n
  /\ \A b \in Block : \A m, n \in DOMAIN f.body[b] :
       m < n /\ f.body[b][n] \in f.phi => f.body[b][m] \in f.phi
  /\ \A b, c \in Block : \A n \in DOMAIN f.body[b] : f.body[b][n] \in f.phi =>
       /\ Cardinality(EntriesIn(f.incoming, f.body[b][n], c)) = NumEdges(f.targets, c, b)
       /\ \A j, k \in EntriesIn(f.incoming, f.body[b][n], c) :
            f.incoming[f.body[b][n]][j] = f.incoming[f.body[b][n]][k]

ASSUME FunctionsAssumption ==
  /\ Inst \cap Leaf = {}
  /\ Builds \subseteq {"assert", "ndebug"}
  /\ \A f \in Functions : f \in Shape /\ WellFormed(f)

VARIABLES
  fn,           \* the function as it was read
  build,        \* whether assert is compiled in
  targets,      \* the block operands of the terminators
  incoming,     \* the entries of the PHIs, by position
  alive,        \* the blocks that are still in the function
  next,         \* the position, in layout order, of the walk of RunOnFunction
  delete_list,
  num_deduplicate_bbs,
  overall_num_of_updated_branch_targets,
  kept,         \* history: the block that now stands for each block read
  status

vars == <<fn, build, targets, incoming, alive, next, delete_list, num_deduplicate_bbs,
          overall_num_of_updated_branch_targets, kept, status>>

Outcomes == {"aborted", "undefined", "rejected", "written"}

-----------------------------------------------------------------------------
(* Reading the function.                                                   *)

Entry == fn.order[1]
Preds(b) == {c \in Block : \E k \in DOMAIN targets[c] : targets[c][k] = b}
Unconditional(b) == fn.kind[b] = "br"
Simple(b) == fn.kind[b] \in {"br", "condbr", "switch"}
Defines(b, v) == \E n \in DOMAIN fn.body[b] : fn.body[b][n] = v

Phis(b) == {fn.body[b][n] : n \in {m \in DOMAIN fn.body[b] : fn.body[b][m] \in fn.phi}}
HasPhi(b) == fn.body[b] # << >> /\ fn.body[b][1] \in fn.phi
MultiPhi(b) == Len(fn.body[b]) > 1 /\ fn.body[b][1] \in fn.phi /\ fn.body[b][2] \in fn.phi

\* PHINode::getIncomingValueForBlock.  All the entries for one block have the
\* same value.
ValueIn(inc, p, b) == inc[p][CHOOSE k \in EntriesIn(inc, p, b) : TRUE][2]
IncomingFor(p, b) == ValueIn(incoming, p, b)
Missing(b, c) == HasPhi(c) /\ EntriesIn(incoming, fn.body[c][1], b) = {}

Operands(i) == IF i \in fn.phi THEN [k \in DOMAIN incoming[i] |-> incoming[i][k][2]]
                               ELSE fn.opnd[i]

\* The uses of v, each the block, the position (0 for the terminator) and the
\* operand index of its user.
OperandsAt(b, n) == IF n = 0 THEN fn.topnd[b] ELSE Operands(fn.body[b][n])
UsesAt(v, b, n) ==
  {<<b, n, k>> : k \in {j \in DOMAIN OperandsAt(b, n) : OperandsAt(b, n)[j] = v}}
Uses(v) == UNION {UNION {UsesAt(v, b, n) : n \in 0 .. Len(fn.body[b])} : b \in Block}
HasOneUse(v) == \E u \in Uses(v) : Uses(v) = {u}

-----------------------------------------------------------------------------
(* Can two blocks be merged?                                               *)

\* The faults seeded in this module, each named after the definition it replaces
\* and ending in _bug, show that the properties below can fail.

CanRemoveInst_bug(i, b) == TRUE

\* `i' is an instruction of b with one use.  phi_node_use is cast from the used
\* value, i itself, not from its user.
CanRemoveInst(i, b) ==
  LET succ == targets[b][1]
      used_in_phi == i \in fn.phi /\ Defines(succ, i) /\ IncomingFor(i, b) = i
      same_parent_bb == \E u \in Uses(i) : u[1] = b
  IN  used_in_phi \/ same_parent_bb

CanMergeInstructions(i1, b1, i2, b2) ==
  /\ fn.op[i1] = fn.op[i2]
  /\ i1 \in fn.phi <=> i2 \in fn.phi
  /\ DOMAIN Operands(i1) = DOMAIN Operands(i2)
  /\ \/ Uses(i1) = {} /\ Uses(i2) = {}
     \/ /\ HasOneUse(i1) /\ HasOneUse(i2)
        /\ CanRemoveInst(i1, b1) /\ CanRemoveInst(i2, b2)
  /\ \A k \in DOMAIN Operands(i1) : Operands(i1)[k] = Operands(i2)[k]

NumInst(b) == Len(fn.body[b]) + 1

\* LockstepReverseIterator pairs the instructions from the last one backwards
\* and stops, valid no more, when either block runs out.
LockstepMatches(b1, b2) ==
  \A d \in 0 .. Len(fn.body[b1]) - 1 : d < Len(fn.body[b2]) =>
    CanMergeInstructions(fn.body[b1][Len(fn.body[b1]) - d], b1,
                         fn.body[b2][Len(fn.body[b2]) - d], b2)

\* The early returns of MergeDuplicatedBlock.
MayMerge(bb1) ==
  /\ bb1 # Entry
  /\ Unconditional(bb1)
  /\ \A b \in Preds(bb1) : Simple(b)
  /\ ~MultiPhi(targets[bb1][1])

\* Forgets to skip the blocks that are to be deleted.
Comparable_bug(bb1, bb2) ==
  /\ bb2 \in Preds(targets[bb1][1])
  /\ bb2 # Entry
  /\ Unconditional(bb2)
  /\ bb2 # bb1
  /\ NumInst(bb1) = NumInst(bb2)

\* Forgets to compare the sizes: the lockstep walk then compares a suffix.
Comparable_anysize(bb1, bb2) ==
  /\ bb2 \in Preds(targets[bb1][1])
  /\ bb2 # Entry
  /\ Unconditional(bb2)
  /\ bb2 \notin delete_list
  /\ bb2 # bb1

\* The predecessors of bb1's successor that the loop gets to compare with bb1.
\* The loop over their own predecessors continues only itself: it skips nothing.
Comparable(bb1, bb2) ==
  /\ bb2 \in Preds(targets[bb1][1])
  /\ bb2 # Entry
  /\ Unconditional(bb2)
  /\ bb2 \notin delete_list
  /\ bb2 # bb1
  /\ NumInst(bb1) = NumInst(bb2)

PhiValuesAgree_bug(bb1, bb2) == TRUE

PhiValuesAgree(bb1, bb2) ==
  LET succ == targets[bb1][1]
      pn   == fn.body[succ][1]
      v1   == IncomingFor(pn, bb1)
      v2   == IncomingFor(pn, bb2)
  IN  HasPhi(succ) => v1 = v2 \/ (Defines(bb1, v1) /\ Defines(bb2, v2))

Candidate(bb1, bb2) ==
  /\ MayMerge(bb1)
  /\ Comparable(bb1, bb2)
  /\ ~Missing(bb1, targets[bb1][1]) /\ ~Missing(bb2, targets[bb1][1])
  /\ PhiValuesAgree(bb1, bb2)
  /\ LockstepMatches(bb1, bb2)

-----------------------------------------------------------------------------
(* The walk.                                                               *)

Init ==
  /\ fn \in Functions
  /\ build \in Builds
  /\ targets = fn.targets
  /\ incoming = fn.incoming
  /\ alive = Block
  /\ next = 1
  /\ delete_list = {}
  /\ num_deduplicate_bbs = 0
  /\ overall_num_of_updated_branch_targets = 0
  /\ kept = [b \in Block |-> b]
  /\ status = "running"

Walking == status = "running" /\ next <= Len(fn.order)

\* Stops at the first operand that matches.
UpdateBranchTargets_bug(bb1, bb2) ==
  [b \in Block |-> [k \in DOMAIN targets[b] |->
     IF targets[b][k] = bb1 /\ \A j \in 1 .. k - 1 : targets[b][j] # bb1
     THEN bb2 ELSE targets[b][k]]]

\* Drops the edges instead of redirecting them.
UpdateBranchTargets_drop(bb1, bb2) ==
  [b \in Block |-> SelectSeq(targets[b], LAMBDA s : s # bb1)]

\* Setting, in every terminator, the operands equal to bb1 to bb2.
UpdateBranchTargets(bb1, bb2) ==
  [b \in Block |-> [k \in DOMAIN targets[b] |->
                      IF targets[b][k] = bb1 THEN bb2 ELSE targets[b][k]]]

\* How many operands that changes.
UpdatedTargets(bb1) ==
  Cardinality(UNION {{b} \X {k \in DOMAIN targets[b] : targets[b][k] = bb1} : b \in Block})

\* The assertion of merge_bb.cc:192 on the number of operands changed.
UpdateAsserted(bb1) == build = "assert" => UpdatedTargets(bb1) # 0

\* MergeDuplicatedBlock finds a duplicate bb2 of the block the walk is at, in
\* whatever order the predecessors of the successor come.
MergeBlock ==
  /\ Walking
  /\ LET bb1 == fn.order[next] IN
     /\ UpdateAsserted(bb1)
     /\ \E bb2 \in Block :
          /\ Candidate(bb1, bb2)
          /\ targets' = UpdateBranchTargets(bb1, bb2)
          /\ kept' = [b \in Block |-> IF kept[b] = bb1 THEN bb2 ELSE kept[b]]
     /\ overall_num_of_updated_branch_targets' =
          overall_num_of_updated_branch_targets + UpdatedTargets(bb1)
     /\ delete_list' = delete_list \cup {bb1}
  /\ num_deduplicate_bbs' = num_deduplicate_bbs + 1
  /\ next' = next + 1
  /\ UNCHANGED <<fn, build, incoming, alive, status>>

\* It finds one, but no edge leads to the block.
AssertionFails ==
  /\ Walking
  /\ ~UpdateAsserted(fn.order[next])
  /\ \E bb2 \in Block : Candidate(fn.order[next], bb2)
  /\ status' = "aborted"
  /\ UNCHANGED <<fn, build, targets, incoming, alive, next, delete_list,
                 num_deduplicate_bbs, overall_num_of_updated_branch_targets, kept>>

\* No predecessor of the successor is a duplicate of the block.
KeepBlock ==
  /\ Walking
  /\ LET bb1 == fn.order[next] IN
       MayMerge(bb1) => /\ ~Missing(bb1, targets[bb1][1])
                        /\ \A bb2 \in Block : /\ ~Candidate(bb1, bb2)
                                              /\ Comparable(bb1, bb2) =>
                                                   ~Missing(bb2, targets[bb1][1])
  /\ next' = next + 1
  /\ UNCHANGED <<fn, build, targets, incoming, alive, delete_list, num_deduplicate_bbs,
                 overall_num_of_updated_branch_targets, kept, status>>

\* getIncomingValueForBlock for a block the PHI has no entry for: the PHIs of a
\* retained block were not given the edges it took over.
ReadMissingEntry ==
  /\ Walking
  /\ LET bb1 == fn.order[next] IN
     /\ MayMerge(bb1)
     /\ \/ Missing(bb1, targets[bb1][1])
        \/ \E bb2 \in Block : Comparable(bb1, bb2) /\ Missing(bb2, targets[bb1][1])
  /\ status' = "undefined"
  /\ UNCHANGED <<fn, build, targets, incoming, alive, next, delete_list,
                 num_deduplicate_bbs, overall_num_of_updated_branch_targets, kept>>

-----------------------------------------------------------------------------
(* After the walk.                                                         *)

\* BasicBlock::removePredecessor(bb) on the successor of bb: drop bb's entry of
\* every PHI.  A deleted block ends in br, so it has one edge and one entry.
WithoutPredecessor(bb) ==
  [p \in Inst |-> IF p \in Phis(targets[bb][1])
                  THEN [k \in DOMAIN incoming[p] \ EntriesIn(incoming, p, bb) |-> incoming[p][k]]
                  ELSE incoming[p]]

\* DeleteDeadBlock: llvm requires that nothing reaches bb and that the PHIs of
\* its successor have an entry for it.
DeleteBlock ==
  /\ status = "running"
  /\ next > Len(fn.order)
  /\ \E bb \in delete_list \cap alive :
       /\ alive' = alive \ {bb}
       /\ IF \/ Preds(bb) \cap alive # {}
             \/ \E p \in Phis(targets[bb][1]) : EntriesIn(incoming, p, bb) = {}
          THEN status' = "undefined" /\ UNCHANGED incoming
          ELSE incoming' = WithoutPredecessor(bb) /\ UNCHANGED status
  /\ UNCHANGED <<fn, build, targets, next, delete_list, num_deduplicate_bbs,
                 overall_num_of_updated_branch_targets, kept>>

\* What verifyModule can find wrong after this pass: a PHI whose entries are not
\* its block's predecessors, one for each edge.
PhisMatchEdges ==
  \A s \in alive : \A p \in Phis(s) : \A b \in Block :
    Cardinality(EntriesIn(incoming, p, b)) =
      IF b \in alive THEN NumEdges(targets, b, s) ELSE 0

Verify ==
  /\ status = "running"
  /\ next > Len(fn.order)
  /\ delete_list \cap alive = {}
  /\ status' = IF PhisMatchEdges THEN "written" ELSE "rejected"
  /\ UNCHANGED <<fn, build, targets, incoming, alive, next, delete_list,
                 num_deduplicate_bbs, overall_num_of_updated_branch_targets, kept>>

Terminating == status \in Outcomes /\ UNCHANGED vars

Next ==
  \/ MergeBlock
  \/ AssertionFails
  \/ KeepBlock
  \/ ReadMissingEntry
  \/ DeleteBlock
  \/ Verify
  \/ Terminating

Spec == Init /\ [][Next]_vars
-----------------------------------------------------------------------------
(* Properties.                                                             *)

\* The values the pass works on stay what they are in the program: an entry is
\* dropped from a PHI but never rewritten.
TypeOK ==
  /\ build \in Builds
  /\ targets \in [Block -> Seq(Block)]
  /\ \A b \in Block : DOMAIN targets[b] = DOMAIN fn.targets[b]
  /\ DOMAIN incoming = Inst
  /\ \A p \in Inst : \A k \in DOMAIN incoming[p] :
       k \in DOMAIN fn.incoming[p] /\ incoming[p][k] = fn.incoming[p][k]
  /\ alive \in SUBSET Block
  /\ next \in 1 .. Len(fn.order) + 1
  /\ delete_list \in SUBSET Block
  /\ num_deduplicate_bbs \in Nat
  /\ overall_num_of_updated_branch_targets \in Nat
  /\ kept \in [Block -> Block]
  /\ status \in Outcomes \cup {"running"}

\* MergeDuplicatedBlock keeps only what is in delete_list out of the candidates
\* it retains: no terminator, of a live or of a dead block, ever targets a block
\* that is to be erased, and the walk erases no block it still has to look at.
DeadBlocksUntargeted ==
  /\ \A b \in Block : \A k \in DOMAIN targets[b] : targets[b][k] \notin delete_list
  /\ \A b \in Block : kept[b] \notin delete_list
  /\ \A b \in delete_list : \E n \in 1 .. next - 1 : fn.order[n] = b

\* Whatever chain of merges a block went through (bb1 into bb2, then bb2, retained
\* before, into bb3), the block that stands for it does the same instructions on
\* the same operands and goes, edge by edge, where it went: the output function
\* has exactly the executions of the input.
SameCode(b, c) ==
  /\ fn.kind[b] = fn.kind[c]
  /\ fn.topnd[b] = fn.topnd[c]
  /\ DOMAIN fn.targets[b] = DOMAIN fn.targets[c]
  /\ DOMAIN fn.body[b] = DOMAIN fn.body[c]
  /\ \A n \in DOMAIN fn.body[b] : /\ fn.op[fn.body[b][n]] = fn.op[fn.body[c][n]]
                                  /\ fn.body[b][n] \in fn.phi <=> fn.body[c][n] \in fn.phi
                                  /\ fn.body[b][n] \notin fn.phi =>
                                       fn.opnd[fn.body[b][n]] = fn.opnd[fn.body[c][n]]

PathsPreserved ==
  /\ kept[Entry] = Entry
  /\ \A b \in Block : SameCode(b, kept[b])
  /\ \A b \in Block : \A k \in DOMAIN fn.targets[b] :
       targets[kept[b]][k] = kept[fn.targets[b][k]]

\* The value a PHI takes on an edge is the one it took on the edges the merge
\* folded into it (the test of the incoming values, lines 168-180).
PhiValuesPreserved ==
  \A b \in Block : \A k \in DOMAIN fn.targets[b] :
    LET s == fn.targets[b][k] IN
      kept[s] = s => \A p \in Phis(s) :
        EntriesIn(incoming, p, kept[b]) # {} =>
          IncomingFor(p, kept[b]) = ValueIn(fn.incoming, p, b)

\* An erased instruction has no user: CanMergeInstructions lets a value with one
\* use through, but two blocks whose instructions match pairwise have none.
\* Nothing is left reading a value whose block is gone.
ErasedInstsUnused ==
  \A b \in delete_list : \A n \in DOMAIN fn.body[b] :
    Uses(fn.body[b][n]) = {}

\* The module can only be refused, or the pass run into an entry that is not
\* there, after blocks were merged that start with a PHI, whose entries
\* UpdateBranchTargets does not move.
BadOutcomeNeedsPhi ==
  status \in {"rejected", "undefined"} => \E b \in delete_list : HasPhi(b)

\* merge_bb.cc:192 asserts that a merge updates an edge.
SomeTargetUpdated == status # "aborted"

\* merge_bb.cc:148 says that edges other than br and switch are left alone: a
\* block that others are merged into has no such edge.
RetainedHasSimplePreds ==
  \A b \in Block : kept[b] # b => \A c \in Preds(kept[b]) : Simple(c)

\* merge_bb.h:23-24 says an instruction can be removed if its one user is a PHI.
PhiUseRemovable ==
  status = "running" => \A b \in Block : \A n \in DOMAIN fn.body[b] :
    LET i == fn.body[b][n] IN
      /\ HasOneUse(i) /\ Unconditional(b)
      /\ \E u \in Uses(i) : u[2] > 0 /\ fn.body[u[1]][u[2]] \in fn.phi
      => CanRemoveInst(i, b)
=============================================================================
