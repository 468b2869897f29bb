--------------------------- MODULE MergeBBProofs ---------------------------
(***************************************************************************)
(* Proofs about the block de-duplication pass, for every set of blocks and *)
(* instructions and every well-formed function.                            *)
(***************************************************************************)
EXTENDS MergeBB, FiniteSetTheorems, TLAPS

-----------------------------------------------------------------------------
(* The function read.                                                      *)

\* What the proofs use of a function that parseIRFile lets through.
LEMMA FunctionFacts ==
  ASSUME NEW f \in Functions
  PROVE  /\ f.order \in Seq(Block) /\ f.order # << >>
         /\ f.kind \in [Block -> Kinds]
         /\ f.targets \in [Block -> Seq(Block)]
         /\ f.body \in [Block -> Seq(Inst)]
         /\ f.phi \subseteq Inst
         /\ f.opnd \in [Inst -> Seq(Val)]
         /\ f.incoming \in [Inst -> Seq(Block \X Val)]
         /\ f.topnd \in [Block -> Seq(Val)]
         /\ \A b \in Block : \E n \in DOMAIN f.order : f.order[n] = b
         /\ \A m, n \in DOMAIN f.order : f.order[m] = f.order[n] => m = n
         /\ \A b \in Block : f.kind[b] = "br" => Len(f.targets[b]) = 1 /\ f.topnd[b] = << >>
         /\ \A b \in Block : \A k \in DOMAIN f.targets[b] : f.targets[b][k] # f.order[1]
BY FunctionsAssumption DEF Shape, WellFormed

\* A function has finitely many blocks: its layout lists them.
LEMMA BlockFinite ==
  ASSUME NEW f \in Functions
  PROVE  IsFiniteSet(Block)
<1>1. f.order \in Seq(Block) /\ \A b \in Block : \E n \in DOMAIN f.order : f.order[n] = b
  BY FunctionFacts
<1>2. f.order \in Surjection(1 .. Len(f.order), Block)
  BY <1>1 DEF Surjection
<1>3. IsFiniteSet(1 .. Len(f.order))
  BY <1>1, FS_Interval
<1> QED
  BY <1>2, <1>3, FS_Surjection

\* UpdateBranchTargets counts finitely many operands.
LEMMA UpdatedTargetsType ==
  ASSUME fn \in Functions, targets \in [Block -> Seq(Block)], NEW bb \in Block
  PROVE  UpdatedTargets(bb) \in Nat
<1> DEFINE Hit(b) == {k \in DOMAIN targets[b] : targets[b][k] = bb}
           S(b) == {b} \X Hit(b)
           g == [b \in Block |-> S(b)]
           All == {S(b) : b \in Block}
<1>1. ASSUME NEW b \in Block
      PROVE  IsFiniteSet(S(b))
  <2>1. DOMAIN targets[b] = 1 .. Len(targets[b]) /\ Len(targets[b]) \in Nat
    OBVIOUS
  <2>2. IsFiniteSet(1 .. Len(targets[b]))
    BY <2>1, FS_Interval
  <2>3. Hit(b) \in SUBSET (1 .. Len(targets[b]))
    BY <2>1
  <2>4. IsFiniteSet(Hit(b))
    BY <2>2, <2>3, FS_Subset
  <2> QED
    BY <2>4, FS_Singleton, FS_Product
<1>2. g \in Surjection(Block, All)
  BY DEF Surjection
<1>3. IsFiniteSet(All)
  BY <1>2, BlockFinite, FS_Surjection
<1>4. IsFiniteSet(UNION All)
  BY <1>1, <1>3, FS_UNION
<1>5. UpdatedTargets(bb) = Cardinality(UNION All)
  BY DEF UpdatedTargets
<1> QED
  BY <1>4, <1>5, FS_CardinalityType

\* Redirecting operands keeps the terminators' operand lists as long as they were.
LEMMA RedirectedType ==
  ASSUME targets \in [Block -> Seq(Block)], NEW bb1 \in Block, NEW bb2 \in Block
  PROVE  /\ UpdateBranchTargets(bb1, bb2) \in [Block -> Seq(Block)]
         /\ \A b \in Block : DOMAIN UpdateBranchTargets(bb1, bb2)[b] = DOMAIN targets[b]
         /\ \A b \in Block : \A k \in DOMAIN targets[b] :
              UpdateBranchTargets(bb1, bb2)[b][k] =
                IF targets[b][k] = bb1 THEN bb2 ELSE targets[b][k]
<1> DEFINE R(b) == [k \in DOMAIN targets[b] |->
                      IF targets[b][k] = bb1 THEN bb2 ELSE targets[b][k]]
<1>1. ASSUME NEW b \in Block
      PROVE  R(b) \in Seq(Block)
  BY DOMAIN targets[b] = 1 .. Len(targets[b])
<1> QED
  BY <1>1 DEF UpdateBranchTargets

-----------------------------------------------------------------------------
(* Type correctness.                                                       *)

Typed == fn \in Functions /\ TypeOK

LEMMA InitTyped == Init => Typed
<1> SUFFICES ASSUME Init PROVE Typed
  OBVIOUS
<1>1. /\ fn.order \in Seq(Block) /\ fn.order # << >>
      /\ fn.targets \in [Block -> Seq(Block)] /\ fn.incoming \in [Inst -> Seq(Block \X Val)]
  BY FunctionFacts DEF Init
<1>2. 1 \in 1 .. Len(fn.order) + 1
  BY <1>1
<1> QED
  BY <1>1, <1>2 DEF Init, Typed, TypeOK

LEMMA NextTyped == Typed /\ [Next]_vars => Typed'
<1> SUFFICES ASSUME Typed, [Next]_vars PROVE Typed'
  OBVIOUS
<1> USE DEF Typed
<1>0. /\ fn.order \in Seq(Block) /\ fn.order # << >>
      /\ Len(fn.order) \in Nat
  BY FunctionFacts
<1>1. ASSUME Walking
      PROVE  fn.order[next] \in Block /\ next + 1 \in 1 .. Len(fn.order) + 1
  BY <1>0, <1>1 DEF Walking, TypeOK
<1>2. CASE MergeBlock
  <2> DEFINE bb1 == fn.order[next]
             Replaced(bb2) == [b \in Block |-> IF kept[b] = bb1 THEN bb2 ELSE kept[b]]
  <2>1. PICK bb2 \in Block : /\ targets' = UpdateBranchTargets(bb1, bb2)
                             /\ kept' = Replaced(bb2)
    BY <1>2 DEF MergeBlock
  <2>2. bb1 \in Block /\ next + 1 \in 1 .. Len(fn.order) + 1
    BY <1>1, <1>2 DEF MergeBlock
  <2> HIDE DEF bb1
  <2>3. targets' \in [Block -> Seq(Block)] /\ \A b \in Block : DOMAIN targets'[b] = DOMAIN targets[b]
    <3>1. targets \in [Block -> Seq(Block)]
      BY DEF TypeOK
    <3> QED
      BY <2>1, <2>2, <3>1, RedirectedType
  <2>4. UpdatedTargets(bb1) \in Nat
    BY <2>2, UpdatedTargetsType DEF TypeOK
  <2>5. kept' \in [Block -> Block]
    <3>1. kept \in [Block -> Block]
      BY DEF TypeOK
    <3> QED
      BY <2>1, <3>1
  <2>6. /\ next' = next + 1 /\ delete_list' = delete_list \cup {bb1}
        /\ num_deduplicate_bbs' = num_deduplicate_bbs + 1
        /\ overall_num_of_updated_branch_targets' =
             overall_num_of_updated_branch_targets + UpdatedTargets(bb1)
        /\ UNCHANGED <<fn, build, incoming, alive, status>>
    BY <1>2 DEF MergeBlock, bb1
  <2> QED
    BY <2>2, <2>3, <2>4, <2>5, <2>6 DEF TypeOK
<1>3. CASE AssertionFails
  BY <1>3 DEF AssertionFails, TypeOK, Outcomes
<1>4. CASE KeepBlock
  BY <1>1, <1>4 DEF KeepBlock, TypeOK
<1>5. CASE ReadMissingEntry
  BY <1>5 DEF ReadMissingEntry, TypeOK, Outcomes
<1>6. CASE DeleteBlock
  <2>1. PICK bb \in delete_list : incoming' \in {incoming, WithoutPredecessor(bb)}
    BY <1>6 DEF DeleteBlock
  <2>2. /\ alive' \subseteq Block /\ status' \in {status, "undefined"}
        /\ UNCHANGED <<fn, build, targets, next, delete_list, num_deduplicate_bbs,
                       overall_num_of_updated_branch_targets, kept>>
    BY <1>6 DEF DeleteBlock, TypeOK
  <2>3. /\ DOMAIN incoming' = Inst
        /\ \A p \in Inst : \A k \in DOMAIN incoming'[p] :
             k \in DOMAIN incoming[p] /\ incoming'[p][k] = incoming[p][k]
    <3>1. CASE incoming' = incoming
      BY <3>1 DEF TypeOK
    <3>2. CASE incoming' = WithoutPredecessor(bb)
      BY <3>2 DEF WithoutPredecessor
    <3> QED
      BY <2>1, <3>1, <3>2
  <2> QED
    BY <2>2, <2>3 DEF TypeOK, Outcomes
<1>7. CASE Verify
  BY <1>7 DEF Verify, TypeOK, Outcomes
<1>8. CASE UNCHANGED vars
  BY <1>8 DEF vars, TypeOK
<1> QED
  BY <1>2, <1>3, <1>4, <1>5, <1>6, <1>7, <1>8 DEF Next, Terminating

\* The pass keeps every variable in its range: the walk does not leave the
\* function, no terminator gains or loses an operand, and no PHI entry changes.
THEOREM TypeCorrect == Spec => []TypeOK
<1>1. Typed => TypeOK
  BY DEF Typed
<1> QED
  BY <1>1, InitTyped, NextTyped, PTL DEF Spec
-----------------------------------------------------------------------------
(* Blocks that match.                                                      *)

\* How instructions sit in their blocks.
LEMMA BodyFacts ==
  ASSUME NEW f \in Functions
  PROVE  /\ \A b, c \in Block : \A m \in DOMAIN f.body[b], n \in DOMAIN f.body[c] :
              f.body[b][m] = f.body[c][n] => b = c /\ m = n
         /\ \A b \in Block : \A m, n \in DOMAIN f.body[b] :
              m < n /\ f.body[b][n] \in f.phi => f.body[b][m] \in f.phi
BY FunctionsAssumption DEF WellFormed

\* Blocks that pass all the tests of MergeDuplicatedBlock have as many
\* instructions as each other, and the walk compared them all.
LEMMA AllCompared ==
  ASSUME fn \in Functions, NEW bb1 \in Block, NEW bb2 \in Block, Candidate(bb1, bb2)
  PROVE  /\ DOMAIN fn.body[bb1] = DOMAIN fn.body[bb2]
         /\ \A n \in DOMAIN fn.body[bb1] :
              CanMergeInstructions(fn.body[bb1][n], bb1, fn.body[bb2][n], bb2)
<1> DEFINE len == Len(fn.body[bb1])
<1>1. fn.body \in [Block -> Seq(Inst)]
  BY FunctionFacts
<1>2. len \in Nat /\ Len(fn.body[bb2]) = len
  BY <1>1 DEF Candidate, Comparable, NumInst
<1>3. DOMAIN fn.body[bb1] = 1 .. len /\ DOMAIN fn.body[bb2] = 1 .. len
  BY <1>1, <1>2
<1>4. ASSUME NEW n \in 1 .. len
      PROVE  CanMergeInstructions(fn.body[bb1][n], bb1, fn.body[bb2][n], bb2)
  <2>1. len - n \in 0 .. len - 1 /\ len - n < len /\ len - (len - n) = n
    BY <1>2
  <2>2. \A d \in 0 .. len - 1 : d < len =>
          CanMergeInstructions(fn.body[bb1][len - d], bb1, fn.body[bb2][len - d], bb2)
    BY <1>2 DEF Candidate, LockstepMatches
  <2> HIDE DEF len
  <2> QED
    BY <2>1, <2>2
<1> QED
  BY <1>3, <1>4

\* An unconditional branch has one target.
LEMMA JumpTarget ==
  ASSUME fn \in Functions, NEW b \in Block, fn.kind[b] = "br"
  PROVE  DOMAIN fn.targets[b] = {1}
<1>1. fn.targets[b] \in Seq(Block) /\ Len(fn.targets[b]) = 1
  BY FunctionFacts
<1> QED
  BY <1>1

LEMMA MergedSameCode ==
  ASSUME fn \in Functions, NEW bb1 \in Block, NEW bb2 \in Block, Candidate(bb1, bb2)
  PROVE  SameCode(bb1, bb2)
<1>1. fn.kind[bb1] = "br" /\ fn.kind[bb2] = "br"
  BY DEF Candidate, MayMerge, Comparable, Unconditional
<1>2. fn.topnd[bb1] = << >> /\ fn.topnd[bb2] = << >>
  BY <1>1, FunctionFacts
<1>3. ASSUME NEW n \in DOMAIN fn.body[bb1], fn.body[bb1][n] \notin fn.phi
      PROVE  fn.opnd[fn.body[bb1][n]] = fn.opnd[fn.body[bb2][n]]
  <2> DEFINE i1 == fn.body[bb1][n]
             i2 == fn.body[bb2][n]
  <2>1. i1 \in Inst /\ i2 \in Inst
    BY AllCompared, FunctionFacts
  <2>2. CanMergeInstructions(i1, bb1, i2, bb2)
    BY AllCompared
  <2>3. Operands(i1) = fn.opnd[i1] /\ Operands(i2) = fn.opnd[i2]
    BY <1>3, <2>2 DEF CanMergeInstructions, Operands
  <2>4. fn.opnd[i1] \in Seq(Val) /\ fn.opnd[i2] \in Seq(Val)
    BY <2>1, FunctionFacts
  <2> HIDE DEF i1, i2
  <2>5. /\ DOMAIN fn.opnd[i1] = DOMAIN fn.opnd[i2]
        /\ \A k \in DOMAIN fn.opnd[i1] : fn.opnd[i1][k] = fn.opnd[i2][k]
    BY <2>2, <2>3 DEF CanMergeInstructions
  <2>6. fn.opnd[i1] = fn.opnd[i2]
    BY <2>4, <2>5
  <2> QED
    BY <2>6 DEF i1, i2
<1>4. \A n \in DOMAIN fn.body[bb1] :
        /\ fn.op[fn.body[bb1][n]] = fn.op[fn.body[bb2][n]]
        /\ fn.body[bb1][n] \in fn.phi <=> fn.body[bb2][n] \in fn.phi
  BY AllCompared DEF CanMergeInstructions
<1>5. DOMAIN fn.targets[bb1] = {1} /\ DOMAIN fn.targets[bb2] = {1}
  BY <1>1, JumpTarget
<1> QED
  BY <1>1, <1>2, <1>3, <1>4, <1>5, AllCompared DEF SameCode

LEMMA SameCodeTransitive ==
  ASSUME NEW a, NEW b, NEW c, SameCode(a, b), SameCode(b, c)
  PROVE  SameCode(a, c)
BY DEF SameCode

\* A successor that gets past the test of MultiPhi has its PHI, if any, first.
LEMMA SinglePhi ==
  ASSUME fn \in Functions, NEW s \in Block, NEW n \in DOMAIN fn.body[s],
         fn.body[s][n] \in fn.phi, ~MultiPhi(s)
  PROVE  HasPhi(s) /\ n = 1
<1>1. fn.body[s] \in Seq(Inst)
  BY FunctionFacts
<1>2. n \in 1 .. Len(fn.body[s]) /\ Len(fn.body[s]) \in Nat
  BY <1>1
<1>3. \A m \in DOMAIN fn.body[s] : m < n => fn.body[s][m] \in fn.phi
  BY BodyFacts
<1>4. 1 \in DOMAIN fn.body[s] /\ fn.body[s][1] \in fn.phi
  BY <1>1, <1>2, <1>3
<1>5. n > 1 => Len(fn.body[s]) > 1 /\ fn.body[s][2] \in fn.phi
  BY <1>1, <1>2, <1>3
<1> QED
  BY <1>1, <1>2, <1>4, <1>5 DEF HasPhi, MultiPhi

\* An operand is a use.
LEMMA OperandIsUse ==
  ASSUME NEW v, NEW b \in Block, NEW n \in 0 .. Len(fn.body[b]),
         NEW k \in DOMAIN OperandsAt(b, n), OperandsAt(b, n)[k] = v
  PROVE  <<b, n, k>> \in Uses(v)
<1>1. <<b, n, k>> \in UsesAt(v, b, n)
  BY DEF UsesAt
<1> QED
  BY <1>1 DEF Uses

\* A PHI uses the value it takes on an edge.
LEMMA PhiUses ==
  ASSUME fn \in Functions, NEW s \in Block, NEW n \in DOMAIN fn.body[s],
         fn.body[s][n] \in fn.phi,
         NEW b \in Block, EntriesIn(incoming, fn.body[s][n], b) # {}
  PROVE  \E k : <<s, n, k>> \in Uses(IncomingFor(fn.body[s][n], b))
<1> DEFINE p == fn.body[s][n]
           k == CHOOSE j \in EntriesIn(incoming, p, b) : TRUE
<1>1. k \in EntriesIn(incoming, p, b) /\ IncomingFor(p, b) = incoming[p][k][2]
  BY DEF IncomingFor, ValueIn
<1>2. n \in 0 .. Len(fn.body[s]) /\ n # 0
  <2>1. fn.body[s] \in Seq(Inst)
    BY FunctionFacts
  <2> QED
    BY <2>1
<1> HIDE DEF k
<1>3. k \in DOMAIN OperandsAt(s, n) /\ OperandsAt(s, n)[k] = IncomingFor(p, b)
  BY <1>1, <1>2 DEF OperandsAt, Operands, EntriesIn
<1> QED
  BY <1>2, <1>3, OperandIsUse

\* The key of the pass: if two blocks match instruction by instruction, a user in
\* the block of a value of that block has a twin in the other block that uses the
\* same value, so a value with one use would have two.
LEMMA MatchedUnused ==
  ASSUME fn \in Functions, DOMAIN incoming = Inst,
         targets \in [Block -> Seq(Block)],
         \A b \in Block : DOMAIN targets[b] = DOMAIN fn.targets[b],
         NEW bb1 \in Block, NEW bb2 \in Block, Candidate(bb1, bb2),
         NEW n \in DOMAIN fn.body[bb1]
  PROVE  Uses(fn.body[bb1][n]) = {}
<1> DEFINE i == fn.body[bb1][n]
<1> SUFFICES ASSUME Uses(i) # {} PROVE FALSE
  OBVIOUS
<1>0. /\ fn.body \in [Block -> Seq(Inst)] /\ fn.kind[bb1] = "br"
      /\ DOMAIN fn.body[bb1] = 1 .. Len(fn.body[bb1])
      /\ DOMAIN fn.body[bb2] = 1 .. Len(fn.body[bb2])
      /\ i \in Inst /\ bb1 # bb2 /\ targets[bb1][1] \in Block
  <2>1. fn.kind[bb1] = "br" /\ bb1 # bb2
    BY DEF Candidate, MayMerge, Comparable, Unconditional
  <2>2. fn.body \in [Block -> Seq(Inst)]
    BY FunctionFacts
  <2>3. Len(fn.targets[bb1]) = 1 /\ fn.targets[bb1] \in Seq(Block)
    BY <2>1, FunctionFacts
  <2>4. 1 \in DOMAIN targets[bb1] /\ targets[bb1] \in Seq(Block)
    BY <2>3
  <2> QED
    BY <2>1, <2>2, <2>4
<1>1. HasOneUse(i) /\ CanRemoveInst(i, bb1)
  BY AllCompared DEF CanMergeInstructions
<1>2. PICK u \in Uses(i) : Uses(i) = {u}
  BY <1>1 DEF HasOneUse
<1>3. u[1] = bb1
  <2>1. CASE \E w \in Uses(i) : w[1] = bb1
    BY <1>2, <2>1
  <2>2. CASE i \in fn.phi /\ Defines(targets[bb1][1], i) /\ IncomingFor(i, bb1) = i
    <3> DEFINE s == targets[bb1][1]
    <3>1. s = bb1
      BY <1>0, <2>2, BodyFacts DEF Defines
    <3>2. ~MultiPhi(s) /\ ~Missing(bb1, s)
      BY DEF Candidate, MayMerge
    <3>3. HasPhi(s) /\ n = 1
      BY <2>2, <3>1, <3>2, SinglePhi
    <3>4. EntriesIn(incoming, i, bb1) # {}
      BY <3>1, <3>2, <3>3 DEF Missing
    <3>5. \E k : <<bb1, n, k>> \in Uses(IncomingFor(i, bb1))
      BY <2>2, <3>4, PhiUses
    <3>6. PICK k : <<bb1, n, k>> \in Uses(i)
      BY <2>2, <3>5
    <3> QED
      BY <1>2, <3>6
  <2> QED
    BY <1>1, <2>1, <2>2 DEF CanRemoveInst
<1>4. PICK m \in 0 .. Len(fn.body[bb1]) :
        \E k \in DOMAIN OperandsAt(bb1, m) : OperandsAt(bb1, m)[k] = i /\ u = <<bb1, m, k>>
  BY <1>3 DEF Uses, UsesAt
<1>5. PICK k \in DOMAIN OperandsAt(bb1, m) : OperandsAt(bb1, m)[k] = i
  BY <1>4
<1>6. m # 0
  BY <1>0, <1>5, FunctionFacts DEF OperandsAt
<1>7. m \in DOMAIN fn.body[bb1] /\ m \in DOMAIN fn.body[bb2]
  BY <1>0, <1>6, AllCompared
<1>8. k \in DOMAIN OperandsAt(bb2, m) /\ OperandsAt(bb2, m)[k] = i
  <2>1. CanMergeInstructions(fn.body[bb1][m], bb1, fn.body[bb2][m], bb2)
    BY <1>7, AllCompared
  <2>2. /\ OperandsAt(bb1, m) = Operands(fn.body[bb1][m])
        /\ OperandsAt(bb2, m) = Operands(fn.body[bb2][m])
    BY <1>6 DEF OperandsAt
  <2> QED
    BY <1>5, <2>1, <2>2 DEF CanMergeInstructions
<1>9. <<bb2, m, k>> \in Uses(i)
  <2>1. m \in 0 .. Len(fn.body[bb2])
    BY <1>0, <1>7
  <2> QED
    BY <1>8, <2>1, OperandIsUse
<1> QED
  BY <1>0, <1>2, <1>3, <1>9
\* So the "both defined in their parent" alternative of the test of the incoming
\* values is never what lets a merge through: the two values are the same.
LEMMA MergedPhiValue ==
  ASSUME Typed, NEW bb1 \in Block, NEW bb2 \in Block, Candidate(bb1, bb2),
         NEW p \in Phis(targets[bb1][1]), targets[bb1][1] \in Block
  PROVE  /\ EntriesIn(incoming, p, bb1) # {}
         /\ IncomingFor(p, bb1) = IncomingFor(p, bb2)
<1> DEFINE s == targets[bb1][1]
<1>0. /\ fn \in Functions /\ targets \in [Block -> Seq(Block)] /\ DOMAIN incoming = Inst
      /\ \A b \in Block : DOMAIN targets[b] = DOMAIN fn.targets[b]
  BY DEF Typed, TypeOK
<1>1. ~MultiPhi(s) /\ ~Missing(bb1, s) /\ ~Missing(bb2, s) /\ PhiValuesAgree(bb1, bb2)
  BY DEF Candidate, MayMerge
<1>2. PICK n \in DOMAIN fn.body[s] : fn.body[s][n] = p /\ p \in fn.phi
  BY DEF Phis
<1>3. n = 1 /\ HasPhi(s)
  BY <1>0, <1>1, <1>2, SinglePhi
<1>4. EntriesIn(incoming, p, bb1) # {} /\ EntriesIn(incoming, p, bb2) # {}
  BY <1>1, <1>2, <1>3 DEF Missing
<1>5. ASSUME Defines(bb1, IncomingFor(p, bb1))
      PROVE  FALSE
  <2>1. PICK m \in DOMAIN fn.body[bb1] : fn.body[bb1][m] = IncomingFor(p, bb1)
    BY <1>5 DEF Defines
  <2>2. Uses(IncomingFor(p, bb1)) = {}
    BY <1>0, <2>1, MatchedUnused
  <2>3. \E k : <<s, n, k>> \in Uses(IncomingFor(p, bb1))
    BY <1>0, <1>2, <1>4, PhiUses
  <2> QED
    BY <2>2, <2>3
<1> QED
  BY <1>1, <1>2, <1>3, <1>4, <1>5 DEF PhiValuesAgree

-----------------------------------------------------------------------------
(* The inductive invariant.                                                *)

\* Only a block that is to be erased has a block that stands for it.
KeptLive == \A b \in Block : b \notin delete_list => kept[b] = b

Safe ==
  /\ DeadBlocksUntargeted
  /\ KeptLive
  /\ PathsPreserved
  /\ PhiValuesPreserved
  /\ ErasedInstsUnused

IInv == Typed /\ Safe

LEMMA InitSafe == Init => Safe
<1> SUFFICES ASSUME Init PROVE Safe
  OBVIOUS
<1>1. /\ fn \in Functions /\ Entry \in Block /\ \A b \in Block : fn.targets[b] \in Seq(Block)
      /\ kept = [b \in Block |-> b] /\ targets = fn.targets /\ incoming = fn.incoming
      /\ delete_list = {}
  <2>1. fn \in Functions
    BY DEF Init
  <2>2. fn.order \in Seq(Block) /\ fn.order # << >> /\ fn.targets \in [Block -> Seq(Block)]
    BY <2>1, FunctionFacts
  <2> QED
    BY <2>1, <2>2 DEF Init, Entry
<1>2. \A b \in Block : \A k \in DOMAIN fn.targets[b] : fn.targets[b][k] \in Block
  BY <1>1
<1>3. DeadBlocksUntargeted /\ KeptLive /\ ErasedInstsUnused
  BY <1>1 DEF DeadBlocksUntargeted, KeptLive, ErasedInstsUnused
<1>4. PathsPreserved
  BY <1>1, <1>2 DEF PathsPreserved, SameCode
<1>5. PhiValuesPreserved
  BY <1>1, <1>2 DEF PhiValuesPreserved, IncomingFor
<1> QED
  BY <1>3, <1>4, <1>5 DEF Safe

\* A merge substitutes bb2 for bb1 both in the terminators and in what stands for
\* what: the two stay in step.
LEMMA MergeSafe == IInv /\ MergeBlock => Safe'
<1> SUFFICES ASSUME IInv, MergeBlock PROVE Safe'
  OBVIOUS
<1> DEFINE bb1 == fn.order[next]
<1>1. PICK bb2 \in Block : /\ Candidate(bb1, bb2)
                           /\ targets' = UpdateBranchTargets(bb1, bb2)
                           /\ kept' = [b \in Block |-> IF kept[b] = bb1 THEN bb2 ELSE kept[b]]
  BY DEF MergeBlock
<1>2. /\ fn \in Functions /\ targets \in [Block -> Seq(Block)] /\ DOMAIN incoming = Inst
      /\ \A b \in Block : DOMAIN targets[b] = DOMAIN fn.targets[b]
      /\ kept \in [Block -> Block] /\ next \in Nat \ {0} /\ delete_list \subseteq Block
      /\ DeadBlocksUntargeted /\ KeptLive /\ PathsPreserved /\ PhiValuesPreserved
      /\ ErasedInstsUnused /\ Typed
  BY DEF IInv, Typed, TypeOK, Safe
<1>3. /\ bb1 \in Block /\ next \in DOMAIN fn.order /\ fn.order \in Seq(Block) /\ Entry \in Block
      /\ \A m, n \in DOMAIN fn.order : fn.order[m] = fn.order[n] => m = n
      /\ \A b \in Block : fn.targets[b] \in Seq(Block)
  <2>1. /\ fn.order \in Seq(Block) /\ fn.order # << >> /\ fn.targets \in [Block -> Seq(Block)]
        /\ \A m, n \in DOMAIN fn.order : fn.order[m] = fn.order[n] => m = n
    BY <1>2, FunctionFacts
  <2>2. next <= Len(fn.order)
    BY DEF MergeBlock, Walking
  <2> QED
    BY <1>2, <2>1, <2>2 DEF Entry
<1>4. /\ delete_list' = delete_list \cup {bb1} /\ next' = next + 1
      /\ UNCHANGED <<fn, build, incoming, alive, status>>
  BY DEF MergeBlock
<1> HIDE DEF bb1
<1>5. /\ bb1 # Entry /\ bb2 # Entry /\ bb1 # bb2 /\ bb2 \notin delete_list
      /\ fn.kind[bb1] = "br" /\ fn.kind[bb2] = "br" /\ bb2 \in Preds(targets[bb1][1])
  BY <1>1 DEF Candidate, MayMerge, Comparable, Unconditional
<1>6. /\ \A b \in Block : DOMAIN targets'[b] = DOMAIN targets[b]
      /\ \A b \in Block : \A k \in DOMAIN targets[b] :
           targets'[b][k] = IF targets[b][k] = bb1 THEN bb2 ELSE targets[b][k]
  <2>1. targets \in [Block -> Seq(Block)] /\ bb1 \in Block
    BY <1>2, <1>3
  <2> QED
    BY <1>1, <2>1, RedirectedType
\* Both blocks jump to the same successor.
<1>7. /\ DOMAIN targets[bb1] = {1} /\ DOMAIN targets[bb2] = {1}
      /\ targets[bb1][1] \in Block /\ targets[bb2][1] = targets[bb1][1]
  <2>1. DOMAIN targets[bb1] = {1} /\ DOMAIN targets[bb2] = {1}
    BY <1>2, <1>3, <1>5, JumpTarget
  <2>2. targets[bb1] \in Seq(Block)
    BY <1>2, <1>3
  <2>3. targets[bb1][1] \in Block
    BY <2>1, <2>2
  <2>4. \E k \in DOMAIN targets[bb2] : targets[bb2][k] = targets[bb1][1]
    BY <1>5 DEF Preds
  <2> QED
    BY <2>1, <2>3, <2>4
<1>8. DeadBlocksUntargeted'
  <2>1. \A b \in Block : \A k \in DOMAIN targets'[b] : targets'[b][k] \notin delete_list'
    BY <1>2, <1>4, <1>5, <1>6, ZenonT(30) DEF DeadBlocksUntargeted
  <2>2. \A b \in Block : kept'[b] \notin delete_list'
    BY <1>1, <1>2, <1>4, <1>5 DEF DeadBlocksUntargeted
  <2>3. \A b \in delete_list' : \E n \in 1 .. next' - 1 : fn.order[n] = b
    <3>1. next \in 1 .. next' - 1 /\ fn.order[next] = bb1 /\ 1 .. next - 1 \subseteq 1 .. next' - 1
      BY <1>2, <1>4 DEF bb1
    <3> QED
      BY <1>2, <1>4, <3>1 DEF DeadBlocksUntargeted
  <2> QED
    BY <2>1, <2>2, <2>3, <1>4 DEF DeadBlocksUntargeted
<1>9. KeptLive'
  BY <1>1, <1>2, <1>4 DEF KeptLive
<1>10. PathsPreserved'
  <2>1. kept'[Entry] = Entry
    BY <1>1, <1>2, <1>3, <1>5 DEF PathsPreserved
  <2>2. ASSUME NEW b \in Block
        PROVE  SameCode(b, kept'[b])
    <3>1. SameCode(b, kept[b])
      BY <1>2 DEF PathsPreserved
    <3>2. SameCode(bb1, bb2)
      BY <1>1, <1>2, <1>3, MergedSameCode
    <3>3. kept'[b] = IF kept[b] = bb1 THEN bb2 ELSE kept[b]
      BY <1>1
    <3> QED
      BY <3>1, <3>2, <3>3, SameCodeTransitive
  <2>3. ASSUME NEW b \in Block, NEW k \in DOMAIN fn.targets[b]
        PROVE  targets'[kept'[b]][k] = kept'[fn.targets[b][k]]
    <3>1. fn.targets[b][k] \in Block /\ kept[b] \in Block
      BY <1>2, <1>3
    <3>2. targets[kept[b]][k] = kept[fn.targets[b][k]]
      BY <1>2 DEF PathsPreserved
    <3>3. k \in DOMAIN targets[kept[b]]
      BY <1>2, <3>1 DEF PathsPreserved, SameCode
    <3>4. targets'[kept[b]][k] = kept'[fn.targets[b][k]]
      BY <1>1, <1>6, <3>1, <3>2, <3>3
    <3>5. CASE kept[b] # bb1
      BY <1>1, <3>4, <3>5
    <3>6. CASE kept[b] = bb1
      <4>1. kept'[b] = bb2 /\ k = 1
        BY <1>1, <1>7, <3>3, <3>6
      <4>2. targets'[bb2][1] = targets'[bb1][1]
        BY <1>3, <1>6, <1>7
      <4> QED
        BY <3>4, <3>6, <4>1, <4>2
    <3> QED
      BY <3>5, <3>6
  <2>4. Entry' = Entry /\ \A b, c : SameCode(b, c)' <=> SameCode(b, c)
    BY <1>4 DEF Entry, SameCode
  <2> QED
    BY <1>4, <2>1, <2>2, <2>3, <2>4 DEF PathsPreserved
<1>11. PhiValuesPreserved'
  <2>1. ASSUME NEW b \in Block, NEW k \in DOMAIN fn.targets[b],
               kept'[fn.targets[b][k]] = fn.targets[b][k],
               NEW p \in Phis(fn.targets[b][k]),
               EntriesIn(incoming, p, kept'[b]) # {}
        PROVE  IncomingFor(p, kept'[b]) = ValueIn(fn.incoming, p, b)
    <3> DEFINE s == fn.targets[b][k]
    <3>1. s \in Block /\ kept[b] \in Block /\ kept[s] \in Block
      BY <1>2, <1>3, SMTT(20)
    <3>2. kept[s] = s
      BY <1>1, <1>2, <1>5, <2>1, <3>1 DEF KeptLive
    <3>3. EntriesIn(incoming, p, kept[b]) # {} =>
            IncomingFor(p, kept[b]) = ValueIn(fn.incoming, p, b)
      BY <1>2, <3>2 DEF PhiValuesPreserved
    <3>4. CASE kept[b] # bb1
      BY <1>1, <2>1, <3>3, <3>4
    <3>5. CASE kept[b] = bb1
      <4>1. kept'[b] = bb2
        BY <1>1, <3>5
      <4>2. k \in DOMAIN targets[bb1] /\ targets[bb1][k] = s
        BY <1>2, <3>1, <3>2, <3>5 DEF PathsPreserved, SameCode
      <4>3. targets[bb1][1] = s
        BY <1>7, <4>2
      <4>4. EntriesIn(incoming, p, bb1) # {} /\ IncomingFor(p, bb1) = IncomingFor(p, bb2)
        BY <1>1, <1>2, <1>3, <3>1, <4>3, MergedPhiValue
      <4> QED
        BY <3>3, <3>5, <4>1, <4>4
    <3> QED
      BY <3>4, <3>5
  <2> QED
    BY <1>4, <2>1 DEF PhiValuesPreserved, Phis, IncomingFor
<1>12. ErasedInstsUnused'
  <2>1. \A v : Uses(v)' = Uses(v)
    BY <1>4 DEF Uses, UsesAt, OperandsAt, Operands
  <2>2. \A n \in DOMAIN fn.body[bb1] : Uses(fn.body[bb1][n]) = {}
    BY <1>1, <1>2, <1>3, MatchedUnused
  <2> QED
    BY <1>2, <1>4, <2>1, <2>2 DEF ErasedInstsUnused
<1> QED
  BY <1>8, <1>9, <1>10, <1>11, <1>12 DEF Safe
\* Erasing a block takes away entries for that block only, and no block that stands
\* for anything is erased.
LEMMA DeleteSafe == IInv /\ DeleteBlock => Safe'
<1> SUFFICES ASSUME IInv, DeleteBlock PROVE Safe'
  OBVIOUS
<1>1. /\ DeadBlocksUntargeted /\ KeptLive /\ PathsPreserved /\ PhiValuesPreserved
      /\ ErasedInstsUnused /\ DOMAIN incoming = Inst /\ kept \in [Block -> Block]
      /\ fn \in Functions
  BY DEF IInv, Typed, TypeOK, Safe
<1>2. UNCHANGED <<fn, build, targets, next, delete_list, kept>>
  BY DEF DeleteBlock
<1>3. PICK bb \in delete_list : incoming' = incoming \/ incoming' = WithoutPredecessor(bb)
  BY DEF DeleteBlock
<1>4. /\ DOMAIN incoming' = Inst
      /\ \A p \in Inst : \A k \in DOMAIN incoming'[p] :
           k \in DOMAIN incoming[p] /\ incoming'[p][k] = incoming[p][k]
      /\ \A p \in Inst : \A c : c # bb => EntriesIn(incoming', p, c) = EntriesIn(incoming, p, c)
  <2>1. CASE incoming' = incoming
    BY <1>1, <2>1
  <2>2. CASE incoming' = WithoutPredecessor(bb)
    <3>1. DOMAIN incoming' = Inst
      BY <2>2 DEF WithoutPredecessor
    <3>2. ASSUME NEW p \in Inst
          PROVE  /\ \A k \in DOMAIN incoming'[p] :
                      k \in DOMAIN incoming[p] /\ incoming'[p][k] = incoming[p][k]
                 /\ \A k \in DOMAIN incoming[p] : incoming[p][k][1] # bb => k \in DOMAIN incoming'[p]
      BY <2>2 DEF WithoutPredecessor, EntriesIn
    <3>3. ASSUME NEW p \in Inst, NEW c, c # bb
          PROVE  EntriesIn(incoming', p, c) = EntriesIn(incoming, p, c)
      BY <3>2, <3>3 DEF EntriesIn
    <3> QED
      BY <3>1, <3>2, <3>3
  <2> QED
    BY <1>3, <2>1, <2>2
<1>5. DeadBlocksUntargeted' /\ KeptLive'
  BY <1>1, <1>2 DEF DeadBlocksUntargeted, KeptLive
<1>6. PathsPreserved'
  BY <1>1, <1>2 DEF PathsPreserved, SameCode, Entry
<1>7. PhiValuesPreserved'
  <2>1. ASSUME NEW b \in Block, NEW k \in DOMAIN fn.targets[b],
               kept[fn.targets[b][k]] = fn.targets[b][k],
               NEW p \in Phis(fn.targets[b][k]),
               EntriesIn(incoming', p, kept[b]) # {}
        PROVE  ValueIn(incoming', p, kept[b]) = ValueIn(fn.incoming, p, b)
    <3>1. kept[b] # bb /\ p \in Inst
      <4>1. fn.phi \subseteq Inst
        BY <1>1, FunctionFacts
      <4> QED
        BY <1>1, <4>1 DEF DeadBlocksUntargeted, Phis
    <3>2. EntriesIn(incoming', p, kept[b]) = EntriesIn(incoming, p, kept[b])
      BY <1>4, <3>1
    <3>3. IncomingFor(p, kept[b]) = ValueIn(fn.incoming, p, b)
      BY <1>1, <2>1, <3>2 DEF PhiValuesPreserved
    <3>4. ValueIn(incoming', p, kept[b]) = ValueIn(incoming, p, kept[b])
      BY <1>4, <2>1, <3>1, <3>2, ZenonT(30) DEF ValueIn, EntriesIn
    <3> QED
      BY <3>3, <3>4 DEF IncomingFor
  <2> QED
    BY <1>2, <2>1 DEF PhiValuesPreserved, Phis, IncomingFor
<1>8. ErasedInstsUnused'
  <2>1. ASSUME NEW b \in Block, NEW n \in 0 .. Len(fn.body[b]), NEW v
        PROVE  UsesAt(v, b, n)' \subseteq UsesAt(v, b, n)
    <3>1. n = 0 \/ fn.body[b][n] \in Inst
      BY <1>1, FunctionFacts
    <3> QED
      BY <1>2, <1>4, <3>1 DEF UsesAt, OperandsAt, Operands
  <2>2. \A v : Uses(v)' \subseteq Uses(v)
    BY <1>2, <2>1 DEF Uses
  <2>3. ASSUME NEW v, Uses(v) = {}
        PROVE  Uses(v)' = {}
    BY <2>2, <2>3
  <2> QED
    BY <1>1, <1>2, <2>3 DEF ErasedInstsUnused
<1> QED
  BY <1>5, <1>6, <1>7, <1>8 DEF Safe

\* The other actions touch nothing that Safe reads but the position of the walk.
LEMMA NextSafe == IInv /\ [Next]_vars => Safe'
<1> SUFFICES ASSUME IInv, [Next]_vars PROVE Safe'
  OBVIOUS
<1>1. CASE MergeBlock
  BY <1>1, MergeSafe
<1>2. CASE DeleteBlock
  BY <1>2, DeleteSafe
<1>3. CASE AssertionFails \/ KeepBlock \/ ReadMissingEntry \/ Verify \/ UNCHANGED vars
  <2>1. /\ UNCHANGED <<fn, targets, incoming, delete_list, kept>>
        /\ next' \in {next, next + 1} /\ next \in Nat
    BY <1>3 DEF AssertionFails, KeepBlock, ReadMissingEntry, Verify, vars, IInv, Typed, TypeOK
  <2>2. 1 .. next - 1 \subseteq 1 .. next' - 1
    <3>1. CASE next' = next
      BY <3>1
    <3>2. CASE next' = next + 1
      BY <2>1, <3>2
    <3> QED
      BY <2>1, <3>1, <3>2
  <2>3. Safe
    BY DEF IInv
  <2>4. DeadBlocksUntargeted'
    BY <2>1, <2>2, <2>3 DEF Safe, DeadBlocksUntargeted
  <2>5. KeptLive' /\ PathsPreserved'
    BY <2>1, <2>3 DEF Safe, KeptLive, PathsPreserved, SameCode, Entry
  <2>6. PhiValuesPreserved'
    BY <2>1, <2>3 DEF Safe, PhiValuesPreserved, Phis, IncomingFor
  <2>7. ErasedInstsUnused'
    <3>1. \A v : Uses(v)' = Uses(v)
      BY <2>1 DEF Uses, UsesAt, OperandsAt, Operands
    <3> QED
      BY <2>1, <2>3, <3>1 DEF Safe, ErasedInstsUnused
  <2> QED
    BY <2>4, <2>5, <2>6, <2>7 DEF Safe
<1> QED
  BY <1>1, <1>2, <1>3 DEF Next, Terminating

LEMMA Invariance == Spec => []IInv
<1>1. Init => IInv
  BY InitTyped, InitSafe DEF IInv
<1>2. IInv /\ [Next]_vars => IInv'
  BY NextTyped, NextSafe DEF IInv
<1> QED
  BY <1>1, <1>2, PTL DEF Spec

\* No terminator ever targets a block in delete_list, so DeleteDeadBlock never
\* erases a block something still jumps to.
THEOREM NoEdgeIntoDeadBlock == Spec => []DeadBlocksUntargeted
<1>1. IInv => DeadBlocksUntargeted
  BY DEF IInv, Safe
<1> QED
  BY <1>1, Invariance, PTL

\* For any function, layout and order of the candidates, the blocks that are left
\* run the code, and take the edges, of the blocks they stand for.
THEOREM ExecutionsPreserved == Spec => []PathsPreserved
<1>1. IInv => PathsPreserved
  BY DEF IInv, Safe
<1> QED
  BY <1>1, Invariance, PTL

\* No merge changes the value that a PHI of a successor takes on an edge.
THEOREM MergesKeepPhiValues == Spec => []PhiValuesPreserved
<1>1. IInv => PhiValuesPreserved
  BY DEF IInv, Safe
<1> QED
  BY <1>1, Invariance, PTL

\* Erasing the duplicated blocks erases no instruction that has a user.
THEOREM NoDanglingUse == Spec => []ErasedInstsUnused
<1>1. IInv => ErasedInstsUnused
  BY DEF IInv, Safe
<1> QED
  BY <1>1, Invariance, PTL
-----------------------------------------------------------------------------
(* The PHIs and the edges.                                                 *)

\* Unless a block that starts with a PHI was merged, the entries of the PHIs are the
\* edges from the blocks that are left.
NoPhiMerged == \A b \in delete_list : ~HasPhi(b)

EntriesAreEdges ==
  \A s \in Block \ delete_list : \A p \in Phis(s) : \A b \in Block :
    Cardinality(EntriesIn(incoming, p, b)) = IF b \in alive THEN NumEdges(targets, b, s) ELSE 0

Erasable == Block \ delete_list \subseteq alive /\ \A b \in delete_list : fn.kind[b] = "br"

EInv ==
  /\ Erasable
  /\ NoPhiMerged => EntriesAreEdges /\ status \notin {"rejected", "undefined"}

LEMMA FirstPhi ==
  ASSUME fn \in Functions, NEW s \in Block, NEW p \in Phis(s)
  PROVE  HasPhi(s) /\ p \in Inst
<1>1. fn.body[s] \in Seq(Inst) /\ fn.phi \subseteq Inst
  BY FunctionFacts
<1>2. PICK n \in DOMAIN fn.body[s] : fn.body[s][n] = p /\ p \in fn.phi
  BY DEF Phis
<1>3. n \in 1 .. Len(fn.body[s]) /\ Len(fn.body[s]) \in Nat
  BY <1>1
<1>4. \A m \in DOMAIN fn.body[s] : m < n => fn.body[s][m] \in fn.phi
  BY <1>2, BodyFacts
<1>5. 1 \in DOMAIN fn.body[s] /\ fn.body[s][1] \in fn.phi
  BY <1>1, <1>2, <1>3, <1>4
<1>. QED  BY <1>1, <1>2, <1>5 DEF HasPhi

\* An edge is counted, and the entries that are counted are there.
LEMMA EdgeHasEntry ==
  ASSUME Typed, NEW b \in Block, NEW s \in Block, NEW k \in DOMAIN targets[b], targets[b][k] = s,
         NEW p \in Inst, Cardinality(EntriesIn(incoming, p, b)) = NumEdges(targets, b, s)
  PROVE  EntriesIn(incoming, p, b) # {}
<1>. DEFINE E == {j \in DOMAIN targets[b] : targets[b][j] = s}
<1>1. targets[b] \in Seq(Block)
  BY DEF Typed, TypeOK
<1>2. IsFiniteSet(1 .. Len(targets[b])) /\ DOMAIN targets[b] = 1 .. Len(targets[b])
  BY <1>1, FS_Interval
<1>3. IsFiniteSet(E) /\ E # {}
  BY <1>2, FS_Subset
<1>. HIDE DEF E
<1>4. Cardinality(E) # 0
  BY <1>3, FS_EmptySet
<1>5. NumEdges(targets, b, s) # 0
  BY <1>4 DEF E, NumEdges
<1>. QED  BY <1>5, FS_EmptySet

LEMMA MissingNoEdge ==
  ASSUME Typed, NEW b \in Block, b \in alive, NEW k \in DOMAIN targets[b],
         targets[b][k] \in Block \ delete_list, EntriesAreEdges
  PROVE  ~Missing(b, targets[b][k])
<1>. SUFFICES ASSUME Missing(b, targets[b][k]) PROVE FALSE
  OBVIOUS
<1>. DEFINE s == targets[b][k]
            p == fn.body[s][1]
<1>1. fn \in Functions /\ s \in Block \ delete_list /\ HasPhi(s) /\ EntriesIn(incoming, p, b) = {}
  BY DEF Missing, Typed
<1>2. fn.body[s] \in Seq(Inst)
  BY <1>1, FunctionFacts
<1>3. p \in Phis(s)
  BY <1>1, <1>2 DEF HasPhi, Phis
<1>4. p \in Inst
  BY <1>1, <1>3, FirstPhi
<1>5. Cardinality(EntriesIn(incoming, p, b)) = NumEdges(targets, b, s)
  BY <1>1, <1>3 DEF EntriesAreEdges
<1>. QED  BY <1>1, <1>4, <1>5, EdgeHasEntry

LEMMA InitEntries == Init => EInv
<1>. SUFFICES ASSUME Init PROVE EInv
  OBVIOUS
<1>1. fn \in Functions /\ targets = fn.targets /\ incoming = fn.incoming /\ alive = Block
      /\ delete_list = {} /\ status = "running"
  BY DEF Init
<1>2. ASSUME NEW s \in Block, NEW p \in Phis(s), NEW b \in Block
      PROVE  Cardinality(EntriesIn(fn.incoming, p, b)) = NumEdges(fn.targets, b, s)
  <2>1. PICK n \in DOMAIN fn.body[s] : fn.body[s][n] = p /\ fn.body[s][n] \in fn.phi
    BY DEF Phis
  <2>. QED  BY <1>1, <2>1, FunctionsAssumption DEF WellFormed
<1>. QED  BY <1>1, <1>2 DEF EInv, Erasable, EntriesAreEdges

\* The edges into blocks with PHIs stay where they are when one without is merged.
LEMMA MergeEntries == IInv /\ EInv /\ MergeBlock => EInv'
<1>. SUFFICES ASSUME IInv, EInv, MergeBlock PROVE EInv'
  OBVIOUS
<1>. DEFINE bb1 == fn.order[next]
<1>1. PICK bb2 \in Block : Candidate(bb1, bb2) /\ targets' = UpdateBranchTargets(bb1, bb2)
  BY DEF MergeBlock
<1>2. /\ fn \in Functions /\ targets \in [Block -> Seq(Block)] /\ bb1 \in Block
      /\ delete_list' = delete_list \cup {bb1} /\ UNCHANGED <<fn, incoming, alive, status>>
  <2>1. fn \in Functions /\ targets \in [Block -> Seq(Block)] /\ next \in 1 .. Len(fn.order) + 1
    BY DEF IInv, Typed, TypeOK
  <2>2. fn.order \in Seq(Block) /\ next <= Len(fn.order)
    BY <2>1, FunctionFacts DEF MergeBlock, Walking
  <2>3. bb1 \in Block
    BY <2>1, <2>2
  <2>. QED  BY <2>1, <2>3 DEF MergeBlock
<1>. HIDE DEF bb1
<1>3. Erasable'
  <2>1. fn.kind[bb1] = "br"
    BY <1>1 DEF Candidate, MayMerge, Unconditional
  <2>. QED  BY <1>2, <2>1 DEF EInv, Erasable
<1>4. ASSUME NoPhiMerged' PROVE EntriesAreEdges' /\ status' \notin {"rejected", "undefined"}
  <2>1. ~HasPhi(bb1) /\ NoPhiMerged
    BY <1>2, <1>4 DEF NoPhiMerged, HasPhi
  <2>2. EntriesAreEdges /\ status \notin {"rejected", "undefined"}
    BY <2>1 DEF EInv
  <2>3. ASSUME NEW s \in Block \ delete_list', NEW p \in Phis(s)
        PROVE  s # bb1 /\ s # bb2 /\ s \in Block \ delete_list
    <3>1. HasPhi(s)
      BY <1>2, FirstPhi
    <3>2. SameCode(bb1, bb2)
      BY <1>1, <1>2, MergedSameCode
    <3>3. fn.body[bb1] \in Seq(Inst) /\ fn.body[bb2] \in Seq(Inst)
      BY <1>2, FunctionFacts
    <3>4. ~HasPhi(bb2)
      <4>1. SUFFICES ASSUME HasPhi(bb2) PROVE FALSE
        OBVIOUS
      <4>2. 1 \in DOMAIN fn.body[bb2] /\ fn.body[bb2][1] \in fn.phi
        BY <3>3, <4>1 DEF HasPhi
      <4>3. 1 \in DOMAIN fn.body[bb1] /\ fn.body[bb1][1] \in fn.phi
        BY <3>2, <4>2 DEF SameCode
      <4>. QED  BY <2>1, <3>3, <4>3 DEF HasPhi
    <3>. QED  BY <1>2, <2>1, <3>1, <3>4
  <2>4. ASSUME NEW s \in Block, s # bb1, s # bb2, NEW b \in Block
        PROVE  NumEdges(targets', b, s) = NumEdges(targets, b, s)
    <3>1. /\ DOMAIN targets'[b] = DOMAIN targets[b]
          /\ \A k \in DOMAIN targets[b] : targets'[b][k] = IF targets[b][k] = bb1 THEN bb2 ELSE targets[b][k]
      BY <1>1, <1>2, RedirectedType
    <3>2. \A k \in DOMAIN targets[b] : targets'[b][k] = s <=> targets[b][k] = s
      BY <2>4, <3>1
    <3>3. {k \in DOMAIN targets'[b] : targets'[b][k] = s} = {k \in DOMAIN targets[b] : targets[b][k] = s}
      BY <3>1, <3>2
    <3>. QED  BY <3>3 DEF NumEdges
  <2>5. \A s : Phis(s)' = Phis(s)
    BY <1>2 DEF Phis
  <2>6. ASSUME NEW s \in Block \ delete_list', NEW p \in Phis(s), NEW b \in Block
        PROVE  Cardinality(EntriesIn(incoming, p, b)) = IF b \in alive THEN NumEdges(targets', b, s) ELSE 0
    <3>1. s # bb1 /\ s # bb2 /\ s \in Block \ delete_list
      BY <2>3
    <3>2. Cardinality(EntriesIn(incoming, p, b)) = IF b \in alive THEN NumEdges(targets, b, s) ELSE 0
      BY <2>2, <3>1 DEF EntriesAreEdges
    <3>. QED  BY <2>4, <3>1, <3>2
  <2>7. EntriesAreEdges'
    BY <1>2, <2>5, <2>6 DEF EntriesAreEdges
  <2>. QED  BY <1>2, <2>2, <2>7
<1>. QED  BY <1>3, <1>4 DEF EInv

\* No entry for a block that is met in the walk is missing.
LEMMA WalkEntries == IInv /\ EInv /\ ReadMissingEntry => EInv'
<1>. SUFFICES ASSUME IInv, EInv, ReadMissingEntry, NoPhiMerged PROVE FALSE
  BY DEF ReadMissingEntry, EInv, Erasable, NoPhiMerged, HasPhi
<1>. DEFINE bb1 == fn.order[next]
            s == targets[bb1][1]
<1>1. /\ Typed /\ fn \in Functions /\ targets \in [Block -> Seq(Block)]
      /\ \A b \in Block : DOMAIN targets[b] = DOMAIN fn.targets[b]
      /\ next \in 1 .. Len(fn.order) + 1 /\ DeadBlocksUntargeted /\ EntriesAreEdges
      /\ Block \ delete_list \subseteq alive /\ delete_list \subseteq Block
  BY DEF IInv, Typed, TypeOK, Safe, EInv, Erasable
<1>2. next \in DOMAIN fn.order /\ bb1 \in Block /\ next \in Nat
  <2>1. fn.order \in Seq(Block) /\ next <= Len(fn.order)
    BY <1>1, FunctionFacts DEF ReadMissingEntry, Walking
  <2>. QED  BY <1>1, <2>1
<1>3. bb1 \notin delete_list
  <2>. SUFFICES ASSUME bb1 \in delete_list PROVE FALSE
    OBVIOUS
  <2>1. PICK n \in 1 .. next - 1 : fn.order[n] = bb1
    BY <1>1 DEF DeadBlocksUntargeted
  <2>2. n \in DOMAIN fn.order /\ n # next
    <3>1. fn.order \in Seq(Block)
      BY <1>1, FunctionFacts
    <3>. QED  BY <1>2, <3>1
  <2>. QED  BY <1>1, <1>2, <2>1, <2>2, FunctionFacts
<1>4. fn.kind[bb1] = "br"
  BY DEF ReadMissingEntry, MayMerge, Unconditional
<1>5. 1 \in DOMAIN targets[bb1] /\ s \in Block \ delete_list
  <2>1. 1 \in DOMAIN targets[bb1]
    BY <1>1, <1>2, <1>4, JumpTarget
  <2>2. targets[bb1] \in Seq(Block)
    BY <1>1, <1>2
  <2>. HIDE DEF bb1
  <2>3. s \in Block
    BY <2>1, <2>2
  <2>. QED  BY <1>1, <1>2, <2>1, <2>3 DEF DeadBlocksUntargeted
<1>6. ~Missing(bb1, s)
  BY <1>1, <1>2, <1>3, <1>5, MissingNoEdge
<1>7. ASSUME NEW bb2 \in Block, Comparable(bb1, bb2) PROVE ~Missing(bb2, s)
  <2>1. bb2 \notin delete_list /\ \E k \in DOMAIN targets[bb2] : targets[bb2][k] = s
    BY <1>7 DEF Comparable, Preds
  <2>2. PICK k \in DOMAIN targets[bb2] : targets[bb2][k] = s
    BY <2>1
  <2>. QED  BY <1>1, <1>5, <2>1, <2>2, MissingNoEdge
<1>. QED  BY <1>6, <1>7 DEF ReadMissingEntry

\* A block that is erased is still in every PHI that it jumps to, and in no other.
LEMMA DeleteEntries == IInv /\ EInv /\ DeleteBlock => EInv'
<1>. SUFFICES ASSUME IInv, EInv, DeleteBlock PROVE EInv'
  OBVIOUS
<1>1. PICK bb \in delete_list \cap alive :
        /\ alive' = alive \ {bb}
        /\ IF \/ Preds(bb) \cap alive # {}
              \/ \E p \in Phis(targets[bb][1]) : EntriesIn(incoming, p, bb) = {}
           THEN status' = "undefined" /\ UNCHANGED incoming
           ELSE incoming' = WithoutPredecessor(bb) /\ UNCHANGED status
  BY DEF DeleteBlock
<1>2. /\ Typed /\ fn \in Functions /\ targets \in [Block -> Seq(Block)] /\ bb \in Block
      /\ \A b \in Block : DOMAIN targets[b] = DOMAIN fn.targets[b]
      /\ DeadBlocksUntargeted /\ fn.kind[bb] = "br" /\ Erasable /\ DOMAIN incoming = Inst
      /\ UNCHANGED <<fn, targets, delete_list>>
  BY DEF IInv, Typed, TypeOK, Safe, EInv, Erasable, DeleteBlock
<1>3. Erasable'
  BY <1>1, <1>2 DEF Erasable
<1>4. ASSUME NoPhiMerged' PROVE EntriesAreEdges' /\ status' \notin {"rejected", "undefined"}
  <2>. DEFINE s == targets[bb][1]
  <2>1. NoPhiMerged /\ EntriesAreEdges /\ status \notin {"rejected", "undefined"}
    BY <1>2, <1>4 DEF NoPhiMerged, HasPhi, EInv
  <2>2. DOMAIN targets[bb] = {1} /\ s \in Block \ delete_list
    <3>1. DOMAIN targets[bb] = {1} /\ targets[bb] \in Seq(Block)
      BY <1>2, JumpTarget
    <3>2. s \in Block
      BY <3>1
    <3>. QED  BY <1>2, <3>1, <3>2 DEF DeadBlocksUntargeted
  <2>3. Preds(bb) = {}
    BY <1>2 DEF Preds, DeadBlocksUntargeted
  <2>4. ASSUME NEW p \in Phis(s) PROVE EntriesIn(incoming, p, bb) # {}
    <3>1. Cardinality(EntriesIn(incoming, p, bb)) = NumEdges(targets, bb, s)
      BY <1>2, <2>1, <2>2 DEF EntriesAreEdges
    <3>2. p \in Inst
      BY <1>2, <2>2, FirstPhi
    <3>. QED  BY <1>2, <2>2, <3>1, <3>2, EdgeHasEntry
  <2>5. incoming' = WithoutPredecessor(bb) /\ status' = status
    BY <1>1, <2>3, <2>4
  <2>6. ASSUME NEW c \in Block \ delete_list, NEW p \in Phis(c), NEW b \in Block
        PROVE  Cardinality(EntriesIn(incoming', p, b)) = IF b \in alive' THEN NumEdges(targets, b, c) ELSE 0
    <3>1. p \in Inst
      BY <1>2, FirstPhi
    <3>2. Cardinality(EntriesIn(incoming, p, b)) = IF b \in alive THEN NumEdges(targets, b, c) ELSE 0
      BY <2>1 DEF EntriesAreEdges
    <3>3. CASE b # bb
      <4>1. /\ \A k \in DOMAIN incoming'[p] : k \in DOMAIN incoming[p] /\ incoming'[p][k] = incoming[p][k]
            /\ \A k \in DOMAIN incoming[p] : incoming[p][k][1] # bb => k \in DOMAIN incoming'[p]
        BY <2>5, <3>1 DEF WithoutPredecessor, EntriesIn
      <4>2. EntriesIn(incoming', p, b) = EntriesIn(incoming, p, b)
        BY <3>3, <4>1 DEF EntriesIn
      <4>. QED  BY <1>1, <3>2, <3>3, <4>2
    <3>4. CASE b = bb
      <4>1. EntriesIn(incoming', p, bb) = {}
        <5>1. CASE p \in Phis(s)
          <6>1. incoming'[p] = [k \in DOMAIN incoming[p] \ EntriesIn(incoming, p, bb) |-> incoming[p][k]]
            BY <2>5, <3>1, <5>1 DEF WithoutPredecessor
          <6>. QED  BY <6>1 DEF EntriesIn
        <5>2. CASE p \notin Phis(s)
          <6>1. c # s
            BY <5>2
          <6>2. {k \in DOMAIN targets[bb] : targets[bb][k] = c} = {}
            BY <2>2, <6>1
          <6>3. NumEdges(targets, bb, c) = 0
            BY <6>2, FS_EmptySet DEF NumEdges
          <6>4. Cardinality(EntriesIn(incoming, p, bb)) = 0
            BY <3>2, <3>4, <6>3
          <6>5. IsFiniteSet(EntriesIn(incoming, p, bb))
            <7>1. DOMAIN incoming[p] \subseteq DOMAIN fn.incoming[p]
              BY <1>2, <3>1 DEF Typed, TypeOK
            <7>2. fn.incoming[p] \in Seq(Block \X Val)
              BY <1>2, <3>1, FunctionFacts
            <7>3. IsFiniteSet(1 .. Len(fn.incoming[p])) /\ DOMAIN fn.incoming[p] = 1 .. Len(fn.incoming[p])
              BY <7>2, FS_Interval
            <7>4. EntriesIn(incoming, p, bb) \subseteq 1 .. Len(fn.incoming[p])
              BY <7>1, <7>3 DEF EntriesIn
            <7>. QED  BY <7>3, <7>4, FS_Subset
          <6>6. EntriesIn(incoming, p, bb) = {}
            BY <6>4, <6>5, FS_EmptySet
          <6>7. incoming'[p] = incoming[p]
            BY <2>5, <3>1, <5>2 DEF WithoutPredecessor
          <6>. QED  BY <6>6, <6>7 DEF EntriesIn
        <5>. QED  BY <5>1, <5>2
      <4>2. bb \notin alive'
        BY <1>1
      <4>. QED  BY <3>4, <4>1, <4>2, FS_EmptySet
    <3>. QED  BY <3>3, <3>4
  <2>7. \A c : Phis(c)' = Phis(c)
    BY <1>2 DEF Phis
  <2>8. EntriesAreEdges'
    BY <1>2, <2>6, <2>7 DEF EntriesAreEdges
  <2>. QED  BY <2>1, <2>5, <2>8
<1>. QED  BY <1>3, <1>4 DEF EInv

LEMMA NextEntries == IInv /\ EInv /\ [Next]_vars => EInv'
<1>. SUFFICES ASSUME IInv, EInv, [Next]_vars PROVE EInv'
  OBVIOUS
<1>1. CASE MergeBlock  BY <1>1, MergeEntries
<1>2. CASE ReadMissingEntry  BY <1>2, WalkEntries
<1>3. CASE DeleteBlock  BY <1>3, DeleteEntries
<1>4. CASE Verify
  <2>1. UNCHANGED <<fn, targets, incoming, alive, delete_list>>
    BY <1>4 DEF Verify
  <2>2. Erasable' /\ (NoPhiMerged' <=> NoPhiMerged) /\ (EntriesAreEdges' <=> EntriesAreEdges)
    BY <2>1 DEF EInv, Erasable, NoPhiMerged, HasPhi, EntriesAreEdges, Phis
  <2>3. ASSUME NoPhiMerged, EntriesAreEdges PROVE PhisMatchEdges
    <3>1. alive \subseteq Block /\ alive \cap delete_list = {}
      BY <1>4 DEF IInv, Typed, TypeOK, Verify
    <3>. QED  BY <2>3, <3>1 DEF PhisMatchEdges, EntriesAreEdges
  <2>4. PhisMatchEdges => status' = "written"
    BY <1>4 DEF Verify
  <2>. QED  BY <2>2, <2>3, <2>4 DEF EInv
<1>5. CASE AssertionFails \/ KeepBlock \/ UNCHANGED vars
  <2>1. UNCHANGED <<fn, targets, incoming, alive, delete_list>> /\ status' \in {status, "aborted"}
    BY <1>5 DEF AssertionFails, KeepBlock, vars
  <2>2. Erasable' /\ (NoPhiMerged' <=> NoPhiMerged) /\ (EntriesAreEdges' <=> EntriesAreEdges)
    BY <2>1 DEF EInv, Erasable, NoPhiMerged, HasPhi, EntriesAreEdges, Phis
  <2>. QED  BY <2>1, <2>2 DEF EInv
<1>. QED  BY <1>1, <1>2, <1>3, <1>4, <1>5 DEF Next, Terminating

\* Only a merged block with a PHI makes verifyModule refuse the module or lets the
\* pass read an entry that is not there: the one gap is UpdateBranchTargets'.
THEOREM OnlyPhisGoWrong == Spec => []BadOutcomeNeedsPhi
<1>1. Init => EInv
  BY InitEntries
<1>2. EInv => BadOutcomeNeedsPhi
  BY DEF EInv, NoPhiMerged, BadOutcomeNeedsPhi
<1>. QED  BY <1>1, <1>2, NextEntries, Invariance, PTL DEF Spec
=============================================================================
