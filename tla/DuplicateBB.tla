---------------------------- MODULE DuplicateBB ----------------------------
(***************************************************************************)
(* The pass src/llvm-tutor/duplicate_bb/duplicate_bb.cc on one function:   *)
(* FindBBsToDuplicate chooses a context value for every block that has a   *)
(* reachable integer value, then CloneBB, block by block, splits a block   *)
(* at its first non-PHI into                                               *)
(*                                                                         *)
(*       head --> then | else --> tail                                     *)
(*                                                                         *)
(* and moves every instruction from the tail to both branches, one at a    *)
(* time, leaving a PHI in its place.  A context value was chosen before    *)
(* the instruction that defines it was erased: re_mapper has to keep up.   *)
(***************************************************************************)
EXTENDS Dominators, Integers, FiniteSets, SequencesExt

CONSTANTS
  Inst,        \* the instructions of the function, terminators included if they
               \* have a value (invoke)
  Leaf,        \* arguments and constants
  Functions    \* the functions the pass is run on

NoInst == "none"

(***************************************************************************)
(* The values: of the instructions that are read, of their copies in the   *)
(* branches, of the PHIs that replace them, the conditions, and leaves.    *)
(* ("term" stands for a terminator, which has operands.)                   *)
(***************************************************************************)
Copies == {"then", "else", "phi"} \X Inst
Value == ({"inst"} \X Inst) \cup Copies \cup ({"cond", "term"} \X Block) \cup ({"leaf"} \X Leaf)

\* What a value is a copy of.
Origin(v) == IF v \in Copies THEN <<"inst", v[2]>> ELSE v

Parts == {"head", "then", "else", "tail"}
Piece == Block \X Parts

\* In the function f as it is read (see WellFormed), is the value v defined on every
\* path to position n of block b?
ReadDominates(f, v, b, n) ==
  \/ v[1] = "leaf"
  \/ b \notin Reached(f)
  \/ \E a \in Block : v = <<"inst", f.result[a]>> /\ EdgeDominates(f, a, f.normal[a], b)
  \/ \E m \in DOMAIN f.body[b] : m < n /\ v = <<"inst", f.body[b][m]>>
  \/ \E a \in Block : StrictlyDominates(f, a, b) /\ v \in {"inst"} \X Range(f.body[a])

ReadAtEnd(f, v, b) == ReadDominates(f, v, b, Len(f.body[b]) + 1)

\* A PHI uses an operand at the end of the block it comes from.
UsesDominated(f) ==
  /\ \A b \in Block : \A n \in DOMAIN f.body[b] :
       LET j == f.body[b][n]
           ops == f.opnds[<<"inst", j>>]
       IN  \A k \in DOMAIN ops : IF j \in f.phis THEN ReadAtEnd(f, ops[k], f.from[j][k])
                                                ELSE ReadDominates(f, ops[k], b, n)
  /\ \A b \in Block : \A k \in DOMAIN f.opnds[<<"term", b>>] : ReadAtEnd(f, f.opnds[<<"term", b>>][k], b)

(***************************************************************************)
(* A function that is read: its graph (f.entry, f.succ), the layout order, *)
(* the landing pads, the instructions of each block, PHIs first, with      *)
(* their operands, which of them are void or integers, the incoming blocks *)
(* of the PHIs, and for an invoke its value and where it goes on normally. *)
(***************************************************************************)
WellFormed(f) ==
  /\ f.entry \in Block
  /\ f.succ \in [Block -> SUBSET (Block \ {f.entry})]
  /\ f.order \in Seq(Block) /\ IsInjective(f.order)
  /\ f.pads \subseteq Block
  /\ f.body \in [Block -> Seq(Inst)]
  /\ \A b, c \in Block : \A m \in DOMAIN f.body[b], n \in DOMAIN f.body[c] :
       f.body[b][m] = f.body[c][n] => b = c /\ m = n
  /\ \A b \in Block : \E n \in 0 .. Len(f.body[b]) :
       \A k \in DOMAIN f.body[b] : f.body[b][k] \in f.phis <=> k <= n
  /\ f.phis \subseteq Inst /\ f.void \subseteq Inst \ f.phis
  /\ f.int \subseteq Inst \ f.void
  /\ f.opnds \in [({"inst"} \X UNION {Range(f.body[b]) : b \in Block}) \cup ({"term"} \X Block) ->
                  Seq(({"inst"} \X (Inst \ f.void)) \cup ({"leaf"} \X Leaf))]
  /\ f.from \in [f.phis -> Seq(Block)]
  /\ \A b \in Block : \A j \in f.phis \cap Range(f.body[b]) :
       DOMAIN f.from[j] = DOMAIN f.opnds[<<"inst", j>>]
  /\ f.result \in [Block -> Inst \cup {NoInst}]
  /\ \A a, b \in Block : f.result[a] \notin Range(f.body[b])
  /\ f.normal \in [Block -> Block]
  /\ f.args \subseteq Leaf
  /\ UsesDominated(f)

ASSUME FunctionsAssumption == NoInst \notin Inst /\ \A f \in Functions : WellFormed(f)

VARIABLES
  fn,          \* the function as it was read
  targets,     \* blocks_to_duplicate: <<block, context value>>
  cloned,      \* how many of them CloneBB is done with
  phase,       \* "find", "split", "copy", "purge" or "done"
  code,        \* the instructions of each piece, terminators excepted
  opnds,       \* the operands of every instruction that is there
  then_map,
  else_map,
  re_mapper,
  iter,        \* the position of the loop over the blocks, or of CloneBB's in the tail
  to_remove    \* what CloneBB still has to erase

vars == <<fn, targets, cloned, phase, code, opnds, then_map, else_map, re_mapper, iter, to_remove>>

EmptyMap == [v \in {} |-> v]
Put(map, v, w) == [x \in DOMAIN map \cup {v} |-> IF x = v THEN w ELSE map[x]]
Forget(map, v) == [x \in DOMAIN map \ {v} |-> map[x]]
Remap(map, s) == [k \in DOMAIN s |-> IF s[k] \in DOMAIN map THEN map[s[k]] ELSE s[k]]

Insts(s) == [k \in DOMAIN s |-> <<"inst", s[k]>>]

\* The integer values of a block, an invoke's included.
Ints(b) == {<<"inst", j>> : j \in fn.int \cap (Range(fn.body[b]) \cup {fn.result[b]})}

\* What riv::BuildRiv returns (Riv.tla, OnlyIdomValues).
Rivs(b) == IF b = fn.entry THEN {"leaf"} \X fn.args
           ELSE UNION {Ints(a) : a \in {c \in Block : b \in Children(fn, c)}}

Init ==
  /\ fn \in Functions
  /\ targets = << >>
  /\ cloned = 0
  /\ phase = "find"
  /\ code = [p \in Piece |-> IF p[2] = "head" THEN Insts(fn.body[p[1]]) ELSE << >>]
  /\ opnds = fn.opnds
  /\ then_map = EmptyMap
  /\ else_map = EmptyMap
  /\ re_mapper = EmptyMap
  /\ iter = 1
  /\ to_remove = << >>

-----------------------------------------------------------------------------
(* FindBBsToDuplicate.                                                     *)

AtBlock == phase = "find" /\ iter <= Len(fn.order)
Suitable(b) == b \notin fn.pads /\ Rivs(b) # {}

SkipBlock ==
  /\ AtBlock /\ ~Suitable(fn.order[iter])
  /\ iter' = iter + 1
  /\ UNCHANGED <<fn, targets, cloned, phase, code, opnds, then_map, else_map, re_mapper, to_remove>>

\* With any outcome of the random generator.  No RIV is a GlobalValue: BuildRiv never
\* takes one.
ChooseContext ==
  /\ AtBlock /\ Suitable(fn.order[iter])
  /\ \E context \in Rivs(fn.order[iter]) : targets' = Append(targets, <<fn.order[iter], context>>)
  /\ iter' = iter + 1
  /\ UNCHANGED <<fn, cloned, phase, code, opnds, then_map, else_map, re_mapper, to_remove>>

ReturnTargets ==
  /\ phase = "find" /\ iter > Len(fn.order)
  /\ phase' = "split"
  /\ UNCHANGED <<fn, targets, cloned, code, opnds, then_map, else_map, re_mapper, iter, to_remove>>

-----------------------------------------------------------------------------
(* CloneBB.                                                                *)

Target == targets[cloned + 1][1]

\* The faults seeded in this module, each named after the definition it replaces and
\* ending in _bug, show that the properties below can fail.

\* Tests the context as it was chosen, erased or not.
Tested_bug(context) == context

\* Takes any PHI the map has for the one of the context value.
Tested_any_bug(context) ==
  IF context \in DOMAIN re_mapper THEN CHOOSE phi \in Range(re_mapper) : TRUE ELSE context

\* The value CreateIsNull tests: what now stands for the context value.
Tested(context) == IF context \in DOMAIN re_mapper THEN re_mapper[context] ELSE context

\* The first position of s that has no PHI; the terminator's, if all have one.
FirstNonPHI(s) ==
  CHOOSE n \in 1 .. Len(s) + 1 : /\ \A k \in 1 .. n - 1 : s[k][2] \in fn.phis
                                 /\ n <= Len(s) => s[n][2] \notin fn.phis

\* The condition and SplitBlockAndInsertIfThenElse, at the first non-PHI.  The
\* terminator moves to the tail, and the PHIs of the successors see it there.
SplitBlock ==
  /\ phase = "split"
  /\ cloned < Len(targets)
  /\ LET b == Target
         all == code[<<b, "head">>]
         bb_head == FirstNonPHI(all)
     IN  /\ code' = [code EXCEPT ![<<b, "head">>] = Append(SubSeq(all, 1, bb_head - 1), <<"cond", b>>),
                                 ![<<b, "tail">>] = SubSeq(all, bb_head, Len(all))]
         /\ opnds' = Put(opnds, <<"cond", b>>, <<Tested(targets[cloned + 1][2])>>)
  /\ then_map' = EmptyMap /\ else_map' = EmptyMap
  /\ iter' = 1
  /\ to_remove' = << >>
  /\ phase' = "copy"
  /\ UNCHANGED <<fn, targets, cloned, re_mapper>>

Rest == code[<<Target, "tail">>]
AtInst == phase = "copy" /\ iter <= Len(Rest)

\* The maps as plain maps would be: their keys stay.
Follow_bug(map, old, new) == map

\* The keys of a ValueMap follow a replaceAllUsesWith of old by new.
Follow(map, old, new) ==
  IF old \in DOMAIN map
  THEN [v \in (DOMAIN map \ {old}) \cup {new} |-> IF v = new THEN map[old] ELSE map[v]]
  ELSE map

\* The operands of a clone, in the branch whose clones are in map.
Copied(map, v) == Remap(map, opnds[v])

\* An instruction with a value: cloned into both branches and replaced, in the tail
\* and wherever it is used, by a PHI of the two clones.
CloneInst ==
  /\ AtInst /\ Rest[iter][2] \notin fn.void
  /\ LET v == Rest[iter]
         t == <<"then", v[2]>>
         e == <<"else", v[2]>>
         phi == <<"phi", v[2]>>
         withClones == Put(Put(opnds, t, Copied(then_map, v)), e, Copied(else_map, v))
         replaced == [x \in DOMAIN withClones \ {v} |-> Remap([y \in {v} |-> phi], withClones[x])]
     IN  /\ code' = [code EXCEPT ![<<Target, "then">>] = Append(@, t),
                                 ![<<Target, "else">>] = Append(@, e),
                                 ![<<Target, "tail">>] = [@ EXCEPT ![iter] = phi]]
         /\ opnds' = Put(replaced, phi, <<t, e>>)
         /\ then_map' = Follow(Put(then_map, v, t), v, phi)
         /\ else_map' = Follow(Put(else_map, v, e), v, phi)
         /\ re_mapper' = Put(re_mapper, v, phi)
  /\ iter' = iter + 1
  /\ UNCHANGED <<fn, targets, cloned, phase, to_remove>>

\* One without: cloned, and to be removed from the tail.
CloneVoidInst ==
  /\ AtInst /\ Rest[iter][2] \in fn.void
  /\ LET v == Rest[iter]
         t == <<"then", v[2]>>
         e == <<"else", v[2]>>
     IN  /\ code' = [code EXCEPT ![<<Target, "then">>] = Append(@, t),
                                 ![<<Target, "else">>] = Append(@, e)]
         /\ opnds' = Put(Put(opnds, t, Copied(then_map, v)), e, Copied(else_map, v))
         /\ then_map' = Put(then_map, v, t)
         /\ else_map' = Put(else_map, v, e)
         /\ to_remove' = Append(to_remove, v)
  /\ iter' = iter + 1
  /\ UNCHANGED <<fn, targets, cloned, phase, re_mapper>>

\* At the terminator, whose operands are PHIs of the tail already, the loop ends.
EndOfTail ==
  /\ phase = "copy" /\ iter > Len(Rest)
  /\ phase' = "purge"
  /\ UNCHANGED <<fn, targets, cloned, code, opnds, then_map, else_map, re_mapper, iter, to_remove>>

\* Keeps the instruction in the tail.
Purged_bug(s, v) == s

Purged(s, v) == RemoveAt(s, CHOOSE k \in DOMAIN s : s[k] = v)

\* The maps forget an instruction that is erased.
EraseInst ==
  /\ phase = "purge" /\ to_remove # << >>
  /\ LET v == Head(to_remove) IN
       /\ code' = [code EXCEPT ![<<Target, "tail">>] = Purged(@, v)]
       /\ opnds' = Forget(opnds, v)
       /\ then_map' = Forget(then_map, v)
       /\ else_map' = Forget(else_map, v)
  /\ to_remove' = Tail(to_remove)
  /\ UNCHANGED <<fn, targets, cloned, phase, re_mapper, iter>>

EndOfPurge ==
  /\ phase = "purge" /\ to_remove = << >>
  /\ cloned' = cloned + 1
  /\ phase' = "split"
  /\ UNCHANGED <<fn, targets, code, opnds, then_map, else_map, re_mapper, iter, to_remove>>

Finish ==
  /\ phase = "split" /\ cloned = Len(targets)
  /\ phase' = "done"
  /\ UNCHANGED <<fn, targets, cloned, code, opnds, then_map, else_map, re_mapper, iter, to_remove>>

Terminating == phase = "done" /\ UNCHANGED vars

Next ==
  \/ SkipBlock \/ ChooseContext \/ ReturnTargets
  \/ SplitBlock \/ CloneInst \/ CloneVoidInst \/ EndOfTail \/ EraseInst \/ EndOfPurge
  \/ Finish \/ Terminating

Spec == Init /\ [][Next]_vars
-----------------------------------------------------------------------------
(* Properties.                                                             *)

\* The loop never meets a PHI of the tail again (the assertion of line 198); the keys
\* of then_map and else_map are never erased instructions, their values never clones
\* of the other branch.
TypeOK ==
  /\ targets \in Seq(Block \X Value)
  /\ cloned \in 0 .. Len(targets)
  /\ phase \in {"find", "split", "copy", "purge", "done"}
  /\ code \in [Piece -> Seq(Value)]
  /\ opnds \in [DOMAIN opnds -> Seq(Value)] /\ DOMAIN opnds \subseteq Value
  /\ iter \in Nat
  /\ phase = "copy" => \A k \in iter .. Len(Rest) : Rest[k] \in {"inst"} \X (Inst \ fn.phis)
  /\ to_remove \in Seq({"inst"} \X fn.void)
  /\ DOMAIN re_mapper \subseteq {"inst"} \X Inst /\ Range(re_mapper) \subseteq {"phi"} \X Inst
  /\ phase \in {"copy", "purge"} => DOMAIN then_map \cup DOMAIN else_map \subseteq Range(Rest)
  /\ Range(then_map) \subseteq {"then"} \X Inst /\ Range(else_map) \subseteq {"else"} \X Inst

IsSplit(b) == code[<<b, "head">>] # << >> /\ Last(code[<<b, "head">>]) = <<"cond", b>>
LastPart(b) == IF IsSplit(b) THEN "tail" ELSE "head"
InvokeValue(v) == \E a \in Block : v = <<"inst", fn.result[a]>>

\* Is v computed whenever control is in b, before the position n of its part?  A
\* block of the input still has one way in, the head, and one way out, so blocks
\* dominate each other as they did; of a split block, only head and tail do.
Defined(v, b, part, n) ==
  \/ v[1] = "leaf"
  \/ b \notin Reached(fn)
  \/ \E a \in Block : v = <<"inst", fn.result[a]>> /\ EdgeDominates(fn, a, fn.normal[a], b)
  \/ \E m \in DOMAIN code[<<b, part>>] : code[<<b, part>>][m] = v /\ m < n
  \/ part # "head" /\ Contains(code[<<b, "head">>], v)
  \/ \E a \in Block : /\ StrictlyDominates(fn, a, b)
                      /\ \/ Contains(code[<<a, "head">>], v)
                         \/ Contains(code[<<a, "tail">>], v)

AtEnd(v, b) == Defined(v, b, LastPart(b), Len(code[<<b, LastPart(b)>>]) + 1)

\* Is every operand of the instruction at n defined where it is used?  A PHI uses
\* an operand at the end of the block it comes from.
OperandsDefined(b, part, n) ==
  LET v == code[<<b, part>>][n] IN
    CASE v[1] = "phi" -> /\ Contains(code[<<b, "then">>], opnds[v][1])
                         /\ Contains(code[<<b, "else">>], opnds[v][2])
      [] v[1] = "inst" /\ v[2] \in fn.phis ->
           \A k \in DOMAIN opnds[v] : AtEnd(opnds[v][k], fn.from[v[2]][k])
      [] OTHER -> \A k \in DOMAIN opnds[v] :
                    Defined(opnds[v][k], b, part, n) \/ (v[1] = "cond" /\ InvokeValue(opnds[v][k]))

\* After every single step of the pass each operand, of a clone, a condition, a PHI, a
\* terminator or an instruction still to be cloned, is a value that exists and is
\* defined on every path to its use: none is left that was erased, none was taken
\* from the other branch or from the tail.
OperandsAvailable ==
  /\ \A b \in Block, part \in Parts : \A n \in DOMAIN code[<<b, part>>] : OperandsDefined(b, part, n)
  /\ \A b \in Block : \A k \in DOMAIN opnds[<<"term", b>>] : AtEnd(opnds[<<"term", b>>][k], b)

\* Whichever branch is taken a value is computed as it was: copies have the operands
\* of the original up to what these are copies of, PHIs and terminators too, and a
\* condition tests the context value chosen for its block.
SameComputation ==
  \A v \in DOMAIN opnds : v[1] # "phi" =>
    [k \in DOMAIN opnds[v] |-> Origin(opnds[v][k])] =
      IF v[1] = "cond" THEN <<(CHOOSE t \in Range(targets) : t[1] = v[2])[2]>>
                       ELSE fn.opnds[Origin(v)]

\* s is t without what is not in S.
IsFiltered(s, t, S) ==
  \E at \in [DOMAIN s -> DOMAIN t] :
    /\ \A m, n \in DOMAIN s : m < n => at[m] < at[n]
    /\ Range(at) = {k \in DOMAIN t : t[k] \in S}
    /\ \A n \in DOMAIN s : s[n] = t[at[n]]

\* Both branches of a duplicated block do what the block did after its PHIs, each
\* instruction once and in order; what is left in the tail has no effect of its own: it
\* is a PHI for each value.
EffectsOnce ==
  \A k \in 1 .. cloned :
    LET b == targets[k][1]
        body == fn.body[b]
    IN  \E n \in 0 .. Len(body) :
          LET rest == SubSeq(body, n + 1, Len(body)) IN
            /\ \A m \in DOMAIN body : body[m] \in fn.phis <=> m <= n
            /\ code[<<b, "head">>] = Append(Insts(SubSeq(body, 1, n)), <<"cond", b>>)
            /\ \A part \in {"then", "else"} :
                 code[<<b, part>>] = [m \in DOMAIN rest |-> <<part, rest[m]>>]
            /\ IsFiltered(code[<<b, "tail">>], [m \in DOMAIN rest |-> <<"phi", rest[m]>>],
                          {"phi"} \X (Inst \ fn.void))

\* duplicate_bb.h:31-33 says that a block is mapped to a value that is reachable in it.
ContextReachable ==
  \A k \in DOMAIN targets :
    phase = "split" /\ cloned = 0 => Defined(targets[k][2], targets[k][1], "head", 1)
=============================================================================
