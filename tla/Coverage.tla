------------------------------ MODULE Coverage ------------------------------
(***************************************************************************)
(* The edge coverage of src/work/work4: RunOnModule of my_clang_wrapper.cc *)
(* gives each block of a module a random number and puts code at its head  *)
(* that counts, in a byte of the shared map, the edge from the block that  *)
(* was executed before.  The module models the runs of the wrapper, one or *)
(* several, that instrument the modules of a program, and the threads of   *)
(* that program, which share the map but not __mcw_prev_loc.               *)
(***************************************************************************)
EXTENDS Integers, Sequences, FiniteSets

CONSTANTS
  Modules,     \* the modules of the program: sequences of blocks
  Thread,      \* the threads of the program
  MapSize,     \* kMapSize, 2^16
  Modulus,     \* where a counter wraps: 2^8 in the code, an i8
  Rand,        \* bound: the beginnings of the sequences that rand() may return
  BitXor(_, _), \* exclusive or
  MaxEntries   \* bound: the blocks that a thread enters

Block == UNION {{m[k] : k \in DOMAIN m} : m \in Modules}
Loc == 0 .. MapSize - 1
Outside == "outside"

\* A block occurs once.
ASSUME CoverageAssumption ==
  /\ \A m \in Modules : m \in Seq(Block)
  /\ \A m, n \in Modules : \A j \in DOMAIN m, k \in DOMAIN n : m[j] = n[k] => m = n /\ j = k
  /\ Outside \notin Block
  /\ MapSize \in Nat \ {0} /\ Modulus \in Nat \ {0} /\ MaxEntries \in Nat
  /\ \A r \in Rand : r \in Seq(Nat)

\* What is used of an exclusive or.
ASSUME XorAssumption ==
  \A i, j, k \in Loc :
    /\ BitXor(i, j) \in Loc
    /\ BitXor(i, j) = BitXor(j, i)
    /\ BitXor(i, BitXor(j, k)) = BitXor(BitXor(i, j), k)
    /\ BitXor(i, 0) = i
    /\ BitXor(i, j) = 0 <=> i = j
    /\ BitXor(i \div 2, j \div 2) = BitXor(i, j) \div 2

VARIABLES
  phase,       \* "build", "run" or "over"
  rand,        \* the sequence that rand() returns: it is never seeded
  drawn,       \* how many of it the running wrapper has drawn
  process,     \* history: the number of that run of the wrapper
  loc,         \* cur_loc of the blocks that are instrumented
  by,          \* history: the run that instrumented them, and which draw it was
  area,        \* __mcw_area_initial
  prev_loc,    \* __mcw_prev_loc, one for each thread
  at,          \* the block at whose head a thread is, or Outside
  idx,         \* the cell whose address it has computed
  reg,         \* the counter it has loaded
  last,        \* history: the block it has counted last, or Outside
  taken,       \* history: the edges that were taken
  hits,        \* history: how often one of a cell's edges was taken
  raced,       \* history: cells stored to while another thread held their value
  made         \* bound: the blocks each thread has entered

build == <<rand, drawn, process, loc, by>>
run == <<area, prev_loc, at, idx, reg, last, taken, hits, raced, made>>
vars == <<phase, build, run>>

Init ==
  /\ phase = "build"
  /\ rand \in Rand
  /\ drawn = 0 /\ process = 1
  /\ loc = [b \in {} |-> 0] /\ by = [b \in {} |-> 0]
  /\ area = [c \in Loc |-> 0]
  /\ prev_loc = [t \in Thread |-> 0]
  /\ at = [t \in Thread |-> Outside]
  /\ idx = [t \in Thread |-> 0] /\ reg = [t \in Thread |-> 0]
  /\ last = [t \in Thread |-> Outside]
  /\ taken = {} /\ hits = [c \in Loc |-> 0] /\ raced = {}
  /\ made = [t \in Thread |-> 0]

-----------------------------------------------------------------------------
(* The wrapper.                                                            *)

\* One location too many.
CurLoc_bug(k) == rand[k] % (MapSize + 1)

\* cur_loc_real, of the k-th number the wrapper draws.
CurLoc(k) == rand[k] % MapSize

\* The loop over the blocks of a module: each draws a number.  (A module is
\* instrumented once: with a second __mcw_area_ptr it does not link.)
RunOnModule(m) ==
  /\ phase = "build"
  /\ \A k \in DOMAIN m : m[k] \notin DOMAIN loc
  /\ drawn + Len(m) <= Len(rand)
  /\ LET new == {m[k] : k \in DOMAIN m}
         pos(b) == CHOOSE k \in DOMAIN m : m[k] = b
     IN  /\ loc' = [b \in DOMAIN loc \cup new |->
                      IF b \in new THEN CurLoc(drawn + pos(b)) ELSE loc[b]]
         /\ by' = [b \in DOMAIN loc \cup new |-> IF b \in new THEN <<process, drawn + pos(b)>> ELSE by[b]]
  /\ drawn' = drawn + Len(m)
  /\ UNCHANGED <<phase, rand, process, run>>

\* The wrapper is run again, for other files: rand() begins its sequence again.
NewProcess ==
  /\ phase = "build" /\ drawn > 0
  /\ process' = process + 1
  /\ drawn' = 0
  /\ UNCHANGED <<phase, rand, loc, by, run>>

\* The program is linked, with or without the modules that are left, and started.
Start ==
  /\ phase = "build"
  /\ phase' = "run"
  /\ UNCHANGED <<build, run>>

-----------------------------------------------------------------------------
(* The instrumented program: a thread may go from any block to any other.  *)

\* cur_loc_real without the shift.
Shifted_bug(i) == i

\* cur_loc_real >> 1
Shifted(i) == i \div 2

\* The cell of the edge from a to b.
Cell(a, b) == BitXor(IF a = Outside THEN 0 ELSE Shifted(loc[a]), loc[b])

\* Uses the previous location of whichever thread.
Index_shared(t, b) ==
  BitXor(prev_loc[CHOOSE u \in Thread : \A v \in Thread : made[u] >= made[v]], loc[b])

\* The operand of the getelementptr.
Index(t, b) == BitXor(prev_loc[t], loc[b])

\* load __mcw_prev_loc, load __mcw_area_ptr, load of the counter
LoadCounter(t, b) ==
  /\ phase = "run" /\ at[t] = Outside /\ made[t] < MaxEntries
  /\ b \in DOMAIN loc
  /\ at' = [at EXCEPT ![t] = b]
  /\ idx' = [idx EXCEPT ![t] = Index(t, b)]
  /\ reg' = [reg EXCEPT ![t] = area[Index(t, b)]]
  /\ made' = [made EXCEPT ![t] = @ + 1]
  /\ UNCHANGED <<phase, build, area, prev_loc, last, taken, hits, raced>>

\* Sticks at the largest value.
Incremented_sticky(t) == IF reg[t] = Modulus - 1 THEN reg[t] ELSE reg[t] + 1

\* Puts the value back as it was loaded.
Incremented_none(t) == reg[t]

\* add i8 %counter, 1
Incremented(t) == (reg[t] + 1) % Modulus

\* store of the counter, whatever others have stored since, store of __mcw_prev_loc
StoreCounter(t) ==
  LET cell == Cell(last[t], at[t]) IN
  /\ phase = "run" /\ at[t] # Outside
  /\ area' = [area EXCEPT ![idx[t]] = Incremented(t)]
  /\ prev_loc' = [prev_loc EXCEPT ![t] = Shifted(loc[at[t]])]
  /\ at' = [at EXCEPT ![t] = Outside]
  /\ last' = [last EXCEPT ![t] = at[t]]
  /\ taken' = taken \cup {<<last[t], at[t]>>}
  /\ hits' = [hits EXCEPT ![cell] = @ + 1]
  /\ raced' = IF \E u \in Thread \ {t} : at[u] # Outside /\ idx[u] = idx[t]
              THEN raced \cup {idx[t]} ELSE raced
  /\ UNCHANGED <<phase, build, idx, reg, made>>

\* The process ends, wherever its threads are.
Exit ==
  /\ phase = "run"
  /\ phase' = "over"
  /\ UNCHANGED <<build, run>>

Terminating == phase = "over" /\ UNCHANGED vars

Next ==
  \/ \E m \in Modules : RunOnModule(m)
  \/ NewProcess \/ Start \/ Exit \/ Terminating
  \/ \E t \in Thread : StoreCounter(t) \/ \E b \in Block : LoadCounter(t, b)

Spec == Init /\ [][Next]_vars

-----------------------------------------------------------------------------
(* Properties.                                                             *)

\* Every index is in the map, and __mcw_prev_loc follows the thread's own blocks.
TypeOK ==
  /\ phase \in {"build", "run", "over"}
  /\ rand \in Rand /\ drawn \in Nat /\ process \in Nat \ {0}
  /\ DOMAIN loc \subseteq Block /\ loc \in [DOMAIN loc -> Loc]
  /\ by \in [DOMAIN loc -> (1 .. process) \X DOMAIN rand]
  /\ area \in [Loc -> 0 .. Modulus - 1]
  /\ at \in [Thread -> DOMAIN loc \cup {Outside}]
  /\ last \in [Thread -> DOMAIN loc \cup {Outside}]
  /\ idx \in [Thread -> Loc] /\ reg \in [Thread -> 0 .. Modulus - 1]
  /\ prev_loc \in [Thread -> Loc]
  /\ \A t \in Thread : prev_loc[t] = IF last[t] = Outside THEN 0 ELSE Shifted(loc[last[t]])
  /\ taken \subseteq (DOMAIN loc \cup {Outside}) \X DOMAIN loc
  /\ hits \in [Loc -> Nat] /\ raced \subseteq Loc
  /\ made \in [Thread -> 0 .. MaxEntries]

\* A cell has counted every passage of every thread over its edges, modulo 256; only
\* two threads within lines 176-178 on one cell at once can make it differ.
CellsExactUnlessRaced == \A c \in Loc \ raced : area[c] = hits[c] % Modulus

\* However the threads are interleaved, a cell that is not zero is one of an edge that
\* some thread took: threads do not make up edges between each other's blocks.
OnlyTakenEdges == \A c \in Loc : area[c] # 0 => \E e \in taken : Cell(e[1], e[2]) = c

\* An edge that was taken shows, whatever was lost in races, while its cell cannot have
\* wrapped.
TakenNotZero ==
  \A e \in taken : hits[Cell(e[1], e[2])] \in 1 .. Modulus - 1 => area[Cell(e[1], e[2])] # 0

\* Blocks that one run of the wrapper has instrumented, in one module or several, have
\* edges in both directions, and loops, that can be told apart, unless two draws gave
\* the two blocks one number: no draw is used for both.  (Two runs give their first
\* blocks the same number.)
DirectionsApart ==
  \A a, b \in DOMAIN loc :
    /\ a # b /\ by[a][1] = by[b][1]
    /\ by[a][2] # by[b][2] => CurLoc(by[a][2]) # CurLoc(by[b][2])
    => Cell(a, b) # Cell(b, a) /\ Cell(a, a) # Cell(b, b)
=============================================================================
