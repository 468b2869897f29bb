--------------------------- MODULE CoverageProofs ---------------------------
(***************************************************************************)
(* Proofs about edge coverage, for any program, any threads, any sizes of  *)
(* the map and of its counters and anything rand() returns.                *)
(***************************************************************************)
EXTENDS Coverage, TLAPS

-----------------------------------------------------------------------------
(* Arithmetic.                                                             *)

LEMMA Remainder ==
  ASSUME NEW M \in Nat \ {0}, NEW x \in Int
  PROVE  (x % M) \in 0 .. M - 1 /\ (x \div M) \in Int /\ x = (x \div M) * M + (x % M)
BY Z3

LEMMA UniqueRemainder ==
  ASSUME NEW M \in Nat \ {0}, NEW q \in Int, NEW r \in 0 .. M - 1
  PROVE  (q * M + r) % M = r
BY Z3

LEMMA SmallRemainder ==
  ASSUME NEW M \in Nat \ {0}, NEW r \in 0 .. M - 1
  PROVE  r % M = r
<1>1. 0 * M + r = r
  OBVIOUS
<1> QED
  BY <1>1, UniqueRemainder

\* Adding one to what is left of x at the width of a counter.
LEMMA IncrementModulo ==
  ASSUME NEW M \in Nat \ {0}, NEW x \in Int
  PROVE  ((x % M) + 1) % M = (x + 1) % M
<1> DEFINE q == x \div M
           r == x % M
<1>1. q \in Int /\ r \in 0 .. M - 1 /\ x = q * M + r
  BY Remainder
<1> HIDE DEF q, r
<1>2. CASE r = M - 1
  <2>1. x + 1 = (q + 1) * M + 0 /\ r + 1 = 1 * M + 0
    BY <1>1, <1>2
  <2>2. (x + 1) % M = 0
    BY <2>1, <1>1, UniqueRemainder
  <2>3. (r + 1) % M = 0
    BY <2>1, UniqueRemainder
  <2> QED
    BY <2>2, <2>3 DEF r
<1>3. CASE r < M - 1
  <2>1. x + 1 = q * M + (r + 1) /\ r + 1 \in 0 .. M - 1
    BY <1>1, <1>3
  <2>2. (x + 1) % M = r + 1
    BY <2>1, <1>1, UniqueRemainder
  <2> QED
    BY <2>1, <2>2, SmallRemainder DEF r
<1> QED
  BY <1>1, <1>2, <1>3

LEMMA Sizes == MapSize \in Nat \ {0} /\ Modulus \in Nat \ {0} /\ MaxEntries \in Nat /\ Outside \notin Block
BY CoverageAssumption

LEMMA ShiftedInMap ==
  ASSUME NEW i \in Loc
  PROVE  Shifted(i) \in Loc
BY CoverageAssumption, Z3 DEF Loc, Shifted

LEMMA ZeroInMap == 0 \in Loc
BY CoverageAssumption DEF Loc

LEMMA OnlyZeroIsItsHalf ==
  ASSUME NEW d \in Nat, d = d \div 2
  PROVE  d = 0
BY Z3

-----------------------------------------------------------------------------
(* Why prev_loc is shifted: i xor (i >> 1) is a Gray code.                 *)

\* (h + k) + (i + j) = (h + j) + (k + i), and = (h + i) + (k + j).
LEMMA Rearranged ==
  ASSUME NEW h \in Loc, NEW i \in Loc, NEW j \in Loc, NEW k \in Loc
  PROVE  /\ BitXor(BitXor(h, k), BitXor(i, j)) = BitXor(BitXor(h, j), BitXor(k, i))
         /\ BitXor(BitXor(h, k), BitXor(i, j)) = BitXor(BitXor(h, i), BitXor(k, j))
<1>1. \A x, y, z \in Loc : /\ BitXor(x, y) \in Loc /\ BitXor(x, y) = BitXor(y, x)
                           /\ BitXor(x, BitXor(y, z)) = BitXor(BitXor(x, y), z)
  BY XorAssumption
<1>2. BitXor(BitXor(h, k), BitXor(i, j)) = BitXor(h, BitXor(k, BitXor(i, j)))
  BY <1>1
<1>3. BitXor(k, BitXor(i, j)) = BitXor(BitXor(k, i), j)
  BY <1>1
<1>4. BitXor(k, BitXor(i, j)) = BitXor(j, BitXor(k, i))
  BY <1>1, <1>3
<1>5. BitXor(BitXor(k, i), j) = BitXor(BitXor(i, k), j)
  BY <1>1
<1>6. BitXor(k, BitXor(i, j)) = BitXor(i, BitXor(k, j))
  BY <1>1, <1>3, <1>5
<1>7. BitXor(h, BitXor(j, BitXor(k, i))) = BitXor(BitXor(h, j), BitXor(k, i))
  BY <1>1
<1>8. BitXor(h, BitXor(i, BitXor(k, j))) = BitXor(BitXor(h, i), BitXor(k, j))
  BY <1>1
<1> QED
  BY <1>2, <1>4, <1>6, <1>7, <1>8

LEMMA GrayCode ==
  ASSUME NEW i \in Loc, NEW j \in Loc,
         \/ BitXor(Shifted(i), j) = BitXor(Shifted(j), i)
         \/ BitXor(Shifted(i), i) = BitXor(Shifted(j), j)
  PROVE  i = j
<1> DEFINE h == Shifted(i)
           k == Shifted(j)
           d == BitXor(i, j)
<1>1. h \in Loc /\ k \in Loc /\ d \in Loc
  BY ShiftedInMap, XorAssumption
<1>2. BitXor(h, k) = d \div 2
  BY XorAssumption DEF Shifted
<1> HIDE DEF h, k, d
<1>3. BitXor(BitXor(h, k), d) = 0
  <2>1. BitXor(h, j) \in Loc /\ BitXor(h, i) \in Loc /\ BitXor(k, i) \in Loc /\ BitXor(k, j) \in Loc
    BY <1>1, XorAssumption
  <2>2. CASE BitXor(h, j) = BitXor(k, i)
    BY <1>1, <2>1, <2>2, Rearranged, XorAssumption DEF d
  <2>3. CASE BitXor(h, i) = BitXor(k, j)
    BY <1>1, <2>1, <2>3, Rearranged, XorAssumption DEF d
  <2> QED
    BY <2>2, <2>3 DEF h, k
<1>4. BitXor(h, k) \in Loc
  BY <1>1, XorAssumption
<1>5. d = d \div 2
  BY <1>1, <1>2, <1>3, <1>4, XorAssumption
<1>6. d \in Nat
  BY <1>1 DEF Loc
<1>7. BitXor(i, j) = 0
  BY <1>5, <1>6, OnlyZeroIsItsHalf DEF d
<1> QED
  BY <1>7, XorAssumption

-----------------------------------------------------------------------------
(* Type correctness.                                                       *)

\* While the program is built nothing has been executed.
NothingExecuted ==
  phase = "build" =>
    /\ taken = {}
    /\ \A t \in Thread : at[t] = Outside /\ last[t] = Outside
    /\ \A c \in Loc : area[c] = 0 /\ hits[c] = 0

Typed == TypeOK /\ NothingExecuted

LEMMA InitTyped == Init => Typed
BY CoverageAssumption, ZeroInMap DEF Init, Typed, TypeOK, NothingExecuted

\* What a run of the wrapper does to a module.
LEMMA Instrumented ==
  ASSUME Typed, NEW m \in Modules, RunOnModule(m)
  PROVE  /\ DOMAIN loc \subseteq DOMAIN loc' /\ DOMAIN loc' \subseteq Block
         /\ loc' \in [DOMAIN loc' -> Loc]
         /\ by' \in [DOMAIN loc' -> (1 .. process) \X DOMAIN rand]
         /\ \A b \in DOMAIN loc : loc'[b] = loc[b] /\ by'[b] = by[b]
         /\ \A b \in DOMAIN loc' \ DOMAIN loc :
              \E k \in DOMAIN m : m[k] = b /\ by'[b] = <<process, drawn + k>> /\ loc'[b] = CurLoc(drawn + k)
         /\ drawn' = drawn + Len(m) /\ DOMAIN m = 1 .. Len(m) /\ Len(m) \in Nat
<1> DEFINE new == {m[k] : k \in DOMAIN m}
           pos(b) == CHOOSE k \in DOMAIN m : m[k] = b
<1>1. m \in Seq(Block) /\ DOMAIN m = 1 .. Len(m) /\ Len(m) \in Nat /\ new \subseteq Block
  BY CoverageAssumption
<1>2. rand \in Seq(Nat) /\ DOMAIN rand = 1 .. Len(rand) /\ Len(rand) \in Nat /\ drawn \in Nat
  BY CoverageAssumption DEF Typed, TypeOK
<1>3. \A b \in new : pos(b) \in DOMAIN m /\ m[pos(b)] = b
  OBVIOUS
<1>4. \A k \in DOMAIN m : drawn + k \in DOMAIN rand
  BY <1>1, <1>2 DEF RunOnModule
<1>5. \A k \in DOMAIN rand : CurLoc(k) \in Loc
  <2> SUFFICES ASSUME NEW k \in DOMAIN rand PROVE CurLoc(k) \in Loc
    OBVIOUS
  <2>1. rand[k] \in Int
    BY <1>2
  <2> QED
    BY <2>1, Remainder, Sizes DEF CurLoc, Loc
<1>6. /\ loc' = [b \in DOMAIN loc \cup new |-> IF b \in new THEN CurLoc(drawn + pos(b)) ELSE loc[b]]
      /\ by' = [b \in DOMAIN loc \cup new |-> IF b \in new THEN <<process, drawn + pos(b)>> ELSE by[b]]
      /\ drawn' = drawn + Len(m) /\ UNCHANGED <<process, rand>>
      /\ \A b \in new : b \notin DOMAIN loc
  BY DEF RunOnModule
<1> HIDE DEF new, pos
<1>7. DOMAIN loc' = DOMAIN loc \cup new
  BY <1>6
<1>8. loc \in [DOMAIN loc -> Loc] /\ DOMAIN loc \subseteq Block
      /\ by \in [DOMAIN loc -> (1 .. process) \X DOMAIN rand] /\ process \in Nat
      /\ (process \in 1 .. process)
  BY DEF Typed, TypeOK
<1>9. \A b \in new : loc'[b] = CurLoc(drawn + pos(b)) /\ by'[b] = <<process, drawn + pos(b)>>
  BY <1>6
<1>10. \A b \in DOMAIN loc : loc'[b] = loc[b] /\ by'[b] = by[b]
  BY <1>6
<1>11. loc' \in [DOMAIN loc' -> Loc]
  BY <1>3, <1>4, <1>5, <1>6, <1>8
<1>12. by' \in [DOMAIN loc' -> (1 .. process) \X DOMAIN rand]
  BY <1>3, <1>4, <1>6, <1>8
<1> QED
  BY <1>1, <1>3, <1>6, <1>7, <1>8, <1>9, <1>10, <1>11, <1>12

LEMMA IndexInMap ==
  ASSUME Typed, NEW t \in Thread, NEW b \in DOMAIN loc
  PROVE  Index(t, b) \in Loc /\ Index(t, b) = Cell(last[t], b)
<1>1. prev_loc[t] \in Loc /\ loc[b] \in Loc
      /\ prev_loc[t] = IF last[t] = Outside THEN 0 ELSE Shifted(loc[last[t]])
  BY DEF Typed, TypeOK
<1> QED
  BY <1>1, XorAssumption DEF Index, Cell

LEMMA NextTyped == Typed /\ [Next]_vars => Typed'
<1> SUFFICES ASSUME Typed, [Next]_vars PROVE Typed'
  OBVIOUS
<1>1. ASSUME NEW m \in Modules, RunOnModule(m) PROVE Typed'
  <2>1. phase = "build" /\ UNCHANGED <<phase, rand, process, run>>
    BY <1>1 DEF RunOnModule
  <2>2. \A t \in Thread : at[t] = Outside /\ last[t] = Outside
    BY <2>1 DEF Typed, NothingExecuted
  <2>3. drawn' \in Nat
    BY <1>1, Instrumented DEF Typed, TypeOK
  <2> QED
    BY <1>1, <2>1, <2>2, <2>3, Instrumented DEF Typed, TypeOK, NothingExecuted, run
<1>2. CASE NewProcess
  <2>1. process' = process + 1 /\ drawn' = 0 /\ UNCHANGED <<phase, rand, loc, by, run>>
    BY <1>2 DEF NewProcess
  <2>2. by' \in [DOMAIN loc' -> (1 .. process') \X DOMAIN rand']
    <3>1. \A b \in DOMAIN loc : by[b] \in (1 .. process) \X DOMAIN rand /\ (1 .. process) \subseteq (1 .. process')
      BY <2>1 DEF Typed, TypeOK
    <3> QED
      BY <2>1, <3>1 DEF Typed, TypeOK
  <2> QED
    BY <2>1, <2>2 DEF Typed, TypeOK, NothingExecuted, run
<1>3. CASE Start \/ Exit
  BY <1>3 DEF Start, Exit, build, run, Typed, TypeOK, NothingExecuted
<1>4. ASSUME NEW t \in Thread, NEW b \in Block, LoadCounter(t, b) PROVE Typed'
  <2>1. b \in DOMAIN loc /\ Index(t, b) \in Loc /\ area[Index(t, b)] \in 0 .. Modulus - 1
    BY <1>4, IndexInMap DEF LoadCounter, Typed, TypeOK
  <2>2. made' \in [Thread -> 0 .. MaxEntries]
    BY <1>4, Sizes DEF LoadCounter, Typed, TypeOK
  <2> QED
    BY <1>4, <2>1, <2>2 DEF LoadCounter, build, Typed, TypeOK, NothingExecuted
<1>5. ASSUME NEW t \in Thread, StoreCounter(t) PROVE Typed'
  <2> DEFINE cell == Cell(last[t], at[t])
  <2>1. at[t] \in DOMAIN loc /\ at[t] # Outside /\ phase = "run"
    BY <1>5 DEF StoreCounter, Typed, TypeOK
  <2>2. cell \in Loc /\ idx[t] \in Loc /\ Incremented(t) \in 0 .. Modulus - 1 /\ Shifted(loc[at[t]]) \in Loc
    <3>1. cell \in Loc
      BY <2>1, IndexInMap
    <3>2. reg[t] + 1 \in Int /\ idx[t] \in Loc /\ loc[at[t]] \in Loc
      BY <2>1 DEF Typed, TypeOK
    <3>3. Incremented(t) \in 0 .. Modulus - 1
      BY <3>2, Remainder, Sizes DEF Incremented
    <3> QED
      BY <3>1, <3>2, <3>3, ShiftedInMap
  <2>3. <<last[t], at[t]>> \in (DOMAIN loc \cup {Outside}) \X DOMAIN loc
    BY <2>1 DEF Typed, TypeOK
  <2> HIDE DEF cell
  <2>4. /\ area' = [area EXCEPT ![idx[t]] = Incremented(t)]
        /\ prev_loc' = [prev_loc EXCEPT ![t] = Shifted(loc[at[t]])]
        /\ at' = [at EXCEPT ![t] = Outside]
        /\ last' = [last EXCEPT ![t] = at[t]]
        /\ taken' = taken \cup {<<last[t], at[t]>>}
        /\ hits' = [hits EXCEPT ![cell] = @ + 1]
        /\ (raced' = raced \/ raced' = raced \cup {idx[t]})
        /\ UNCHANGED <<phase, rand, drawn, process, loc, by, idx, reg, made>>
    BY <1>5 DEF StoreCounter, build, cell
  <2>5. \A u \in Thread : prev_loc'[u] = IF last'[u] = Outside THEN 0 ELSE Shifted(loc'[last'[u]])
    BY <2>1, <2>4 DEF Typed, TypeOK
  <2>6. hits' \in [Loc -> Nat] /\ area' \in [Loc -> 0 .. Modulus - 1] /\ raced' \subseteq Loc
    BY <2>2, <2>4 DEF Typed, TypeOK
  <2> QED
    BY <2>1, <2>2, <2>3, <2>4, <2>5, <2>6 DEF Typed, TypeOK, NothingExecuted
<1>6. CASE UNCHANGED vars
  BY <1>6 DEF vars, build, run, Typed, TypeOK, NothingExecuted
<1> QED
  BY <1>1, <1>2, <1>3, <1>4, <1>5, <1>6 DEF Next, Terminating

\* Indices stay in the map and __mcw_prev_loc with its thread, for any program.
THEOREM TypeCorrect == Spec => []TypeOK
<1>1. Typed => TypeOK
  BY DEF Typed
<1> QED
  BY <1>1, InitTyped, NextTyped, PTL DEF Spec

-----------------------------------------------------------------------------
(* The steps, and what they leave alone.                                   *)

\* A step that is none of a thread leaves the map and the threads alone; it gives
\* locations to more blocks only while nothing is executed.
LEMMA Steps ==
  ASSUME Typed, [Next]_vars
  PROVE  \/ \E t \in Thread : StoreCounter(t)
         \/ \E t \in Thread, b \in Block : LoadCounter(t, b)
         \/ UNCHANGED <<run, loc>>
         \/ phase = "build" /\ phase' = "build" /\ UNCHANGED run
<1>1. ASSUME NEW m \in Modules, RunOnModule(m) PROVE phase = "build" /\ phase' = "build" /\ UNCHANGED run
  BY <1>1 DEF RunOnModule
<1>2. NewProcess \/ Start \/ Exit \/ UNCHANGED vars => UNCHANGED <<run, loc>>
  BY DEF NewProcess, Start, Exit, vars, build
<1> QED
  BY <1>1, <1>2 DEF Next, Terminating

LEMMA CellOfEdge ==
  ASSUME Typed, NEW a \in DOMAIN loc \cup {Outside}, NEW b \in DOMAIN loc
  PROVE  Cell(a, b) \in Loc
<1>1. loc[b] \in Loc /\ (a # Outside => loc[a] \in Loc)
  BY DEF Typed, TypeOK
<1> QED
  BY <1>1, ShiftedInMap, ZeroInMap, XorAssumption DEF Cell

\* Threads hold the address of the cell of the edge that they are on.
IndexOfEdge == \A t \in Thread : at[t] # Outside => idx[t] = Cell(last[t], at[t])

LEMMA NextIndexOfEdge == Typed /\ IndexOfEdge /\ [Next]_vars => IndexOfEdge'
<1> SUFFICES ASSUME Typed, IndexOfEdge, [Next]_vars PROVE IndexOfEdge'
  OBVIOUS
<1>1. ASSUME NEW t \in Thread, StoreCounter(t) PROVE IndexOfEdge'
  BY <1>1 DEF StoreCounter, build, IndexOfEdge, Cell, Typed, TypeOK
<1>2. ASSUME NEW t \in Thread, NEW b \in Block, LoadCounter(t, b) PROVE IndexOfEdge'
  <2>1. b \in DOMAIN loc /\ loc' = loc /\ last' = last
        /\ at' = [at EXCEPT ![t] = b] /\ idx' = [idx EXCEPT ![t] = Index(t, b)]
    BY <1>2 DEF LoadCounter, build
  <2>2. Index(t, b) = Cell(last[t], b)
    BY <2>1, IndexInMap
  <2> QED
    BY <2>1, <2>2 DEF IndexOfEdge, Cell, Typed, TypeOK
<1>3. CASE UNCHANGED <<run, loc>>
  BY <1>3 DEF run, IndexOfEdge, Cell
<1>4. CASE phase = "build" /\ UNCHANGED run
  BY <1>4 DEF run, IndexOfEdge, Typed, NothingExecuted
<1> QED
  BY <1>1, <1>2, <1>3, <1>4, Steps

\* What a store does, once prev_loc is known to be right.
LEMMA Stored ==
  ASSUME Typed, IndexOfEdge, NEW t \in Thread, StoreCounter(t)
  PROVE  /\ idx[t] \in Loc /\ at[t] # Outside /\ idx[t] = Cell(last[t], at[t])
         /\ area' = [area EXCEPT ![idx[t]] = Incremented(t)]
         /\ hits' = [hits EXCEPT ![idx[t]] = @ + 1]
         /\ taken' = taken \cup {<<last[t], at[t]>>}
         /\ at' = [at EXCEPT ![t] = Outside]
         /\ raced' = IF \E u \in Thread \ {t} : at[u] # Outside /\ idx[u] = idx[t]
                     THEN raced \cup {idx[t]} ELSE raced
         /\ UNCHANGED <<loc, idx, reg>>
BY DEF StoreCounter, build, IndexOfEdge, Typed, TypeOK

-----------------------------------------------------------------------------
(* Cells that no threads raced for.                                        *)

\* A loaded counter is still what the cell holds.
Exact ==
  \A c \in Loc \ raced :
    /\ area[c] = hits[c] % Modulus
    /\ \A t \in Thread : at[t] # Outside /\ idx[t] = c => reg[t] = area[c]

LEMMA NextExact == Typed /\ IndexOfEdge /\ Exact /\ [Next]_vars => Exact'
<1> SUFFICES ASSUME Typed, IndexOfEdge, Exact, [Next]_vars, NEW c \in Loc, c \notin raced'
             PROVE  /\ area'[c] = hits'[c] % Modulus
                    /\ \A t \in Thread : at'[t] # Outside /\ idx'[t] = c => reg'[t] = area'[c]
  BY DEF Exact
<1>1. ASSUME NEW t \in Thread, StoreCounter(t)
      PROVE  /\ area'[c] = hits'[c] % Modulus
             /\ \A u \in Thread : at'[u] # Outside /\ idx'[u] = c => reg'[u] = area'[c]
  <2>1. c \notin raced
    BY <1>1, Stored
  <2>2. /\ area \in [Loc -> 0 .. Modulus - 1] /\ hits \in [Loc -> Nat]
        /\ at \in [Thread -> DOMAIN loc \cup {Outside}]
    BY DEF Typed, TypeOK
  <2>3. CASE idx[t] = c
    <3>1. area'[c] = Incremented(t) /\ hits'[c] = hits[c] + 1
      BY <1>1, <2>2, <2>3, Stored
    <3>2. reg[t] = hits[c] % Modulus
      BY <1>1, <2>1, <2>3, Stored DEF Exact
    <3>3. Incremented(t) = (hits[c] + 1) % Modulus
      BY <2>2, <3>2, IncrementModulo, Sizes DEF Incremented
    <3>4. \A u \in Thread \ {t} : ~(at[u] # Outside /\ idx[u] = c)
      <4> SUFFICES ASSUME NEW u \in Thread \ {t}, at[u] # Outside /\ idx[u] = c PROVE FALSE
        OBVIOUS
      <4>1. raced' = raced \cup {c}
        BY <1>1, <2>3, Stored
      <4> QED
        BY <4>1
    <3>5. \A u \in Thread : ~(at'[u] # Outside /\ idx'[u] = c)
      BY <1>1, <2>2, <3>4, Stored
    <3> QED
      BY <3>1, <3>3, <3>5
  <2>4. CASE idx[t] # c
    <3>1. area'[c] = area[c] /\ hits'[c] = hits[c]
      BY <1>1, <2>2, <2>4, Stored
    <3>2. \A u \in Thread : at'[u] # Outside /\ idx'[u] = c => at[u] # Outside /\ idx[u] = c /\ reg'[u] = reg[u]
      BY <1>1, <2>2, Stored
    <3> QED
      BY <2>1, <3>1, <3>2 DEF Exact
  <2> QED
    BY <2>3, <2>4
<1>2. ASSUME NEW t \in Thread, NEW b \in Block, LoadCounter(t, b)
      PROVE  /\ area'[c] = hits'[c] % Modulus
             /\ \A u \in Thread : at'[u] # Outside /\ idx'[u] = c => reg'[u] = area'[c]
  BY <1>2 DEF LoadCounter, Exact, Typed, TypeOK
<1>3. CASE UNCHANGED run
  BY <1>3 DEF run, Exact
<1> QED
  BY <1>1, <1>2, <1>3, Steps

-----------------------------------------------------------------------------
(* What survives a race.                                                   *)

\* Until the cell can have wrapped, what a thread has loaded is no more than what was
\* counted, and what it stores is not zero.
NothingForgotten ==
  \A c \in Loc : hits[c] < Modulus =>
    /\ hits[c] > 0 => area[c] > 0
    /\ area[c] <= hits[c]
    /\ \A t \in Thread : at[t] # Outside /\ idx[t] = c => reg[t] <= hits[c]

LEMMA NextNothingForgotten == Typed /\ IndexOfEdge /\ NothingForgotten /\ [Next]_vars => NothingForgotten'
<1> SUFFICES ASSUME Typed, IndexOfEdge, NothingForgotten, [Next]_vars, NEW c \in Loc, hits'[c] < Modulus
             PROVE  /\ hits'[c] > 0 => area'[c] > 0
                    /\ area'[c] <= hits'[c]
                    /\ \A t \in Thread : at'[t] # Outside /\ idx'[t] = c => reg'[t] <= hits'[c]
  BY DEF NothingForgotten
<1> DEFINE Kept == /\ hits'[c] > 0 => area'[c] > 0
                   /\ area'[c] <= hits'[c]
                   /\ \A u \in Thread : at'[u] # Outside /\ idx'[u] = c => reg'[u] <= hits'[c]
<1>0. /\ area \in [Loc -> 0 .. Modulus - 1] /\ hits \in [Loc -> Nat] /\ reg \in [Thread -> 0 .. Modulus - 1]
      /\ at \in [Thread -> DOMAIN loc \cup {Outside}] /\ Modulus \in Nat \ {0}
  BY Sizes DEF Typed, TypeOK
<1>1. ASSUME NEW t \in Thread, StoreCounter(t) PROVE Kept
  <2>1. CASE idx[t] = c
    <3>1. area'[c] = Incremented(t) /\ hits'[c] = hits[c] + 1
      BY <1>0, <1>1, <2>1, Stored
    <3>2. hits[c] \in Nat /\ reg[t] \in Nat /\ hits[c] + 1 < Modulus
      BY <1>0, <3>1
    <3>3. hits[c] < Modulus
      BY <1>0, <3>2
    <3>4. reg[t] <= hits[c]
      BY <1>1, <2>1, <3>3, Stored DEF NothingForgotten
    <3>5. reg[t] + 1 \in 0 .. Modulus - 1
      BY <1>0, <3>2, <3>4
    <3>6. Incremented(t) = reg[t] + 1
      BY <1>0, <3>5, SmallRemainder DEF Incremented
    <3>7. \A u \in Thread : at'[u] # Outside /\ idx'[u] = c => reg'[u] <= hits[c]
      BY <1>0, <1>1, <3>3, Stored DEF NothingForgotten
    <3>8. \A u \in Thread : reg'[u] \in Int
      BY <1>0, <1>1, Stored
    <3> QED
      BY <3>1, <3>2, <3>4, <3>6, <3>7, <3>8
  <2>2. CASE idx[t] # c
    <3>1. area'[c] = area[c] /\ hits'[c] = hits[c]
      BY <1>0, <1>1, <2>2, Stored
    <3>2. \A u \in Thread : at'[u] # Outside /\ idx'[u] = c => at[u] # Outside /\ idx[u] = c /\ reg'[u] = reg[u]
      BY <1>0, <1>1, Stored
    <3> QED
      BY <3>1, <3>2 DEF NothingForgotten
  <2> QED
    BY <2>1, <2>2
<1>2. ASSUME NEW t \in Thread, NEW b \in Block, LoadCounter(t, b) PROVE Kept
  BY <1>2 DEF LoadCounter, NothingForgotten, Typed, TypeOK
<1>3. CASE UNCHANGED run
  BY <1>3 DEF run, NothingForgotten
<1> QED
  BY <1>1, <1>2, <1>3, Steps

LEMMA NextOnlyTakenEdges == Typed /\ IndexOfEdge /\ OnlyTakenEdges /\ [Next]_vars => OnlyTakenEdges'
<1> SUFFICES ASSUME Typed, IndexOfEdge, OnlyTakenEdges, [Next]_vars PROVE OnlyTakenEdges'
  OBVIOUS
<1>1. ASSUME NEW t \in Thread, StoreCounter(t) PROVE OnlyTakenEdges'
  <2> SUFFICES ASSUME NEW c \in Loc, area'[c] # 0
               PROVE  \E e \in taken' : Cell(e[1], e[2])' = c
    BY DEF OnlyTakenEdges
  <2>1. loc' = loc /\ taken' = taken \cup {<<last[t], at[t]>>} /\ idx[t] = Cell(last[t], at[t])
    BY <1>1, Stored
  <2>2. \A e : Cell(e[1], e[2])' = Cell(e[1], e[2])
    BY <2>1 DEF Cell
  <2>3. CASE idx[t] = c
    <3>1. Cell(<<last[t], at[t]>>[1], <<last[t], at[t]>>[2]) = c
      BY <2>1, <2>3
    <3> QED
      BY <2>1, <2>2, <3>1
  <2>4. CASE idx[t] # c
    <3>1. area[c] # 0
      BY <1>1, <2>4, Stored DEF Typed, TypeOK
    <3> QED
      BY <2>1, <2>2, <3>1 DEF OnlyTakenEdges
  <2> QED
    BY <2>3, <2>4
<1>2. ASSUME NEW t \in Thread, NEW b \in Block, LoadCounter(t, b) PROVE OnlyTakenEdges'
  BY <1>2 DEF LoadCounter, build, OnlyTakenEdges, Cell
<1>3. CASE UNCHANGED <<run, loc>>
  BY <1>3 DEF run, OnlyTakenEdges, Cell
<1>4. CASE phase = "build" /\ UNCHANGED run
  BY <1>4 DEF run, OnlyTakenEdges, Typed, NothingExecuted
<1> QED
  BY <1>1, <1>2, <1>3, <1>4, Steps

-----------------------------------------------------------------------------
(* The locations.                                                          *)

\* No two blocks have the same draw of the same run of the wrapper.
DrawnOnce ==
  \A a \in DOMAIN loc :
    /\ loc[a] = CurLoc(by[a][2])
    /\ by[a][1] = process => by[a][2] <= drawn
    /\ \A b \in DOMAIN loc : a # b => by[a] # by[b]

LEMMA NextDrawnOnce == Typed /\ DrawnOnce /\ [Next]_vars => DrawnOnce'
<1> SUFFICES ASSUME Typed, DrawnOnce, [Next]_vars PROVE DrawnOnce'
  OBVIOUS
<1>1. ASSUME NEW m \in Modules, RunOnModule(m) PROVE DrawnOnce'
  <2>1. UNCHANGED <<process, rand>> /\ process \in Nat /\ drawn \in Nat
    BY <1>1 DEF RunOnModule, Typed, TypeOK
  <2>2. \A k : CurLoc(k)' = CurLoc(k)
    BY <2>1 DEF CurLoc
  <2>3. drawn' = drawn + Len(m) /\ DOMAIN m = 1 .. Len(m) /\ Len(m) \in Nat
    BY <1>1, Instrumented
  <2>4. \A b \in DOMAIN loc : loc'[b] = loc[b] /\ by'[b] = by[b]
    BY <1>1, Instrumented
  <2>5. \A b \in DOMAIN loc' \ DOMAIN loc :
          \E k \in DOMAIN m : m[k] = b /\ by'[b] = <<process, drawn + k>> /\ loc'[b] = CurLoc(drawn + k)
    BY <1>1, Instrumented
  <2>6. \A b \in DOMAIN loc' : by'[b][2] \in Int
    <3>1. by' \in [DOMAIN loc' -> (1 .. process) \X DOMAIN rand]
      BY <1>1, Instrumented
    <3>2. rand \in Seq(Nat)
      BY CoverageAssumption DEF Typed, TypeOK
    <3>3. DOMAIN rand \subseteq Int
      BY <3>2
    <3> QED
      BY <3>1, <3>3
  <2>7. ASSUME NEW a \in DOMAIN loc' PROVE loc'[a] = CurLoc(by'[a][2]) /\ (by'[a][1] = process => by'[a][2] <= drawn')
    <3>1. CASE a \in DOMAIN loc
      BY <2>1, <2>3, <2>4, <2>6, <2>7, <3>1 DEF DrawnOnce
    <3>2. CASE a \notin DOMAIN loc
      BY <2>1, <2>3, <2>5, <2>7, <3>2
    <3> QED
      BY <3>1, <3>2
  <2>8. ASSUME NEW a \in DOMAIN loc', NEW b \in DOMAIN loc', by'[a] = by'[b] PROVE a = b
    <3>1. CASE a \in DOMAIN loc /\ b \in DOMAIN loc
      BY <2>4, <2>8, <3>1 DEF DrawnOnce
    <3>2. CASE a \notin DOMAIN loc /\ b \notin DOMAIN loc
      BY <2>1, <2>3, <2>5, <2>8, <3>2
    <3>3. ASSUME NEW o \in DOMAIN loc, NEW n \in DOMAIN loc' \ DOMAIN loc PROVE by'[o] # by'[n]
      <4>1. PICK k \in DOMAIN m : by'[n] = <<process, drawn + k>>
        BY <2>5
      <4>2. by'[o] = by[o] /\ (by[o][1] = process => by[o][2] <= drawn)
        BY <2>4 DEF DrawnOnce
      <4>3. ~(drawn + k <= drawn)
        BY <2>1, <2>3
      <4> QED
        BY <4>1, <4>2, <4>3
    <3> QED
      BY <2>8, <3>1, <3>2, <3>3
  <2> QED
    BY <2>1, <2>2, <2>7, <2>8 DEF DrawnOnce
<1>2. CASE NewProcess
  <2>1. process' = process + 1 /\ UNCHANGED <<rand, loc, by>> /\ process \in Nat
    BY <1>2 DEF NewProcess, Typed, TypeOK
  <2>2. \A a \in DOMAIN loc : by[a][1] \in 1 .. process
    BY DEF Typed, TypeOK
  <2>3. \A a \in DOMAIN loc : by[a][1] # process'
    BY <2>1, <2>2
  <2> QED
    BY <2>1, <2>3 DEF DrawnOnce, CurLoc
<1>3. CASE UNCHANGED build
  BY <1>3 DEF build, DrawnOnce, CurLoc
<1>4. Start \/ Exit \/ UNCHANGED vars \/ (\E t \in Thread : StoreCounter(t))
        \/ (\E t \in Thread, b \in Block : LoadCounter(t, b)) => UNCHANGED build
  BY DEF Start, Exit, vars, StoreCounter, LoadCounter
<1> QED
  BY <1>1, <1>2, <1>3, <1>4 DEF Next, Terminating

-----------------------------------------------------------------------------
(* The theorems.                                                           *)

IInv == Typed /\ IndexOfEdge /\ Exact /\ NothingForgotten /\ OnlyTakenEdges /\ DrawnOnce

LEMMA InitIInv == Init => IInv
<1> SUFFICES ASSUME Init PROVE IInv
  OBVIOUS
<1>1. \A c \in Loc : area[c] = 0 /\ hits[c] = 0
  BY DEF Init
<1>2. \A t \in Thread : at[t] = Outside
  BY DEF Init
<1>3. 0 % Modulus = 0 /\ 0 < Modulus
  BY SmallRemainder, Sizes
<1> QED
  BY <1>1, <1>2, <1>3, InitTyped DEF Init, IInv, IndexOfEdge, Exact, NothingForgotten, OnlyTakenEdges, DrawnOnce

LEMMA Invariance == Spec => []IInv
<1>1. IInv /\ [Next]_vars => IInv'
  BY NextTyped, NextIndexOfEdge, NextExact, NextNothingForgotten, NextOnlyTakenEdges, NextDrawnOnce DEF IInv
<1> QED
  BY <1>1, InitIInv, PTL DEF Spec

\* For any number of threads and any width: only a race makes a cell differ from what
\* the threads did.
THEOREM CellsExact == Spec => []CellsExactUnlessRaced
<1>1. IInv => CellsExactUnlessRaced
  BY DEF IInv, Exact, CellsExactUnlessRaced
<1> QED
  BY <1>1, Invariance, PTL

\* For any program, no interleaving makes up an edge.
THEOREM NoEdgeMadeUp == Spec => []OnlyTakenEdges
<1>1. IInv => OnlyTakenEdges
  BY DEF IInv
<1> QED
  BY <1>1, Invariance, PTL

\* For any program, no race loses an edge altogether before its cell can have wrapped.
THEOREM NoEdgeLost == Spec => []TakenNotZero
<1>1. IInv => TakenNotZero
  <2> SUFFICES ASSUME IInv, NEW e \in taken, hits[Cell(e[1], e[2])] \in 1 .. Modulus - 1
               PROVE  area[Cell(e[1], e[2])] # 0
    BY DEF TakenNotZero
  <2>1. Cell(e[1], e[2]) \in Loc
    <3>1. e[1] \in DOMAIN loc \cup {Outside} /\ e[2] \in DOMAIN loc
      BY DEF IInv, Typed, TypeOK
    <3> QED
      BY <3>1, CellOfEdge DEF IInv
  <2>2. hits[Cell(e[1], e[2])] < Modulus /\ hits[Cell(e[1], e[2])] > 0
    BY Sizes
  <2> QED
    BY <2>1, <2>2 DEF IInv, NothingForgotten
<1> QED
  BY <1>1, Invariance, PTL

\* For any size of the map: i xor (i >> 1) tells locations apart, so edges of blocks with
\* different numbers have a direction.
THEOREM EdgesHaveDirections == Spec => []DirectionsApart
<1>1. IInv => DirectionsApart
  <2> SUFFICES ASSUME IInv, NEW a \in DOMAIN loc, NEW b \in DOMAIN loc, a # b, by[a][1] = by[b][1],
                      by[a][2] # by[b][2] => CurLoc(by[a][2]) # CurLoc(by[b][2])
               PROVE  Cell(a, b) # Cell(b, a) /\ Cell(a, a) # Cell(b, b)
    BY DEF DirectionsApart
  <2>1. /\ a \in Block /\ b \in Block /\ loc[a] \in Loc /\ loc[b] \in Loc
        /\ by[a] \in (1 .. process) \X DOMAIN rand /\ by[b] \in (1 .. process) \X DOMAIN rand
    BY DEF IInv, Typed, TypeOK
  <2>2. by[a][2] # by[b][2]
    BY <2>1 DEF IInv, DrawnOnce
  <2>3. loc[a] # loc[b]
    BY <2>1, <2>2 DEF IInv, DrawnOnce
  <2>4. a # Outside /\ b # Outside
    BY <2>1, Sizes
  <2> QED
    BY <2>1, <2>3, <2>4, GrayCode DEF Cell
<1> QED
  BY <1>1, Invariance, PTL
=============================================================================
