------------------------- MODULE CallCounterProofs -------------------------
(***************************************************************************)
(* Proofs about the counted program, for any functions and threads, any    *)
(* width of the counters and any number of runs of the tool and of calls.  *)
(***************************************************************************)
EXTENDS CallCounter, FiniteSetTheorems, TLAPS

-----------------------------------------------------------------------------
(* Arithmetic modulo the size of a counter.                                *)

LEMMA Remainder ==
  ASSUME NEW M \in Nat \ {0}, NEW x \in Int
  PROVE  (x % M) \in 0 .. M - 1 /\ (x \div M) \in Int /\ x = (x \div M) * M + (x % M)
BY Z3

LEMMA UniqueRemainder ==
  ASSUME NEW M \in Nat \ {0}, NEW q \in Int, NEW r \in 0 .. M - 1
  PROVE  (q * M + r) % M = r
BY Z3

\* Adding one to what is left of x at the width of the counter.
LEMMA IncrementModulo ==
  ASSUME NEW M \in Nat \ {0}, NEW x \in Int
  PROVE  ((x % M) + 1) % M = (x + 1) % M
<1> DEFINE q == x \div M
           r == x % M
<1>1. q \in Int /\ r \in 0 .. M - 1 /\ x = q * M + r
  BY Remainder
<1> HIDE DEF q, r
<1>2. CASE r = M - 1
  <2>1. x + 1 = (q + 1) * M + 0 /\ r + 1 = 1 * M + 0
    BY <1>1, <1>2
  <2>2. (x + 1) % M = 0
    BY <2>1, <1>1, UniqueRemainder
  <2>3. (r + 1) % M = 0
    BY <2>1, UniqueRemainder
  <2> QED
    BY <2>2, <2>3 DEF r
<1>3. CASE r < M - 1
  <2>1. x + 1 = q * M + (r + 1) /\ r + 1 = 0 * M + (r + 1) /\ r + 1 \in 0 .. M - 1
    BY <1>1, <1>3
  <2>2. (x + 1) % M = r + 1
    BY <2>1, <1>1, UniqueRemainder
  <2>3. (r + 1) % M = r + 1
    BY <2>1, UniqueRemainder
  <2> QED
    BY <2>2, <2>3 DEF r
<1> QED
  BY <1>1, <1>2, <1>3

LEMMA ZeroModulo ==
  ASSUME NEW M \in Nat \ {0}
  PROVE  0 % M = 0
<1>1. 0 * M + 0 = 0
  OBVIOUS
<1> QED
  BY <1>1, UniqueRemainder

-----------------------------------------------------------------------------
(* Type correctness.                                                       *)

LEMMA Init_Type == Init => TypeOK
BY ConstantsAssumption DEF Init, TypeOK

LEMMA Step_Type ==
  ASSUME TypeOK, [Next]_vars
  PROVE  TypeOK'
<1> USE ConstantsAssumption DEF TypeOK
<1>1. CASE RunOnModule
  BY <1>1 DEF RunOnModule, run
<1>2. CASE Start
  BY <1>2 DEF Start, build, run
<1>3. CASE Exit
  BY <1>3 DEF Exit, build, run
<1>4. CASE EndDtor
  BY <1>4 DEF EndDtor, run
<1>5. ASSUME NEW t \in Thread, NEW f \in Func, Call(t, f) PROVE TypeOK'
  BY <1>5 DEF Call, build
<1>6. ASSUME NEW t \in Thread, LoadCounter(t) PROVE TypeOK'
  BY <1>6 DEF LoadCounter, build
<1>7. ASSUME NEW t \in Thread, StoreCounter(t) PROVE TypeOK'
  <2>1. Incremented(t) \in 0 .. Modulus - 1
    <3>1. reg[t] + 1 \in Int
      OBVIOUS
    <3>2. ((reg[t] + 1) % Modulus) \in 0 .. Modulus - 1
      BY <3>1, Remainder
    <3> QED
      BY <3>2 DEF Incremented
  <2>2. at[t] \in Func /\ todo[t] \in Nat \ {0}
    BY <1>7 DEF StoreCounter
  <2> QED
    BY <1>7, <2>1, <2>2 DEF StoreCounter, build
<1>8. ASSUME NEW f \in Func, PrintCount(f) PROVE TypeOK'
  BY <1>8 DEF PrintCount, build, run
<1>9. CASE UNCHANGED vars
  BY <1>9 DEF vars, build, run
<1> QED
  BY <1>1, <1>2, <1>3, <1>4, <1>5, <1>6, <1>7, <1>8, <1>9 DEF Next, Terminating

\* A counter keeps its width, and a thread at the head of a function leaves it when,
\* and only when, the last increment is stored (lines 70-75).
THEOREM TypeCorrect == Spec => []TypeOK
BY Init_Type, Step_Type, PTL DEF Spec

-----------------------------------------------------------------------------
(* A program with one thread.                                              *)

Alone == \A t \in Thread \ {First} : made[t] = 0

\* What First has still to add to the counter of f.
Pending(f) == IF at[First] = f THEN todo[First] ELSE 0

Counts == \A f \in Func : counter[f] = (incs[f] * calls[f] - Pending(f)) % Modulus

Untouched == /\ \A f \in Func : calls[f] = 0
             /\ \A t \in Thread : at[t] = Idle

\* While only First makes calls, each counter is exact up to the increments First is
\* at, what it has loaded is what is there, and it is at no increment any more when
\* the destructors print.
Exact ==
  /\ \A t \in Thread \ {First} : at[t] = Idle
  /\ Counts
  /\ reg[First] # -1 => at[First] \in Func /\ reg[First] = counter[at[First]]
  /\ phase = "build" => Untouched
  /\ phase \in {"exit", "over"} => at[First] = Idle
  /\ \A f \in DOMAIN printed : phase \in {"exit", "over"} /\ printed[f] = counter[f]

IInv == TypeOK /\ (Alone => Exact)

LEMMA Init_IInv == Init => IInv
<1> SUFFICES ASSUME Init PROVE IInv
  OBVIOUS
<1>1. \A f \in Func : incs[f] * calls[f] - Pending(f) = 0 /\ counter[f] = 0
  BY ConstantsAssumption DEF Init, Pending
<1>2. Counts
  BY <1>1, ZeroModulo, ConstantsAssumption DEF Counts
<1> QED
  BY <1>2, Init_Type, ConstantsAssumption DEF Init, IInv, Exact, Untouched

LEMMA Step_IInv ==
  ASSUME IInv, [Next]_vars
  PROVE  IInv'
<1> USE ConstantsAssumption
<1>a. TypeOK /\ TypeOK'
  BY Step_Type DEF IInv
<1>b. Alone' => Alone
  <2>1. \A t \in Thread : made'[t] = made[t] \/ made'[t] = made[t] + 1
    <3>1. CASE \E t \in Thread, f \in Func : Call(t, f)
      BY <1>a, <3>1 DEF TypeOK, Call
    <3>2. CASE UNCHANGED made
      BY <3>2
    <3> QED
      BY <3>1, <3>2 DEF Next, RunOnModule, Start, Exit, EndDtor, Terminating, LoadCounter,
                        StoreCounter, PrintCount, vars, build, run
  <2> QED
    BY <1>a, <2>1 DEF TypeOK, Alone
<1> SUFFICES ASSUME Alone, Alone' PROVE Exact'
  BY <1>a, <1>b DEF IInv
<1>c. Exact
  BY DEF IInv
<1>1. CASE RunOnModule
  <2>1. \A f \in Func : incs'[f] * calls'[f] - Pending(f)' = incs[f] * calls[f] - Pending(f)
    <3>1. \A f \in Func : calls[f] = 0 /\ calls'[f] = 0 /\ Pending(f)' = Pending(f)
      BY <1>1, <1>c DEF RunOnModule, Exact, Untouched, run, Pending
    <3>2. \A f \in Func : incs'[f] \in Int /\ incs[f] \in Int
      BY <1>a DEF TypeOK
    <3> QED
      BY <3>1, <3>2
  <2>2. Counts'
    BY <1>1, <1>c, <2>1 DEF RunOnModule, Exact, Counts, run
  <2> QED
    BY <1>1, <1>c, <2>2 DEF RunOnModule, Exact, Untouched, run
<1>2. CASE Start \/ Exit \/ EndDtor \/ UNCHANGED vars
  <2>1. Counts'
    BY <1>2, <1>c DEF Exact, Counts, Pending, Start, Exit, EndDtor, vars, build, run
  <2> QED
    BY <1>2, <1>c, <2>1 DEF Exact, Untouched, Start, Exit, EndDtor, vars, build, run
<1>3. ASSUME NEW t \in Thread, NEW f \in Func, Call(t, f) PROVE Exact'
  <2>1. t = First /\ at[First] = Idle /\ phase = "run"
    <3>1. made'[t] = made[t] + 1 /\ made[t] \in Nat
      BY <1>3, <1>a DEF Call, TypeOK
    <3> QED
      BY <1>3, <3>1 DEF Call, Alone, Running
  <2>2. \A g \in Func : incs[g] * calls'[g] - Pending(g)' = incs[g] * calls[g] - Pending(g)
    <3> TAKE g \in Func
    <3>1. Pending(g) = 0 /\ incs[g] \in Nat /\ calls[g] \in Nat
      BY <1>a, <2>1 DEF Pending, TypeOK
    <3>2. CASE g = f
      <4>1. calls'[g] = calls[g] + 1
        BY <1>3, <1>a, <3>2 DEF Call, TypeOK
      <4>2. Pending(g)' = incs[g]
        BY <1>3, <1>a, <2>1, <3>1, <3>2 DEF Call, TypeOK, Pending
      <4>3. incs[g] * (calls[g] + 1) - incs[g] = incs[g] * calls[g]
        BY <3>1
      <4> QED
        BY <3>1, <4>1, <4>2, <4>3
    <3>3. CASE g # f
      <4>1. calls'[g] = calls[g]
        BY <1>3, <1>a, <3>3 DEF Call, TypeOK
      <4>2. Pending(g)' = 0
        BY <1>3, <1>a, <2>1, <3>3 DEF Call, TypeOK, Pending
      <4> QED
        BY <3>1, <4>1, <4>2
    <3> QED
      BY <3>2, <3>3
  <2>3. Counts'
    BY <1>3, <1>c, <2>2 DEF Call, Exact, Counts, build
  <2>4. reg[First] = -1
    BY <1>a, <2>1 DEF TypeOK
  <2> QED
    BY <1>3, <1>a, <1>c, <2>1, <2>3, <2>4 DEF Call, Exact, TypeOK, build
<1>4. ASSUME NEW t \in Thread, LoadCounter(t) PROVE Exact'
  <2>1. t = First
    BY <1>4, <1>c DEF LoadCounter, Exact
  <2>2. Counts'
    BY <1>4, <1>c DEF LoadCounter, Exact, Counts, Pending, build
  <2> QED
    BY <1>4, <1>a, <1>c, <2>1, <2>2 DEF LoadCounter, Exact, Untouched, TypeOK, build
<1>5. ASSUME NEW t \in Thread, StoreCounter(t) PROVE Exact'
  <2>1. t = First /\ at[First] \in Func /\ phase = "run"
    BY <1>5, <1>a, <1>c DEF StoreCounter, Running, Exact, TypeOK
  <2>0. PICK g \in Func : g = at[First]
    BY <2>1
  <2> DEFINE x == incs[g] * calls[g] - todo[First]
  <2>2. todo[First] \in Nat \ {0} /\ incs[g] \in Nat /\ calls[g] \in Nat /\ x \in Int
    BY <1>a, <2>0, <2>1 DEF TypeOK
  <2>3. counter'[g] = (x + 1) % Modulus
    <3>1. reg[First] = x % Modulus
      BY <1>5, <1>c, <2>0, <2>1 DEF StoreCounter, Exact, Counts, Pending
    <3>2. counter'[g] = (reg[First] + 1) % Modulus
      BY <1>5, <1>a, <2>0, <2>1 DEF StoreCounter, Incremented, TypeOK
    <3> HIDE DEF x
    <3> QED
      BY <2>2, <3>1, <3>2, IncrementModulo
  <2>4. Pending(g)' = todo[First] - 1
    <3>1. at'[First] = IF todo[First] = 1 THEN Idle ELSE g
      BY <1>5, <1>a, <2>0, <2>1 DEF StoreCounter, TypeOK
    <3>2. todo'[First] = todo[First] - 1
      BY <1>5, <1>a, <2>1 DEF StoreCounter, TypeOK
    <3>3. g # Idle
      OBVIOUS
    <3> QED
      BY <2>2, <3>1, <3>2, <3>3 DEF Pending
  <2>5. incs'[g] * calls'[g] - Pending(g)' = x + 1
    BY <1>5, <2>2, <2>4 DEF StoreCounter, build
  <2>6. \A f \in Func \ {g} : counter'[f] = counter[f] /\ Pending(f)' = 0 /\ Pending(f) = 0
    BY <1>5, <1>a, <2>0, <2>1 DEF StoreCounter, Pending, TypeOK
  <2>7. Counts'
    <3> SUFFICES ASSUME NEW f \in Func
                 PROVE  (counter[f] = (incs[f] * calls[f] - Pending(f)) % Modulus)'
      BY DEF Counts
    <3>1. CASE f # g
      <4>1. counter[f] = (incs[f] * calls[f] - Pending(f)) % Modulus
        BY <1>c DEF Exact, Counts
      <4>2. incs' = incs /\ calls' = calls
        BY <1>5 DEF StoreCounter, build
      <4> QED
        BY <2>6, <3>1, <4>1, <4>2
    <3>2. CASE f = g
      BY <2>3, <2>5, <3>2
    <3> QED
      BY <3>1, <3>2
  <2>8. printed = << >> \/ DOMAIN printed = {}
    BY <1>c, <2>0, <2>1 DEF Exact
  <2> QED
    BY <1>5, <1>a, <1>c, <2>1, <2>7, <2>8 DEF StoreCounter, Exact, TypeOK, build
<1>6. ASSUME NEW f \in Func, PrintCount(f) PROVE Exact'
  <2>1. Counts'
    BY <1>6, <1>c DEF PrintCount, Exact, Counts, Pending, build, run
  <2> QED
    BY <1>6, <1>c, <2>1 DEF PrintCount, Exact, build, run
<1> QED
  BY <1>1, <1>2, <1>3, <1>4, <1>5, <1>6 DEF Next, Terminating

\* A program with one thread prints, modulo the width of the counter, the number of
\* calls times the number of runs of the tool, for every function (lines 70-75,
\* 165-172, 179).
THEOREM OneThreadExact == Spec => []OneThreadPrintsExactly
<1>1. IInv => OneThreadPrintsExactly
  <2> SUFFICES ASSUME IInv, Alone, NEW f \in DOMAIN printed
               PROVE  printed[f] = (incs[f] * calls[f]) % Modulus
    BY DEF OneThreadPrintsExactly, Alone
  <2>1. f \in Func /\ printed[f] = counter[f] /\ at[First] = Idle
    BY DEF IInv, TypeOK, Exact
  <2>2. Pending(f) = 0 /\ incs[f] * calls[f] \in Int
    BY <2>1, ConstantsAssumption DEF IInv, TypeOK, Pending
  <2>3. incs[f] * calls[f] - Pending(f) = incs[f] * calls[f]
    BY <2>2
  <2> QED
    BY <2>1, <2>3 DEF IInv, Exact, Counts
<1> QED
  BY <1>1, Init_IInv, Step_IInv, PTL DEF Spec
-----------------------------------------------------------------------------
(* Any number of threads.                                                  *)

\* The increments that threads have still to store at the head of f.
Unstored(f) == UNION {{t} \X (1 .. todo[t]) : t \in {u \in Thread : at[u] = f}}

\* The increments of the calls so far, and those that were stored.
Due(f) == incs[f] * calls[f]
Stored(f) == Due(f) - Cardinality(Unstored(f))

\* No counter, and no value that a thread holds, is more than was stored.
Bounded ==
  /\ \A f \in Func : IsFiniteSet(Unstored(f)) /\ counter[f] <= Stored(f)
  /\ \A t \in Thread, f \in Func : at[t] = f /\ reg[t] # -1 => reg[t] <= Stored(f)

\* Without a race nothing is lost, and a value held is the one that is there.
Unraced ==
  \A f \in Func \ raced :
    /\ counter[f] = Stored(f) % Modulus
    /\ \A t \in Thread : at[t] = f /\ reg[t] # -1 => reg[t] = counter[f]

\* A counter that cannot have wrapped is zero only as long as nothing was stored.
Seen == \A f \in Func : Due(f) < Modulus => counter[f] > 0 \/ Stored(f) = 0

RInv == TypeOK /\ (phase = "build" => Untouched) /\ Bounded /\ Unraced /\ Seen

\* A column of n pairs under a head that S does not have.
LEMMA AddColumn ==
  ASSUME NEW S, IsFiniteSet(S), NEW t, NEW n \in Nat, \A k \in 1 .. n : <<t, k>> \notin S
  PROVE  /\ IsFiniteSet(S \cup ({t} \X (1 .. n)))
         /\ Cardinality(S \cup ({t} \X (1 .. n))) = Cardinality(S) + n
<1> DEFINE C == {t} \X (1 .. n)
<1>1. IsFiniteSet(1 .. n) /\ Cardinality(1 .. n) = n
  <2>1. Cardinality(1 .. n) = IF 1 > n THEN 0 ELSE n - 1 + 1
    BY FS_Interval
  <2> QED
    BY <2>1, FS_Interval
<1>2. IsFiniteSet({t}) /\ Cardinality({t}) = 1
  BY FS_Singleton
<1>3. IsFiniteSet(C) /\ Cardinality(C) = n
  <2>1. IsFiniteSet(C) /\ Cardinality(C) = Cardinality({t}) * Cardinality(1 .. n)
    BY <1>1, <1>2, FS_Product
  <2> QED
    BY <1>1, <1>2, <2>1
<1>4. S \cap C = {}
  OBVIOUS
<1> HIDE DEF C
<1>5. IsFiniteSet(S \cup C) /\ Cardinality(S \cup C) = Cardinality(S) + Cardinality(C) - Cardinality({})
  BY <1>3, <1>4, FS_Union
<1>6. Cardinality({}) = 0 /\ Cardinality(S) \in Nat
  BY FS_EmptySet, FS_CardinalityType
<1> QED
  BY <1>3, <1>5, <1>6 DEF C

\* The counts are numbers, and nothing is unstored where no thread is.
LEMMA CountsAreNumbers ==
  ASSUME TypeOK, NEW f \in Func, IsFiniteSet(Unstored(f))
  PROVE  /\ Due(f) \in Nat /\ Cardinality(Unstored(f)) \in Nat /\ Stored(f) \in Int
         /\ Stored(f) <= Due(f)
         /\ Quiet(f) => Stored(f) = Due(f)
<1>1. incs[f] \in Nat /\ calls[f] \in Nat
  BY DEF TypeOK
<1>2. Due(f) \in Nat
  BY <1>1 DEF Due
<1>3. Cardinality(Unstored(f)) \in Nat
  BY FS_CardinalityType
<1>4. Quiet(f) => Cardinality(Unstored(f)) = 0
  <2>1. Quiet(f) => Unstored(f) = {}
    BY DEF Quiet, Unstored
  <2> QED
    BY <2>1, FS_EmptySet
<1> QED
  BY <1>2, <1>3, <1>4 DEF Stored

LEMMA Init_RInv == Init => RInv
<1> SUFFICES ASSUME Init PROVE RInv
  OBVIOUS
<1> USE ConstantsAssumption
<1>1. TypeOK /\ Untouched
  BY Init_Type DEF Init, Untouched
<1>2. \A f \in Func : Unstored(f) = {} /\ Due(f) = 0
  BY DEF Init, Unstored, Due
<1>3. \A f \in Func : IsFiniteSet(Unstored(f)) /\ Stored(f) = 0
  BY <1>2, FS_EmptySet DEF Stored
<1>4. Bounded /\ Seen
  BY <1>3 DEF Init, Bounded, Seen
<1>5. Unraced
  BY <1>3, ZeroModulo DEF Init, Unraced
<1> QED
  BY <1>1, <1>4, <1>5 DEF RInv

\* What the invariant says of the counts holds on if a step leaves them alone.
LEMMA CountsKept ==
  ASSUME RInv, TypeOK', (phase = "build" => Untouched)',
         \A f \in Func : Unstored(f)' = Unstored(f) /\ Due(f)' = Due(f),
         UNCHANGED <<counter, raced>>,
         \A t \in Thread : reg'[t] # -1 =>
           /\ at'[t] \in Func
           /\ reg'[t] = counter[at'[t]] \/ (reg'[t] = reg[t] /\ at'[t] = at[t])
  PROVE  RInv'
<1> USE DEF RInv
<1>1. \A f \in Func : Stored(f)' = Stored(f)
  BY DEF Stored
<1>2. Bounded'
  BY <1>1 DEF Bounded
<1>3. Unraced'
  BY <1>1 DEF Unraced
<1>4. Seen'
  BY <1>1 DEF Seen
<1> QED
  BY <1>2, <1>3, <1>4

\* A call adds the same to what is due and to what is not stored yet.
LEMMA Call_RInv ==
  ASSUME RInv, TypeOK', NEW t \in Thread, NEW f \in Func, Call(t, f)
  PROVE  RInv'
<1> USE ConstantsAssumption
<1>0. TypeOK /\ Bounded /\ Unraced /\ Seen
  BY DEF RInv
<1>1. /\ incs[f] \in Nat /\ at[t] = Idle /\ reg[t] = -1
      /\ incs' = incs /\ counter' = counter /\ reg' = reg /\ raced' = raced /\ phase' = phase /\ phase # "build"
      /\ at' = [at EXCEPT ![t] = IF incs[f] > 0 THEN f ELSE Idle]
      /\ todo' = [todo EXCEPT ![t] = incs[f]] /\ calls' = [calls EXCEPT ![f] = @ + 1]
  BY <1>0 DEF Call, build, Running, TypeOK
<1>2. \A g \in Func \ {f} : Unstored(g)' = Unstored(g) /\ Due(g)' = Due(g)
  BY <1>0, <1>1 DEF Unstored, Due, TypeOK
<1>3. Due(f)' = Due(f) + incs[f] /\ Due(f) \in Nat
  BY <1>0, <1>1 DEF Due, TypeOK
<1>4. Unstored(f)' = Unstored(f) \cup ({t} \X (1 .. incs[f]))
  <2>1. CASE incs[f] > 0
    BY <1>0, <1>1, <2>1 DEF Unstored, TypeOK
  <2>2. CASE incs[f] = 0
    <3>1. Unstored(f)' = Unstored(f)
      BY <1>0, <1>1, <2>2 DEF Unstored, TypeOK
    <3> QED
      BY <2>2, <3>1
  <2> QED
    BY <1>1, <2>1, <2>2
<1>5. \A k \in 1 .. incs[f] : <<t, k>> \notin Unstored(f)
  BY <1>1 DEF Unstored
<1>6. IsFiniteSet(Unstored(f)')
      /\ Cardinality(Unstored(f)') = Cardinality(Unstored(f)) + incs[f]
      /\ Cardinality(Unstored(f)) \in Nat
  <2>1. IsFiniteSet(Unstored(f))
    BY <1>0 DEF Bounded
  <2>2. Cardinality(Unstored(f)) \in Nat
    BY <2>1, FS_CardinalityType
  <2>3. LET S == Unstored(f) \cup ({t} \X (1 .. incs[f]))
        IN  IsFiniteSet(S) /\ Cardinality(S) = Cardinality(Unstored(f)) + incs[f]
    BY <1>1, <1>5, <2>1, AddColumn
  <2> QED
    BY <1>4, <2>2, <2>3
<1>7. \A g \in Func : IsFiniteSet(Unstored(g)') /\ Stored(g)' = Stored(g)
  BY <1>0, <1>1, <1>2, <1>3, <1>6 DEF Stored, Bounded
<1>8. Bounded'
  BY <1>0, <1>1, <1>7 DEF Bounded, TypeOK
<1>9. Unraced'
  BY <1>0, <1>1, <1>7 DEF Unraced, TypeOK
<1>10. Seen'
  <2>1. \A g \in Func : Due(g)' < Modulus => Due(g) < Modulus
    BY <1>1, <1>2, <1>3
  <2> QED
    BY <1>0, <1>1, <1>7, <2>1 DEF Seen
<1> QED
  BY <1>1, <1>8, <1>9, <1>10 DEF RInv

\* A store takes one increment from those that are left.  It may undo others, but what
\* it puts there is one more than a value that was never too large.
LEMMA Store_RInv ==
  ASSUME RInv, TypeOK', NEW t \in Thread, StoreCounter(t)
  PROVE  RInv'
<1> USE ConstantsAssumption
<1>0. TypeOK /\ Bounded /\ Unraced /\ Seen
  BY DEF RInv
<1>1. PICK g \in Func : g = at[t]
  BY <1>0 DEF StoreCounter, TypeOK
<1>2. /\ todo[t] \in Nat \ {0} /\ reg[t] \in 0 .. Modulus - 1 /\ phase # "build" /\ phase' = phase
      /\ incs' = incs /\ calls' = calls
      /\ counter' = [counter EXCEPT ![g] = (reg[t] + 1) % Modulus]
      /\ reg' = [reg EXCEPT ![t] = -1] /\ todo' = [todo EXCEPT ![t] = @ - 1]
      /\ at' = [at EXCEPT ![t] = IF todo[t] = 1 THEN Idle ELSE @]
      /\ raced' = IF \E u \in Thread \ {t} : at[u] = g /\ reg[u] # -1 THEN raced \cup {g} ELSE raced
  BY <1>0, <1>1 DEF StoreCounter, Incremented, Running, build, TypeOK
<1>3. \A f \in Func \ {g} : Unstored(f)' = Unstored(f)
  BY <1>0, <1>1, <1>2 DEF Unstored, TypeOK
<1>4. Unstored(g)' = Unstored(g) \ {<<t, todo[t]>>} /\ <<t, todo[t]>> \in Unstored(g)
  <2>1. \A u \in Thread \ {t} : at'[u] = at[u] /\ todo'[u] = todo[u]
    BY <1>0, <1>2 DEF TypeOK
  <2>2. todo'[t] = todo[t] - 1 /\ at'[t] = IF todo[t] = 1 THEN Idle ELSE g
    BY <1>0, <1>1, <1>2 DEF TypeOK
  <2>3. 1 .. todo[t] - 1 = (1 .. todo[t]) \ {todo[t]} /\ todo[t] \in 1 .. todo[t]
        /\ (todo[t] = 1 => (1 .. todo[t]) \ {todo[t]} = {})
    BY <1>2
  <2>4. \A p : p \in Unstored(g) <=> \E u \in Thread : at[u] = g /\ p \in {u} \X (1 .. todo[u])
    BY DEF Unstored
  <2>5. \A p : p \in Unstored(g)' <=> \E u \in Thread : at'[u] = g /\ p \in {u} \X (1 .. todo'[u])
    BY DEF Unstored
  <2>6. <<t, todo[t]>> \in Unstored(g)
    BY <1>1, <2>3, <2>4
  <2>7. \A p : p \in Unstored(g)' <=> p \in Unstored(g) \ {<<t, todo[t]>>}
    <3> TAKE p
    <3>1. ASSUME NEW u \in Thread, u # t
          PROVE  (at'[u] = g /\ p \in {u} \X (1 .. todo'[u]))
                   <=> (at[u] = g /\ p \in {u} \X (1 .. todo[u]) /\ p # <<t, todo[t]>>)
      BY <2>1, <3>1
    <3>2. (at'[t] = g /\ p \in {t} \X (1 .. todo'[t]))
            <=> (at[t] = g /\ p \in {t} \X (1 .. todo[t]) /\ p # <<t, todo[t]>>)
      BY <1>1, <2>2, <2>3
    <3> QED
      BY <2>4, <2>5, <3>1, <3>2
  <2> QED
    BY <2>6, <2>7
<1>5. \A f \in Func : Due(f)' = Due(f) /\ Due(f) \in Nat
  BY <1>0, <1>2 DEF Due, TypeOK
<1>6. /\ IsFiniteSet(Unstored(g)') /\ Cardinality(Unstored(g)') = Cardinality(Unstored(g)) - 1
      /\ Cardinality(Unstored(g)) \in Nat
  <2>1. IsFiniteSet(Unstored(g))
    BY <1>0 DEF Bounded
  <2>2. LET S == Unstored(g) \ {<<t, todo[t]>>}
        IN  IsFiniteSet(S) /\ Cardinality(S) = Cardinality(Unstored(g)) - 1
    BY <1>4, <2>1, FS_RemoveElement
  <2> QED
    BY <1>4, <2>1, <2>2, FS_CardinalityType
<1>7. Stored(g)' = Stored(g) + 1 /\ Stored(g) \in Int /\ Stored(g)' <= Due(g)
  <2>1. Cardinality(Unstored(g)') \in Nat
    BY <1>6, FS_CardinalityType
  <2> QED
    BY <1>5, <1>6, <2>1 DEF Stored
<1>8. \A f \in Func \ {g} : /\ IsFiniteSet(Unstored(f)') /\ Stored(f)' = Stored(f)
                            /\ counter'[f] = counter[f] /\ (f \in raced' <=> f \in raced)
  BY <1>0, <1>2, <1>3, <1>5 DEF Bounded, Stored, TypeOK
<1>9. reg[t] <= Stored(g)
  BY <1>0, <1>1, <1>2 DEF Bounded
<1>10. counter'[g] = (reg[t] + 1) % Modulus /\ counter'[g] <= Stored(g)'
  <2>1. counter'[g] = (reg[t] + 1) % Modulus
    BY <1>0, <1>2 DEF TypeOK
  <2>2. CASE reg[t] + 1 < Modulus
    <3>1. reg[t] + 1 = 0 * Modulus + (reg[t] + 1) /\ reg[t] + 1 \in 0 .. Modulus - 1
      BY <1>2, <2>2
    <3>2. (reg[t] + 1) % Modulus = reg[t] + 1
      BY <3>1, UniqueRemainder
    <3> QED
      BY <1>2, <1>7, <1>9, <2>1, <3>2
  <2>3. CASE reg[t] + 1 = Modulus
    <3>1. reg[t] + 1 = 1 * Modulus + 0
      BY <2>3
    <3>2. (reg[t] + 1) % Modulus = 0
      BY <3>1, UniqueRemainder
    <3> QED
      BY <1>2, <1>7, <1>9, <2>1, <3>2
  <2> QED
    BY <1>2, <2>2, <2>3
<1>11. Bounded'
  <2>1. \A f \in Func : IsFiniteSet(Unstored(f)') /\ counter'[f] <= Stored(f)'
    BY <1>0, <1>6, <1>8, <1>10 DEF Bounded
  <2>2. ASSUME NEW u \in Thread, NEW f \in Func, at'[u] = f, reg'[u] # -1
        PROVE  reg'[u] <= Stored(f)'
    <3>1. u # t /\ reg'[u] = reg[u] /\ at[u] = f /\ reg[u] \in Int
      BY <1>0, <1>2, <2>2 DEF TypeOK
    <3>2. reg[u] <= Stored(f)
      BY <1>0, <2>2, <3>1 DEF Bounded
    <3>3. CASE f = g
      BY <1>7, <3>1, <3>2, <3>3
    <3>4. CASE f # g
      BY <1>8, <3>1, <3>2, <3>4
    <3> QED
      BY <3>3, <3>4
  <2> QED
    BY <2>1, <2>2 DEF Bounded
<1>12. Unraced'
  <2>1. ASSUME NEW f \in Func \ raced', f # g
        PROVE  /\ counter'[f] = Stored(f)' % Modulus
               /\ \A u \in Thread : at'[u] = f /\ reg'[u] # -1 => reg'[u] = counter'[f]
    BY <1>0, <1>1, <1>2, <1>8, <2>1 DEF Unraced, TypeOK
  <2>2. ASSUME g \notin raced'
        PROVE  /\ counter'[g] = Stored(g)' % Modulus
               /\ \A u \in Thread : at'[u] = g /\ reg'[u] # -1 => reg'[u] = counter'[g]
    <3>1. g \notin raced /\ \A u \in Thread \ {t} : at[u] = g => reg[u] = -1
      BY <1>2, <2>2
    <3>2. reg[t] = Stored(g) % Modulus
      BY <1>0, <1>1, <1>2, <3>1 DEF Unraced
    <3>3. counter'[g] = (Stored(g) + 1) % Modulus
      BY <1>7, <1>10, <3>2, IncrementModulo
    <3>4. \A u \in Thread : at'[u] = g => reg'[u] = -1
      BY <1>0, <1>2, <3>1 DEF TypeOK
    <3> QED
      BY <1>7, <3>3, <3>4
  <2> QED
    BY <2>1, <2>2 DEF Unraced
<1>13. Seen'
  <2>1. ASSUME NEW f \in Func, f # g PROVE (Due(f) < Modulus => counter[f] > 0 \/ Stored(f) = 0)'
    BY <1>0, <1>5, <1>8, <2>1 DEF Seen
  <2>2. ASSUME Due(g) < Modulus PROVE counter'[g] > 0
    <3>1. reg[t] + 1 < Modulus /\ reg[t] + 1 = 0 * Modulus + (reg[t] + 1) /\ reg[t] + 1 \in 0 .. Modulus - 1
      BY <1>2, <1>5, <1>7, <1>9, <2>2
    <3>2. (reg[t] + 1) % Modulus = reg[t] + 1
      BY <3>1, UniqueRemainder
    <3> QED
      BY <1>2, <1>10, <3>2
  <2> QED
    BY <1>5, <2>1, <2>2 DEF Seen
<1> QED
  BY <1>2, <1>11, <1>12, <1>13 DEF RInv

LEMMA Step_RInv ==
  ASSUME RInv, [Next]_vars
  PROVE  RInv'
<1> USE ConstantsAssumption
<1>0. TypeOK /\ TypeOK'
  BY Step_Type DEF RInv
<1>1. CASE RunOnModule
  <2>1. \A f \in Func : calls[f] = 0 /\ calls'[f] = 0 /\ incs[f] \in Int /\ incs'[f] \in Int
    BY <1>0, <1>1 DEF RunOnModule, RInv, Untouched, run, TypeOK
  <2>2. \A f \in Func : Due(f)' = 0 /\ Due(f) = 0
    BY <2>1 DEF Due
  <2>3. \A f \in Func : Unstored(f)' = Unstored(f)
    BY <1>1 DEF RunOnModule, run, Unstored
  <2>4. UNCHANGED <<counter, raced, reg, at>> /\ \A t \in Thread : at[t] = Idle
    BY <1>1 DEF RunOnModule, run, RInv, Untouched
  <2>5. Untouched'
    BY <1>1 DEF RunOnModule, run, RInv, Untouched
  <2> QED
    BY <1>0, <2>2, <2>3, <2>4, <2>5, CountsKept DEF TypeOK
<1>2. CASE Start \/ Exit \/ EndDtor \/ (\E f \in Func : PrintCount(f)) \/ UNCHANGED vars
  <2>1. UNCHANGED <<incs, run>>
    BY <1>2 DEF Start, Exit, EndDtor, PrintCount, vars, build
  <2>2. (phase = "build" => Untouched)'
    <3>1. phase' = "build" => phase = "build"
      BY <1>2 DEF Start, Exit, EndDtor, PrintCount, vars
    <3> QED
      BY <2>1, <3>1 DEF RInv, Untouched, run
  <2>3. \A f \in Func : Unstored(f)' = Unstored(f) /\ Due(f)' = Due(f)
    BY <2>1 DEF Unstored, Due, run
  <2> QED
    BY <1>0, <2>1, <2>2, <2>3, CountsKept DEF run, TypeOK
<1>3. ASSUME NEW t \in Thread, LoadCounter(t) PROVE RInv'
  <2>1. UNCHANGED <<incs, calls, counter, raced, at, todo, phase>> /\ phase # "build" /\ at[t] \in Func
        /\ reg' = [reg EXCEPT ![t] = counter[at[t]]]
    BY <1>0, <1>3 DEF LoadCounter, build, Running, TypeOK
  <2>2. \A f \in Func : Unstored(f)' = Unstored(f) /\ Due(f)' = Due(f)
    BY <2>1 DEF Unstored, Due
  <2>3. \A u \in Thread : reg'[u] = IF u = t THEN counter[at[t]] ELSE reg[u]
    BY <1>0, <2>1 DEF TypeOK
  <2> QED
    BY <1>0, <2>1, <2>2, <2>3, CountsKept DEF TypeOK
<1> QED
  BY <1>0, <1>1, <1>2, <1>3, Call_RInv, Store_RInv DEF Next, Terminating

LEMMA CountsInvariant == Spec => []RInv
BY Init_RInv, Step_RInv, PTL DEF Spec

\* Unless two threads are within lines 72-75 for one function at once, nothing is lost:
\* when nobody is at its head its counter is calls times runs, at the counter's width.
THEOREM ExactWithoutRace == Spec => []ExactUnlessRaced
<1>1. RInv => ExactUnlessRaced
  BY CountsAreNumbers DEF RInv, Bounded, Unraced, ExactUnlessRaced, Due
<1> QED
  BY <1>1, CountsInvariant, PTL

\* The unsynchronised increments of any number of threads never count a call that was
\* not made (lines 70-75).
THEOREM NoCallInvented == Spec => []NeverOvercounts
<1>1. RInv => NeverOvercounts
  <2> SUFFICES ASSUME RInv, NEW f \in Func PROVE counter[f] <= incs[f] * calls[f]
    BY DEF NeverOvercounts
  <2>1. counter[f] <= Stored(f) /\ Stored(f) <= Due(f) /\ Stored(f) \in Int /\ Due(f) \in Nat
    BY CountsAreNumbers DEF RInv, Bounded
  <2>2. counter[f] \in Int
    BY ConstantsAssumption DEF RInv, TypeOK
  <2> QED
    BY <2>1, <2>2 DEF Due
<1> QED
  BY <1>1, CountsInvariant, PTL

\* However many increments are lost to races, a function that was called is counted at
\* least once, as long as its counter cannot have wrapped.
THEOREM CalledIsSeen == Spec => []CalledNotZero
<1>1. RInv => CalledNotZero
  <2> SUFFICES ASSUME RInv, NEW f \in Func, Quiet(f), Due(f) \in 1 .. Modulus - 1
               PROVE  counter[f] > 0
    BY DEF CalledNotZero, Due
  <2>1. Stored(f) = Due(f)
    BY CountsAreNumbers DEF RInv, Bounded
  <2> QED
    BY <2>1, ConstantsAssumption DEF RInv, Seen
<1> QED
  BY <1>1, CountsInvariant, PTL
=============================================================================
