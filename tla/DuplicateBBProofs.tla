------------------------- MODULE DuplicateBBProofs -------------------------
(***************************************************************************)
(* Proofs about duplicate_bb, for every well-formed function and every     *)
(* choice of context values.                                               *)
(***************************************************************************)
EXTENDS DuplicateBB, SequenceTheorems, TLAPS

-----------------------------------------------------------------------------
(* The invariant.                                                          *)

First(b) == FirstNonPHI(Insts(fn.body[b]))

\* What CloneBB moves out of b.
Moved(b) == SubSeq(fn.body[b], First(b), Len(fn.body[b]))

\* Blocks that are cloned, and the one under way.
IsDone(b) == \E k \in 1 .. cloned : targets[k][1] = b
InWork(b) == phase \in {"copy", "purge"} /\ b = Target
Split(b) == IsDone(b) \/ InWork(b)

\* How many instructions of b are in both branches.
Progress(b) == IF IsDone(b) THEN Len(Moved(b)) ELSE IF InWork(b) THEN iter - 1 ELSE 0

\* Blocks are chosen once, with a value BuildRiv has for them, and the loops are in their
\* ranges.
Control ==
  /\ fn \in Functions
  /\ targets \in Seq(Block \X Value)
  /\ cloned \in 0 .. Len(targets)
  /\ phase \in {"find", "split", "copy", "purge", "done"}
  /\ iter \in Nat \ {0}
  /\ \A k, l \in DOMAIN targets : targets[k][1] = targets[l][1] => k = l
  /\ \A k \in DOMAIN targets : \A b \in Block : b = targets[k][1] => targets[k][2] \in Rivs(b)
  /\ phase = "find" => /\ cloned = 0
                       /\ \A k \in DOMAIN targets : \E i \in DOMAIN fn.order :
                            i < iter /\ fn.order[i] = targets[k][1]
  /\ phase \in {"copy", "purge"} => cloned < Len(targets)
  /\ phase = "copy" => iter <= Len(Moved(Target)) + 1
  /\ phase = "purge" => iter = Len(Moved(Target)) + 1

\* What re_mapper has: the values that are moved so far.
Remembered ==
  /\ DOMAIN re_mapper = {v \in {"inst"} \X (Inst \ fn.void) :
                           \E b \in Block : \E k \in 1 .. Progress(b) : v[2] = Moved(b)[k]}
  /\ \A v \in DOMAIN re_mapper : re_mapper[v] = <<"phi", v[2]>>

\* The instruction that is, or was, at position k of the tail of b.
TailOf(b) == [k \in 1 .. Len(Moved(b)) |-> Tested(<<"inst", Moved(b)[k]>>)]

Heads ==
  \A b \in Block :
    code[<<b, "head">>] = IF Split(b) THEN Append(Insts(SubSeq(fn.body[b], 1, First(b) - 1)), <<"cond", b>>)
                                      ELSE Insts(fn.body[b])
Branches ==
  \A b \in Block : \A part \in {"then", "else"} :
    code[<<b, part>>] = [k \in 1 .. Progress(b) |-> <<part, Moved(b)[k]>>]

Left(b) == ({"phi"} \X Inst) \cup (IF IsDone(b) THEN {} ELSE Range(to_remove))

Tails ==
  \A b \in Block :
    IF ~Split(b) THEN code[<<b, "tail">>] = << >>
    ELSE IF phase = "copy" /\ b = Target THEN code[<<b, "tail">>] = TailOf(b)
    ELSE IsFiltered(code[<<b, "tail">>], TailOf(b), Left(b))

ToErase ==
  /\ to_remove \in Seq({"inst"} \X fn.void)
  /\ \A m, n \in DOMAIN to_remove : to_remove[m] = to_remove[n] => m = n
  /\ \A n \in DOMAIN to_remove : phase \in {"copy", "purge"} =>
       \E k \in 1 .. iter - 1 : to_remove[n][2] = Moved(Target)[k]
  /\ phase = "copy" =>
       \A k \in 1 .. iter - 1 : Moved(Target)[k] \in fn.void => <<"inst", Moved(Target)[k]>> \in Range(to_remove)

Clones(map, part) ==
  /\ \A v \in DOMAIN map : map[v] = <<part, v[2]>> /\ v[2] \in Inst
  /\ phase = "copy" => DOMAIN map = {TailOf(Target)[k] : k \in 1 .. iter - 1}
  /\ phase = "purge" => DOMAIN map \subseteq Range(Rest)

\* Is the value x moved out of the same block as j, and before it?
MovedBefore(x, j) ==
  \E b \in Block : \E m, n \in DOMAIN Moved(b) : m < n /\ j = Moved(b)[n] /\ x = <<"inst", Moved(b)[m]>>

\* The operand x of instruction j as the clone of j in a branch has it.
InBranch(part, j, x) == IF MovedBefore(x, j) THEN <<part, x[2]>> ELSE Tested(x)

Members == UNION {Range(fn.body[b]) : b \in Block}

Context(b) == (CHOOSE t \in Range(targets) : t[1] = b)[2]

Renamed(v) == [k \in DOMAIN fn.opnds[v] |-> Tested(fn.opnds[v][k])]
Cloned(part, j) ==
  [k \in DOMAIN fn.opnds[<<"inst", j>>] |-> InBranch(part, j, fn.opnds[<<"inst", j>>][k])]

Operands ==
  /\ code \in [Piece -> Seq(Value)]
  /\ DOMAIN opnds \subseteq Value \ ({"leaf"} \X Leaf)
  /\ \A b \in Block : <<"term", b>> \in DOMAIN opnds
  /\ \A p \in Piece : \A n \in DOMAIN code[p] : code[p][n] \in DOMAIN opnds
  /\ \A v \in DOMAIN opnds :
       /\ v[1] \in {"inst", "then", "else"} => v[2] \in Members
       /\ v[1] \in {"inst", "term"} => opnds[v] = Renamed(v)
       /\ v[1] \in {"then", "else"} => opnds[v] = Cloned(v[1], v[2])
       /\ v[1] = "phi" => opnds[v] = <<<<"then", v[2]>>, <<"else", v[2]>>>>
       /\ v[1] = "cond" => Split(v[2]) /\ opnds[v] = <<Tested(Context(v[2]))>>

IInv ==
  /\ Control /\ Remembered /\ Heads /\ Branches /\ Tails /\ ToErase
  /\ Clones(then_map, "then") /\ Clones(else_map, "else") /\ Operands

-----------------------------------------------------------------------------
(* A function that is read.                                                *)

LEMMA ReadIsWellFormed ==
  ASSUME fn \in Functions
  PROVE  WellFormed(fn)
BY FunctionsAssumption

\* The instructions of a block are its PHIs and, from First on, the others.
LEMMA FirstSplits ==
  ASSUME fn \in Functions, NEW b \in Block
  PROVE  /\ fn.body[b] \in Seq(Inst)
         /\ First(b) \in 1 .. Len(fn.body[b]) + 1
         /\ \A k \in DOMAIN fn.body[b] : fn.body[b][k] \in fn.phis <=> k < First(b)
<1>. DEFINE s == fn.body[b]
            Is(n) == /\ \A k \in 1 .. n - 1 : Insts(s)[k][2] \in fn.phis
                     /\ n <= Len(Insts(s)) => Insts(s)[n][2] \notin fn.phis
<1>1. s \in Seq(Inst) /\ DOMAIN s = 1 .. Len(s) /\ Len(s) \in Nat
  BY ReadIsWellFormed DEF WellFormed
<1>2. /\ DOMAIN Insts(s) = 1 .. Len(s) /\ Len(Insts(s)) = Len(s)
      /\ \A k \in DOMAIN s : Insts(s)[k][2] = s[k]
  <2>1. Insts(s) \in Seq({"inst"} \X Inst) /\ Insts(s) = [k \in 1 .. Len(s) |-> <<"inst", s[k]>>]
    BY <1>1 DEF Insts
  <2>. QED  BY <1>1, <2>1
<1>3. PICK m \in 0 .. Len(s) : \A k \in DOMAIN s : s[k] \in fn.phis <=> k <= m
  BY ReadIsWellFormed DEF WellFormed
<1>4. m + 1 \in 1 .. Len(s) + 1 /\ Is(m + 1)
  BY <1>1, <1>2, <1>3
<1>5. First(b) = CHOOSE n \in 1 .. Len(s) + 1 : Is(n)
  BY <1>2 DEF First, FirstNonPHI
<1>6. First(b) \in 1 .. Len(s) + 1 /\ Is(First(b))
  <2>. HIDE DEF Is
  <2>. QED  BY <1>4, <1>5
<1>7. ASSUME NEW k \in DOMAIN s
      PROVE  s[k] \in fn.phis <=> k < First(b)
  <2>. DEFINE n == First(b)
  <2>0. n \in 1 .. Len(s) + 1 /\ Is(n)
    BY <1>6
  <2>. HIDE DEF n
  <2>1. ~ n > m + 1
    <3>1. SUFFICES ASSUME n > m + 1 PROVE FALSE
      OBVIOUS
    <3>2. m + 1 \in 1 .. n - 1 /\ m + 1 \in DOMAIN s
      BY <1>1, <2>0, <3>1
    <3>. QED  BY <1>2, <1>3, <2>0, <3>2
  <2>2. ~ n < m + 1
    <3>1. SUFFICES ASSUME n < m + 1 PROVE FALSE
      OBVIOUS
    <3>2. n \in DOMAIN s /\ n <= m
      BY <1>1, <2>0, <3>1
    <3>. QED  BY <1>1, <1>2, <1>3, <2>0, <3>2
  <2>3. n = m + 1
    BY <2>0, <2>1, <2>2
  <2>. QED  BY <1>1, <1>3, <2>3 DEF n
<1>. QED  BY <1>1, <1>6, <1>7

LEMMA MovedIs ==
  ASSUME fn \in Functions, NEW b \in Block
  PROVE  /\ Moved(b) \in Seq(Inst \ fn.phis)
         /\ Len(Moved(b)) = Len(fn.body[b]) - First(b) + 1
         /\ Len(Moved(b)) \in Nat /\ DOMAIN Moved(b) = 1 .. Len(Moved(b))
         /\ \A k \in 1 .. Len(Moved(b)) : /\ Moved(b)[k] = fn.body[b][First(b) + k - 1]
                                         /\ First(b) + k - 1 \in DOMAIN fn.body[b]
                                         /\ Moved(b)[k] \in Inst \ fn.phis
                                         /\ Moved(b)[k] \in Members
<1>. DEFINE s == fn.body[b]
<1>1. s \in Seq(Inst) /\ DOMAIN s = 1 .. Len(s) /\ Len(s) \in Nat /\ First(b) \in 1 .. Len(s) + 1
  BY FirstSplits
<1>2. \A i \in First(b) .. Len(s) : s[i] \in Inst \ fn.phis
  BY <1>1, FirstSplits
<1>3. /\ Moved(b) \in Seq(Inst \ fn.phis)
      /\ Len(Moved(b)) = IF First(b) <= Len(s) THEN Len(s) - First(b) + 1 ELSE 0
      /\ \A i \in 1 .. Len(s) - First(b) + 1 : Moved(b)[i] = s[First(b) + i - 1]
  BY <1>1, <1>2, SubSeqProperties DEF Moved
<1>4. Len(Moved(b)) = Len(s) - First(b) + 1 /\ Len(Moved(b)) \in Nat
  BY <1>1, <1>3
<1>5. DOMAIN Moved(b) = 1 .. Len(Moved(b))
  BY <1>3
<1>6. ASSUME NEW k \in 1 .. Len(Moved(b))
      PROVE  /\ Moved(b)[k] = s[First(b) + k - 1] /\ First(b) + k - 1 \in DOMAIN s
             /\ First(b) + k - 1 \in First(b) .. Len(s)
  BY <1>1, <1>3, <1>4, SMTT(20)
<1>7. ASSUME NEW k \in 1 .. Len(Moved(b))
      PROVE  Moved(b)[k] \in Inst \ fn.phis /\ Moved(b)[k] \in Members
  BY <1>2, <1>6 DEF Members, Range
<1>. QED  BY <1>3, <1>4, <1>5, <1>6, <1>7

LEMMA HeadIs ==
  ASSUME fn \in Functions, NEW b \in Block
  PROVE  LET head == SubSeq(fn.body[b], 1, First(b) - 1) IN
           /\ head \in Seq(Inst \cap fn.phis)
           /\ Len(head) = First(b) - 1 /\ DOMAIN head = 1 .. First(b) - 1
           /\ \A k \in 1 .. First(b) - 1 : /\ k \in DOMAIN fn.body[b] /\ head[k] = fn.body[b][k]
                                          /\ head[k] \in Inst \cap fn.phis
<1>. DEFINE s == fn.body[b]
            head == SubSeq(s, 1, First(b) - 1)
<1>1. s \in Seq(Inst) /\ DOMAIN s = 1 .. Len(s) /\ Len(s) \in Nat /\ First(b) \in 1 .. Len(s) + 1
  BY FirstSplits
<1>2. \A i \in 1 .. First(b) - 1 : i \in DOMAIN s /\ s[i] \in Inst \cap fn.phis
  BY <1>1, FirstSplits
<1>3. /\ head \in Seq(Inst \cap fn.phis)
      /\ Len(head) = IF 1 <= First(b) - 1 THEN First(b) - 1 - 1 + 1 ELSE 0
      /\ \A i \in 1 .. First(b) - 1 - 1 + 1 : head[i] = s[1 + i - 1]
  BY <1>1, <1>2, SubSeqProperties
<1>4. Len(head) = First(b) - 1
  BY <1>1, <1>3
<1>5. DOMAIN head = 1 .. First(b) - 1
  BY <1>3, <1>4
<1>6. ASSUME NEW k \in 1 .. First(b) - 1
      PROVE  k \in DOMAIN s /\ head[k] = s[k] /\ head[k] \in Inst \cap fn.phis
  BY <1>1, <1>2, <1>3
<1>. HIDE DEF head
<1>7. /\ head \in Seq(Inst \cap fn.phis)
      /\ Len(head) = First(b) - 1 /\ DOMAIN head = 1 .. First(b) - 1
      /\ \A k \in 1 .. First(b) - 1 : /\ k \in DOMAIN s /\ head[k] = s[k]
                                     /\ head[k] \in Inst \cap fn.phis
  BY <1>3, <1>4, <1>5, <1>6
<1>. QED  BY <1>7 DEF head

\* No instruction is in two places.
LEMMA InOnePlace ==
  ASSUME fn \in Functions, NEW b \in Block, NEW c \in Block,
         NEW m \in DOMAIN fn.body[b], NEW n \in DOMAIN fn.body[c], fn.body[b][m] = fn.body[c][n]
  PROVE  b = c /\ m = n
BY ReadIsWellFormed DEF WellFormed

LEMMA MovedOnce ==
  ASSUME fn \in Functions, NEW b \in Block, NEW c \in Block,
         NEW m \in 1 .. Len(Moved(b)), NEW n \in 1 .. Len(Moved(c)), Moved(b)[m] = Moved(c)[n]
  PROVE  b = c /\ m = n
<1>. DEFINE i == First(b) + m - 1
            j == First(c) + n - 1
<1>1. /\ i \in DOMAIN fn.body[b] /\ Moved(b)[m] = fn.body[b][i]
      /\ j \in DOMAIN fn.body[c] /\ Moved(c)[n] = fn.body[c][j]
  BY MovedIs
<1>. HIDE DEF i, j
<1>2. fn.body[b][i] = fn.body[c][j]
  BY <1>1
<1>3. b = c /\ i = j
  BY <1>1, <1>2, InOnePlace
<1>4. First(b) \in Int /\ m \in Int /\ n \in Int
  BY FirstSplits
<1>. QED  BY <1>3, <1>4 DEF i, j

\* What is moved out of a block is in no other.
LEMMA MovedFromOne ==
  ASSUME fn \in Functions, NEW b \in Block, NEW c \in Block,
         NEW m \in 1 .. Len(Moved(b)), NEW n \in DOMAIN fn.body[c], Moved(b)[m] = fn.body[c][n]
  PROVE  b = c /\ n = First(b) + m - 1
BY MovedIs, InOnePlace

\* What was read does not change.
LEMMA ReadUnchanged ==
  ASSUME fn' = fn
  PROVE  /\ \A b \in Block : /\ First(b)' = First(b) /\ Moved(b)' = Moved(b) /\ Rivs(b)' = Rivs(b)
         /\ Members' = Members
BY DEF First, FirstNonPHI, Insts, Moved, Members, Rivs, Ints

-----------------------------------------------------------------------------
(* Sequences.                                                              *)

LEMMA PurgedIs ==
  ASSUME NEW V, NEW s \in Seq(V), NEW p \in 1 .. Len(s),
         \A k \in 1 .. Len(s) : s[k] = s[p] => k = p
  PROVE  /\ Purged(s, s[p]) \in Seq(V)
         /\ Len(Purged(s, s[p])) = Len(s) - 1
         /\ \A k \in 1 .. Len(s) - 1 : Purged(s, s[p])[k] = IF k < p THEN s[k] ELSE s[k + 1]
<1>1. DOMAIN s = 1 .. Len(s) /\ Len(s) \in Nat
  OBVIOUS
<1>2. (CHOOSE k \in DOMAIN s : s[k] = s[p]) = p
  BY <1>1
<1>. DEFINE l == SubSeq(s, 1, p - 1)
            r == SubSeq(s, p + 1, Len(s))
<1>3. Purged(s, s[p]) = l \o r
  BY <1>2 DEF Purged, RemoveAt
<1>4. \A i \in 1 .. Len(s) : s[i] \in V
  OBVIOUS
<1>5. /\ l \in Seq(V) /\ Len(l) = IF 1 <= p - 1 THEN p - 1 - 1 + 1 ELSE 0
      /\ \A i \in 1 .. p - 1 - 1 + 1 : l[i] = s[1 + i - 1]
  <2>1. \A i \in 1 .. p - 1 : s[i] \in V
    BY <1>1, <1>4
  <2>2. 1 \in Int /\ p - 1 \in Int
    BY <1>1
  <2>. QED  BY <2>1, <2>2, SubSeqProperties
<1>6. /\ r \in Seq(V) /\ Len(r) = IF p + 1 <= Len(s) THEN Len(s) - (p + 1) + 1 ELSE 0
      /\ \A i \in 1 .. Len(s) - (p + 1) + 1 : r[i] = s[p + 1 + i - 1]
  <2>1. \A i \in p + 1 .. Len(s) : s[i] \in V
    BY <1>1, <1>4
  <2>2. p + 1 \in Int /\ Len(s) \in Int
    BY <1>1
  <2>. QED  BY <2>1, <2>2, SubSeqProperties
<1>. HIDE DEF l, r
<1>7. /\ l \o r \in Seq(V) /\ Len(l \o r) = Len(l) + Len(r)
      /\ \A i \in 1 .. Len(l) + Len(r) : (l \o r)[i] = IF i <= Len(l) THEN l[i] ELSE r[i - Len(l)]
  BY <1>5, <1>6, ConcatProperties
<1>8. Len(l) = p - 1 /\ Len(r) = Len(s) - p
  <2>1. /\ Len(l) = IF 1 <= p - 1 THEN p - 1 - 1 + 1 ELSE 0
        /\ Len(r) = IF p + 1 <= Len(s) THEN Len(s) - (p + 1) + 1 ELSE 0
    BY <1>5, <1>6
  <2>2. p \in Int /\ Len(s) \in Int /\ 1 <= p /\ p <= Len(s)
    BY <1>1
  <2>. QED  BY <2>1, <2>2
<1>9. ASSUME NEW k \in 1 .. Len(s) - 1
      PROVE  (l \o r)[k] = IF k < p THEN s[k] ELSE s[k + 1]
  <2>1. k \in 1 .. Len(l) + Len(r)
    BY <1>1, <1>8
  <2>2. CASE k < p
    <3>1. k \in 1 .. p - 1 - 1 + 1 /\ 1 + k - 1 = k /\ k <= Len(l)
      BY <1>1, <1>8, <2>2
    <3>. QED  BY <1>5, <1>7, <2>1, <2>2, <3>1
  <2>3. CASE ~ k < p
    <3>1. /\ k - Len(l) \in 1 .. Len(s) - (p + 1) + 1 /\ p + 1 + (k - Len(l)) - 1 = k + 1
          /\ ~ k <= Len(l)
      BY <1>1, <1>8, <2>3
    <3>. QED  BY <1>6, <1>7, <2>1, <2>3, <3>1
  <2>. QED  BY <2>2, <2>3
<1>10. Len(l \o r) = Len(s) - 1
  BY <1>1, <1>7, <1>8
<1>. QED  BY <1>3, <1>7, <1>9, <1>10

\* A sequence without repetitions is filtered further by purging one element.
LEMMA PurgedIsFiltered ==
  ASSUME NEW V, NEW s \in Seq(V), NEW W, NEW t \in Seq(W), NEW S, NEW v \in S,
         IsFiltered(s, t, S), \A i, j \in 1 .. Len(t) : t[i] = t[j] => i = j,
         \E k \in 1 .. Len(t) : t[k] = v
  PROVE  /\ Purged(s, v) \in Seq(V)
         /\ \A k \in DOMAIN Purged(s, v) : Purged(s, v)[k] # v
         /\ \A w \in Range(s) \ {v} : w \in Range(Purged(s, v))
         /\ Range(Purged(s, v)) \subseteq Range(s)
         /\ IsFiltered(Purged(s, v), t, S \ {v})
<1>1. DOMAIN s = 1 .. Len(s) /\ Len(s) \in Nat /\ DOMAIN t = 1 .. Len(t) /\ Len(t) \in Nat
  OBVIOUS
<1>2. PICK at \in [DOMAIN s -> DOMAIN t] :
         /\ \A m, n \in DOMAIN s : m < n => at[m] < at[n]
         /\ Range(at) = {k \in DOMAIN t : t[k] \in S}
         /\ \A n \in DOMAIN s : s[n] = t[at[n]]
  BY DEF IsFiltered
<1>3. PICK q \in DOMAIN t : t[q] = v
  BY <1>1
<1>4. PICK p \in DOMAIN s : at[p] = q
  BY <1>2, <1>3 DEF Range
<1>5. ASSUME NEW m \in DOMAIN s, NEW n \in DOMAIN s, at[m] = at[n]
      PROVE  m = n
  <2>1. at[m] \in Int /\ at[n] \in Int /\ m \in Int /\ n \in Int
    BY <1>1, <1>2
  <2>2. (m < n => at[m] < at[n]) /\ (n < m => at[n] < at[m])
    BY <1>2
  <2>. QED  BY <1>5, <2>1, <2>2
<1>6. s[p] = v /\ \A k \in DOMAIN s : s[k] = v => k = p
  BY <1>1, <1>2, <1>3, <1>4, <1>5
<1>. DEFINE u == Purged(s, v)
            old(k) == IF k < p THEN k ELSE k + 1
<1>7. /\ u \in Seq(V) /\ Len(u) = Len(s) - 1 /\ DOMAIN u = 1 .. Len(s) - 1
      /\ \A k \in DOMAIN u : old(k) \in DOMAIN s \ {p} /\ u[k] = s[old(k)]
  <2>1. /\ u \in Seq(V) /\ Len(u) = Len(s) - 1
        /\ \A k \in 1 .. Len(s) - 1 : u[k] = IF k < p THEN s[k] ELSE s[k + 1]
    <3>1. p \in 1 .. Len(s) /\ s[p] = v /\ \A k \in 1 .. Len(s) : s[k] = v => k = p
      BY <1>1, <1>6
    <3>. QED  BY <3>1, PurgedIs, ZenonT(30)
  <2>2. DOMAIN u = 1 .. Len(s) - 1
    BY <2>1
  <2>. HIDE DEF u
  <2>3. ASSUME NEW k \in 1 .. Len(s) - 1
        PROVE  old(k) \in DOMAIN s \ {p} /\ u[k] = s[old(k)]
    <3>1. k \in Int /\ p \in Int /\ Len(s) \in Int
      BY <1>1
    <3>2. CASE k < p
      BY <1>1, <2>1, <3>1, <3>2
    <3>3. CASE ~ k < p
      BY <1>1, <2>1, <3>1, <3>3
    <3>. QED  BY <3>2, <3>3
  <2>. QED  BY <2>1, <2>2, <2>3
<1>8. ASSUME NEW n \in DOMAIN s \ {p}
      PROVE  \E k \in DOMAIN u : old(k) = n
  <2>1. CASE n < p
    <3>1. n \in 1 .. Len(s) - 1 /\ old(n) = n
      BY <1>1, <2>1
    <3>. QED  BY <1>7, <3>1
  <2>2. CASE ~ n < p
    <3>1. n - 1 \in 1 .. Len(s) - 1 /\ old(n - 1) = n
      BY <1>1, <2>2
    <3>. QED  BY <1>7, <3>1
  <2>. QED  BY <2>1, <2>2
<1>9. \A k, l \in DOMAIN u : k < l => old(k) < old(l)
  BY <1>1, <1>7
<1>. HIDE DEF u, old
<1>. DEFINE to == [k \in DOMAIN u |-> at[old(k)]]
<1>10. to \in [DOMAIN u -> DOMAIN t] /\ \A n \in DOMAIN u : u[n] = t[to[n]]
  BY <1>2, <1>7
<1>11. \A m, n \in DOMAIN u : m < n => to[m] < to[n]
  BY <1>2, <1>7, <1>9
<1>12. Range(to) = {k \in DOMAIN t : t[k] \in S \ {v}}
  <2>1. ASSUME NEW k \in DOMAIN u
        PROVE  to[k] \in DOMAIN t /\ t[to[k]] \in S \ {v}
    <3>1. old(k) \in DOMAIN s /\ old(k) # p
      BY <1>7
    <3>2. at[old(k)] \in Range(at)
      BY <1>2, <3>1 DEF Range
    <3>3. t[at[old(k)]] = s[old(k)] /\ s[old(k)] # v
      BY <1>2, <1>6, <3>1
    <3>. QED  BY <1>2, <3>2, <3>3
  <2>2. ASSUME NEW k \in DOMAIN t, t[k] \in S \ {v}
        PROVE  \E l \in DOMAIN u : to[l] = k
    <3>1. PICK n \in DOMAIN s : at[n] = k
      BY <1>2, <2>2 DEF Range
    <3>2. n # p
      BY <1>3, <1>4, <2>2, <3>1
    <3>. QED  BY <1>8, <3>1, <3>2
  <2>3. Range(to) = {to[k] : k \in DOMAIN u}
    BY DEF Range
  <2>. HIDE DEF to
  <2>4. \A k \in Range(to) : k \in {m \in DOMAIN t : t[m] \in S \ {v}}
    BY <2>1, <2>3
  <2>5. \A k \in {m \in DOMAIN t : t[m] \in S \ {v}} : k \in Range(to)
    BY <2>2, <2>3
  <2>. QED  BY <2>4, <2>5
<1>13. IsFiltered(u, t, S \ {v})
  BY <1>10, <1>11, <1>12 DEF IsFiltered
<1>14. \A k \in DOMAIN u : u[k] # v
  BY <1>6, <1>7
<1>15. Range(u) \subseteq Range(s)
  BY <1>7 DEF Range
<1>16. ASSUME NEW w \in Range(s) \ {v}
       PROVE  w \in Range(u)
  <2>1. PICK n \in DOMAIN s : s[n] = w
    BY DEF Range
  <2>2. PICK k \in DOMAIN u : old(k) = n
    BY <1>6, <1>8, <2>1
  <2>. QED  BY <1>7, <2>1, <2>2 DEF Range
<1>. QED  BY <1>7, <1>13, <1>14, <1>15, <1>16 DEF u

-----------------------------------------------------------------------------
(* The initial states.                                                     *)

LEMMA OpndsRead ==
  ASSUME fn \in Functions
  PROVE  /\ DOMAIN fn.opnds = ({"inst"} \X Members) \cup ({"term"} \X Block)
         /\ Members \subseteq Inst
         /\ \A v \in DOMAIN fn.opnds :
              /\ fn.opnds[v] \in Seq(({"inst"} \X (Inst \ fn.void)) \cup ({"leaf"} \X Leaf))
              /\ DOMAIN fn.opnds[v] = 1 .. Len(fn.opnds[v])
              /\ \A k \in DOMAIN fn.opnds[v] :
                   fn.opnds[v][k] \in ({"inst"} \X (Inst \ fn.void)) \cup ({"leaf"} \X Leaf)
<1>1. /\ fn.opnds \in [({"inst"} \X Members) \cup ({"term"} \X Block) ->
                       Seq(({"inst"} \X (Inst \ fn.void)) \cup ({"leaf"} \X Leaf))]
      /\ fn.body \in [Block -> Seq(Inst)]
  BY ReadIsWellFormed DEF WellFormed, Members
<1>2. Members \subseteq Inst
  BY <1>1 DEF Members, Range
<1>. QED  BY <1>1, <1>2

LEMMA InstsIs ==
  ASSUME NEW S, NEW s \in Seq(S)
  PROVE  /\ Insts(s) \in Seq({"inst"} \X S) /\ Len(Insts(s)) = Len(s) /\ DOMAIN Insts(s) = 1 .. Len(s)
         /\ \A k \in 1 .. Len(s) : Insts(s)[k] = <<"inst", s[k]>>
<1>1. DOMAIN s = 1 .. Len(s) /\ Len(s) \in Nat
  OBVIOUS
<1>2. Insts(s) = [k \in 1 .. Len(s) |-> <<"inst", s[k]>>]
  BY <1>1 DEF Insts
<1>. QED  BY <1>1, <1>2

LEMMA Initially == Init => IInv
<1>. SUFFICES ASSUME Init PROVE IInv
  OBVIOUS
<1>. USE DEF Init
<1>1. /\ \A b \in Block : ~IsDone(b) /\ ~InWork(b) /\ ~Split(b) /\ Progress(b) = 0
      /\ DOMAIN re_mapper = {} /\ \A x : Tested(x) = x
  BY DEF IsDone, InWork, Split, Progress, EmptyMap, Tested
<1>2. Control
  BY DEF Control
<1>3. Remembered
  BY <1>1 DEF Remembered
<1>4. Heads
  BY <1>1 DEF Heads, Piece, Parts
<1>5. Branches
  <2>. SUFFICES ASSUME NEW b \in Block, NEW part \in {"then", "else"}
                PROVE  code[<<b, part>>] = [k \in 1 .. Progress(b) |-> <<part, Moved(b)[k]>>]
    BY DEF Branches
  <2>. DEFINE s == [k \in 1 .. Progress(b) |-> <<part, Moved(b)[k]>>]
  <2>1. code[<<b, part>>] = << >>
    BY DEF Piece, Parts
  <2>2. s \in Seq({}) /\ Len(s) = 0
    BY <1>1
  <2>. HIDE DEF s
  <2>3. s = << >>
    BY <2>2, EmptySeq
  <2>. QED  BY <2>1, <2>3 DEF s
<1>6. Tails
  <2>1. \A b \in Block : code[<<b, "tail">>] = << >>
    BY DEF Piece, Parts
  <2>. QED  BY <1>1, <2>1, EmptySeq DEF Tails
<1>7. ToErase
  BY DEF ToErase
<1>8. Clones(then_map, "then") /\ Clones(else_map, "else")
  BY DEF Clones, EmptyMap
<1>9. Operands
  <2>1. DOMAIN opnds \subseteq Value \ ({"leaf"} \X Leaf) /\ \A b \in Block : <<"term", b>> \in DOMAIN opnds
    BY OpndsRead DEF Value
  <2>2. ASSUME NEW p \in Piece, NEW n \in DOMAIN code[p]
        PROVE  code[p][n] \in DOMAIN opnds
    <3>1. PICK b \in Block, part \in Parts : p = <<b, part>>
      BY DEF Piece
    <3>2. part = "head" /\ code[p] = Insts(fn.body[b])
      BY <2>2, <3>1
    <3>. DEFINE s == fn.body[b]
    <3>3. s \in Seq(Inst) /\ DOMAIN s = 1 .. Len(s)
      BY FirstSplits
    <3>. HIDE DEF s
    <3>4. DOMAIN Insts(s) = 1 .. Len(s) /\ \A k \in 1 .. Len(s) : Insts(s)[k] = <<"inst", s[k]>>
      BY <3>3, InstsIs
    <3>5. n \in DOMAIN s /\ code[p][n] = <<"inst", s[n]>>
      BY <2>2, <3>2, <3>3, <3>4 DEF s
    <3>6. fn.body[b][n] \in Members
      BY <3>5 DEF Members, Range, s
    <3>7. DOMAIN opnds = ({"inst"} \X Members) \cup ({"term"} \X Block)
      BY OpndsRead
    <3>. QED  BY <3>5, <3>6, <3>7 DEF s
  <2>3. ASSUME NEW v \in DOMAIN opnds
        PROVE  /\ v[1] \in {"inst", "term"} /\ (v[1] = "inst" => v[2] \in Members)
               /\ opnds[v] = Renamed(v)
    BY <1>1, OpndsRead DEF Renamed
  <2>4. code \in [Piece -> Seq(Value)]
    <3>1. ASSUME NEW b \in Block
          PROVE  Insts(fn.body[b]) \in Seq(Value)
      <4>. DEFINE s == fn.body[b]
      <4>1. s \in Seq(Inst)
        BY FirstSplits
      <4>. HIDE DEF s
      <4>2. Insts(s) \in Seq({"inst"} \X Inst)
        BY <4>1, InstsIs
      <4>3. {"inst"} \X Inst \subseteq Value
        BY DEF Value
      <4>. QED  BY <4>2, <4>3, SeqMonotonic DEF s
    <3>. QED  BY <3>1 DEF Piece
  <2>. QED  BY <2>1, <2>2, <2>3, <2>4 DEF Operands
<1>. QED  BY <1>2, <1>3, <1>4, <1>5, <1>6, <1>7, <1>8, <1>9 DEF IInv

-----------------------------------------------------------------------------
(* The steps between instructions.                                         *)

LEMMA RivsTyped ==
  ASSUME fn \in Functions, NEW b \in Block
  PROVE  Rivs(b) \subseteq ({"inst"} \X (Inst \ fn.void)) \cup ({"leaf"} \X Leaf)
BY ReadIsWellFormed DEF WellFormed, Rivs, Ints, Children

\* Operands are renamed as re_mapper says.
LEMMA SameNames ==
  ASSUME fn' = fn, re_mapper' = re_mapper
  PROVE  /\ \A x : Tested(x)' = Tested(x)
         /\ \A v : Renamed(v)' = Renamed(v)
         /\ \A part, j : Cloned(part, j)' = Cloned(part, j)
<1>1. \A b \in Block : Moved(b)' = Moved(b)
  BY ReadUnchanged
<1>2. \A x : Tested(x)' = Tested(x)
  BY DEF Tested
<1>3. \A part, j, x : InBranch(part, j, x)' = InBranch(part, j, x)
  BY <1>1, <1>2 DEF InBranch, MovedBefore
<1>. QED  BY <1>2, <1>3 DEF Renamed, Cloned

\* What depends only on how far the blocks are.
LEMMA Frame ==
  ASSUME IInv, fn' = fn, code' = code, opnds' = opnds, re_mapper' = re_mapper,
         \A b \in Block : /\ Split(b)' <=> Split(b)
                          /\ Progress(b)' = Progress(b)
                          /\ Split(b) => Context(b)' = Context(b)
  PROVE  Remembered' /\ Heads' /\ Branches' /\ Operands'
<1>1. /\ \A b \in Block : Moved(b)' = Moved(b) /\ First(b)' = First(b)
      /\ Members' = Members
  BY ReadUnchanged
<1>4. Remembered'
  <2>1. {v \in {"inst"} \X (Inst \ fn.void) : \E b \in Block : \E k \in 1 .. Progress(b) : v[2] = Moved(b)[k]}'
        = {v \in {"inst"} \X (Inst \ fn.void) : \E b \in Block : \E k \in 1 .. Progress(b) : v[2] = Moved(b)[k]}
    BY <1>1
  <2>. QED  BY <2>1 DEF IInv, Remembered
<1>5. Heads'
  BY <1>1 DEF IInv, Heads, Insts
<1>6. Branches'
  BY <1>1 DEF IInv, Branches
<1>7. Operands'
  <2>1. /\ code \in [Piece -> Seq(Value)]
        /\ DOMAIN opnds \subseteq Value \ ({"leaf"} \X Leaf)
        /\ \A b \in Block : <<"term", b>> \in DOMAIN opnds
        /\ \A p \in Piece : \A n \in DOMAIN code[p] : code[p][n] \in DOMAIN opnds
    BY DEF IInv, Operands
  <2>2. ASSUME NEW v \in DOMAIN opnds
        PROVE  /\ v[1] \in {"inst", "then", "else"} => v[2] \in Members'
               /\ v[1] \in {"inst", "term"} => opnds[v] = Renamed(v)'
               /\ v[1] \in {"then", "else"} => opnds[v] = Cloned(v[1], v[2])'
               /\ v[1] = "phi" => opnds[v] = <<<<"then", v[2]>>, <<"else", v[2]>>>>
               /\ v[1] = "cond" => Split(v[2])' /\ opnds[v] = <<Tested(Context(v[2]))>>'
    <3>1. Renamed(v)' = Renamed(v)
      BY SameNames
    <3>2. Cloned(v[1], v[2])' = Cloned(v[1], v[2])
      BY SameNames
    <3>3. ASSUME v[1] = "cond"
          PROVE  Split(v[2])' /\ opnds[v] = <<Tested(Context(v[2]))>>'
      <4>1. v[2] \in Block
        BY <2>1, <3>3 DEF Value, Copies
      <4>2. Split(v[2]) /\ opnds[v] = <<Tested(Context(v[2]))>>
        BY <3>3 DEF IInv, Operands
      <4>3. Tested(Context(v[2]))' = Tested(Context(v[2]))
        BY <4>1, <4>2 DEF Tested
      <4>. QED  BY <4>1, <4>2, <4>3
    <3>. QED  BY <1>1, <3>1, <3>2, <3>3 DEF IInv, Operands
  <2>. QED  BY <1>1, <2>1, <2>2 DEF Operands
<1>. QED  BY <1>4, <1>5, <1>6, <1>7

\* While contexts are chosen no block is split.
LEMMA NoneSplit ==
  ASSUME Control, phase = "find"
  PROVE  \A b \in Block : ~IsDone(b) /\ ~InWork(b) /\ ~Split(b) /\ Progress(b) = 0
BY DEF Control, IsDone, InWork, Split, Progress

LEMMA Finding ==
  ASSUME IInv, AtBlock, iter' = iter + 1, Control',
         UNCHANGED <<fn, cloned, phase, code, opnds, then_map, else_map, re_mapper, to_remove>>
  PROVE  IInv'
<1>1. /\ \A b \in Block : ~IsDone(b) /\ ~InWork(b) /\ ~Split(b) /\ Progress(b) = 0
      /\ phase = "find" /\ Control
  BY NoneSplit DEF IInv, AtBlock
<1>2. \A b \in Block : ~IsDone(b)' /\ ~InWork(b)' /\ ~Split(b)' /\ Progress(b)' = 0
  BY <1>1 DEF Control, IsDone, InWork, Split, Progress
<1>3. Remembered' /\ Heads' /\ Branches' /\ Operands'
  BY <1>1, <1>2, Frame
<1>4. Tails'
  BY <1>1, <1>2 DEF IInv, Tails
<1>5. ToErase'
  BY <1>1 DEF IInv, ToErase
<1>6. Clones(then_map, "then")' /\ Clones(else_map, "else")'
  BY <1>1 DEF IInv, Clones
<1>. QED  BY <1>3, <1>4, <1>5, <1>6 DEF IInv

LEMMA SkipBlockPreserves ==
  ASSUME IInv, SkipBlock
  PROVE  IInv'
<1>1. Control'
  <2>1. Control /\ phase = "find" /\ iter' = iter + 1
        /\ UNCHANGED <<fn, targets, cloned, phase>>
    BY DEF IInv, SkipBlock, AtBlock
  <2>2. \A k \in DOMAIN targets : \E i \in DOMAIN fn.order : i < iter' /\ fn.order[i] = targets[k][1]
    <3>1. \A i \in DOMAIN fn.order : i < iter => i < iter'
      BY <2>1, ReadIsWellFormed DEF Control, WellFormed
    <3>. QED  BY <2>1, <3>1 DEF Control
  <2>3. \A b \in Block : Rivs(b)' = Rivs(b)
    BY <2>1, ReadUnchanged
  <2>4. \A k \in DOMAIN targets : targets[k][1] \in Block
    BY <2>1 DEF Control
  <2>. QED  BY <2>1, <2>2, <2>3, <2>4 DEF Control
<1>. QED  BY <1>1, Finding DEF SkipBlock

LEMMA ChooseContextPreserves ==
  ASSUME IInv, ChooseContext
  PROVE  IInv'
<1>1. Control'
  <2>1. Control /\ phase = "find" /\ iter' = iter + 1 /\ iter \in 1 .. Len(fn.order)
        /\ UNCHANGED <<fn, cloned, phase>> /\ fn \in Functions
    BY DEF IInv, ChooseContext, AtBlock, Control
  <2>. DEFINE b == fn.order[iter]
  <2>2. PICK context \in Rivs(b) : targets' = Append(targets, <<b, context>>)
    BY DEF ChooseContext
  <2>3. fn.order \in Seq(Block) /\ DOMAIN fn.order = 1 .. Len(fn.order)
        /\ \A i, j \in DOMAIN fn.order : fn.order[i] = fn.order[j] => i = j
    BY <2>1, ReadIsWellFormed DEF WellFormed, IsInjective
  <2>4. b \in Block /\ context \in Value
    BY <2>1, <2>2, <2>3, RivsTyped DEF Value
  <2>. HIDE DEF b
  <2>5. targets \in Seq(Block \X Value) /\ <<b, context>> \in Block \X Value
    BY <2>1, <2>4 DEF Control
  <2>6. /\ targets' \in Seq(Block \X Value) /\ Len(targets') = Len(targets) + 1
        /\ \A k \in 1 .. Len(targets) : targets'[k] = targets[k]
        /\ targets'[Len(targets) + 1] = <<b, context>>
        /\ DOMAIN targets' = 1 .. Len(targets) + 1 /\ DOMAIN targets = 1 .. Len(targets)
        /\ Len(targets) \in Nat
    BY <2>2, <2>5, AppendProperties
  <2>7. \A k \in DOMAIN targets : \E i \in DOMAIN fn.order : i < iter /\ fn.order[i] = targets[k][1]
    BY <2>1 DEF Control
  <2>8. \A k \in DOMAIN targets : targets[k][1] # b
    BY <2>1, <2>3, <2>7 DEF b
  <2>9. ASSUME NEW k \in DOMAIN targets', NEW l \in DOMAIN targets', targets'[k][1] = targets'[l][1]
        PROVE  k = l
    <3>1. CASE k \in DOMAIN targets /\ l \in DOMAIN targets
      BY <2>1, <2>6, <2>9, <3>1 DEF Control
    <3>2. CASE k \in DOMAIN targets /\ l \notin DOMAIN targets
      <4>1. l = Len(targets) + 1
        BY <2>6, <3>2
      <4>. QED  BY <2>6, <2>8, <2>9, <3>2, <4>1
    <3>3. CASE k \notin DOMAIN targets /\ l \in DOMAIN targets
      <4>1. k = Len(targets) + 1
        BY <2>6, <3>3
      <4>. QED  BY <2>6, <2>8, <2>9, <3>3, <4>1
    <3>4. CASE k \notin DOMAIN targets /\ l \notin DOMAIN targets
      BY <2>6, <3>4
    <3>. QED  BY <3>1, <3>2, <3>3, <3>4
  <2>10. ASSUME NEW k \in DOMAIN targets'
         PROVE  /\ \A c \in Block : c = targets'[k][1] => targets'[k][2] \in Rivs(c)
                /\ \E i \in DOMAIN fn.order : i < iter' /\ fn.order[i] = targets'[k][1]
    <3>1. CASE k \in DOMAIN targets
      <4>1. /\ targets'[k] = targets[k]
            /\ \A c \in Block : c = targets[k][1] => targets[k][2] \in Rivs(c)
        BY <2>1, <2>6, <3>1 DEF Control
      <4>2. PICK i \in DOMAIN fn.order : i < iter /\ fn.order[i] = targets[k][1]
        BY <2>7, <3>1
      <4>3. i < iter'
        BY <2>1, <2>3, <4>2
      <4>. QED  BY <4>1, <4>2, <4>3
    <3>2. CASE k = Len(targets) + 1
      <4>1. targets'[k][1] = b /\ targets'[k][2] = context
        BY <2>6, <3>2
      <4>2. iter \in DOMAIN fn.order /\ iter < iter' /\ fn.order[iter] = b
        BY <2>1, <2>3 DEF b
      <4>. QED  BY <2>2, <4>1, <4>2
    <3>. QED  BY <2>6, <3>1, <3>2
  <2>12. \A c \in Block : Rivs(c)' = Rivs(c)
    BY <2>1, ReadUnchanged
  <2>11. /\ cloned' \in 0 .. Len(targets') /\ cloned' = 0 /\ iter' \in Nat \ {0}
         /\ phase' = "find" /\ fn' \in Functions
    BY <2>1, <2>6 DEF Control
  <2>. QED  BY <2>1, <2>6, <2>9, <2>10, <2>11, <2>12 DEF Control
<1>. QED  BY <1>1, Finding DEF ChooseContext

\* The steps that only change the phase, or what is under way.
LEMMA ReturnTargetsPreserves ==
  ASSUME IInv, ReturnTargets
  PROVE  IInv'
<1>. USE DEF ReturnTargets
<1>1. /\ \A b \in Block : ~IsDone(b) /\ ~InWork(b) /\ ~Split(b) /\ Progress(b) = 0
      /\ Control
  BY NoneSplit DEF IInv
<1>2. \A b \in Block : ~IsDone(b)' /\ ~InWork(b)' /\ ~Split(b)' /\ Progress(b)' = 0
  BY <1>1 DEF Control, IsDone, InWork, Split, Progress
<1>3. Remembered' /\ Heads' /\ Branches' /\ Operands'
  BY <1>1, <1>2, Frame
<1>4. Tails'
  BY <1>1, <1>2 DEF IInv, Tails
<1>5. ToErase'
  BY <1>1 DEF IInv, ToErase
<1>6. Clones(then_map, "then")' /\ Clones(else_map, "else")'
  BY <1>1 DEF IInv, Clones
<1>7. Control'
  <2>1. \A b \in Block : Rivs(b)' = Rivs(b)
    BY ReadUnchanged
  <2>2. \A k \in DOMAIN targets : targets[k][1] \in Block
    BY <1>1 DEF Control
  <2>. QED  BY <1>1, <2>1, <2>2 DEF Control
<1>. QED  BY <1>3, <1>4, <1>5, <1>6, <1>7 DEF IInv

LEMMA FinishPreserves ==
  ASSUME IInv, Finish
  PROVE  IInv'
<1>. USE DEF Finish
<1>1. \A b \in Block : /\ IsDone(b)' = IsDone(b) /\ ~InWork(b) /\ ~InWork(b)'
                       /\ Split(b)' <=> Split(b)
                       /\ Context(b)' = Context(b)
  BY DEF IsDone, InWork, Split, Context
<1>2. \A b \in Block : Moved(b)' = Moved(b)
  BY ReadUnchanged
<1>3. \A b \in Block : Progress(b)' = Progress(b)
  BY <1>1, <1>2 DEF Progress
<1>4. Remembered' /\ Heads' /\ Branches' /\ Operands'
  BY <1>1, <1>3, Frame
<1>5. Tails'
  <2>1. \A b \in Block : TailOf(b)' = TailOf(b) /\ Left(b)' = Left(b)
    BY <1>1, <1>2 DEF TailOf, Tested, Left
  <2>. QED  BY <1>1, <2>1 DEF IInv, Tails
<1>6. ToErase'
  BY DEF IInv, ToErase
<1>7. Clones(then_map, "then")' /\ Clones(else_map, "else")'
  BY DEF IInv, Clones
<1>8. Control'
  <2>1. \A b \in Block : Rivs(b)' = Rivs(b)
    BY ReadUnchanged
  <2>2. \A k \in DOMAIN targets : targets[k][1] \in Block
    BY DEF IInv, Control
  <2>. QED  BY <2>1, <2>2 DEF IInv, Control
<1>. QED  BY <1>4, <1>5, <1>6, <1>7, <1>8 DEF IInv

\* The block under way.
LEMMA Working ==
  ASSUME Control, phase \in {"copy", "purge"}
  PROVE  /\ fn \in Functions
         /\ cloned + 1 \in DOMAIN targets /\ Target \in Block
         /\ ~IsDone(Target) /\ InWork(Target) /\ Split(Target)
         /\ Progress(Target) = iter - 1 /\ iter - 1 \in 0 .. Len(Moved(Target))
         /\ \A b \in Block : b # Target => ~InWork(b) /\ (Split(b) <=> IsDone(b))
<1>1. /\ targets \in Seq(Block \X Value) /\ cloned \in 0 .. Len(targets) /\ cloned < Len(targets)
      /\ fn \in Functions
  BY DEF Control
<1>2. cloned + 1 \in DOMAIN targets /\ Target \in Block
  BY <1>1 DEF Target
<1>3. ~IsDone(Target)
  BY <1>1, <1>2 DEF Control, IsDone, Target
<1>4. iter - 1 \in 0 .. Len(Moved(Target))
  BY <1>1, <1>2, MovedIs DEF Control
<1>. QED  BY <1>1, <1>2, <1>3, <1>4 DEF InWork, Split, Progress

\* Re_mapper has no value but those that are moved.
LEMMA RememberedIs ==
  ASSUME fn \in Functions, Remembered, \A c \in Block : Progress(c) \in 0 .. Len(Moved(c)),
         NEW b \in Block, NEW k \in 1 .. Len(Moved(b))
  PROVE  <<"inst", Moved(b)[k]>> \in DOMAIN re_mapper <=>
           Moved(b)[k] \notin fn.void /\ k <= Progress(b)
<1>. DEFINE v == <<"inst", Moved(b)[k]>>
<1>1. v[2] = Moved(b)[k] /\ Moved(b)[k] \in Inst
  BY MovedIs
<1>2. v \in DOMAIN re_mapper <=> /\ Moved(b)[k] \notin fn.void
                                 /\ \E c \in Block : \E n \in 1 .. Progress(c) : v[2] = Moved(c)[n]
  BY <1>1 DEF Remembered
<1>3. ASSUME NEW c \in Block, NEW n \in 1 .. Progress(c), v[2] = Moved(c)[n]
      PROVE  k <= Progress(b)
  <2>1. n \in 1 .. Len(Moved(c)) /\ Progress(c) \in Int
    BY MovedIs
  <2>2. b = c /\ k = n
    BY <1>1, <1>3, <2>1, MovedOnce
  <2>. QED  BY <2>2
<1>4. ASSUME k <= Progress(b)
      PROVE  k \in 1 .. Progress(b)
  BY <1>4, MovedIs
<1>. QED  BY <1>1, <1>2, <1>3, <1>4

LEMMA ProgressInRange ==
  ASSUME Control
  PROVE  \A b \in Block : Progress(b) \in 0 .. Len(Moved(b))
<1>. TAKE b \in Block
<1>1. fn \in Functions /\ Len(Moved(b)) \in Nat
  BY MovedIs DEF Control
<1>2. CASE IsDone(b)
  BY <1>1, <1>2 DEF Progress
<1>3. CASE InWork(b)
  <2>1. b = Target /\ phase \in {"copy", "purge"}
    BY <1>3 DEF InWork
  <2>. QED  BY <2>1, Working
<1>4. CASE ~IsDone(b) /\ ~InWork(b)
  BY <1>1, <1>4 DEF Progress
<1>. QED  BY <1>2, <1>3, <1>4

LEMMA TailOfIs ==
  ASSUME fn \in Functions, Remembered, NEW b \in Block
  PROVE  /\ TailOf(b) \in Seq(({"inst", "phi"} \X Inst))
         /\ Len(TailOf(b)) = Len(Moved(b)) /\ DOMAIN TailOf(b) = 1 .. Len(Moved(b))
         /\ \A k \in 1 .. Len(Moved(b)) :
              /\ TailOf(b)[k] = Tested(<<"inst", Moved(b)[k]>>)
              /\ TailOf(b)[k] \in {"inst", "phi"} \X Inst
              /\ TailOf(b)[k][2] = Moved(b)[k]
         /\ \A m, n \in 1 .. Len(TailOf(b)) : TailOf(b)[m] = TailOf(b)[n] => m = n
<1>1. Len(Moved(b)) \in Nat /\ \A k \in 1 .. Len(Moved(b)) : Moved(b)[k] \in Inst
  BY MovedIs
<1>2. DOMAIN TailOf(b) = 1 .. Len(Moved(b)) /\ Len(TailOf(b)) = Len(Moved(b))
  BY <1>1 DEF TailOf
<1>3. ASSUME NEW k \in 1 .. Len(Moved(b))
      PROVE  /\ TailOf(b)[k] = Tested(<<"inst", Moved(b)[k]>>)
             /\ TailOf(b)[k] \in {"inst", "phi"} \X Inst
             /\ TailOf(b)[k][2] = Moved(b)[k]
  <2>1. TailOf(b)[k] = Tested(<<"inst", Moved(b)[k]>>)
    BY <1>1 DEF TailOf
  <2>2. TailOf(b)[k] \in {<<"inst", Moved(b)[k]>>, <<"phi", Moved(b)[k]>>}
    BY <2>1 DEF Tested, Remembered
  <2>. QED  BY <1>1, <2>1, <2>2
<1>4. TailOf(b) \in Seq({"inst", "phi"} \X Inst)
  <2>1. TailOf(b) = [k \in 1 .. Len(Moved(b)) |-> TailOf(b)[k]]
    BY DEF TailOf
  <2>. DEFINE n == Len(Moved(b))
              S == {"inst", "phi"} \X Inst
  <2>2. n \in Nat /\ \A k \in 1 .. n : TailOf(b)[k] \in S
    BY <1>1, <1>3
  <2>3. TailOf(b) = [k \in 1 .. n |-> TailOf(b)[k]]
    BY <2>1
  <2>. HIDE DEF n, S
  <2>4. TailOf(b) \in [1 .. n -> S]
    BY <2>2, <2>3
  <2>5. TailOf(b) \in Seq(S)
    BY <2>2, <2>4
  <2>. QED  BY <2>5 DEF S
<1>5. ASSUME NEW m \in 1 .. Len(Moved(b)), NEW n \in 1 .. Len(Moved(b)), TailOf(b)[m] = TailOf(b)[n]
      PROVE  m = n
  <2>1. Moved(b)[m] = Moved(b)[n]
    BY <1>3, <1>5
  <2>. QED  BY <2>1, MovedOnce
<1>. QED  BY <1>2, <1>3, <1>4, <1>5

LEMMA EndOfTailPreserves ==
  ASSUME IInv, EndOfTail
  PROVE  IInv'
<1>. USE DEF EndOfTail
<1>. DEFINE b == Target
<1>1. /\ phase = "copy" /\ phase' = "purge" /\ iter > Len(Rest)
      /\ UNCHANGED <<fn, targets, cloned, code, opnds, then_map, else_map, re_mapper, iter, to_remove>>
      /\ Control /\ Remembered /\ fn \in Functions
  BY DEF IInv, Control
<1>2. /\ b \in Block /\ ~IsDone(b) /\ InWork(b) /\ Split(b) /\ Progress(b) = iter - 1
      /\ iter - 1 \in 0 .. Len(Moved(b)) /\ iter \in Nat
  BY <1>1, Working DEF Control
<1>3. code[<<b, "tail">>] = TailOf(b) /\ Rest = TailOf(b)
  BY <1>1, <1>2 DEF IInv, Tails, Rest
<1>4. /\ TailOf(b) \in Seq({"inst", "phi"} \X Inst)
      /\ Len(TailOf(b)) = Len(Moved(b)) /\ DOMAIN TailOf(b) = 1 .. Len(Moved(b))
      /\ \A k \in 1 .. Len(Moved(b)) :
           /\ TailOf(b)[k] = Tested(<<"inst", Moved(b)[k]>>)
           /\ TailOf(b)[k][2] = Moved(b)[k]
           /\ Moved(b)[k] \in Inst
      /\ Len(Moved(b)) \in Nat
  BY <1>1, <1>2, TailOfIs, MovedIs
<1>5. iter = Len(Moved(b)) + 1
  BY <1>1, <1>2, <1>3, <1>4
<1>6. Target' = b
  BY <1>1 DEF Target
<1>7. \A c \in Block : Moved(c)' = Moved(c) /\ Rivs(c)' = Rivs(c)
  BY <1>1, ReadUnchanged
<1>. HIDE DEF b
<1>8. \A c \in Block : /\ IsDone(c)' <=> IsDone(c)
                       /\ InWork(c)' <=> InWork(c)
                       /\ Split(c)' <=> Split(c)
                       /\ Context(c)' = Context(c)
  BY <1>1, <1>6 DEF IsDone, InWork, Split, Context, b
<1>9. \A c \in Block : Progress(c)' = Progress(c)
  BY <1>1, <1>7, <1>8 DEF Progress
<1>10. Remembered' /\ Heads' /\ Branches' /\ Operands'
  BY <1>1, <1>8, <1>9, Frame
<1>11. Control'
  <2>1. \A k \in DOMAIN targets : targets[k][1] \in Block
    BY <1>1 DEF Control
  <2>3. (iter = Len(Moved(Target)) + 1)'
    BY <1>1, <1>2, <1>5, <1>6, <1>7
  <2>4. cloned < Len(targets)
    BY <1>1 DEF Control
  <2>. QED  BY <1>1, <1>7, <2>1, <2>3, <2>4 DEF Control
<1>12. IsFiltered(TailOf(b), TailOf(b), Left(b))
  <2>. DEFINE D == 1 .. Len(Moved(b))
              at == [k \in D |-> k]
  <2>1. ASSUME NEW k \in D
        PROVE  TailOf(b)[k] \in Left(b)
    <3>1. k <= Progress(b) /\ k \in 1 .. iter - 1
      BY <1>2, <1>4, <1>5
    <3>. DEFINE v == <<"inst", Moved(b)[k]>>
    <3>2. v \in DOMAIN re_mapper <=> Moved(b)[k] \notin fn.void
      BY <1>1, <1>2, <3>1, RememberedIs, ProgressInRange
    <3>3. CASE Moved(b)[k] \in fn.void
      <4>1. v \in Range(to_remove)
        BY <1>1, <3>1, <3>3 DEF IInv, ToErase, b
      <4>2. TailOf(b)[k] = v
        BY <1>4, <3>2, <3>3 DEF Tested
      <4>. QED  BY <1>2, <4>1, <4>2 DEF Left
    <3>4. CASE Moved(b)[k] \notin fn.void
      <4>1. TailOf(b)[k] = <<"phi", Moved(b)[k]>>
        BY <1>1, <1>4, <3>2, <3>4 DEF Tested, Remembered
      <4>. QED  BY <1>4, <4>1 DEF Left
    <3>. QED  BY <3>3, <3>4
  <2>2. /\ at \in [DOMAIN TailOf(b) -> DOMAIN TailOf(b)]
        /\ \A m, n \in DOMAIN TailOf(b) : m < n => at[m] < at[n]
        /\ \A n \in DOMAIN TailOf(b) : TailOf(b)[n] = TailOf(b)[at[n]]
    BY <1>4
  <2>3. Range(at) = {k \in DOMAIN TailOf(b) : TailOf(b)[k] \in Left(b)}
    BY <1>4, <2>1 DEF Range
  <2>. QED  BY <2>2, <2>3 DEF IsFiltered
<1>13. Tails'
  <2>1. \A c \in Block : TailOf(c)' = TailOf(c) /\ Left(c)' = Left(c)
    BY <1>1, <1>7, <1>8 DEF TailOf, Tested, Left
  <2>2. ASSUME NEW c \in Block
        PROVE  /\ Split(c) => IsFiltered(code[<<c, "tail">>], TailOf(c), Left(c))
               /\ ~Split(c) => code[<<c, "tail">>] = << >>
    BY <1>1, <1>2, <1>3, <1>12 DEF IInv, Tails, b
  <2>. QED  BY <1>1, <1>8, <2>1, <2>2 DEF Tails
<1>14. ToErase'
  BY <1>1, <1>6, <1>7, <1>2 DEF IInv, ToErase, b
<1>15. Clones(then_map, "then")' /\ Clones(else_map, "else")'
  <2>1. {TailOf(b)[k] : k \in 1 .. iter - 1} \subseteq Range(Rest)
    BY <1>2, <1>3, <1>4, <1>5 DEF Range
  <2>2. Rest' = Rest
    BY <1>1 DEF Rest, Target
  <2>. QED  BY <1>1, <2>1, <2>2 DEF IInv, Clones, b
<1>. QED  BY <1>10, <1>11, <1>13, <1>14, <1>15 DEF IInv

LEMMA EndOfPurgePreserves ==
  ASSUME IInv, EndOfPurge
  PROVE  IInv'
<1>. DEFINE b == Target
<1>1. /\ phase = "purge" /\ phase' = "split" /\ to_remove = << >> /\ cloned' = cloned + 1
      /\ UNCHANGED <<fn, targets, code, opnds, then_map, else_map, re_mapper, iter, to_remove>>
      /\ Control /\ Remembered /\ fn \in Functions
  BY DEF IInv, Control, EndOfPurge
<1>2. /\ b \in Block /\ ~IsDone(b) /\ InWork(b) /\ Split(b) /\ Progress(b) = iter - 1
      /\ \A c \in Block : c # b => ~InWork(c)
      /\ cloned + 1 \in DOMAIN targets
  BY <1>1, Working
<1>3. iter - 1 = Len(Moved(b))
  BY <1>1, <1>2, MovedIs DEF Control
<1>4. b = targets[cloned + 1][1] /\ cloned \in Nat
  BY <1>1 DEF Target, Control
<1>5. \A c \in Block : Moved(c)' = Moved(c) /\ Rivs(c)' = Rivs(c)
  BY <1>1, ReadUnchanged
<1>. HIDE DEF b
<1>6. ASSUME NEW c \in Block
      PROVE  /\ IsDone(c)' <=> IsDone(c) \/ c = b
             /\ ~InWork(c)'
             /\ Split(c)' <=> Split(c)
             /\ Context(c)' = Context(c)
  <2>1. 1 .. cloned' = (1 .. cloned) \cup {cloned + 1}
    BY <1>1, <1>4
  <2>2. IsDone(c)' <=> IsDone(c) \/ c = b
    BY <1>1, <1>4, <2>1 DEF IsDone
  <2>. QED  BY <1>1, <1>2, <2>2 DEF InWork, Split, Context
<1>7. \A c \in Block : Progress(c)' = Progress(c)
  BY <1>2, <1>3, <1>5, <1>6 DEF Progress
<1>8. Remembered' /\ Heads' /\ Branches' /\ Operands'
  BY <1>1, <1>6, <1>7, Frame
<1>9. Tails'
  <2>1. \A c \in Block : TailOf(c)' = TailOf(c)
    BY <1>1, <1>5 DEF TailOf, Tested
  <2>2. \A c \in Block : Left(c)' = Left(c)
    BY <1>1, <1>6 DEF Left, Range
  <2>. QED  BY <1>1, <1>6, <2>1, <2>2 DEF IInv, Tails
<1>10. ToErase'
  BY <1>1 DEF IInv, ToErase
<1>11. Clones(then_map, "then")' /\ Clones(else_map, "else")'
  BY <1>1 DEF IInv, Clones
<1>12. Control'
  <2>1. \A k \in DOMAIN targets : targets[k][1] \in Block
    BY <1>1 DEF Control
  <2>2. cloned' \in 0 .. Len(targets)
    BY <1>1, <1>2 DEF Control
  <2>. QED  BY <1>1, <1>5, <2>1, <2>2 DEF Control
<1>. QED  BY <1>8, <1>9, <1>10, <1>11, <1>12 DEF IInv

LEMMA ContextIs ==
  ASSUME Control, NEW k \in DOMAIN targets
  PROVE  Context(targets[k][1]) = targets[k][2]
<1>. DEFINE b == targets[k][1]
            P(t) == t \in Range(targets) /\ t[1] = b
<1>1. P(targets[k])
  BY DEF Range
<1>2. \A t : P(t) => t = targets[k]
  BY DEF Range, Control
<1>3. Context(b) = (CHOOSE t : P(t))[2]
  BY DEF Context
<1>. HIDE DEF P, b
<1>4. (CHOOSE t : P(t)) = targets[k]
  BY <1>1, <1>2
<1>. QED  BY <1>3, <1>4 DEF b

LEMMA InstsOfPart ==
  ASSUME NEW S, NEW s \in Seq(S), NEW m \in 1 .. Len(s) + 1, NEW n \in m - 1 .. Len(s)
  PROVE  SubSeq(Insts(s), m, n) = Insts(SubSeq(s, m, n))
<1>. DEFINE l == SubSeq(Insts(s), m, n)
            r == SubSeq(s, m, n)
            T == {"inst"} \X S
<1>1. Len(s) \in Nat /\ m \in Int /\ n \in Int /\ \A i \in m .. n : i \in 1 .. Len(s)
  OBVIOUS
<1>2. /\ Insts(s) \in Seq(T) /\ Len(Insts(s)) = Len(s)
      /\ \A k \in 1 .. Len(s) : Insts(s)[k] = <<"inst", s[k]>> /\ s[k] \in S
  BY InstsIs
<1>3. /\ r \in Seq(S) /\ Len(r) = IF m <= n THEN n - m + 1 ELSE 0
      /\ \A i \in 1 .. n - m + 1 : r[i] = s[m + i - 1]
  <2>1. \A i \in m .. n : s[i] \in S
    BY <1>1, <1>2
  <2>. QED  BY <1>1, <2>1, SubSeqProperties
<1>4. /\ l \in Seq(T) /\ Len(l) = IF m <= n THEN n - m + 1 ELSE 0
      /\ \A i \in 1 .. n - m + 1 : l[i] = Insts(s)[m + i - 1]
  <2>1. \A i \in m .. n : Insts(s)[i] \in T
    BY <1>1, <1>2
  <2>. HIDE DEF T
  <2>. QED  BY <1>1, <2>1, SubSeqProperties
<1>. HIDE DEF l, r
<1>5. /\ Insts(r) \in Seq(T) /\ Len(Insts(r)) = Len(r)
      /\ \A k \in 1 .. Len(r) : Insts(r)[k] = <<"inst", r[k]>>
  BY <1>3, InstsIs
<1>6. Len(r) = n - m + 1 /\ Len(l) = n - m + 1
  BY <1>1, <1>3, <1>4
<1>7. \A k \in 1 .. n - m + 1 : m + k - 1 \in 1 .. Len(s)
  BY <1>1
<1>8. \A k \in 1 .. Len(l) : l[k] = Insts(r)[k]
  BY <1>2, <1>3, <1>4, <1>5, <1>6, <1>7
<1>. HIDE DEF T
<1>9. l = Insts(r)
  BY <1>4, <1>5, <1>6, <1>8, SeqEqual
<1>. QED  BY <1>9 DEF l, r

LEMMA SplitBlockPreserves ==
  ASSUME IInv, SplitBlock
  PROVE  IInv'
<1>0. PICK b \in Block : b = Target
  <2>1. targets \in Seq(Block \X Value) /\ cloned + 1 \in 1 .. Len(targets)
    BY DEF IInv, Control, SplitBlock
  <2>. QED  BY <2>1 DEF Target
<1>. DEFINE all == code[<<b, "head">>]
            cond == <<"cond", b>>
            context == targets[cloned + 1][2]
<1>1. /\ phase = "split" /\ cloned < Len(targets) /\ phase' = "copy" /\ iter' = 1
      /\ to_remove' = << >> /\ then_map' = EmptyMap /\ else_map' = EmptyMap
      /\ UNCHANGED <<fn, targets, cloned, re_mapper>>
      /\ code' = [code EXCEPT ![<<b, "head">>] = Append(SubSeq(all, 1, FirstNonPHI(all) - 1), cond),
                              ![<<b, "tail">>] = SubSeq(all, FirstNonPHI(all), Len(all))]
      /\ opnds' = Put(opnds, cond, <<Tested(context)>>)
      /\ Control /\ Remembered /\ fn \in Functions
  BY <1>0 DEF IInv, Control, SplitBlock
<1>2. /\ targets \in Seq(Block \X Value) /\ cloned + 1 \in DOMAIN targets /\ b = targets[cloned + 1][1]
      /\ b \in Block /\ cloned \in Nat
  BY <1>0, <1>1 DEF Control, Target
<1>3. ~IsDone(b) /\ \A c \in Block : ~InWork(c)
  BY <1>1, <1>2 DEF Control, IsDone, InWork
<1>4. ~Split(b) /\ Progress(b) = 0
  BY <1>2, <1>3 DEF Split, Progress
<1>5. Target' = b
  BY <1>0, <1>1 DEF Target
<1>6. /\ \A c \in Block : Moved(c)' = Moved(c) /\ Rivs(c)' = Rivs(c) /\ First(c)' = First(c)
      /\ Members' = Members
  BY <1>1, ReadUnchanged
<1>7. /\ all = Insts(fn.body[b]) /\ FirstNonPHI(all) = First(b)
      /\ fn.body[b] \in Seq(Inst) /\ Len(all) = Len(fn.body[b]) /\ First(b) \in 1 .. Len(fn.body[b]) + 1
      /\ DOMAIN fn.body[b] = 1 .. Len(fn.body[b])
      /\ all \in Seq({"inst"} \X Inst)
      /\ \A k \in 1 .. Len(fn.body[b]) : all[k] = <<"inst", fn.body[b][k]>>
  <2>1. all = Insts(fn.body[b])
    BY <1>2, <1>4 DEF IInv, Heads
  <2>. DEFINE s == fn.body[b]
  <2>2. s \in Seq(Inst) /\ First(b) \in 1 .. Len(s) + 1 /\ DOMAIN s = 1 .. Len(s)
    BY <1>1, <1>2, FirstSplits
  <2>3. FirstNonPHI(all) = First(b)
    BY <2>1 DEF First
  <2>. HIDE DEF s, all
  <2>4. /\ Insts(s) \in Seq({"inst"} \X Inst) /\ Len(Insts(s)) = Len(s)
        /\ \A k \in 1 .. Len(s) : Insts(s)[k] = <<"inst", s[k]>>
    BY <2>2, InstsIs
  <2>. QED  BY <2>1, <2>2, <2>3, <2>4 DEF s
<1>. HIDE DEF all, cond, context
<1>8. ASSUME NEW c \in Block
      PROVE  /\ IsDone(c)' <=> IsDone(c)
             /\ InWork(c)' <=> c = b
             /\ Split(c)' <=> Split(c) \/ c = b
             /\ Context(c)' = Context(c)
             /\ Progress(c)' = Progress(c)
  <2>1. IsDone(c)' <=> IsDone(c)
    BY <1>1 DEF IsDone
  <2>2. InWork(c)' <=> c = b
    BY <1>1, <1>5 DEF InWork
  <2>3. Split(c)' <=> Split(c) \/ c = b
    BY <1>3, <2>1, <2>2 DEF Split
  <2>4. Progress(c)' = Progress(c)
    BY <1>1, <1>3, <1>4, <1>6, <2>1, <2>2 DEF Progress
  <2>. QED  BY <1>1, <2>1, <2>2, <2>3, <2>4 DEF Context
<1>9. Context(b) = context
  BY <1>1, <1>2, ContextIs DEF context
<1>10. /\ code \in [Piece -> Seq(Value)]
       /\ code'[<<b, "head">>] = Append(SubSeq(all, 1, First(b) - 1), cond)
       /\ code'[<<b, "tail">>] = SubSeq(all, First(b), Len(all))
       /\ \A p \in Piece : p # <<b, "head">> /\ p # <<b, "tail">> => code'[p] = code[p]
       /\ code' \in [Piece -> Seq(Value)]
  <2>1. code \in [Piece -> Seq(Value)] /\ <<b, "head">> \in Piece /\ <<b, "tail">> \in Piece
    BY <1>2 DEF IInv, Operands, Piece, Parts
  <2>2. {"inst"} \X Inst \subseteq Value /\ cond \in Value
    BY <1>2 DEF Value, cond
  <2>. DEFINE l == SubSeq(all, 1, First(b) - 1)
              r == SubSeq(all, First(b), Len(all))
  <2>3. all \in Seq(Value) /\ Len(all) \in Nat /\ \A i \in 1 .. Len(all) : all[i] \in Value
    BY <1>7, <2>2, SeqMonotonic
  <2>4. l \in Seq(Value)
    <3>1. \A i \in 1 .. First(b) - 1 : all[i] \in Value
      BY <1>7, <2>3
    <3>2. 1 \in Int /\ First(b) - 1 \in Int
      BY <1>7
    <3>. QED  BY <3>1, <3>2, SubSeqProperties
  <2>5. r \in Seq(Value)
    <3>1. \A i \in First(b) .. Len(all) : all[i] \in Value
      BY <1>7, <2>3
    <3>2. First(b) \in Int /\ Len(all) \in Int
      BY <1>7, <2>3
    <3>. QED  BY <3>1, <3>2, SubSeqProperties
  <2>. HIDE DEF l, r
  <2>6. code' = [code EXCEPT ![<<b, "head">>] = Append(l, cond), ![<<b, "tail">>] = r]
    BY <1>1, <1>7 DEF l, r
  <2>7. Append(l, cond) \in Seq(Value)
    BY <2>2, <2>4
  <2>8. /\ code'[<<b, "head">>] = Append(l, cond) /\ code'[<<b, "tail">>] = r
        /\ \A p \in Piece : p # <<b, "head">> /\ p # <<b, "tail">> => code'[p] = code[p]
    BY <2>1, <2>6
  <2>. QED  BY <2>1, <2>5, <2>6, <2>7, <2>8 DEF l, r
<1>11. Remembered'
  BY <1>1, <1>6, <1>8 DEF Remembered
<1>12. Heads'
  <2>1. SubSeq(all, 1, First(b) - 1) = Insts(SubSeq(fn.body[b], 1, First(b) - 1))
    <3>. DEFINE s == fn.body[b]
    <3>1. /\ s \in Seq(Inst) /\ 1 \in 1 .. Len(s) + 1 /\ First(b) - 1 \in 1 - 1 .. Len(s)
          /\ all = Insts(s)
      BY <1>7
    <3>. HIDE DEF s
    <3>2. SubSeq(Insts(s), 1, First(b) - 1) = Insts(SubSeq(s, 1, First(b) - 1))
      BY <3>1, InstsOfPart
    <3>. QED  BY <3>1, <3>2 DEF s
  <2>2. \A c \in Block : Insts(fn.body[c])' = Insts(fn.body[c])
        /\ Insts(SubSeq(fn.body[c], 1, First(c) - 1))' = Insts(SubSeq(fn.body[c], 1, First(c) - 1))
    BY <1>1, <1>6 DEF Insts
  <2>3. ASSUME NEW c \in Block, c # b
        PROVE  code'[<<c, "head">>] = code[<<c, "head">>]
    BY <1>10, <2>3 DEF Piece, Parts
  <2>. QED  BY <1>8, <1>10, <2>1, <2>2, <2>3 DEF IInv, Heads, cond
<1>13. Branches'
  <2>1. \A c \in Block, part \in {"then", "else"} : code'[<<c, part>>] = code[<<c, part>>]
    BY <1>10 DEF Piece, Parts
  <2>. QED  BY <1>6, <1>8, <2>1 DEF IInv, Branches
<1>14. code'[<<b, "tail">>] = TailOf(b)
  <2>. DEFINE r == SubSeq(all, First(b), Len(all))
  <2>1. r = Insts(Moved(b))
    <3>. DEFINE s == fn.body[b]
    <3>1. /\ s \in Seq(Inst) /\ First(b) \in 1 .. Len(s) + 1 /\ Len(s) \in First(b) - 1 .. Len(s)
          /\ Len(all) = Len(s) /\ all = Insts(s)
      BY <1>7
    <3>. HIDE DEF s
    <3>2. SubSeq(Insts(s), First(b), Len(s)) = Insts(SubSeq(s, First(b), Len(s)))
      BY <3>1, InstsOfPart
    <3>. QED  BY <3>1, <3>2 DEF Moved, s
  <2>2. \A k \in 1 .. Len(Moved(b)) : TailOf(b)[k] = <<"inst", Moved(b)[k]>>
    <3>. TAKE k \in 1 .. Len(Moved(b))
    <3>1. ~ k <= Progress(b)
      BY <1>4
    <3>2. <<"inst", Moved(b)[k]>> \notin DOMAIN re_mapper
      BY <1>1, <1>2, <3>1, RememberedIs, ProgressInRange
    <3>. QED  BY <3>2 DEF TailOf, Tested
  <2>3. Moved(b) \in Seq(Inst \ fn.phis) /\ DOMAIN Moved(b) = 1 .. Len(Moved(b))
    BY <1>1, <1>2, MovedIs
  <2>4. Insts(Moved(b)) = [k \in 1 .. Len(Moved(b)) |-> <<"inst", Moved(b)[k]>>]
    BY <2>3 DEF Insts
  <2>5. TailOf(b) = [k \in 1 .. Len(Moved(b)) |-> TailOf(b)[k]]
    BY DEF TailOf
  <2>. HIDE DEF r
  <2>. QED  BY <1>10, <2>1, <2>2, <2>4, <2>5 DEF r
<1>15. Tails'
  <2>1. \A c \in Block : TailOf(c)' = TailOf(c)
    BY <1>1, <1>6 DEF TailOf, Tested
  <2>2. \A c \in Block : IsDone(c) => Left(c)' = Left(c)
    BY <1>8 DEF Left
  <2>3. ASSUME NEW c \in Block, c # b
        PROVE  /\ code'[<<c, "tail">>] = code[<<c, "tail">>]
               /\ Split(c) <=> IsDone(c)
    BY <1>3, <1>10, <2>3 DEF Piece, Parts, Split
  <2>4. (Target = b)'
    BY <1>5
  <2>. QED  BY <1>1, <1>5, <1>8, <1>14, <2>1, <2>2, <2>3 DEF IInv, Tails
<1>16. ToErase'
  BY <1>1 DEF ToErase
<1>17. Clones(then_map, "then")' /\ Clones(else_map, "else")'
  BY <1>1 DEF Clones, EmptyMap
<1>18. Control'
  <2>1. \A k \in DOMAIN targets : targets[k][1] \in Block
    BY <1>1 DEF Control
  <2>2. (iter <= Len(Moved(Target)) + 1)'
    <3>1. Len(Moved(b)) \in Nat
      BY <1>1, <1>2, MovedIs
    <3>2. Moved(Target)' = Moved(b)
      BY <1>1, <1>2, <1>5, <1>6
    <3>. QED  BY <1>1, <3>1, <3>2
  <2>. QED  BY <1>1, <1>6, <2>1, <2>2 DEF Control
<1>19. Operands'
  <2>1. /\ DOMAIN opnds' = DOMAIN opnds \cup {cond}
        /\ opnds'[cond] = <<Tested(context)>>
        /\ \A v \in DOMAIN opnds : v # cond => opnds'[v] = opnds[v]
    BY <1>1 DEF Put
  <2>2. DOMAIN opnds' \subseteq Value \ ({"leaf"} \X Leaf) /\ \A c \in Block : <<"term", c>> \in DOMAIN opnds'
    BY <1>2, <2>1 DEF IInv, Operands, Value, Copies, cond
  <2>3. ASSUME NEW p \in Piece, NEW n \in DOMAIN code'[p]
        PROVE  code'[p][n] \in DOMAIN opnds'
    <3>1. all = code[<<b, "head">>] /\ <<b, "head">> \in Piece /\ DOMAIN all = 1 .. Len(all) /\ Len(all) \in Nat
      BY <1>2, <1>7 DEF all, Piece, Parts
    <3>2. \A k \in 1 .. Len(all) : all[k] \in DOMAIN opnds
      BY <3>1 DEF IInv, Operands
    <3>3. CASE p = <<b, "head">>
      <4>. DEFINE l == SubSeq(all, 1, First(b) - 1)
      <4>1. \A i \in 1 .. First(b) - 1 : all[i] \in DOMAIN opnds
        <5>1. \A i \in 1 .. First(b) - 1 : i \in 1 .. Len(all)
          BY <1>7, <3>1
        <5>. QED  BY <3>2, <5>1
      <4>2. 1 \in Int /\ First(b) - 1 \in Int
        BY <1>7
      <4>3. l \in Seq(DOMAIN opnds)
        BY <4>1, <4>2, SubSeqProperties
      <4>. HIDE DEF l
      <4>4. Append(l, cond) \in Seq(DOMAIN opnds')
        BY <2>1, <4>3
      <4>5. code'[p] = Append(l, cond)
        BY <1>10, <3>3 DEF l
      <4>. QED  BY <2>3, <4>4, <4>5
    <3>4. CASE p = <<b, "tail">>
      <4>. DEFINE r == SubSeq(all, First(b), Len(all))
      <4>1. \A i \in First(b) .. Len(all) : all[i] \in DOMAIN opnds
        <5>1. \A i \in First(b) .. Len(all) : i \in 1 .. Len(all)
          BY <1>7, <3>1
        <5>. QED  BY <3>2, <5>1
      <4>2. First(b) \in Int /\ Len(all) \in Int
        BY <1>7, <3>1
      <4>3. r \in Seq(DOMAIN opnds)
        BY <4>1, <4>2, SubSeqProperties
      <4>4. code'[p] = r
        BY <1>10, <3>4
      <4>. HIDE DEF r
      <4>. QED  BY <2>1, <2>3, <4>3, <4>4
    <3>5. CASE p # <<b, "head">> /\ p # <<b, "tail">>
      <4>1. code'[p] = code[p]
        BY <1>10, <3>5
      <4>. QED  BY <2>1, <2>3, <4>1 DEF IInv, Operands
    <3>. QED  BY <3>3, <3>4, <3>5
  <2>4. ASSUME NEW v \in DOMAIN opnds'
        PROVE  /\ v[1] \in {"inst", "then", "else"} => v[2] \in Members'
               /\ v[1] \in {"inst", "term"} => opnds'[v] = Renamed(v)'
               /\ v[1] \in {"then", "else"} => opnds'[v] = Cloned(v[1], v[2])'
               /\ v[1] = "phi" => opnds'[v] = <<<<"then", v[2]>>, <<"else", v[2]>>>>
               /\ v[1] = "cond" => Split(v[2])' /\ opnds'[v] = <<Tested(Context(v[2]))>>'
    <3>1. Renamed(v)' = Renamed(v) /\ Cloned(v[1], v[2])' = Cloned(v[1], v[2])
          /\ \A x : Tested(x)' = Tested(x)
      BY <1>1, SameNames
    <3>2. CASE v = cond
      <4>1. v[1] = "cond" /\ v[2] = b
        BY <3>2 DEF cond
      <4>2. Tested(Context(b))' = Tested(context)
        BY <1>1, <1>2, <1>8, <1>9 DEF Tested
      <4>. QED  BY <1>2, <1>8, <2>1, <3>2, <4>1, <4>2
    <3>3. CASE v # cond
      <4>1. v \in DOMAIN opnds /\ opnds'[v] = opnds[v]
        BY <2>1, <2>4, <3>3
      <4>2. ASSUME v[1] = "cond"
            PROVE  Split(v[2])' /\ opnds'[v] = <<Tested(Context(v[2]))>>'
        <5>1. v[2] \in Block
          BY <4>1, <4>2 DEF IInv, Operands, Value, Copies
        <5>2. Split(v[2]) /\ opnds[v] = <<Tested(Context(v[2]))>>
          BY <4>1, <4>2 DEF IInv, Operands
        <5>3. Tested(Context(v[2]))' = Tested(Context(v[2]))
          BY <1>1, <1>8, <5>1 DEF Tested
        <5>. QED  BY <1>8, <4>1, <5>1, <5>2, <5>3
      <4>. QED  BY <1>6, <3>1, <4>1, <4>2 DEF IInv, Operands
    <3>. QED  BY <3>2, <3>3
  <2>. QED  BY <1>10, <2>2, <2>3, <2>4 DEF Operands
<1>. QED  BY <1>11, <1>12, <1>13, <1>15, <1>16, <1>17, <1>18, <1>19 DEF IInv

-----------------------------------------------------------------------------
(* The steps that move or erase an instruction.                            *)

LEMMA FilteredIn ==
  ASSUME NEW s, NEW t, NEW S, IsFiltered(s, t, S), NEW n \in DOMAIN s
  PROVE  s[n] \in S
<1>1. PICK at \in [DOMAIN s -> DOMAIN t] :
         /\ Range(at) = {k \in DOMAIN t : t[k] \in S}
         /\ \A m \in DOMAIN s : s[m] = t[at[m]]
  BY DEF IsFiltered
<1>2. at[n] \in Range(at)
  BY DEF Range
<1>. QED  BY <1>1, <1>2

\* An instruction to be moved out of the block under way is in its tail, if anywhere.
LEMMA InTailOnly ==
  ASSUME IInv, phase \in {"copy", "purge"}, NEW b \in Block, b = Target,
         NEW i \in 1 .. Len(Moved(b)), NEW p \in Piece, p # <<b, "tail">>, NEW n \in DOMAIN code[p]
  PROVE  code[p][n] # <<"inst", Moved(b)[i]>>
<1>. DEFINE v == <<"inst", Moved(b)[i]>>
<1>1. PICK c \in Block, part \in Parts : p = <<c, part>>
  BY DEF Piece
<1>2. /\ Control /\ fn \in Functions /\ Split(b)
      /\ Moved(b)[i] \in Inst \ fn.phis
      /\ c # b => (Split(c) <=> IsDone(c))
  BY Working, MovedIs DEF IInv
<1>3. CASE part = "head" /\ Split(c)
  <2>. DEFINE h == SubSeq(fn.body[c], 1, First(c) - 1)
              cond == <<"cond", c>>
              P == Inst \cap fn.phis
  <2>1. code[p] = Append(Insts(h), cond)
    BY <1>1, <1>3 DEF IInv, Heads
  <2>2. h \in Seq(P) /\ DOMAIN h = 1 .. Len(h) /\ \A k \in 1 .. Len(h) : h[k] \in P
    BY <1>2, HeadIs
  <2>. HIDE DEF h, P
  <2>3. /\ Insts(h) \in Seq({"inst"} \X P) /\ Len(Insts(h)) = Len(h) /\ Len(h) \in Nat
        /\ \A k \in 1 .. Len(h) : Insts(h)[k] = <<"inst", h[k]>>
    BY <2>2, InstsIs
  <2>4. cond # v
    OBVIOUS
  <2>5. \A k \in 1 .. Len(h) : Insts(h)[k] # v
    BY <1>2, <2>2, <2>3 DEF P
  <2>. DEFINE S == ({"inst"} \X P) \cup {cond}
              u == Insts(h)
  <2>6. u \in Seq(S) /\ cond \in S
    BY <2>3, SeqMonotonic
  <2>. HIDE DEF S, cond, v, u
  <2>7. /\ Len(Append(u, cond)) = Len(u) + 1 /\ Append(u, cond) \in Seq(S)
        /\ \A k \in 1 .. Len(u) : Append(u, cond)[k] = u[k]
        /\ Append(u, cond)[Len(u) + 1] = cond
    BY <2>6, AppendProperties
  <2>8. code[p] = Append(u, cond) /\ Len(u) = Len(h) /\ Len(u) \in Nat
    BY <2>1, <2>3 DEF u
  <2>9. n \in 1 .. Len(u) + 1
    BY <2>7, <2>8
  <2>10. CASE n \in 1 .. Len(u)
    BY <2>5, <2>7, <2>8, <2>10 DEF u, v
  <2>11. CASE n = Len(u) + 1
    BY <2>4, <2>7, <2>8, <2>11 DEF v
  <2>. QED  BY <2>8, <2>9, <2>10, <2>11
<1>4. CASE part = "head" /\ ~Split(c)
  <2>. DEFINE s == fn.body[c]
  <2>1. code[p] = Insts(s) /\ c # b
    BY <1>1, <1>2, <1>4 DEF IInv, Heads
  <2>2. s \in Seq(Inst) /\ DOMAIN s = 1 .. Len(s)
    BY <1>2, FirstSplits
  <2>3. \A m \in DOMAIN s : Moved(b)[i] # s[m]
    BY <1>2, <2>1, MovedFromOne
  <2>. HIDE DEF s
  <2>4. DOMAIN Insts(s) = 1 .. Len(s) /\ \A k \in 1 .. Len(s) : Insts(s)[k] = <<"inst", s[k]>>
    BY <2>2, InstsIs
  <2>. QED  BY <2>1, <2>2, <2>3, <2>4
<1>5. CASE part \in {"then", "else"}
  <2>1. code[p] = [k \in 1 .. Progress(c) |-> <<part, Moved(c)[k]>>]
    BY <1>1, <1>5 DEF IInv, Branches
  <2>. QED  BY <1>5, <2>1
<1>6. CASE part = "tail"
  <2>1. c # b
    BY <1>1, <1>6
  <2>2. CASE ~Split(c)
    BY <1>1, <1>6, <2>1, <2>2 DEF IInv, Tails
  <2>3. CASE Split(c)
    <3>1. IsFiltered(code[p], TailOf(c), Left(c)) /\ IsDone(c)
      BY <1>1, <1>2, <1>6, <2>1, <2>3 DEF IInv, Tails
    <3>2. code[p][n] \in Left(c)
      BY <3>1, FilteredIn
    <3>. QED  BY <3>1, <3>2 DEF Left
  <2>. QED  BY <2>2, <2>3
<1>. QED  BY <1>1, <1>3, <1>4, <1>5, <1>6 DEF Parts

LEMMA EraseInstPreserves ==
  ASSUME IInv, EraseInst
  PROVE  IInv'
<1>0. PICK b \in Block : b = Target
  BY Working DEF IInv, EraseInst
<1>. DEFINE v == Head(to_remove)
            s == code[<<b, "tail">>]
<1>1. /\ phase = "purge" /\ to_remove # << >>
      /\ code' = [code EXCEPT ![<<b, "tail">>] = Purged(s, v)]
      /\ opnds' = Forget(opnds, v)
      /\ then_map' = Forget(then_map, v) /\ else_map' = Forget(else_map, v)
      /\ to_remove' = Tail(to_remove)
      /\ UNCHANGED <<fn, targets, cloned, phase, re_mapper, iter>>
      /\ Control /\ Remembered /\ fn \in Functions
  BY <1>0 DEF IInv, Control, EraseInst
<1>2. /\ ~IsDone(b) /\ InWork(b) /\ Split(b) /\ Progress(b) = iter - 1
      /\ iter - 1 \in 0 .. Len(Moved(b)) /\ Len(Moved(b)) \in Nat
      /\ Target' = b /\ Rest = s
  BY <1>0, <1>1, Working, MovedIs DEF Target, Rest
<1>3. /\ \A c \in Block : Moved(c)' = Moved(c) /\ Rivs(c)' = Rivs(c) /\ First(c)' = First(c)
      /\ Members' = Members
      /\ \A c \in Block : TailOf(c)' = TailOf(c)
  <2>1. \A c \in Block : Moved(c)' = Moved(c) /\ Rivs(c)' = Rivs(c) /\ First(c)' = First(c)
    BY <1>1, ReadUnchanged
  <2>. QED  BY <1>1, <2>1, ReadUnchanged DEF TailOf, Tested
<1>4. \A c \in Block : /\ IsDone(c)' <=> IsDone(c)
                       /\ InWork(c)' <=> InWork(c)
                       /\ Split(c)' <=> Split(c)
                       /\ Context(c)' = Context(c)
                       /\ Progress(c)' = Progress(c)
  <2>1. \A c \in Block : /\ IsDone(c)' <=> IsDone(c)
                         /\ InWork(c)' <=> InWork(c)
                         /\ Context(c)' = Context(c)
    BY <1>0, <1>1, <1>2 DEF IsDone, InWork, Context
  <2>. QED  BY <1>1, <1>3, <2>1 DEF Split, Progress
\* What is erased.
<1>5. /\ to_remove \in Seq({"inst"} \X fn.void) /\ v = to_remove[1] /\ v \in {"inst"} \X fn.void
      /\ to_remove' \in Seq({"inst"} \X fn.void) /\ Len(to_remove') = Len(to_remove) - 1
      /\ DOMAIN to_remove = 1 .. Len(to_remove) /\ Len(to_remove) \in Nat /\ 1 \in DOMAIN to_remove
      /\ DOMAIN to_remove' = 1 .. Len(to_remove) - 1
      /\ \A i \in DOMAIN to_remove' : to_remove'[i] = to_remove[i + 1] /\ i + 1 \in DOMAIN to_remove
      /\ \A m, n \in DOMAIN to_remove : to_remove[m] = to_remove[n] => m = n
  BY <1>1 DEF IInv, ToErase
<1>. HIDE DEF v, s
<1>6. Range(to_remove') = Range(to_remove) \ {v}
  <2>1. \A w \in Range(to_remove') : w \in Range(to_remove) /\ w # v
    <3>. TAKE w \in Range(to_remove')
    <3>1. PICK i \in DOMAIN to_remove' : to_remove'[i] = w
      BY DEF Range
    <3>2. i + 1 \in DOMAIN to_remove /\ to_remove[i + 1] = w /\ i + 1 # 1
      BY <1>5, <3>1
    <3>. QED  BY <1>5, <3>2 DEF Range
  <2>2. ASSUME NEW w \in Range(to_remove), w # v
        PROVE  w \in Range(to_remove')
    <3>1. PICK i \in DOMAIN to_remove : to_remove[i] = w
      BY DEF Range
    <3>2. i - 1 \in DOMAIN to_remove' /\ i - 1 + 1 = i
      BY <1>5, <2>2, <3>1
    <3>3. to_remove'[i - 1] = w
      BY <1>5, <3>1, <3>2
    <3>. QED  BY <3>2, <3>3 DEF Range
  <2>. QED  BY <2>1, <2>2
<1>7. PICK i \in 1 .. iter - 1 : v[2] = Moved(b)[i]
  BY <1>0, <1>1, <1>5 DEF IInv, ToErase
<1>8. i \in 1 .. Len(Moved(b)) /\ v = <<"inst", Moved(b)[i]>> /\ Moved(b)[i] \in fn.void
      /\ v \notin DOMAIN re_mapper
  <2>1. i \in 1 .. Len(Moved(b)) /\ v = <<"inst", Moved(b)[i]>> /\ Moved(b)[i] \in fn.void
    BY <1>2, <1>5, <1>7
  <2>. QED  BY <1>1, <2>1, RememberedIs, ProgressInRange
\* The tail without it.
<1>9. /\ Purged(s, v) \in Seq(Value)
      /\ \A k \in DOMAIN Purged(s, v) : Purged(s, v)[k] # v
      /\ \A w \in Range(s) \ {v} : w \in Range(Purged(s, v))
      /\ Range(Purged(s, v)) \subseteq Range(s)
      /\ IsFiltered(Purged(s, v), TailOf(b), Left(b) \ {v})
  <2>. DEFINE t == TailOf(b)
              S == Left(b)
  <2>1. s \in Seq(Value)
    BY DEF IInv, Operands, Piece, Parts, s
  <2>2. t \in Seq({"inst", "phi"} \X Inst) /\ \A m, n \in 1 .. Len(t) : t[m] = t[n] => m = n
    BY <1>1, TailOfIs
  <2>3. i \in 1 .. Len(t) /\ t[i] = v
    BY <1>1, <1>8, TailOfIs DEF Tested
  <2>4. IsFiltered(s, t, S)
    BY <1>1, <1>2 DEF IInv, Tails, s
  <2>5. v \in S
    BY <1>2, <1>5 DEF Left, Range
  <2>. HIDE DEF t, S
  <2>6. /\ Purged(s, v) \in Seq(Value)
        /\ \A k \in DOMAIN Purged(s, v) : Purged(s, v)[k] # v
        /\ \A w \in Range(s) \ {v} : w \in Range(Purged(s, v))
        /\ Range(Purged(s, v)) \subseteq Range(s)
        /\ IsFiltered(Purged(s, v), t, S \ {v})
    <3>1. \E k \in 1 .. Len(t) : t[k] = v
      BY <2>3
    <3>2. PICK W : t \in Seq(W)
      BY <2>2
    <3>3. \A m, n \in 1 .. Len(t) : t[m] = t[n] => m = n
      BY <2>2
    <3>. QED  BY <2>1, <2>4, <2>5, <3>1, <3>2, <3>3, PurgedIsFiltered, Zenon
  <2>. QED  BY <2>6 DEF t, S
<1>10. /\ code \in [Piece -> Seq(Value)] /\ code' \in [Piece -> Seq(Value)]
       /\ code'[<<b, "tail">>] = Purged(s, v)
       /\ \A p \in Piece : p # <<b, "tail">> => code'[p] = code[p]
       /\ <<b, "tail">> \in Piece
  BY <1>1, <1>9 DEF IInv, Operands, Piece, Parts
<1>11. Remembered'
  BY <1>1, <1>3, <1>4 DEF Remembered
<1>12. Heads'
  <2>1. \A c \in Block : code'[<<c, "head">>] = code[<<c, "head">>]
    BY <1>10 DEF Piece, Parts
  <2>. QED  BY <1>1, <1>3, <1>4, <2>1 DEF IInv, Heads, Insts
<1>13. Branches'
  <2>1. \A c \in Block, part \in {"then", "else"} : code'[<<c, part>>] = code[<<c, part>>]
    BY <1>10 DEF Piece, Parts
  <2>. QED  BY <1>3, <1>4, <2>1 DEF IInv, Branches
<1>14. Tails'
  <2>1. Left(b)' = Left(b) \ {v}
    <3>1. v \notin {"phi"} \X Inst
      BY <1>8
    <3>. QED  BY <1>2, <1>4, <1>6, <3>1 DEF Left
  <2>2. ASSUME NEW c \in Block, c # b
        PROVE  /\ code'[<<c, "tail">>] = code[<<c, "tail">>]
               /\ Split(c) => Left(c)' = Left(c)
    <3>1. Split(c) <=> IsDone(c)
      BY <1>0, <1>1, <2>2, Working
    <3>. QED  BY <1>4, <1>10, <2>2, <3>1 DEF Piece, Parts, Left
  <2>. QED  BY <1>1, <1>2, <1>3, <1>4, <1>9, <1>10, <2>1, <2>2 DEF IInv, Tails
<1>15. ToErase'
  <2>1. \A m, n \in DOMAIN to_remove' : to_remove'[m] = to_remove'[n] => m = n
    BY <1>5
  <2>2. \A n \in DOMAIN to_remove' : \E k \in 1 .. iter - 1 : to_remove'[n][2] = Moved(b)[k]
    BY <1>0, <1>1, <1>5 DEF IInv, ToErase
  <2>3. Moved(Target)' = Moved(b)
    BY <1>2, <1>3
  <2>. QED  BY <1>1, <1>5, <2>1, <2>2, <2>3 DEF ToErase
<1>16. Clones(then_map, "then")' /\ Clones(else_map, "else")'
  <2>1. Rest' = Purged(s, v)
    BY <1>2, <1>10 DEF Rest
  <2>2. DOMAIN then_map \subseteq Range(s) /\ DOMAIN else_map \subseteq Range(s)
    BY <1>1, <1>2 DEF IInv, Clones
  <2>3. DOMAIN then_map' = DOMAIN then_map \ {v} /\ DOMAIN else_map' = DOMAIN else_map \ {v}
    BY <1>1 DEF Forget
  <2>4. /\ \A w \in DOMAIN then_map' : then_map'[w] = <<"then", w[2]>> /\ w[2] \in Inst
        /\ \A w \in DOMAIN else_map' : else_map'[w] = <<"else", w[2]>> /\ w[2] \in Inst
    BY <1>1 DEF IInv, Clones, Forget
  <2>. QED  BY <1>1, <1>9, <2>1, <2>2, <2>3, <2>4 DEF Clones
<1>17. Control'
  <2>1. \A k \in DOMAIN targets : targets[k][1] \in Block
    BY <1>1 DEF Control
  <2>2. Moved(Target)' = Moved(Target)
    BY <1>0, <1>2, <1>3
  <2>. QED  BY <1>1, <1>3, <2>1, <2>2 DEF Control
<1>18. Operands'
  <2>1. DOMAIN opnds' = DOMAIN opnds \ {v} /\ \A w \in DOMAIN opnds' : opnds'[w] = opnds[w]
    BY <1>1 DEF Forget
  <2>2. DOMAIN opnds' \subseteq Value \ ({"leaf"} \X Leaf) /\ \A c \in Block : <<"term", c>> \in DOMAIN opnds'
    BY <1>8, <2>1 DEF IInv, Operands
  <2>3. ASSUME NEW p \in Piece, NEW n \in DOMAIN code'[p]
        PROVE  code'[p][n] \in DOMAIN opnds'
    <3>1. CASE p = <<b, "tail">>
      <4>1. code'[p][n] # v /\ code'[p][n] \in Range(code'[p])
        BY <1>9, <1>10, <2>3, <3>1 DEF Range
      <4>2. code'[p][n] \in Range(s)
        BY <1>9, <1>10, <3>1, <4>1
      <4>3. \A w \in Range(s) : w \in DOMAIN opnds
        <5>. TAKE w \in Range(s)
        <5>1. \A q \in Piece : \A m \in DOMAIN code[q] : code[q][m] \in DOMAIN opnds
          BY DEF IInv, Operands
        <5>2. PICK m \in DOMAIN s : s[m] = w
          BY DEF Range
        <5>3. s = code[p] /\ p \in Piece
          BY <2>3, <3>1 DEF s
        <5>. QED  BY <5>1, <5>2, <5>3
      <4>. QED  BY <2>1, <4>1, <4>2, <4>3
    <3>2. CASE p # <<b, "tail">>
      <4>1. code'[p] = code[p] /\ n \in DOMAIN code[p]
        BY <1>10, <2>3, <3>2
      <4>2. code[p][n] # v
        BY <1>0, <1>1, <1>8, <3>2, <4>1, InTailOnly
      <4>. QED  BY <2>1, <4>1, <4>2 DEF IInv, Operands
    <3>. QED  BY <3>1, <3>2
  <2>4. ASSUME NEW w \in DOMAIN opnds'
        PROVE  /\ w[1] \in {"inst", "then", "else"} => w[2] \in Members'
               /\ w[1] \in {"inst", "term"} => opnds'[w] = Renamed(w)'
               /\ w[1] \in {"then", "else"} => opnds'[w] = Cloned(w[1], w[2])'
               /\ w[1] = "phi" => opnds'[w] = <<<<"then", w[2]>>, <<"else", w[2]>>>>
               /\ w[1] = "cond" => Split(w[2])' /\ opnds'[w] = <<Tested(Context(w[2]))>>'
    <3>1. Renamed(w)' = Renamed(w) /\ Cloned(w[1], w[2])' = Cloned(w[1], w[2])
      BY <1>1, SameNames
    <3>2. ASSUME w[1] = "cond"
          PROVE  Split(w[2])' /\ opnds'[w] = <<Tested(Context(w[2]))>>'
      <4>1. w[2] \in Block
        BY <2>1, <3>2 DEF IInv, Operands, Value, Copies
      <4>2. Split(w[2]) /\ opnds[w] = <<Tested(Context(w[2]))>>
        BY <2>1, <3>2 DEF IInv, Operands
      <4>3. Tested(Context(w[2]))' = Tested(Context(w[2]))
        BY <1>1, <1>4, <4>1 DEF Tested
      <4>. QED  BY <1>4, <2>1, <4>1, <4>2, <4>3
    <3>. QED  BY <1>3, <2>1, <3>1, <3>2 DEF IInv, Operands
  <2>. QED  BY <1>10, <2>2, <2>3, <2>4 DEF Operands
<1>. QED  BY <1>11, <1>12, <1>13, <1>14, <1>15, <1>16, <1>17, <1>18 DEF IInv

\* The instruction that is moved next.
LEMMA NextInst ==
  ASSUME IInv, AtInst, NEW b \in Block, b = Target
  PROVE  LET j == Moved(b)[iter]
             v == <<"inst", j>>
         IN  /\ fn \in Functions /\ Control /\ phase = "copy"
             /\ ~IsDone(b) /\ InWork(b) /\ Split(b) /\ Progress(b) = iter - 1
             /\ iter \in 1 .. Len(Moved(b)) /\ Len(Moved(b)) \in Nat
             /\ Rest = code[<<b, "tail">>] /\ Rest = TailOf(b)
             /\ Rest[iter] = v
             /\ j \in Inst \ fn.phis /\ j \in Members
             /\ v \notin DOMAIN re_mapper
             /\ v \in DOMAIN opnds /\ opnds[v] = Renamed(v)
<1>. DEFINE j == Moved(b)[iter]
            v == <<"inst", j>>
<1>1. /\ phase = "copy" /\ iter <= Len(Rest) /\ Control /\ Remembered
      /\ iter \in Nat \ {0}
  BY DEF IInv, AtInst, Control
<1>2. /\ fn \in Functions /\ ~IsDone(b) /\ InWork(b) /\ Split(b) /\ Progress(b) = iter - 1
  BY <1>1, Working
<1>3. Rest = code[<<b, "tail">>] /\ Rest = TailOf(b)
  BY <1>1, <1>2 DEF IInv, Tails, Rest
<1>4. Len(TailOf(b)) = Len(Moved(b)) /\ Len(Moved(b)) \in Nat /\ iter \in 1 .. Len(Moved(b))
  BY <1>1, <1>2, <1>3, TailOfIs, MovedIs
<1>5. j \in Inst \ fn.phis /\ j \in Members
  BY <1>2, <1>4, MovedIs
<1>6. v \notin DOMAIN re_mapper
  <2>1. ~ iter <= Progress(b)
    BY <1>2, <1>4
  <2>. QED  BY <1>1, <1>2, <1>4, <2>1, RememberedIs, ProgressInRange
<1>7. Rest[iter] = v
  BY <1>1, <1>2, <1>3, <1>4, <1>6, TailOfIs DEF Tested
<1>8. v \in DOMAIN opnds
  <2>1. <<b, "tail">> \in Piece /\ iter \in DOMAIN code[<<b, "tail">>]
    BY <1>1, <1>2, <1>3, <1>4, TailOfIs DEF Piece, Parts
  <2>2. \A p \in Piece : \A n \in DOMAIN code[p] : code[p][n] \in DOMAIN opnds
    BY DEF IInv, Operands
  <2>3. code[<<b, "tail">>][iter] \in DOMAIN opnds
    BY <2>1, <2>2
  <2>. QED  BY <1>3, <1>7, <2>3
<1>9. opnds[v] = Renamed(v)
  BY <1>8 DEF IInv, Operands
<1>. QED  BY <1>1, <1>2, <1>3, <1>4, <1>5, <1>6, <1>7, <1>8, <1>9

\* What a clone has for an operand.
LEMMA CopiedIs ==
  ASSUME IInv, AtInst, NEW b \in Block, b = Target,
         NEW part \in {"then", "else"}, NEW map, Clones(map, part)
  PROVE  Copied(map, <<"inst", Moved(b)[iter]>>) = Cloned(part, Moved(b)[iter])
<1>. DEFINE j == Moved(b)[iter]
            v == <<"inst", j>>
            ops == fn.opnds[v]
<1>1. /\ fn \in Functions /\ phase = "copy" /\ iter \in 1 .. Len(Moved(b)) /\ Len(Moved(b)) \in Nat
      /\ j \in Members /\ opnds[v] = Renamed(v) /\ Remembered
  BY NextInst DEF IInv
<1>2. \A k \in DOMAIN ops : ops[k] \in ({"inst"} \X (Inst \ fn.void)) \cup ({"leaf"} \X Leaf)
  BY <1>1, OpndsRead
<1>3. DOMAIN map = {TailOf(b)[m] : m \in 1 .. iter - 1}
  BY <1>1 DEF Clones
<1>4. ASSUME NEW k \in DOMAIN ops
      PROVE  InBranch(part, j, ops[k]) = IF Tested(ops[k]) \in DOMAIN map THEN map[Tested(ops[k])]
                                                                         ELSE Tested(ops[k])
  <2>. DEFINE x == ops[k]
              y == Tested(x)
              Before == MovedBefore(x, j)
  <2>0. /\ x \in ({"inst"} \X (Inst \ fn.void)) \cup ({"leaf"} \X Leaf)
        /\ y[2] = x[2] /\ (x[1] = "leaf" => y = x)
    <3>1. x \in ({"inst"} \X (Inst \ fn.void)) \cup ({"leaf"} \X Leaf)
      BY <1>2
    <3>2. x \in DOMAIN re_mapper => x[1] = "inst" /\ re_mapper[x] = <<"phi", x[2]>>
      BY <1>1 DEF Remembered
    <3>. HIDE DEF x
    <3>3. y = IF x \in DOMAIN re_mapper THEN re_mapper[x] ELSE x
      BY DEF Tested
    <3>. QED  BY <3>1, <3>2, <3>3
  <2>1. ASSUME Before
        PROVE  y \in DOMAIN map /\ map[y] = <<part, x[2]>>
    <3>0. PICK c \in Block : \E m, n \in DOMAIN Moved(c) :
            m < n /\ j = Moved(c)[n] /\ x = <<"inst", Moved(c)[m]>>
      BY <2>1 DEF MovedBefore
    <3>1. PICK m \in DOMAIN Moved(c), n \in DOMAIN Moved(c) :
            m < n /\ j = Moved(c)[n] /\ x = <<"inst", Moved(c)[m]>>
      BY <3>0
    <3>2. c = b /\ n = iter
      BY <1>1, <3>1, MovedOnce, MovedIs
    <3>3. m \in 1 .. iter - 1 /\ m \in 1 .. Len(Moved(b))
      BY <1>1, <3>1, <3>2, MovedIs
    <3>4. TailOf(b)[m] = y
      BY <1>1, <3>1, <3>2, <3>3, TailOfIs
    <3>5. y \in DOMAIN map
      BY <1>3, <3>3, <3>4
    <3>. QED  BY <2>0, <3>5 DEF Clones
  <2>2. ASSUME y \in DOMAIN map
        PROVE  Before
    <3>1. PICK m \in 1 .. iter - 1 : y = TailOf(b)[m]
      BY <1>3, <2>2
    <3>2. m \in 1 .. Len(Moved(b)) /\ m < iter
      BY <1>1
    <3>3. y = <<"inst", Moved(b)[m]>> \/ y = <<"phi", Moved(b)[m]>>
      <4>1. TailOf(b)[m] = Tested(<<"inst", Moved(b)[m]>>)
        BY <1>1, <3>2, TailOfIs
      <4>2. \A w : Tested(w) = w \/ Tested(w) = <<"phi", w[2]>>
        BY <1>1 DEF Tested, Remembered
      <4>. QED  BY <3>1, <4>1, <4>2
    <3>4. x = <<"inst", Moved(b)[m]>>
      <4>1. x[1] # "leaf" /\ x[2] = Moved(b)[m]
        BY <2>0, <3>3
      <4>. QED  BY <2>0, <4>1
    <3>5. m \in DOMAIN Moved(b) /\ iter \in DOMAIN Moved(b)
      BY <1>1, <3>2, MovedIs
    <3>. QED  BY <1>1, <3>2, <3>4, <3>5 DEF MovedBefore
  <2>3. InBranch(part, j, x) = IF Before THEN <<part, x[2]>> ELSE y
    BY DEF InBranch
  <2>. HIDE DEF Before, x, y
  <2>. QED  BY <2>1, <2>2, <2>3 DEF x, y
<1>5. /\ DOMAIN Renamed(v) = DOMAIN ops
      /\ \A k \in DOMAIN ops : Renamed(v)[k] = Tested(ops[k])
  BY DEF Renamed
<1>6. Copied(map, v) = [k \in DOMAIN ops |-> IF Tested(ops[k]) \in DOMAIN map THEN map[Tested(ops[k])]
                                                                             ELSE Tested(ops[k])]
  BY <1>1, <1>5 DEF Copied, Remap
<1>7. Cloned(part, j) = [k \in DOMAIN ops |-> InBranch(part, j, ops[k])]
  BY DEF Cloned
<1>. QED  BY <1>4, <1>6, <1>7

\* A step of the loop.
LEMMA Advance ==
  ASSUME IInv, AtInst, NEW b \in Block, b = Target,
         iter' = iter + 1, UNCHANGED <<fn, targets, cloned, phase>>
  PROVE  /\ \A c \in Block : /\ IsDone(c)' <=> IsDone(c)
                             /\ Split(c)' <=> Split(c)
                             /\ Context(c)' = Context(c)
                             /\ Moved(c)' = Moved(c) /\ First(c)' = First(c)
                             /\ Progress(c)' = IF c = b THEN iter ELSE Progress(c)
                             /\ c # b => (Split(c) <=> IsDone(c))
         /\ Members' = Members /\ Target' = b
         /\ Control'
<1>1. /\ fn \in Functions /\ Control /\ phase = "copy" /\ ~IsDone(b) /\ InWork(b)
      /\ iter \in 1 .. Len(Moved(b)) /\ Len(Moved(b)) \in Nat
  BY NextInst
<1>2. Target' = b
  BY DEF Target
<1>3. \A c \in Block : Moved(c)' = Moved(c) /\ Rivs(c)' = Rivs(c) /\ First(c)' = First(c)
  BY ReadUnchanged
<1>4. \A c \in Block : /\ IsDone(c)' <=> IsDone(c)
                       /\ InWork(c)' <=> InWork(c)
                       /\ InWork(c) <=> c = b
                       /\ Context(c)' = Context(c)
  BY <1>1, <1>2 DEF IsDone, InWork, Context
<1>5. \A c \in Block : Split(c)' <=> Split(c)
  BY <1>4 DEF Split
<1>6. \A c \in Block : Progress(c)' = IF c = b THEN iter ELSE Progress(c)
  <2>1. iter' - 1 = iter
    BY <1>1
  <2>. QED  BY <1>1, <1>3, <1>4, <2>1 DEF Progress
<1>7. Control'
  <2>1. \A k \in DOMAIN targets : targets[k][1] \in Block
    BY <1>1 DEF Control
  <2>2. (iter <= Len(Moved(Target)) + 1)'
    <3>1. Moved(Target)' = Moved(b)
      BY <1>2, <1>3
    <3>. QED  BY <1>1, <3>1
  <2>3. iter' \in Nat \ {0}
    BY <1>1
  <2>. QED  BY <1>1, <1>3, <2>1, <2>2, <2>3 DEF Control
<1>8. \A c \in Block : c # b => (Split(c) <=> IsDone(c))
  BY <1>4 DEF Split
<1>. QED  BY <1>2, <1>3, <1>4, <1>5, <1>6, <1>7, <1>8, ReadUnchanged

\* A branch with one more clone.
LEMMA BranchGrows ==
  ASSUME NEW moved, NEW n \in 1 .. Len(moved), Len(moved) \in Nat, NEW part, NEW S, NEW s \in Seq(S),
         s = [k \in 1 .. n - 1 |-> <<part, moved[k]>>]
  PROVE  Append(s, <<part, moved[n]>>) = [k \in 1 .. n |-> <<part, moved[k]>>]
<1>. DEFINE v == <<part, moved[n]>>
            T == S \cup {v}
            r == [k \in 1 .. n |-> <<part, moved[k]>>]
<1>1. Len(s) = n - 1
  OBVIOUS
<1>2. s \in Seq(T) /\ v \in T
  BY SeqMonotonic
<1>. HIDE DEF T
<1>3. /\ Append(s, v) \in Seq(T) /\ Len(Append(s, v)) = n
      /\ \A k \in 1 .. n - 1 : Append(s, v)[k] = s[k]
      /\ Append(s, v)[n] = v
  BY <1>1, <1>2, AppendProperties
<1>4. \A k \in 1 .. n : Append(s, v)[k] = r[k]
  <2>1. \A k \in 1 .. n : k \in 1 .. n - 1 \/ k = n
    OBVIOUS
  <2>. QED  BY <1>3, <2>1
<1>5. DOMAIN Append(s, v) = 1 .. n /\ Append(s, v) = [k \in 1 .. n |-> Append(s, v)[k]]
  BY <1>3
<1>. QED  BY <1>4, <1>5
\* What the heads and the branches are after a step of the loop.
LEMMA PiecesGrow ==
  ASSUME IInv, AtInst, NEW b \in Block, b = Target,
         iter' = iter + 1, UNCHANGED <<fn, targets, cloned, phase>>,
         \A part \in {"then", "else"} :
           code'[<<b, part>>] = Append(code[<<b, part>>], <<part, Moved(b)[iter]>>),
         \A c \in Block : code'[<<c, "head">>] = code[<<c, "head">>],
         \A c \in Block : c # b => \A part \in {"then", "else"} : code'[<<c, part>>] = code[<<c, part>>]
  PROVE  /\ Heads' /\ Branches'
         /\ \A part \in {"then", "else"} :
              code'[<<b, part>>] = [k \in 1 .. iter |-> <<part, Moved(b)[k]>>]
<1>1. \A c \in Block : /\ Split(c)' <=> Split(c)
                       /\ Moved(c)' = Moved(c) /\ First(c)' = First(c)
                       /\ Progress(c)' = IF c = b THEN iter ELSE Progress(c)
  BY Advance
<1>2. Progress(b) = iter - 1 /\ iter \in 1 .. Len(Moved(b)) /\ Len(Moved(b)) \in Nat
  BY NextInst
<1>3. Heads'
  BY <1>1 DEF IInv, Heads, Insts
<1>4. ASSUME NEW part \in {"then", "else"}
      PROVE  code'[<<b, part>>] = [k \in 1 .. iter |-> <<part, Moved(b)[k]>>]
  <2>. DEFINE s == code[<<b, part>>]
  <2>1. s = [k \in 1 .. iter - 1 |-> <<part, Moved(b)[k]>>]
    BY <1>2, ZenonT(30) DEF IInv, Branches
  <2>2. s \in Seq(Value)
    BY DEF IInv, Operands, Piece, Parts
  <2>3. code'[<<b, part>>] = Append(s, <<part, Moved(b)[iter]>>)
    OBVIOUS
  <2>. HIDE DEF s
  <2>. QED  BY <1>2, <2>1, <2>2, <2>3, BranchGrows
<1>5. Branches'
  <2>. SUFFICES ASSUME NEW c \in Block, NEW part \in {"then", "else"}
                PROVE  code'[<<c, part>>] = [k \in 1 .. Progress(c)' |-> <<part, Moved(c)'[k]>>]
    BY DEF Branches
  <2>1. CASE c = b
    BY <1>1, <1>4, <2>1
  <2>2. CASE c # b
    <3>1. code[<<c, part>>] = [k \in 1 .. Progress(c) |-> <<part, Moved(c)[k]>>]
      BY DEF IInv, Branches
    <3>. QED  BY <1>1, <2>2, <3>1
  <2>. QED  BY <2>1, <2>2
<1>. QED  BY <1>3, <1>4, <1>5

LEMMA CloneVoidInstPreserves ==
  ASSUME IInv, CloneVoidInst
  PROVE  IInv'
<1>0. PICK b \in Block : b = Target
  BY Working DEF IInv, CloneVoidInst, AtInst
<1>. DEFINE j == Moved(b)[iter]
            v == <<"inst", j>>
            t == <<"then", j>>
            e == <<"else", j>>
<1>1. /\ AtInst /\ fn \in Functions /\ Control /\ Remembered /\ phase = "copy"
      /\ ~IsDone(b) /\ InWork(b) /\ Split(b) /\ Progress(b) = iter - 1
      /\ iter \in 1 .. Len(Moved(b)) /\ Len(Moved(b)) \in Nat
      /\ Rest = code[<<b, "tail">>] /\ Rest = TailOf(b) /\ Rest[iter] = v
      /\ j \in Inst \ fn.phis /\ j \in Members
      /\ v \notin DOMAIN re_mapper /\ v \in DOMAIN opnds
  BY <1>0, NextInst DEF CloneVoidInst, IInv
<1>2. /\ j \in fn.void
      /\ code' = [code EXCEPT ![<<b, "then">>] = Append(@, t), ![<<b, "else">>] = Append(@, e)]
      /\ opnds' = Put(Put(opnds, t, Copied(then_map, v)), e, Copied(else_map, v))
      /\ then_map' = Put(then_map, v, t) /\ else_map' = Put(else_map, v, e)
      /\ to_remove' = Append(to_remove, v) /\ iter' = iter + 1
      /\ UNCHANGED <<fn, targets, cloned, phase, re_mapper>>
  BY <1>0, <1>1 DEF CloneVoidInst
<1>3. /\ \A c \in Block : /\ IsDone(c)' <=> IsDone(c)
                          /\ Split(c)' <=> Split(c)
                          /\ Context(c)' = Context(c)
                          /\ Moved(c)' = Moved(c)
                          /\ Progress(c)' = IF c = b THEN iter ELSE Progress(c)
                          /\ c # b => (Split(c) <=> IsDone(c))
      /\ Members' = Members /\ Target' = b
      /\ Control'
  BY <1>0, <1>1, <1>2, Advance
<1>4. Copied(then_map, v) = Cloned("then", j) /\ Copied(else_map, v) = Cloned("else", j)
  BY <1>0, <1>1, CopiedIs DEF IInv
<1>5. \A c \in Block : TailOf(c)' = TailOf(c)
  BY <1>2, <1>3 DEF TailOf, Tested
<1>6. t \in Value /\ e \in Value /\ code \in [Piece -> Seq(Value)]
  BY <1>1 DEF Value, Copies, IInv, Operands
<1>. HIDE DEF j, v, t, e
<1>7. /\ code' \in [Piece -> Seq(Value)]
      /\ code'[<<b, "then">>] = Append(code[<<b, "then">>], t)
      /\ code'[<<b, "else">>] = Append(code[<<b, "else">>], e)
      /\ \A p \in Piece : p # <<b, "then">> /\ p # <<b, "else">> => code'[p] = code[p]
  <2>. DEFINE p == <<b, "then">>
              q == <<b, "else">>
              tt == Append(code[p], t)
              ee == Append(code[q], e)
  <2>1. p \in Piece /\ q \in Piece /\ p # q
    BY DEF Piece, Parts
  <2>2. tt \in Seq(Value) /\ ee \in Seq(Value)
    BY <1>6, <2>1
  <2>3. code' = [code EXCEPT ![p] = tt, ![q] = ee]
    BY <1>2, <1>6, <2>1
  <2>. HIDE DEF p, q, tt, ee
  <2>4. /\ code' \in [Piece -> Seq(Value)] /\ code'[p] = tt /\ code'[q] = ee
        /\ \A r \in Piece : r # p /\ r # q => code'[r] = code[r]
    BY <1>6, <2>1, <2>2, <2>3
  <2>. QED  BY <2>4 DEF p, q, tt, ee
<1>8. /\ Heads' /\ Branches'
      /\ \A part \in {"then", "else"} :
           code'[<<b, part>>] = [k \in 1 .. iter |-> <<part, Moved(b)[k]>>]
  <2>1. \A part \in {"then", "else"} :
           code'[<<b, part>>] = Append(code[<<b, part>>], <<part, Moved(b)[iter]>>)
    BY <1>7 DEF j, t, e
  <2>2. /\ \A c \in Block : code'[<<c, "head">>] = code[<<c, "head">>]
        /\ \A c \in Block : c # b => \A part \in {"then", "else"} : code'[<<c, part>>] = code[<<c, part>>]
    BY <1>7 DEF Piece, Parts
  <2>. QED  BY <1>0, <1>1, <1>2, <2>1, <2>2, PiecesGrow
<1>9. Remembered'
  <2>1. \A w \in {"inst"} \X (Inst \ fn.void) : \A c \in Block :
          (\E k \in 1 .. Progress(c)' : w[2] = Moved(c)[k]) <=> (\E k \in 1 .. Progress(c) : w[2] = Moved(c)[k])
    <3>. SUFFICES ASSUME NEW w \in {"inst"} \X (Inst \ fn.void)
                  PROVE  (\E k \in 1 .. iter : w[2] = Moved(b)[k]) <=> (\E k \in 1 .. iter - 1 : w[2] = Moved(b)[k])
      BY <1>1, <1>3
    <3>1. w[2] # Moved(b)[iter]
      BY <1>2 DEF j
    <3>. QED  BY <1>1, <3>1
  <2>2. {w \in {"inst"} \X (Inst \ fn.void) : \E c \in Block : \E k \in 1 .. Progress(c) : w[2] = Moved(c)[k]}'
        = {w \in {"inst"} \X (Inst \ fn.void) : \E c \in Block : \E k \in 1 .. Progress(c) : w[2] = Moved(c)[k]}
    <3>1. ASSUME NEW w \in {"inst"} \X (Inst \ fn.void), NEW c \in Block
          PROVE  (\E k \in 1 .. Progress(c)' : w[2] = Moved(c)'[k]) <=> (\E k \in 1 .. Progress(c) : w[2] = Moved(c)[k])
      <4>1. Moved(c)' = Moved(c)
        BY <1>3
      <4>. QED  BY <2>1, <4>1
    <3>. QED  BY <1>2, <3>1
  <2>. QED  BY <1>1, <1>2, <2>2 DEF Remembered
<1>10. Tails'
  <2>1. ASSUME NEW c \in Block
        PROVE  /\ code'[<<c, "tail">>] = code[<<c, "tail">>]
               /\ c # b /\ Split(c) => Left(c)' = Left(c)
    BY <1>3, <1>7 DEF Piece, Parts, Left
  <2>2. ASSUME NEW c \in Block
        PROVE  IF ~Split(c)' THEN code'[<<c, "tail">>] = << >>
               ELSE IF phase' = "copy" /\ c = Target' THEN code'[<<c, "tail">>] = TailOf(c)'
               ELSE IsFiltered(code'[<<c, "tail">>], TailOf(c)', Left(c)')
    <3>1. CASE c = b
      BY <1>1, <1>2, <1>3, <1>5, <2>1, <3>1
    <3>2. CASE c # b
      BY <1>0, <1>2, <1>3, <1>5, <2>1, <3>2 DEF IInv, Tails
    <3>. QED  BY <3>1, <3>2
  <2>. QED  BY <2>2 DEF Tails, IsFiltered
<1>11. /\ to_remove \in Seq({"inst"} \X fn.void)
       /\ to_remove' \in Seq({"inst"} \X fn.void) /\ Len(to_remove') = Len(to_remove) + 1
       /\ Len(to_remove) \in Nat
       /\ DOMAIN to_remove = 1 .. Len(to_remove) /\ DOMAIN to_remove' = 1 .. Len(to_remove) + 1
       /\ \A n \in 1 .. Len(to_remove) : to_remove'[n] = to_remove[n]
       /\ to_remove'[Len(to_remove) + 1] = v
  BY <1>2, AppendProperties DEF IInv, ToErase, v
<1>12. ToErase'
  <2>1. \A n \in DOMAIN to_remove : \E k \in 1 .. iter - 1 : to_remove[n][2] = Moved(b)[k]
    BY <1>0, <1>1 DEF IInv, ToErase
  <2>2. \A n \in DOMAIN to_remove : to_remove[n] # v
    <3>. SUFFICES ASSUME NEW n \in DOMAIN to_remove, to_remove[n] = v PROVE FALSE
      OBVIOUS
    <3>1. PICK k \in 1 .. iter - 1 : Moved(b)[iter] = Moved(b)[k]
      BY <2>1 DEF v, j
    <3>2. k \in 1 .. Len(Moved(b)) /\ k # iter
      BY <1>1
    <3>. QED  BY <1>1, <3>1, <3>2, MovedOnce
  <2>3. \A m, n \in DOMAIN to_remove' : to_remove'[m] = to_remove'[n] => m = n
    BY <1>11, <2>2 DEF IInv, ToErase
  <2>4. ASSUME NEW n \in DOMAIN to_remove'
        PROVE  \E k \in 1 .. iter : to_remove'[n][2] = Moved(b)[k]
    <3>1. CASE n \in DOMAIN to_remove
      <4>1. PICK k \in 1 .. iter - 1 : to_remove[n][2] = Moved(b)[k]
        BY <2>1, <3>1
      <4>2. k \in 1 .. iter /\ to_remove'[n] = to_remove[n]
        BY <1>1, <1>11, <3>1
      <4>. QED  BY <4>1, <4>2
    <3>2. CASE n = Len(to_remove) + 1
      <4>1. iter \in 1 .. iter /\ to_remove'[n][2] = Moved(b)[iter]
        BY <1>1, <1>11, <3>2 DEF v, j
      <4>. QED  BY <4>1
    <3>. QED  BY <1>11, <2>4, <3>1, <3>2
  <2>5. ASSUME NEW k \in 1 .. iter, Moved(b)[k] \in fn.void
        PROVE  <<"inst", Moved(b)[k]>> \in Range(to_remove')
    <3>1. CASE k = iter
      BY <1>11, <3>1 DEF Range, v, j
    <3>2. CASE k # iter
      <4>1. k \in 1 .. iter - 1
        BY <1>1, <3>2
      <4>2. PICK n \in DOMAIN to_remove : to_remove[n] = <<"inst", Moved(b)[k]>>
        BY <1>0, <1>1, <2>5, <4>1 DEF IInv, ToErase, Range
      <4>3. n \in DOMAIN to_remove' /\ to_remove'[n] = <<"inst", Moved(b)[k]>>
        BY <1>11, <4>2
      <4>. QED  BY <4>3 DEF Range
    <3>. QED  BY <3>1, <3>2
  <2>6. Moved(Target)' = Moved(b) /\ iter' - 1 = iter
    BY <1>1, <1>2, <1>3
  <2>. QED  BY <1>2, <1>11, <2>3, <2>4, <2>5, <2>6 DEF ToErase
<1>13. Clones(then_map, "then")' /\ Clones(else_map, "else")'
  <2>1. v[2] \in Inst /\ t = <<"then", v[2]>> /\ e = <<"else", v[2]>>
    BY <1>1 DEF v, t, e
  <2>2. {TailOf(b)[k] : k \in 1 .. iter} = {TailOf(b)[k] : k \in 1 .. iter - 1} \cup {v}
    <3>1. 1 .. iter = (1 .. iter - 1) \cup {iter}
      BY <1>1
    <3>. QED  BY <1>1, <3>1
  <2>3. /\ DOMAIN then_map = {TailOf(b)[k] : k \in 1 .. iter - 1}
        /\ DOMAIN else_map = {TailOf(b)[k] : k \in 1 .. iter - 1}
    BY <1>0, <1>1 DEF IInv, Clones
  <2>4. /\ DOMAIN then_map' = {TailOf(b)[k] : k \in 1 .. iter}
        /\ DOMAIN else_map' = {TailOf(b)[k] : k \in 1 .. iter}
    BY <1>2, <2>2, <2>3 DEF Put
  <2>5. /\ \A w \in DOMAIN then_map' : then_map'[w] = <<"then", w[2]>> /\ w[2] \in Inst
        /\ \A w \in DOMAIN else_map' : else_map'[w] = <<"else", w[2]>> /\ w[2] \in Inst
    BY <1>2, <2>1 DEF IInv, Clones, Put
  <2>6. TailOf(Target)' = TailOf(b) /\ iter' - 1 = iter
    BY <1>1, <1>2, <1>3, <1>5
  <2>. QED  BY <1>1, <1>2, <2>4, <2>5, <2>6 DEF Clones
<1>14. Operands'
  <2>1. /\ DOMAIN opnds' = DOMAIN opnds \cup {t, e}
        /\ opnds'[t] = Cloned("then", j) /\ opnds'[e] = Cloned("else", j)
        /\ \A w \in DOMAIN opnds : w # t /\ w # e => opnds'[w] = opnds[w]
    <3>1. t # e
      BY DEF t, e
    <3>. QED  BY <1>2, <1>4, <3>1 DEF Put
  <2>2. DOMAIN opnds' \subseteq Value \ ({"leaf"} \X Leaf) /\ \A c \in Block : <<"term", c>> \in DOMAIN opnds'
    <3>1. t \notin {"leaf"} \X Leaf /\ e \notin {"leaf"} \X Leaf
      BY DEF t, e
    <3>. QED  BY <1>6, <2>1, <3>1 DEF IInv, Operands
  <2>0. ASSUME NEW p \in Piece, NEW w, NEW n \in DOMAIN Append(code[p], w)
        PROVE  Append(code[p], w)[n] \in DOMAIN opnds \cup {w}
    <3>. DEFINE s == code[p]
                S == DOMAIN opnds \cup {w}
    <3>1. s \in Seq(Value) /\ \A k \in DOMAIN s : s[k] \in S
      BY <1>6 DEF IInv, Operands
    <3>. HIDE DEF s, S
    <3>2. s \in Seq(S)
      BY <3>1
    <3>3. w \in S
      BY DEF S
    <3>4. Append(s, w) \in Seq(S)
      BY <3>2, <3>3
    <3>. QED  BY <2>0, <3>4 DEF s, S
  <2>3. ASSUME NEW p \in Piece, NEW n \in DOMAIN code'[p]
        PROVE  code'[p][n] \in DOMAIN opnds'
    <3>1. CASE p = <<b, "then">>
      <4>1. code'[p] = Append(code[p], t)
        BY <1>7, <3>1
      <4>2. code'[p][n] \in DOMAIN opnds \cup {t}
        BY <2>0, <2>3, <4>1
      <4>. QED  BY <2>1, <4>2
    <3>2. CASE p = <<b, "else">>
      <4>1. code'[p] = Append(code[p], e)
        BY <1>7, <3>2
      <4>2. code'[p][n] \in DOMAIN opnds \cup {e}
        BY <2>0, <2>3, <4>1
      <4>. QED  BY <2>1, <4>2
    <3>3. CASE p # <<b, "then">> /\ p # <<b, "else">>
      BY <1>7, <2>1, <2>3, <3>3 DEF IInv, Operands
    <3>. QED  BY <3>1, <3>2, <3>3
  <2>4. ASSUME NEW w \in DOMAIN opnds'
        PROVE  /\ w[1] \in {"inst", "then", "else"} => w[2] \in Members'
               /\ w[1] \in {"inst", "term"} => opnds'[w] = Renamed(w)'
               /\ w[1] \in {"then", "else"} => opnds'[w] = Cloned(w[1], w[2])'
               /\ w[1] = "phi" => opnds'[w] = <<<<"then", w[2]>>, <<"else", w[2]>>>>
               /\ w[1] = "cond" => Split(w[2])' /\ opnds'[w] = <<Tested(Context(w[2]))>>'
    <3>1. Renamed(w)' = Renamed(w) /\ Cloned(w[1], w[2])' = Cloned(w[1], w[2])
      BY <1>2, SameNames
    <3>2. CASE w = t \/ w = e
      BY <1>1, <1>3, <2>1, <3>1, <3>2 DEF t, e
    <3>3. CASE w # t /\ w # e
      <4>1. w \in DOMAIN opnds /\ opnds'[w] = opnds[w]
        BY <2>1, <3>3
      <4>2. ASSUME w[1] = "cond"
            PROVE  Split(w[2])' /\ opnds'[w] = <<Tested(Context(w[2]))>>'
        <5>1. w[2] \in Block
          BY <4>1, <4>2 DEF IInv, Operands, Value, Copies
        <5>2. Split(w[2]) /\ opnds[w] = <<Tested(Context(w[2]))>>
          BY <4>1, <4>2 DEF IInv, Operands
        <5>3. Tested(Context(w[2]))' = Tested(Context(w[2]))
          BY <1>2, <1>3, <5>1 DEF Tested
        <5>. QED  BY <1>3, <4>1, <5>1, <5>2, <5>3
      <4>. QED  BY <1>3, <3>1, <4>1, <4>2 DEF IInv, Operands
    <3>. QED  BY <3>2, <3>3
  <2>. QED  BY <1>7, <2>2, <2>3, <2>4 DEF Operands
<1>. QED  BY <1>3, <1>8, <1>9, <1>10, <1>12, <1>13, <1>14 DEF IInv
\* How a value that is replaced is replaced in the operands: as re_mapper then says.
LEMMA Replaced ==
  ASSUME IInv, NEW j, <<"inst", j>> \notin DOMAIN re_mapper,
         fn' = fn, re_mapper' = Put(re_mapper, <<"inst", j>>, <<"phi", j>>)
  PROVE  /\ \A x : Tested(x)' = IF Tested(x) = <<"inst", j>> THEN <<"phi", j>> ELSE Tested(x)
         /\ \A x : Tested(x) = <<"inst", j>> => x = <<"inst", j>>
         /\ \A w : Remap([y \in {<<"inst", j>>} |-> <<"phi", j>>], Renamed(w)) = Renamed(w)'
         /\ \A part \in {"then", "else"} : \A i :
              Remap([y \in {<<"inst", j>>} |-> <<"phi", j>>], Cloned(part, i)) = Cloned(part, i)'
<1>. DEFINE v == <<"inst", j>>
            phi == <<"phi", j>>
<1>1. \A x : x \in DOMAIN re_mapper => re_mapper[x] = <<"phi", x[2]>>
  BY DEF IInv, Remembered
<1>2. v # phi /\ \A a : <<"phi", a>> # v
  OBVIOUS
<1>3. ASSUME NEW x
      PROVE  /\ Tested(x)' = IF Tested(x) = v THEN phi ELSE Tested(x)
             /\ Tested(x) = v => x = v
  <2>1. DOMAIN re_mapper' = DOMAIN re_mapper \cup {v}
        /\ \A y \in DOMAIN re_mapper' : re_mapper'[y] = IF y = v THEN phi ELSE re_mapper[y]
    BY DEF Put
  <2>2. Tested(x) = v => x = v
    BY <1>1, <1>2 DEF Tested
  <2>3. CASE x = v
    BY <2>1, <2>3 DEF Tested
  <2>4. CASE x # v
    BY <2>1, <2>2, <2>4 DEF Tested
  <2>. QED  BY <2>2, <2>3, <2>4
<1>4. ASSUME NEW w
      PROVE  Remap([y \in {v} |-> phi], Renamed(w)) = Renamed(w)'
  BY <1>3 DEF Remap, Renamed
<1>5. \A b \in Block : Moved(b)' = Moved(b)
  BY ReadUnchanged
<1>6. ASSUME NEW part \in {"then", "else"}, NEW i, NEW x
      PROVE  InBranch(part, i, x)' = IF InBranch(part, i, x) = v THEN phi ELSE InBranch(part, i, x)
  <2>1. MovedBefore(x, i)' <=> MovedBefore(x, i)
    BY <1>5 DEF MovedBefore
  <2>2. <<part, x[2]>> # v
    OBVIOUS
  <2>. QED  BY <1>3, <2>1, <2>2 DEF InBranch
<1>7. ASSUME NEW part \in {"then", "else"}, NEW i
      PROVE  Remap([y \in {v} |-> phi], Cloned(part, i)) = Cloned(part, i)'
  BY <1>6 DEF Remap, Cloned
<1>. QED  BY <1>3, <1>4, <1>7

\* The tail with a PHI in the place of an instruction.
LEMMA TailReplaced ==
  ASSUME IInv, AtInst, NEW b \in Block, b = Target, NEW j, j = Moved(b)[iter], fn' = fn,
         re_mapper' = Put(re_mapper, <<"inst", j>>, <<"phi", j>>)
  PROVE  /\ TailOf(b)' = [TailOf(b) EXCEPT ![iter] = <<"phi", j>>]
         /\ TailOf(b)'[iter] = <<"phi", j>>
         /\ \A k \in 1 .. Len(Moved(b)) : k # iter => TailOf(b)'[k] = TailOf(b)[k]
         /\ \A c \in Block : c # b => TailOf(c)' = TailOf(c)
<1>. DEFINE v == <<"inst", j>>
            phi == <<"phi", j>>
<1>1. /\ fn \in Functions /\ iter \in 1 .. Len(Moved(b)) /\ Len(Moved(b)) \in Nat
      /\ v \notin DOMAIN re_mapper
  BY NextInst
<1>2. \A x : /\ Tested(x)' = IF Tested(x) = v THEN phi ELSE Tested(x)
             /\ Tested(x) = v => x = v
  BY <1>1, Replaced
<1>3. Tested(v) = v
  BY <1>1 DEF Tested
<1>4. \A c \in Block : Moved(c)' = Moved(c)
  BY ReadUnchanged
<1>5. ASSUME NEW c \in Block, NEW k \in 1 .. Len(Moved(c)), c # b \/ k # iter
      PROVE  TailOf(c)'[k] = TailOf(c)[k]
  <2>1. <<"inst", Moved(c)[k]>> # v
    BY <1>1, <1>5, MovedOnce
  <2>2. \A x : x # v => (IF x \in DOMAIN re_mapper' THEN re_mapper'[x] ELSE x) = Tested(x)
    BY <1>2 DEF Tested
  <2>. QED  BY <1>4, <2>1, <2>2 DEF TailOf, Tested
<1>6. TailOf(b)'[iter] = phi
  <2>1. Tested(v)' = phi
    BY <1>2, <1>3
  <2>. QED  BY <1>1, <1>4, <2>1 DEF TailOf
<1>7. \A c \in Block : /\ TailOf(c) = [k \in 1 .. Len(Moved(c)) |-> TailOf(c)[k]]
                       /\ TailOf(c)' = [k \in 1 .. Len(Moved(c)) |-> TailOf(c)'[k]]
  BY <1>4 DEF TailOf
<1>8. \A c \in Block : c # b => TailOf(c)' = TailOf(c)
  BY <1>5, <1>7
<1>9. TailOf(b)' = [TailOf(b) EXCEPT ![iter] = phi]
  <2>. DEFINE s == TailOf(b)
              r == TailOf(b)'
  <2>1. /\ s = [k \in 1 .. Len(Moved(b)) |-> s[k]] /\ r = [k \in 1 .. Len(Moved(b)) |-> r[k]]
        /\ r[iter] = phi /\ \A k \in 1 .. Len(Moved(b)) : k # iter => r[k] = s[k]
    BY <1>5, <1>6, <1>7
  <2>. HIDE DEF s, r, phi
  <2>2. [s EXCEPT ![iter] = phi] = [k \in 1 .. Len(Moved(b)) |-> IF k = iter THEN phi ELSE s[k]]
    BY <2>1
  <2>3. r = [s EXCEPT ![iter] = phi]
    BY <2>1, <2>2
  <2>. QED  BY <2>3 DEF s, r, phi
<1>. QED  BY <1>5, <1>6, <1>8, <1>9

\* A map with one more value, the key of which followed its replacement.
LEMMA Followed ==
  ASSUME NEW map, NEW v, NEW phi, NEW t, v # phi, v \notin DOMAIN map
  PROVE  Follow(Put(map, v, t), v, phi) = Put(map, phi, t)
<1>. DEFINE put == Put(map, v, t)
<1>1. DOMAIN put = DOMAIN map \cup {v} /\ put[v] = t /\ \A w \in DOMAIN map : put[w] = map[w]
  BY DEF Put
<1>. HIDE DEF put
<1>2. Follow(put, v, phi) = [w \in (DOMAIN put \ {v}) \cup {phi} |-> IF w = phi THEN put[v] ELSE put[w]]
  BY <1>1 DEF Follow
<1>3. (DOMAIN put \ {v}) \cup {phi} = DOMAIN map \cup {phi}
  BY <1>1
<1>4. Put(map, phi, t) = [w \in DOMAIN map \cup {phi} |-> IF w = phi THEN t ELSE map[w]]
  BY DEF Put
<1>5. Follow(put, v, phi) = Put(map, phi, t)
  BY <1>1, <1>2, <1>3, <1>4
<1>. QED  BY <1>5 DEF put

LEMMA CloneInstPreserves ==
  ASSUME IInv, CloneInst
  PROVE  IInv'
<1>0. PICK b \in Block : b = Target
  BY Working DEF IInv, CloneInst, AtInst
<1>00. PICK j : j = Moved(b)[iter]
  OBVIOUS
<1>. DEFINE v == <<"inst", j>>
            t == <<"then", j>>
            e == <<"else", j>>
            phi == <<"phi", j>>
            withClones == Put(Put(opnds, t, Copied(then_map, v)), e, Copied(else_map, v))
            replaced == [x \in DOMAIN withClones \ {v} |-> Remap([y \in {v} |-> phi], withClones[x])]
<1>1. /\ AtInst /\ fn \in Functions /\ Control /\ Remembered /\ phase = "copy"
      /\ ~IsDone(b) /\ InWork(b) /\ Split(b) /\ Progress(b) = iter - 1
      /\ iter \in 1 .. Len(Moved(b)) /\ Len(Moved(b)) \in Nat
      /\ Rest = code[<<b, "tail">>] /\ Rest = TailOf(b) /\ Rest[iter] = v
      /\ j \in Inst \ fn.phis /\ j \in Members
      /\ v \notin DOMAIN re_mapper /\ v \in DOMAIN opnds
  BY <1>0, <1>00, NextInst DEF CloneInst, IInv
<1>2. /\ j \notin fn.void
      /\ code' = [code EXCEPT ![<<b, "then">>] = Append(@, t), ![<<b, "else">>] = Append(@, e),
                              ![<<b, "tail">>] = [@ EXCEPT ![iter] = phi]]
      /\ opnds' = Put(replaced, phi, <<t, e>>)
      /\ then_map' = Follow(Put(then_map, v, t), v, phi)
      /\ else_map' = Follow(Put(else_map, v, e), v, phi)
      /\ re_mapper' = Put(re_mapper, v, phi) /\ iter' = iter + 1
      /\ UNCHANGED <<fn, targets, cloned, phase, to_remove>>
  BY <1>0, <1>1 DEF CloneInst
<1>3. /\ \A c \in Block : /\ IsDone(c)' <=> IsDone(c)
                          /\ Split(c)' <=> Split(c)
                          /\ Context(c)' = Context(c)
                          /\ Moved(c)' = Moved(c)
                          /\ Progress(c)' = IF c = b THEN iter ELSE Progress(c)
                          /\ c # b => (Split(c) <=> IsDone(c))
      /\ Members' = Members /\ Target' = b
      /\ Control'
  BY <1>0, <1>1, <1>2, Advance
<1>4. Copied(then_map, v) = Cloned("then", j) /\ Copied(else_map, v) = Cloned("else", j)
  BY <1>0, <1>00, <1>1, CopiedIs DEF IInv
<1>5. /\ TailOf(b)' = [TailOf(b) EXCEPT ![iter] = phi]
      /\ TailOf(b)'[iter] = phi
      /\ \A k \in 1 .. Len(Moved(b)) : k # iter => TailOf(b)'[k] = TailOf(b)[k]
      /\ \A c \in Block : c # b => TailOf(c)' = TailOf(c)
  BY <1>0, <1>00, <1>1, <1>2, TailReplaced
<1>6. /\ \A x : Tested(x)' = IF Tested(x) = v THEN phi ELSE Tested(x)
      /\ \A w : Remap([y \in {v} |-> phi], Renamed(w)) = Renamed(w)'
      /\ \A part \in {"then", "else"} : \A i : Remap([y \in {v} |-> phi], Cloned(part, i)) = Cloned(part, i)'
  BY <1>1, <1>2, Replaced
<1>7. /\ t \in Value /\ e \in Value /\ phi \in Value /\ code \in [Piece -> Seq(Value)]
      /\ v # t /\ v # e /\ v # phi /\ t # e /\ t # phi /\ e # phi
      /\ {t, e, phi, v} \cap ({"leaf"} \X Leaf) = {} /\ \A c : <<"term", c>> # v
  BY <1>1 DEF Value, Copies, IInv, Operands
<1>8. /\ \A w \in DOMAIN then_map' : then_map'[w] = <<"then", w[2]>> /\ w[2] \in Inst
      /\ DOMAIN then_map' = {TailOf(b)'[k] : k \in 1 .. iter}
      /\ \A w \in DOMAIN else_map' : else_map'[w] = <<"else", w[2]>> /\ w[2] \in Inst
      /\ DOMAIN else_map' = {TailOf(b)'[k] : k \in 1 .. iter}
  <2>. DEFINE r == TailOf(b)'
              s == TailOf(b)
              D == {s[k] : k \in 1 .. iter - 1}
              D1 == {r[k] : k \in 1 .. iter}
  <2>1. /\ DOMAIN then_map = D /\ \A w \in DOMAIN then_map : then_map[w] = <<"then", w[2]>> /\ w[2] \in Inst
        /\ DOMAIN else_map = D /\ \A w \in DOMAIN else_map : else_map[w] = <<"else", w[2]>> /\ w[2] \in Inst
    BY <1>0, <1>1 DEF IInv, Clones
  <2>2. v \notin D
    <3>1. Len(s) = Len(Moved(b)) /\ \A m, n \in 1 .. Len(s) : s[m] = s[n] => m = n
      BY <1>1, TailOfIs
    <3>. QED  BY <1>1, <3>1
  <2>3. D1 = D \cup {phi}
    <3>1. r[iter] = phi /\ \A k \in 1 .. iter - 1 : r[k] = s[k]
      <4>1. \A k \in 1 .. iter - 1 : k # iter /\ k \in 1 .. Len(Moved(b))
        BY <1>1
      <4>. QED  BY <1>5, <4>1
    <3>2. 1 .. iter = (1 .. iter - 1) \cup {iter}
      BY <1>1
    <3>. HIDE DEF r, s, phi
    <3>. QED  BY <3>1, <3>2
  <2>4. phi[2] = j /\ j \in Inst
    BY <1>1
  <2>5. /\ DOMAIN then_map' = D \cup {phi}
        /\ \A w \in D \cup {phi} : then_map'[w] = IF w = phi THEN t ELSE then_map[w]
        /\ DOMAIN else_map' = D \cup {phi}
        /\ \A w \in D \cup {phi} : else_map'[w] = IF w = phi THEN e ELSE else_map[w]
    <3>. HIDE DEF v, phi, t, e, D
    <3>1. v # phi /\ v \notin DOMAIN then_map /\ v \notin DOMAIN else_map
      BY <1>7, <2>1, <2>2
    <3>2. then_map' = Follow(Put(then_map, v, t), v, phi) /\ else_map' = Follow(Put(else_map, v, e), v, phi)
      BY <1>2
    <3>3. Follow(Put(then_map, v, t), v, phi) = Put(then_map, phi, t)
      BY <3>1, Followed
    <3>4. Follow(Put(else_map, v, e), v, phi) = Put(else_map, phi, e)
      BY <3>1, Followed
    <3>. QED  BY <2>1, <3>2, <3>3, <3>4 DEF Put
  <2>. HIDE DEF D, D1
  <2>6. /\ \A w \in D \cup {phi} : then_map'[w] = <<"then", w[2]>> /\ w[2] \in Inst
        /\ \A w \in D \cup {phi} : else_map'[w] = <<"else", w[2]>> /\ w[2] \in Inst
    BY <2>1, <2>4, <2>5
  <2>. QED  BY <2>3, <2>5, <2>6 DEF D1
\* The pieces.
<1>9. /\ code' \in [Piece -> Seq(Value)]
      /\ code'[<<b, "then">>] = Append(code[<<b, "then">>], t)
      /\ code'[<<b, "else">>] = Append(code[<<b, "else">>], e)
      /\ code'[<<b, "tail">>] = TailOf(b)'
      /\ \A p \in Piece : p \notin {<<b, "then">>, <<b, "else">>, <<b, "tail">>} => code'[p] = code[p]
  <2>. DEFINE p == <<b, "then">>
              q == <<b, "else">>
              r == <<b, "tail">>
              tt == Append(code[p], t)
              ee == Append(code[q], e)
              pp == [code[r] EXCEPT ![iter] = phi]
  <2>1. p \in Piece /\ q \in Piece /\ r \in Piece /\ p # q /\ p # r /\ q # r
    BY DEF Piece, Parts
  <2>2. tt \in Seq(Value) /\ ee \in Seq(Value) /\ pp \in Seq(Value)
    <3>. HIDE DEF t, e, phi, p, q, r
    <3>1. code[p] \in Seq(Value) /\ code[q] \in Seq(Value) /\ code[r] \in Seq(Value)
      BY <1>7, <2>1
    <3>2. tt \in Seq(Value) /\ ee \in Seq(Value)
      BY <1>7, <3>1
    <3>3. [code[r] EXCEPT ![iter] = phi] \in Seq(Value)
      <4>. DEFINE s == code[r]
                  n == Len(s)
      <4>1. s \in [1 .. n -> Value] /\ n \in Nat
        BY <3>1
      <4>. HIDE DEF s, n
      <4>2. [s EXCEPT ![iter] = phi] \in [1 .. n -> Value]
        BY <1>7, <4>1
      <4>. QED  BY <4>1, <4>2 DEF s
    <3>. QED  BY <3>2, <3>3
  <2>3. code' = [code EXCEPT ![p] = tt, ![q] = ee, ![r] = pp]
    BY <1>2, <1>7, <2>1
  <2>4. pp = TailOf(b)'
    BY <1>1, <1>5
  <2>. HIDE DEF p, q, r, tt, ee, pp
  <2>5. /\ code' \in [Piece -> Seq(Value)] /\ code'[p] = tt /\ code'[q] = ee /\ code'[r] = pp
        /\ \A x \in Piece : x # p /\ x # q /\ x # r => code'[x] = code[x]
    BY <1>7, <2>1, <2>2, <2>3
  <2>. QED  BY <2>4, <2>5 DEF p, q, r, tt, ee
<1>10. /\ Heads' /\ Branches'
       /\ \A part \in {"then", "else"} :
            code'[<<b, part>>] = [k \in 1 .. iter |-> <<part, Moved(b)[k]>>]
  <2>1. \A part \in {"then", "else"} :
           code'[<<b, part>>] = Append(code[<<b, part>>], <<part, Moved(b)[iter]>>)
    BY <1>00, <1>9
  <2>2. /\ \A c \in Block : code'[<<c, "head">>] = code[<<c, "head">>]
        /\ \A c \in Block : c # b => \A part \in {"then", "else"} : code'[<<c, part>>] = code[<<c, part>>]
    BY <1>9 DEF Piece, Parts
  <2>. QED  BY <1>0, <1>1, <1>2, <2>1, <2>2, PiecesGrow
<1>11. Remembered'
  <2>. DEFINE D == {w \in {"inst"} \X (Inst \ fn.void) :
                     \E c \in Block : \E k \in 1 .. Progress(c) : w[2] = Moved(c)[k]}
  <2>1. \A k \in 1 .. iter : k \in 1 .. iter - 1 \/ k = iter
    BY <1>1
  <2>2. iter \in 1 .. iter /\ \A k \in 1 .. iter - 1 : k \in 1 .. iter
    BY <1>1
  <2>3. ASSUME NEW w \in {"inst"} \X (Inst \ fn.void)
        PROVE  (\E c \in Block : \E k \in 1 .. Progress(c)' : w[2] = Moved(c)'[k])
               <=> w = v \/ \E c \in Block : \E k \in 1 .. Progress(c) : w[2] = Moved(c)[k]
    <3>1. (\E k \in 1 .. iter : w[2] = Moved(b)[k]) <=> w = v \/ \E k \in 1 .. iter - 1 : w[2] = Moved(b)[k]
      BY <1>00, <2>1, <2>2
    <3>2. ASSUME NEW c \in Block
          PROVE  (\E k \in 1 .. Progress(c)' : w[2] = Moved(c)'[k])
                 <=> \/ w = v /\ c = b
                     \/ \E k \in 1 .. Progress(c) : w[2] = Moved(c)[k]
      <4>1. Moved(c)' = Moved(c) /\ Progress(c)' = IF c = b THEN iter ELSE Progress(c)
        BY <1>3
      <4>2. CASE c = b
        BY <1>1, <3>1, <4>1, <4>2
      <4>3. CASE c # b
        BY <4>1, <4>3
      <4>. QED  BY <4>2, <4>3
    <3>. QED  BY <3>2
  <2>4. v \in {"inst"} \X (Inst \ fn.void)
    BY <1>1, <1>2
  <2>5. D' = D \cup {v}
    <3>. HIDE DEF v
    <3>. QED  BY <1>2, <2>3, <2>4
  <2>6. DOMAIN re_mapper = D /\ \A w \in DOMAIN re_mapper : re_mapper[w] = <<"phi", w[2]>>
    BY <1>1 DEF Remembered
  <2>7. /\ DOMAIN re_mapper' = D \cup {v}
        /\ \A w \in DOMAIN re_mapper' : re_mapper'[w] = <<"phi", w[2]>>
    <3>. HIDE DEF D
    <3>. QED  BY <1>2, <2>6 DEF Put
  <2>. QED  BY <2>5, <2>7 DEF Remembered
<1>12. Tails'
  <2>1. ASSUME NEW c \in Block
        PROVE  /\ c # b => code'[<<c, "tail">>] = code[<<c, "tail">>]
               /\ c # b /\ Split(c) => Left(c)' = Left(c)
    BY <1>2, <1>3, <1>9 DEF Piece, Parts, Left
  <2>2. ASSUME NEW c \in Block
        PROVE  IF ~Split(c)' THEN code'[<<c, "tail">>] = << >>
               ELSE IF phase' = "copy" /\ c = Target' THEN code'[<<c, "tail">>] = TailOf(c)'
               ELSE IsFiltered(code'[<<c, "tail">>], TailOf(c)', Left(c)')
    <3>1. CASE c = b
      BY <1>1, <1>2, <1>3, <1>9, <3>1
    <3>2. CASE c # b
      BY <1>0, <1>2, <1>3, <1>5, <2>1, <3>2 DEF IInv, Tails
    <3>. QED  BY <3>1, <3>2
  <2>. QED  BY <2>2 DEF Tails, IsFiltered
<1>13. ToErase'
  <2>1. Moved(Target)' = Moved(b) /\ iter' - 1 = iter
    BY <1>1, <1>2, <1>3
  <2>2. \A n \in DOMAIN to_remove : \E k \in 1 .. iter - 1 : to_remove[n][2] = Moved(b)[k]
    BY <1>0, <1>1 DEF IInv, ToErase
  <2>3. \A n \in DOMAIN to_remove : \E k \in 1 .. iter : to_remove[n][2] = Moved(b)[k]
    BY <1>1, <2>2
  <2>4. \A k \in 1 .. iter : Moved(b)[k] \in fn.void => <<"inst", Moved(b)[k]>> \in Range(to_remove)
    <3>1. \A k \in 1 .. iter - 1 : Moved(b)[k] \in fn.void => <<"inst", Moved(b)[k]>> \in Range(to_remove)
      BY <1>0, <1>1 DEF IInv, ToErase
    <3>2. \A k \in 1 .. iter : k \in 1 .. iter - 1 \/ k = iter
      BY <1>1
    <3>3. ~ Moved(b)[iter] \in fn.void
      BY <1>00, <1>2
    <3>. QED  BY <3>1, <3>2, <3>3
  <2>. QED  BY <1>1, <1>2, <2>1, <2>3, <2>4 DEF IInv, ToErase, Range
<1>14. Clones(then_map, "then")' /\ Clones(else_map, "else")'
  <2>1. TailOf(Target)' = TailOf(b)' /\ iter' - 1 = iter
    BY <1>1, <1>2, <1>3
  <2>2. phase' = "copy"
    BY <1>1, <1>2
  <2>. QED  BY <1>8, <2>1, <2>2 DEF Clones
<1>15. Operands'
  <2>. DEFINE R(s) == Remap([y \in {v} |-> phi], s)
  <2>1. /\ DOMAIN opnds' = (DOMAIN opnds \ {v}) \cup {t, e, phi}
        /\ opnds'[phi] = <<t, e>>
        /\ opnds'[t] = R(Cloned("then", j)) /\ opnds'[e] = R(Cloned("else", j))
        /\ \A w \in DOMAIN opnds \ {v} : w # t /\ w # e /\ w # phi => opnds'[w] = R(opnds[w])
    <3>. HIDE DEF v, t, e, phi, R
    <3>1. /\ DOMAIN withClones = DOMAIN opnds \cup {t, e}
          /\ withClones[t] = Cloned("then", j) /\ withClones[e] = Cloned("else", j)
          /\ \A w \in DOMAIN opnds : w # t /\ w # e => withClones[w] = opnds[w]
      BY <1>4, <1>7 DEF Put
    <3>. HIDE DEF withClones
    <3>2. /\ DOMAIN replaced = DOMAIN withClones \ {v}
          /\ \A w \in DOMAIN withClones \ {v} : replaced[w] = R(withClones[w])
      BY DEF R
    <3>. HIDE DEF replaced
    <3>3. /\ DOMAIN opnds' = DOMAIN replaced \cup {phi} /\ opnds'[phi] = <<t, e>>
          /\ \A w \in DOMAIN replaced : w # phi => opnds'[w] = replaced[w]
      BY <1>2 DEF Put
    <3>. QED  BY <1>7, <3>1, <3>2, <3>3
  <2>2. \A s : R(s) = [k \in DOMAIN s |-> IF s[k] = v THEN phi ELSE s[k]]
    BY DEF Remap
  <2>3. DOMAIN opnds' \subseteq Value \ ({"leaf"} \X Leaf) /\ \A c \in Block : <<"term", c>> \in DOMAIN opnds'
    <3>1. DOMAIN opnds \subseteq Value \ ({"leaf"} \X Leaf) /\ \A c \in Block : <<"term", c>> \in DOMAIN opnds
      BY DEF IInv, Operands
    <3>. QED  BY <1>7, <2>1, <3>1
  <2>4. \A p \in Piece : \A n \in DOMAIN code[p] : code[p][n] \in DOMAIN opnds
    BY DEF IInv, Operands
  <2>5. ASSUME NEW p \in Piece, NEW w, NEW n \in DOMAIN Append(code[p], w), p # <<b, "tail">>
        PROVE  Append(code[p], w)[n] \in (DOMAIN opnds \ {v}) \cup {w}
    <3>. DEFINE s == code[p]
                S == (DOMAIN opnds \ {v}) \cup {w}
    <3>1. s \in Seq(Value) /\ \A k \in DOMAIN s : s[k] \in S
      <4>1. \A k \in DOMAIN s : s[k] # v
        BY <1>0, <1>00, <1>1, <2>5, InTailOnly
      <4>. QED  BY <1>7, <2>4, <4>1
    <3>. HIDE DEF s, S
    <3>2. s \in Seq(S)
      BY <3>1
    <3>3. w \in S
      BY DEF S
    <3>4. Append(s, w) \in Seq(S)
      BY <3>2, <3>3
    <3>. QED  BY <2>5, <3>4 DEF s, S
  <2>6. ASSUME NEW p \in Piece, NEW n \in DOMAIN code'[p]
        PROVE  code'[p][n] \in DOMAIN opnds'
    <3>1. CASE p = <<b, "then">>
      <4>1. code'[p] = Append(code[p], t) /\ p # <<b, "tail">>
        BY <1>9, <3>1
      <4>2. code'[p][n] \in (DOMAIN opnds \ {v}) \cup {t}
        BY <2>5, <2>6, <4>1
      <4>. QED  BY <2>1, <4>2
    <3>2. CASE p = <<b, "else">>
      <4>1. code'[p] = Append(code[p], e) /\ p # <<b, "tail">>
        BY <1>9, <3>2
      <4>2. code'[p][n] \in (DOMAIN opnds \ {v}) \cup {e}
        BY <2>5, <2>6, <4>1
      <4>. QED  BY <2>1, <4>2
    <3>3. CASE p = <<b, "tail">>
      <4>1. /\ DOMAIN TailOf(b) = 1 .. Len(Moved(b)) /\ Len(TailOf(b)) = Len(Moved(b))
            /\ \A m, k \in 1 .. Len(TailOf(b)) : TailOf(b)[m] = TailOf(b)[k] => m = k
        BY <1>1, TailOfIs
      <4>2. code'[p] = TailOf(b)' /\ code[p] = TailOf(b) /\ n \in 1 .. Len(Moved(b))
        BY <1>1, <1>5, <1>9, <2>6, <3>3, <4>1
      <4>3. CASE n = iter
        BY <1>5, <2>1, <4>2, <4>3
      <4>4. CASE n # iter
        <5>1. code'[p][n] = code[p][n] /\ code[p][n] \in DOMAIN opnds
          BY <1>5, <2>4, <4>1, <4>2, <4>4
        <5>2. code[p][n] # v
          BY <1>1, <4>1, <4>2, <4>4
        <5>. QED  BY <2>1, <5>1, <5>2
      <4>. QED  BY <4>3, <4>4
    <3>4. CASE p \notin {<<b, "then">>, <<b, "else">>, <<b, "tail">>}
      <4>1. code'[p] = code[p] /\ p # <<b, "tail">>
        BY <1>9, <3>4
      <4>2. code[p][n] # v
        BY <1>0, <1>00, <1>1, <2>6, <4>1, InTailOnly
      <4>3. code[p][n] \in DOMAIN opnds
        BY <2>4, <2>6, <4>1
      <4>. QED  BY <2>1, <4>1, <4>2, <4>3
    <3>. QED  BY <3>1, <3>2, <3>3, <3>4
  <2>7. ASSUME NEW w \in DOMAIN opnds'
        PROVE  /\ w[1] \in {"inst", "then", "else"} => w[2] \in Members'
               /\ w[1] \in {"inst", "term"} => opnds'[w] = Renamed(w)'
               /\ w[1] \in {"then", "else"} => opnds'[w] = Cloned(w[1], w[2])'
               /\ w[1] = "phi" => opnds'[w] = <<<<"then", w[2]>>, <<"else", w[2]>>>>
               /\ w[1] = "cond" => Split(w[2])' /\ opnds'[w] = <<Tested(Context(w[2]))>>'
    <3>1. R(Cloned("then", j)) = Cloned("then", j)' /\ R(Cloned("else", j)) = Cloned("else", j)'
      BY <1>6
    <3>2. CASE w = t
      BY <1>1, <1>3, <2>1, <3>1, <3>2
    <3>3. CASE w = e
      BY <1>1, <1>3, <2>1, <3>1, <3>3
    <3>4. CASE w = phi
      BY <2>1, <3>4
    <3>5. CASE w # t /\ w # e /\ w # phi
      <4>1. w \in DOMAIN opnds /\ opnds'[w] = R(opnds[w])
        BY <2>1, <3>5
      <4>2. w[1] \in {"inst", "then", "else"} => w[2] \in Members'
        BY <1>3, <4>1 DEF IInv, Operands
      <4>3. ASSUME w[1] \in {"inst", "term"}
            PROVE  opnds'[w] = Renamed(w)'
        <5>1. opnds[w] = Renamed(w)
          BY <4>1, <4>3 DEF IInv, Operands
        <5>2. R(Renamed(w)) = Renamed(w)'
          BY <1>6
        <5>. QED  BY <4>1, <5>1, <5>2
      <4>4. ASSUME w[1] \in {"then", "else"}
            PROVE  opnds'[w] = Cloned(w[1], w[2])'
        <5>1. opnds[w] = Cloned(w[1], w[2])
          BY <4>1, <4>4 DEF IInv, Operands
        <5>2. R(Cloned(w[1], w[2])) = Cloned(w[1], w[2])'
          BY <1>6, <4>4
        <5>. QED  BY <4>1, <5>1, <5>2
      <4>5. ASSUME w[1] = "phi"
            PROVE  opnds'[w] = <<<<"then", w[2]>>, <<"else", w[2]>>>>
        <5>. DEFINE tt == <<"then", w[2]>>
                    ee == <<"else", w[2]>>
        <5>1. opnds[w] = <<tt, ee>>
          BY <4>1, <4>5 DEF IInv, Operands
        <5>2. tt # v /\ ee # v
          OBVIOUS
        <5>. HIDE DEF tt, ee, v, phi
        <5>3. DOMAIN <<tt, ee>> = {1, 2} /\ \A k \in {1, 2} : <<tt, ee>>[k] # v
          BY <5>2
        <5>4. R(<<tt, ee>>) = [k \in DOMAIN <<tt, ee>> |-> <<tt, ee>>[k]]
          BY <2>2, <5>3
        <5>5. [k \in DOMAIN <<tt, ee>> |-> <<tt, ee>>[k]] = <<tt, ee>>
          OBVIOUS
        <5>. QED  BY <4>1, <5>1, <5>4, <5>5 DEF tt, ee
      <4>6. ASSUME w[1] = "cond"
            PROVE  Split(w[2])' /\ opnds'[w] = <<Tested(Context(w[2]))>>'
        <5>1. w[2] \in Block
          BY <4>1, <4>6 DEF IInv, Operands, Value, Copies
        <5>2. Split(w[2]) /\ opnds[w] = <<Tested(Context(w[2]))>>
          BY <4>1, <4>6 DEF IInv, Operands
        <5>3. PICK x : x = Context(w[2])
          OBVIOUS
        <5>4. Context(w[2])' = x /\ Split(w[2])'
          BY <1>3, <5>1, <5>2, <5>3
        <5>5. Tested(Context(w[2]))' = Tested(x)'
          BY <5>4 DEF Tested
        <5>6. R(<<Tested(x)>>) = <<Tested(x)'>>
          <6>. DEFINE y == Tested(x)
          <6>1. Tested(x)' = IF y = v THEN phi ELSE y
            BY <1>6
          <6>. HIDE DEF y, v, phi, R
          <6>2. R(<<y>>) = [k \in DOMAIN <<y>> |-> IF <<y>>[k] = v THEN phi ELSE <<y>>[k]]
            BY <2>2
          <6>3. R(<<y>>) = <<IF y = v THEN phi ELSE y>>
            BY <6>2
          <6>. QED  BY <6>1, <6>3 DEF y
        <5>. QED  BY <4>1, <5>2, <5>3, <5>4, <5>5, <5>6
      <4>. QED  BY <4>2, <4>3, <4>4, <4>5, <4>6
    <3>. QED  BY <3>2, <3>3, <3>4, <3>5
  <2>. QED  BY <1>9, <2>3, <2>6, <2>7 DEF Operands
<1>. QED  BY <1>3, <1>10, <1>11, <1>12, <1>13, <1>14, <1>15 DEF IInv
-----------------------------------------------------------------------------
(* The invariant holds.                                                    *)

LEMMA NextPreserves ==
  ASSUME IInv, [Next]_vars
  PROVE  IInv'
<1>1. CASE SkipBlock
  BY <1>1, SkipBlockPreserves
<1>2. CASE ChooseContext
  BY <1>2, ChooseContextPreserves
<1>3. CASE ReturnTargets
  BY <1>3, ReturnTargetsPreserves
<1>4. CASE SplitBlock
  BY <1>4, SplitBlockPreserves
<1>5. CASE CloneInst
  BY <1>5, CloneInstPreserves
<1>6. CASE CloneVoidInst
  BY <1>6, CloneVoidInstPreserves
<1>7. CASE EndOfTail
  BY <1>7, EndOfTailPreserves
<1>8. CASE EraseInst
  BY <1>8, EraseInstPreserves
<1>9. CASE EndOfPurge
  BY <1>9, EndOfPurgePreserves
<1>10. CASE Finish
  BY <1>10, FinishPreserves
<1>11. CASE UNCHANGED vars
  <2>1. UNCHANGED <<fn, targets, cloned, phase, code, opnds, then_map, else_map, re_mapper, iter, to_remove>>
    BY <1>11 DEF vars
  <2>2. Remembered' /\ Heads' /\ Branches' /\ Operands'
    <3>1. \A b \in Block : /\ IsDone(b)' <=> IsDone(b)
                           /\ InWork(b)' <=> InWork(b)
                           /\ Context(b)' = Context(b)
      BY <2>1 DEF IsDone, InWork, Context, Target
    <3>2. \A b \in Block : /\ Split(b)' <=> Split(b)
                           /\ Progress(b)' = Progress(b)
      BY <2>1, <3>1, ReadUnchanged DEF Split, Progress
    <3>. QED  BY <2>1, <3>1, <3>2, Frame
  <2>3. /\ \A b \in Block : /\ Moved(b)' = Moved(b) /\ Rivs(b)' = Rivs(b)
                            /\ IsDone(b)' <=> IsDone(b)
                            /\ Split(b)' <=> Split(b)
                            /\ TailOf(b)' = TailOf(b) /\ Left(b)' = Left(b)
        /\ Target' = Target /\ Rest' = Rest
    <3>1. \A b \in Block : Moved(b)' = Moved(b) /\ Rivs(b)' = Rivs(b)
      BY <2>1, ReadUnchanged
    <3>2. Target' = Target /\ Rest' = Rest
      BY <2>1 DEF Target, Rest
    <3>3. \A b \in Block : (IsDone(b)' <=> IsDone(b)) /\ (InWork(b)' <=> InWork(b))
      BY <2>1, <3>2 DEF IsDone, InWork
    <3>. QED  BY <2>1, <3>1, <3>2, <3>3 DEF Split, TailOf, Tested, Left
  <2>4. Control'
    <3>1. \A k \in DOMAIN targets : targets[k][1] \in Block
      BY DEF IInv, Control
    <3>2. ASSUME phase \in {"copy", "purge"}
          PROVE  Moved(Target)' = Moved(Target)
      <4>1. PICK b \in Block : b = Target
        BY <3>2, Working DEF IInv
      <4>. QED  BY <2>3, <4>1
    <3>. QED  BY <2>1, <2>3, <3>1, <3>2 DEF IInv, Control
  <2>5. Tails'
    BY <2>1, <2>3 DEF IInv, Tails
  <2>6. ToErase' /\ Clones(then_map, "then")' /\ Clones(else_map, "else")'
    <3>1. CASE phase \in {"copy", "purge"}
      <4>1. PICK b \in Block : b = Target
        BY <3>1, Working DEF IInv
      <4>2. Moved(Target)' = Moved(Target) /\ TailOf(Target)' = TailOf(Target)
        BY <2>3, <4>1
      <4>3. ToErase'
        BY <2>1, <4>2 DEF IInv, ToErase, Range
      <4>4. Clones(then_map, "then")' /\ Clones(else_map, "else")'
        BY <2>1, <2>3, <4>2 DEF IInv, Clones
      <4>. QED  BY <4>3, <4>4
    <3>2. CASE phase \notin {"copy", "purge"}
      BY <2>1, <3>2 DEF IInv, ToErase, Clones
    <3>. QED  BY <3>1, <3>2
  <2>. QED  BY <2>2, <2>4, <2>5, <2>6 DEF IInv
<1>. QED
  BY <1>1, <1>2, <1>3, <1>4, <1>5, <1>6, <1>7, <1>8, <1>9, <1>10, <1>11 DEF Next, Terminating

\* What the proofs below start from.
LEMMA Invariant == Spec => []IInv
<1>1. Init => IInv
  BY Initially
<1>2. IInv /\ [Next]_vars => IInv'
  BY NextPreserves
<1>. QED  BY <1>1, <1>2, PTL DEF Spec

-----------------------------------------------------------------------------
(* What follows from it.                                                   *)

\* Renaming keeps what is a value, and what it is a copy of.
LEMMA TestedIs ==
  ASSUME IInv, NEW x \in ({"inst"} \X (Inst \ fn.void)) \cup ({"leaf"} \X Leaf)
  PROVE  Tested(x) \in Value /\ Origin(Tested(x)) = x
<1>1. x \in Value /\ Origin(x) = x
  BY DEF Value, Origin, Copies
<1>2. CASE x \in DOMAIN re_mapper
  <2>1. x \in {"inst"} \X Inst /\ Tested(x) = <<"phi", x[2]>>
    BY <1>2 DEF IInv, Remembered, Tested
  <2>. QED  BY <2>1 DEF Value, Origin, Copies
<1>3. CASE x \notin DOMAIN re_mapper
  BY <1>1, <1>3 DEF Tested
<1>. QED  BY <1>2, <1>3

LEMMA InBranchIs ==
  ASSUME IInv, NEW x \in ({"inst"} \X (Inst \ fn.void)) \cup ({"leaf"} \X Leaf),
         NEW part \in {"then", "else"}, NEW j
  PROVE  InBranch(part, j, x) \in Value /\ Origin(InBranch(part, j, x)) = x
<1>1. CASE MovedBefore(x, j)
  <2>1. x = <<"inst", x[2]>> /\ x[2] \in Inst
    BY <1>1 DEF MovedBefore
  <2>2. <<part, x[2]>> \in Value /\ Origin(<<part, x[2]>>) = x
    BY <2>1 DEF Value, Origin, Copies
  <2>. QED  BY <1>1, <2>2 DEF InBranch
<1>2. CASE ~MovedBefore(x, j)
  BY <1>2, TestedIs DEF InBranch
<1>. QED  BY <1>1, <1>2

\* The context value of a block that is split.
LEMMA ContextOfSplit ==
  ASSUME IInv, NEW b \in Block, Split(b)
  PROVE  Context(b) \in Rivs(b) /\ Context(b) \in ({"inst"} \X (Inst \ fn.void)) \cup ({"leaf"} \X Leaf)
<1>1. Control /\ fn \in Functions
  BY DEF IInv, Control
<1>2. PICK k \in DOMAIN targets : targets[k][1] = b
  <2>1. CASE IsDone(b)
    BY <1>1, <2>1 DEF IsDone, Control
  <2>2. CASE InWork(b)
    BY <1>1, <2>2, Working DEF InWork, Target
  <2>. QED  BY <2>1, <2>2 DEF Split
<1>3. Context(b) = targets[k][2]
  BY <1>1, <1>2, ContextIs
<1>. QED  BY <1>1, <1>2, <1>3, RivsTyped DEF Control
\* opnds is a map.
IsMap == opnds = [v \in DOMAIN opnds |-> opnds[v]]

LEMMA OperandsMapped == Spec => []IsMap
<1>1. ASSUME Init PROVE IsMap
  <2>1. fn \in Functions /\ opnds = fn.opnds
    BY <1>1 DEF Init
  <2>. QED  BY <2>1, ReadIsWellFormed DEF WellFormed, IsMap
<1>2. ASSUME IsMap, [Next]_vars PROVE IsMap'
  <2>1. \A map, v, w : Put(map, v, w) = [x \in DOMAIN Put(map, v, w) |-> Put(map, v, w)[x]]
    BY DEF Put
  <2>2. CASE SplitBlock
    <3>1. PICK v, w : opnds' = Put(opnds, v, w)
      BY <2>2 DEF SplitBlock
    <3>. QED  BY <2>1, <3>1 DEF IsMap
  <2>3. CASE CloneInst
    <3>1. PICK map, v, w : opnds' = Put(map, v, w)
      BY <2>3 DEF CloneInst
    <3>. QED  BY <2>1, <3>1 DEF IsMap
  <2>4. CASE CloneVoidInst
    <3>1. PICK map, v, w : opnds' = Put(map, v, w)
      BY <2>4 DEF CloneVoidInst
    <3>. QED  BY <2>1, <3>1 DEF IsMap
  <2>5. CASE EraseInst
    <3>1. PICK v : opnds' = Forget(opnds, v)
      BY <2>5 DEF EraseInst
    <3>. QED  BY <3>1 DEF IsMap, Forget
  <2>6. CASE opnds' = opnds
    BY <1>2, <2>6 DEF IsMap
  <2>7. \/ SplitBlock \/ CloneInst \/ CloneVoidInst \/ EraseInst \/ opnds' = opnds
    BY <1>2 DEF Next, vars, SkipBlock, ChooseContext, ReturnTargets, EndOfTail, EndOfPurge, Finish, Terminating
  <2>. QED  BY <2>2, <2>3, <2>4, <2>5, <2>6, <2>7
<1>. QED  BY <1>1, <1>2, PTL DEF Spec

LEMMA OperandsTyped ==
  ASSUME IInv, NEW v \in DOMAIN opnds
  PROVE  opnds[v] \in Seq(Value)
<1>1. /\ v \in Value \ ({"leaf"} \X Leaf) /\ fn \in Functions
      /\ v[1] \in {"inst", "then", "else"} => v[2] \in Members
      /\ v[1] \in {"inst", "term"} => opnds[v] = Renamed(v)
      /\ v[1] \in {"then", "else"} => opnds[v] = Cloned(v[1], v[2])
      /\ v[1] = "phi" => opnds[v] = <<<<"then", v[2]>>, <<"else", v[2]>>>>
      /\ v[1] = "cond" => Split(v[2]) /\ opnds[v] = <<Tested(Context(v[2]))>>
  BY DEF IInv, Operands, Control
<1>2. ASSUME NEW w \in DOMAIN fn.opnds
      PROVE  /\ DOMAIN fn.opnds[w] = 1 .. Len(fn.opnds[w]) /\ Len(fn.opnds[w]) \in Nat
             /\ \A k \in DOMAIN fn.opnds[w] : Tested(fn.opnds[w][k]) \in Value
             /\ \A part \in {"then", "else"}, j \in Inst :
                  \A k \in DOMAIN fn.opnds[w] : InBranch(part, j, fn.opnds[w][k]) \in Value
  <2>1. fn.opnds[w] \in Seq(({"inst"} \X (Inst \ fn.void)) \cup ({"leaf"} \X Leaf))
        /\ DOMAIN fn.opnds[w] = 1 .. Len(fn.opnds[w])
        /\ \A k \in DOMAIN fn.opnds[w] : fn.opnds[w][k] \in ({"inst"} \X (Inst \ fn.void)) \cup ({"leaf"} \X Leaf)
    BY <1>1, OpndsRead
  <2>2. Len(fn.opnds[w]) \in Nat
    BY <2>1
  <2>. QED  BY <2>1, <2>2, TestedIs, InBranchIs
<1>3. ASSUME v[1] \in {"inst", "term"} PROVE opnds[v] \in Seq(Value)
  <2>1. v \in DOMAIN fn.opnds
    BY <1>1, <1>3, OpndsRead DEF Value, Copies
  <2>2. opnds[v] = [k \in DOMAIN fn.opnds[v] |-> Tested(fn.opnds[v][k])]
    BY <1>1, <1>3 DEF Renamed
  <2>. QED  BY <1>2, <2>1, <2>2
<1>4. ASSUME v[1] \in {"then", "else"} PROVE opnds[v] \in Seq(Value)
  <2>. DEFINE w == <<"inst", v[2]>>
  <2>1. w \in DOMAIN fn.opnds
    BY <1>1, <1>4, OpndsRead
  <2>2. opnds[v] = [k \in DOMAIN fn.opnds[w] |-> InBranch(v[1], v[2], fn.opnds[w][k])]
    BY <1>1, <1>4 DEF Cloned
  <2>. DEFINE n == Len(fn.opnds[w])
              s == [k \in DOMAIN fn.opnds[w] |-> InBranch(v[1], v[2], fn.opnds[w][k])]
  <2>. HIDE DEF w
  <2>3. n \in Nat /\ DOMAIN s = 1 .. n
    BY <1>2, <2>1
  <2>4. \A k \in DOMAIN fn.opnds[w] : InBranch(v[1], v[2], fn.opnds[w][k]) \in Value
    <3>1. v[2] \in Inst
      BY <1>1, <1>4, OpndsRead
    <3>. QED  BY <1>2, <1>4, <2>1, <3>1
  <2>5. s \in [1 .. n -> Value]
    BY <2>3, <2>4
  <2>. HIDE DEF n, s
  <2>6. s \in Seq(Value)
    BY <2>3, <2>5
  <2>. QED  BY <2>2, <2>6 DEF s
<1>5. ASSUME v[1] = "phi" PROVE opnds[v] \in Seq(Value)
  <2>1. v[2] \in Inst
    BY <1>1, <1>5 DEF Value, Copies
  <2>. DEFINE t == <<"then", v[2]>>
              e == <<"else", v[2]>>
  <2>2. t \in Value /\ e \in Value
    BY <2>1 DEF Value, Copies
  <2>3. opnds[v] = <<t, e>>
    BY <1>1, <1>5
  <2>. HIDE DEF t, e
  <2>4. <<t, e>> \in Seq(Value)
    BY <2>2
  <2>. QED  BY <2>3, <2>4
<1>6. ASSUME v[1] = "cond" PROVE opnds[v] \in Seq(Value)
  <2>1. v[2] \in Block
    BY <1>1, <1>6 DEF Value, Copies
  <2>2. Tested(Context(v[2])) \in Value
    BY <1>1, <1>6, <2>1, ContextOfSplit, TestedIs
  <2>. DEFINE x == Tested(Context(v[2]))
  <2>3. x \in Value /\ opnds[v] = <<x>>
    BY <1>1, <1>6, <2>2
  <2>. HIDE DEF x
  <2>4. <<x>> \in Seq(Value)
    BY <2>3
  <2>. QED  BY <2>3, <2>4
<1>. QED  BY <1>1, <1>3, <1>4, <1>5, <1>6 DEF Value, Copies

\* The state of the pass is typed: CloneBB's loop meets no PHI in the tail, and its maps
\* have only instructions of the tail and their clones.
THEOREM TypeCorrect == Spec => []TypeOK
<1>1. ASSUME IInv, IsMap PROVE TypeOK
  <2>1. Control /\ fn \in Functions /\ Remembered
    BY <1>1 DEF IInv, Control
  <2>2. opnds \in [DOMAIN opnds -> Seq(Value)] /\ DOMAIN opnds \subseteq Value
    BY <1>1, OperandsTyped DEF IsMap, IInv, Operands
  <2>3. ASSUME phase = "copy"
        PROVE  \A k \in iter .. Len(Rest) : Rest[k] \in {"inst"} \X (Inst \ fn.phis)
    <3>1. PICK b \in Block : b = Target
      BY <2>1, <2>3, Working
    <3>2. Rest = TailOf(b) /\ Progress(b) = iter - 1 /\ iter \in Nat \ {0}
      BY <1>1, <2>1, <2>3, <3>1, Working DEF IInv, Tails, Rest, Control
    <3>3. SUFFICES ASSUME NEW k \in iter .. Len(Rest)
                   PROVE  Rest[k] \in {"inst"} \X (Inst \ fn.phis)
      OBVIOUS
    <3>4. Len(TailOf(b)) = Len(Moved(b)) /\ k \in 1 .. Len(Moved(b))
      BY <2>1, <3>2, TailOfIs, MovedIs
    <3>5. <<"inst", Moved(b)[k]>> \notin DOMAIN re_mapper
      <4>1. ~ k <= Progress(b)
        BY <3>2
      <4>. QED  BY <2>1, <3>4, <4>1, RememberedIs, ProgressInRange
    <3>6. Rest[k] = <<"inst", Moved(b)[k]>>
      BY <2>1, <3>2, <3>4, <3>5, TailOfIs DEF Tested
    <3>. QED  BY <2>1, <3>4, <3>6, MovedIs
  <2>4. /\ DOMAIN re_mapper \subseteq {"inst"} \X Inst
        /\ Range(re_mapper) \subseteq {"phi"} \X Inst
    BY <2>1 DEF Remembered, Range
  <2>5. ASSUME phase \in {"copy", "purge"}
        PROVE  DOMAIN then_map \cup DOMAIN else_map \subseteq Range(Rest)
    <3>1. CASE phase = "purge"
      BY <1>1, <3>1 DEF IInv, Clones
    <3>2. CASE phase = "copy"
      <4>1. PICK b \in Block : b = Target
        BY <2>1, <2>5, Working
      <4>2. Rest = TailOf(b) /\ iter - 1 \in 0 .. Len(Moved(b))
        BY <1>1, <2>1, <2>5, <3>2, <4>1, Working DEF IInv, Tails, Rest
      <4>3. DOMAIN TailOf(b) = 1 .. Len(Moved(b)) /\ Len(Moved(b)) \in Nat /\ iter \in Nat
        BY <2>1, TailOfIs, MovedIs DEF Control
      <4>4. \A k \in 1 .. iter - 1 : TailOf(b)[k] \in Range(TailOf(b))
        BY <4>2, <4>3 DEF Range
      <4>5. /\ DOMAIN then_map = {TailOf(b)[k] : k \in 1 .. iter - 1}
            /\ DOMAIN else_map = {TailOf(b)[k] : k \in 1 .. iter - 1}
        BY <1>1, <3>2, <4>1 DEF IInv, Clones
      <4>. QED  BY <4>2, <4>4, <4>5
    <3>. QED  BY <2>5, <3>1, <3>2
  <2>6. Range(then_map) \subseteq {"then"} \X Inst /\ Range(else_map) \subseteq {"else"} \X Inst
    BY <1>1 DEF IInv, Clones, Range
  <2>7. to_remove \in Seq({"inst"} \X fn.void) /\ code \in [Piece -> Seq(Value)]
    BY <1>1 DEF IInv, ToErase, Operands
  <2>. QED  BY <2>1, <2>2, <2>3, <2>4, <2>5, <2>6, <2>7 DEF TypeOK, Control
<1>. QED  BY <1>1, Invariant, OperandsMapped, PTL
\* Blocks that are done have their instructions once, in both branches, in order, and
\* nothing but PHIs in the tail, one for each value.
THEOREM DuplicatedOnce == Spec => []EffectsOnce
<1>1. ASSUME IInv PROVE EffectsOnce
  <2>1. Control /\ fn \in Functions /\ Remembered
    BY <1>1 DEF IInv, Control
  <2>2. ASSUME NEW b \in Block, IsDone(b)
        PROVE  LET body == fn.body[b]
                   n == First(b) - 1
                   rest == SubSeq(body, n + 1, Len(body))
               IN  /\ n \in 0 .. Len(body)
                   /\ \A m \in DOMAIN body : body[m] \in fn.phis <=> m <= n
                   /\ code[<<b, "head">>] = Append(Insts(SubSeq(body, 1, n)), <<"cond", b>>)
                   /\ \A part \in {"then", "else"} :
                        code[<<b, part>>] = [m \in DOMAIN rest |-> <<part, rest[m]>>]
                   /\ IsFiltered(code[<<b, "tail">>], [m \in DOMAIN rest |-> <<"phi", rest[m]>>],
                                 {"phi"} \X (Inst \ fn.void))
    <3>. DEFINE body == fn.body[b]
                n == First(b) - 1
                rest == SubSeq(body, n + 1, Len(body))
                s == code[<<b, "tail">>]
                t == TailOf(b)
                r == [m \in DOMAIN rest |-> <<"phi", rest[m]>>]
                S == {"phi"} \X (Inst \ fn.void)
    <3>1. /\ body \in Seq(Inst) /\ First(b) \in 1 .. Len(body) + 1 /\ Len(body) \in Nat
          /\ DOMAIN body = 1 .. Len(body)
          /\ \A k \in DOMAIN body : body[k] \in fn.phis <=> k < First(b)
      BY <2>1, FirstSplits
    <3>2. n \in 0 .. Len(body) /\ \A m \in DOMAIN body : body[m] \in fn.phis <=> m <= n
      BY <3>1
    <3>3. n + 1 = First(b)
      BY <3>1
    <3>4. rest = Moved(b)
      BY <3>3 DEF Moved
    <3>5. Split(b) /\ Progress(b) = Len(Moved(b))
      BY <2>2 DEF Split, Progress
    <3>6. code[<<b, "head">>] = Append(Insts(SubSeq(body, 1, n)), <<"cond", b>>)
      BY <1>1, <3>5 DEF IInv, Heads
    <3>7. DOMAIN Moved(b) = 1 .. Len(Moved(b)) /\ \A k \in 1 .. Len(Moved(b)) : Moved(b)[k] \in Inst
      BY <2>1, MovedIs
    <3>8. \A part \in {"then", "else"} : code[<<b, part>>] = [m \in DOMAIN rest |-> <<part, rest[m]>>]
      BY <1>1, <3>4, <3>5, <3>7, ZenonT(30) DEF IInv, Branches
    <3>9. IsFiltered(s, t, {"phi"} \X Inst)
      <4>1. ~ (phase = "copy" /\ b = Target)
        BY <2>1, <2>2, Working
      <4>2. Left(b) = {"phi"} \X Inst
        BY <2>2 DEF Left
      <4>. QED  BY <1>1, <3>5, <4>1, <4>2 DEF IInv, Tails
    <3>10. DOMAIN t = 1 .. Len(Moved(b)) /\ DOMAIN r = 1 .. Len(Moved(b))
      BY <2>1, <3>4, <3>7, TailOfIs
    <3>11. ASSUME NEW k \in 1 .. Len(Moved(b))
           PROVE  /\ t[k] \in {"phi"} \X Inst <=> r[k] \in S
                  /\ t[k] \in {"phi"} \X Inst => t[k] = r[k]
      <4>. DEFINE v == <<"inst", Moved(b)[k]>>
      <4>1. v \in DOMAIN re_mapper <=> Moved(b)[k] \notin fn.void
        BY <2>1, <3>5, RememberedIs, ProgressInRange
      <4>2. t[k] = Tested(v) /\ r[k] = <<"phi", Moved(b)[k]>>
        BY <2>1, <3>4, <3>7, TailOfIs
      <4>3. Tested(v) = IF Moved(b)[k] \notin fn.void THEN <<"phi", Moved(b)[k]>> ELSE v
        BY <2>1, <4>1 DEF Tested, Remembered
      <4>4. Moved(b)[k] \in Inst
        BY <3>7
      <4>5. CASE Moved(b)[k] \in fn.void
        <5>1. t[k] = <<"inst", Moved(b)[k]>> /\ r[k] = <<"phi", Moved(b)[k]>>
          BY <4>2, <4>3, <4>5
        <5>. HIDE DEF t, r
        <5>. QED  BY <4>5, <5>1
      <4>6. CASE Moved(b)[k] \notin fn.void
        <5>1. t[k] = <<"phi", Moved(b)[k]>> /\ r[k] = <<"phi", Moved(b)[k]>>
          BY <4>2, <4>3, <4>6
        <5>. HIDE DEF t, r
        <5>. QED  BY <4>4, <4>6, <5>1
      <4>. QED  BY <4>5, <4>6
    <3>12. IsFiltered(s, r, S)
      <4>. HIDE DEF s, t, r, S
      <4>1. PICK at \in [DOMAIN s -> DOMAIN t] :
              /\ \A m, i \in DOMAIN s : m < i => at[m] < at[i]
              /\ Range(at) = {k \in DOMAIN t : t[k] \in {"phi"} \X Inst}
              /\ \A i \in DOMAIN s : s[i] = t[at[i]]
        BY <3>9 DEF IsFiltered
      <4>2. at \in [DOMAIN s -> DOMAIN r] /\ Range(at) = {k \in DOMAIN r : r[k] \in S}
        BY <3>10, <3>11, <4>1
      <4>3. ASSUME NEW i \in DOMAIN s PROVE s[i] = r[at[i]]
        <5>1. at[i] \in Range(at) /\ at[i] \in DOMAIN t
          BY <4>1 DEF Range
        <5>2. t[at[i]] \in {"phi"} \X Inst
          BY <4>1, <5>1
        <5>. QED  BY <3>10, <3>11, <4>1, <5>1, <5>2
      <4>. QED  BY <4>1, <4>2, <4>3 DEF IsFiltered
    <3>. QED  BY <3>2, <3>6, <3>8, <3>12
  <2>3. SUFFICES ASSUME NEW k \in 1 .. cloned
                 PROVE  LET b == targets[k][1]
                            body == fn.body[b]
                        IN  \E n \in 0 .. Len(body) :
                              LET rest == SubSeq(body, n + 1, Len(body)) IN
                                /\ \A m \in DOMAIN body : body[m] \in fn.phis <=> m <= n
                                /\ code[<<b, "head">>] = Append(Insts(SubSeq(body, 1, n)), <<"cond", b>>)
                                /\ \A part \in {"then", "else"} :
                                     code[<<b, part>>] = [m \in DOMAIN rest |-> <<part, rest[m]>>]
                                /\ IsFiltered(code[<<b, "tail">>], [m \in DOMAIN rest |-> <<"phi", rest[m]>>],
                                              {"phi"} \X (Inst \ fn.void))
    BY DEF EffectsOnce
  <2>4. PICK b \in Block : b = targets[k][1]
    BY <2>1 DEF Control
  <2>5. IsDone(b)
    BY <2>4 DEF IsDone
  <2>. QED  BY <2>2, <2>4, <2>5
<1>. QED  BY <1>1, Invariant, PTL

\* Copies have the operands of the original up to what these are copies of, and a
\* condition tests the context value of its block, whatever replaced it.
THEOREM ComputedAsBefore == Spec => []SameComputation
<1>1. ASSUME IInv PROVE SameComputation
  <2>1. fn \in Functions
    BY <1>1 DEF IInv, Control
  <2>2. SUFFICES ASSUME NEW v \in DOMAIN opnds, v[1] # "phi"
                 PROVE  [k \in DOMAIN opnds[v] |-> Origin(opnds[v][k])] =
                          IF v[1] = "cond" THEN <<Context(v[2])>> ELSE fn.opnds[Origin(v)]
    BY DEF SameComputation, Context
  <2>3. /\ v \in Value \ ({"leaf"} \X Leaf)
        /\ v[1] \in {"inst", "then", "else"} => v[2] \in Members
        /\ v[1] \in {"inst", "term"} => opnds[v] = Renamed(v)
        /\ v[1] \in {"then", "else"} => opnds[v] = Cloned(v[1], v[2])
        /\ v[1] = "cond" => Split(v[2]) /\ opnds[v] = <<Tested(Context(v[2]))>>
    BY <1>1 DEF IInv, Operands
  <2>4. ASSUME NEW w \in DOMAIN fn.opnds
        PROVE  /\ fn.opnds[w] = [k \in DOMAIN fn.opnds[w] |-> fn.opnds[w][k]]
               /\ \A k \in DOMAIN fn.opnds[w] : fn.opnds[w][k] \in ({"inst"} \X (Inst \ fn.void)) \cup ({"leaf"} \X Leaf)
    BY <2>1, OpndsRead
  <2>5. ASSUME v[1] \in {"inst", "term"}
        PROVE  [k \in DOMAIN opnds[v] |-> Origin(opnds[v][k])] = fn.opnds[Origin(v)]
    <3>1. v \in DOMAIN fn.opnds /\ Origin(v) = v
      BY <2>1, <2>3, <2>5, OpndsRead DEF Value, Copies, Origin
    <3>2. opnds[v] = [k \in DOMAIN fn.opnds[v] |-> Tested(fn.opnds[v][k])]
      BY <2>3, <2>5 DEF Renamed
    <3>3. \A k \in DOMAIN fn.opnds[v] : Origin(Tested(fn.opnds[v][k])) = fn.opnds[v][k]
      BY <1>1, <2>4, <3>1, TestedIs
    <3>. QED  BY <2>4, <3>1, <3>2, <3>3
  <2>6. ASSUME v[1] \in {"then", "else"}
        PROVE  [k \in DOMAIN opnds[v] |-> Origin(opnds[v][k])] = fn.opnds[Origin(v)]
    <3>. DEFINE w == <<"inst", v[2]>>
    <3>1. w \in DOMAIN fn.opnds /\ Origin(v) = w
      BY <2>1, <2>3, <2>6, OpndsRead DEF Value, Copies, Origin
    <3>2. opnds[v] = [k \in DOMAIN fn.opnds[w] |-> InBranch(v[1], v[2], fn.opnds[w][k])]
      BY <2>3, <2>6 DEF Cloned
    <3>. HIDE DEF w
    <3>3. \A k \in DOMAIN fn.opnds[w] : Origin(InBranch(v[1], v[2], fn.opnds[w][k])) = fn.opnds[w][k]
      <4>. TAKE k \in DOMAIN fn.opnds[w]
      <4>1. PICK x : x = fn.opnds[w][k]
        OBVIOUS
      <4>2. x \in ({"inst"} \X (Inst \ fn.void)) \cup ({"leaf"} \X Leaf)
        BY <2>4, <3>1, <4>1
      <4>3. \A part \in {"then", "else"} : \A j : Origin(InBranch(part, j, x)) = x
        BY <1>1, <4>2, InBranchIs
      <4>. QED  BY <2>6, <4>1, <4>3
    <3>. QED  BY <2>4, <3>1, <3>2, <3>3
  <2>7. ASSUME v[1] = "cond"
        PROVE  [k \in DOMAIN opnds[v] |-> Origin(opnds[v][k])] = <<Context(v[2])>>
    <3>. DEFINE c == Context(v[2])
    <3>1. v[2] \in Block
      BY <2>3, <2>7 DEF Value, Copies
    <3>2. Origin(Tested(c)) = c
      BY <1>1, <2>3, <2>7, <3>1, ContextOfSplit, TestedIs
    <3>3. opnds[v] = <<Tested(c)>>
      BY <2>3, <2>7
    <3>. HIDE DEF c
    <3>4. [k \in DOMAIN <<Tested(c)>> |-> Origin(<<Tested(c)>>[k])] = <<Origin(Tested(c))>>
      OBVIOUS
    <3>5. [k \in DOMAIN opnds[v] |-> Origin(opnds[v][k])] = <<c>>
      BY <3>2, <3>3, <3>4
    <3>. QED  BY <3>5 DEF c
  <2>8. v[1] \in {"inst", "term", "then", "else", "cond"}
    BY <2>2, <2>3 DEF Value, Copies
  <2>. QED  BY <2>2, <2>5, <2>6, <2>7, <2>8
<1>. QED  BY <1>1, Invariant, PTL
-----------------------------------------------------------------------------
(* Where a value is, there is what stands for it.                          *)

\* A value that no block has moved stands for itself.
LEMMA NotMoved ==
  ASSUME IInv, NEW x, \A b \in Block : \A k \in 1 .. Len(Moved(b)) : x # <<"inst", Moved(b)[k]>>
  PROVE  Tested(x) = x
<1>1. Control /\ Remembered
  BY DEF IInv
<1>2. ASSUME x \in DOMAIN re_mapper PROVE FALSE
  <2>1. PICK b \in Block : x \in {"inst"} \X Inst /\ \E k \in 1 .. Progress(b) : x[2] = Moved(b)[k]
    BY <1>1, <1>2 DEF Remembered
  <2>2. PICK k \in 1 .. Progress(b) : x[2] = Moved(b)[k]
    BY <2>1
  <2>3. Progress(b) \in 0 .. Len(Moved(b)) /\ fn \in Functions
    BY <1>1, ProgressInRange DEF Control
  <2>4. k \in 1 .. Len(Moved(b))
    BY <2>3, MovedIs
  <2>. QED  BY <2>1, <2>2, <2>4
<1>. QED  BY <1>2 DEF Tested

\* Values of invokes are in no block.
LEMMA ResultNotMoved ==
  ASSUME IInv, NEW a \in Block
  PROVE  Tested(<<"inst", fn.result[a]>>) = <<"inst", fn.result[a]>>
<1>1. fn \in Functions
  BY DEF IInv, Control
<1>2. \A b \in Block : \A k \in 1 .. Len(Moved(b)) : fn.result[a] # Moved(b)[k]
  <2>. TAKE b \in Block
  <2>. TAKE k \in 1 .. Len(Moved(b))
  <2>1. Moved(b)[k] \in Range(fn.body[b])
    BY <1>1, MovedIs DEF Range
  <2>. QED  BY <1>1, <2>1, ReadIsWellFormed DEF WellFormed
<1>. QED  BY <1>2, NotMoved

\* The tail of a split block has what stands for its instructions, in their order: the
\* ones that are not replaced until they are erased.
LEMMA TailHas ==
  ASSUME IInv, NEW b \in Block, Split(b)
  PROVE  LET tail == code[<<b, "tail">>] IN
           /\ tail \in Seq(Value)
           /\ \A q \in DOMAIN tail : \E k \in 1 .. Len(Moved(b)) : tail[q] = TailOf(b)[k]
           /\ \A k \in 1 .. Len(Moved(b)) : Moved(b)[k] \notin fn.void =>
                \E p \in DOMAIN tail : tail[p] = TailOf(b)[k]
           /\ \A p, q \in DOMAIN tail : \A i, k \in 1 .. Len(Moved(b)) :
                tail[p] = TailOf(b)[i] /\ tail[q] = TailOf(b)[k] /\ i < k => p < q
<1>. DEFINE s == code[<<b, "tail">>]
            t == TailOf(b)
            n == Len(Moved(b))
<1>1. /\ Control /\ Remembered /\ fn \in Functions
      /\ s \in Seq(Value) /\ DOMAIN s = 1 .. Len(s) /\ Len(s) \in Nat
  BY DEF IInv, Control, Operands, Piece, Parts
<1>2. /\ DOMAIN t = 1 .. n /\ n \in Nat /\ \A i, k \in 1 .. n : t[i] = t[k] => i = k
  BY <1>1, TailOfIs, MovedIs
<1>3. CASE phase = "copy" /\ b = Target
  <2>1. s = t
    BY <1>3 DEF IInv, Tails
  <2>. HIDE DEF s, t, n
  <2>2. /\ \A q \in DOMAIN s : \E k \in 1 .. n : s[q] = t[k]
        /\ \A k \in 1 .. n : \E p \in DOMAIN s : s[p] = t[k]
        /\ \A p, q \in DOMAIN s : \A i, k \in 1 .. n : s[p] = t[i] /\ s[q] = t[k] /\ i < k => p < q
    BY <1>2, <2>1
  <2>. QED  BY <1>1, <2>2 DEF s, t, n
<1>4. CASE ~(phase = "copy" /\ b = Target)
  <2>1. IsFiltered(s, t, Left(b))
    BY <1>4 DEF IInv, Tails
  <2>2. Progress(b) = n
    <3>1. CASE IsDone(b)
      BY <3>1 DEF Progress
    <3>2. CASE ~IsDone(b)
      <4>1. InWork(b) /\ phase = "purge" /\ b = Target
        BY <1>4, <3>2 DEF Split, InWork
      <4>2. iter = n + 1
        BY <1>1, <4>1 DEF Control
      <4>. QED  BY <1>2, <3>2, <4>1, <4>2 DEF Progress
    <3>. QED  BY <3>1, <3>2
  <2>3. ASSUME NEW k \in 1 .. n, Moved(b)[k] \notin fn.void
        PROVE  t[k] \in Left(b)
    <3>1. <<"inst", Moved(b)[k]>> \in DOMAIN re_mapper
      BY <1>1, <1>2, <2>2, <2>3, RememberedIs, ProgressInRange
    <3>2. t[k] = <<"phi", Moved(b)[k]>>
      BY <1>1, <3>1, TailOfIs DEF Remembered, Tested
    <3>3. Moved(b)[k] \in Inst
      BY <1>1, MovedIs
    <3>. QED  BY <3>2, <3>3 DEF Left
  <2>. HIDE DEF s, t, n
  <2>4. PICK at \in [DOMAIN s -> DOMAIN t] :
          /\ \A p, q \in DOMAIN s : p < q => at[p] < at[q]
          /\ Range(at) = {k \in DOMAIN t : t[k] \in Left(b)}
          /\ \A q \in DOMAIN s : s[q] = t[at[q]]
    BY <2>1 DEF IsFiltered
  <2>5. \A q \in DOMAIN s : \E k \in 1 .. n : s[q] = t[k]
    BY <1>2, <2>4
  <2>6. ASSUME NEW k \in 1 .. n, Moved(b)[k] \notin fn.void
        PROVE  \E p \in DOMAIN s : s[p] = t[k]
    <3>1. k \in Range(at)
      BY <1>2, <2>3, <2>4, <2>6
    <3>2. PICK p \in DOMAIN s : at[p] = k
      BY <2>4, <3>1 DEF Range
    <3>. QED  BY <2>4, <3>2
  <2>7. ASSUME NEW p \in DOMAIN s, NEW q \in DOMAIN s, NEW i \in 1 .. n, NEW k \in 1 .. n,
               s[p] = t[i], s[q] = t[k], i < k
        PROVE  p < q
    <3>1. at[p] = i /\ at[q] = k
      BY <1>2, <2>4, <2>7
    <3>2. p \in Int /\ q \in Int /\ i \in Int /\ k \in Int
      BY <1>1
    <3>3. ~ q < p /\ q # p
      BY <2>4, <2>7, <3>1, <3>2
    <3>. QED  BY <3>2, <3>3
  <2>8. /\ \A k \in 1 .. n : Moved(b)[k] \notin fn.void => \E p \in DOMAIN s : s[p] = t[k]
        /\ \A p, q \in DOMAIN s : \A i, k \in 1 .. n : s[p] = t[i] /\ s[q] = t[k] /\ i < k => p < q
    BY <2>6, <2>7
  <2>. QED  BY <1>1, <2>5, <2>8 DEF s, t, n
<1>. QED  BY <1>3, <1>4

\* A value of a block is where it was read, or what stands for it is in the tail.
LEMMA Kept ==
  ASSUME IInv, NEW a \in Block, NEW m \in DOMAIN fn.body[a], fn.body[a][m] \notin fn.void
  PROVE  LET x == <<"inst", fn.body[a][m]>>
             head == code[<<a, "head">>]
             tail == code[<<a, "tail">>]
         IN  /\ ~Split(a) \/ m < First(a) =>
                  m \in 1 .. Len(head) /\ head[m] = x /\ Tested(x) = x
             /\ Split(a) /\ ~ m < First(a) =>
                  /\ m - First(a) + 1 \in 1 .. Len(Moved(a))
                  /\ Moved(a)[m - First(a) + 1] = fn.body[a][m]
                  /\ TailOf(a)[m - First(a) + 1] = Tested(x)
                  /\ \E p \in 1 .. Len(tail) : tail[p] = Tested(x)
<1>. DEFINE s == fn.body[a]
            x == <<"inst", s[m]>>
            head == code[<<a, "head">>]
            tail == code[<<a, "tail">>]
<1>1. /\ Control /\ Remembered /\ fn \in Functions
      /\ s \in Seq(Inst) /\ DOMAIN s = 1 .. Len(s) /\ Len(s) \in Nat
      /\ First(a) \in 1 .. Len(s) + 1
  BY FirstSplits DEF IInv, Control
<1>2. ASSUME ~Split(a) \/ m < First(a)
      PROVE  Tested(x) = x
  <2>1. CASE m < First(a)
    <3>1. \A b \in Block : \A k \in 1 .. Len(Moved(b)) : s[m] # Moved(b)[k]
      <4>. SUFFICES ASSUME NEW b \in Block, NEW k \in 1 .. Len(Moved(b)), s[m] = Moved(b)[k]
                    PROVE  FALSE
        OBVIOUS
      <4>1. b = a /\ m = First(b) + k - 1
        BY <1>1, MovedFromOne
      <4>2. k >= 1 /\ k \in Int
        OBVIOUS
      <4>. QED  BY <1>1, <2>1, <4>1, <4>2
    <3>. QED  BY <3>1, NotMoved
  <2>2. CASE ~Split(a)
    <3>1. Progress(a) = 0
      BY <2>2 DEF Split, Progress
    <3>2. x \notin DOMAIN re_mapper
      <4>. SUFFICES ASSUME x \in DOMAIN re_mapper PROVE FALSE
        OBVIOUS
      <4>1. PICK b \in Block : \E k \in 1 .. Progress(b) : s[m] = Moved(b)[k]
        BY <1>1 DEF Remembered
      <4>2. PICK k \in 1 .. Progress(b) : s[m] = Moved(b)[k]
        BY <4>1
      <4>3. k \in 1 .. Len(Moved(b))
        BY <1>1, ProgressInRange, MovedIs
      <4>4. b = a
        BY <1>1, <4>2, <4>3, MovedFromOne
      <4>. QED  BY <3>1, <4>2, <4>4
    <3>. QED  BY <3>2 DEF Tested
  <2>. QED  BY <1>2, <2>1, <2>2
<1>3. ASSUME ~Split(a)
      PROVE  m \in 1 .. Len(head) /\ head[m] = x
  <2>1. head = Insts(s)
    BY <1>3 DEF IInv, Heads
  <2>. HIDE DEF s
  <2>2. Len(Insts(s)) = Len(s) /\ \A k \in 1 .. Len(s) : Insts(s)[k] = <<"inst", s[k]>>
    BY <1>1, InstsIs
  <2>. QED  BY <1>1, <2>1, <2>2 DEF s
<1>4. ASSUME Split(a), m < First(a)
      PROVE  m \in 1 .. Len(head) /\ head[m] = x
  <2>. DEFINE h == SubSeq(s, 1, First(a) - 1)
              cond == <<"cond", a>>
              P == Inst \cap fn.phis
              u == Insts(h)
              S == ({"inst"} \X P) \cup {cond}
  <2>1. head = Append(u, cond)
    BY <1>4 DEF IInv, Heads
  <2>2. /\ h \in Seq(P) /\ Len(h) = First(a) - 1
        /\ m \in 1 .. Len(h) /\ h[m] = s[m]
    <3>1. /\ h \in Seq(P) /\ Len(h) = First(a) - 1
          /\ \A k \in 1 .. First(a) - 1 : h[k] = s[k]
      BY <1>1, HeadIs
    <3>. HIDE DEF h, P, s
    <3>2. m \in 1 .. First(a) - 1
      BY <1>1, <1>4 DEF s
    <3>. QED  BY <3>1, <3>2
  <2>. HIDE DEF h, P
  <2>3. /\ u \in Seq({"inst"} \X P) /\ Len(u) = Len(h) /\ u[m] = <<"inst", h[m]>>
    BY <2>2, InstsIs
  <2>4. u \in Seq(S) /\ cond \in S
    BY <2>3, SeqMonotonic
  <2>. HIDE DEF S, cond, u
  <2>5. Len(Append(u, cond)) = Len(u) + 1 /\ \A k \in 1 .. Len(u) : Append(u, cond)[k] = u[k]
    BY <2>4, AppendProperties
  <2>. QED  BY <2>1, <2>2, <2>3, <2>5
<1>5. ASSUME Split(a), ~ m < First(a)
      PROVE  /\ m - First(a) + 1 \in 1 .. Len(Moved(a))
             /\ Moved(a)[m - First(a) + 1] = s[m]
             /\ TailOf(a)[m - First(a) + 1] = Tested(x)
             /\ \E p \in 1 .. Len(tail) : tail[p] = Tested(x)
  <2>. DEFINE k == m - First(a) + 1
  <2>1. k \in 1 .. Len(Moved(a)) /\ First(a) + k - 1 = m
    BY <1>1, <1>5, MovedIs, SMTT(20)
  <2>. HIDE DEF k
  <2>2. Moved(a)[k] = s[m] /\ TailOf(a)[k] = Tested(x)
    <3>1. Moved(a)[k] = s[First(a) + k - 1]
      BY <1>1, <2>1, MovedIs
    <3>2. TailOf(a)[k] = Tested(<<"inst", Moved(a)[k]>>)
      BY <1>1, <2>1, TailOfIs
    <3>. QED  BY <2>1, <3>1, <3>2
  <2>3. tail \in Seq(Value) /\ \E p \in DOMAIN tail : tail[p] = TailOf(a)[k]
    BY <1>5, <2>1, <2>2, TailHas
  <2>4. \E p \in 1 .. Len(tail) : tail[p] = Tested(x)
    BY <2>2, <2>3
  <2>. QED  BY <2>1, <2>2, <2>4 DEF k
<1>. QED  BY <1>2, <1>3, <1>4, <1>5
\* Defined without a look into the block itself: by an argument, an invoke or a strict
\* dominator.
Outside(x, b) ==
  \/ x[1] = "leaf"
  \/ b \notin Reached(fn)
  \/ \E a \in Block : x = <<"inst", fn.result[a]>> /\ EdgeDominates(fn, a, fn.normal[a], b)
  \/ \E a \in Block : StrictlyDominates(fn, a, b) /\ x \in {"inst"} \X Range(fn.body[a])

LEMMA DefinedOutside ==
  ASSUME IInv, NEW x \in ({"inst"} \X (Inst \ fn.void)) \cup ({"leaf"} \X Leaf),
         NEW b \in Block, Outside(x, b), NEW part, NEW n
  PROVE  Defined(Tested(x), b, part, n)
<1>1. CASE x[1] = "leaf"
  <2>1. x \notin DOMAIN re_mapper
    BY <1>1 DEF IInv, Remembered
  <2>. QED  BY <1>1, <2>1 DEF Tested, Defined
<1>2. CASE b \notin Reached(fn)
  BY <1>2 DEF Defined
<1>3. CASE \E a \in Block : x = <<"inst", fn.result[a]>> /\ EdgeDominates(fn, a, fn.normal[a], b)
  BY <1>3, ResultNotMoved DEF Defined
<1>4. CASE \E a \in Block : StrictlyDominates(fn, a, b) /\ x \in {"inst"} \X Range(fn.body[a])
  <2>1. PICK a \in Block : StrictlyDominates(fn, a, b) /\ x \in {"inst"} \X Range(fn.body[a])
    BY <1>4
  <2>2. PICK m \in DOMAIN fn.body[a] : x = <<"inst", fn.body[a][m]>>
    BY <2>1 DEF Range
  <2>3. fn.body[a][m] \notin fn.void
    BY <2>2
  <2>4. \/ Contains(code[<<a, "head">>], Tested(x))
        \/ Contains(code[<<a, "tail">>], Tested(x))
    <3>. DEFINE head == code[<<a, "head">>]
                tail == code[<<a, "tail">>]
    <3>1. CASE ~Split(a) \/ m < First(a)
      <4>1. m \in 1 .. Len(head) /\ head[m] = <<"inst", fn.body[a][m]>>
            /\ Tested(<<"inst", fn.body[a][m]>>) = <<"inst", fn.body[a][m]>>
        BY <2>3, <3>1, Kept
      <4>. QED  BY <2>2, <4>1 DEF Contains
    <3>2. CASE Split(a) /\ ~ m < First(a)
      <4>1. \E p \in 1 .. Len(tail) : tail[p] = Tested(<<"inst", fn.body[a][m]>>)
        BY <2>3, <3>2, Kept
      <4>. QED  BY <2>2, <4>1 DEF Contains
    <3>. QED  BY <3>1, <3>2
  <2>. QED  BY <2>1, <2>4 DEF Defined
<1>. QED  BY <1>1, <1>2, <1>3, <1>4 DEF Outside

\* A value is defined outside a block, or it is in it, before the use.
LEMMA WhereDefined ==
  ASSUME NEW x, NEW b, NEW n, ReadDominates(fn, x, b, n)
  PROVE  \/ Outside(x, b)
         \/ \E m \in DOMAIN fn.body[b] : m < n /\ x = <<"inst", fn.body[b][m]>>
BY DEF ReadDominates, Outside

LEMMA LastPartIs ==
  ASSUME IInv, NEW b \in Block
  PROVE  LastPart(b) = IF Split(b) THEN "tail" ELSE "head"
<1>. DEFINE cond == <<"cond", b>>
<1>1. fn \in Functions
  BY DEF IInv, Control
<1>2. CASE Split(b)
  <2>. DEFINE h == SubSeq(fn.body[b], 1, First(b) - 1)
              P == Inst \cap fn.phis
              u == Insts(h)
              S == ({"inst"} \X P) \cup {cond}
  <2>1. code[<<b, "head">>] = Append(u, cond)
    BY <1>2 DEF IInv, Heads
  <2>2. h \in Seq(P)
    BY <1>1, HeadIs
  <2>. HIDE DEF h, P
  <2>3. u \in Seq({"inst"} \X P)
    BY <2>2, InstsIs
  <2>4. u \in Seq(S) /\ cond \in S
    BY <2>3, SeqMonotonic
  <2>. HIDE DEF S, cond, u
  <2>5. Append(u, cond) \in Seq(S) /\ Len(Append(u, cond)) = Len(u) + 1 /\ Len(u) \in Nat
        /\ Append(u, cond)[Len(u) + 1] = cond
    BY <2>4, AppendProperties
  <2>6. Append(u, cond) # << >> /\ Last(Append(u, cond)) = cond
    BY <2>5 DEF Last
  <2>. QED  BY <1>2, <2>1, <2>6 DEF LastPart, IsSplit, cond
<1>3. CASE ~Split(b)
  <2>. DEFINE s == fn.body[b]
  <2>1. code[<<b, "head">>] = Insts(s)
    BY <1>3 DEF IInv, Heads
  <2>2. s \in Seq(Inst)
    BY <1>1, FirstSplits
  <2>. HIDE DEF s
  <2>3. /\ Len(Insts(s)) = Len(s) /\ DOMAIN Insts(s) = 1 .. Len(s) /\ Insts(s) \in Seq({"inst"} \X Inst)
        /\ \A k \in 1 .. Len(s) : Insts(s)[k] = <<"inst", s[k]>>
    BY <2>2, InstsIs
  <2>4. ASSUME Insts(s) # << >> PROVE Last(Insts(s)) # cond
    <3>1. Len(s) \in 1 .. Len(s)
      BY <2>2, <2>3, <2>4
    <3>2. Last(Insts(s)) = <<"inst", s[Len(s)]>>
      BY <2>3, <3>1 DEF Last
    <3>. QED  BY <3>2
  <2>. QED  BY <1>3, <2>1, <2>4 DEF LastPart, IsSplit
<1>. QED  BY <1>2, <1>3

\* What a PHI of the input or a terminator uses is defined at the end of the block.
LEMMA AtEndKept ==
  ASSUME IInv, NEW x \in ({"inst"} \X (Inst \ fn.void)) \cup ({"leaf"} \X Leaf),
         NEW b \in Block, ReadAtEnd(fn, x, b)
  PROVE  AtEnd(Tested(x), b)
<1>1. CASE Outside(x, b)
  BY <1>1, DefinedOutside DEF AtEnd
<1>2. CASE ~Outside(x, b)
  <2>1. PICK m \in DOMAIN fn.body[b] : x = <<"inst", fn.body[b][m]>>
    BY <1>2, WhereDefined DEF ReadAtEnd
  <2>2. fn.body[b][m] \notin fn.void
    BY <2>1
  <2>. DEFINE head == code[<<b, "head">>]
              tail == code[<<b, "tail">>]
  <2>3. head \in Seq(Value) /\ tail \in Seq(Value)
    BY DEF IInv, Operands, Piece, Parts
  <2>4. CASE ~Split(b)
    <3>1. m \in 1 .. Len(head) /\ head[m] = Tested(x)
      <4>1. /\ m \in 1 .. Len(head) /\ head[m] = <<"inst", fn.body[b][m]>>
            /\ Tested(<<"inst", fn.body[b][m]>>) = <<"inst", fn.body[b][m]>>
        BY <2>2, <2>4, Kept
      <4>. QED  BY <2>1, <4>1
    <3>2. m \in DOMAIN head /\ m < Len(head) + 1
      BY <2>3, <3>1
    <3>3. LastPart(b) = "head"
      BY <2>4, LastPartIs
    <3>4. Defined(Tested(x), b, "head", Len(head) + 1)
      BY <3>1, <3>2 DEF Defined
    <3>. QED  BY <3>3, <3>4 DEF AtEnd
  <2>5. CASE Split(b)
    <3>1. LastPart(b) = "tail"
      BY <2>5, LastPartIs
    <3>2. CASE m < First(b)
      <4>1. m \in 1 .. Len(head) /\ head[m] = Tested(x)
        <5>1. /\ m \in 1 .. Len(head) /\ head[m] = <<"inst", fn.body[b][m]>>
              /\ Tested(<<"inst", fn.body[b][m]>>) = <<"inst", fn.body[b][m]>>
          BY <2>2, <3>2, Kept
        <5>. QED  BY <2>1, <5>1
      <4>2. Contains(head, Tested(x))
        BY <4>1 DEF Contains
      <4>3. Defined(Tested(x), b, "tail", Len(tail) + 1)
        BY <4>2 DEF Defined
      <4>. QED  BY <3>1, <4>3 DEF AtEnd
    <3>3. CASE ~ m < First(b)
      <4>1. PICK p \in 1 .. Len(tail) : tail[p] = Tested(x)
        <5>1. \E p \in 1 .. Len(tail) : tail[p] = Tested(<<"inst", fn.body[b][m]>>)
          BY <2>2, <2>5, <3>3, Kept
        <5>. QED  BY <2>1, <5>1
      <4>2. p \in DOMAIN tail /\ p < Len(tail) + 1
        BY <2>3, <4>1
      <4>3. Defined(Tested(x), b, "tail", Len(tail) + 1)
        BY <4>1, <4>2 DEF Defined
      <4>. QED  BY <3>1, <4>3 DEF AtEnd
    <3>. QED  BY <3>2, <3>3
  <2>. QED  BY <2>4, <2>5
<1>. QED  BY <1>1, <1>2
-----------------------------------------------------------------------------
(* Where it is used, it is defined.                                        *)

\* What the verifier of the input says of one operand.
LEMMA UseIs ==
  ASSUME fn \in Functions, NEW b \in Block, NEW n \in DOMAIN fn.body[b],
         NEW k \in DOMAIN fn.opnds[<<"inst", fn.body[b][n]>>]
  PROVE  LET j == fn.body[b][n]
             x == fn.opnds[<<"inst", j>>][k]
         IN  /\ x \in ({"inst"} \X (Inst \ fn.void)) \cup ({"leaf"} \X Leaf)
             /\ j \notin fn.phis => ReadDominates(fn, x, b, n)
             /\ j \in fn.phis => fn.from[j][k] \in Block /\ ReadAtEnd(fn, x, fn.from[j][k])
<1>. DEFINE j == fn.body[b][n]
            v == <<"inst", j>>
            x == fn.opnds[v][k]
<1>1. j \in Members /\ v \in DOMAIN fn.opnds
  <2>1. j \in Members
    BY DEF Members, Range
  <2>. QED  BY <2>1, OpndsRead
<1>2. x \in ({"inst"} \X (Inst \ fn.void)) \cup ({"leaf"} \X Leaf)
  BY <1>1, OpndsRead
<1>3. UsesDominated(fn)
  BY ReadIsWellFormed DEF WellFormed
<1>4. IF j \in fn.phis THEN ReadAtEnd(fn, x, fn.from[j][k]) ELSE ReadDominates(fn, x, b, n)
  BY <1>3 DEF UsesDominated
<1>5. ASSUME j \in fn.phis PROVE fn.from[j][k] \in Block
  <2>1. j \in Range(fn.body[b])
    BY DEF Range
  <2>2. fn.from \in [fn.phis -> Seq(Block)] /\ DOMAIN fn.from[j] = DOMAIN fn.opnds[v]
    BY <1>5, <2>1, ReadIsWellFormed DEF WellFormed
  <2>3. fn.from[j] \in Seq(Block) /\ k \in DOMAIN fn.from[j]
    BY <1>5, <2>2
  <2>. QED  BY <2>3
<1>. QED  BY <1>2, <1>4, <1>5

\* The operands of an instruction that is where it was read.
LEMMA HeadUses ==
  ASSUME IInv, NEW b \in Block, NEW n \in DOMAIN fn.body[b], ~Split(b) \/ n < First(b),
         n \in DOMAIN code[<<b, "head">>], code[<<b, "head">>][n] = <<"inst", fn.body[b][n]>>
  PROVE  OperandsDefined(b, "head", n)
<1>. DEFINE j == fn.body[b][n]
            v == <<"inst", j>>
            ops == fn.opnds[v]
            head == code[<<b, "head">>]
<1>1. fn \in Functions /\ v \in DOMAIN opnds /\ opnds[v] = Renamed(v)
  <2>1. <<b, "head">> \in Piece
    BY DEF Piece, Parts
  <2>2. head[n] \in DOMAIN opnds
    BY <2>1 DEF IInv, Operands
  <2>3. v \in DOMAIN opnds
    BY <2>2
  <2>. QED  BY <2>3 DEF IInv, Operands, Control
<1>2. DOMAIN opnds[v] = DOMAIN ops /\ \A k \in DOMAIN ops : opnds[v][k] = Tested(ops[k])
  BY <1>1 DEF Renamed
<1>3. CASE j \in fn.phis
  <2>1. \A k \in DOMAIN ops : AtEnd(opnds[v][k], fn.from[j][k])
    BY <1>1, <1>2, <1>3, UseIs, AtEndKept, ZenonT(30)
  <2>. QED  BY <1>2, <1>3, <2>1 DEF OperandsDefined
<1>4. CASE j \notin fn.phis
  <2>0. ~Split(b) /\ \A m \in DOMAIN fn.body[b] : m < n => m < First(b) \/ ~Split(b)
    BY <1>1, <1>4, FirstSplits
  <2>1. ASSUME NEW k \in DOMAIN ops
        PROVE  Defined(opnds[v][k], b, "head", n)
    <3>1. PICK x : x = ops[k]
      OBVIOUS
    <3>2. x \in ({"inst"} \X (Inst \ fn.void)) \cup ({"leaf"} \X Leaf) /\ ReadDominates(fn, x, b, n)
      BY <1>1, <1>4, <3>1, UseIs
    <3>3. CASE Outside(x, b)
      BY <1>2, <3>1, <3>2, <3>3, DefinedOutside
    <3>4. CASE \E m \in DOMAIN fn.body[b] : m < n /\ x = <<"inst", fn.body[b][m]>>
      <4>1. PICK m \in DOMAIN fn.body[b] : m < n /\ x = <<"inst", fn.body[b][m]>>
        BY <3>4
      <4>2. fn.body[b][m] \notin fn.void
        BY <3>2, <4>1
      <4>3. /\ m \in 1 .. Len(head) /\ head[m] = <<"inst", fn.body[b][m]>>
            /\ Tested(<<"inst", fn.body[b][m]>>) = <<"inst", fn.body[b][m]>>
        BY <2>0, <4>2, Kept
      <4>4. head \in Seq(Value)
        BY DEF IInv, Operands, Piece, Parts
      <4>5. m \in DOMAIN head /\ head[m] = Tested(x)
        BY <4>1, <4>3, <4>4
      <4>6. Defined(Tested(x), b, "head", n)
        BY <4>1, <4>5 DEF Defined
      <4>. QED  BY <1>2, <3>1, <4>6
    <3>. QED  BY <3>2, <3>3, <3>4, WhereDefined
  <2>. QED  BY <1>2, <1>4, <2>1 DEF OperandsDefined
<1>. QED  BY <1>3, <1>4

\* The condition of a block that is split.
LEMMA ConditionUses ==
  ASSUME IInv, NEW b \in Block, NEW n \in DOMAIN code[<<b, "head">>],
         code[<<b, "head">>][n] = <<"cond", b>>
  PROVE  OperandsDefined(b, "head", n)
<1>. DEFINE v == <<"cond", b>>
<1>1. PICK x : x = Context(b)
  OBVIOUS
<1>2. fn \in Functions /\ Split(b) /\ opnds[v] = <<Tested(x)>>
  <2>1. <<b, "head">> \in Piece
    BY DEF Piece, Parts
  <2>2. code[<<b, "head">>][n] \in DOMAIN opnds
    BY <2>1 DEF IInv, Operands
  <2>3. v \in DOMAIN opnds /\ v[1] = "cond" /\ v[2] = b
    BY <2>2
  <2>. QED  BY <1>1, <2>3 DEF IInv, Operands, Control
<1>3. x \in Rivs(b) /\ x \in ({"inst"} \X (Inst \ fn.void)) \cup ({"leaf"} \X Leaf)
  BY <1>1, <1>2, ContextOfSplit
<1>4. Defined(Tested(x), b, "head", n) \/ InvokeValue(Tested(x))
  <2>1. CASE b = fn.entry
    <3>1. Outside(x, b)
      BY <1>3, <2>1 DEF Rivs, Outside
    <3>. QED  BY <1>3, <3>1, DefinedOutside
  <2>2. CASE b # fn.entry
    <3>1. PICK a \in Block : b \in Children(fn, a) /\ x \in Ints(a)
      BY <1>3, <2>2 DEF Rivs
    <3>2. StrictlyDominates(fn, a, b)
      BY <3>1 DEF Children, IsIdom
    <3>3. PICK j \in fn.int \cap (Range(fn.body[a]) \cup {fn.result[a]}) : x = <<"inst", j>>
      BY <3>1 DEF Ints
    <3>4. CASE j = fn.result[a]
      BY <3>3, <3>4, ResultNotMoved DEF InvokeValue
    <3>5. CASE j \in Range(fn.body[a])
      <4>1. Outside(x, b)
        BY <3>2, <3>3, <3>5 DEF Outside
      <4>. QED  BY <1>3, <4>1, DefinedOutside
    <3>. QED  BY <3>3, <3>4, <3>5
  <2>. QED  BY <2>1, <2>2
<1>5. DOMAIN <<Tested(x)>> = {1} /\ <<Tested(x)>>[1] = Tested(x)
  OBVIOUS
<1>6. \A k \in DOMAIN opnds[v] :
        Defined(opnds[v][k], b, "head", n) \/ (v[1] = "cond" /\ InvokeValue(opnds[v][k]))
  BY <1>2, <1>4, <1>5
<1>. QED  BY <1>6 DEF OperandsDefined

\* What is in the tail of a block that is split: the instructions that are not replaced,
\* and the PHIs of the others.
LEMMA TailUses ==
  ASSUME IInv, NEW b \in Block, Split(b), NEW q \in DOMAIN code[<<b, "tail">>]
  PROVE  OperandsDefined(b, "tail", q)
<1>. DEFINE tail == code[<<b, "tail">>]
            head == code[<<b, "head">>]
<1>1. /\ Control /\ Remembered /\ fn \in Functions
      /\ \A c \in Block : Progress(c) \in 0 .. Len(Moved(c))
      /\ tail \in Seq(Value) /\ head \in Seq(Value)
  BY ProgressInRange DEF IInv, Control, Operands, Piece, Parts
<1>2. PICK k \in 1 .. Len(Moved(b)) : tail[q] = TailOf(b)[k]
  BY TailHas
<1>3. PICK j \in Inst \ fn.phis : j = Moved(b)[k]
  BY <1>1, MovedIs
<1>4. tail[q] = Tested(<<"inst", j>>) /\ tail[q] \in DOMAIN opnds
  <2>1. <<b, "tail">> \in Piece
    BY DEF Piece, Parts
  <2>2. TailOf(b)[k] = Tested(<<"inst", Moved(b)[k]>>)
    BY <1>1, TailOfIs
  <2>. QED  BY <1>2, <1>3, <2>1, <2>2 DEF IInv, Operands
<1>5. CASE <<"inst", j>> \in DOMAIN re_mapper
  <2>1. tail[q] = <<"phi", j>>
    BY <1>1, <1>4, <1>5 DEF Tested, Remembered
  <2>2. opnds[<<"phi", j>>] = <<<<"then", j>>, <<"else", j>>>>
    <3>1. <<"phi", j>> \in DOMAIN opnds /\ <<"phi", j>>[1] = "phi" /\ <<"phi", j>>[2] = j
      BY <1>4, <2>1
    <3>. QED  BY <3>1 DEF IInv, Operands
  <2>3. k <= Progress(b) /\ Progress(b) \in Nat
    BY <1>1, <1>3, <1>5, RememberedIs, MovedIs
  <2>4. \A part \in {"then", "else"} : Contains(code[<<b, part>>], <<part, j>>)
    <3>. TAKE part \in {"then", "else"}
    <3>1. code[<<b, part>>] = [i \in 1 .. Progress(b) |-> <<part, Moved(b)[i]>>]
      BY DEF IInv, Branches
    <3>2. Len(code[<<b, part>>]) = Progress(b)
      BY <2>3, <3>1
    <3>3. k \in 1 .. Len(code[<<b, part>>]) /\ code[<<b, part>>][k] = <<part, j>>
      BY <1>3, <2>3, <3>1, <3>2
    <3>. QED  BY <3>3 DEF Contains
  <2>5. /\ Contains(code[<<b, "then">>], opnds[tail[q]][1])
        /\ Contains(code[<<b, "else">>], opnds[tail[q]][2])
    BY <2>1, <2>2, <2>4
  <2>. QED  BY <2>1, <2>5 DEF OperandsDefined
<1>6. CASE <<"inst", j>> \notin DOMAIN re_mapper
  <2>1. PICK n \in DOMAIN fn.body[b] : n = First(b) + k - 1 /\ fn.body[b][n] = j
    BY <1>1, <1>3, MovedIs
  <2>2. PICK v : v = <<"inst", j>> /\ tail[q] = v
    BY <1>4, <1>6 DEF Tested
  <2>3. v[1] = "inst" /\ v[2] = j /\ opnds[v] = Renamed(v)
    <3>1. v[1] = "inst" /\ v[2] = j /\ v \in DOMAIN opnds
      BY <1>4, <2>2
    <3>2. \A u \in DOMAIN opnds : u[1] \in {"inst", "term"} => opnds[u] = Renamed(u)
      BY DEF IInv, Operands
    <3>. QED  BY <3>1, <3>2
  <2>4. DOMAIN opnds[v] = DOMAIN fn.opnds[v] /\ \A i \in DOMAIN fn.opnds[v] : opnds[v][i] = Tested(fn.opnds[v][i])
    BY <2>3 DEF Renamed
  <2>5. ASSUME NEW i \in DOMAIN fn.opnds[v]
        PROVE  Defined(opnds[v][i], b, "tail", q)
    <3>1. PICK x : x = fn.opnds[v][i]
      OBVIOUS
    <3>2. x \in ({"inst"} \X (Inst \ fn.void)) \cup ({"leaf"} \X Leaf) /\ ReadDominates(fn, x, b, n)
      BY <1>1, <1>3, <2>1, <2>2, <3>1, UseIs, ZenonT(30)
    <3>3. CASE Outside(x, b)
      BY <2>4, <3>1, <3>2, <3>3, DefinedOutside
    <3>4. CASE \E m \in DOMAIN fn.body[b] : m < n /\ x = <<"inst", fn.body[b][m]>>
      <4>1. PICK m \in DOMAIN fn.body[b] : m < n /\ x = <<"inst", fn.body[b][m]>>
        BY <3>4
      <4>2. fn.body[b][m] \notin fn.void
        BY <3>2, <4>1
      <4>3. CASE m < First(b)
        <5>1. /\ m \in 1 .. Len(head) /\ head[m] = <<"inst", fn.body[b][m]>>
              /\ Tested(<<"inst", fn.body[b][m]>>) = <<"inst", fn.body[b][m]>>
          BY <4>2, <4>3, Kept
        <5>2. Contains(head, Tested(x))
          BY <4>1, <5>1 DEF Contains
        <5>3. Defined(Tested(x), b, "tail", q)
          BY <5>2 DEF Defined
        <5>. QED  BY <2>4, <3>1, <5>3
      <4>4. CASE ~ m < First(b)
        <5>. DEFINE l == m - First(b) + 1
        <5>1. /\ l \in 1 .. Len(Moved(b)) /\ TailOf(b)[l] = Tested(<<"inst", fn.body[b][m]>>)
              /\ \E p \in 1 .. Len(tail) : tail[p] = Tested(<<"inst", fn.body[b][m]>>)
          BY <4>2, <4>4, Kept
        <5>2. PICK p \in 1 .. Len(tail) : tail[p] = Tested(x)
          BY <4>1, <5>1
        <5>3. l < k
          <6>1. First(b) \in Int /\ m \in Int /\ k \in Int
            BY <1>1, FirstSplits
          <6>. QED  BY <2>1, <4>1, <6>1
        <5>. HIDE DEF l
        <5>4. p \in DOMAIN tail /\ tail[p] = TailOf(b)[l]
          BY <1>1, <4>1, <5>1, <5>2
        <5>5. p < q
          BY <1>2, <5>1, <5>3, <5>4, TailHas
        <5>6. Defined(Tested(x), b, "tail", q)
          BY <5>2, <5>4, <5>5 DEF Defined
        <5>. QED  BY <2>4, <3>1, <5>6
      <4>. QED  BY <4>3, <4>4
    <3>. QED  BY <3>2, <3>3, <3>4, WhereDefined
  <2>. QED  BY <1>3, <2>2, <2>3, <2>4, <2>5 DEF OperandsDefined
<1>. QED  BY <1>5, <1>6

\* The clones in a branch.
LEMMA BranchUses ==
  ASSUME IInv, NEW b \in Block, NEW part \in {"then", "else"}, NEW n \in DOMAIN code[<<b, part>>]
  PROVE  OperandsDefined(b, part, n)
<1>. DEFINE branch == code[<<b, part>>]
            head == code[<<b, "head">>]
<1>1. /\ Control /\ fn \in Functions /\ Progress(b) \in 0 .. Len(Moved(b)) /\ Len(Moved(b)) \in Nat
      /\ branch = [i \in 1 .. Progress(b) |-> <<part, Moved(b)[i]>>]
      /\ Split(b)
  <2>1. Control /\ fn \in Functions /\ Progress(b) \in 0 .. Len(Moved(b)) /\ Len(Moved(b)) \in Nat
    BY ProgressInRange, MovedIs DEF IInv, Control
  <2>2. branch = [i \in 1 .. Progress(b) |-> <<part, Moved(b)[i]>>]
    BY DEF IInv, Branches
  <2>3. Progress(b) # 0
    BY <2>1, <2>2
  <2>. QED  BY <2>1, <2>2, <2>3 DEF Split, Progress
<1>2. n \in 1 .. Progress(b) /\ n \in 1 .. Len(Moved(b))
  BY <1>1
<1>3. PICK j \in Inst \ fn.phis : j = Moved(b)[n]
  BY <1>1, <1>2, MovedIs
<1>4. PICK N \in DOMAIN fn.body[b] : N = First(b) + n - 1 /\ fn.body[b][N] = j
  BY <1>1, <1>2, <1>3, MovedIs
<1>5. PICK v : v = <<part, j>> /\ branch[n] = v
  BY <1>1, <1>2, <1>3
<1>6. opnds[v] = Cloned(part, j)
  <2>1. <<b, part>> \in Piece
    BY DEF Piece, Parts
  <2>2. v \in DOMAIN opnds /\ v[1] = part /\ v[2] = j
    <3>1. code[<<b, part>>][n] \in DOMAIN opnds
      BY <2>1 DEF IInv, Operands
    <3>. QED  BY <1>5, <3>1
  <2>3. \A u \in DOMAIN opnds : u[1] \in {"then", "else"} => opnds[u] = Cloned(u[1], u[2])
    BY DEF IInv, Operands
  <2>. QED  BY <2>2, <2>3
<1>7. PICK ops : ops = fn.opnds[<<"inst", j>>]
  OBVIOUS
<1>8. DOMAIN opnds[v] = DOMAIN ops /\ \A k \in DOMAIN ops : opnds[v][k] = InBranch(part, j, ops[k])
  BY <1>6, <1>7 DEF Cloned
<1>9. ASSUME NEW k \in DOMAIN ops
      PROVE  Defined(opnds[v][k], b, part, n)
  <2>1. PICK x : x = ops[k]
    OBVIOUS
  <2>2. x \in ({"inst"} \X (Inst \ fn.void)) \cup ({"leaf"} \X Leaf) /\ ReadDominates(fn, x, b, N)
    BY <1>1, <1>3, <1>4, <1>7, <2>1, UseIs
  <2>3. CASE b \notin Reached(fn)
    BY <2>3 DEF Defined
  <2>4. CASE \E m \in DOMAIN fn.body[b] : m < N /\ x = <<"inst", fn.body[b][m]>>
    <3>1. PICK m \in DOMAIN fn.body[b] : m < N /\ x = <<"inst", fn.body[b][m]>>
      BY <2>4
    <3>2. fn.body[b][m] \notin fn.void
      BY <2>2, <3>1
    <3>3. First(b) \in Int /\ m \in Int /\ n \in Int
      BY <1>1, <1>2, FirstSplits
    <3>4. CASE m < First(b)
      <4>1. /\ m \in 1 .. Len(head) /\ head[m] = <<"inst", fn.body[b][m]>>
            /\ Tested(<<"inst", fn.body[b][m]>>) = <<"inst", fn.body[b][m]>>
        BY <3>2, <3>4, Kept
      <4>2. ASSUME MovedBefore(x, j) PROVE FALSE
        <5>1. PICK c \in Block : \E l, i \in DOMAIN Moved(c) : x = <<"inst", Moved(c)[l]>>
          BY <4>2 DEF MovedBefore
        <5>2. PICK l \in 1 .. Len(Moved(c)) : x = <<"inst", Moved(c)[l]>>
          BY <1>1, <5>1, MovedIs
        <5>3. Moved(c)[l] = fn.body[b][m]
          BY <3>1, <5>2
        <5>4. m = First(b) + l - 1 /\ l \in Int /\ l >= 1
          BY <1>1, <5>3, MovedFromOne
        <5>. QED  BY <3>3, <3>4, <5>4
      <4>3. Contains(head, Tested(x))
        BY <3>1, <4>1 DEF Contains
      <4>4. opnds[v][k] = Tested(x)
        BY <1>8, <2>1, <4>2 DEF InBranch
      <4>. QED  BY <4>3, <4>4 DEF Defined
    <3>5. CASE ~ m < First(b)
      <4>. DEFINE l == m - First(b) + 1
      <4>1. l \in 1 .. Len(Moved(b)) /\ Moved(b)[l] = fn.body[b][m]
        BY <1>1, <3>2, <3>5, Kept
      <4>2. l < n /\ n \in DOMAIN Moved(b) /\ l \in DOMAIN Moved(b)
        <5>1. l < n
          BY <1>4, <3>1, <3>3
        <5>2. DOMAIN Moved(b) = 1 .. Len(Moved(b))
          BY <1>1, MovedIs
        <5>. QED  BY <1>2, <4>1, <5>1, <5>2
      <4>. HIDE DEF l
      <4>3. MovedBefore(x, j)
        BY <1>3, <3>1, <4>1, <4>2 DEF MovedBefore
      <4>4. opnds[v][k] = <<part, Moved(b)[l]>>
        <5>1. x[2] = Moved(b)[l]
          BY <3>1, <4>1
        <5>2. InBranch(part, j, x) = <<part, x[2]>>
          BY <4>3 DEF InBranch
        <5>. QED  BY <1>8, <2>1, <5>1, <5>2
      <4>5. l \in 1 .. Progress(b)
        BY <1>1, <1>2, <4>1, <4>2
      <4>6. l \in DOMAIN branch /\ branch[l] = opnds[v][k]
        BY <1>1, <4>4, <4>5
      <4>. QED  BY <4>2, <4>6 DEF Defined
    <3>. QED  BY <3>4, <3>5
  <2>5. CASE Outside(x, b) /\ b \in Reached(fn)
    <3>1. ASSUME MovedBefore(x, j) PROVE FALSE
      <4>1. PICK c \in Block : \E l, i \in DOMAIN Moved(c) : j = Moved(c)[i] /\ x = <<"inst", Moved(c)[l]>>
        BY <3>1 DEF MovedBefore
      <4>2. PICK l \in 1 .. Len(Moved(c)), i \in 1 .. Len(Moved(c)) :
              j = Moved(c)[i] /\ x = <<"inst", Moved(c)[l]>>
        BY <1>1, <4>1, MovedIs
      <4>3. c = b
        <5>1. Moved(c)[i] = Moved(b)[n]
          BY <1>3, <4>2
        <5>. QED  BY <1>1, <1>2, <5>1, MovedOnce
      <4>4. CASE x[1] = "leaf"
        BY <4>2, <4>4
      <4>5. CASE \E a \in Block : x = <<"inst", fn.result[a]>> /\ EdgeDominates(fn, a, fn.normal[a], b)
        <5>1. PICK a \in Block : x = <<"inst", fn.result[a]>>
          BY <4>5
        <5>2. Moved(c)[l] = fn.result[a]
          BY <4>2, <5>1
        <5>3. Moved(c)[l] \in Range(fn.body[c])
          <6>1. First(c) + l - 1 \in DOMAIN fn.body[c] /\ Moved(c)[l] = fn.body[c][First(c) + l - 1]
            BY <1>1, MovedIs
          <6>. QED  BY <6>1 DEF Range
        <5>. QED  BY <1>1, <5>2, <5>3, ReadIsWellFormed DEF WellFormed
      <4>6. CASE \E a \in Block : StrictlyDominates(fn, a, b) /\ x \in {"inst"} \X Range(fn.body[a])
        <5>1. PICK a \in Block : StrictlyDominates(fn, a, b) /\ x \in {"inst"} \X Range(fn.body[a])
          BY <4>6
        <5>2. PICK m \in DOMAIN fn.body[a] : x = <<"inst", fn.body[a][m]>>
          BY <5>1 DEF Range
        <5>3. Moved(c)[l] = fn.body[a][m]
          BY <4>2, <5>2
        <5>4. c = a
          BY <1>1, <5>3, MovedFromOne
        <5>. QED  BY <4>3, <5>1, <5>4 DEF StrictlyDominates
      <4>. QED  BY <2>5, <4>4, <4>5, <4>6 DEF Outside
    <3>2. opnds[v][k] = Tested(x)
      BY <1>8, <2>1, <3>1 DEF InBranch
    <3>. QED  BY <2>2, <2>5, <3>2, DefinedOutside
  <2>. QED  BY <2>2, <2>3, <2>4, <2>5, WhereDefined
<1>10. v[1] = part /\ part # "phi" /\ part # "inst"
  BY <1>5
<1>. QED  BY <1>5, <1>8, <1>9, <1>10 DEF OperandsDefined

\* What is in a head.
LEMMA HeadHas ==
  ASSUME IInv, NEW b \in Block, NEW n \in DOMAIN code[<<b, "head">>]
  PROVE  OperandsDefined(b, "head", n)
<1>. DEFINE head == code[<<b, "head">>]
            s == fn.body[b]
            cond == <<"cond", b>>
<1>1. fn \in Functions /\ s \in Seq(Inst) /\ DOMAIN s = 1 .. Len(s) /\ Len(s) \in Nat
      /\ First(b) \in 1 .. Len(s) + 1
  BY FirstSplits DEF IInv, Control
<1>2. CASE ~Split(b)
  <2>1. head = Insts(s)
    BY <1>2 DEF IInv, Heads
  <2>2. n \in DOMAIN s /\ head[n] = <<"inst", s[n]>>
    <3>. HIDE DEF s
    <3>. QED  BY <1>1, <2>1, InstsIs
  <2>. QED  BY <1>2, <2>2, HeadUses
<1>3. CASE Split(b)
  <2>. DEFINE h == SubSeq(s, 1, First(b) - 1)
              P == Inst \cap fn.phis
              u == Insts(h)
              S == ({"inst"} \X P) \cup {cond}
  <2>1. head = Append(u, cond)
    BY <1>3 DEF IInv, Heads
  <2>2. /\ h \in Seq(P) /\ Len(h) = First(b) - 1
        /\ \A k \in 1 .. First(b) - 1 : k \in DOMAIN s /\ h[k] = s[k]
    BY <1>1, HeadIs
  <2>. HIDE DEF h, P
  <2>3. u \in Seq({"inst"} \X P) /\ Len(u) = Len(h) /\ \A k \in 1 .. Len(h) : u[k] = <<"inst", h[k]>>
    BY <2>2, InstsIs
  <2>4. u \in Seq(S) /\ cond \in S
    BY <2>3, SeqMonotonic
  <2>. HIDE DEF S, cond, u
  <2>5. /\ Append(u, cond) \in Seq(S)
        /\ Len(Append(u, cond)) = Len(u) + 1 /\ Append(u, cond)[Len(u) + 1] = cond
        /\ \A k \in 1 .. Len(u) : Append(u, cond)[k] = u[k]
    BY <2>4, AppendProperties
  <2>6. n \in 1 .. First(b) - 1 \/ n = First(b)
    <3>1. n \in 1 .. Len(u) + 1 /\ Len(u) \in Nat
      BY <2>1, <2>4, <2>5
    <3>. QED  BY <1>1, <2>2, <2>3, <3>1
  <2>7. CASE n = First(b)
    <3>1. head[n] = cond
      BY <1>1, <2>1, <2>2, <2>3, <2>5, <2>7
    <3>. QED  BY <3>1, ConditionUses DEF cond
  <2>8. CASE n \in 1 .. First(b) - 1
    <3>1. n \in DOMAIN s /\ head[n] = <<"inst", s[n]>> /\ n < First(b)
      <4>1. n \in 1 .. Len(h) /\ n \in 1 .. Len(u)
        BY <2>2, <2>3, <2>8
      <4>2. head[n] = u[n]
        BY <2>1, <2>5, <4>1
      <4>3. u[n] = <<"inst", s[n]>> /\ n \in DOMAIN s
        BY <2>2, <2>3, <2>8, <4>1
      <4>. QED  BY <1>1, <2>8, <4>2, <4>3
    <3>. QED  BY <3>1, HeadUses
  <2>. QED  BY <2>6, <2>7, <2>8
<1>. QED  BY <1>2, <1>3

\* After every step each operand is a value that exists and is defined on every path to
\* its use (OperandsAvailable): what CloneBB leaves in a block, what it has not moved yet,
\* and the conditions it tests, chosen when their values were still in another block.
THEOREM OperandsStayAvailable == Spec => []OperandsAvailable
<1>1. ASSUME IInv PROVE OperandsAvailable
  <2>1. ASSUME NEW b \in Block, NEW part \in Parts, NEW n \in DOMAIN code[<<b, part>>]
        PROVE  OperandsDefined(b, part, n)
    <3>1. CASE part = "head"
      BY <1>1, <3>1, HeadHas
    <3>2. CASE part \in {"then", "else"}
      BY <1>1, <3>2, BranchUses
    <3>3. CASE part = "tail"
      <4>1. Split(b)
        <5>1. SUFFICES ASSUME ~Split(b) PROVE FALSE
          OBVIOUS
        <5>2. code[<<b, "tail">>] = << >>
          BY <1>1, <5>1 DEF IInv, Tails
        <5>. QED  BY <3>3, <5>2
      <4>. QED  BY <1>1, <3>3, <4>1, TailUses
    <3>. QED  BY <3>1, <3>2, <3>3 DEF Parts
  <2>2. ASSUME NEW b \in Block, NEW k \in DOMAIN opnds[<<"term", b>>]
        PROVE  AtEnd(opnds[<<"term", b>>][k], b)
    <3>1. PICK v : v = <<"term", b>>
      OBVIOUS
    <3>2. fn \in Functions /\ v \in DOMAIN opnds /\ v[1] = "term"
      BY <1>1, <3>1 DEF IInv, Operands, Control
    <3>3. opnds[v] = Renamed(v)
      BY <1>1, <3>2 DEF IInv, Operands
    <3>4. k \in DOMAIN fn.opnds[v] /\ opnds[v][k] = Tested(fn.opnds[v][k])
      BY <2>2, <3>1, <3>3 DEF Renamed
    <3>5. fn.opnds[v][k] \in ({"inst"} \X (Inst \ fn.void)) \cup ({"leaf"} \X Leaf)
      <4>1. v \in DOMAIN fn.opnds
        BY <3>1, <3>2, OpndsRead
      <4>. QED  BY <3>2, <3>4, <4>1, OpndsRead
    <3>6. ReadAtEnd(fn, fn.opnds[v][k], b)
      <4>1. UsesDominated(fn)
        BY <3>2, ReadIsWellFormed DEF WellFormed
      <4>. QED  BY <3>1, <3>4, <4>1 DEF UsesDominated
    <3>7. AtEnd(Tested(fn.opnds[v][k]), b)
      BY <1>1, <3>5, <3>6, AtEndKept
    <3>. QED  BY <3>1, <3>4, <3>7
  <2>. QED  BY <2>1, <2>2 DEF OperandsAvailable
<1>. QED  BY <1>1, Invariant, PTL
=============================================================================
