-------------------------- MODULE McwWrapperProofs --------------------------
(***************************************************************************)
(* Proofs about the wrapper, for every set of names, every command line    *)
(* and every set of files, and with the process killed at any point.       *)
(***************************************************************************)
EXTENDS McwWrapper, FiniteSetTheorems, TLAPS

Argument == File \cup Option

\* The values of the variables, as far as the arguments go; and where main is.
Names ==
  /\ args \in Seq(Argument) /\ new_argv \in Seq(Argument)
  /\ DOMAIN new_argv = DOMAIN args
  /\ to_remove \in [DOMAIN args -> BOOLEAN]
  /\ i \in 1 .. Len(args) + 1
  /\ pc \in {"generate", "instrument", "link", "remove", "done", "killed"}

\* An argument is replaced exactly if it is marked.
Marks ==
  \A k \in DOMAIN args : /\ new_argv[k] = IF to_remove[k] THEN IrOf[args[k]] ELSE args[k]
                         /\ to_remove[k] => args[k] \in Source

Files ==
  /\ fs \in [DOMAIN fs -> Content] /\ DOMAIN fs \subseteq File /\ before \subseteq File
  /\ printing \in Content

\* While a module is being printed main is in the second loop, at an IR file, and
\* only then is a file empty.
Printing ==
  /\ printing # Empty => /\ pc \in {"instrument", "killed"}
                         /\ i \in DOMAIN args /\ new_argv[i] \in Ir
  /\ \A f \in DOMAIN fs : fs[f] = Empty => printing # Empty /\ f = new_argv[i]

Links == linked = << >> \/ linked \in [DOMAIN args -> Content]

Typed == Names /\ Marks /\ Files /\ Printing /\ Links

\* IR of the user that no named source compiles to.
Spared(f) == f \in Ir \cap before /\ \A s \in Source : IrOf[s] = f => ~Named(s)

\* It exists, and what is in it, is about to be printed to it or was linked is the
\* user's.
SparedKept ==
  \A f \in Ir : Spared(f) =>
    /\ f \in DOMAIN fs
    /\ fs[f] # Empty => fs[f][1] = "user"
    /\ printing # Empty /\ new_argv[i] = f => printing[1] = "user"
    /\ \A k \in DOMAIN linked : args[k] = f => linked[k] # Empty /\ linked[k][1] = "user"

IInv == Typed /\ SourcesKept /\ SparedKept

-----------------------------------------------------------------------------
LEMMA Init_IInv == Init => IInv
<1> SUFFICES ASSUME Init PROVE IInv
  OBVIOUS
<1> USE NameAssumption
<1>1. args \in Seq(Argument)
  BY DEF Init, BoundedSeq, SeqOf, Argument
<1>2. Names /\ Marks
  BY <1>1 DEF Init, Names, Marks
<1>3. Files /\ Printing /\ Links
  BY DEF Init, Files, Printing, Links, Content, Mine, Empty, File
<1>4. SourcesKept
  BY DEF Init, SourcesKept, Exists, File
<1>5. SparedKept
  BY DEF Init, SparedKept, Spared, Mine, Empty
<1> QED
  BY <1>2, <1>3, <1>4, <1>5 DEF IInv, Typed

\* What the wrapper writes is in Content, and is not mistaken for an empty file.
LEMMA WrittenContent ==
  ASSUME NEW c \in Content, c # Empty
  PROVE  /\ <<c[1], c[2] + 1>> \in Content \ {Empty}
         /\ \A s \in Source : <<s, 0>> \in Content \ {Empty}
BY NameAssumption DEF Content, Empty

\* Nothing a named source compiles to is spared.
LEMMA CompiledNotSpared ==
  ASSUME Typed, NEW k \in DOMAIN args, args[k] \in Source
  PROVE  ~Spared(IrOf[args[k]])
BY DEF Spared, Named

\* An argument that still names a source has not been replaced.
LEMMA SourceArgument ==
  ASSUME Typed, NEW k \in DOMAIN args, new_argv[k] \in Source
  PROVE  args[k] = new_argv[k] /\ IrOf[new_argv[k]] \in Ir /\ ~to_remove[k]
BY NameAssumption DEF Typed, Marks

-----------------------------------------------------------------------------
(* One lemma for each of the three kinds of property that a step preserves. *)

LEMMA Step_Typed ==
  ASSUME IInv, [Next]_vars
  PROVE  Typed'
<1> USE NameAssumption
<1>0. Typed /\ Names /\ Marks /\ Files /\ Printing /\ Links
  BY DEF IInv, Typed
<1>a. Len(new_argv) = Len(args)
  BY <1>0 DEF Names
<1>1. ASSUME SkipArgument \/ SkipInstrument PROVE Typed'
  <2>1. printing = Empty
    BY <1>0, <1>1 DEF SkipArgument, SkipInstrument, In, Printing
  <2>2. Names' /\ Marks' /\ Links'
    BY <1>0, <1>1, <1>a, SMTT(20) DEF SkipArgument, SkipInstrument, In, Names, Marks, Links
  <2>3. Files' /\ Printing'
    BY <1>0, <1>1, <2>1 DEF SkipArgument, SkipInstrument, Files, Printing
  <2> QED
    BY <2>2, <2>3 DEF Typed
<1>2. ASSUME GenerateIr PROVE Typed'
  <2>1. i \in DOMAIN args /\ new_argv[i] \in Source /\ IrOf[new_argv[i]] \in Ir /\ args[i] = new_argv[i]
    BY <1>0, <1>2, <1>a, SourceArgument DEF GenerateIr, In, IsSourceFile, Names
  <2>2. Names'
    BY <1>0, <1>2, <1>a, <2>1 DEF GenerateIr, Names, In, Argument, File
  <2>3. Marks'
    BY <1>0, <1>2, <2>1 DEF GenerateIr, Marks, Names
  <2>4. <<new_argv[i], 0>> \in Content \ {Empty}
    BY <2>1 DEF Content, Empty
  <2>5. Files'
    BY <1>0, <1>2, <2>1, <2>4 DEF GenerateIr, Files, Write, File
  <2>6. Printing'
    BY <1>0, <1>2, <2>1, <2>4 DEF GenerateIr, Printing, Write, In
  <2>7. Links'
    BY <1>0, <1>2 DEF GenerateIr, Links
  <2> QED
    BY <2>2, <2>3, <2>5, <2>6, <2>7 DEF Typed
<1>3. ASSUME GenerateIrFails PROVE Typed'
  <2>1. Names' /\ Marks' /\ Links'
    BY <1>0, <1>3, <1>a DEF GenerateIrFails, Names, Marks, Links, In
  <2>2. Files'
    BY <1>0, <1>3 DEF GenerateIrFails, Files, Erase
  <2>3. Printing'
    BY <1>0, <1>3 DEF GenerateIrFails, Printing, Erase, In
  <2> QED
    BY <2>1, <2>2, <2>3 DEF Typed
<1>4. ASSUME OpenOutput PROVE Typed'
  <2>1. i \in DOMAIN args /\ new_argv[i] \in Ir /\ new_argv[i] \in DOMAIN fs
    BY <1>0, <1>4, <1>a DEF OpenOutput, In, IsIrFile, Exists, Names
  <2>2. printing' \in Content \ {Empty}
    BY <1>0, <1>4, <2>1, WrittenContent DEF OpenOutput, Files, Printing
  <2>3. Names' /\ Marks' /\ Links'
    BY <1>0, <1>4 DEF OpenOutput, Names, Marks, Links
  <2>4. Files'
    BY <1>0, <1>4, <2>1, <2>2 DEF OpenOutput, Files, Write, File, Content
  <2>5. Printing'
    BY <1>0, <1>4, <2>1, <2>2 DEF OpenOutput, Printing, Write, In
  <2> QED
    BY <2>3, <2>4, <2>5 DEF Typed
<1>5. ASSUME PrintModule PROVE Typed'
  <2>1. i \in DOMAIN args /\ new_argv[i] \in Ir /\ printing # Empty
    BY <1>0, <1>5 DEF PrintModule, Printing
  <2>2. Names' /\ Marks' /\ Links'
    BY <1>0, <1>5, <1>a DEF PrintModule, Names, Marks, Links, In
  <2>3. Files'
    BY <1>0, <1>5, <2>1 DEF PrintModule, Files, Write, File, Content
  <2>4. Printing'
    BY <1>0, <1>5, <2>1 DEF PrintModule, Printing, Write
  <2> QED
    BY <2>2, <2>3, <2>4 DEF Typed
<1>6. ASSUME Link PROVE Typed'
  <2>1. Links'
    BY <1>0, <1>6 DEF Link, Links, Files, Names, Exists, Content
  <2> QED
    BY <1>0, <1>6, <2>1 DEF Link, Typed, Names, Marks, Files, Printing
<1>7. ASSUME RemoveIr PROVE Typed'
  <2>1. Names' /\ Marks' /\ Links'
    BY <1>0, <1>7, <1>a DEF RemoveIr, Names, Marks, Links, In
  <2>2. Files'
    BY <1>0, <1>7 DEF RemoveIr, Files, Erase
  <2>3. Printing'
    BY <1>0, <1>7 DEF RemoveIr, Printing, Erase, In
  <2> QED
    BY <2>1, <2>2, <2>3 DEF Typed
<1>8. ASSUME NEW from, NEW to \in {"instrument", "link", "done"}, NextPhase(from, to)
      PROVE  Typed'
  <2>1. printing = Empty
    BY <1>0, <1>8, <1>a DEF NextPhase, Printing, Names
  <2> QED
    BY <1>0, <1>8, <1>a, <2>1 DEF NextPhase, Typed, Names, Marks, Files, Printing, Links
<1>9. ASSUME Kill \/ UNCHANGED vars PROVE Typed'
  BY <1>0, <1>9 DEF Kill, vars, Typed, Names, Marks, Files, Printing, Links
<1> QED
  BY <1>1, <1>2, <1>3, <1>4, <1>5, <1>6, <1>7, <1>8, <1>9 DEF Next, Step, Terminating

\* Only names in Ir are written or erased.
LEMMA Step_Sources ==
  ASSUME IInv, [Next]_vars
  PROVE  SourcesKept'
<1> USE NameAssumption
<1>0. Typed /\ Names /\ Marks /\ Files /\ Printing /\ SourcesKept
  BY DEF IInv, Typed
<1>a. Len(new_argv) = Len(args)
  BY <1>0 DEF Names
<1>b. ASSUME NEW f \in Ir, NEW c, fs' = Write(f, c) \/ fs' = Erase(f) \/ fs' = fs,
             before' = before
      PROVE  SourcesKept'
  <2> SUFFICES ASSUME NEW s \in Source
               PROVE  (Exists(s)' <=> s \in before) /\ (Exists(s)' => fs'[s] = Mine)
    BY <1>b DEF SourcesKept, Exists
  <2>1. s # f /\ (Exists(s) <=> s \in before) /\ (Exists(s) => fs[s] = Mine)
    BY <1>0 DEF SourcesKept
  <2> QED
    BY <1>b, <2>1 DEF Write, Erase, Exists
<1>1. ASSUME GenerateIr \/ GenerateIrFails PROVE SourcesKept'
  <2>1. i \in DOMAIN args /\ IrOf[new_argv[i]] \in Ir
    BY <1>0, <1>1, <1>a, SourceArgument DEF GenerateIr, GenerateIrFails, In, IsSourceFile, Names
  <2> QED
    BY <1>1, <1>b, <2>1 DEF GenerateIr, GenerateIrFails
<1>2. ASSUME OpenOutput PROVE SourcesKept'
  BY <1>2, <1>b DEF OpenOutput, IsIrFile
<1>3. ASSUME PrintModule PROVE SourcesKept'
  BY <1>0, <1>3, <1>b DEF PrintModule, Printing
<1>4. ASSUME RemoveIr PROVE SourcesKept'
  <2>1. i \in DOMAIN args
    BY <1>0, <1>4, <1>a DEF RemoveIr, In, Names
  <2>2. CASE to_remove[i]
    <3>1. new_argv[i] \in Ir
      BY <1>0, <2>1, <2>2 DEF Marks
    <3> QED
      BY <1>4, <1>b, <2>2, <3>1 DEF RemoveIr
  <2>3. CASE ~to_remove[i]
    BY <1>0, <1>4, <2>3 DEF RemoveIr, SourcesKept, Exists
  <2> QED
    BY <2>2, <2>3
<1>5. ASSUME UNCHANGED <<before, fs>> PROVE SourcesKept'
  BY <1>0, <1>5 DEF SourcesKept, Exists
<1> QED
  BY <1>1, <1>2, <1>3, <1>4, <1>5
     DEF Next, Step, SkipArgument, SkipInstrument, NextPhase, Link, Kill, Terminating, vars

\* What a spared file holds only ever changes by being printed to from itself.
LEMMA Step_Spared ==
  ASSUME IInv, [Next]_vars
  PROVE  SparedKept'
<1> USE NameAssumption
<1>0. Typed /\ Names /\ Marks /\ Files /\ Printing /\ Links /\ SparedKept
  BY DEF IInv, Typed
<1>a. Len(new_argv) = Len(args)
  BY <1>0 DEF Names
<1>b. UNCHANGED <<args, before>>
  BY DEF Next, Step, SkipArgument, GenerateIr, GenerateIrFails, SkipInstrument, OpenOutput, PrintModule,
         NextPhase, Link, RemoveIr, Kill, Terminating, vars
<1> SUFFICES ASSUME NEW f \in Ir, Spared(f)'
             PROVE  /\ f \in DOMAIN fs'
                    /\ fs'[f] # Empty => fs'[f][1] = "user"
                    /\ printing' # Empty /\ new_argv'[i'] = f => printing'[1] = "user"
                    /\ \A k \in DOMAIN linked' : args'[k] = f =>
                         linked'[k] # Empty /\ linked'[k][1] = "user"
  BY DEF SparedKept
<1>c. Spared(f)
  BY <1>b DEF Spared, Named
<1>d. /\ f \in DOMAIN fs
      /\ fs[f] # Empty => fs[f][1] = "user"
      /\ printing # Empty /\ new_argv[i] = f => printing[1] = "user"
      /\ \A k \in DOMAIN linked : args[k] = f => linked[k] # Empty /\ linked[k][1] = "user"
  BY <1>0, <1>c DEF SparedKept
<1>1. CASE GenerateIr \/ GenerateIrFails
  <2>1. i \in DOMAIN args /\ new_argv[i] = args[i] /\ args[i] \in Source
    BY <1>0, <1>1, <1>a, SourceArgument DEF GenerateIr, GenerateIrFails, In, IsSourceFile, Names
  <2>2. IrOf[new_argv[i]] # f
    BY <1>0, <1>c, <2>1, CompiledNotSpared
  <2>3. printing = Empty
    BY <1>0, <1>1 DEF GenerateIr, GenerateIrFails, In, Printing
  <2> QED
    BY <1>1, <1>b, <1>d, <2>2, <2>3 DEF GenerateIr, GenerateIrFails, Write, Erase
<1>2. CASE OpenOutput
  <2>1. fs[new_argv[i]] # Empty
    BY <1>0, <1>2 DEF OpenOutput, IsIrFile, Exists, Printing
  <2> QED
    BY <1>2, <1>b, <1>d, <2>1 DEF OpenOutput, Write
<1>3. CASE PrintModule
  BY <1>0, <1>3, <1>b, <1>d DEF PrintModule, Write
<1>4. CASE Link
  <2>1. printing = Empty
    BY <1>0, <1>4 DEF Link, Printing
  <2>2. fs[f] # Empty
    BY <1>0, <1>d, <2>1 DEF Printing
  <2>3. ASSUME NEW k \in DOMAIN args, args[k] = f PROVE new_argv[k] = f
    BY <1>0, <2>3 DEF Marks
  <2>4. DOMAIN linked' = DOMAIN args
    BY <1>0, <1>4 DEF Link, Names
  <2>5. ASSUME NEW k \in DOMAIN args, args[k] = f PROVE linked'[k] = fs[f]
    BY <1>0, <1>4, <1>d, <2>3, <2>5 DEF Link, Names, Exists
  <2> QED
    BY <1>4, <1>b, <1>d, <2>1, <2>2, <2>4, <2>5 DEF Link
<1>5. CASE RemoveIr
  <2>1. i \in DOMAIN args
    BY <1>0, <1>5, <1>a DEF RemoveIr, In, Names
  <2>2. to_remove[i] => new_argv[i] # f
    BY <1>0, <1>c, <2>1, CompiledNotSpared DEF Marks
  <2>3. printing = Empty
    BY <1>0, <1>5 DEF RemoveIr, In, Printing
  <2> QED
    BY <1>5, <1>b, <1>d, <2>2, <2>3 DEF RemoveIr, Erase
<1>6. CASE \/ SkipArgument \/ SkipInstrument
           \/ NextPhase("generate", "instrument") \/ NextPhase("instrument", "link")
           \/ NextPhase("remove", "done")
  <2>1. printing = Empty
    BY <1>0, <1>6, <1>a DEF SkipArgument, SkipInstrument, NextPhase, In, Printing, Names
  <2> QED
    BY <1>6, <1>b, <1>d, <2>1 DEF SkipArgument, SkipInstrument, NextPhase
<1>7. CASE Kill \/ UNCHANGED vars
  BY <1>7, <1>b, <1>d DEF Kill, vars
<1> QED
  BY <1>1, <1>2, <1>3, <1>4, <1>5, <1>6, <1>7 DEF Next, Step, Terminating

LEMMA Invariance == Spec => []IInv
<1>1. IInv /\ [Next]_vars => IInv'
  BY Step_Typed, Step_Sources, Step_Spared DEF IInv
<1> QED
  BY Init_IInv, <1>1, PTL DEF Spec

-----------------------------------------------------------------------------
\* Type correctness, with the marks: an argument main will hand to rm is IR, made
\* from the source that stood there (lines 40-52).
THEOREM TypeCorrect == Spec => []TypeOK
<1>1. IInv => TypeOK
  BY DEF IInv, Typed, Names, Marks, Files, Links, TypeOK
<1> QED
  BY <1>1, Invariance, PTL

\* No run of the wrapper, killed or not, touches a C file (lines 40-73).
THEOREM UserSourcesKept == Spec => []SourcesKept
<1>1. IInv => SourcesKept
  BY DEF IInv
<1> QED
  BY <1>1, Invariance, PTL

\* The user's IR survives and is what is linked, unless its C file is an argument
\* too or the process is killed while printing it (lines 53-73, 132-134).
THEOREM UserIrKept == Spec => []UserIrSurvives
<1>1. IInv => UserIrSurvives
  BY DEF IInv, Typed, Printing, SparedKept, Spared, UserIrSurvives, Exists
<1> QED
  BY <1>1, Invariance, PTL
-----------------------------------------------------------------------------
(* What is linked.                                                         *)

\* The arguments at which f was, or is still to be, instrumented.
Places(f) == {j \in DOMAIN new_argv : new_argv[j] = f}
Passed(f) == {j \in Places(f) : j < i}

\* A file was instrumented at most once for each place of its name that the second loop
\* has passed.
Counted ==
  /\ pc = "generate" => \A f \in DOMAIN fs : fs[f][2] = 0
  /\ pc = "instrument" => \A f \in DOMAIN fs : fs[f][2] <= Cardinality(Passed(f))
  /\ pc = "instrument" /\ printing # Empty => /\ new_argv[i] \in DOMAIN fs
                                               /\ printing[2] <= Cardinality(Passed(new_argv[i])) + 1
  /\ pc = "link" => \A f \in DOMAIN fs : fs[f][2] <= Cardinality(Places(f))
  /\ pc \in {"generate", "instrument", "link"} => linked = << >>
  /\ \A k \in DOMAIN linked : linked[k] # Empty => linked[k][2] <= Cardinality(Places(new_argv[k]))

\* The IR of a marked source holds, or is about to be printed from, what was generated
\* from that source; it is gone only if the source came again and did not compile.
Fresh ==
  /\ pc = "generate" => \A k \in DOMAIN args : to_remove[k] => k < i
  /\ pc \in {"generate", "instrument", "link"} => \A k \in DOMAIN args : to_remove[k] =>
       \/ IrOf[args[k]] \notin DOMAIN fs /\ \E j \in k + 1 .. Len(args) : args[j] = args[k]
       \/ /\ IrOf[args[k]] \in DOMAIN fs
          /\ fs[IrOf[args[k]]] # Empty => fs[IrOf[args[k]]][1] = args[k]
          /\ printing # Empty /\ new_argv[i] = IrOf[args[k]] => printing[1] = args[k]
  /\ LinksFreshIr

LInv == IInv /\ Counted /\ Fresh

LEMMA Init_LInv == Init => LInv
<1> SUFFICES ASSUME Init PROVE LInv
  OBVIOUS
<1>1. Counted
  BY DEF Init, Counted, Mine
<1>2. Fresh
  BY DEF Init, Fresh, LinksFreshIr
<1> QED
  BY <1>1, <1>2, Init_IInv DEF LInv

\* The places of a file are finitely many, those passed among them, and all once the
\* loop is through.
LEMMA PlacesFinite ==
  ASSUME Typed, NEW f
  PROVE  /\ IsFiniteSet(Passed(f)) /\ Cardinality(Passed(f)) \in Nat
         /\ IsFiniteSet(Places(f)) /\ Cardinality(Places(f)) \in Nat
         /\ i > Len(new_argv) => Passed(f) = Places(f)
<1>1. DOMAIN new_argv = 1 .. Len(new_argv) /\ Len(new_argv) \in Nat /\ i \in Nat
  BY DEF Typed, Names
<1>2. IsFiniteSet(1 .. Len(new_argv))
  BY <1>1, FS_Interval
<1>3. Places(f) \in SUBSET (1 .. Len(new_argv)) /\ Passed(f) \in SUBSET (1 .. Len(new_argv))
  BY <1>1 DEF Places, Passed
<1>4. IsFiniteSet(Places(f)) /\ IsFiniteSet(Passed(f))
  BY <1>2, <1>3, FS_Subset
<1>5. i > Len(new_argv) => Passed(f) = Places(f)
  BY <1>1 DEF Places, Passed
<1> QED
  BY <1>4, <1>5, FS_CardinalityType

\* One more place is passed when main steps to the next argument.
LEMMA PassedStep ==
  ASSUME Typed, NEW f, new_argv' = new_argv, i' = i + 1, i \in DOMAIN new_argv
  PROVE  Cardinality(Passed(f)') = IF new_argv[i] = f THEN Cardinality(Passed(f)) + 1
                                                      ELSE Cardinality(Passed(f))
<1>1. DOMAIN new_argv \subseteq Nat /\ i \in Nat
  BY DEF Typed, Names
<1>2. CASE new_argv[i] = f
  <2>1. Passed(f)' = Passed(f) \cup {i} /\ i \notin Passed(f)
    BY <1>1, <1>2 DEF Passed, Places
  <2>2. Cardinality(Passed(f) \cup {i}) = Cardinality(Passed(f)) + 1
    BY <2>1, PlacesFinite, FS_AddElement
  <2> QED
    BY <1>2, <2>1, <2>2
<1>3. CASE new_argv[i] # f
  <2>1. Passed(f)' = Passed(f)
    BY <1>1, <1>3 DEF Passed, Places
  <2> QED
    BY <1>3, <2>1
<1> QED
  BY <1>2, <1>3

LEMMA ContentNumbers ==
  ASSUME Typed
  PROVE  /\ \A f \in DOMAIN fs : fs[f][2] \in Nat
         /\ printing[2] \in Nat /\ Empty[2] = 0 /\ Empty[1] = "nobody"
BY DEF Typed, Files, Content, Empty

LEMMA Step_Counted ==
  ASSUME LInv, [Next]_vars
  PROVE  Counted'
<1> USE NameAssumption
<1>0. Typed /\ Names /\ Marks /\ Files /\ Printing /\ Links /\ Counted
  BY DEF LInv, IInv, Typed
<1>a. DOMAIN new_argv = 1 .. Len(new_argv) /\ Len(new_argv) \in Nat /\ i \in Nat \ {0}
      /\ i \in 1 .. Len(args) + 1 /\ DOMAIN new_argv = DOMAIN args
  BY <1>0 DEF Names
<1>b. \A f \in DOMAIN fs : fs[f][2] \in Nat
  BY <1>0, ContentNumbers
<1>c. \A f : Cardinality(Passed(f)) \in Nat /\ Cardinality(Places(f)) \in Nat
  BY <1>0, PlacesFinite
<1>1. CASE SkipArgument \/ GenerateIr \/ GenerateIrFails
  BY <1>0, <1>1 DEF SkipArgument, GenerateIr, GenerateIrFails, In, Counted, Write, Erase
<1>2. CASE NextPhase("generate", "instrument")
  <2>1. \A f : Cardinality(Passed(f)') \in Nat
    <3>1. Typed'
      BY Step_Typed DEF LInv
    <3>2. \A f : Passed(f)' = {j \in Places(f) : j < i'} /\ Places(f)' = Places(f)
      BY <1>2 DEF NextPhase, Passed, Places
    <3>3. \A f : Passed(f)' = {}
      BY <1>2, <1>a, <3>2 DEF NextPhase, Places
    <3> QED
      BY <3>3, FS_EmptySet
  <2>2. printing = Empty
    BY <1>0, <1>2 DEF NextPhase, Printing
  <2> QED
    BY <1>0, <1>2, <2>1, <2>2 DEF NextPhase, Counted
<1>3. CASE SkipInstrument
  <2>1. i \in DOMAIN new_argv
    BY <1>3, <1>a DEF SkipInstrument, In
  <2>2. \A f : Cardinality(Passed(f)') >= Cardinality(Passed(f)) /\ Cardinality(Passed(f)') \in Nat
    BY <1>0, <1>3, <1>c, <2>1, PassedStep DEF SkipInstrument
  <2> QED
    BY <1>0, <1>3, <1>b, <1>c, <2>2 DEF SkipInstrument, In, Counted
<1>4. CASE OpenOutput
  <2>1. \A f : Passed(f)' = Passed(f)
    BY <1>4 DEF OpenOutput, Passed, Places
  <2>2. new_argv[i] \in DOMAIN fs /\ fs[new_argv[i]][2] <= Cardinality(Passed(new_argv[i]))
    BY <1>0, <1>4 DEF OpenOutput, In, IsIrFile, Exists, Counted
  <2>3. printing'[2] = fs[new_argv[i]][2] + 1 /\ new_argv' = new_argv /\ i' = i
    BY <1>4 DEF OpenOutput
  <2>4. \A f \in DOMAIN fs' : fs'[f][2] <= Cardinality(Passed(f))
    <3>1. \A f \in DOMAIN fs' : fs'[f] = Empty \/ (f \in DOMAIN fs /\ fs'[f] = fs[f])
      BY <1>4 DEF OpenOutput, Write
    <3>2. Empty[2] = 0
      BY <1>0, ContentNumbers
    <3> QED
      BY <1>0, <1>4, <1>c, <3>1, <3>2 DEF OpenOutput, In, Counted
  <2>5. printing'[2] <= Cardinality(Passed(new_argv[i])') + 1
    BY <1>b, <1>c, <2>1, <2>2, <2>3
  <2>6. new_argv'[i'] \in DOMAIN fs'
    BY <1>4, <2>2, <2>3 DEF OpenOutput, Write
  <2> QED
    BY <1>0, <1>4, <2>1, <2>3, <2>4, <2>5, <2>6 DEF OpenOutput, In, Counted
<1>5. CASE PrintModule
  <2>1. i \in DOMAIN new_argv /\ printing # Empty
    BY <1>5, <1>a DEF PrintModule, In
  <2>2. \A f : Cardinality(Passed(f)') = IF new_argv[i] = f THEN Cardinality(Passed(f)) + 1
                                                             ELSE Cardinality(Passed(f))
    BY <1>0, <1>5, <2>1, PassedStep DEF PrintModule
  <2>3. \A f \in DOMAIN fs' : fs'[f] = (IF f = new_argv[i] THEN printing ELSE fs[f])
                              /\ (f # new_argv[i] => f \in DOMAIN fs)
    BY <1>5 DEF PrintModule, Write
  <2>4. \A f \in DOMAIN fs' : fs'[f][2] <= Cardinality(Passed(f)')
    BY <1>0, <1>5, <2>1, <2>2, <2>3 DEF PrintModule, In, Counted
  <2> QED
    BY <1>0, <1>5, <2>4 DEF PrintModule, In, Counted
<1>6. CASE NextPhase("instrument", "link")
  <2>1. \A f : Passed(f) = Places(f) /\ Places(f)' = Places(f)
    <3>1. i > Len(new_argv) /\ new_argv' = new_argv
      BY <1>6 DEF NextPhase
    <3> QED
      BY <1>0, <3>1, PlacesFinite DEF Places
  <2> QED
    BY <1>0, <1>6, <2>1 DEF NextPhase, Counted
<1>7. CASE Link
  <2>1. \A f : Places(f)' = Places(f)
    BY <1>7 DEF Link, Places
  <2>2. \A k \in DOMAIN linked' : linked'[k] # Empty =>
          new_argv[k] \in DOMAIN fs /\ linked'[k] = fs[new_argv[k]] /\ new_argv'[k] = new_argv[k]
    BY <1>7 DEF Link, Exists
  <2>3. \A k \in DOMAIN linked' : linked'[k] # Empty => linked'[k][2] <= Cardinality(Places(new_argv[k]))
    BY <1>0, <1>7, <2>2 DEF Link, Counted
  <2> QED
    BY <1>7, <2>1, <2>2, <2>3 DEF Link, Counted
<1>8. CASE RemoveIr \/ NextPhase("remove", "done") \/ Kill
  <2>1. \A f : Places(f)' = Places(f)
    BY <1>8 DEF RemoveIr, NextPhase, Kill, Places
  <2> QED
    BY <1>0, <1>8, <2>1 DEF RemoveIr, NextPhase, Kill, In, Counted
<1>9. CASE UNCHANGED vars
  <2>1. \A f : Places(f)' = Places(f) /\ Passed(f)' = Passed(f)
    BY <1>9 DEF vars, Places, Passed
  <2> QED
    BY <1>0, <1>9, <2>1 DEF vars, Counted
<1> QED
  BY <1>1, <1>2, <1>3, <1>4, <1>5, <1>6, <1>7, <1>8, <1>9 DEF Next, Step, Terminating

\* The IR of marked sources, before the link.
Generated(k) ==
  \/ IrOf[args[k]] \notin DOMAIN fs /\ \E j \in k + 1 .. Len(args) : args[j] = args[k]
  \/ /\ IrOf[args[k]] \in DOMAIN fs
     /\ fs[IrOf[args[k]]] # Empty => fs[IrOf[args[k]]][1] = args[k]
     /\ printing # Empty /\ new_argv[i] = IrOf[args[k]] => printing[1] = args[k]

LEMMA Step_Fresh ==
  ASSUME LInv, [Next]_vars
  PROVE  Fresh'
<1> USE NameAssumption
<1>0. Typed /\ Names /\ Marks /\ Files /\ Printing /\ Links /\ Counted /\ Fresh
  BY DEF LInv, IInv, Typed
<1>a. DOMAIN new_argv = 1 .. Len(new_argv) /\ Len(new_argv) \in Nat /\ i \in Nat \ {0}
      /\ i \in 1 .. Len(args) + 1 /\ DOMAIN new_argv = DOMAIN args /\ DOMAIN args = 1 .. Len(args)
      /\ Len(new_argv) = Len(args)
  BY <1>0 DEF Names
<1>b. pc \in {"generate", "instrument", "link"} => \A k \in DOMAIN args : to_remove[k] => Generated(k)
  BY <1>0 DEF Fresh, Generated
<1>c. UNCHANGED args
  BY DEF Next, Step, SkipArgument, GenerateIr, GenerateIrFails, SkipInstrument, OpenOutput, PrintModule,
         NextPhase, Link, RemoveIr, Kill, Terminating, vars
<1>d. LinksFreshIr
  BY <1>0 DEF Fresh
<1>e. pc \in {"generate", "instrument", "link"} => linked = << >>
  BY <1>0 DEF Counted
\* It is enough to look at one marked argument.
<1>f. ASSUME pc' \in {"generate", "instrument", "link"}, linked' = << >>,
             pc' = "generate" => \A k \in DOMAIN args : to_remove'[k] => k < i',
             \A k \in DOMAIN args : to_remove'[k] => Generated(k)'
      PROVE  Fresh'
  BY <1>c, <1>f DEF Fresh, LinksFreshIr, Generated
<1>1. CASE SkipArgument
  <2>1. \A k \in DOMAIN args : to_remove[k] => Generated(k)'
    <3>1. printing' = Empty
      BY <1>0, <1>1 DEF SkipArgument, In, Printing
    <3> QED
      BY <1>1, <1>b, <3>1 DEF SkipArgument, In, Generated
  <2>2. \A k \in DOMAIN args : to_remove[k] => k < i'
    BY <1>0, <1>1, <1>a DEF SkipArgument, In, Fresh
  <2> QED
    BY <1>1, <1>e, <1>f, <2>1, <2>2 DEF SkipArgument, In
<1>2. CASE GenerateIr
  <2>1. /\ i \in DOMAIN args /\ args[i] \in Source /\ new_argv[i] = args[i] /\ printing = Empty
        /\ fs' = Write(IrOf[args[i]], <<args[i], 0>>) /\ to_remove' = [to_remove EXCEPT ![i] = TRUE]
        /\ i' = i + 1 /\ pc' = pc /\ pc = "generate" /\ linked' = linked /\ printing' = printing
    BY <1>0, <1>2, <1>a, SourceArgument DEF GenerateIr, In, IsSourceFile, Printing
  <2>2. ASSUME NEW k \in DOMAIN args, to_remove'[k]
        PROVE  k < i' /\ Generated(k)'
    <3>1. CASE args[k] = args[i]
      <4>1. k < i'
        BY <1>0, <1>a, <2>1, <2>2 DEF Names, Fresh
      <4>2. IrOf[args[k]] \in DOMAIN fs' /\ fs'[IrOf[args[k]]] = <<args[k], 0>>
        BY <2>1, <3>1 DEF Write
      <4> QED
        BY <1>c, <2>1, <4>1, <4>2 DEF Generated
    <3>2. CASE args[k] # args[i]
      <4>1. to_remove[k] /\ args[k] \in Source
        BY <1>0, <2>1, <2>2, <3>2 DEF Names, Marks
      <4>2. k < i'
        BY <1>0, <1>a, <2>1, <4>1 DEF Fresh
      <4>3. IrOf[args[k]] # IrOf[args[i]]
        BY <2>1, <3>2, <4>1
      <4>4. Generated(k)
        BY <1>b, <2>1, <4>1
      <4>5. /\ IrOf[args[k]] \in DOMAIN fs' <=> IrOf[args[k]] \in DOMAIN fs
            /\ fs'[IrOf[args[k]]] = fs[IrOf[args[k]]] \/ IrOf[args[k]] \notin DOMAIN fs
        BY <2>1, <4>3 DEF Write
      <4> QED
        BY <1>c, <2>1, <4>2, <4>4, <4>5 DEF Generated
    <3> QED
      BY <3>1, <3>2
  <2> QED
    BY <1>e, <1>f, <2>1, <2>2
<1>3. CASE GenerateIrFails
  <2>1. /\ i \in DOMAIN args /\ args[i] \in Source /\ new_argv[i] = args[i] /\ printing = Empty
        /\ fs' \in {fs, Erase(IrOf[args[i]])} /\ to_remove' = to_remove
        /\ i' = i + 1 /\ pc' = pc /\ pc = "generate" /\ linked' = linked /\ printing' = printing
    BY <1>0, <1>3, <1>a, SourceArgument DEF GenerateIrFails, In, IsSourceFile, Printing
  <2>2. ASSUME NEW k \in DOMAIN args, to_remove[k]
        PROVE  k < i' /\ Generated(k)'
    <3>1. k < i /\ Generated(k) /\ args[k] \in Source
      BY <1>0, <1>b, <2>1, <2>2 DEF Fresh, Marks
    <3>2. CASE args[k] = args[i]
      <4>1. \E j \in k + 1 .. Len(args) : args[j] = args[k]
        BY <1>a, <2>1, <3>1, <3>2
      <4>2. IrOf[args[k]] \notin DOMAIN fs' \/ fs' = fs
        BY <2>1, <3>2 DEF Erase
      <4> QED
        BY <1>a, <1>c, <2>1, <3>1, <4>1, <4>2 DEF Generated
    <3>3. CASE args[k] # args[i]
      <4>1. IrOf[args[k]] # IrOf[args[i]]
        BY <2>1, <3>1, <3>3
      <4>2. /\ IrOf[args[k]] \in DOMAIN fs' <=> IrOf[args[k]] \in DOMAIN fs
            /\ IrOf[args[k]] \in DOMAIN fs => fs'[IrOf[args[k]]] = fs[IrOf[args[k]]]
        BY <2>1, <4>1 DEF Erase
      <4> QED
        BY <1>a, <1>c, <2>1, <3>1, <4>2 DEF Generated
    <3> QED
      BY <3>2, <3>3
  <2> QED
    BY <1>e, <1>f, <2>1, <2>2
<1>4. CASE NextPhase("generate", "instrument") \/ NextPhase("instrument", "link")
  <2>1. printing = Empty
    BY <1>0, <1>4, <1>a DEF NextPhase, Printing
  <2>2. \A k \in DOMAIN args : to_remove'[k] => Generated(k)'
    BY <1>4, <1>b, <1>c, <2>1 DEF NextPhase, Generated
  <2> QED
    BY <1>4, <1>e, <1>f, <2>2 DEF NextPhase
<1>5. CASE SkipInstrument
  <2>1. \A k \in DOMAIN args : to_remove'[k] => Generated(k)'
    BY <1>5, <1>b, <1>c DEF SkipInstrument, In, Generated
  <2> QED
    BY <1>5, <1>e, <1>f, <2>1 DEF SkipInstrument, In
<1>6. CASE OpenOutput
  <2>1. /\ new_argv[i] \in DOMAIN fs /\ fs[new_argv[i]] # Empty /\ printing'[1] = fs[new_argv[i]][1]
        /\ fs' = Write(new_argv[i], Empty) /\ new_argv' = new_argv /\ i' = i
        /\ pc' = pc /\ pc = "instrument" /\ to_remove' = to_remove /\ linked' = linked
    BY <1>0, <1>6 DEF OpenOutput, In, IsIrFile, Exists, Printing
  <2>2. ASSUME NEW k \in DOMAIN args, to_remove[k]
        PROVE  Generated(k)'
    <3>1. Generated(k)
      BY <1>b, <2>1, <2>2
    <3>2. CASE IrOf[args[k]] = new_argv[i]
      BY <1>c, <2>1, <3>1, <3>2 DEF Generated, Write
    <3>3. CASE IrOf[args[k]] # new_argv[i]
      BY <1>c, <2>1, <3>1, <3>3 DEF Generated, Write
    <3> QED
      BY <3>2, <3>3
  <2> QED
    BY <1>e, <1>f, <2>1, <2>2
<1>7. CASE PrintModule
  <2>1. /\ printing # Empty /\ fs' = Write(new_argv[i], printing) /\ new_argv' = new_argv /\ printing' = Empty
        /\ pc' = pc /\ pc = "instrument" /\ to_remove' = to_remove /\ linked' = linked
        /\ new_argv[i] \in DOMAIN fs'
    BY <1>7 DEF PrintModule, In, Write
  <2>2. ASSUME NEW k \in DOMAIN args, to_remove[k]
        PROVE  Generated(k)'
    <3>1. Generated(k)
      BY <1>b, <2>1, <2>2
    <3>2. CASE IrOf[args[k]] = new_argv[i]
      <4>1. IrOf[args[k]] \in DOMAIN fs
        BY <1>0, <2>1, <3>2 DEF Counted
      <4> QED
        BY <1>c, <2>1, <3>1, <3>2, <4>1 DEF Generated, Write
    <3>3. CASE IrOf[args[k]] # new_argv[i]
      BY <1>c, <2>1, <3>1, <3>3 DEF Generated, Write
    <3> QED
      BY <3>2, <3>3
  <2> QED
    BY <1>e, <1>f, <2>1, <2>2
<1>8. CASE Link
  <2>1. /\ linked' = [k \in DOMAIN new_argv |-> IF Exists(new_argv[k]) THEN fs[new_argv[k]] ELSE Empty]
        /\ pc' = "remove" /\ to_remove' = to_remove /\ printing = Empty /\ pc = "link"
    BY <1>0, <1>8 DEF Link, Printing
  <2>2. ASSUME NEW k \in DOMAIN args, to_remove[k]
        PROVE  \/ linked'[k][1] = args[k]
               \/ linked'[k] = Empty /\ \E j \in k + 1 .. Len(args) : args[j] = args[k]
    <3>1. Generated(k) /\ new_argv[k] = IrOf[args[k]]
      BY <1>0, <1>b, <2>1, <2>2 DEF Marks
    <3>2. IrOf[args[k]] \in DOMAIN fs => fs[IrOf[args[k]]] # Empty
      BY <1>0, <2>1 DEF Printing
    <3> QED
      BY <1>a, <2>1, <3>1, <3>2 DEF Generated, Exists
  <2>3. LinksFreshIr'
    BY <1>a, <1>c, <2>1, <2>2 DEF LinksFreshIr
  <2> QED
    BY <2>1, <2>3 DEF Fresh
<1>9. CASE RemoveIr \/ NextPhase("remove", "done") \/ Kill
  BY <1>9, <1>d DEF RemoveIr, NextPhase, Kill, In, Fresh, LinksFreshIr
<1>10. CASE UNCHANGED vars
  BY <1>0, <1>10 DEF vars, Fresh, LinksFreshIr
<1> QED
  BY <1>1, <1>2, <1>3, <1>4, <1>5, <1>6, <1>7, <1>8, <1>9, <1>10 DEF Next, Step, Terminating

LEMMA LinkInvariance == Spec => []LInv
<1>1. LInv /\ [Next]_vars => LInv'
  <2>1. LInv /\ [Next]_vars => IInv'
    BY Step_Typed, Step_Sources, Step_Spared DEF LInv, IInv
  <2> QED
    BY <2>1, Step_Counted, Step_Fresh DEF LInv
<1> QED
  BY Init_LInv, <1>1, PTL DEF Spec

\* Whatever names are repeated on the command line, a file is instrumented at most as
\* often as the link names it (lines 53-62).
THEOREM InstrumentedOncePerName == Spec => []InstrumentedAsNamed
<1>1. LInv => InstrumentedAsNamed
  BY DEF LInv, Counted, InstrumentedAsNamed, Places
<1> QED
  BY <1>1, LinkInvariance, PTL

\* What is linked for a source that compiled was generated from it in this run, also
\* when an IR file of its name was there, or is an argument too (lines 40-70).
THEOREM LinkedIrIsFresh == Spec => []LinksFreshIr
<1>1. LInv => LinksFreshIr
  BY DEF LInv, Fresh
<1> QED
  BY <1>1, LinkInvariance, PTL
=============================================================================
