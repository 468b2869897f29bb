----------------------------- MODULE McwWrapper -----------------------------
(***************************************************************************)
(* The compiler wrapper src/work/work4/my_clang_wrapper.cc: it compiles    *)
(* the C files among its arguments to IR next to them, instruments every   *)
(* IR file among the arguments in place, links what is there now with      *)
(* clang, and removes the IR it made.  The file system is shared with the  *)
(* user, and the process may be killed between any two steps.              *)
(* Execute puts the arguments on one line for a shell: they are taken to   *)
(* be words that a shell leaves as they are.                               *)
(***************************************************************************)
EXTENDS Integers, SequencesExt

CONSTANTS
  Source,    \* names that end in .c
  Ir,        \* names that end in .ll
  Option,    \* any other argument
  IrOf,      \* the name GenerateIr writes for a source: x.c |-> x.ll
  MaxArgs    \* bound: how many arguments

File == Source \cup Ir

ASSUME NameAssumption ==
  /\ Source \cap Ir = {} /\ Option \cap File = {}
  /\ Source \cap {"user", "nobody"} = {}
  /\ IrOf \in [Source -> Ir]
  /\ \A s, t \in Source : IrOf[s] = IrOf[t] => s = t
  /\ MaxArgs \in Nat \ {0}

(***************************************************************************)
(* What a file holds: who wrote it (the user, or GenerateIr from a source) *)
(* and how often it was instrumented; Empty after raw_fd_ostream has       *)
(* truncated it and before the module is printed.                          *)
(***************************************************************************)
Mine == <<"user", 0>>
Empty == <<"nobody", 0>>
Content == (({"user"} \cup Source) \X Nat) \cup {Empty}

VARIABLES
  args,        \* the arguments, argv[1..]
  before,      \* the files of the user when the wrapper starts
  fs,          \* file name |-> content, for the files that exist
  new_argv,
  to_remove,
  i,           \* the loop variable of main
  pc,          \* where main is
  printing,    \* the content Instrument is about to print
  linked       \* history: what each argument of the final clang named then

vars == <<args, before, fs, new_argv, to_remove, i, pc, printing, linked>>

Exists(name) == name \in DOMAIN fs           \* access(name, R_OK) == 0
IsSourceFile(name) == name \in Source /\ Exists(name)
IsIrFile(name) == name \in Ir /\ Exists(name)

Write(name, c) == [f \in DOMAIN fs \cup {name} |-> IF f = name THEN c ELSE fs[f]]
Erase(name) == [f \in DOMAIN fs \ {name} |-> fs[f]]

Init ==
  /\ args \in BoundedSeq(File \cup Option, MaxArgs) \ {<< >>}
  /\ before \in SUBSET File
  /\ fs = [f \in before |-> Mine]
  /\ new_argv = args
  /\ to_remove = [k \in DOMAIN args |-> FALSE]
  /\ i = 1
  /\ pc = "generate"
  /\ printing = Empty
  /\ linked = << >>

\* The arguments of a loop are done: the next phase starts over.
NextPhase(from, to) ==
  /\ pc = from
  /\ i > Len(new_argv)
  /\ pc' = to
  /\ i' = 1
  /\ UNCHANGED <<args, before, fs, new_argv, to_remove, printing, linked>>

In(phase) == pc = phase /\ i <= Len(new_argv)

-----------------------------------------------------------------------------
(* The first loop: sources to IR.                                          *)

SkipArgument ==
  /\ In("generate") /\ ~IsSourceFile(new_argv[i])
  /\ i' = i + 1
  /\ UNCHANGED <<args, before, fs, new_argv, to_remove, pc, printing, linked>>

\* Uses an x.ll that is there already.
GenerateIr_stale ==
  /\ In("generate") /\ IsSourceFile(new_argv[i])
  /\ LET ll_filename == IrOf[new_argv[i]] IN
       /\ fs' = IF Exists(ll_filename) THEN fs ELSE Write(ll_filename, <<new_argv[i], 0>>)
       /\ new_argv' = [new_argv EXCEPT ![i] = ll_filename]
  /\ to_remove' = [to_remove EXCEPT ![i] = TRUE]
  /\ i' = i + 1
  /\ UNCHANGED <<args, before, pc, printing, linked>>

\* clang -S -emit-llvm x.c -o x.ll, over whatever x.ll was.
GenerateIr ==
  /\ In("generate") /\ IsSourceFile(new_argv[i])
  /\ LET ll_filename == IrOf[new_argv[i]] IN
       /\ fs' = Write(ll_filename, <<new_argv[i], 0>>)
       /\ new_argv' = [new_argv EXCEPT ![i] = ll_filename]
  /\ to_remove' = [to_remove EXCEPT ![i] = TRUE]
  /\ i' = i + 1
  /\ UNCHANGED <<args, before, pc, printing, linked>>

\* Marks the argument before it knows that clang succeeded.
GenerateIrFails_bug ==
  /\ In("generate") /\ IsSourceFile(new_argv[i])
  /\ to_remove' = [to_remove EXCEPT ![i] = TRUE]
  /\ i' = i + 1
  /\ UNCHANGED <<args, before, fs, new_argv, pc, printing, linked>>

\* clang does not compile the source: the source itself goes on to the link.  clang
\* may have removed its output file.
GenerateIrFails ==
  /\ In("generate") /\ IsSourceFile(new_argv[i])
  /\ fs' \in {fs, Erase(IrOf[new_argv[i]])}
  /\ i' = i + 1
  /\ UNCHANGED <<args, before, new_argv, to_remove, pc, printing, linked>>

-----------------------------------------------------------------------------
(* The second loop: instrument in place.                                   *)

\* The argument is no IR file, or Instrument finds that the module does not parse
\* or does not verify: main goes on, whichever it is.
SkipInstrument ==
  /\ In("instrument") /\ printing = Empty
  /\ i' = i + 1
  /\ UNCHANGED <<args, before, fs, new_argv, to_remove, pc, printing, linked>>

\* Instrument has read the module and run RunOnModule on it; opening the output
\* truncates the file.
OpenOutput ==
  /\ In("instrument") /\ printing = Empty
  /\ IsIrFile(new_argv[i])
  /\ printing' = <<fs[new_argv[i]][1], fs[new_argv[i]][2] + 1>>
  /\ fs' = Write(new_argv[i], Empty)
  /\ UNCHANGED <<args, before, new_argv, to_remove, i, pc, linked>>

\* Forgets to step to the next argument.
PrintModule_bug ==
  /\ In("instrument") /\ printing # Empty
  /\ fs' = Write(new_argv[i], printing)
  /\ printing' = Empty
  /\ UNCHANGED <<args, before, new_argv, to_remove, i, pc, linked>>

PrintModule ==
  /\ In("instrument") /\ printing # Empty
  /\ fs' = Write(new_argv[i], printing)
  /\ printing' = Empty
  /\ i' = i + 1
  /\ UNCHANGED <<args, before, new_argv, to_remove, pc, linked>>

-----------------------------------------------------------------------------
(* The link and the removal.                                               *)

\* clang with the new arguments and the run-time library; its result is ignored.
Link ==
  /\ pc = "link"
  /\ linked' = [k \in DOMAIN new_argv |->
                  IF Exists(new_argv[k]) THEN fs[new_argv[k]] ELSE Empty]
  /\ pc' = "remove"
  /\ UNCHANGED <<args, before, fs, new_argv, to_remove, i, printing>>

\* Leaves the first argument alone.
RemoveIr_bug ==
  /\ In("remove")
  /\ fs' = IF to_remove[i] /\ i > 1 THEN Erase(new_argv[i]) ELSE fs
  /\ i' = i + 1
  /\ UNCHANGED <<args, before, new_argv, to_remove, pc, printing, linked>>

\* Removes every IR file that was linked.
RemoveIr_all ==
  /\ In("remove")
  /\ fs' = IF IsIrFile(new_argv[i]) THEN Erase(new_argv[i]) ELSE fs
  /\ i' = i + 1
  /\ UNCHANGED <<args, before, new_argv, to_remove, pc, printing, linked>>

\* rm on the marked arguments; rm of a file already removed only complains.
RemoveIr ==
  /\ In("remove")
  /\ fs' = IF to_remove[i] THEN Erase(new_argv[i]) ELSE fs
  /\ i' = i + 1
  /\ UNCHANGED <<args, before, new_argv, to_remove, pc, printing, linked>>

\* The process is killed (the user interrupts clang).
Kill ==
  /\ pc \notin {"done", "killed"}
  /\ pc' = "killed"
  /\ UNCHANGED <<args, before, fs, new_argv, to_remove, i, printing, linked>>

Terminating == pc \in {"done", "killed"} /\ UNCHANGED vars

Step ==
  \/ SkipArgument \/ GenerateIr \/ GenerateIrFails \/ NextPhase("generate", "instrument")
  \/ SkipInstrument \/ OpenOutput \/ PrintModule \/ NextPhase("instrument", "link")
  \/ Link \/ RemoveIr \/ NextPhase("remove", "done")

Next == Step \/ Kill \/ Terminating

Spec == Init /\ [][Next]_vars
FairSpec == Spec /\ WF_vars(Step)
-----------------------------------------------------------------------------
(* Properties.                                                             *)

\* An argument is marked for removal only once it names IR.
TypeOK ==
  /\ fs \in [DOMAIN fs -> Content] /\ DOMAIN fs \subseteq File
  /\ DOMAIN new_argv = DOMAIN args
  /\ \A k \in DOMAIN args : /\ new_argv[k] = IF to_remove[k] THEN IrOf[args[k]] ELSE args[k]
                            /\ to_remove[k] => args[k] \in Source
  /\ i \in 1 .. Len(args) + 1
  /\ pc \in {"generate", "instrument", "link", "remove", "done", "killed"}
  /\ printing \in Content
  /\ linked = << >> \/ linked \in [DOMAIN args -> Content]

\* Whatever fails, and whenever the process is killed, no C file of the user is
\* removed, written or made: main hands sources to rm's loop by name, and only the
\* mark keeps them apart from generated IR.
SourcesKept ==
  \A s \in Source : /\ Exists(s) <=> s \in before
                    /\ Exists(s) => fs[s] = Mine

Named(s) == \E k \in DOMAIN args : args[k] = s

\* IR of the user is still there, and is what is linked, unless its C file is also
\* an argument (then GenerateIr overwrites it and rm removes it) or the process
\* was killed while printing it.
UserIrSurvives ==
  \A f \in Ir \cap before : (\A s \in Source : IrOf[s] = f => ~Named(s)) =>
    /\ Exists(f)
    /\ fs[f] = Empty => printing # Empty
    /\ fs[f] # Empty => fs[f][1] = "user"
    /\ \A k \in DOMAIN linked : args[k] = f => linked[k] # Empty /\ linked[k][1] = "user"

\* A file is instrumented at most as often as the link names it: once, unless the
\* same name, or a source and its IR, are both arguments.  (A second
\* instrumentation makes a second __mcw_area_ptr, which the linker cannot find.)
InstrumentedAsNamed ==
  \A k \in DOMAIN linked : linked[k] # Empty =>
    linked[k][2] <= Cardinality({j \in DOMAIN new_argv : new_argv[j] = new_argv[k]})

\* The link gets, at the place of each source that compiled, IR generated from that
\* very source in this run, whatever IR of that name the user had; or none, if the
\* same source is an argument once more and did not compile then.
LinksFreshIr ==
  \A k \in DOMAIN linked : to_remove[k] =>
    \/ linked[k][1] = args[k]
    \/ linked[k] = Empty /\ \E j \in k + 1 .. Len(args) : args[j] = args[k]

\* IR the wrapper made is removed in the end unless the process is killed.
GeneratedIrRemoved ==
  \A f \in Ir : (Exists(f) /\ f \notin before) ~> (~Exists(f) \/ pc = "killed")
=============================================================================
