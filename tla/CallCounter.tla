---------------------------- MODULE CallCounter ----------------------------
(***************************************************************************)
(* src/llvm-tutor/dynamic_call_counter/dynamic_call_counter.cc: the tool   *)
(* puts, at the head of every function a module defines, code that counts  *)
(* its calls in a global i32, and a destructor, printf_wrapper, that       *)
(* prints the counts.  The module models both halves: the passes over the  *)
(* module (the tool rewrites its input, so it may meet its own output) and *)
(* the threads of the instrumented program.  printf is the one of libc: a  *)
(* module that defines it is not covered.                                  *)
(***************************************************************************)
EXTENDS Integers, FiniteSets

CONSTANTS
  Func,        \* the functions of the module, defined or declared
  Thread,      \* the threads of the program (or the signal handlers)
  First,       \* the one that runs main and the destructors
  Modulus,     \* where a counter wraps: 2^32 in the code, an i32
  MaxPasses,   \* bound: how often the tool is run
  MaxCalls     \* bound: the calls that a thread makes

Idle == "idle"

ASSUME ConstantsAssumption ==
  /\ Idle \notin Func
  /\ First \in Thread
  /\ Modulus \in Nat \ {0} /\ MaxPasses \in Nat /\ MaxCalls \in Nat

VARIABLES
  defined,     \* the functions with a body
  incs,        \* how many increments the head of each function has
  reports,     \* what the reachable block of printf_wrapper prints
  dtors,       \* how often llvm.global_dtors lists printf_wrapper
  phase,       \* "build", "run", "exit" or "over"
  counter,     \* the global counter_for_<function>
  at,          \* the function at whose head a thread is, or Idle
  todo,        \* the increments it still has to do there
  reg,         \* the counter value it has loaded, -1 if none
  calls,       \* history: how often each function was entered
  made,        \* bound: the calls of each thread
  raced,       \* history: counters stored to while another thread held their value
  left,        \* the functions the running destructor still has to print
  printed      \* history: the counts printed last

build == <<defined, incs, reports, dtors>>
run == <<counter, at, todo, reg, calls, made, raced>>
vars == <<build, phase, run, left, printed>>

Init ==
  /\ defined \in SUBSET Func
  /\ incs = [f \in Func |-> 0]
  /\ reports = {}
  /\ dtors = 0
  /\ phase = "build"
  /\ counter = [f \in Func |-> 0]
  /\ at = [t \in Thread |-> Idle]
  /\ todo = [t \in Thread |-> 0]
  /\ reg = [t \in Thread |-> -1]
  /\ calls = [f \in Func |-> 0]
  /\ made = [t \in Thread |-> 0]
  /\ raced = {}
  /\ left = {}
  /\ printed = [f \in {} |-> 0]

-----------------------------------------------------------------------------
(* The tool.                                                               *)

\* RunOnModule.  Nothing is done to a module without definitions.  Run on its own
\* output, the tool adds a second increment to each function and a second entry to
\* the destructors; what it adds to printf_wrapper is a block nothing jumps to.
\* (printf_wrapper then counts itself too, in a counter nothing prints.)
RunOnModule ==
  /\ phase = "build"
  /\ dtors < MaxPasses
  /\ defined # {}
  /\ incs' = [f \in Func |-> IF f \in defined THEN incs[f] + 1 ELSE incs[f]]
  /\ reports' = IF dtors = 0 THEN defined ELSE reports
  /\ dtors' = dtors + 1
  /\ UNCHANGED <<defined, phase, run, left, printed>>

\* The program is linked and started.
Start ==
  /\ phase = "build"
  /\ phase' = "run"
  /\ UNCHANGED <<build, run, left, printed>>

-----------------------------------------------------------------------------
(* The instrumented program.                                               *)

Running == phase \in {"run", "exit"}

\* The head is the target of a loop: it runs again without a call.
Call_bug(t, f) ==
  /\ Running /\ (t = First => phase = "run")
  /\ at[t] = Idle
  /\ made[t] < MaxCalls
  /\ made' = [made EXCEPT ![t] = @ + 1]
  /\ \E again \in {0, 1} : calls' = [calls EXCEPT ![f] = @ + again]
  /\ at' = [at EXCEPT ![t] = IF incs[f] > 0 THEN f ELSE Idle]
  /\ todo' = [todo EXCEPT ![t] = incs[f]]
  /\ UNCHANGED <<build, phase, counter, reg, raced, left, printed>>

\* A thread enters a function; the increments come first, before any other call.
Call(t, f) ==
  /\ Running /\ (t = First => phase = "run")
  /\ at[t] = Idle
  /\ made[t] < MaxCalls
  /\ made' = [made EXCEPT ![t] = @ + 1]
  /\ calls' = [calls EXCEPT ![f] = @ + 1]
  /\ at' = [at EXCEPT ![t] = IF incs[f] > 0 THEN f ELSE Idle]
  /\ todo' = [todo EXCEPT ![t] = incs[f]]
  /\ UNCHANGED <<build, phase, counter, reg, raced, left, printed>>

\* load i32, i32* @counter_for_f
LoadCounter(t) ==
  /\ Running /\ at[t] # Idle /\ reg[t] = -1
  /\ reg' = [reg EXCEPT ![t] = counter[at[t]]]
  /\ UNCHANGED <<build, phase, counter, at, todo, calls, made, raced, left, printed>>

\* Counts in more bits than the global has.
Incremented_wide(t) == reg[t] + 1

\* Sticks at the largest value.
Incremented_bug(t) == IF reg[t] = Modulus - 1 THEN reg[t] ELSE reg[t] + 1

\* Puts the value back as it was loaded.
Incremented_none(t) == reg[t]

\* add i32 1, %load: wraps at the width of the counter.
Incremented(t) == (reg[t] + 1) % Modulus

\* store: the counter gets the value computed from what was loaded, whatever other
\* threads have stored since.
StoreCounter(t) ==
  /\ Running /\ at[t] # Idle /\ reg[t] # -1
  /\ counter' = [counter EXCEPT ![at[t]] = Incremented(t)]
  /\ raced' = IF \E u \in Thread \ {t} : at[u] = at[t] /\ reg[u] # -1
              THEN raced \cup {at[t]} ELSE raced
  /\ reg' = [reg EXCEPT ![t] = -1]
  /\ todo' = [todo EXCEPT ![t] = @ - 1]
  /\ at' = [at EXCEPT ![t] = IF todo[t] = 1 THEN Idle ELSE @]
  /\ UNCHANGED <<build, phase, calls, made, left, printed>>

\* Leaves before an increment is stored.
Exit_bug ==
  /\ phase = "run"
  /\ phase' = "exit"
  /\ left' = IF dtors > 0 THEN reports ELSE {}
  /\ UNCHANGED <<build, run, printed>>

\* main returns or calls exit: the destructors run, on First, while the other
\* threads go on.
Exit ==
  /\ phase = "run" /\ at[First] = Idle
  /\ phase' = "exit"
  /\ left' = IF dtors > 0 THEN reports ELSE {}
  /\ UNCHANGED <<build, run, printed>>

\* printf_wrapper loads and prints the counters one by one, in the order of a
\* StringMap.
PrintCount(f) ==
  /\ phase = "exit" /\ f \in left
  /\ printed' = [g \in DOMAIN printed \cup {f} |-> IF g = f THEN counter[f] ELSE printed[g]]
  /\ left' = left \ {f}
  /\ UNCHANGED <<build, phase, run>>

\* The last function of the map is left out.
EndDtor_bug ==
  /\ phase = "exit" /\ Cardinality(left) <= 1
  /\ dtors' = IF dtors > 0 THEN dtors - 1 ELSE 0
  /\ phase' = IF dtors > 1 THEN "exit" ELSE "over"
  /\ left' = IF dtors > 1 THEN reports ELSE {}
  /\ UNCHANGED <<defined, incs, reports, run, printed>>

\* A destructor is done: the next one prints again, and after the last the process,
\* with every thread, is over.
EndDtor ==
  /\ phase = "exit" /\ left = {}
  /\ dtors' = IF dtors > 0 THEN dtors - 1 ELSE 0
  /\ phase' = IF dtors > 1 THEN "exit" ELSE "over"
  /\ left' = IF dtors > 1 THEN reports ELSE {}
  /\ UNCHANGED <<defined, incs, reports, run, printed>>

Terminating == phase = "over" /\ UNCHANGED vars

Next ==
  \/ RunOnModule \/ Start \/ Exit \/ EndDtor \/ Terminating
  \/ \E t \in Thread : LoadCounter(t) \/ StoreCounter(t) \/ \E f \in Func : Call(t, f)
  \/ \E f \in Func : PrintCount(f)

Spec == Init /\ [][Next]_vars
FairSpec == Spec /\ WF_vars(Exit) /\ WF_vars(EndDtor) /\ WF_vars(\E f \in Func : PrintCount(f))
              /\ \A t \in Thread : WF_vars(LoadCounter(t) \/ StoreCounter(t))

-----------------------------------------------------------------------------
(* Properties.                                                             *)

\* A thread holds a loaded value only at the head of a function, and stays there
\* exactly as long as increments are left.
TypeOK ==
  /\ defined \subseteq Func /\ reports \subseteq defined
  /\ incs \in [Func -> Nat] /\ dtors \in Nat
  /\ phase \in {"build", "run", "exit", "over"}
  /\ counter \in [Func -> 0 .. Modulus - 1]
  /\ at \in [Thread -> Func \cup {Idle}]
  /\ todo \in [Thread -> Nat]
  /\ \A t \in Thread : at[t] # Idle <=> todo[t] > 0
  /\ reg \in [Thread -> -1 .. Modulus - 1]
  /\ \A t \in Thread : at[t] = Idle => reg[t] = -1
  /\ calls \in [Func -> Nat] /\ made \in [Thread -> Nat]
  /\ raced \subseteq Func /\ left \subseteq reports /\ DOMAIN printed \subseteq reports
  /\ \A f \in DOMAIN printed : printed[f] \in 0 .. Modulus - 1

Quiet(f) == \A t \in Thread : at[t] # f

\* What the tool put into f by one run over the module is executed once for every
\* call: the counter is the number of calls, times the runs of the tool, at the
\* width of an i32; only two threads within lines 72-75 at once can make it less.
ExactUnlessRaced ==
  \A f \in Func \ raced : Quiet(f) => counter[f] = (incs[f] * calls[f]) % Modulus

\* Racing threads lose calls but never invent any.
NeverOvercounts == \A f \in Func : counter[f] <= incs[f] * calls[f]

\* However the increments of the threads are interleaved, a function that was
\* called is not reported as never called, if its counter cannot have wrapped.
CalledNotZero ==
  \A f \in Func : Quiet(f) /\ incs[f] * calls[f] \in 1 .. Modulus - 1 => counter[f] > 0

\* A program with one thread prints its exact counts: every increment comes before
\* the destructor's load, and what a second destructor prints is the same again.
OneThreadPrintsExactly ==
  (\A t \in Thread \ {First} : made[t] = 0) =>
    \A f \in DOMAIN printed : printed[f] = (incs[f] * calls[f]) % Modulus

\* Once main has returned, every function the first run of the tool found defined is
\* printed before the process is over, even while other threads go on calling.
EveryFunctionReported ==
  (phase = "exit" /\ dtors > 0) ~> (phase = "over" /\ DOMAIN printed = reports)
=============================================================================
