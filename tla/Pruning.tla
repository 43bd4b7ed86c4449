------------------------------- MODULE Pruning -------------------------------
(***************************************************************************)
(* From a linked program to the definitions that are compiled (main.cpp,   *)
(* frontend.cpp reachable_values, prune.cpp).  What main reaches is read   *)
(* from LLVM and pruned once more; its float operations then name entries  *)
(* of the float runtime, and with the runtime linked and these as entry    *)
(* points, too, the program is read and pruned again.                      *)
(*                                                                         *)
(* Reachability is conservative: a reachable indirect call may call        *)
(* everything whose address some definition shows, even one that is not    *)
(* reachable and is removed.  The order of the worklist is left open.      *)
(* Then the program runs.                                                  *)
(***************************************************************************)
EXTENDS FiniteSets

CONSTANTS Functions, Globals, Aliases,   \* the names of definitions
          Runtime,                       \* of Functions, the float runtime's
          Main,
          Programs

\* A program has for every definition its direct callees and the addresses it
\* names, the functions with an indirect call, the runtime entries that a
\* function's float operations will call, and the definitions that start-up
\* and exit use.
Symbols == Functions \cup Globals \cup Aliases
Callable == Functions \cup Aliases
ASSUME ProgramAssumption ==
  /\ Runtime \subseteq Functions /\ Main \in Functions \ Runtime
  /\ \A p \in Programs :
       /\ p.callees \in [Symbols -> SUBSET Callable] /\ p.addresses \in [Symbols -> SUBSET Symbols]
       /\ p.indirect \subseteq Functions \ Runtime /\ p.floats \in [Functions -> SUBSET Runtime]
       /\ p.pinned \subseteq Globals \ Runtime
       \* the runtime's names are its own, and it computes with integers
       /\ \A x \in Symbols : LET refs == p.callees[x] \cup p.addresses[x] IN
            IF x \in Runtime THEN refs \subseteq Runtime ELSE refs \cap Runtime = {}
       /\ \A f \in Runtime : p.floats[f] = {}

VARIABLES program,
          stage,           \* "idle", "read", "prune" or "run"
          module,          \* the definitions there are
          entries,         \* of the runtime, when it is linked
          retained,        \* address_taken_retained of the pass before
          live, pending, indirect,
          entered, held    \* the run: definitions entered, addresses known

pass == <<live, pending, indirect>>
run == <<entered, held>>
pruningVars == <<program, stage, module, entries, retained, pass, run>>

\* Mutant: only what the definitions that are left show.
AddressShown == UNION {program.addresses[x] : x \in module} \cap Callable

\* What some definition shows, and what was taken for shown before, though the
\* definition that showed it may be gone.
AddressTaken ==
  (UNION {program.addresses[x] : x \in module} \cap Callable)
    \cup IF stage = "prune" THEN retained \cap module ELSE {}

\* Mutant: the entry points of the runtime are not roots.
RootsOfMain(dependencies) == {Main} \cup program.pinned

Roots(dependencies) == dependencies \cup {Main} \cup program.pinned
Dependencies(defs) == UNION {program.floats[f] : f \in defs \cap Functions}

Begin(name, defs, dependencies) ==
  /\ stage' = name /\ module' = defs /\ entries' = dependencies
  /\ live' = Roots(dependencies) \cap defs
  /\ pending' = live' /\ indirect' = FALSE

PruningInit ==
  /\ program \in Programs
  /\ stage = "idle" /\ module = {} /\ entries = {} /\ retained = {}
  /\ live = {} /\ pending = {} /\ indirect = FALSE
  /\ entered = {} /\ held = {}

Read ==
  /\ stage = "idle"
  /\ Begin("read", Symbols \ Runtime, {})
  /\ UNCHANGED <<program, retained, run>>

Visit ==
  \E name \in pending :
    LET found == ~indirect /\ name \in program.indirect
        marked == (program.callees[name] \cup program.addresses[name]
                     \cup IF found THEN AddressTaken ELSE {}) \cap module
    IN /\ live' = live \cup marked
       /\ pending' = (pending \ {name}) \cup (marked \ live)
       /\ indirect' = (indirect \/ found)
       /\ UNCHANGED <<program, stage, module, entries, retained, run>>

Finished(name) == stage = name /\ pending = {}
Retained == IF indirect THEN AddressTaken ELSE {}

\* The module that was read is pruned with the same roots.
Prune ==
  /\ Finished("read")
  /\ Begin("prune", live, entries)
  /\ retained' = Retained \cap live
  /\ UNCHANGED <<program, run>>

\* Float operations need the runtime: everything is read again.
Link ==
  /\ Finished("prune") /\ entries = {} /\ Dependencies(live) # {}
  /\ Begin("read", Symbols, Dependencies(live))
  /\ UNCHANGED <<program, retained, run>>

Compile ==
  /\ Finished("prune") /\ (entries # {} \/ Dependencies(live) = {})
  /\ stage' = "run" /\ module' = live
  /\ entered' = {Main} /\ held' = program.pinned
  /\ UNCHANGED <<program, entries, retained, pass>>

-----------------------------------------------------------------------------
(* The run: a function calls, a lowered float operation calls the runtime,   *)
(* an alias leads to what it stands for, start-up goes through its lists,    *)
(* and an indirect call goes to any address the program has come across.     *)
Enters(x) ==
  program.callees[x]
    \cup (IF x \in Functions THEN program.floats[x] ELSE {})
    \cup (IF x \in Aliases THEN program.addresses[x] ELSE {})
    \cup (IF x \in program.indirect THEN held \cap Callable ELSE {})

Enter ==
  /\ stage = "run"
  /\ \E x \in entered : \E y \in Enters(x) \ entered : entered' = entered \cup {y}
  /\ UNCHANGED <<program, stage, module, entries, retained, pass, held>>

StartUp ==
  /\ stage = "run"
  /\ \E g \in program.pinned : \E y \in program.addresses[g] \ entered : entered' = entered \cup {y}
  /\ UNCHANGED <<program, stage, module, entries, retained, pass, held>>

Learn ==
  /\ stage = "run"
  /\ \E x \in entered \cup (held \ Functions) :
       \E y \in program.addresses[x] \ held : held' = held \cup {y}
  /\ UNCHANGED <<program, stage, module, entries, retained, pass, entered>>

PruningNext == Read \/ Visit \/ Prune \/ Link \/ Compile \/ Enter \/ StartUp \/ Learn
PruningSpec == PruningInit /\ [][PruningNext]_pruningVars

-----------------------------------------------------------------------------
\* Whatever way a run takes, through calls, aliases, constructors, pointers in
\* initialisers and float operations, what it comes to is in the program
\* (prune.cpp:115, frontend.cpp:275, main.cpp:70-85).
RunsWhole == stage = "run" => entered \cup held \subseteq module

\* "pruning should be idempotent" (tests/prune_test.cpp:66), and it keeps what
\* LLVM-level reachability kept (tests/frontend_reachability_test.cpp:120):
\* when a module that has been pruned is analysed again, everything is live.
PrunesOnce == Finished("prune") => live = module
=============================================================================
