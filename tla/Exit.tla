-------------------------------- MODULE Exit --------------------------------
(***************************************************************************)
(* Termination in the target runtime (runtime.cpp): the list of exit       *)
(* handlers, guards of function-local statics, exit, quick_exit and the    *)
(* normal end.  Handlers, and constructors of statics, are code of the     *)
(* program: they may register further handlers, finalize and exit again.   *)
(*                                                                         *)
(* The one thread's call stack is explicit.  A handler is its number in    *)
(* the order of registration.                                              *)
(***************************************************************************)
EXTENDS Integers, Sequences, FiniteSets, SequencesExt

CONSTANTS Dsos, NullDso, \* what handlers are registered for
          Statics,       \* function-local static objects with a destructor
          HandlerCapacity, \* SCRATCH_ATEXIT_CAPACITY
          RegBound, MaxDepth \* bounds: registrations, the call stack

ASSUME ExitAssumption ==
  /\ NullDso \notin Dsos
  /\ HandlerCapacity \in Nat \ {0} /\ RegBound \in Nat /\ MaxDepth \in Nat

VARIABLES
  destructors,    \* the entries up to destructor_count: id, dso, active
  quick_handlers, \* ids
  guard,          \* per static: "new", "busy", "done"
  stack,          \* of frames; the last one runs
  status,         \* __scl_status: "running", "done", "error"
  registered,     \* history: ids given out; those accepted by each list
  accepted, quick,
  log             \* history: handlers called

exitVars == <<destructors, quick_handlers, guard, stack, status, registered, accepted, quick, log>>

Frame(kind, of) == [kind |-> kind, of |-> of]
Main == Frame("main", NullDso)
Top == Last(stack)
Replaced(f) == Append(Front(stack), f)

ExitInit ==
  /\ destructors = <<>> /\ quick_handlers = <<>>
  /\ guard = [o \in Statics |-> "new"]
  /\ stack = <<Main>>
  /\ status = "running"
  /\ registered = 0 /\ accepted = {} /\ quick = {} /\ log = <<>>

InProgram == status = "running" /\ Top.kind \in {"main", "handler", "static"}
Pushes == Len(stack) < MaxDepth

-----------------------------------------------------------------------------
\* Mutant: every trailing entry is given up with the inactive ones.
CompactedWhole(d) == IF d # <<>> /\ ~Last(d).active THEN <<>> ELSE d

\* Only inactive entries at the tail are given up.
Compacted(d) == SubSeq(d, 1, CHOOSE n \in 0..Len(d) :
  /\ n = 0 \/ d[n].active
  /\ \A i \in n + 1 .. Len(d) : ~d[i].active)

\* __cxa_atexit
CxaAtexit(dso) ==
  /\ registered' = registered + 1
  /\ IF Len(Compacted(destructors)) = HandlerCapacity
     THEN destructors' = Compacted(destructors) /\ UNCHANGED accepted
     ELSE /\ destructors' = Append(Compacted(destructors),
                                   [id |-> registered + 1, dso |-> dso, active |-> TRUE])
          /\ accepted' = accepted \cup {registered + 1}

\* atexit, or __cxa_atexit called for a library's object.
Register ==
  /\ InProgram /\ registered < RegBound
  /\ \E dso \in Dsos \cup {NullDso} : CxaAtexit(dso)
  /\ UNCHANGED <<quick_handlers, guard, stack, status, quick, log>>

AtQuickExit ==
  /\ InProgram
  /\ registered < RegBound
  /\ registered' = registered + 1
  /\ IF Len(quick_handlers) = HandlerCapacity THEN UNCHANGED <<quick_handlers, quick>>
     ELSE /\ quick_handlers' = Append(quick_handlers, registered + 1)
          /\ quick' = quick \cup {registered + 1}
  /\ UNCHANGED <<destructors, guard, stack, status, accepted, log>>

-----------------------------------------------------------------------------
\* __cxa_guard_acquire
Acquire(o) == IF guard[o] = "done" THEN "skip"
              ELSE IF guard[o] = "busy" THEN "abort" ELSE "construct"

\* Control reaches the declaration of a static.
ReachStatic ==
  /\ InProgram
  /\ \E o \in Statics :
       \/ Acquire(o) = "abort" /\ status' = "error" /\ UNCHANGED <<guard, stack>>
       \/ /\ Acquire(o) = "construct"
          /\ Pushes
          /\ guard' = [guard EXCEPT ![o] = "busy"]
          /\ stack' = Append(stack, Frame("static", o))
          /\ UNCHANGED status
  /\ UNCHANGED <<destructors, quick_handlers, registered, accepted, quick, log>>

\* The constructor returns: its destructor is registered, the guard released.
Constructed ==
  /\ InProgram /\ Top.kind = "static"
  /\ \E dso \in Dsos : CxaAtexit(dso)
  /\ guard' = [guard EXCEPT ![Top.of] = "done"]
  /\ stack' = Front(stack)
  /\ UNCHANGED <<quick_handlers, status, quick, log>>

-----------------------------------------------------------------------------
\* __cxa_finalize called by the program (tests/stdlib/finalize.cpp).
Finalize ==
  /\ InProgram /\ Pushes
  /\ \E dso \in Dsos \cup {NullDso} : stack' = Append(stack, Frame("finalize", dso))
  /\ UNCHANGED <<destructors, quick_handlers, guard, status, registered, accepted, quick, log>>

\* exit begins with __cxa_finalize(nullptr), whatever is running.
Exiting == stack' = Append(stack, Frame("exit", NullDso)) /\ UNCHANGED status

Exit ==
  /\ InProgram /\ Pushes
  /\ Exiting
  /\ UNCHANGED <<destructors, quick_handlers, guard, registered, accepted, quick, log>>

\* main returns; scratch_finalize is among the llvm.global_dtors.
MainReturns ==
  /\ InProgram /\ Top = Main
  /\ stack' = Replaced(Frame("exit", NullDso))
  /\ UNCHANGED <<destructors, quick_handlers, guard, status, registered, accepted, quick, log>>

QuickExit ==
  /\ InProgram /\ Pushes
  /\ stack' = Append(stack, Frame("quick", NullDso))
  /\ UNCHANGED <<destructors, quick_handlers, guard, status, registered, accepted, quick, log>>

Waiting(dso) ==
  {i \in 1..Len(destructors) : destructors[i].active /\ (dso # NullDso => destructors[i].dso = dso)}

\* Mutant: the oldest one first.
NextHandlerOldest(dso) == CHOOSE i \in Waiting(dso) : \A j \in Waiting(dso) : i <= j

NextHandler(dso) == CHOOSE i \in Waiting(dso) : \A j \in Waiting(dso) : j <= i

\* The entry is marked before its handler is called.
Taken(i) == destructors' = [destructors EXCEPT ![i].active = FALSE]

\* Mutant: the search ends when the list is empty.
NoneLeftInList(dso) == destructors = <<>>

NoneLeft(dso) == Waiting(dso) = {}

\* _Exit stops every thread, the running one included.
EndProgram == status' = "done" /\ UNCHANGED stack

\* One round of the loop of __cxa_finalize, from whichever frame it runs in.
FinalizeStep ==
  /\ status = "running" /\ Top.kind \in {"finalize", "exit"}
  /\ IF NoneLeft(Top.of)
     THEN /\ UNCHANGED <<destructors, log>>
          /\ IF Top.kind = "exit" THEN EndProgram
             ELSE stack' = Front(stack) /\ UNCHANGED status
     ELSE /\ Waiting(Top.of) # {}
          /\ LET i == NextHandler(Top.of) IN
             /\ Taken(i)
             /\ log' = Append(log, destructors[i].id)
             /\ stack' = Append(stack, Frame("handler", Top.of))
          /\ UNCHANGED status
  /\ UNCHANGED <<quick_handlers, guard, registered, accepted, quick>>

\* One round of quick_exit's loop.
QuickStep ==
  /\ status = "running" /\ Top.kind = "quick"
  /\ IF quick_handlers = <<>> THEN EndProgram /\ UNCHANGED <<quick_handlers, log>>
     ELSE /\ quick_handlers' = Front(quick_handlers)
          /\ log' = Append(log, Last(quick_handlers))
          /\ stack' = Append(stack, Frame("handler", NullDso))
          /\ UNCHANGED status
  /\ UNCHANGED <<destructors, guard, registered, accepted, quick>>

HandlerReturns ==
  /\ InProgram /\ Top.kind = "handler"
  /\ stack' = Front(stack)
  /\ UNCHANGED <<destructors, quick_handlers, guard, status, registered, accepted, quick, log>>

ExitNext == \/ Register \/ AtQuickExit \/ ReachStatic \/ Constructed \/ Finalize \/ Exit
        \/ MainReturns \/ QuickExit \/ FinalizeStep \/ QuickStep \/ HandlerReturns

\* The runtime's loops go on, and what they call returns in the end.
ExitFairness == WF_exitVars(FinalizeStep \/ QuickStep) /\ SF_exitVars(HandlerReturns) /\ SF_exitVars(Constructed)
ExitSpec == ExitInit /\ [][ExitNext]_exitVars /\ ExitFairness

-----------------------------------------------------------------------------
Entries == [id : Nat, dso : Dsos \cup {NullDso}, active : BOOLEAN]
ExitTypeOK ==
  /\ destructors \in Seq(Entries) /\ quick_handlers \in Seq(Nat) /\ log \in Seq(Nat)
  /\ Len(destructors) <= HandlerCapacity /\ Len(quick_handlers) <= HandlerCapacity
  /\ guard \in [Statics -> {"new", "busy", "done"}]
  /\ stack # <<>> /\ status \in {"running", "done", "error"}
  /\ registered \in Nat /\ accepted \cup quick \subseteq 1 .. registered
  /\ ToSet(log) \subseteq accepted \cup quick

\* No handler is called twice, however finalizations nest (README of the
\* runtime: registering in callbacks and finalizing again never repeat an entry).
OnceEach == IsInjective(log)

\* Whatever way the program ends, exit has called every handler that was
\* accepted, those registered while it ran included; quick_exit calls none but its own.
ExitRunsAll ==
  status = "done" => IF Top.kind = "exit" THEN accepted \subseteq ToSet(log) ELSE quick \subseteq ToSet(log)

\* A handler accepted but not called yet is still in the list.
NoneForgotten == accepted \ ToSet(log) \subseteq {destructors[i].id : i \in Waiting(NullDso)}

CallsLatest ==
  (log' # log /\ Top.kind # "quick") => \A i \in Waiting(Top.of) : destructors[i].id <= Last(log')

\* Later registrations are called first: none that waits, and that the same
\* finalization would call, is younger than the one called.
LatestFirst == [][CallsLatest]_exitVars

\* A static is never constructed while it is being constructed, and once
\* constructed never again.
ConstructedOnce ==
  /\ \A i, j \in 1..Len(stack) : i # j /\ stack[i].kind = "static" => stack[i] # stack[j]
  /\ \A i \in 1..Len(stack) : stack[i].kind = "static" => guard[stack[i].of] = "busy"

\* Every accepted handler is called once in the end, and none before its time;
\* a static is constructed once, and not while it is being constructed.
EachRunsOnce == ExitTypeOK /\ OnceEach /\ ExitRunsAll /\ NoneForgotten /\ ConstructedOnce

\* A program that has begun to exit ends.
ExitEnds == (\E i \in 1..Len(stack) : stack[i].kind \in {"exit", "quick"}) ~> status # "running"
=============================================================================
