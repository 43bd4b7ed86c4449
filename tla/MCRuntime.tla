------------------------------ MODULE MCRuntime ------------------------------
(* The allocator: a heap of 14 units of alignment 2 with headers of 2, at a   *)
(* base that is not aligned for the larger alignments, and up to three        *)
(* allocations.  Exit: two libraries, one static, a list of three entries     *)
(* that can fill up with inactive ones between active ones, and three         *)
(* registrations.  Streams: a buffer of two bytes under lines of up to three, *)
(* four calls of the program.  Library: arrays and strings of up to five      *)
(* elements, with equal keys.  One part runs, the others stand still.         *)
EXTENDS Heap, Exit, Streams, Library

VARIABLE part   \* "heap", "exit", "streams" or "library"

MCElements == [key : 0 .. 1, tag : 0 .. 1]

runtimeVars == <<part, vars, exitVars, streamVars, libraryVars>>
LibraryIdle == function = "strtok" /\ count = 1
RuntimeInit ==
  /\ part \in {"heap", "exit", "streams", "library"}
  /\ Init /\ ExitInit /\ StreamsInit /\ LibraryInit
  /\ part # "library" => LibraryIdle

HeapNext == part = "heap" /\ Next /\ UNCHANGED <<part, exitVars, streamVars, libraryVars>>
ExitPartNext == part = "exit" /\ ExitNext /\ UNCHANGED <<part, vars, streamVars, libraryVars>>
StreamsPartNext == part = "streams" /\ StreamsNext /\ UNCHANGED <<part, vars, exitVars, libraryVars>>
LibraryPartNext == part = "library" /\ LibraryNext /\ UNCHANGED <<part, vars, exitVars, streamVars>>

RuntimeNext == HeapNext \/ ExitPartNext \/ StreamsPartNext \/ LibraryPartNext
RuntimeSpec == RuntimeInit /\ [][RuntimeNext]_runtimeVars /\ ExitFairness
=============================================================================
