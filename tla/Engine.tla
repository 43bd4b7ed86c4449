------------------------------- MODULE Engine -------------------------------
(***************************************************************************)
(* The execution hook in the browser (debugger/engine.js) after the first  *)
(* stop of a session: the interpreter calls boundary before it executes an *)
(* instruction ("point"), and the methods below are called by requests     *)
(* that arrive between two slices of the interpreter.                      *)
(*                                                                         *)
(* Instruction breakpoints and steps only: what LLDB's target uses.        *)
(***************************************************************************)
EXTENDS Integers, Sequences, FiniteSets, SequencesExt

CONSTANTS Points, Entry   \* instructions; the one the session begins at

ASSUME EntryAssumption == Entry \in Points /\ 0 \notin Points

VARIABLES
  paused, running, mode, pauseRequested, instructionBreakpoints, skip,
  at,         \* the instruction the thread is about to execute
  executed,   \* history: instructions executed since it was resumed, 2 for more
  toServer    \* socket: answers and events

engineVars == <<paused, running, mode, pauseRequested, instructionBreakpoints, skip, at, executed>>

Message(type, id, where, reason) == [type |-> type, id |-> id, at |-> where, reason |-> reason]
Event(type, where, reason) == Message(type, 0, where, reason)

\* start has run with stopOnEntry and the entry was reached.
EngineInit ==
  /\ paused = TRUE /\ running = TRUE
  /\ mode = "entry" /\ pauseRequested = FALSE
  /\ instructionBreakpoints = {}
  /\ skip = 0
  /\ at = Entry
  /\ executed = 0

-----------------------------------------------------------------------------
\* Mutant: the instruction a resumed program stands on is never a reason to stop.
SkippedAlways(p) == skip = p /\ UNCHANGED skip

\* The stopped instruction is passed over once.
Skipped(p) == skip = p /\ skip' = 0

Reasons(p) ==
  {r \in {"breakpoint", "pause", "step"} :
     \/ r = "breakpoint" /\ p \in instructionBreakpoints
     \/ r = "pause" /\ pauseRequested
     \/ r = "step" /\ mode = "stepInstruction"}

\* A requested pause is reported before a breakpoint, and this before a step.
Reported(reasons) == IF "pause" \in reasons THEN "pause"
                     ELSE IF "breakpoint" \in reasons THEN "breakpoint" ELSE "step"

Stop(reason) ==
  /\ paused' = TRUE
  /\ pauseRequested' = FALSE
  /\ toServer' = Append(toServer, Event("stopped", at, reason))
  /\ UNCHANGED <<running, mode, instructionBreakpoints, at, executed>>

\* onStop: the runtime has no thread left, or the stop button was pressed.
OnStop ==
  /\ running
  /\ running' = FALSE
  /\ paused' = FALSE
  /\ toServer' = Append(toServer, Event("terminated", at, "exit"))
  /\ UNCHANGED <<mode, pauseRequested, instructionBreakpoints, at>>

\* The instruction is executed: the program goes on somewhere or ends.
Execute ==
  /\ executed' = IF executed = 0 THEN 1 ELSE 2
  /\ \/ /\ at' \in Points
        /\ UNCHANGED <<paused, running, mode, pauseRequested, instructionBreakpoints, toServer>>
     \/ OnStop

Boundary ==
  /\ running /\ ~paused
  /\ \/ Skipped(at) /\ Execute
     \/ /\ skip # at
        /\ IF Reasons(at) # {} THEN Stop(Reported(Reasons(at))) ELSE Execute
        /\ UNCHANGED skip

-----------------------------------------------------------------------------
\* Which resumptions are refused.
ResumeAllowed(m) == running /\ (m = "continue" \/ paused)

Resume(m) ==
  /\ ResumeAllowed(m)
  /\ mode' = m
  /\ pauseRequested' = FALSE
  /\ IF paused THEN skip' = at /\ paused' = FALSE /\ executed' = 0
     ELSE UNCHANGED <<skip, paused, executed>>
  /\ UNCHANGED <<running, instructionBreakpoints, at>>

Pause ==
  /\ IF running /\ ~paused THEN pauseRequested' = TRUE /\ mode' = "pause"
     ELSE UNCHANGED <<pauseRequested, mode>>
  /\ UNCHANGED <<paused, running, instructionBreakpoints, skip, at, executed>>

\* Mutant: the old breakpoints are not cleared.
SetIRBreakpointsUncleared(ps) ==
  /\ instructionBreakpoints' = instructionBreakpoints \cup ps
  /\ UNCHANGED <<paused, running, mode, pauseRequested, skip, at, executed>>

SetIRBreakpoints(ps) ==
  /\ instructionBreakpoints' = ps
  /\ UNCHANGED <<paused, running, mode, pauseRequested, skip, at, executed>>

Status == IF paused THEN "stopped" ELSE IF running THEN "running" ELSE "terminated"
=============================================================================
