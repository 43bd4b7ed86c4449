------------------------------ MODULE Terminal -------------------------------
(***************************************************************************)
(* The terminal debugger (debugger/cli.cjs, TerminalDebugger) once it is   *)
(* ready, and LLDB behind it (debugger/scratch-debug.cjs, LldbConnection). *)
(* Commands are executed one after another; the events of LLDB come        *)
(* between, and the stop that a command causes may be told before or after *)
(* the command is answered.  A request may fail, or not be answered in     *)
(* time.                                                                   *)
(***************************************************************************)
EXTENDS Integers, Sequences

CONSTANTS ControlBound, LateRequests   \* bounds: commands entered, requests answered too late

VARIABLES
  state, stopSerial,   \* TerminalDebugger
  commands,            \* commandQueue: those not begun
  request,             \* the pending request, 0 if none
  previous, before,    \* previousState, before
  nextSeq,             \* LldbConnection.seq
  toLldb, fromLldb,    \* requests; responses and events
  target,              \* the program: "stopped", "running" or "terminated"
  unanswered,          \* LLDB: requests it has acted on, with the outcome
  entered, expired,    \* commands and timeouts so far
  mistaken             \* a resumption was taken as failed because its answer was late

executeVars == <<request, previous, before, nextSeq>>
countVars == <<entered, expired, mistaken>>
terminalVars == <<state, stopSerial, commands, executeVars, toLldb, fromLldb, target, unanswered, countVars>>

Controls == {"continue", "next", "pause"}   \* "stepIn" and "stepOut" are handled as "next"

TerminalInit ==
  /\ state = "stopped" /\ stopSerial = 1 /\ commands = <<>>
  /\ request = 0 /\ previous = "stopped" /\ before = 0 /\ nextSeq = 1
  /\ toLldb = <<>> /\ fromLldb = <<>> /\ target = "stopped" /\ unanswered = <<>>
  /\ entered = 0 /\ expired = 0 /\ mistaken = FALSE

-----------------------------------------------------------------------------
\* submit
Submit(command) ==
  /\ entered < ControlBound /\ state # "terminated"
  /\ commands' = Append(commands, command)
  /\ entered' = entered + 1
  /\ UNCHANGED <<state, stopSerial, executeVars, toLldb, fromLldb, target, unanswered, expired, mistaken>>

\* requireStopped; there is nothing to pause in a stopped program.
Refused(command) == IF command = "pause" THEN state = "stopped" ELSE state # "stopped"

StateWhileRequested(command) == IF command = "pause" THEN state ELSE "running"

\* execute, up to its request: a resumption is taken to succeed.
ExecuteCommand ==
  /\ commands # <<>> /\ request = 0 /\ state # "terminated"
  /\ commands' = Tail(commands)
  /\ IF Refused(Head(commands)) THEN UNCHANGED <<state, executeVars, toLldb>>
     ELSE /\ before' = stopSerial /\ previous' = state
          /\ state' = StateWhileRequested(Head(commands))
          /\ toLldb' = Append(toLldb, [seq |-> nextSeq, command |-> Head(commands)])
          /\ request' = nextSeq /\ nextSeq' = nextSeq + 1
  /\ UNCHANGED <<stopSerial, fromLldb, target, unanswered, countVars>>

\* Mutant: a stop that came before the failure is forgotten.
StateAfterAnyFailure == previous

StateAfterFailure == IF stopSerial = before THEN previous ELSE state

\* The rest of execute, when the request is answered or has failed.
RequestSettled(success) ==
  /\ request' = 0
  /\ state' = IF success THEN state ELSE StateAfterFailure

\* LldbConnection.read: a response to the pending request, or an event (onEvent).
Receive ==
  /\ fromLldb # <<>> /\ state # "terminated"
  /\ fromLldb' = Tail(fromLldb)
  /\ LET m == Head(fromLldb) IN
     \/ /\ m.type = "response"
        /\ IF m.seq = request THEN RequestSettled(m.success) ELSE UNCHANGED <<request, state>>
        /\ UNCHANGED stopSerial
     \/ /\ m.type = "stopped"
        /\ state' = "stopped" /\ stopSerial' = stopSerial + 1
        /\ UNCHANGED request
     \/ /\ m.type = "continued" \/ m.type = "terminated"
        /\ state' = IF m.type = "continued" THEN "running" ELSE "terminated"
        /\ UNCHANGED <<request, stopSerial>>
  /\ UNCHANGED <<commands, previous, before, nextSeq, toLldb, target, unanswered, countVars>>

\* The timer of the request: its answer may still come.
Expires ==
  /\ request # 0 /\ state # "terminated" /\ expired < LateRequests
  /\ RequestSettled(FALSE)
  /\ expired' = expired + 1
  /\ mistaken' = (mistaken \/ (state = "running" /\ previous = "stopped"))
  /\ UNCHANGED <<stopSerial, commands, previous, before, nextSeq, toLldb, fromLldb, target, unanswered, entered>>

-----------------------------------------------------------------------------
\* LLDB: acts on a request or fails, and answers it in its own time; it may
\* confirm a pause before the program has stopped.
Tell(type) == fromLldb' = Append(fromLldb, [type |-> type, seq |-> 0, success |-> TRUE])

Acts ==
  /\ toLldb # <<>>
  /\ toLldb' = Tail(toLldb)
  /\ LET r == Head(toLldb)
         resumed == r.command # "pause" /\ target = "stopped"
     IN \/ /\ resumed
           /\ target' = "running"
           /\ unanswered' = Append(unanswered, [seq |-> r.seq, success |-> TRUE])
           /\ Tell("continued") \/ UNCHANGED fromLldb
        \/ /\ r.command = "pause" /\ target = "running"
           /\ target' = "stopped" /\ Tell("stopped")
           /\ unanswered' = Append(unanswered, [seq |-> r.seq, success |-> TRUE])
        \/ /\ unanswered' = Append(unanswered, [seq |-> r.seq,
                                                success |-> r.command = "pause" /\ target = "running"])
           /\ UNCHANGED <<target, fromLldb>>
  /\ UNCHANGED <<state, stopSerial, commands, executeVars, countVars>>

Answers ==
  /\ unanswered # <<>>
  /\ unanswered' = Tail(unanswered)
  /\ fromLldb' = Append(fromLldb, [type |-> "response", seq |-> Head(unanswered).seq,
                                   success |-> Head(unanswered).success])
  /\ UNCHANGED <<state, stopSerial, commands, executeVars, toLldb, target, countVars>>

\* The program reaches a breakpoint or the end of a step, or ends.
ProgramStops ==
  /\ target = "running"
  /\ \E stop \in {"stopped", "terminated"} : target' = stop /\ Tell(stop)
  /\ UNCHANGED <<state, stopSerial, commands, executeVars, toLldb, unanswered, countVars>>

TerminalNext == ExecuteCommand \/ Receive \/ Expires \/ Acts \/ Answers \/ ProgramStops
                \/ \E command \in Controls : Submit(command)

TerminalSpec == TerminalInit /\ [][TerminalNext]_terminalVars

-----------------------------------------------------------------------------
InFlight == toLldb # <<>> \/ fromLldb # <<>>

\* Whatever the order in which a command's answer, its failure and the stops of
\* the program arrive: when nothing is under way the terminal takes the program
\* to be in the state it is in, and so refuses no command it should carry out.
\* A resumption answered too late may mislead it: the program runs, and the stop
\* it then makes may be taken for that of the next command.
PromptTruthful == ~InFlight /\ unanswered = <<>> /\ ~mistaken => state = target
=============================================================================
