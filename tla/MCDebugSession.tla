--------------------------- MODULE MCDebugSession ---------------------------
(* The session behind LLDB, and the two front ends, each by itself: how the   *)
(* adapter starts a program, and the terminal.  One part runs, the others     *)
(* stand still, where none of their actions is fair.                          *)
EXTENDS DebugSession, Launch, Terminal

CONSTANT Parts   \* "session", "adapter", "terminal"
VARIABLE part

partVars == <<part, vars, launchVars, terminalVars>>

PartsInit == Init /\ LaunchInit /\ TerminalInit /\ part \in Parts

SessionNext == part = "session" /\ Next /\ UNCHANGED <<part, launchVars, terminalVars>>
AdapterNext == part = "adapter" /\ LaunchNext /\ UNCHANGED <<part, vars, terminalVars>>
TerminalPartNext == part = "terminal" /\ TerminalNext /\ UNCHANGED <<part, vars, launchVars>>
PartsNext == SessionNext \/ AdapterNext \/ TerminalPartNext

PartsSpec == PartsInit /\ [][PartsNext]_partVars /\ Fairness /\ LaunchFairness
=============================================================================
