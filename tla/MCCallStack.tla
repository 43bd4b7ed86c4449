---------------------------- MODULE MCCallStack ----------------------------
(***************************************************************************)
(* An ordinary function, one with a byval parameter and a variadic one,    *)
(* with room for two frames and two objects.                               *)
(***************************************************************************)
EXTENDS CallStack
MCFunctions == <<16, 32, 48>>
=============================================================================
