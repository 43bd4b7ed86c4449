------------------------------- MODULE Launch --------------------------------
(***************************************************************************)
(* How the adapter starts a program (debugger/llvmdbg.cjs, Adapter).  The  *)
(* requests of its client are handled as they come, each up to its next    *)
(* await: launch waits for the browser and installs the breakpoints, both  *)
(* it and configurationDone may start the program, and breakpoints are set *)
(* at any time in between.  The browser handles requests in order; one     *)
(* that is not answered in time is rejected, although it was sent.         *)
(***************************************************************************)
EXTENDS Integers, Sequences, SequencesExt

CONSTANTS Sources, SetBound, LateBound   \* bounds: setBreakpoints requests, late answers

VARIABLES
  order, wanted,               \* Adapter.breakpoints: its keys in order, the last request of each
  ready, configured, started,  \* Adapter
  handler,     \* the one that waits: "launch", or "configurationDone" in start()
  phase,       \* what it waits for
  iteration,   \* how far it is in the breakpoints
  awaits,      \* its request that is not settled, 0 if none
  nextRequest, \* Bridge.nextId
  toBrowser,   \* requests
  answers,     \* to the adapter
  installed, starts,   \* the browser's breakpoints, and how often the program was started
  sets, late           \* setBreakpoints requests and late answers so far

breakpointVars == <<order, wanted, sets>>
browserVars == <<installed, starts>>
loopVars == <<ready, started, phase, iteration, awaits>>
handlerVars == <<loopVars, handler>>
launchVars == <<breakpointVars, browserVars, handlerVars, configured, nextRequest, toBrowser, answers, late>>

LaunchInit ==
  /\ order = <<>> /\ wanted = [s \in Sources |-> 0] /\ sets = 0
  /\ ready = FALSE /\ configured = FALSE /\ started = FALSE
  /\ handler = "launch" /\ phase = "idle" /\ iteration = 0 /\ awaits = 0
  /\ nextRequest = 1 /\ toBrowser = <<>> /\ answers = <<>> /\ late = 0
  /\ installed = wanted /\ starts = 0

-----------------------------------------------------------------------------
ToBrowser(method, s, lines) ==
  /\ toBrowser' = Append(toBrowser, [id |-> nextRequest, method |-> method, source |-> s, lines |-> lines])
  /\ nextRequest' = nextRequest + 1

Await(p, i) == phase' = p /\ iteration' = i /\ awaits' = nextRequest

\* The loops over the breakpoints see the sources added while they wait.
Install(p, i) == ToBrowser("setBreakpoints", order[i], wanted[order[i]]) /\ Await(p, i)

\* Mutant: the breakpoints that launch installed are not sent again.
ResendNothing(i) ==
  /\ started' = TRUE
  /\ ToBrowser("start", 0, 0) /\ Await("starting", i)

\* start(), from its i-th source on.
Resend(i) ==
  /\ started' = TRUE
  /\ IF i <= Len(order) THEN Install("resending", i)
     ELSE ToBrowser("start", 0, 0) /\ Await("starting", i)

\* Mutant: launch leaves the start to configurationDone.
LaunchedUnaware ==
  /\ ready' = TRUE /\ phase' = "launched" /\ awaits' = 0
  /\ UNCHANGED <<iteration, started, toBrowser, nextRequest>>

\* The end of launch: the program is started if the client is configured.
Launched ==
  /\ ready' = TRUE
  /\ IF configured /\ ~started THEN Resend(1)
     ELSE /\ phase' = "launched" /\ awaits' = 0
          /\ UNCHANGED <<iteration, started, toBrowser, nextRequest>>

\* launch, from its i-th source on.
Launching(i) ==
  IF i <= Len(order) THEN Install("installing", i) /\ UNCHANGED <<ready, started>>
  ELSE Launched

LaunchRequest ==
  /\ phase = "idle" /\ phase' = "connecting"
  /\ UNCHANGED <<breakpointVars, browserVars, handler, ready, started, iteration, awaits, configured,
                 nextRequest, toBrowser, answers, late>>

BrowserReady ==
  /\ phase = "connecting"
  /\ Launching(1)
  /\ UNCHANGED <<handler, breakpointVars, browserVars, configured, answers, late>>

SetBreakpoints(s) ==
  /\ phase # "idle" /\ sets < SetBound
  /\ sets' = sets + 1
  /\ wanted' = [wanted EXCEPT ![s] = sets + 1]
  /\ order' = IF Contains(order, s) THEN order ELSE Append(order, s)
  /\ IF ready /\ phase # "closed" THEN ToBrowser("setBreakpoints", s, sets + 1)
     ELSE UNCHANGED <<toBrowser, nextRequest>>
  /\ UNCHANGED <<browserVars, handlerVars, configured, answers, late>>

ConfigurationDone ==
  /\ phase # "idle" /\ ~configured
  /\ configured' = TRUE
  /\ IF ready /\ ~started THEN Resend(1) /\ handler' = "configurationDone" /\ UNCHANGED ready
     ELSE UNCHANGED <<handlerVars, toBrowser, nextRequest>>
  /\ UNCHANGED <<breakpointVars, browserVars, answers, late>>

\* The request awaited is answered: the handler goes on to its next await.
Answered ==
  /\ answers # <<>>
  /\ answers' = Tail(answers)
  /\ IF Head(answers) # awaits THEN UNCHANGED <<loopVars, toBrowser, nextRequest>>
     ELSE CASE phase = "installing" -> Launching(iteration + 1)
            [] phase = "resending" -> Resend(iteration + 1) /\ UNCHANGED ready
            [] phase = "starting" -> /\ phase' = "running" /\ awaits' = 0
                                     /\ UNCHANGED <<ready, started, iteration, toBrowser, nextRequest>>
  /\ UNCHANGED <<handler, breakpointVars, browserVars, configured, late>>

\* Its timer runs out, or the browser does not connect: launch closes the
\* bridge, configurationDone only fails.
RequestFails ==
  /\ phase = "connecting" \/ awaits # 0
  /\ late < LateBound /\ late' = late + 1
  /\ phase' = IF handler = "launch" THEN "closed" ELSE "failed"
  /\ awaits' = 0
  /\ UNCHANGED <<handler, breakpointVars, browserVars, ready, started, iteration, configured, nextRequest, toBrowser, answers>>

BrowserHandles ==
  /\ toBrowser # <<>> /\ phase # "closed"
  /\ toBrowser' = Tail(toBrowser)
  /\ LET r == Head(toBrowser) IN
     /\ answers' = Append(answers, r.id)
     /\ IF r.method = "start" THEN starts' = starts + 1 /\ UNCHANGED installed
        ELSE installed' = [installed EXCEPT ![r.source] = r.lines] /\ UNCHANGED starts
  /\ UNCHANGED <<breakpointVars, handlerVars, configured, nextRequest, late>>

LaunchNext == LaunchRequest \/ BrowserReady \/ ConfigurationDone \/ Answered \/ RequestFails \/ BrowserHandles
              \/ \E s \in Sources : SetBreakpoints(s)

LaunchSpec == LaunchInit /\ [][LaunchNext]_launchVars

\* The browser connects and answers, or a timer runs out.
LaunchFairness == /\ WF_launchVars(BrowserReady) /\ WF_launchVars(Answered)
                  /\ WF_launchVars(BrowserHandles)

-----------------------------------------------------------------------------
\* The breakpoints of s that the browser will have, once it has handled the
\* requests in the queue.
SetIn(queued, s) == {i \in 1 .. Len(queued) : queued[i].method = "setBreakpoints" /\ queued[i].source = s}

Gets(queued, has, s, lines) ==
  \/ SetIn(queued, s) = {} /\ has[s] = lines
  \/ \E i \in SetIn(queued, s) : queued[i].lines = lines /\ \A j \in SetIn(queued, s) : j <= i

\* The program is started once, in whatever order breakpoints, configurationDone
\* and the browser arrive, and from its start on the browser has, or is about to
\* get, the breakpoints the client has set.
StartsAsConfigured ==
  /\ starts <= 1
  /\ (starts = 1 /\ phase # "closed") => \A s \in Sources : Gets(toBrowser, installed, s, wanted[s])

\* Neither launch nor configurationDone leaves the start to the other: once the
\* browser is connected and the client configured the program starts, unless a
\* request was late.
ProgramStarts == (ready /\ configured) ~> (starts = 1 \/ late > 0)
=============================================================================
