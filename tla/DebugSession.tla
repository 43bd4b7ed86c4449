---------------------------- MODULE DebugSession ----------------------------
(***************************************************************************)
(* A debugging session once LLDB is connected: LLDB's end of the remote    *)
(* protocol (external), the RSP server (debugger/rsp.cjs), the bridge that *)
(* turns its requests into messages to the browser (debugger/llvmdbg.cjs)  *)
(* and the engine there.                                                   *)
(*                                                                         *)
(* Three channels are in order and lose nothing; a request that is not     *)
(* answered in time fails, and its answer may still come.                  *)
(***************************************************************************)
EXTENDS Engine

CONSTANTS Coalesce,     \* may one chunk of the socket hold several packets?
          CommandBound, TimeoutBound   \* bounds: packets LLDB sends, timeouts

ASSUME SessionAssumption == Coalesce \in BOOLEAN /\ CommandBound \in Nat /\ TimeoutBound \in Nat

VARIABLES
  wire,       \* LLDB to server: packets
  queue,      \* server: packets taken from the socket, not handled yet
  awaiting,   \* the request the packet being handled waits for, 0 if none
  command,    \* that packet
  serverRunning, breaks, exitReply,  \* RspServer.running, breaks, exitReply
  nextId, pending,                   \* Bridge
  toEngine,   \* server to browser: requests
  toClient,   \* server to LLDB: replies
  client,     \* LLDB: "ready", "waiting", "running", "exited"
  pc,         \* where LLDB believes the program to be
  interrupted, sent, timeouts        \* 0x03 sent in this run; counters

serverVars == <<queue, awaiting, command, serverRunning, breaks, exitReply, nextId, pending>>
clientVars == <<client, pc, interrupted, sent>>
vars == <<engineVars, toServer, wire, serverVars, toEngine, toClient, clientVars, timeouts>>

Packet(kind, p) == [kind |-> kind, p |-> p]
Reply(kind, p) == [kind |-> kind, p |-> p]
None == Packet("none", Entry)

Init ==
  /\ EngineInit
  /\ toServer = <<>> /\ wire = <<>> /\ toEngine = <<>> /\ toClient = <<>>
  /\ queue = <<>> /\ awaiting = 0 /\ command = None
  /\ serverRunning = FALSE /\ breaks = {} /\ exitReply = FALSE
  /\ nextId = 1 /\ pending = {}
  /\ client = "ready" /\ pc = Entry /\ interrupted = FALSE /\ sent = 0
  /\ timeouts = 0

-----------------------------------------------------------------------------
\* LLDB: one query or resumption at a time, an interrupt while it waits.
Send(packet) == wire' = Append(wire, packet) /\ sent' = sent + 1

ClientCommands ==
  /\ client = "ready" /\ sent < CommandBound
  /\ \/ /\ \E k \in {"c", "s"} : Send(Packet(k, Entry))
        /\ client' = "running" /\ interrupted' = FALSE
     \/ /\ \E k \in {"Z0", "z0"}, p \in Points : Send(Packet(k, p))
        /\ client' = "waiting" /\ UNCHANGED interrupted
     \/ /\ Send(Packet("g", Entry))
        /\ client' = "waiting" /\ UNCHANGED interrupted
  /\ UNCHANGED <<engineVars, toServer, serverVars, toEngine, toClient, pc, timeouts>>

ClientInterrupts ==
  /\ client = "running" /\ ~interrupted
  /\ wire' = Append(wire, Packet("interrupt", Entry))
  /\ interrupted' = TRUE
  /\ UNCHANGED <<engineVars, toServer, serverVars, toEngine, toClient, client, pc, sent, timeouts>>

ClientReceives ==
  /\ toClient # <<>>
  /\ toClient' = Tail(toClient)
  /\ LET r == Head(toClient) IN
     /\ client' = IF client = "exited" \/ r.kind = "W" THEN "exited" ELSE "ready"
     /\ pc' = IF r.kind \in {"T", "g"} THEN r.p ELSE pc
  /\ UNCHANGED <<engineVars, toServer, wire, serverVars, toEngine, interrupted, sent, timeouts>>

-----------------------------------------------------------------------------
\* Bridge.request; the server's work on a packet goes on at its answer.
Request(method, ps) ==
  /\ toEngine' = Append(toEngine, [id |-> nextId, method |-> method, points |-> ps])
  /\ nextId' = nextId + 1
  /\ pending' = pending \cup {nextId}

Answer(reply) == toClient' = Append(toClient, reply)

\* What was queued in one turn of the event loop is begun before the next.
Settled == queue = <<>> \/ awaiting # 0

\* feed: an interrupt becomes a request at once, other packets are queued.
Feed ==
  /\ Settled
  /\ \E n \in 1 .. (IF Coalesce THEN Len(wire) ELSE 1) :
       /\ n <= Len(wire)
       /\ LET chunk == SubSeq(wire, 1, n)
              interrupts == {i \in 1 .. n : wire[i].kind = "interrupt"}
          IN \/ /\ interrupts = {}
                /\ queue' = queue \o chunk
                /\ UNCHANGED <<toEngine, nextId, pending>>
             \/ /\ \E i \in interrupts : interrupts = {i} /\ queue' = queue \o RemoveAt(chunk, i)
                /\ Request("pause", {})
       /\ wire' = SubSeq(wire, n + 1, Len(wire))
  /\ UNCHANGED <<engineVars, toServer, awaiting, command, serverRunning, breaks, exitReply,
                 toClient, clientVars, timeouts>>

NewBreaks(x) == IF x.kind = "Z0" THEN breaks \cup {x.p} ELSE breaks \ {x.p}

\* handle, up to its request.
Handle ==
  /\ queue # <<>> /\ awaiting = 0
  /\ LET x == Head(queue) IN
     /\ queue' = Tail(queue)
     /\ command' = x
     /\ awaiting' = nextId
     /\ CASE x.kind = "c" -> Request("continue", {}) /\ serverRunning' = TRUE /\ UNCHANGED breaks
          [] x.kind = "s" -> Request("stepInstruction", {}) /\ serverRunning' = TRUE /\ UNCHANGED breaks
          [] x.kind = "g" -> Request("getIRState", {}) /\ UNCHANGED <<serverRunning, breaks>>
          [] OTHER -> /\ breaks' = NewBreaks(x)
                      /\ Request("setIRBreakpoints", NewBreaks(x))
                      /\ UNCHANGED serverRunning
  /\ UNCHANGED <<engineVars, toServer, wire, exitReply, toClient, clientVars, timeouts>>

Resumes(x) == x.kind \in {"c", "s"}

RunningAfter(m) == IF m.type = "error" THEN FALSE ELSE serverRunning

\* handle after its request was answered, or has failed.
Completed(m) ==
  /\ awaiting' = 0
  /\ serverRunning' = IF Resumes(command) THEN RunningAfter(m) ELSE serverRunning
  /\ IF m.type = "error" THEN Answer(Reply("E01", Entry))
     ELSE IF Resumes(command) THEN UNCHANGED toClient
     ELSE Answer(IF command.kind = "g" THEN Reply("g", m.at) ELSE Reply("OK", Entry))

\* Mutant: a packet whose request fails gets no reply.
FailedSilently(id) ==
  IF id = awaiting THEN awaiting' = 0 /\ UNCHANGED <<serverRunning, toClient>>
  ELSE UNCHANGED <<awaiting, serverRunning, toClient>>

Failed(id) ==
  IF id = awaiting THEN Completed(Message("error", id, Entry, "timeout"))
  ELSE UNCHANGED <<awaiting, serverRunning, toClient>>

\* The timer of a request runs out before its answer is here.
Timeout ==
  /\ Settled
  /\ timeouts < TimeoutBound
  /\ \E id \in pending : pending' = pending \ {id} /\ Failed(id)
  /\ timeouts' = timeouts + 1
  /\ UNCHANGED <<engineVars, toServer, wire, queue, command, breaks, exitReply, nextId, toEngine, clientVars>>

\* Late answers find no pending request.
IsAwaited(m) == m.id \in pending /\ m.id = awaiting

\* Mutant: a stop is reported whether or not a resumption waits for one.
ReportsStopAlways == TRUE

ReportsStop == serverRunning

\* A message of the browser: an answer, notifyStopped or notifyExited.
ServerReceives ==
  /\ Settled
  /\ toServer # <<>>
  /\ toServer' = Tail(toServer)
  /\ LET m == Head(toServer) IN
     CASE m.type \in {"result", "error"} ->
            /\ pending' = pending \ {m.id}
            /\ IF IsAwaited(m) THEN Completed(m) ELSE UNCHANGED <<awaiting, serverRunning, toClient>>
            /\ UNCHANGED exitReply
       [] m.type = "stopped" ->
            /\ serverRunning' = FALSE
            /\ IF ReportsStop THEN Answer(Reply("T", m.at)) ELSE UNCHANGED toClient
            /\ UNCHANGED <<pending, awaiting, exitReply>>
       [] m.type = "terminated" ->
            /\ serverRunning' = FALSE
            /\ exitReply' = TRUE
            /\ Answer(Reply("W", Entry))
            /\ UNCHANGED <<pending, awaiting>>
  /\ UNCHANGED <<engineVars, wire, queue, command, breaks, nextId, toEngine, clientVars, timeouts>>

-----------------------------------------------------------------------------
\* The browser's message handler: call the engine's method, answer.
Replied(type, id) == toServer' = Append(toServer, Message(type, id, at, Status))

EngineReceives ==
  /\ toEngine # <<>>
  /\ toEngine' = Tail(toEngine)
  /\ LET r == Head(toEngine)
         resumes == r.method \in {"continue", "stepInstruction"}
     IN \/ resumes /\ Resume(r.method) /\ Replied("result", r.id)
        \/ resumes /\ ~ResumeAllowed(r.method) /\ UNCHANGED engineVars /\ Replied("error", r.id)
        \/ r.method = "pause" /\ Pause /\ Replied("result", r.id)
        \/ r.method = "getIRState" /\ UNCHANGED engineVars /\ Replied("result", r.id)
        \/ r.method = "setIRBreakpoints" /\ SetIRBreakpoints(r.points) /\ Replied("result", r.id)
  /\ UNCHANGED <<wire, serverVars, toClient, clientVars, timeouts>>

EngineRuns ==
  /\ Boundary
  /\ UNCHANGED <<wire, serverVars, toEngine, toClient, clientVars, timeouts>>

\* The user presses the browser's stop button, also while paused.
StopButton ==
  /\ OnStop
  /\ UNCHANGED <<skip, executed, wire, serverVars, toEngine, toClient, clientVars, timeouts>>

Next == \/ ClientCommands \/ ClientInterrupts \/ ClientReceives \/ Feed \/ Handle \/ Timeout
        \/ ServerReceives \/ EngineReceives \/ EngineRuns \/ StopButton

\* Sockets deliver, both event loops turn, the interpreter is stepped.
Fairness == WF_vars(ClientReceives) /\ WF_vars(Feed) /\ WF_vars(Handle) /\ WF_vars(ServerReceives)
            /\ WF_vars(EngineReceives) /\ WF_vars(EngineRuns)
Spec == Init /\ [][Next]_vars /\ Fairness

-----------------------------------------------------------------------------
TypeOK ==
  /\ at \in Points /\ pc \in Points /\ skip \in Points \cup {0}
  /\ mode \in {"entry", "continue", "stepInstruction", "pause"}
  /\ instructionBreakpoints \subseteq Points /\ breaks \subseteq Points
  /\ client \in {"ready", "waiting", "running", "exited"}
  /\ pending \subseteq 1 .. nextId - 1 /\ awaiting \in 0 .. nextId - 1

Undisturbed == timeouts = 0 /\ running

\* "A breakpoint takes effect the next time execution reaches it" (README): no
\* instruction with a breakpoint is executed unless the program was resumed from it.
BreakpointsHit ==
  [][ (EngineRuns /\ ~paused') => (at \notin instructionBreakpoints \/ executed = 0) ]_vars

\* A resumed program moves on before it stops again, and a step executes
\* exactly one instruction.
MovesOn ==
  paused /\ mode # "entry" => executed >= 1 /\ (mode = "stepInstruction" => executed = 1)

\* While LLDB takes the program to be stopped, it is, and where LLDB believes.
StoppedMeansPaused ==
  (client \in {"ready", "waiting"} /\ Undisturbed) => paused /\ pc = at

\* Until the program ends LLDB never gets a reply it does not wait for, also
\* after a request that timed out: a stop reply ends a run, a result a query.
\* A second timeout may break this: the first resumption's late stop ends the
\* second, whose own timer then reports a failure.
RepliesExpected ==
  [][ (ClientReceives /\ ~exitReply /\ timeouts <= 1) =>
        LET kind == Head(toClient).kind IN
        /\ kind = "T" => client = "running"
        /\ kind \in {"g", "OK"} => client = "waiting"
        /\ kind = "E01" => client \in {"running", "waiting"} ]_vars

\* What no step of the engine or of LLDB may do.
StepsExpected == BreakpointsHit /\ RepliesExpected

\* The breakpoints LLDB has set are those the engine has when it is resumed.
BreakpointsInstalled ==
  (Undisturbed /\ ~paused) => instructionBreakpoints = breaks

\* LLDB, the server and the engine mean the same stop, place and breakpoints.
InAgreement == TypeOK /\ MovesOn /\ StoppedMeansPaused /\ BreakpointsInstalled

\* A late answer completes nothing: a query gets the state it asked for.
QueriesAnswered == client = "waiting" ~> client # "waiting"

\* When the program stops or ends, LLDB hears of it.
StopsReported == (client = "running" /\ (paused \/ ~running)) ~> (client # "running" \/ (running /\ ~paused))

\* Nobody is left waiting by the debugger.
EveryoneHears == QueriesAnswered /\ StopsReported

\* "External pause requests can be handled" while the program runs (README):
\* an interrupted program stops and LLDB hears of it.
InterruptStops == (client = "running" /\ interrupted) ~> client # "running"
=============================================================================
