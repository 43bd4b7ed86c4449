------------------------------- MODULE Events -------------------------------
(***************************************************************************)
(* The events package (include/events/events.cpp) with the collectors the  *)
(* compiler generates for it (Project::build in blocks.cpp).               *)
(*                                                                         *)
(* Key hats run on threads of their own and only append to two bounded     *)
(* lists.  The program subscribes callbacks and calls poll, directly or    *)
(* from run; poll drains a batch and calls back, and a callback may        *)
(* subscribe, unsubscribe, poll, run, quit, or yield to the hats.          *)
(*                                                                         *)
(* An event is its serial number; a registration is one too (reg), since   *)
(* tokens are used again after next_token wraps.                           *)
(***************************************************************************)
EXTENDS Integers, Sequences, FiniteSets, SequencesExt

CONSTANTS MaxHandlers,  \* max_handlers (16)
          MaxBatch,     \* max_batch (128)
          Capacity,     \* capacity of each list (128)
          MaxToken,     \* 2147483647
          EventBound, RegBound   \* bounds: events accepted, subscriptions

ASSUME BoundsAssumption ==
  /\ MaxHandlers \in Nat \ {0} /\ MaxBatch \in Nat \ {0} /\ Capacity \in Nat \ {0}
  /\ MaxToken \in Nat /\ MaxToken >= MaxHandlers
  /\ EventBound \in Nat /\ RegBound \in Nat

VARIABLES
  enabled,      \* __scl_events_enabled, and initialized
  handlers, next_token, dispatching, running,
  queue,        \* the lists __scl_events::wheel and ::keyboard
  batch, tokens, \* poll's local arrays
  todo,         \* how many items poll still has to take from each list
  at,           \* poll's loops: kind, i, h
  loop,         \* run is on the stack
  pc,           \* "main", "drain", "dispatch", "callback", "looptest"
  regs,         \* registrations made
  fresh,        \* those made since the last poll began
  accepted, log \* history: events accepted for each list; callbacks made

vars == <<enabled, handlers, next_token, dispatching, running, queue, batch, tokens,
          todo, at, loop, pc, regs, fresh, accepted, log>>
pollVars == <<dispatching, batch, tokens, todo, at>>
history == <<accepted, log>>

Kinds == {"wheel", "keyboard"}
Slots == 1..MaxHandlers
Free == [token |-> 0, kind |-> "wheel", reg |-> 0]
NoItems == [k \in Kinds |-> <<>>]

Init ==
  /\ enabled = FALSE
  /\ handlers = [h \in Slots |-> Free]
  /\ next_token = 1
  /\ dispatching = FALSE /\ running = FALSE /\ loop = FALSE
  /\ queue = NoItems /\ batch = NoItems
  /\ tokens = [h \in Slots |-> 0]
  /\ todo = [k \in Kinds |-> 0]
  /\ at = [kind |-> "wheel", i |-> 1, h |-> 1]
  /\ pc = "main"
  /\ regs = 0 /\ fresh = {}
  /\ accepted = NoItems /\ log = <<>>

-----------------------------------------------------------------------------
\* A hat's collector thread.  Which of the two accepts an up or down arrow
\* depends on the key's state when each looks, so either may, or both; the
\* counter of the events a full list drops is left out.
Fired == Len(accepted["wheel"]) + Len(accepted["keyboard"])
Accepted(k) ==
  /\ queue' = [queue EXCEPT ![k] = Append(@, Fired + 1)]
  /\ accepted' = [accepted EXCEPT ![k] = Append(@, Fired + 1)]

Collect(k) == enabled /\ Len(queue[k]) < Capacity /\ Accepted(k)

Hat ==
  /\ Fired < EventBound
  /\ \E k \in Kinds : Collect(k)
  /\ UNCHANGED <<enabled, handlers, next_token, running, pollVars, loop, pc, regs, fresh, log>>

-----------------------------------------------------------------------------
InProgram == pc \in {"main", "callback"}
Live == {h \in Slots : handlers[h].token # 0}
NextToken(t) == IF t = MaxToken THEN 1 ELSE t + 1

\* init: the lists are cleared the first time only.
Initialized == /\ enabled' = TRUE
               /\ queue' = IF enabled THEN queue ELSE NoItems

\* allocate_token: the first token from next_token on that nobody holds.
Ahead(t) == IF t < next_token THEN t + MaxToken - next_token ELSE t - next_token
Unheld == {t \in 1..MaxToken : \A h \in Slots : handlers[h].token # t}
AllocateToken == CHOOSE t \in Unheld : \A u \in Unheld : Ahead(t) <= Ahead(u)

Subscribe ==
  /\ InProgram
  /\ regs < RegBound
  /\ Initialized
  /\ IF Live = Slots THEN UNCHANGED <<handlers, next_token, regs, fresh>>
     ELSE LET h == CHOOSE h \in Slots \ Live : \A g \in Slots \ Live : h <= g IN
          \E k \in Kinds :
            /\ handlers' = [handlers EXCEPT ![h] = [token |-> AllocateToken, kind |-> k, reg |-> regs + 1]]
            /\ next_token' = NextToken(AllocateToken)
            /\ regs' = regs + 1
            /\ fresh' = fresh \cup {regs + 1}
  /\ UNCHANGED <<running, pollVars, loop, pc, history>>

\* off, with the token of any registration that is still alive.
Off ==
  /\ InProgram
  /\ \E h \in Live :
       handlers' = [handlers EXCEPT ![h] = Free]
  /\ UNCHANGED <<enabled, next_token, running, queue, pollVars, loop, pc, regs, fresh, history>>

Quit ==
  /\ InProgram
  /\ running' = FALSE
  /\ UNCHANGED <<enabled, handlers, next_token, queue, pollVars, loop, pc, regs, fresh, history>>

\* run does nothing inside a callback or another run.
Run ==
  /\ InProgram
  /\ Initialized
  /\ IF running \/ dispatching THEN UNCHANGED <<running, loop, pc>>
     ELSE running' = TRUE /\ loop' = TRUE /\ pc' = "looptest"
  /\ UNCHANGED <<handlers, next_token, pollVars, regs, fresh, history>>

\* Where poll goes back to.
Caller == IF loop THEN "looptest" ELSE "main"

\* Mutant: the early return of an empty poll leaves dispatching set.
PollReturnEmptyLocked == dispatching' = TRUE /\ pc' = Caller

PollReturnEmpty == dispatching' = FALSE /\ pc' = Caller

Smaller(a, b) == IF a < b THEN a ELSE b

\* poll up to the point where the lengths of both lists have been read.
PollBegin ==
  /\ Initialized
  /\ fresh' = {}
  /\ IF queue'["wheel"] = <<>> /\ queue'["keyboard"] = <<>>
     THEN PollReturnEmpty /\ UNCHANGED <<batch, todo>>
     ELSE /\ dispatching' = TRUE
          /\ pc' = "drain"
          /\ batch' = NoItems
          /\ todo' = [k \in Kinds |-> Smaller(Len(queue'[k]), MaxBatch)]
  /\ UNCHANGED <<tokens, at, handlers, next_token, regs, accepted, log>>

\* poll inside a callback returns at once.
Poll ==
  /\ pc = "main"
  /\ IF dispatching THEN UNCHANGED vars
     ELSE PollBegin /\ UNCHANGED <<running, loop>>

\* while (running) { poll(); if (running) yield(); }
LoopTest ==
  /\ pc = "looptest"
  /\ IF running
     THEN (IF dispatching THEN UNCHANGED vars ELSE PollBegin /\ UNCHANGED <<running, loop>>)
     ELSE /\ loop' = FALSE /\ pc' = "main"
          /\ UNCHANGED <<enabled, handlers, next_token, running, queue, pollVars, regs, fresh, history>>

\* Mutant: when the last item is taken the whole list is cleared.
TakenClearing(k) ==
  queue' = [queue EXCEPT ![k] = IF todo[k] = 1 THEN <<>> ELSE Tail(@)]

Taken(k) == queue' = [queue EXCEPT ![k] = Tail(@)]

\* One item moves from a list to its batch, the wheel's first; then the
\* tokens are noted.
Drain ==
  /\ pc = "drain"
  /\ IF \E k \in Kinds : todo[k] > 0
     THEN LET k == IF todo["wheel"] > 0 THEN "wheel" ELSE "keyboard" IN
          /\ batch' = [batch EXCEPT ![k] = Append(@, Head(queue[k]))]
          /\ Taken(k)
          /\ todo' = [todo EXCEPT ![k] = @ - 1]
          /\ UNCHANGED <<tokens, at, pc>>
     ELSE /\ tokens' = [h \in Slots |-> handlers[h].token]
          /\ at' = [kind |-> "wheel", i |-> 1, h |-> 1]
          /\ pc' = "dispatch"
          /\ UNCHANGED <<queue, batch, todo>>
  /\ UNCHANGED <<enabled, handlers, next_token, dispatching, running, loop, regs, fresh, history>>

\* Mutant: the noted registration is called whether or not it is still there.
IsCalledNoted(h, k) == tokens[h] # 0 /\ handlers[h].kind = k

\* Only the original, still live registration is called.
IsCalled(h, k) ==
  tokens[h] # 0 /\ handlers[h].token = tokens[h] /\ handlers[h].kind = k

\* The loops over kinds, events and slots.
NextAt(a) == IF a.h < MaxHandlers THEN [a EXCEPT !.h = @ + 1]
             ELSE [a EXCEPT !.i = @ + 1, !.h = 1]

Dispatch ==
  /\ pc = "dispatch"
  /\ IF at.i <= Len(batch[at.kind])
     THEN IF IsCalled(at.h, at.kind)
          THEN /\ log' = Append(log, [event |-> batch[at.kind][at.i], reg |-> handlers[at.h].reg,
                                      kind |-> at.kind])
               /\ pc' = "callback"
               /\ UNCHANGED <<at, dispatching>>
          ELSE at' = NextAt(at) /\ UNCHANGED <<log, pc, dispatching>>
     ELSE IF at.kind = "wheel"
          THEN at' = [kind |-> "keyboard", i |-> 1, h |-> 1] /\ UNCHANGED <<log, pc, dispatching>>
          ELSE dispatching' = FALSE /\ pc' = Caller /\ UNCHANGED <<log, at>>
  /\ UNCHANGED <<enabled, handlers, next_token, running, queue, batch, tokens, todo, loop,
                 regs, fresh, accepted>>

CallbackReturns ==
  /\ pc = "callback"
  /\ at' = NextAt(at)
  /\ pc' = "dispatch"
  /\ UNCHANGED <<enabled, handlers, next_token, dispatching, running, queue, batch, tokens,
                 todo, loop, regs, fresh, history>>

Poller == Drain \/ Dispatch \/ CallbackReturns \/ LoopTest
Next == Hat \/ Subscribe \/ Off \/ Quit \/ Run \/ Poll \/ Poller

\* The program goes on running, and callbacks return.
Spec == Init /\ [][Next]_vars /\ WF_vars(Poller)

-----------------------------------------------------------------------------
\* Lists and batches stay within their arrays, and no two registrations that are
\* alive have the same token, also when next_token has wrapped.
TypeOK ==
  /\ \A h \in Slots : handlers[h].token \in 0..MaxToken /\ handlers[h].kind \in Kinds
  /\ next_token \in 1..MaxToken
  /\ \A k \in Kinds : Len(batch[k]) <= MaxBatch /\ Len(queue[k]) <= Capacity
  /\ at.h \in Slots /\ at.i \in 1 .. MaxBatch + 1
  /\ pc \in {"main", "drain", "dispatch", "callback", "looptest"}
  /\ \A g, h \in Live : g # h => handlers[g].token # handlers[h].token

\* Every event a collector accepted is dispatched once and in its list's
\* order: what was polled, what is in the batch and what waits make up all of it.
EndsWith(s, t) == Len(t) <= Len(s) /\ t = SubSeq(s, Len(s) - Len(t) + 1, Len(s))
Polled(k) == SubSeq(accepted[k], 1, Len(accepted[k]) - Len(queue[k]))
NothingLost ==
  \A k \in Kinds :
    /\ EndsWith(accepted[k], queue[k])
    /\ pc = "dispatch" => EndsWith(Polled(k), batch[k])

\* A registration gets events of its own kind only, each once, in order.
OnceInOrder ==
  \A i, j \in 1..Len(log) :
    i < j /\ log[i].reg = log[j].reg => log[i].kind = log[j].kind /\ log[i].event < log[j].event

\* From the collector to the callback no event is lost, doubled or overtaken.
DeliveredOnce == TypeOK /\ NothingLost /\ OnceInOrder

\* "New events and new registrations wait for the next poll" (README): nobody is
\* called in a poll that had begun before the registration, although its slot may
\* have belonged to somebody that poll does call.  Once next_token has wrapped
\* this fails: a new registration can get the very token noted for its slot.
CallsNoNewOne == log' # log /\ regs <= MaxToken => Last(log').reg \notin fresh

\* "removing a registration takes effect immediately": not even for an event
\* already in the batch is a removed registration called.
Registered == {handlers[h].reg : h \in Live}
CallsNoneRemoved == log' # log => Last(log').reg \in Registered

\* Whoever was registered when a poll began and still is when it ends was
\* called for each event of its kind in the batch, whatever others did.
EndsWithAllServed ==
  dispatching /\ ~dispatching' =>
    \A h \in Live : handlers[h].reg \notin fresh =>
      \A e \in ToSet(batch[handlers[h].kind]) :
        \E i \in 1..Len(log) : log[i].event = e /\ log[i].reg = handlers[h].reg

\* Those a poll calls are the registrations it began with that are still there.
CallsRightly == CallsNoNewOne /\ CallsNoneRemoved /\ EndsWithAllServed
CalledRightly == [][CallsRightly]_vars

\* A poll comes to its end, so that the next one is not refused for ever.
PollEnds == dispatching ~> ~dispatching

Items == UNION {ToSet(queue[k]) : k \in Kinds}

\* While the event loop runs, an event does not wait in its list for ever.
LoopServes == \A e \in 1..EventBound : (loop /\ e \in Items) ~> (~loop \/ e \notin Items)

\* Events keep flowing: polls end and the loop's events are served.
KeepsServing == PollEnds /\ LoopServes
=============================================================================
