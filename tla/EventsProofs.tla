---------------------------- MODULE EventsProofs ----------------------------
(***************************************************************************)
(* Two parts that hand on what they were given, once and to its place.     *)
(*                                                                         *)
(* Events: for any number of slots, sizes of lists and batches, and any    *)
(* number of events and registrations: what was accepted is dispatched     *)
(* once and in order, to those who were registered when the poll began and *)
(* still are.                                                              *)
(*                                                                         *)
(* Blocks: the table that Builder saves is the scripts and nothing else.   *)
(* Each block stands for a script.  While Builder works, some places of    *)
(* the table are still open and some blocks have no place yet, and the     *)
(* activations say which: an activation has what it will fill (OpenOf) and *)
(* what it will hand over (Unlinked).  All else is as it will be (TableOK),*)
(* and with no activation left that is the whole table.                    *)
(***************************************************************************)
EXTENDS Events, Blocks, WellOrder, SequenceTheorems, FiniteSetTheorems, TLAPS

LEMMA Parameters ==
  /\ MaxHandlers \in Nat \ {0} /\ MaxBatch \in Nat \ {0} /\ Capacity \in Nat \ {0}
  /\ MaxToken \in Nat \ {0} /\ MaxHandlers <= MaxToken
BY BoundsAssumption

-----------------------------------------------------------------------------
(* A list of accepted events: the polled ones, of which the batch holds    *)
(* the last, and those that wait in the queue.                             *)

Lined(acc, q, b) ==
  /\ Len(q) + Len(b) <= Len(acc)
  /\ \A i \in 1..Len(q) : q[i] = acc[Len(acc) - Len(q) + i]
  /\ \A i \in 1..Len(b) : b[i] = acc[Len(acc) - Len(q) - Len(b) + i]

Rising(s) == \A i, j \in 1..Len(s) : i < j => s[i] < s[j]

\* A collector appends to both.
LEMMA LinedAccept ==
  ASSUME NEW acc \in Seq(Nat), NEW q \in Seq(Nat), NEW b \in Seq(Nat), Lined(acc, q, b), NEW e \in Nat
  PROVE  Lined(Append(acc, e), Append(q, e), b)
<1> DEFINE bcc == Append(acc, e)
           r == Append(q, e)
<1>1. /\ bcc \in Seq(Nat) /\ Len(bcc) = Len(acc) + 1 /\ bcc[Len(acc) + 1] = e
      /\ \A i \in 1..Len(acc) : bcc[i] = acc[i]
  BY AppendProperties
<1>2. /\ r \in Seq(Nat) /\ Len(r) = Len(q) + 1 /\ r[Len(q) + 1] = e
      /\ \A i \in 1..Len(q) : r[i] = q[i]
  BY AppendProperties
<1>3. Len(acc) \in Nat /\ Len(q) \in Nat /\ Len(b) \in Nat
  BY LenProperties
<1> HIDE DEF bcc, r
<1>4. Len(q) + Len(b) <= Len(acc)
  BY DEF Lined
<1>5. ASSUME NEW i \in 1..Len(r) PROVE r[i] = bcc[Len(bcc) - Len(r) + i]
  <2>1. CASE i = Len(q) + 1
    <3>1. Len(bcc) - Len(r) + i = Len(acc) + 1
      BY <1>1, <1>2, <1>3, <2>1
    <3> QED BY <1>1, <1>2, <2>1, <3>1
  <2>2. CASE i \in 1..Len(q)
    <3>1. Len(bcc) - Len(r) + i = Len(acc) - Len(q) + i /\ Len(acc) - Len(q) + i \in 1..Len(acc)
      BY <1>1, <1>2, <1>3, <1>4, <2>2
    <3>2. q[i] = acc[Len(acc) - Len(q) + i]
      BY <2>2 DEF Lined
    <3> QED BY <1>1, <1>2, <2>2, <3>1, <3>2
  <2> QED BY <1>2, <1>3, <2>1, <2>2
<1>6. ASSUME NEW i \in 1..Len(b) PROVE b[i] = bcc[Len(bcc) - Len(r) - Len(b) + i]
  <2>1. Len(bcc) - Len(r) - Len(b) + i = Len(acc) - Len(q) - Len(b) + i
        /\ Len(acc) - Len(q) - Len(b) + i \in 1..Len(acc)
    <3>1. Len(bcc) - Len(r) = Len(acc) - Len(q)
      BY <1>1, <1>2, <1>3
    <3>2. i \in Int /\ 1 <= i /\ i <= Len(b)
      BY <1>3
    <3>3. Len(acc) - Len(q) - Len(b) + i \in Int /\ 1 <= Len(acc) - Len(q) - Len(b) + i
          /\ Len(acc) - Len(q) - Len(b) + i <= Len(acc)
      BY SMTT(60), <1>3, <1>4, <3>2
    <3>4. Len(acc) - Len(q) - Len(b) + i \in 1..Len(acc)
      BY <1>3, <3>3
    <3> QED BY <3>1, <3>4
  <2>2. b[i] = acc[Len(acc) - Len(q) - Len(b) + i]
    BY DEF Lined
  <2> QED BY <1>1, <2>1, <2>2
<1>7. Len(r) + Len(b) <= Len(bcc)
  BY <1>1, <1>2, <1>3, <1>4
<1> QED BY <1>5, <1>6, <1>7 DEF Lined, bcc, r

\* poll takes the first that waits.
LEMMA LinedTake ==
  ASSUME NEW acc \in Seq(Nat), NEW q \in Seq(Nat), NEW b \in Seq(Nat), Lined(acc, q, b), 0 < Len(q)
  PROVE  /\ Lined(acc, Tail(q), Append(b, Head(q))) /\ Head(q) \in Nat
         /\ Tail(q) \in Seq(Nat) /\ Append(b, Head(q)) \in Seq(Nat)
         /\ Len(Tail(q)) = Len(q) - 1 /\ Len(Append(b, Head(q))) = Len(b) + 1
<1> DEFINE r == Tail(q)
           c == Append(b, Head(q))
<1>1. q # <<>> /\ Len(acc) \in Nat /\ Len(q) \in Nat /\ Len(b) \in Nat
  BY LenProperties, EmptySeq
<1>2. Head(q) \in Nat /\ r \in Seq(Nat) /\ Len(r) = Len(q) - 1 /\ \A i \in 1..Len(r) : r[i] = q[i + 1]
  BY <1>1, HeadTailProperties
<1>3. Head(q) = q[1]
  BY <1>1
<1>4. c \in Seq(Nat) /\ Len(c) = Len(b) + 1 /\ c[Len(b) + 1] = Head(q) /\ \A i \in 1..Len(b) : c[i] = b[i]
  BY <1>2, AppendProperties
<1> HIDE DEF r, c
<1>5. Len(q) + Len(b) <= Len(acc)
  BY DEF Lined
<1>6. ASSUME NEW i \in 1..Len(r) PROVE r[i] = acc[Len(acc) - Len(r) + i]
  <2>1. i + 1 \in 1..Len(q) /\ Len(acc) - Len(r) + i = Len(acc) - Len(q) + (i + 1)
    BY <1>1, <1>2
  <2>2. q[i + 1] = acc[Len(acc) - Len(q) + (i + 1)]
    BY <2>1 DEF Lined
  <2> QED BY <1>2, <2>1, <2>2
<1>7. ASSUME NEW i \in 1..Len(c) PROVE c[i] = acc[Len(acc) - Len(r) - Len(c) + i]
  <2>1. CASE i = Len(b) + 1
    <3>1. Len(acc) - Len(r) - Len(c) + i = Len(acc) - Len(q) + 1 /\ 1 \in 1..Len(q)
      BY <1>1, <1>2, <1>4, <2>1
    <3>2. q[1] = acc[Len(acc) - Len(q) + 1]
      BY <3>1 DEF Lined
    <3> QED BY <1>3, <1>4, <2>1, <3>1, <3>2
  <2>2. CASE i \in 1..Len(b)
    <3>1. Len(acc) - Len(r) - Len(c) + i = Len(acc) - Len(q) - Len(b) + i
      BY <1>1, <1>2, <1>4, <2>2
    <3>2. b[i] = acc[Len(acc) - Len(q) - Len(b) + i]
      BY <2>2 DEF Lined
    <3> QED BY <1>4, <2>2, <3>1, <3>2
  <2> QED BY <1>1, <1>4, <2>1, <2>2
<1>8. Len(r) + Len(c) <= Len(acc)
  BY <1>1, <1>2, <1>4, <1>5
<1> QED BY <1>2, <1>4, <1>6, <1>7, <1>8 DEF Lined, r, c

\* The next poll begins with an empty batch.
LEMMA LinedEmpty ==
  ASSUME NEW acc \in Seq(Nat), NEW q \in Seq(Nat), NEW b \in Seq(Nat), Lined(acc, q, b)
  PROVE  Lined(acc, q, <<>>)
<1>1. Len(acc) \in Nat /\ Len(q) \in Nat /\ Len(b) \in Nat
  BY LenProperties
<1>2. Len(<<>>) = 0
  BY EmptySeq
<1>3. \A i \in 1..0 : FALSE
  OBVIOUS
<1>4. Len(q) + 0 <= Len(acc)
  BY <1>1 DEF Lined
<1> QED BY <1>2, <1>3, <1>4 DEF Lined

LEMMA RisingAppend ==
  ASSUME NEW s \in Seq(Nat), Rising(s), NEW e \in Nat, \A i \in 1..Len(s) : s[i] < e
  PROVE  Rising(Append(s, e))
<1> DEFINE t == Append(s, e)
<1>1. Len(t) = Len(s) + 1 /\ t[Len(s) + 1] = e /\ (\A i \in 1..Len(s) : t[i] = s[i]) /\ Len(s) \in Nat
  BY AppendProperties, LenProperties
<1> HIDE DEF t
<1>2. ASSUME NEW i \in 1..Len(t), NEW j \in 1..Len(t), i < j PROVE t[i] < t[j]
  <2>1. i \in 1..Len(s)
    BY <1>1, <1>2
  <2>2. CASE j = Len(s) + 1
    BY <1>1, <2>1, <2>2
  <2>3. CASE j \in 1..Len(s)
    BY <1>1, <1>2, <2>1, <2>3 DEF Rising
  <2> QED BY <1>1, <2>2, <2>3
<1>3. Rising(t)
  BY <1>2 DEF Rising
<1> QED BY <1>3 DEF t

-----------------------------------------------------------------------------
(* Tokens.                                                                 *)

\* While a slot is free there is a token nobody holds; next_token itself, if it is one.
LEMMA TokenIs ==
  ASSUME handlers \in [Slots -> [token : 0..MaxToken, kind : Kinds, reg : Nat]], next_token \in 1..MaxToken,
         Live # Slots
  PROVE  /\ AllocateToken \in Unheld
         /\ next_token \in Unheld => AllocateToken = next_token
<1> DEFINE Held == {handlers[h].token : h \in Live}
<1>1. IsFiniteSet(Slots) /\ Cardinality(Slots) = MaxHandlers
  <2>1. 1 \in Int /\ MaxHandlers \in Int /\ ~(1 > MaxHandlers) /\ MaxHandlers - 1 + 1 = MaxHandlers
    BY Parameters
  <2> QED BY <2>1, FS_Interval DEF Slots
<1>2. IsFiniteSet(1..MaxToken) /\ Cardinality(1..MaxToken) = MaxToken
  <2>1. 1 \in Int /\ MaxToken \in Int /\ ~(1 > MaxToken) /\ MaxToken - 1 + 1 = MaxToken
    BY Parameters
  <2> QED BY <2>1, FS_Interval
<1>3. Live \subseteq Slots
  BY DEF Live
<1>4. IsFiniteSet(Live) /\ Cardinality(Live) < MaxHandlers /\ Cardinality(Live) \in Nat
  <2>1. IsFiniteSet(Live) /\ Cardinality(Live) <= MaxHandlers /\ Cardinality(Live) # MaxHandlers
    BY <1>1, <1>3, FS_Subset
  <2>2. Cardinality(Live) \in Nat
    BY <2>1, FS_CardinalityType
  <2> QED BY <2>1, <2>2, Parameters
<1> DEFINE f == [h \in Live |-> handlers[h].token]
<1>5. Held = {f[h] : h \in Live}
  OBVIOUS
<1>6. IsFiniteSet(Held) /\ Cardinality(Held) <= Cardinality(Live)
  <2>1. f \in Surjection(Live, Held)
    BY DEF Surjection
  <2> HIDE DEF f, Held
  <2> QED BY <1>4, <2>1, FS_Surjection
<1>7. Unheld # {}
  <2> SUFFICES ASSUME Unheld = {} PROVE FALSE
    OBVIOUS
  <2>1. ASSUME NEW t \in 1..MaxToken PROVE t \in Held
    <3>1. PICK h \in Slots : handlers[h].token = t
      BY DEF Unheld
    <3>2. h \in Live
      BY <3>1, Parameters DEF Live
    <3> QED BY <3>1, <3>2
  <2> HIDE DEF Held
  <2>2. Cardinality(1..MaxToken) <= Cardinality(Held)
    BY <1>6, <2>1, FS_Subset
  <2>3. Cardinality(Held) \in Nat
    BY <1>6, FS_CardinalityType
  <2> QED BY <1>2, <1>4, <1>6, <2>2, <2>3, Parameters
<1>8. \A t \in 1..MaxToken : Ahead(t) \in Nat /\ (Ahead(t) = 0 <=> t = next_token)
  BY Parameters DEF Ahead
<1> DEFINE A == {Ahead(t) : t \in Unheld}
           P(t) == \A u \in Unheld : Ahead(t) <= Ahead(u)
<1>9. A \in SUBSET Nat /\ A # {} /\ Unheld \subseteq 1..MaxToken
  BY <1>7, <1>8 DEF Unheld
<1>10. PICK x \in A : \A y \in A : x <= y
  <2> HIDE DEF A
  <2> QED BY <1>9, LeastElement
<1>11. PICK t \in Unheld : P(t)
  BY <1>10
<1> HIDE DEF P
<1>12. (CHOOSE z \in Unheld : P(z)) \in Unheld /\ P(CHOOSE z \in Unheld : P(z))
  BY <1>11
<1>13. AllocateToken = CHOOSE z \in Unheld : P(z)
  BY DEF AllocateToken, P
<1>14. AllocateToken \in Unheld /\ P(AllocateToken)
  BY <1>12, <1>13
<1>15. ASSUME next_token \in Unheld PROVE AllocateToken = next_token
  <2>1. Ahead(AllocateToken) <= Ahead(next_token)
    BY <1>14, <1>15 DEF P
  <2>2. AllocateToken \in 1..MaxToken /\ next_token \in 1..MaxToken
    BY <1>9, <1>14
  <2> HIDE DEF A
  <2>3. Ahead(next_token) = 0 /\ Ahead(AllocateToken) \in Nat
    BY <1>8, <2>2
  <2> QED BY <1>8, <2>1, <2>2, <2>3
<1> QED BY <1>14, <1>15

-----------------------------------------------------------------------------
(* The inductive invariant.                                                *)

Handler == [token : 0..MaxToken, kind : Kinds, reg : Nat]
Entry == [event : Nat, reg : Nat, kind : Kinds]

Types ==
  /\ enabled \in BOOLEAN /\ dispatching \in BOOLEAN /\ running \in BOOLEAN /\ loop \in BOOLEAN
  /\ handlers \in [Slots -> Handler] /\ next_token \in 1..MaxToken
  /\ queue \in [Kinds -> Seq(Nat)] /\ batch \in [Kinds -> Seq(Nat)] /\ accepted \in [Kinds -> Seq(Nat)]
  /\ tokens \in [Slots -> 0..MaxToken] /\ todo \in [Kinds -> Nat]
  /\ at \in [kind : Kinds, i : 1 .. MaxBatch + 1, h : Slots]
  /\ pc \in {"main", "drain", "dispatch", "callback", "looptest"}
  /\ regs \in Nat /\ fresh \in SUBSET (1..regs)
  /\ log \in Seq(Entry)

Dispatches == pc \in {"dispatch", "callback"}

\* Where poll is in its loops; nothing is in the lists before they are cleared.
Phases ==
  /\ dispatching <=> pc \in {"drain", "dispatch", "callback"}
  /\ pc = "dispatch" => at.i <= Len(batch[at.kind]) + 1
  /\ pc = "callback" => at.i <= Len(batch[at.kind])
  /\ pc = "drain" => fresh = {}
  /\ pc = "drain" => \A k \in Kinds : todo[k] <= Len(queue[k]) /\ Len(batch[k]) + todo[k] <= MaxBatch
  /\ ~enabled => queue = NoItems

\* What was accepted goes through the queue and the batch in its order.
Flows ==
  \A k \in Kinds :
    /\ Len(queue[k]) <= Capacity /\ Len(batch[k]) <= MaxBatch
    /\ Lined(accepted[k], queue[k], batch[k])
    /\ Rising(accepted[k])
    /\ \A i \in 1..Len(accepted[k]) : accepted[k][i] <= Fired

\* Registrations and their tokens; until next_token has wrapped a token is the
\* number of its registration.
Holders ==
  /\ \A h \in Live : handlers[h].reg \in 1..regs
  /\ \A g, h \in Live : g # h => handlers[g].token # handlers[h].token /\ handlers[g].reg # handlers[h].reg
  /\ regs <= MaxToken => \A h \in Slots : tokens[h] <= regs /\ handlers[h].token <= regs
  /\ regs <= MaxToken => \A h \in Live : handlers[h].token = handlers[h].reg
  /\ regs < MaxToken => next_token = regs + 1

\* What poll noted of those it calls.
Noted ==
  /\ Dispatches /\ regs <= MaxToken => \A h \in Slots : tokens[h] \notin fresh
  /\ Dispatches => \A h \in Live : handlers[h].reg \notin fresh => tokens[h] = handlers[h].token

\* How much of a list was dispatched before the present batch, and up to now.
Before(k) == Len(accepted[k]) - Len(queue[k]) - Len(batch[k])
Past(k) ==
  Before(k) + (IF pc = "drain" THEN 0
               ELSE IF ~Dispatches THEN Len(batch[k])
               ELSE IF at.kind = k THEN at.i - 1
               ELSE IF k = "wheel" THEN Len(batch[k]) ELSE 0)

\* The slots whose turn with the present event has come.
Turned(h) == h < at.h \/ (h = at.h /\ pc = "callback")

\* The present event was given to those of the slots before.
Present(k, m, r) ==
  /\ Dispatches /\ at.kind = k /\ at.i <= Len(batch[k])
  /\ m = Before(k) + at.i
  /\ \A h \in Live : handlers[h].reg = r => Turned(h)

Behind(k, m, r) == m <= Past(k) \/ Present(k, m, r)

\* Every callback made was for an event that has had its turn.
LogBehind ==
  \A n \in 1..Len(log) : \E m \in 1..Len(accepted[log[n].kind]) :
    log[n].event = accepted[log[n].kind][m] /\ Behind(log[n].kind, m, log[n].reg)

Logged ==
  /\ \A n \in 1..Len(log) : log[n].reg <= regs
  /\ \A n \in 1..Len(log), h \in Live : log[n].reg = handlers[h].reg => log[n].kind = handlers[h].kind
  /\ OnceInOrder
  /\ LogBehind

\* Item j of a batch has had its turn with slot h.
Passed(k, j, h) ==
  IF k = at.kind THEN j < at.i \/ (j = at.i /\ Turned(h)) ELSE k = "wheel"

CalledFor(e, r) == \E n \in 1..Len(log) : log[n].event = e /\ log[n].reg = r

\* Who was there when the poll began was called for what has had its turn.
Served ==
  Dispatches =>
    \A h \in Live : handlers[h].reg \notin fresh =>
      \A j \in 1..Len(batch[handlers[h].kind]) :
        Passed(handlers[h].kind, j, h) => CalledFor(batch[handlers[h].kind][j], handlers[h].reg)

EventsInv == Types /\ Phases /\ Flows /\ Holders /\ Noted /\ Logged /\ Served

-----------------------------------------------------------------------------

LEMMA KindsAre == "wheel" \in Kinds /\ "keyboard" \in Kinds /\ \A k \in Kinds : k = "wheel" \/ k = "keyboard"
BY DEF Kinds

LEMMA Lengths ==
  ASSUME Types, NEW k \in Kinds
  PROVE  /\ queue[k] \in Seq(Nat) /\ batch[k] \in Seq(Nat) /\ accepted[k] \in Seq(Nat)
         /\ Len(queue[k]) \in Nat /\ Len(batch[k]) \in Nat /\ Len(accepted[k]) \in Nat
         /\ Len(log) \in Nat /\ Fired \in Nat
<1>1. queue[k] \in Seq(Nat) /\ batch[k] \in Seq(Nat) /\ accepted[k] \in Seq(Nat)
      /\ accepted["wheel"] \in Seq(Nat) /\ accepted["keyboard"] \in Seq(Nat) /\ log \in Seq(Entry)
  BY KindsAre DEF Types
<1>2. Len(accepted["wheel"]) \in Nat /\ Len(accepted["keyboard"]) \in Nat
  BY <1>1, LenProperties
<1>3. Fired \in Nat
  <2> DEFINE w == Len(accepted["wheel"])
             y == Len(accepted["keyboard"])
  <2>1. Fired = w + y
    BY DEF Fired
  <2>2. w \in Nat /\ y \in Nat
    BY <1>2
  <2> HIDE DEF w, y
  <2> QED BY <2>1, <2>2
<1> QED BY <1>1, <1>3, LenProperties

LEMMA Places ==
  ASSUME Types
  PROVE  /\ at.kind \in Kinds /\ at.i \in Nat /\ 1 <= at.i /\ at.i <= MaxBatch + 1 /\ at.h \in Slots
         /\ \A h \in Slots : h \in Nat /\ 1 <= h /\ h <= MaxHandlers
  BY Parameters DEF Types, Slots

LEMMA EventsInit == Init => EventsInv
<1> SUFFICES ASSUME Init PROVE EventsInv
  OBVIOUS
<1> USE DEF Init
<1>1. Len(<<>>) = 0 /\ <<>> \in Seq(Nat) /\ <<>> \in Seq(Entry)
  BY EmptySeq
<1>2. \A k \in Kinds : queue[k] = <<>> /\ batch[k] = <<>> /\ accepted[k] = <<>>
  BY DEF NoItems
<1>3. Types
  <2>1. handlers \in [Slots -> Handler]
    BY Parameters DEF Handler, Free, Kinds
  <2>2. queue \in [Kinds -> Seq(Nat)] /\ batch \in [Kinds -> Seq(Nat)] /\ accepted \in [Kinds -> Seq(Nat)]
    BY <1>1 DEF NoItems
  <2>3. at \in [kind : Kinds, i : 1 .. MaxBatch + 1, h : Slots]
    BY Parameters DEF Slots, Kinds
  <2>4. tokens \in [Slots -> 0..MaxToken] /\ todo \in [Kinds -> Nat] /\ next_token \in 1..MaxToken
    BY Parameters
  <2>5. fresh \in SUBSET (1..regs) /\ regs \in Nat /\ log \in Seq(Entry)
    BY <1>1
  <2> QED BY <2>1, <2>2, <2>3, <2>4, <2>5 DEF Types
<1>4. Phases
  BY DEF Phases
<1>5. Flows
  <2>1. \A i \in 1..0 : FALSE
    OBVIOUS
  <2>2. \A k \in Kinds : Lined(accepted[k], queue[k], batch[k]) /\ Rising(accepted[k])
    BY <1>1, <1>2, <2>1 DEF Lined, Rising
  <2> QED BY <1>1, <1>2, <2>1, <2>2, Parameters DEF Flows
<1>6. Live = {}
  BY DEF Live, Free
<1>7. Holders /\ Noted /\ Served
  BY <1>6, Parameters DEF Holders, Noted, Served, Dispatches, Free
<1>8. Logged
  <2>1. Len(log) = 0 /\ \A i \in 1..0 : FALSE
    BY <1>1
  <2> QED BY <2>1 DEF Logged, OnceInOrder, LogBehind
<1> QED BY <1>3, <1>4, <1>5, <1>7, <1>8 DEF EventsInv

\* The log stays behind when nothing that was behind comes to the front again.
LEMMA BehindStep ==
  ASSUME EventsInv, log' = log,
         \A k \in Kinds : \A m \in 1..Len(accepted[k]) : m \in 1..Len(accepted'[k]) /\ accepted'[k][m] = accepted[k][m],
         \A k \in Kinds, n \in 1..Len(log) : \A m \in 1..Len(accepted[k]) :
           Behind(k, m, log[n].reg) => Behind(k, m, log[n].reg)'
  PROVE  LogBehind'
<1> SUFFICES ASSUME NEW n \in 1..Len(log)
             PROVE  \E m \in 1..Len(accepted'[log[n].kind]) :
                      log[n].event = accepted'[log[n].kind][m] /\ Behind(log[n].kind, m, log[n].reg)'
  BY DEF LogBehind
<1>1. log[n].kind \in Kinds
  <2>1. log[n] \in Entry
    BY ElementOfSeq DEF EventsInv, Types
  <2> QED BY <2>1 DEF Entry
<1>2. PICK m \in 1..Len(accepted[log[n].kind]) :
        log[n].event = accepted[log[n].kind][m] /\ Behind(log[n].kind, m, log[n].reg)
  BY DEF EventsInv, Logged, LogBehind
<1> QED BY <1>1, <1>2

LEMMA LoggedKept ==
  ASSUME EventsInv, log' = log, regs' = regs, handlers' = handlers,
         \A k \in Kinds : \A m \in 1..Len(accepted[k]) : m \in 1..Len(accepted'[k]) /\ accepted'[k][m] = accepted[k][m],
         \A k \in Kinds, n \in 1..Len(log) : \A m \in 1..Len(accepted[k]) :
           Behind(k, m, log[n].reg) => Behind(k, m, log[n].reg)'
  PROVE  Logged'
<1>1. LogBehind'
  BY BehindStep
<1> QED BY <1>1 DEF EventsInv, Logged, OnceInOrder, Live

-----------------------------------------------------------------------------
(* One lemma for each action.                                              *)

LEMMA HatStep == EventsInv /\ Hat => EventsInv'
<1> SUFFICES ASSUME EventsInv, Hat PROVE EventsInv'
  OBVIOUS
<1>1. PICK k \in Kinds : Collect(k)
  BY DEF Hat
<1>2. Types /\ Phases /\ Flows
  BY DEF EventsInv
<1> DEFINE e == Fired + 1
<1>3. /\ queue' = [queue EXCEPT ![k] = Append(queue[k], e)]
      /\ accepted' = [accepted EXCEPT ![k] = Append(accepted[k], e)]
      /\ enabled /\ Len(queue[k]) < Capacity
  BY <1>1 DEF Collect, Accepted
<1>4. /\ enabled' = enabled /\ handlers' = handlers /\ next_token' = next_token /\ running' = running
      /\ dispatching' = dispatching /\ batch' = batch /\ tokens' = tokens /\ todo' = todo /\ at' = at
      /\ loop' = loop /\ pc' = pc /\ regs' = regs /\ fresh' = fresh /\ log' = log
  BY DEF Hat, pollVars
<1>5. \A c \in Kinds : /\ queue[c] \in Seq(Nat) /\ batch[c] \in Seq(Nat) /\ accepted[c] \in Seq(Nat)
                       /\ Len(queue[c]) \in Nat /\ Len(batch[c]) \in Nat /\ Len(accepted[c]) \in Nat
  BY <1>2, Lengths
<1>6. Fired \in Nat /\ e \in Nat
  BY <1>2, Lengths
<1>7. /\ queue \in [Kinds -> Seq(Nat)] /\ accepted \in [Kinds -> Seq(Nat)]
      /\ \A c \in Kinds : c # k => queue'[c] = queue[c] /\ accepted'[c] = accepted[c]
      /\ queue'[k] = Append(queue[k], e) /\ accepted'[k] = Append(accepted[k], e)
  BY <1>2, <1>3 DEF Types
<1> HIDE DEF e
<1>8. /\ Append(queue[k], e) \in Seq(Nat) /\ Len(Append(queue[k], e)) = Len(queue[k]) + 1
      /\ Append(accepted[k], e) \in Seq(Nat) /\ Len(Append(accepted[k], e)) = Len(accepted[k]) + 1
      /\ \A i \in 1..Len(accepted[k]) : Append(accepted[k], e)[i] = accepted[k][i]
      /\ Append(accepted[k], e)[Len(accepted[k]) + 1] = e
  BY <1>5, <1>6, AppendProperties
<1>9. queue' \in [Kinds -> Seq(Nat)] /\ accepted' \in [Kinds -> Seq(Nat)]
  BY <1>3, <1>7, <1>8
<1>17. \A c \in Kinds : /\ c # k => Len(queue'[c]) = Len(queue[c]) /\ Len(accepted'[c]) = Len(accepted[c])
                        /\ c = k => Len(queue'[c]) = Len(queue[c]) + 1 /\ Len(accepted'[c]) = Len(accepted[c]) + 1
  BY <1>7, <1>8
<1>10. Types'
  BY <1>2, <1>4, <1>9 DEF Types
<1>11. Phases'
  <2>1. \A c \in Kinds : Len(queue[c]) <= Len(queue'[c]) /\ Len(queue'[c]) \in Nat
    <3> TAKE c \in Kinds
    <3>1. Len(queue[c]) \in Nat
      BY <1>5
    <3> QED BY <1>17, <3>1
  <2>2. \A c \in Kinds : todo[c] \in Nat
    BY <1>2 DEF Types
  <2>3. pc = "drain" => \A c \in Kinds : todo[c] <= Len(queue'[c])
    BY <1>2, <1>5, <2>1, <2>2 DEF Phases
  <2> QED BY <1>2, <1>3, <1>4, <2>3 DEF Phases
<1>12. Fired' = Fired + 1
  <2>1. Fired = Len(accepted["wheel"]) + Len(accepted["keyboard"])
    BY DEF Fired
  <2>2. Fired' = Len(accepted'["wheel"]) + Len(accepted'["keyboard"])
    BY DEF Fired
  <2>3. CASE k = "wheel"
    <3>1. Len(accepted'["wheel"]) = Len(accepted["wheel"]) + 1 /\ accepted'["keyboard"] = accepted["keyboard"]
      BY <1>7, <1>8, <2>3, KindsAre
    <3>2. Len(accepted["wheel"]) \in Nat /\ Len(accepted["keyboard"]) \in Nat
      BY <1>5, KindsAre
    <3> DEFINE w == Len(accepted["wheel"])
               y == Len(accepted["keyboard"])
    <3>3. w \in Nat /\ y \in Nat /\ Fired = w + y /\ Fired' = (w + 1) + y
      BY <2>1, <2>2, <3>1, <3>2
    <3> HIDE DEF w, y
    <3> QED BY <3>3
  <2>4. CASE k = "keyboard"
    <3>1. Len(accepted'["keyboard"]) = Len(accepted["keyboard"]) + 1 /\ accepted'["wheel"] = accepted["wheel"]
      BY <1>7, <1>8, <2>4, KindsAre
    <3>2. Len(accepted["wheel"]) \in Nat /\ Len(accepted["keyboard"]) \in Nat
      BY <1>5, KindsAre
    <3> DEFINE w == Len(accepted["wheel"])
               y == Len(accepted["keyboard"])
    <3>3. w \in Nat /\ y \in Nat /\ Fired = w + y /\ Fired' = w + (y + 1)
      BY <2>1, <2>2, <3>1, <3>2
    <3> HIDE DEF w, y
    <3> QED BY <3>3
  <2> QED BY <2>3, <2>4, KindsAre
<1>13. Flows'
  <2> SUFFICES ASSUME NEW c \in Kinds
               PROVE  /\ Len(queue'[c]) <= Capacity /\ Len(batch[c]) <= MaxBatch
                      /\ Lined(accepted'[c], queue'[c], batch[c])
                      /\ Rising(accepted'[c])
                      /\ \A i \in 1..Len(accepted'[c]) : accepted'[c][i] <= Fired + 1
    BY <1>4, <1>12 DEF Flows
  <2>1. /\ Len(queue[c]) <= Capacity /\ Len(batch[c]) <= MaxBatch
        /\ Lined(accepted[c], queue[c], batch[c]) /\ Rising(accepted[c])
        /\ \A i \in 1..Len(accepted[c]) : accepted[c][i] <= Fired
    BY <1>2 DEF Flows
  <2>2. \A i \in 1..Len(accepted[c]) : accepted[c][i] \in Nat
    BY <1>5, ElementOfSeq
  <2>3. \A i \in 1..Len(accepted[c]) : accepted[c][i] < Fired + 1
    BY <1>6, <2>1, <2>2
  <2>4. CASE c # k
    BY SMTT(60), <1>6, <1>7, <2>1, <2>2, <2>3, <2>4
  <2>5. CASE c = k
    <3>1. Lined(Append(accepted[k], e), Append(queue[k], e), batch[k])
      BY <1>5, <1>6, <2>1, <2>5, LinedAccept
    <3>2. Rising(Append(accepted[k], e))
      <4>1. \A i \in 1..Len(accepted[k]) : accepted[k][i] < e
        BY <2>3, <2>5 DEF e
      <4>2. Rising(accepted[k])
        BY <2>1, <2>5
      <4> QED BY <1>5, <1>6, <4>1, <4>2, RisingAppend
    <3>3. Len(queue[k]) + 1 <= Capacity
      BY <1>3, <1>5, Parameters
    <3>4. ASSUME NEW i \in 1..Len(accepted[k]) + 1 PROVE Append(accepted[k], e)[i] <= Fired + 1
      <4>1. CASE i = Len(accepted[k]) + 1
        BY <1>6, <1>8, <4>1 DEF e
      <4>2. CASE i \in 1..Len(accepted[k])
        BY <1>6, <1>8, <2>2, <2>3, <2>5, <4>2
      <4>3. i = Len(accepted[k]) + 1 \/ i \in 1..Len(accepted[k])
        BY <1>5
      <4> QED BY <4>1, <4>2, <4>3
    <3> QED BY <1>7, <1>8, <2>1, <2>5, <3>1, <3>2, <3>3, <3>4
  <2> QED BY <2>4, <2>5
<1>14. Logged'
  <2>1. ASSUME NEW c \in Kinds PROVE Before(c)' = Before(c)
    <3>1. Before(c)' = Len(accepted'[c]) - Len(queue'[c]) - Len(batch[c])
      BY <1>4 DEF Before
    <3>2. Len(accepted[c]) \in Nat /\ Len(queue[c]) \in Nat /\ Len(batch[c]) \in Nat
      BY <1>5
    <3>3. Len(accepted'[c]) - Len(queue'[c]) = Len(accepted[c]) - Len(queue[c])
      <4>1. CASE c # k
        BY <1>17, <4>1
      <4>2. CASE c = k
        <5>1. Len(accepted'[c]) = Len(accepted[c]) + 1 /\ Len(queue'[c]) = Len(queue[c]) + 1
          BY <1>17, <4>2
        <5> QED BY <3>2, <5>1
      <4> QED BY <4>1, <4>2
    <3> QED BY <3>1, <3>3 DEF Before
  <2>2. ASSUME NEW c \in Kinds, NEW r, NEW m, Behind(c, m, r) PROVE Behind(c, m, r)'
    BY <1>4, <2>1, <2>2 DEF Behind, Past, Present, Turned, Dispatches, Live
  <2>3. ASSUME NEW c \in Kinds, NEW m \in 1..Len(accepted[c])
        PROVE  m \in 1..Len(accepted'[c]) /\ accepted'[c][m] = accepted[c][m]
    <3>1. CASE c # k
      BY <1>7, <3>1
    <3>2. CASE c = k
      <4>1. accepted'[k][m] = accepted[k][m]
        BY <1>7, <1>8, <3>2
      <4>2. Len(accepted[k]) \in Nat /\ Len(accepted'[k]) = Len(accepted[k]) + 1
        BY <1>5, <1>17
      <4>3. m \in 1..Len(accepted'[k])
        BY <3>2, <4>2
      <4> QED BY <3>2, <4>1, <4>3
    <3> QED BY <3>1, <3>2
  <2> QED BY <1>4, <2>2, <2>3, LoggedKept
<1>15. Holders' /\ Noted'
  BY <1>4 DEF EventsInv, Holders, Noted, Dispatches, Live
<1>16. Served'
  BY <1>4 DEF EventsInv, Served, Dispatches, Live, Passed, Turned, CalledFor
<1> QED BY <1>10, <1>11, <1>13, <1>14, <1>15, <1>16 DEF EventsInv

\* init does nothing to the lists: before the first one they are empty.
LEMMA InitializedIs ==
  ASSUME EventsInv, Initialized
  PROVE  enabled' = TRUE /\ queue' = queue
BY DEF EventsInv, Phases, Initialized

LEMMA QuitStep == EventsInv /\ Quit => EventsInv'
<1> SUFFICES ASSUME EventsInv, Quit PROVE EventsInv'
  OBVIOUS
<1>1. /\ enabled' = enabled /\ handlers' = handlers /\ next_token' = next_token /\ running' = FALSE
      /\ dispatching' = dispatching /\ queue' = queue /\ batch' = batch /\ tokens' = tokens
      /\ todo' = todo /\ at' = at /\ loop' = loop /\ pc' = pc /\ regs' = regs /\ fresh' = fresh
      /\ accepted' = accepted /\ log' = log
  BY DEF Quit, pollVars, history
<1>2. Types' /\ Phases' /\ Flows'
  BY <1>1 DEF EventsInv, Types, Phases, Flows, Fired
<1>3. Holders' /\ Noted' /\ Served'
  BY <1>1 DEF EventsInv, Holders, Noted, Served, Dispatches, Live, Passed, Turned, CalledFor
<1>4. Logged'
  BY <1>1, LoggedKept DEF Behind, Past, Present, Turned, Before, Dispatches, Live
<1> QED BY <1>2, <1>3, <1>4 DEF EventsInv

LEMMA RunStep == EventsInv /\ Run => EventsInv'
<1> SUFFICES ASSUME EventsInv, Run PROVE EventsInv'
  OBVIOUS
<1>1. /\ handlers' = handlers /\ next_token' = next_token /\ enabled' = TRUE
      /\ dispatching' = dispatching /\ queue' = queue /\ batch' = batch /\ tokens' = tokens
      /\ todo' = todo /\ at' = at /\ regs' = regs /\ fresh' = fresh
      /\ accepted' = accepted /\ log' = log
  BY InitializedIs DEF Run, pollVars, history
<1>2. Types /\ Phases
  BY DEF EventsInv
<1>3. /\ running' \in BOOLEAN /\ loop' \in BOOLEAN
      /\ pc' = pc \/ (pc = "main" /\ pc' = "looptest")
  BY <1>2 DEF Run, InProgram, Types, Phases
<1>4. Dispatches' = Dispatches /\ (pc' = "drain" <=> pc = "drain") /\ (pc' = "callback" <=> pc = "callback")
      /\ (pc' = "dispatch" <=> pc = "dispatch")
  BY <1>3 DEF Dispatches
<1>5. Types' /\ Phases'
  BY <1>1, <1>2, <1>3 DEF Types, Phases
<1>6. Flows'
  BY <1>1 DEF EventsInv, Flows, Fired
<1>7. Holders' /\ Noted' /\ Served'
  BY <1>1, <1>4 DEF EventsInv, Holders, Noted, Served, Live, Passed, Turned, CalledFor
<1>8. Logged'
  BY ZenonT(60), <1>1, <1>4, LoggedKept DEF Behind, Past, Present, Turned, Before, Live
<1> QED BY <1>5, <1>6, <1>7, <1>8 DEF EventsInv

LEMMA OffStep == EventsInv /\ Off => EventsInv'
<1> SUFFICES ASSUME EventsInv, Off PROVE EventsInv'
  OBVIOUS
<1>1. PICK h \in Live : handlers' = [handlers EXCEPT ![h] = Free]
  BY DEF Off
<1>2. /\ enabled' = enabled /\ next_token' = next_token /\ running' = running
      /\ dispatching' = dispatching /\ queue' = queue /\ batch' = batch /\ tokens' = tokens
      /\ todo' = todo /\ at' = at /\ loop' = loop /\ pc' = pc /\ regs' = regs /\ fresh' = fresh
      /\ accepted' = accepted /\ log' = log
  BY DEF Off, pollVars, history
<1>3. Types /\ Phases /\ Flows /\ Holders /\ Noted /\ Logged /\ Served
  BY DEF EventsInv
<1>4. /\ handlers \in [Slots -> Handler] /\ h \in Slots /\ handlers'[h] = Free
      /\ \A g \in Slots : g # h => handlers'[g] = handlers[g]
  BY <1>1, <1>3 DEF Types, Live
<1>5. \A g \in Live' : g \in Live /\ handlers'[g] = handlers[g]
  BY <1>4 DEF Live, Free
<1>6. Types'
  <2>1. Free \in Handler
    BY Parameters DEF Free, Handler, Kinds
  <2>2. handlers' \in [Slots -> Handler]
    BY <1>1, <1>4, <2>1
  <2> QED BY <1>2, <1>3, <2>2 DEF Types
<1>7. Phases' /\ Flows'
  BY <1>2, <1>3 DEF Phases, Flows, Fired
<1>8. Holders'
  <2>1. regs \in Nat
    BY <1>3 DEF Types
  <2>2. ASSUME regs <= MaxToken, NEW g \in Slots PROVE tokens[g] <= regs /\ handlers'[g].token <= regs
    BY <1>3, <1>4, <2>1, <2>2 DEF Holders, Free
  <2> QED BY <1>2, <1>3, <1>5, <2>2 DEF Holders
<1>9. Noted' /\ Served'
  <2>1. Dispatches' = Dispatches
    BY <1>2 DEF Dispatches
  <2>2. Noted'
    BY <1>2, <1>3, <1>5, <2>1 DEF Noted
  <2>3. ASSUME NEW k, NEW j, NEW g, Passed(k, j, g)' PROVE Passed(k, j, g)
    BY <1>2, <2>3 DEF Passed, Turned
  <2>4. ASSUME NEW e, NEW r, CalledFor(e, r) PROVE CalledFor(e, r)'
    BY <1>2, <2>4 DEF CalledFor
  <2>5. Served'
    BY <1>2, <1>3, <1>5, <2>1, <2>3, <2>4 DEF Served
  <2> QED BY <2>2, <2>5
<1>10. Logged'
  <2>1. ASSUME NEW k \in Kinds, NEW m, NEW r, Behind(k, m, r) PROVE Behind(k, m, r)'
    BY <1>2, <1>5, <2>1 DEF Behind, Past, Present, Turned, Before, Dispatches
  <2>2. LogBehind'
    BY <1>2, <2>1, BehindStep
  <2> QED BY <1>2, <1>3, <1>5, <2>2 DEF Logged, OnceInOrder
<1> QED BY <1>6, <1>7, <1>8, <1>9, <1>10 DEF EventsInv

LEMMA SubscribeStep == EventsInv /\ Subscribe => EventsInv'
<1> SUFFICES ASSUME EventsInv, Subscribe PROVE EventsInv'
  OBVIOUS
<1>1. /\ enabled' = TRUE /\ running' = running
      /\ dispatching' = dispatching /\ queue' = queue /\ batch' = batch /\ tokens' = tokens
      /\ todo' = todo /\ at' = at /\ loop' = loop /\ pc' = pc
      /\ accepted' = accepted /\ log' = log /\ pc # "drain"
  BY InitializedIs DEF Subscribe, InProgram, pollVars, history
<1>2. Types /\ Phases /\ Flows /\ Holders /\ Noted /\ Logged /\ Served
  BY DEF EventsInv
<1>3. Flows'
  BY <1>1, <1>2 DEF Flows, Fired
<1>4. Phases'
  BY <1>1, <1>2 DEF Phases
<1>5. CASE UNCHANGED <<handlers, next_token, regs, fresh>>
  <2>1. Types' /\ Holders' /\ Noted' /\ Served'
    BY <1>1, <1>2, <1>5 DEF Types, Holders, Noted, Served, Dispatches, Live, Passed, Turned, CalledFor
  <2>2. Logged'
    BY <1>1, <1>5, LoggedKept DEF Behind, Past, Present, Turned, Before, Dispatches, Live
  <2> QED BY <1>3, <1>4, <2>1, <2>2 DEF EventsInv
<1>6. CASE Live # Slots
  <2> DEFINE h == CHOOSE h \in Slots \ Live : \A g \in Slots \ Live : h <= g
             t == AllocateToken
  <2>1. PICK k \in Kinds :
           /\ handlers' = [handlers EXCEPT ![h] = [token |-> t, kind |-> k, reg |-> regs + 1]]
           /\ next_token' = NextToken(t)
           /\ regs' = regs + 1
           /\ fresh' = fresh \cup {regs + 1}
    BY <1>6 DEF Subscribe
  <2>2. h \in Slots /\ h \notin Live
    <3> DEFINE A == Slots \ Live
               P(x) == \A g \in A : x <= g
    <3>1. A \in SUBSET Nat /\ A # {}
      BY <1>6, Parameters DEF Live, Slots
    <3>2. PICK a \in A : P(a)
      <4> HIDE DEF A
      <4> QED BY <3>1, LeastElement
    <3> HIDE DEF P
    <3>3. (CHOOSE x \in A : P(x)) \in A
      BY <3>2
    <3>4. h = CHOOSE x \in A : P(x)
      BY DEF P
    <3> QED BY <3>3, <3>4
  <2>3. /\ t \in Unheld /\ (next_token \in Unheld => t = next_token)
        /\ t \in 1..MaxToken
    <3>1. handlers \in [Slots -> [token : 0..MaxToken, kind : Kinds, reg : Nat]] /\ next_token \in 1..MaxToken
      BY <1>2 DEF Types, Handler
    <3> QED BY <1>6, <3>1, TokenIs DEF Unheld
  <2> HIDE DEF h, t
  <2>4. /\ handlers \in [Slots -> Handler] /\ regs \in Nat /\ fresh \in SUBSET (1..regs)
        /\ next_token \in 1..MaxToken /\ tokens \in [Slots -> 0..MaxToken]
        /\ MaxToken \in Nat
    BY <1>2, Parameters DEF Types
  <2>5. /\ handlers'[h] = [token |-> t, kind |-> k, reg |-> regs + 1]
        /\ \A g \in Slots : g # h => handlers'[g] = handlers[g]
    BY <2>1, <2>2, <2>4
  <2>6. handlers'[h].token = t /\ handlers'[h].reg = regs + 1 /\ handlers'[h].kind = k
    BY <2>5
  <2>7. /\ \A g \in Live : g # h /\ g \in Live' /\ handlers'[g] = handlers[g]
        /\ \A g \in Live' : g = h \/ (g \in Live /\ g # h /\ handlers'[g] = handlers[g])
    BY <2>2, <2>5 DEF Live
  <2>8. \A g \in Live : handlers[g].reg \in 1..regs /\ handlers[g].token # t
    BY <1>2, <2>3 DEF Holders, Unheld, Live
  <2>9. \A g \in Live : handlers[g].reg # regs + 1 /\ handlers[g].reg \in 1 .. regs + 1
    <3> TAKE g \in Live
    <3>1. handlers[g].reg \in 1..regs
      BY <2>8
    <3> QED BY <2>4, <3>1
  <2>10. Types'
    <3>1. [token |-> t, kind |-> k, reg |-> regs + 1] \in Handler
      BY <2>3, <2>4 DEF Handler
    <3>2. handlers' \in [Slots -> Handler]
      BY <2>1, <2>4, <3>1
    <3>3. next_token' \in 1..MaxToken
      BY <2>1, <2>3, <2>4 DEF NextToken
    <3>4. regs' \in Nat /\ fresh' \in SUBSET (1..regs')
      BY <2>1, <2>4
    <3> QED BY <1>1, <1>2, <3>2, <3>3, <3>4 DEF Types
  <2>11. ASSUME regs + 1 <= MaxToken PROVE t = regs + 1
    <3>1. regs < MaxToken /\ regs <= MaxToken
      BY <2>4, <2>11
    <3>2. next_token = regs + 1
      BY <1>2, <3>1 DEF Holders
    <3>3. \A g \in Slots : handlers[g].token # next_token
      <4> TAKE g \in Slots
      <4>1. handlers[g].token <= regs /\ handlers[g].token \in Nat
        BY <1>2, <2>4, <3>1 DEF Holders, Handler
      <4> QED BY <2>4, <3>2, <4>1
    <3>4. next_token \in Unheld
      BY <2>4, <3>3 DEF Unheld
    <3> QED BY <2>3, <3>2, <3>4
  <2>12. Holders'
    <3>1. \A g \in Live' : handlers'[g].reg \in 1..regs'
      BY <2>1, <2>4, <2>6, <2>7, <2>9
    <3>2. ASSUME NEW f \in Live', NEW g \in Live', f # g
          PROVE  handlers'[f].token # handlers'[g].token /\ handlers'[f].reg # handlers'[g].reg
      <4>1. CASE f = h
        <5>1. g \in Live /\ handlers'[g] = handlers[g]
          BY <2>7, <3>2, <4>1
        <5> QED BY <2>6, <2>8, <2>9, <4>1, <5>1
      <4>2. CASE g = h
        <5>1. f \in Live /\ handlers'[f] = handlers[f]
          BY <2>7, <3>2, <4>2
        <5> QED BY <2>6, <2>8, <2>9, <4>2, <5>1
      <4>3. CASE f # h /\ g # h
        BY <1>2, <2>7, <3>2, <4>3 DEF Holders
      <4> QED BY <4>1, <4>2, <4>3
    <3>3. ASSUME regs + 1 <= MaxToken, NEW g \in Slots PROVE tokens[g] <= regs + 1 /\ handlers'[g].token <= regs + 1
      <4>1. regs <= MaxToken
        BY <2>4, <3>3
      <4>2. tokens[g] <= regs /\ handlers[g].token <= regs
        BY <1>2, <4>1 DEF Holders
      <4>3. tokens[g] \in Nat /\ handlers[g].token \in Nat
        BY <2>4 DEF Handler
      <4>4. handlers'[g].token = handlers[g].token \/ handlers'[g].token = regs + 1
        BY <2>5, <2>6, <2>11, <3>3
      <4> QED BY <2>4, <4>2, <4>3, <4>4
    <3>5. ASSUME regs + 1 <= MaxToken, NEW g \in Live' PROVE handlers'[g].token = handlers'[g].reg
      <4>1. regs <= MaxToken
        BY <2>4, <3>5
      <4> QED BY <1>2, <2>6, <2>7, <2>11, <3>5, <4>1 DEF Holders
    <3>4. ASSUME regs + 1 < MaxToken PROVE next_token' = (regs + 1) + 1
      <4>1. t = regs + 1 /\ t # MaxToken
        BY <2>4, <2>11, <3>4
      <4> QED BY <2>1, <4>1 DEF NextToken
    <3> QED BY <1>1, <2>1, <3>1, <3>2, <3>3, <3>4, <3>5 DEF Holders
  <2>13. Noted'
    <3>1. ASSUME Dispatches, regs + 1 <= MaxToken, NEW g \in Slots PROVE tokens[g] \notin fresh \cup {regs + 1}
      <4>1. regs <= MaxToken
        BY <2>4, <3>1
      <4>2. tokens[g] \notin fresh
        BY <1>2, <3>1, <4>1 DEF Noted
      <4>3. tokens[g] <= regs /\ tokens[g] \in Nat
        BY <1>2, <2>4, <4>1 DEF Holders
      <4> QED BY <2>4, <4>2, <4>3
    <3>2. ASSUME Dispatches, NEW g \in Live', handlers'[g].reg \notin fresh' PROVE tokens[g] = handlers'[g].token
      BY <1>2, <2>1, <2>6, <2>7, <3>2 DEF Noted
    <3> QED BY <1>1, <2>1, <3>1, <3>2 DEF Noted, Dispatches
  <2>14. Served'
    <3>1. ASSUME NEW g \in Live', handlers'[g].reg \notin fresh'
          PROVE  g \in Live /\ handlers'[g] = handlers[g] /\ handlers[g].reg \notin fresh
      BY <2>1, <2>6, <2>7, <3>1
    <3> QED BY <1>1, <1>2, <3>1 DEF Served, Dispatches, Passed, Turned, CalledFor
  <2>15. \A n \in 1..Len(log) : log[n].reg <= regs /\ log[n].reg \in Nat
    <3> TAKE n \in 1..Len(log)
    <3>1. log[n] \in Entry
      BY <1>2, ElementOfSeq DEF Types
    <3> QED BY <1>2, <3>1 DEF Logged, Entry
  <2>16. \A n \in 1..Len(log) : log[n].reg <= regs + 1 /\ log[n].reg # regs + 1
    <3> TAKE n \in 1..Len(log)
    <3>1. log[n].reg <= regs /\ log[n].reg \in Nat
      BY <2>15
    <3> QED BY <2>4, <3>1
  <2>17. Logged'
    <3>1. ASSUME NEW c \in Kinds, NEW n \in 1..Len(log), NEW m, Behind(c, m, log[n].reg) PROVE Behind(c, m, log[n].reg)'
      <4>1. Past(c)' = Past(c) /\ Before(c)' = Before(c)
        BY <1>1 DEF Past, Before, Dispatches
      <4>2. CASE m <= Past(c)
        BY <1>1, <4>1, <4>2 DEF Behind
      <4>3. CASE Present(c, m, log[n].reg)
        <5>1. \A g \in Live' : handlers'[g].reg = log[n].reg => Turned(g)'
          BY <1>1, <2>6, <2>7, <2>16, <4>3 DEF Present, Turned
        <5>2. Present(c, m, log[n].reg)'
          BY <1>1, <4>1, <4>3, <5>1 DEF Present, Dispatches
        <5> QED BY <5>2 DEF Behind
      <4> QED BY <3>1, <4>2, <4>3 DEF Behind
    <3>2. LogBehind'
      BY <1>1, <3>1, BehindStep
    <3>3. \A n \in 1..Len(log), g \in Live' : log[n].reg = handlers'[g].reg => log[n].kind = handlers'[g].kind
      BY <1>2, <2>6, <2>7, <2>16 DEF Logged
    <3> QED BY <1>1, <1>2, <2>1, <2>16, <3>2, <3>3 DEF Logged, OnceInOrder
  <2> QED BY <1>3, <1>4, <2>10, <2>12, <2>13, <2>14, <2>17 DEF EventsInv
<1> QED BY <1>5, <1>6 DEF Subscribe

LEMMA PollBeginStep ==
  ASSUME EventsInv, PollBegin, running' = running, loop' = loop, ~dispatching
  PROVE  EventsInv'
<1>1. /\ enabled' = TRUE /\ queue' = queue /\ fresh' = {} /\ tokens' = tokens /\ at' = at
      /\ handlers' = handlers /\ next_token' = next_token /\ regs' = regs
      /\ accepted' = accepted /\ log' = log
  BY InitializedIs DEF PollBegin
<1>2. Types /\ Phases /\ Flows /\ Holders /\ Noted /\ Logged /\ Served
  BY DEF EventsInv
<1>3. pc # "drain" /\ ~Dispatches
  BY <1>2 DEF Phases, Dispatches
<1>4. Holders'
  BY <1>1, <1>2 DEF Holders, Live
<1>5. CASE queue["wheel"] = <<>> /\ queue["keyboard"] = <<>>
  <2>1. /\ dispatching' = FALSE /\ pc' \in {"looptest", "main"} /\ batch' = batch /\ todo' = todo
    BY <1>1, <1>5 DEF PollBegin, PollReturnEmpty, Caller
  <2>2. Types' /\ Phases' /\ Flows'
    BY <1>1, <1>2, <2>1 DEF Types, Phases, Flows, Fired
  <2>3. ~Dispatches' /\ pc' # "drain"
    BY <2>1 DEF Dispatches
  <2>4. Noted' /\ Served'
    BY <2>3 DEF Noted, Served
  <2>5. Logged'
    BY <1>1, <1>3, <2>1, <2>3, LoggedKept DEF Behind, Past, Present, Before
  <2> QED BY <1>4, <2>2, <2>4, <2>5 DEF EventsInv
<1>6. CASE ~(queue["wheel"] = <<>> /\ queue["keyboard"] = <<>>)
  <2>1. /\ dispatching' = TRUE /\ pc' = "drain" /\ batch' = NoItems
        /\ todo' = [k \in Kinds |-> Smaller(Len(queue[k]), MaxBatch)]
    BY <1>1, <1>6 DEF PollBegin
  <2>2. Len(<<>>) = 0 /\ <<>> \in Seq(Nat)
    BY EmptySeq
  <2>3. ASSUME NEW k \in Kinds
        PROVE  /\ batch'[k] = <<>> /\ Len(batch'[k]) = 0
               /\ todo'[k] \in Nat /\ todo'[k] <= Len(queue[k]) /\ todo'[k] <= MaxBatch
    <3>1. Len(queue[k]) \in Nat /\ MaxBatch \in Nat
      BY <1>2, Lengths, Parameters
    <3>2. todo'[k] = Smaller(Len(queue[k]), MaxBatch)
      BY <2>1
    <3>3. todo'[k] \in Nat /\ todo'[k] <= Len(queue[k]) /\ todo'[k] <= MaxBatch
      BY <3>1, <3>2 DEF Smaller
    <3> QED BY <2>1, <2>2, <3>3 DEF NoItems
  <2>4. Types'
    <3>1. todo' \in [Kinds -> Nat]
      BY <2>1, <2>3
    <3>2. batch' \in [Kinds -> Seq(Nat)]
      BY <2>1, <2>2 DEF NoItems
    <3> QED BY <1>1, <1>2, <2>1, <3>1, <3>2 DEF Types
  <2>5. Phases'
    <3>1. \A k \in Kinds : todo'[k] <= Len(queue[k]) /\ Len(batch'[k]) + todo'[k] <= MaxBatch
      <4> TAKE k \in Kinds
      <4>1. Len(batch'[k]) = 0 /\ todo'[k] \in Nat /\ todo'[k] <= Len(queue[k]) /\ todo'[k] <= MaxBatch
        BY <2>3
      <4> QED BY <4>1
    <3> QED BY <1>1, <2>1, <3>1 DEF Phases
  <2>6. Flows'
    <3> SUFFICES ASSUME NEW k \in Kinds
                 PROVE  Len(batch'[k]) <= MaxBatch /\ Lined(accepted[k], queue[k], batch'[k])
      BY <1>1, <1>2 DEF Flows, Fired
    <3>1. queue[k] \in Seq(Nat) /\ batch[k] \in Seq(Nat) /\ accepted[k] \in Seq(Nat)
          /\ Lined(accepted[k], queue[k], batch[k])
      BY <1>2, Lengths DEF Flows
    <3>2. Lined(accepted[k], queue[k], <<>>)
      BY <3>1, LinedEmpty
    <3> QED BY <2>3, <3>2, Parameters
  <2>7. ~Dispatches' /\ pc' = "drain"
    BY <2>1 DEF Dispatches
  <2>8. Noted' /\ Served'
    BY <2>7 DEF Noted, Served
  <2>9. Logged'
    <3>1. ASSUME NEW k \in Kinds, NEW m, NEW r, Behind(k, m, r) PROVE Behind(k, m, r)'
      <4>1. Past(k) = Before(k) + Len(batch[k])
        BY <1>3 DEF Past
      <4>2. Past(k)' = Before(k)' + 0
        BY <2>7 DEF Past
      <4>3. Before(k) = Len(accepted[k]) - Len(queue[k]) - Len(batch[k])
            /\ Before(k)' = Len(accepted[k]) - Len(queue[k]) - Len(batch'[k])
        BY <1>1 DEF Before
      <4>4. Len(batch'[k]) = 0 /\ Len(accepted[k]) \in Nat /\ Len(queue[k]) \in Nat /\ Len(batch[k]) \in Nat
        BY <1>2, <2>3, Lengths
      <4>5. Past(k)' = Past(k)
        BY <4>1, <4>2, <4>3, <4>4
      <4> QED BY <1>3, <3>1, <4>5 DEF Behind, Present
    <3> QED BY <1>1, <3>1, LoggedKept
  <2> QED BY <1>4, <2>4, <2>5, <2>6, <2>8, <2>9 DEF EventsInv
<1> QED BY <1>5, <1>6

\* Nothing changes.
LEMMA Stutter == EventsInv /\ UNCHANGED vars => EventsInv'
<1> SUFFICES ASSUME EventsInv, UNCHANGED vars PROVE EventsInv'
  OBVIOUS
<1> USE DEF vars
<1>1. Types' /\ Phases' /\ Flows'
  BY DEF EventsInv, Types, Phases, Flows, Fired
<1>2. Holders' /\ Noted' /\ Served'
  BY DEF EventsInv, Holders, Noted, Served, Dispatches, Live, Passed, Turned, CalledFor
<1>3. Logged'
  BY LoggedKept DEF Behind, Past, Present, Turned, Before, Dispatches, Live
<1> QED BY <1>1, <1>2, <1>3 DEF EventsInv

LEMMA PollStep == EventsInv /\ Poll => EventsInv'
BY PollBeginStep, Stutter DEF Poll

LEMMA LoopTestStep == EventsInv /\ LoopTest => EventsInv'
<1> SUFFICES ASSUME EventsInv, LoopTest PROVE EventsInv'
  OBVIOUS
<1>1. CASE running /\ dispatching
  BY <1>1, Stutter DEF LoopTest
<1>2. CASE running /\ ~dispatching
  BY <1>2, PollBeginStep DEF LoopTest
<1>3. CASE ~running
  <2>1. /\ pc = "looptest" /\ pc' = "main" /\ loop' = FALSE
        /\ enabled' = enabled /\ handlers' = handlers /\ next_token' = next_token /\ running' = running
        /\ dispatching' = dispatching /\ queue' = queue /\ batch' = batch /\ tokens' = tokens
        /\ todo' = todo /\ at' = at /\ regs' = regs /\ fresh' = fresh
        /\ accepted' = accepted /\ log' = log
    BY <1>3 DEF LoopTest, pollVars, history
  <2>2. ~Dispatches /\ ~Dispatches'
    BY <2>1 DEF Dispatches
  <2>3. Types' /\ Phases' /\ Flows'
    BY <2>1 DEF EventsInv, Types, Phases, Flows, Fired
  <2>4. Holders' /\ Noted' /\ Served'
    BY <2>1, <2>2 DEF EventsInv, Holders, Noted, Served, Live
  <2>5. Logged'
    BY <2>1, <2>2, LoggedKept DEF Behind, Past, Present, Before
  <2> QED BY <2>3, <2>4, <2>5 DEF EventsInv
<1> QED BY <1>1, <1>2, <1>3

LEMMA DrainStep == EventsInv /\ Drain => EventsInv'
<1> SUFFICES ASSUME EventsInv, Drain PROVE EventsInv'
  OBVIOUS
<1>1. /\ pc = "drain" /\ enabled' = enabled /\ handlers' = handlers /\ next_token' = next_token
      /\ dispatching' = dispatching /\ running' = running /\ loop' = loop /\ regs' = regs
      /\ fresh' = fresh /\ accepted' = accepted /\ log' = log
  BY DEF Drain, history
<1>2. Types /\ Phases /\ Flows /\ Holders /\ Noted /\ Logged /\ Served
  BY DEF EventsInv
<1>3. ~Dispatches /\ fresh = {} /\ dispatching
  BY <1>1, <1>2 DEF Dispatches, Phases
<1>4. ASSUME NEW k \in Kinds
      PROVE  /\ queue[k] \in Seq(Nat) /\ batch[k] \in Seq(Nat) /\ accepted[k] \in Seq(Nat)
             /\ Len(queue[k]) \in Nat /\ Len(batch[k]) \in Nat /\ Len(accepted[k]) \in Nat
             /\ todo[k] \in Nat /\ todo[k] <= Len(queue[k]) /\ Len(batch[k]) + todo[k] <= MaxBatch
             /\ Len(queue[k]) <= Capacity
             /\ Lined(accepted[k], queue[k], batch[k])
  BY <1>1, <1>2, Lengths DEF Types, Phases, Flows
<1>5. CASE \E k \in Kinds : todo[k] > 0
  <2> DEFINE k == IF todo["wheel"] > 0 THEN "wheel" ELSE "keyboard"
  <2>1. /\ batch' = [batch EXCEPT ![k] = Append(batch[k], Head(queue[k]))]
        /\ queue' = [queue EXCEPT ![k] = Tail(queue[k])]
        /\ todo' = [todo EXCEPT ![k] = todo[k] - 1]
        /\ tokens' = tokens /\ at' = at /\ pc' = pc
    BY <1>5 DEF Drain, Taken
  <2>2. k \in Kinds /\ todo[k] > 0
    BY <1>5, KindsAre
  <2> HIDE DEF k
  <2>3. 0 < Len(queue[k])
    BY <1>4, <2>2
  <2>4. /\ Lined(accepted[k], Tail(queue[k]), Append(batch[k], Head(queue[k])))
        /\ Tail(queue[k]) \in Seq(Nat) /\ Append(batch[k], Head(queue[k])) \in Seq(Nat)
        /\ Len(Tail(queue[k])) = Len(queue[k]) - 1 /\ Len(Append(batch[k], Head(queue[k]))) = Len(batch[k]) + 1
    BY <1>4, <2>2, <2>3, LinedTake
  <2>5. queue \in [Kinds -> Seq(Nat)] /\ batch \in [Kinds -> Seq(Nat)] /\ todo \in [Kinds -> Nat]
    BY <1>2 DEF Types
  <2>6. /\ queue'[k] = Tail(queue[k]) /\ batch'[k] = Append(batch[k], Head(queue[k])) /\ todo'[k] = todo[k] - 1
        /\ \A c \in Kinds : c # k => queue'[c] = queue[c] /\ batch'[c] = batch[c] /\ todo'[c] = todo[c]
    BY <2>1, <2>2, <2>5
  <2>7. Types'
    <3>1. queue' \in [Kinds -> Seq(Nat)] /\ batch' \in [Kinds -> Seq(Nat)]
      BY <2>1, <2>4, <2>5
    <3>2. todo[k] - 1 \in Nat
      BY <1>4, <2>2
    <3>3. todo' \in [Kinds -> Nat]
      BY <2>1, <2>5, <3>2
    <3> QED BY <1>1, <1>2, <2>1, <3>1, <3>3 DEF Types
  <2>8. ASSUME NEW c \in Kinds
        PROVE  /\ todo'[c] <= Len(queue'[c]) /\ Len(batch'[c]) + todo'[c] <= MaxBatch
               /\ Len(queue'[c]) <= Capacity /\ Len(batch'[c]) <= MaxBatch
               /\ Lined(accepted[c], queue'[c], batch'[c])
               /\ Before(c)' = Before(c)
    <3>1. /\ Before(c) = Len(accepted[c]) - Len(queue[c]) - Len(batch[c])
          /\ Before(c)' = Len(accepted[c]) - Len(queue'[c]) - Len(batch'[c])
      BY <1>1 DEF Before
    <3>2. CASE c # k
      <4>1. queue'[c] = queue[c] /\ batch'[c] = batch[c] /\ todo'[c] = todo[c]
        BY <2>6, <3>2
      <4>2. Len(batch[c]) <= MaxBatch
        BY <1>2 DEF Flows
      <4> QED BY <1>4, <3>1, <4>1, <4>2
    <3>3. CASE c = k
      <4>1. Len(queue'[k]) = Len(queue[k]) - 1 /\ Len(batch'[k]) = Len(batch[k]) + 1 /\ todo'[k] = todo[k] - 1
        BY <2>4, <2>6
      <4>2. /\ Len(queue[k]) \in Nat /\ Len(batch[k]) \in Nat /\ Len(accepted[k]) \in Nat /\ todo[k] \in Nat
            /\ todo[k] <= Len(queue[k]) /\ Len(batch[k]) + todo[k] <= MaxBatch /\ Len(queue[k]) <= Capacity
        BY <1>4, <2>2
      <4>3. MaxBatch \in Nat /\ Capacity \in Nat /\ todo[k] > 0
        BY <2>2, Parameters
      <4> DEFINE q == Len(queue[k])
                 b == Len(batch[k])
                 t == todo[k]
      <4> HIDE DEF q, b, t
      <4>4. /\ todo'[k] <= Len(queue'[k]) /\ Len(batch'[k]) + todo'[k] <= MaxBatch
            /\ Len(queue'[k]) <= Capacity /\ Len(batch'[k]) <= MaxBatch
        <5>1. /\ Len(queue'[k]) = q - 1 /\ Len(batch'[k]) = b + 1 /\ todo'[k] = t - 1
          BY <4>1 DEF q, b, t
        <5>2. /\ q \in Nat /\ b \in Nat /\ t \in Nat /\ t > 0
              /\ t <= q /\ b + t <= MaxBatch /\ q <= Capacity
          BY <4>2, <4>3 DEF q, b, t
        <5>3. t - 1 <= q - 1 /\ (b + 1) + (t - 1) <= MaxBatch /\ q - 1 <= Capacity /\ b + 1 <= MaxBatch
          BY <4>3, <5>2
        <5> QED BY <5>1, <5>3
      <4>5. Before(c)' = Before(c)
        <5>1. Len(accepted[k]) - Len(queue[k]) - Len(batch[k]) = Len(accepted[k]) - (Len(queue[k]) - 1) - (Len(batch[k]) + 1)
          BY <4>2
        <5> QED BY <3>1, <3>3, <4>1, <5>1
      <4> QED BY <2>4, <2>6, <3>3, <4>4, <4>5
    <3> QED BY <3>2, <3>3
  <2>9. Phases'
    <3>1. queue # NoItems
      <4>1. Len(NoItems[k]) = 0
        BY <2>2, EmptySeq DEF NoItems
      <4>2. Len(queue[k]) # 0
        BY <1>4, <2>2, <2>3
      <4> QED BY <4>1, <4>2
    <3>2. enabled
      BY <1>2, <3>1 DEF Phases, Types
    <3> QED BY <1>1, <1>3, <2>1, <2>8, <3>2 DEF Phases
  <2>10. Flows'
    BY <1>1, <1>2, <2>8 DEF Flows, Fired
  <2>11. Holders' /\ Noted' /\ Served'
    <3>1. ~Dispatches'
      BY <1>1, <2>1 DEF Dispatches
    <3> QED BY <1>1, <1>2, <2>1, <3>1 DEF Holders, Noted, Served, Live
  <2>12. Logged'
    <3>1. \A c \in Kinds : Past(c) = Before(c) + 0 /\ Past(c)' = Before(c)' + 0
      BY <1>1, <2>1 DEF Past
    <3>2. \A c \in Kinds : Past(c)' = Past(c)
      BY <2>8, <3>1
    <3> QED BY <1>1, <1>3, <3>2, LoggedKept DEF Behind, Present
  <2> QED BY <2>7, <2>9, <2>10, <2>11, <2>12 DEF EventsInv
<1>6. CASE ~\E k \in Kinds : todo[k] > 0
  <2>1. /\ tokens' = [h \in Slots |-> handlers[h].token]
        /\ at' = [kind |-> "wheel", i |-> 1, h |-> 1]
        /\ pc' = "dispatch"
        /\ queue' = queue /\ batch' = batch /\ todo' = todo
    BY <1>6 DEF Drain
  <2>2. handlers \in [Slots -> Handler]
    BY <1>2 DEF Types
  <2>3. \A h \in Slots : tokens'[h] = handlers[h].token /\ handlers[h].token \in 0..MaxToken
    BY <2>1, <2>2 DEF Handler
  <2>4. Types'
    <3>1. tokens' \in [Slots -> 0..MaxToken]
      BY <2>1, <2>3
    <3>2. at' \in [kind : Kinds, i : 1 .. MaxBatch + 1, h : Slots]
      BY <2>1, Parameters DEF Slots, Kinds
    <3> QED BY <1>1, <1>2, <2>1, <3>1, <3>2 DEF Types
  <2>5. Phases'
    <3>1. at'.i <= Len(batch[at'.kind]) + 1
      <4>1. at'.i = 1 /\ at'.kind = "wheel" /\ Len(batch["wheel"]) \in Nat
        BY <1>4, <2>1, KindsAre
      <4> QED BY <4>1
    <3> QED BY <1>1, <1>2, <1>3, <2>1, <3>1 DEF Phases
  <2>6. Flows'
    BY <1>1, <1>2, <2>1 DEF Flows, Fired
  <2>7. Holders' /\ Noted'
    BY <1>1, <1>2, <1>3, <2>1, <2>3 DEF Holders, Noted, Live
  <2>8. \A h \in Slots : ~(h < 1)
    BY Parameters DEF Slots
  <2>9. Served'
    <3>1. ASSUME NEW h \in Slots, NEW c \in Kinds, NEW j \in 1..Len(batch[c]) PROVE ~Passed(c, j, h)'
      <4>1. j \in Nat /\ ~(j < 1)
        BY <1>4
      <4>2. ~Turned(h)'
        BY <2>1, <2>8 DEF Turned
      <4>3. at'.kind = "wheel" /\ at'.i = 1
        BY <2>1
      <4> QED BY <4>1, <4>2, <4>3 DEF Passed
    <3>2. \A h \in Live : h \in Slots /\ handlers[h].kind \in Kinds
      BY <2>2 DEF Live, Handler
    <3> QED BY <1>1, <2>1, <3>1, <3>2 DEF Served, Live
  <2>10. Logged'
    <3>1. \A c \in Kinds : Before(c)' = Before(c)
      BY <1>1, <2>1 DEF Before
    <3>2. \A c \in Kinds : Past(c) = Before(c) + 0
      BY <1>1 DEF Past
    <3>3. \A c \in Kinds : Past(c)' = Before(c)' + 0
      <4> TAKE c \in Kinds
      <4>1. at'.kind = "wheel" /\ at'.i - 1 = 0 /\ Dispatches' /\ pc' # "drain"
        BY <2>1 DEF Dispatches
      <4> QED BY <4>1 DEF Past
    <3>4. \A c \in Kinds : Past(c)' = Past(c)
      BY <3>1, <3>2, <3>3
    <3> QED BY <1>1, <1>3, <2>1, <3>4, LoggedKept DEF Behind, Present
  <2> QED BY <2>4, <2>5, <2>6, <2>7, <2>9, <2>10 DEF EventsInv
<1> QED BY <1>5, <1>6

\* The loops go on from a slot that was called, or is not to be called.
LEMMA Advance ==
  ASSUME EventsInv, Dispatches, at.i <= Len(batch[at.kind]),
         pc = "callback" \/ ~IsCalled(at.h, at.kind),
         at' = NextAt(at), pc' = "dispatch",
         UNCHANGED <<enabled, handlers, next_token, running, queue, batch, tokens, todo, loop,
                     regs, fresh, accepted, dispatching, log>>
  PROVE  EventsInv'
<1>1. /\ enabled' = enabled /\ handlers' = handlers /\ next_token' = next_token /\ running' = running
      /\ queue' = queue /\ batch' = batch /\ tokens' = tokens /\ todo' = todo /\ loop' = loop
      /\ regs' = regs /\ fresh' = fresh /\ accepted' = accepted /\ dispatching' = dispatching /\ log' = log
  OBVIOUS
<1>2. Types /\ Phases /\ Flows /\ Holders /\ Noted /\ Logged /\ Served
  BY DEF EventsInv
<1>3. /\ at \in [kind : Kinds, i : 1 .. MaxBatch + 1, h : Slots]
      /\ at.kind \in Kinds /\ at.i \in Nat /\ 1 <= at.i /\ at.h \in Slots
      /\ at.h \in Nat /\ 1 <= at.h /\ at.h <= MaxHandlers
  BY <1>2, Places DEF Types
<1>4. MaxHandlers \in Nat /\ MaxBatch \in Nat /\ \A h \in Slots : h \in Nat /\ 1 <= h /\ h <= MaxHandlers
  BY <1>2, Places, Parameters
<1>5. Len(batch[at.kind]) \in Nat /\ Len(batch[at.kind]) <= MaxBatch
  BY <1>2, <1>3, Lengths DEF Flows
<1>6. \/ at.h < MaxHandlers /\ at' = [kind |-> at.kind, i |-> at.i, h |-> at.h + 1]
      \/ at.h = MaxHandlers /\ at' = [kind |-> at.kind, i |-> at.i + 1, h |-> 1]
  <2>1. CASE at.h < MaxHandlers
    <3>1. at' = [at EXCEPT !.h = at.h + 1]
      BY <2>1 DEF NextAt
    <3>2. at' = [kind |-> at.kind, i |-> at.i, h |-> at.h + 1]
      BY <1>3, <3>1
    <3> QED BY <2>1, <3>2
  <2>2. CASE ~(at.h < MaxHandlers)
    <3>1. at' = [at EXCEPT !.i = at.i + 1, !.h = 1]
      BY <2>2 DEF NextAt
    <3>2. at' = [kind |-> at.kind, i |-> at.i + 1, h |-> 1]
      BY <1>3, <3>1
    <3> QED BY <1>3, <1>4, <2>2, <3>2
  <2> QED BY <2>1, <2>2
<1>7. at'.kind = at.kind
  BY <1>6
<1>8. pc' = "dispatch" /\ Dispatches' /\ pc' # "drain" /\ pc # "drain"
  BY DEF Dispatches
<1>9. Types'
  <2>1. CASE at.h < MaxHandlers /\ at' = [kind |-> at.kind, i |-> at.i, h |-> at.h + 1]
    <3>1. at.h + 1 \in Slots
      BY <1>3, <1>4, <2>1 DEF Slots
    <3>2. at.i \in 1 .. MaxBatch + 1
      BY <1>3
    <3> QED BY <1>1, <1>2, <1>3, <1>8, <2>1, <3>1, <3>2 DEF Types
  <2>2. CASE at.h = MaxHandlers /\ at' = [kind |-> at.kind, i |-> at.i + 1, h |-> 1]
    <3>1. 1 \in Slots
      BY <1>3, <1>4 DEF Slots
    <3>2. at.i + 1 \in 1 .. MaxBatch + 1
      BY <1>3, <1>4, <1>5
    <3> QED BY <1>1, <1>2, <1>3, <1>8, <2>2, <3>1, <3>2 DEF Types
  <2> QED BY <1>6, <2>1, <2>2
<1>10. Phases'
  <2>1. at'.i = at.i \/ at'.i = at.i + 1
    BY <1>6
  <2>2. at'.i <= Len(batch[at'.kind]) + 1
    BY <1>3, <1>5, <1>7, <2>1
  <2>3. dispatching
    BY <1>2 DEF Phases, Dispatches
  <2> QED BY <1>1, <1>2, <1>8, <2>2, <2>3 DEF Phases
<1>11. Flows' /\ Holders' /\ Noted'
  BY ZenonT(60), <1>1, <1>2, <1>8 DEF Flows, Fired, Holders, Noted, Live
<1>12. \A c \in Kinds : Before(c)' = Before(c) /\ Before(c) \in Int /\ Len(batch[c]) \in Nat
  <2> TAKE c \in Kinds
  <2>1. Len(accepted[c]) \in Nat /\ Len(queue[c]) \in Nat /\ Len(batch[c]) \in Nat
    BY <1>2, Lengths
  <2> QED BY <1>1, <2>1 DEF Before
<1>13. Logged'
  <2>1. ASSUME NEW c \in Kinds, NEW m \in 1..Len(accepted[c]), NEW r, Behind(c, m, r) PROVE Behind(c, m, r)'
    <3>1. m \in Nat
      OBVIOUS
    <3>2. CASE at.kind # c
      <4>1. Past(c)' = Past(c)
        BY <1>1, <1>7, <1>8, <1>12, <3>2 DEF Past
      <4>2. m <= Past(c)
        BY <2>1, <3>2 DEF Behind, Present
      <4> QED BY <4>1, <4>2 DEF Behind
    <3>3. CASE at.kind = c
      <4>1. Past(c) = Before(c) + (at.i - 1) /\ Past(c)' = Before(c) + (at'.i - 1)
        BY <1>7, <1>8, <1>12, <3>3 DEF Past
      <4>2. CASE at.h = MaxHandlers /\ at' = [kind |-> at.kind, i |-> at.i + 1, h |-> 1]
        <5>1. Past(c)' = Before(c) + at.i /\ Before(c) \in Int
          BY <1>3, <1>12, <4>1, <4>2
        <5>2. m <= Past(c) \/ m = Before(c) + at.i
          BY <2>1 DEF Behind, Present
        <5>3. m <= Past(c)'
          BY <1>3, <3>1, <4>1, <5>1, <5>2
        <5> QED BY <5>3 DEF Behind
      <4>3. CASE at.h < MaxHandlers /\ at' = [kind |-> at.kind, i |-> at.i, h |-> at.h + 1]
        <5>1. Past(c)' = Past(c)
          BY <4>1, <4>3
        <5>2. CASE m <= Past(c)
          BY <5>1, <5>2 DEF Behind
        <5>3. CASE Present(c, m, r)
          <6>1. \A h \in Live : handlers[h].reg = r => h < at.h + 1
            <7> TAKE h \in Live
            <7>1. h \in Nat
              BY <1>4 DEF Live
            <7>2. handlers[h].reg = r => h < at.h \/ h = at.h
              BY <5>3 DEF Present, Turned
            <7> QED BY <1>3, <7>1, <7>2
          <6>2. Present(c, m, r)'
            BY <1>1, <1>8, <1>12, <4>3, <5>3, <6>1 DEF Present, Turned, Live
          <6> QED BY <6>2 DEF Behind
        <5> QED BY <2>1, <5>2, <5>3 DEF Behind
      <4> QED BY <1>6, <4>2, <4>3
    <3> QED BY <3>2, <3>3
  <2> QED BY <1>1, <2>1, LoggedKept
<1>14. Served'
  <2> SUFFICES ASSUME NEW h \in Live, handlers[h].reg \notin fresh,
                      NEW j \in 1..Len(batch[handlers[h].kind]), Passed(handlers[h].kind, j, h)'
               PROVE  CalledFor(batch[handlers[h].kind][j], handlers[h].reg)
    BY <1>1 DEF Served, Live, CalledFor
  <2>1. handlers[h].kind \in Kinds /\ h \in Nat /\ h <= MaxHandlers /\ h \in Slots
    BY <1>2, <1>4 DEF Live, Types, Handler
  <2>2. j \in Nat /\ 1 <= j
    BY <1>12, <2>1
  <2>3. CASE Passed(handlers[h].kind, j, h)
    BY <1>2, <2>3 DEF Served
  <2>4. CASE ~Passed(handlers[h].kind, j, h)
    <3>1. handlers[h].kind = at.kind
      BY <1>7, <2>4 DEF Passed
    <3>2. ~(j < at.i) /\ ~(j = at.i /\ Turned(h))
      BY <2>4, <3>1 DEF Passed
    <3>3. j < at'.i \/ (j = at'.i /\ h < at'.h)
      BY <1>7, <1>8, <3>1 DEF Passed, Turned
    <3>4. j = at.i
      <4>1. CASE at' = [kind |-> at.kind, i |-> at.i, h |-> at.h + 1]
        BY <3>2, <3>3, <4>1
      <4>2. CASE at' = [kind |-> at.kind, i |-> at.i + 1, h |-> 1]
        <5>1. ~(h < 1)
          BY <1>4, <2>1
        <5>2. at'.i = at.i + 1 /\ at'.h = 1
          BY <4>2
        <5> QED BY <1>3, <2>2, <3>2, <3>3, <5>1, <5>2
      <4> QED BY <1>6, <4>1, <4>2
    <3>5. ~Turned(h)
      BY <3>2, <3>4
    <3>6. ~(h < at.h)
      BY <3>5 DEF Turned
    <3>7. h = at.h
      <4>1. CASE at.h < MaxHandlers /\ at' = [kind |-> at.kind, i |-> at.i, h |-> at.h + 1]
        <5>1. at'.i = at.i /\ at'.h = at.h + 1
          BY <4>1
        <5> QED BY <1>3, <2>1, <3>3, <3>4, <3>6, <5>1
      <4>2. CASE at.h = MaxHandlers
        BY <1>3, <2>1, <3>6, <4>2
      <4> QED BY <1>6, <4>1, <4>2
    <3>8. pc # "callback"
      BY <3>5, <3>7 DEF Turned
    <3>9. tokens[h] = handlers[h].token /\ handlers[h].token # 0
      BY <1>2 DEF Noted, Live
    <3>10. IsCalled(at.h, at.kind)
      BY <3>1, <3>7, <3>9 DEF IsCalled
    <3> QED BY <3>8, <3>10
  <2> QED BY <2>3, <2>4
<1> QED BY <1>9, <1>10, <1>11, <1>13, <1>14 DEF EventsInv

LEMMA CallbackReturnsStep == EventsInv /\ CallbackReturns => EventsInv'
<1> SUFFICES ASSUME EventsInv, CallbackReturns PROVE EventsInv'
  OBVIOUS
<1>1. /\ Dispatches /\ pc = "callback" /\ at' = NextAt(at) /\ pc' = "dispatch"
      /\ UNCHANGED <<enabled, handlers, next_token, running, queue, batch, tokens, todo, loop,
                     regs, fresh, accepted, dispatching, log>>
  BY DEF CallbackReturns, Dispatches, history
<1>2. at.i <= Len(batch[at.kind])
  BY <1>1 DEF EventsInv, Phases
<1> QED BY <1>1, <1>2, Advance

\* A callback is made.
LEMMA CallStep ==
  ASSUME EventsInv, pc = "dispatch", at.i <= Len(batch[at.kind]), IsCalled(at.h, at.kind),
         log' = Append(log, [event |-> batch[at.kind][at.i], reg |-> handlers[at.h].reg, kind |-> at.kind]),
         pc' = "callback",
         UNCHANGED <<enabled, handlers, next_token, running, queue, batch, tokens, todo, loop,
                     regs, fresh, accepted, dispatching, at>>
  PROVE  EventsInv'
<1> DEFINE k == at.kind
           r == handlers[at.h].reg
           e == batch[k][at.i]
           N == Len(log)
           M == Before(k) + at.i
<1>1. /\ enabled' = enabled /\ handlers' = handlers /\ next_token' = next_token /\ running' = running
      /\ queue' = queue /\ batch' = batch /\ tokens' = tokens /\ todo' = todo /\ loop' = loop
      /\ regs' = regs /\ fresh' = fresh /\ accepted' = accepted /\ dispatching' = dispatching /\ at' = at
  OBVIOUS
<1>2. Types /\ Phases /\ Flows /\ Holders /\ Noted /\ Logged /\ Served
  BY DEF EventsInv
<1>3. k \in Kinds /\ at.i \in Nat /\ 1 <= at.i /\ at.h \in Slots /\ \A h \in Slots : h \in Nat
  BY <1>2, Places
<1>4. /\ batch[k] \in Seq(Nat) /\ accepted[k] \in Seq(Nat) /\ N \in Nat
      /\ Len(queue[k]) \in Nat /\ Len(batch[k]) \in Nat /\ Len(accepted[k]) \in Nat
  BY <1>2, <1>3, Lengths
<1>5. at.i \in 1..Len(batch[k])
  BY <1>3, <1>4
<1>6. e \in Nat
  BY <1>4, <1>5, ElementOfSeq
<1>7. at.h \in Live /\ handlers[at.h].kind = k
  <2>1. tokens[at.h] # 0 /\ handlers[at.h].token = tokens[at.h] /\ handlers[at.h].kind = k
    BY DEF IsCalled
  <2> QED BY <1>3, <2>1 DEF Live
<1>8. r \in 1..regs /\ r \in Nat
  BY <1>2, <1>7 DEF Holders
<1>9. M \in 1..Len(accepted[k]) /\ e = accepted[k][M]
  <2>1. Lined(accepted[k], queue[k], batch[k])
    BY <1>2, <1>3 DEF Flows
  <2>2. Len(queue[k]) + Len(batch[k]) <= Len(accepted[k])
    BY <2>1 DEF Lined
  <2>3. e = accepted[k][Len(accepted[k]) - Len(queue[k]) - Len(batch[k]) + at.i]
    BY <1>5, <2>1 DEF Lined
  <2>4. M = Len(accepted[k]) - Len(queue[k]) - Len(batch[k]) + at.i
    BY DEF Before
  <2>5. M \in Int /\ 1 <= M /\ M <= Len(accepted[k])
    <3> DEFINE a == Len(accepted[k])
               q == Len(queue[k])
               b == Len(batch[k])
    <3>1. a \in Nat /\ q \in Nat /\ b \in Nat /\ at.i \in Nat /\ 1 <= at.i /\ at.i <= b /\ q + b <= a
      BY <1>3, <1>4, <2>2
    <3>2. M = a - q - b + at.i
      BY <2>4
    <3> HIDE DEF a, q, b, M
    <3>3. M \in Int /\ 1 <= M /\ M <= a
      BY <3>1, <3>2
    <3> QED BY <3>3 DEF a
  <2>6. M \in 1..Len(accepted[k])
    BY <1>4, <2>5
  <2> QED BY <2>3, <2>4, <2>6
<1> DEFINE c == [event |-> e, reg |-> r, kind |-> k]
<1>10. c \in Entry /\ log \in Seq(Entry) /\ log' = Append(log, c)
  BY <1>2, <1>3, <1>6, <1>8 DEF Entry, Types
<1>11. c.event = e /\ c.reg = r /\ c.kind = k
  OBVIOUS
<1> HIDE DEF c
<1>12. log' \in Seq(Entry) /\ Len(log') = N + 1 /\ log'[N + 1] = c /\ \A n \in 1..N : log'[n] = log[n]
  BY <1>10, AppendProperties
<1>13. \A n \in 1..Len(log') : n = N + 1 \/ n \in 1..N
  BY <1>4, <1>12
<1>14. \A n \in 1..N : n \in 1..Len(log') /\ n # N + 1
  BY <1>4, <1>12
<1>15. N + 1 \in 1..Len(log')
  BY <1>4, <1>12
<1> HIDE DEF N
<1>16. Dispatches /\ Dispatches' /\ pc # "drain" /\ pc' # "drain"
  BY DEF Dispatches
<1>17. Types'
  BY <1>1, <1>2, <1>12 DEF Types
<1>18. Phases'
  <2>1. dispatching
    BY <1>2 DEF Phases
  <2> QED BY <1>1, <1>2, <2>1 DEF Phases
<1>19. Flows' /\ Holders' /\ Noted'
  BY <1>1, <1>2, <1>16 DEF Flows, Fired, Holders, Noted, Live
<1>20. \A d \in Kinds : Before(d)' = Before(d) /\ Past(d)' = Past(d)
  BY <1>1, <1>16 DEF Before, Past
<1>21. \A h \in Live : Turned(h) => Turned(h)'
  BY <1>1 DEF Turned
<1>22. ASSUME NEW d \in Kinds, NEW m, NEW s, Behind(d, m, s) PROVE Behind(d, m, s)'
  <2>1. CASE m <= Past(d)
    BY <1>20, <2>1 DEF Behind
  <2>2. CASE Present(d, m, s)
    <3>1. Present(d, m, s)'
      BY <1>1, <1>16, <1>20, <1>21, <2>2 DEF Present, Live
    <3> QED BY <3>1 DEF Behind
  <2> QED BY <1>22, <2>1, <2>2 DEF Behind
<1>23. ASSUME NEW d, NEW m, NEW s, d = k, m = M, s = r PROVE Behind(d, m, s)'
  <2>1. \A h \in Live : handlers[h].reg = s => h = at.h
    BY <1>2, <1>7, <1>23 DEF Holders
  <2>2. \A h \in Live : handlers[h].reg = s => Turned(h)'
    BY <1>1, <2>1 DEF Turned
  <2>3. Present(d, m, s)'
    BY <1>1, <1>3, <1>16, <1>20, <1>23, <2>2 DEF Present, Live
  <2> QED BY <2>3 DEF Behind
<1> HIDE DEF M
<1>24. \A n \in 1..N : log[n] \in Entry /\ log[n].kind \in Kinds
  <2> TAKE n \in 1..N
  <2>1. log[n] \in Entry
    BY <1>10, ElementOfSeq DEF N
  <2> QED BY <2>1 DEF Entry
<1>25. LogBehind'
  <2> SUFFICES ASSUME NEW n \in 1..Len(log'), NEW d, NEW s, d = log'[n].kind, s = log'[n].reg
               PROVE  \E m \in 1..Len(accepted[d]) : log'[n].event = accepted[d][m] /\ Behind(d, m, s)'
    <3> SUFFICES ASSUME NEW n \in 1..Len(log')
                 PROVE  \E m \in 1..Len(accepted'[log'[n].kind]) :
                          log'[n].event = accepted'[log'[n].kind][m] /\ Behind(log[n].kind, m, log[n].reg)'
      BY DEF LogBehind
    <3>1. PICK d, s : d = log'[n].kind /\ s = log'[n].reg
      OBVIOUS
    <3>2. ASSUME NEW m, Behind(d, m, s)' PROVE Behind(log[n].kind, m, log[n].reg)'
      BY <3>1, <3>2 DEF Behind, Present, Past, Before
    <3>3. PICK m \in 1..Len(accepted[d]) : log'[n].event = accepted[d][m] /\ Behind(d, m, s)'
      BY <3>1
    <3> QED BY <1>1, <3>1, <3>2, <3>3
  <2>1. CASE n = N + 1
    <3>1. d = k /\ log'[n].event = e /\ s = r
      BY <1>11, <1>12, <2>1
    <3>2. PICK m \in 1..Len(accepted[k]) : m = M
      BY <1>9
    <3>3. Behind(d, m, s)'
      BY <1>23, <3>1, <3>2
    <3> HIDE DEF k, r, e
    <3> QED BY <1>9, <3>1, <3>2, <3>3
  <2>2. CASE n \in 1..N
    <3>1. log'[n] = log[n] /\ d \in Kinds
      BY <1>12, <1>24, <2>2
    <3>2. PICK m \in 1..Len(accepted[d]) : log[n].event = accepted[d][m] /\ Behind(d, m, s)
      BY <1>2, <2>2, <3>1 DEF Logged, LogBehind, N
    <3>3. Behind(d, m, s)'
      BY <1>22, <3>1, <3>2
    <3> QED BY <3>1, <3>2, <3>3
  <2> QED BY <1>13, <2>1, <2>2
\* What the registration was called for before came earlier.
<1>26. ASSUME NEW n \in 1..N, log[n].reg = r PROVE log[n].kind = k /\ log[n].event < e
  <2>1. log[n].kind = k
    BY <1>2, <1>7, <1>26 DEF Logged, N
  <2>2. PICK m \in 1..Len(accepted[k]) : log[n].event = accepted[k][m] /\ Behind(k, m, r)
    BY <1>2, <1>26, <2>1 DEF Logged, LogBehind, N
  <2>3. ~Present(k, m, r)
    <3>1. ~(at.h < at.h) /\ pc # "callback"
      BY <1>3
    <3>2. ~Turned(at.h)
      BY <3>1 DEF Turned
    <3> QED BY <1>7, <3>2 DEF Present
  <2>4. m <= Past(k)
    BY <2>2, <2>3 DEF Behind
  <2>5. Past(k) = Before(k) + (at.i - 1)
    BY <1>16 DEF Past
  <2>6. Before(k) \in Int /\ m \in Nat
    BY <1>4 DEF Before
  <2>7. m < M
    BY <1>3, <2>4, <2>5, <2>6 DEF M
  <2>8. accepted[k][m] < accepted[k][M]
    <3>1. Rising(accepted[k])
      BY <1>2, <1>3 DEF Flows
    <3> HIDE DEF k
    <3> QED BY <1>9, <2>7, <3>1 DEF Rising
  <2> QED BY <1>9, <2>1, <2>2, <2>8
<1>27. OnceInOrder'
  <2> SUFFICES ASSUME NEW i \in 1..Len(log'), NEW j \in 1..Len(log'), i < j, log'[i].reg = log'[j].reg
               PROVE  log'[i].kind = log'[j].kind /\ log'[i].event < log'[j].event
    BY DEF OnceInOrder
  <2>1. i \in 1..N
    <3>1. i \in Nat /\ j \in Nat /\ j <= N + 1
      BY <1>4, <1>12
    <3> QED BY <1>4, <1>13, <3>1
  <2>2. log'[i] = log[i]
    BY <1>12, <2>1
  <2>3. CASE j = N + 1
    <3>1. log'[j].reg = r /\ log'[j].kind = k /\ log'[j].event = e
      BY <1>11, <1>12, <2>3
    <3>2. log[i].reg = r
      BY <2>2, <3>1
    <3>3. log[i].kind = k /\ log[i].event < e
      BY <1>26, <2>1, <3>2
    <3> HIDE DEF k, r, e
    <3> QED BY <2>2, <3>1, <3>3
  <2>4. CASE j \in 1..N
    <3>1. log'[j] = log[j]
      BY <1>12, <2>4
    <3>2. i \in 1..Len(log) /\ j \in 1..Len(log)
      BY <2>1, <2>4 DEF N
    <3> QED BY <1>2, <2>2, <3>1, <3>2 DEF Logged, OnceInOrder
  <2> QED BY <1>13, <2>3, <2>4
<1>28. Logged'
  <2> SUFFICES ASSUME NEW n \in 1..Len(log')
               PROVE  /\ log'[n].reg <= regs
                      /\ \A h \in Live : log'[n].reg = handlers[h].reg => log'[n].kind = handlers[h].kind
    BY <1>1, <1>25, <1>27 DEF Logged, Live
  <2>1. CASE n = N + 1
    <3>1. log'[n].kind = k /\ log'[n].reg = r
      BY <1>11, <1>12, <2>1
    <3>2. \A h \in Live : handlers[h].reg = r => h = at.h
      BY <1>2, <1>7 DEF Holders
    <3> QED BY <1>7, <1>8, <3>1, <3>2
  <2>2. CASE n \in 1..N
    BY <1>2, <1>12, <2>2 DEF Logged, N
  <2> QED BY <1>13, <2>1, <2>2
<1>29. \A x, s : CalledFor(x, s) => CalledFor(x, s)'
  BY <1>12, <1>14 DEF CalledFor, N
<1>30. CalledFor(e, r)'
  BY <1>11, <1>12, <1>15 DEF CalledFor
<1>31. Served'
  <2> SUFFICES ASSUME NEW h \in Live, handlers[h].reg \notin fresh,
                      NEW j \in 1..Len(batch[handlers[h].kind]), Passed(handlers[h].kind, j, h)'
               PROVE  CalledFor(batch[handlers[h].kind][j], handlers[h].reg)'
    BY <1>1 DEF Served, Live, CalledFor
  <2>1. CASE Passed(handlers[h].kind, j, h)
    <3>1. CalledFor(batch[handlers[h].kind][j], handlers[h].reg)
      BY <1>2, <1>16, <2>1 DEF Served
    <3> QED BY <1>1, <1>29, <3>1
  <2>2. CASE ~Passed(handlers[h].kind, j, h)
    <3>1. handlers[h].kind = k /\ j = at.i /\ Turned(h)' /\ ~Turned(h)
      BY <1>1, <2>2 DEF Passed
    <3>2. h = at.h
      BY <1>1, <3>1 DEF Turned
    <3> QED BY <1>1, <1>30, <3>1, <3>2
  <2> QED BY <2>1, <2>2
<1> QED BY <1>17, <1>18, <1>19, <1>28, <1>31 DEF EventsInv

LEMMA DispatchStep == EventsInv /\ Dispatch => EventsInv'
<1> SUFFICES ASSUME EventsInv, Dispatch PROVE EventsInv'
  OBVIOUS
<1>1. /\ pc = "dispatch" /\ enabled' = enabled /\ handlers' = handlers /\ next_token' = next_token
      /\ running' = running /\ queue' = queue /\ batch' = batch /\ tokens' = tokens /\ todo' = todo
      /\ loop' = loop /\ regs' = regs /\ fresh' = fresh /\ accepted' = accepted
  BY DEF Dispatch
<1>2. Types /\ Phases /\ Flows /\ Holders /\ Noted /\ Logged /\ Served
  BY DEF EventsInv
<1>3. Dispatches /\ dispatching /\ pc # "drain" /\ pc # "callback"
  BY <1>1, <1>2 DEF Dispatches, Phases
<1>4. at.kind \in Kinds /\ at.i \in Nat /\ 1 <= at.i /\ at.h \in Slots /\ \A h \in Slots : h \in Nat /\ 1 <= h
  BY <1>2, Places
<1>5. \A k \in Kinds : Len(batch[k]) \in Nat /\ Before(k) \in Int
  <2> TAKE k \in Kinds
  <2>1. Len(accepted[k]) \in Nat /\ Len(queue[k]) \in Nat /\ Len(batch[k]) \in Nat
    BY <1>2, Lengths
  <2> QED BY <2>1 DEF Before
<1>6. CASE at.i <= Len(batch[at.kind]) /\ IsCalled(at.h, at.kind)
  BY <1>1, <1>6, CallStep DEF Dispatch
<1>7. CASE at.i <= Len(batch[at.kind]) /\ ~IsCalled(at.h, at.kind)
  BY <1>1, <1>3, <1>7, Advance DEF Dispatch
<1>8. CASE ~(at.i <= Len(batch[at.kind]))
  <2>1. at.i = Len(batch[at.kind]) + 1
    <3>1. at.i <= Len(batch[at.kind]) + 1 /\ Len(batch[at.kind]) \in Nat
      BY <1>1, <1>2, <1>4, <1>5 DEF Phases
    <3> QED BY <1>4, <1>8, <3>1
  <2>2. \A k \in Kinds : Before(k)' = Before(k)
    BY <1>1 DEF Before
  <2>3. \A k \in Kinds : \A m, r : ~Present(k, m, r)
    BY <1>8 DEF Present
  <2>4. at.kind = "keyboard" => Past("wheel") = Before("wheel") + Len(batch["wheel"])
    BY <1>3 DEF Past
  <2>5. Past(at.kind) = Before(at.kind) + Len(batch[at.kind])
    <3>1. Past(at.kind) = Before(at.kind) + (at.i - 1)
      BY <1>3 DEF Past
    <3>2. at.i - 1 = Len(batch[at.kind])
      BY <1>4, <1>5, <2>1
    <3> QED BY <3>1, <3>2
  <2>6. CASE at.kind = "wheel"
    <3>1. at' = [kind |-> "keyboard", i |-> 1, h |-> 1] /\ log' = log /\ pc' = pc /\ dispatching' = dispatching
      BY <1>1, <1>8, <2>6 DEF Dispatch
    <3>2. at'.kind = "keyboard" /\ at'.i = 1 /\ at'.h = 1
      BY <3>1
    <3>3. Types'
      <4>1. at' \in [kind : Kinds, i : 1 .. MaxBatch + 1, h : Slots]
        BY <3>1, Parameters DEF Slots, Kinds
      <4> QED BY <1>1, <1>2, <3>1, <4>1 DEF Types
    <3>4. Phases'
      <4>1. Len(batch["keyboard"]) \in Nat
        BY <1>5, KindsAre
      <4>2. at'.i <= Len(batch[at'.kind]) + 1
        BY <3>2, <4>1
      <4> QED BY <1>1, <1>2, <1>3, <3>1, <4>2 DEF Phases
    <3>5. Flows' /\ Holders' /\ Noted'
      BY <1>1, <1>2, <3>1 DEF Flows, Fired, Holders, Noted, Live, Dispatches
    <3>6. \A k \in Kinds : Past(k)' = Past(k)
      <4>1. Past("wheel")' = Before("wheel") + Len(batch["wheel"])
        BY <1>1, <1>3, <2>2, <3>1, <3>2, KindsAre DEF Past, Dispatches
      <4>2. Past("keyboard") = Before("keyboard") + 0
        BY <1>3, <2>6 DEF Past
      <4>3. Past("keyboard")' = Before("keyboard") + 0
        BY <1>1, <1>3, <2>2, <3>1, <3>2, KindsAre DEF Past, Dispatches
      <4> QED BY <2>5, <2>6, <4>1, <4>2, <4>3, KindsAre
    <3>7. Logged'
      <4>1. \A k \in Kinds, n \in 1..Len(log) : \A m \in 1..Len(accepted[k]) :
              Behind(k, m, log[n].reg) => m <= Past(k)
        BY <2>3 DEF Behind
      <4>2. ASSUME NEW k \in Kinds, NEW m, NEW r, Behind(k, m, r) PROVE Behind(k, m, r)'
        BY <2>3, <3>6, <4>2 DEF Behind
      <4> QED BY <1>1, <3>1, <4>2, LoggedKept
    <3>8. Served'
      <4> SUFFICES ASSUME NEW h \in Live, handlers[h].reg \notin fresh,
                          NEW j \in 1..Len(batch[handlers[h].kind]), Passed(handlers[h].kind, j, h)'
                   PROVE  CalledFor(batch[handlers[h].kind][j], handlers[h].reg)
        BY <1>1, <3>1 DEF Served, Live, CalledFor
      <4>1. handlers[h].kind \in Kinds /\ h \in Slots
        BY <1>2 DEF Live, Types, Handler
      <4>2. j \in Nat /\ 1 <= j /\ j <= Len(batch[handlers[h].kind]) /\ Len(batch[handlers[h].kind]) \in Nat
        BY <1>5, <4>1
      <4>3. CASE handlers[h].kind = "wheel"
        <5>1. j < at.i
          BY <1>4, <2>1, <2>6, <4>2, <4>3
        <5>2. Passed(handlers[h].kind, j, h)
          BY <2>6, <4>3, <5>1 DEF Passed
        <5> QED BY <1>2, <1>3, <5>2 DEF Served
      <4>4. CASE handlers[h].kind = "keyboard"
        <5>1. j < 1 \/ (j = 1 /\ Turned(h)')
          BY <1>1, <3>2, <4>4 DEF Passed
        <5>2. Turned(h)'
          BY <4>2, <5>1
        <5>3. h < 1
          BY <1>3, <3>1, <3>2, <5>2 DEF Turned
        <5> QED BY <1>4, <4>1, <5>3
      <4> QED BY <4>1, <4>3, <4>4, KindsAre
    <3> QED BY <3>3, <3>4, <3>5, <3>7, <3>8 DEF EventsInv
  <2>7. CASE at.kind = "keyboard"
    <3>1. at' = at /\ log' = log /\ pc' \in {"looptest", "main"} /\ dispatching' = FALSE
      BY <1>1, <1>8, <2>7 DEF Dispatch, Caller
    <3>2. ~Dispatches' /\ pc' # "drain"
      BY <3>1 DEF Dispatches
    <3>3. Types' /\ Phases'
      BY <1>1, <1>2, <3>1 DEF Types, Phases
    <3>4. Flows' /\ Holders' /\ Noted' /\ Served'
      BY <1>1, <1>2, <3>1, <3>2 DEF Flows, Fired, Holders, Noted, Served, Live
    <3>5. \A k \in Kinds : Past(k)' = Past(k)
      <4>1. \A k \in Kinds : Past(k)' = Before(k) + Len(batch[k])
        BY <1>1, <2>2, <3>2 DEF Past
      <4> QED BY <2>4, <2>5, <2>7, <4>1, KindsAre
    <3>6. Logged'
      <4>1. ASSUME NEW k \in Kinds, NEW m, NEW r, Behind(k, m, r) PROVE Behind(k, m, r)'
        BY <2>3, <3>5, <4>1 DEF Behind
      <4> QED BY <1>1, <3>1, <4>1, LoggedKept
    <3> QED BY <3>3, <3>4, <3>6 DEF EventsInv
  <2> QED BY <1>4, <2>6, <2>7, KindsAre
<1> QED BY <1>6, <1>7, <1>8

-----------------------------------------------------------------------------
(* The results.                                                            *)

LEMMA EventsStep == EventsInv /\ [Next]_vars => EventsInv'
BY HatStep, SubscribeStep, OffStep, QuitStep, RunStep, PollStep, DrainStep, DispatchStep,
   CallbackReturnsStep, LoopTestStep, Stutter DEF Next, Poller

LEMMA Invariance == Spec => []EventsInv
<1>1. Init => EventsInv
  BY EventsInit
<1>2. EventsInv /\ [Next]_vars => EventsInv'
  BY EventsStep
<1> QED BY <1>1, <1>2, PTL DEF Spec

LEMMA Ends ==
  ASSUME NEW s \in Seq(Nat), NEW t \in Seq(Nat), Len(t) <= Len(s),
         \A i \in 1..Len(t) : t[i] = s[Len(s) - Len(t) + i]
  PROVE  EndsWith(s, t)
<1> DEFINE n == Len(s)
           l == Len(t)
           m == n - l + 1
           u == SubSeq(s, m, n)
<1>1. n \in Nat /\ l \in Nat /\ l <= n
  BY LenProperties
<1>2. m \in Int /\ n \in Int /\ 1 <= m /\ n - m + 1 = l
  <2> HIDE DEF n, l
  <2> QED BY <1>1
<1>3. \A i \in m..n : s[i] \in Nat
  <2> HIDE DEF m
  <2>1. \A i \in m..n : i \in 1..Len(s)
    BY <1>1, <1>2
  <2> QED BY <2>1, ElementOfSeq
<1>4. /\ u \in Seq(Nat)
      /\ Len(u) = IF m <= n THEN n - m + 1 ELSE 0
      /\ \A i \in 1 .. n - m + 1 : u[i] = s[m + i - 1]
  <2> HIDE DEF m, n
  <2> QED BY <1>2, <1>3, SubSeqProperties
<1>5. Len(u) = l
  <2> HIDE DEF u, l, n
  <2>1. m <= n \/ l = 0
    BY <1>1
  <2> QED BY <1>1, <1>2, <1>4, <2>1
<1>6. \A i \in 1..l : m + i - 1 = n - l + i
  <2> HIDE DEF n, l
  <2> QED BY <1>1
<1>7. \A i \in 1..l : t[i] = u[i]
  <2> HIDE DEF u, m
  <2> QED BY <1>2, <1>4, <1>6
<1>8. t = u
  <2> HIDE DEF u
  <2> QED BY <1>4, <1>5, <1>7, SeqEqual
<1> QED BY <1>1, <1>8 DEF EndsWith

\* A queue is what was accepted last, the batch what was polled last.
LEMMA LinedEnds ==
  ASSUME NEW acc \in Seq(Nat), NEW q \in Seq(Nat), NEW b \in Seq(Nat), Lined(acc, q, b)
  PROVE  EndsWith(acc, q) /\ EndsWith(SubSeq(acc, 1, Len(acc) - Len(q)), b)
<1> DEFINE a == Len(acc)
           n == Len(q)
           l == Len(b)
           o == a - n
           p == SubSeq(acc, 1, o)
<1>1. a \in Nat /\ n \in Nat /\ l \in Nat /\ n + l <= a
  BY LenProperties DEF Lined
<1>2. o \in Nat /\ o \in Int /\ 1 \in Int /\ l <= o /\ o <= a /\ n <= a /\ o - 1 + 1 = o
  <2> HIDE DEF a, n, l
  <2> QED BY <1>1
<1>3. \A i \in 1..o : acc[i] \in Nat
  <2> HIDE DEF o
  <2>1. \A i \in 1..o : i \in 1..Len(acc)
    BY <1>1, <1>2
  <2> QED BY <2>1, ElementOfSeq
<1>4. /\ p \in Seq(Nat)
      /\ Len(p) = IF 1 <= o THEN o - 1 + 1 ELSE 0
      /\ \A i \in 1 .. o - 1 + 1 : p[i] = acc[1 + i - 1]
  <2> HIDE DEF o
  <2> QED BY <1>2, <1>3, SubSeqProperties
<1>5. Len(p) = o
  <2> HIDE DEF p, o
  <2> QED BY <1>2, <1>4
<1>6. \A i \in 1..o : p[i] = acc[i]
  <2> HIDE DEF p, o
  <2>1. \A i \in 1..o : 1 + i - 1 = i
    BY <1>2
  <2> QED BY <1>2, <1>4, <2>1
<1>7. \A i \in 1..l : b[i] = p[Len(p) - l + i]
  <2> TAKE i \in 1..l
  <2>1. b[i] = acc[o - l + i]
    BY DEF Lined
  <2>2. o - l + i \in 1..o
    <3> HIDE DEF o, l
    <3>1. i \in Int /\ 1 <= i /\ i <= l
      BY <1>1
    <3>2. o - l + i \in Int /\ 1 <= o - l + i /\ o - l + i <= o
      BY <1>1, <1>2, <3>1
    <3> QED BY <1>2, <3>2
  <2> HIDE DEF o, p
  <2> QED BY <1>5, <1>6, <2>1, <2>2
<1>8. EndsWith(acc, q)
  <2>1. \A i \in 1..n : q[i] = acc[a - n + i]
    BY DEF Lined
  <2> QED BY <1>2, <2>1, Ends
<1>9. EndsWith(p, b)
  <2> HIDE DEF p
  <2>1. Len(b) <= Len(p)
    BY <1>2, <1>5
  <2> QED BY <1>4, <1>7, <2>1, Ends
<1> QED BY <1>8, <1>9

LEMMA Delivers == EventsInv => DeliveredOnce
<1> SUFFICES ASSUME EventsInv PROVE DeliveredOnce
  OBVIOUS
<1>1. Types /\ Flows /\ Holders /\ Logged
  BY DEF EventsInv
<1>2. NothingLost
  <2> SUFFICES ASSUME NEW k \in Kinds PROVE EndsWith(accepted[k], queue[k]) /\ EndsWith(Polled(k), batch[k])
    BY DEF NothingLost
  <2>1. queue[k] \in Seq(Nat) /\ batch[k] \in Seq(Nat) /\ accepted[k] \in Seq(Nat)
        /\ Lined(accepted[k], queue[k], batch[k])
    BY <1>1, Lengths DEF Flows
  <2> QED BY <2>1, LinedEnds DEF Polled
<1>3. TypeOK
  <2>1. \A h \in Slots : handlers[h].token \in 0..MaxToken /\ handlers[h].kind \in Kinds
    BY <1>1 DEF Types, Handler
  <2>2. next_token \in 1..MaxToken /\ at.h \in Slots /\ at.i \in 1 .. MaxBatch + 1
        /\ pc \in {"main", "drain", "dispatch", "callback", "looptest"}
    BY <1>1 DEF Types
  <2>3. \A k \in Kinds : Len(batch[k]) <= MaxBatch /\ Len(queue[k]) <= Capacity
    BY <1>1 DEF Flows
  <2>4. \A g, h \in Live : g # h => handlers[g].token # handlers[h].token
    BY <1>1 DEF Holders
  <2> QED BY <2>1, <2>2, <2>3, <2>4 DEF TypeOK
<1>4. OnceInOrder
  BY <1>1 DEF Logged
<1> QED BY <1>2, <1>3, <1>4 DEF DeliveredOnce

\* From the collector to the callback no event is lost, doubled or overtaken:
\* Collector's append, poll's drain and its two loops keep each list's events in
\* one line, and a registration is called for a later one each time.
THEOREM EventsDeliveredOnce == Spec => []DeliveredOnce
<1>1. EventsInv => DeliveredOnce
  BY Delivers
<1> QED BY <1>1, Invariance, PTL

\* A callback's registration, of those the poll noted.
LEMMA CallIsRight ==
  ASSUME EventsInv, IsCalled(at.h, at.kind), Dispatches,
         log' = Append(log, [event |-> batch[at.kind][at.i], reg |-> handlers[at.h].reg, kind |-> at.kind])
  PROVE  CallsNoNewOne /\ CallsNoneRemoved
<1>1. Types /\ Holders /\ Noted
  BY DEF EventsInv
<1> DEFINE c == [event |-> batch[at.kind][at.i], reg |-> handlers[at.h].reg, kind |-> at.kind]
<1>2. at.h \in Slots
  BY <1>1, Places
<1>3. tokens[at.h] # 0 /\ handlers[at.h].token = tokens[at.h]
  BY DEF IsCalled
<1>4. at.h \in Live
  BY <1>2, <1>3 DEF Live
<1>5. Last(log').reg = handlers[at.h].reg
  <2>1. c.reg = handlers[at.h].reg
    OBVIOUS
  <2> DEFINE E == Entry \cup {c}
  <2>2. log \in Seq(E) /\ c \in E
    <3>1. log \in Seq(Entry)
      BY <1>1 DEF Types
    <3> HIDE DEF c
    <3>2. Entry \subseteq E
      OBVIOUS
    <3> HIDE DEF E
    <3>3. Len(log) \in Nat /\ \A i \in 1..Len(log) : log[i] \in Entry
      BY <3>1, LenProperties, ElementOfSeq
    <3>4. log = [i \in 1..Len(log) |-> log[i]]
      BY <3>1, LenProperties
    <3>5. log \in Seq(E)
      BY <3>2, <3>3, <3>4
    <3> QED BY <3>5 DEF E
  <2> HIDE DEF c, E
  <2>3. Len(Append(log, c)) = Len(log) + 1 /\ Append(log, c)[Len(log) + 1] = c
    BY <2>2, AppendProperties
  <2>4. log' = Append(log, c)
    BY DEF c
  <2>5. Last(log') = log'[Len(log')]
    BY DEF Last
  <2> QED BY <2>1, <2>3, <2>4, <2>5
<1>6. CallsNoneRemoved
  BY <1>4, <1>5 DEF CallsNoneRemoved, Registered
<1>7. CallsNoNewOne
  <2> SUFFICES ASSUME regs <= MaxToken PROVE Last(log').reg \notin fresh
    BY DEF CallsNoNewOne
  <2>1. handlers[at.h].token = handlers[at.h].reg
    BY <1>1, <1>4 DEF Holders
  <2>2. tokens[at.h] \notin fresh
    BY <1>1, <1>2 DEF Noted
  <2> QED BY <1>3, <1>5, <2>1, <2>2
<1> QED BY <1>6, <1>7

LEMMA CallsAreRight == EventsInv /\ [Next]_vars => [CallsRightly]_vars
<1> SUFFICES ASSUME EventsInv, [Next]_vars PROVE CallsRightly \/ UNCHANGED vars
  OBVIOUS
<1>1. Types /\ Phases /\ Served
  BY DEF EventsInv
<1>2. ASSUME log' = log, ~dispatching \/ dispatching' PROVE CallsRightly
  BY <1>2 DEF CallsRightly, CallsNoNewOne, CallsNoneRemoved, EndsWithAllServed
<1>3. CASE Hat
  BY <1>2, <1>3 DEF Hat, pollVars
<1>4. CASE Subscribe \/ Off \/ Quit \/ Run
  BY <1>2, <1>4 DEF Subscribe, Off, Quit, Run, pollVars, history
<1>5. CASE Poll \/ LoopTest
  BY <1>2, <1>5 DEF Poll, LoopTest, PollBegin, pollVars, history
<1>6. CASE Drain \/ CallbackReturns
  BY <1>2, <1>6 DEF Drain, CallbackReturns, history
<1>7. CASE Dispatch
  <2>1. Dispatches /\ pc = "dispatch" /\ dispatching
    BY <1>1, <1>7 DEF Dispatch, Dispatches, Phases
  <2>2. CASE at.i <= Len(batch[at.kind]) /\ IsCalled(at.h, at.kind)
    <3>1. /\ log' = Append(log, [event |-> batch[at.kind][at.i], reg |-> handlers[at.h].reg, kind |-> at.kind])
          /\ dispatching' = dispatching
      BY <1>7, <2>2 DEF Dispatch
    <3>2. CallsNoNewOne /\ CallsNoneRemoved
      BY <2>1, <2>2, <3>1, CallIsRight
    <3>3. EndsWithAllServed
      BY <2>1, <3>1 DEF EndsWithAllServed
    <3> QED BY <3>2, <3>3 DEF CallsRightly
  <2>3. CASE at.i <= Len(batch[at.kind]) /\ ~IsCalled(at.h, at.kind)
    BY <1>2, <1>7, <2>1, <2>3 DEF Dispatch
  <2>4. CASE ~(at.i <= Len(batch[at.kind])) /\ at.kind = "wheel"
    BY <1>2, <1>7, <2>1, <2>4 DEF Dispatch
  <2>5. CASE ~(at.i <= Len(batch[at.kind])) /\ at.kind # "wheel"
    <3>1. log' = log
      BY <1>7, <2>5 DEF Dispatch
    <3>2. at.kind = "keyboard"
      BY <1>1, <2>5, Places, KindsAre
    <3>3. ASSUME NEW h \in Live, handlers[h].reg \notin fresh, NEW e \in ToSet(batch[handlers[h].kind])
          PROVE  CalledFor(e, handlers[h].reg)
      <4>1. handlers[h].kind \in Kinds
        BY <1>1 DEF Live, Types, Handler
      <4>2. batch[handlers[h].kind] \in Seq(Nat) /\ Len(batch[handlers[h].kind]) \in Nat
        BY <1>1, <4>1, Lengths
      <4>3. PICK j \in 1..Len(batch[handlers[h].kind]) : e = batch[handlers[h].kind][j]
        BY <4>2, LenProperties DEF ToSet
      <4>4. Passed(handlers[h].kind, j, h)
        <5>1. CASE handlers[h].kind = "wheel"
          BY <3>2, <5>1 DEF Passed
        <5>2. CASE handlers[h].kind = "keyboard"
          <6>1. at.i \in Nat /\ j \in Nat /\ j <= Len(batch["keyboard"]) /\ Len(batch["keyboard"]) \in Nat
            BY <1>1, <4>2, <5>2, Places
          <6>2. j < at.i
            BY <2>5, <3>2, <6>1
          <6> QED BY <3>2, <5>2, <6>2 DEF Passed
        <5> QED BY <4>1, <5>1, <5>2, KindsAre
      <4> QED BY <1>1, <2>1, <3>3, <4>3, <4>4 DEF Served
    <3> QED BY <3>1, <3>3 DEF CallsRightly, CallsNoNewOne, CallsNoneRemoved, EndsWithAllServed, CalledFor
  <2> QED BY <2>2, <2>3, <2>4, <2>5
<1> QED BY <1>3, <1>4, <1>5, <1>6, <1>7 DEF Next, Poller

\* Those a poll calls are the registrations it began with that are still there,
\* and none of them is passed over (dispatch in events.cpp): also when callbacks
\* subscribe into freed slots and unsubscribe others while it loops.
THEOREM EventsCalledRightly == Spec => CalledRightly
<1>1. EventsInv /\ [Next]_vars => [CallsRightly]_vars
  BY CallsAreRight
<1> QED BY <1>1, Invariance, PTL DEF Spec, CalledRightly

-----------------------------------------------------------------------------
(* Trees: what the scripts consist of, with the comparisons that are added. *)

Valued ==
  Expressions \cup {LiteralOf(0)} \cup {EqualsZero(e) : e \in Expressions} \cup {NotZero(e) : e \in Expressions}
Trees == {e \in Valued : ~IsLiteral(e)}

\* What stands in the sockets of a tree.
Proper(e) ==
  /\ \A s \in DOMAIN e.inputs :
       /\ Wanted(e, s) \in Valued
       /\ FittedInput(e.inputs[s], BooleanSocket(e.op, s)) = Wanted(e, s)
       /\ BooleanSocket(e.op, s) => ~IsLiteral(Wanted(e, s)) /\ BooleanOpcode(Wanted(e, s).op)
  /\ \A s \in DOMAIN e.branches : e.branches[s] \in Seq(Trees)
  /\ \A s \in DOMAIN e.inputs : s \notin DOMAIN e.branches /\ s # "next"
  /\ \A s \in DOMAIN e.branches : s # "next" /\ ~BooleanSocket(e.op, s)

LEMMA ZeroTrees ==
  ASSUME NEW e
  PROVE  /\ IsLiteral(LiteralOf(0)) /\ ~IsLiteral(EqualsZero(e)) /\ ~IsLiteral(NotZero(e))
         /\ EqualsZero(e).op = "operator_equals" /\ NotZero(e).op = "operator_not"
         /\ DOMAIN EqualsZero(e).inputs = {"OPERAND1", "OPERAND2"}
         /\ EqualsZero(e).inputs["OPERAND1"] = e /\ EqualsZero(e).inputs["OPERAND2"] = LiteralOf(0)
         /\ DOMAIN NotZero(e).inputs = {"OPERAND"} /\ NotZero(e).inputs["OPERAND"] = EqualsZero(e)
         /\ DOMAIN EqualsZero(e).branches = {} /\ DOMAIN NotZero(e).branches = {}
BY DEF IsLiteral, LiteralOf, EqualsZero, NotZero, Ast, NoSockets

LEMMA ScriptsOfTrees == Scripts \subseteq Seq(Trees)
<1> DEFINE S == {e \in Expressions : ~IsLiteral(e)}
<1>1. S \subseteq Trees
  BY DEF Trees, Valued
<1> HIDE DEF S
<1>2. Seq(S) \subseteq Seq(Trees)
  BY <1>1
<1> QED BY <1>2 DEF Scripts, S

LEMMA TreesProper == \A e \in Trees : Proper(e)
<1> SUFFICES ASSUME NEW e \in Trees PROVE Proper(e)
  OBVIOUS
<1>1. e \in Expressions \/ (\E x \in Expressions : e = EqualsZero(x)) \/ (\E x \in Expressions : e = NotZero(x))
  BY ZeroTrees DEF Trees, Valued
<1>2. CASE \E x \in Expressions : e = EqualsZero(x)
  <2>1. PICK x \in Expressions : e = EqualsZero(x)
    BY <1>2
  <2>2. \A s \in DOMAIN e.inputs : ~WantsTruth(e.op, s) /\ ~BooleanSocket(e.op, s) /\ e.inputs[s] \in Valued /\ s # "next"
    BY <2>1, ZeroTrees DEF WantsTruth, BooleanSocket, Valued
  <2> QED BY <2>1, <2>2, ZeroTrees DEF Proper, Wanted, FittedInput
<1>3. CASE \E x \in Expressions : e = NotZero(x)
  <2>1. PICK x \in Expressions : e = NotZero(x)
    BY <1>3
  <2>2. \A s \in DOMAIN e.inputs : /\ e.inputs[s] = EqualsZero(x) /\ EqualsZero(x) \in Valued /\ s # "next"
                                   /\ ~IsLiteral(EqualsZero(x)) /\ BooleanOpcode(EqualsZero(x).op)
    BY <2>1, ZeroTrees DEF BooleanOpcode, Valued
  <2> QED BY <2>1, <2>2, ZeroTrees DEF Proper, Wanted, FittedInput
<1>4. CASE e \in Expressions
  <2>1. Fits(e)
    BY <1>4, ProjectAssumption DEF Trees
  <2>2. \A s \in DOMAIN e.branches : e.branches[s] \in Seq(Trees)
    BY <2>1, ScriptsOfTrees DEF Fits
  <2>3. \A s \in DOMAIN e.inputs : WantsTruth(e.op, s) <=> BooleanSocket(e.op, s)
    BY <2>1 DEF Fits, WantsTruth, BooleanSocket
  <2>4. ASSUME NEW s \in DOMAIN e.inputs
        PROVE  /\ Wanted(e, s) \in Valued
               /\ FittedInput(e.inputs[s], BooleanSocket(e.op, s)) = Wanted(e, s)
               /\ BooleanSocket(e.op, s) => ~IsLiteral(Wanted(e, s)) /\ BooleanOpcode(Wanted(e, s).op)
    <3>1. e.inputs[s] \in Expressions
      BY <2>1 DEF Fits
    <3>2. Wanted(e, s) \in {e.inputs[s], NotZero(e.inputs[s])}
      BY DEF Wanted
    <3>3. FittedInput(e.inputs[s], BooleanSocket(e.op, s)) = Wanted(e, s)
      BY <2>3 DEF Wanted, FittedInput
    <3>4. BooleanSocket(e.op, s) => ~IsLiteral(Wanted(e, s)) /\ BooleanOpcode(Wanted(e, s).op)
      BY <2>3, ZeroTrees DEF Wanted, BooleanOpcode
    <3> QED BY <3>1, <3>2, <3>3, <3>4 DEF Valued
  <2>5. (\A s \in DOMAIN e.inputs : s \notin DOMAIN e.branches /\ s # "next")
        /\ \A s \in DOMAIN e.branches : s # "next" /\ ~BooleanSocket(e.op, s)
    BY <2>1 DEF Fits
  <2> QED BY <2>2, <2>4, <2>5 DEF Proper
<1> QED BY <1>1, <1>2, <1>3, <1>4

-----------------------------------------------------------------------------
(* The table.  o says of each block which script begins there, <<>> for the *)
(* blocks that make up a hat or a definition; left are the places that are  *)
(* still to be filled, and free the blocks that have no place yet.          *)

Fields == {"op", "next", "parent", "inputs", "shadow", "topLevel", "index"}

\* What follows a block; what stands at a place, and with which kind.
Story(p, b, o, id) == IF o[id] # <<>> THEN Tail(o[id]) ELSE IF b[id].topLevel THEN p[b[id].index].body ELSE <<>>
Content(b, id, x) ==
  IF x = "next" THEN b[id].next ELSE IF x \in DOMAIN b[id].inputs THEN b[id].inputs[x].block ELSE NoBlock
Kind(e) == IF Shadow(e.op) THEN 1 ELSE IF BooleanOpcode(e.op) THEN 2 ELSE 3

Shape(p, t, b, o) ==
  /\ \E S : b \in Seq(S)
  /\ o \in [1 .. Len(b) -> Seq(Trees)]
  /\ \A id \in 1 .. Len(b) :
       /\ DOMAIN b[id] = Fields
       /\ b[id].topLevel = (b[id].parent = NoBlock) /\ b[id].topLevel = (b[id].index # 0)
       /\ b[id].topLevel => b[id].index \in 1 .. t /\ b[id].op = p[b[id].index].op /\ o[id] = <<>>
       /\ o[id] # <<>> => b[id].op = Head(o[id]).op
  /\ \A k \in 1 .. t : \E id \in 1 .. Len(b) : b[id].topLevel /\ b[id].index = k
  /\ \A i, j \in 1 .. Len(b) : b[i].topLevel /\ b[j].topLevel /\ b[i].index = b[j].index => i = j

Unset(b, left) == \A id \in 1 .. Len(b) : \A x : <<id, x>> \in left => Content(b, id, x) = NoBlock

\* Who stands at a place knows it, and stands nowhere else.
Owned(b, free) ==
  \A id \in 1 .. Len(b) : \A x : Content(b, id, x) # NoBlock =>
    /\ Content(b, id, x) \in 1 .. Len(b) /\ Content(b, id, x) \notin free
    /\ b[Content(b, id, x)].parent = id
    /\ \A y : Content(b, id, y) = Content(b, id, x) => y = x
Placed(b, free) ==
  \A id \in 1 .. Len(b) : ~b[id].topLevel /\ id \notin free =>
    b[id].parent \in 1 .. Len(b) /\ \E x : Content(b, b[id].parent, x) = id

NextOK(p, b, o, left) ==
  \A id \in 1 .. Len(b) : <<id, "next">> \notin left =>
    IF b[id].next = NoBlock THEN Story(p, b, o, id) = <<>>
    ELSE o[b[id].next] = Story(p, b, o, id) /\ o[b[id].next] # <<>>

\* What a socket of the block of e holds.
Filled(b, o, id, e, s) ==
  IF IsLiteral(WayInto(e, s)[1])
  THEN b[id].inputs[s] = [kind |-> 1, block |-> NoBlock, literal |-> WayInto(e, s)[1].literal]
  ELSE /\ b[id].inputs[s].block # NoBlock
       /\ o[b[id].inputs[s].block] = WayInto(e, s)
       /\ s \in DOMAIN e.inputs => b[id].inputs[s].kind = Kind(WayInto(e, s)[1])
InputsOK(b, o, left) ==
  \A id \in 1 .. Len(b) : o[id] # <<>> =>
    /\ DOMAIN b[id].inputs = {s \in Ways(Head(o[id])) : <<id, s>> \notin left}
    /\ \A s \in DOMAIN b[id].inputs : Filled(b, o, id, Head(o[id]), s)

\* The blocks that make up a hat or a definition hold no Boolean socket.
PlainTops(b, o) ==
  \A id \in 1 .. Len(b) : o[id] = <<>> => \A s \in DOMAIN b[id].inputs : s # "next" /\ ~BooleanSocket(b[id].op, s)

TableOK(p, t, b, o, left, free) ==
  /\ Shape(p, t, b, o) /\ Unset(b, left) /\ Owned(b, free) /\ Placed(b, free)
  /\ NextOK(p, b, o, left) /\ InputsOK(b, o, left) /\ PlainTops(b, o)

LEMMA HeadTrees ==
  ASSUME NEW l \in Seq(Trees), l # <<>>
  PROVE  Head(l) \in Trees /\ Tail(l) \in Seq(Trees) /\ l[1] = Head(l)
OBVIOUS

LEMMA WaysFacts ==
  ASSUME NEW e \in Trees, NEW s \in Ways(e)
  PROVE  /\ s # "next" /\ WayInto(e, s) # <<>>
         /\ IF s \in DOMAIN e.inputs THEN WayInto(e, s) = <<Wanted(e, s)>> /\ WayInto(e, s)[1] = Wanted(e, s) /\ Wanted(e, s) \in Valued
            ELSE WayInto(e, s) \in Seq(Trees) /\ ~IsLiteral(WayInto(e, s)[1])
<1>1. Proper(e)
  BY TreesProper
<1>2. CASE s \in DOMAIN e.inputs
  BY <1>1, <1>2 DEF Proper, WayInto
<1>3. CASE s \notin DOMAIN e.inputs
  <2>1. s \in DOMAIN e.branches /\ e.branches[s] # <<>> /\ e.branches[s] \in Seq(Trees) /\ s # "next"
    BY <1>1, <1>3 DEF Ways, Proper
  <2>2. e.branches[s][1] \in Trees
    BY <2>1, HeadTrees
  <2> QED BY <1>3, <2>1, <2>2 DEF WayInto, Trees
<1> QED BY <1>2, <1>3

\* What the activations say of a table, kept where it has more.
Keeps(b, o, c, q) ==
  /\ Len(b) \in Nat /\ Len(c) \in Nat /\ Len(b) <= Len(c)
  /\ \A id \in 1 .. Len(b) :
       q[id] = o[id] /\ c[id].parent = b[id].parent /\ c[id].topLevel = b[id].topLevel /\ c[id].index = b[id].index

\* A new block at the end of the table.
LEMMA Added ==
  ASSUME NEW b, \E S : b \in Seq(S), NEW x, NEW c, c = Append(b, x)
  PROVE  /\ \E S : c \in Seq(S)
         /\ Len(b) \in Nat /\ Len(c) = Len(b) + 1 /\ c[Len(c)] = x
         /\ \A id \in 1 .. Len(b) : id \in 1 .. Len(c) /\ c[id] = b[id] /\ id # Len(c)
         /\ \A id \in 1 .. Len(c) : id = Len(c) \/ id \in 1 .. Len(b)
<1>1. PICK S : b \in Seq(S)
  OBVIOUS
<1>2. c \in Seq(S \cup {x})
  BY <1>1
<1> QED BY <1>1, <1>2

\* What a new block is like.
LEMMA BlockFacts ==
  ASSUME NEW op, NEW parent, NEW shadow, NEW index, NEW r, r = Block(op, parent, shadow, index)
  PROVE  /\ DOMAIN r = Fields /\ r.op = op /\ r.parent = parent /\ r.next = NoBlock /\ DOMAIN r.inputs = {}
         /\ r.topLevel = (index # 0) /\ r.index = index
BY DEF Block, Fields, NoSockets

\* A block for the first tree of a script is added.
Extended(b, o, x) == [k \in 1 .. Len(b) + 1 |-> IF k = Len(b) + 1 THEN x ELSE o[k]]
Sockets(n, e) == {<<n, s>> : s \in {"next"} \cup DOMAIN e.inputs \cup DOMAIN e.branches}
Adding(p, t, b, o, left, free, x, parent, e, n, c, q, more) ==
  /\ TableOK(p, t, b, o, left, free) /\ x \in Seq(Trees) /\ x # <<>> /\ parent \in 1 .. Len(b) /\ e = Head(x) /\ n = Len(b) + 1
  /\ c = Append(b, Block(e.op, parent, Shadow(e.op), 0)) /\ q = Extended(b, o, x) /\ more = left \cup Sockets(n, e)
LEMMA BlockAdded ==
  ASSUME NEW p, NEW t, NEW b, NEW o, NEW left, NEW free, NEW x, NEW parent, NEW e, NEW n, NEW c, NEW q, NEW more,
         Adding(p, t, b, o, left, free, x, parent, e, n, c, q, more)
  PROVE  /\ TableOK(p, t, c, q, more, free \cup {n}) /\ Keeps(b, o, c, q)
         /\ n \in 1 .. Len(c) /\ q[n] = x /\ c[n].parent = parent
<1>a. /\ TableOK(p, t, b, o, left, free) /\ x \in Seq(Trees) /\ x # <<>> /\ parent \in 1 .. Len(b) /\ e = Head(x) /\ n = Len(b) + 1
      /\ c = Append(b, Block(e.op, parent, Shadow(e.op), 0)) /\ q = Extended(b, o, x) /\ more = left \cup Sockets(n, e)
  BY DEF Adding
<1> USE <1>a
<1> DEFINE r == Block(e.op, parent, Shadow(e.op), 0)
<1>1. /\ DOMAIN r = Fields /\ r.op = e.op /\ r.parent = parent /\ r.next = NoBlock /\ DOMAIN r.inputs = {}
      /\ r.topLevel = FALSE /\ r.index = 0
  <2>1. r = Block(e.op, parent, Shadow(e.op), 0)
    OBVIOUS
  <2> HIDE DEF r
  <2>2. /\ DOMAIN r = Fields /\ r.op = e.op /\ r.parent = parent /\ r.next = NoBlock /\ DOMAIN r.inputs = {}
        /\ r.topLevel = (0 # 0) /\ r.index = 0
    BY <2>1, BlockFacts
  <2>3. (0 # 0) = FALSE
    OBVIOUS
  <2> QED BY <2>2, <2>3
<1> HIDE DEF r
<1>2. Shape(p, t, b, o) /\ Unset(b, left) /\ Owned(b, free) /\ Placed(b, free)
      /\ NextOK(p, b, o, left) /\ InputsOK(b, o, left) /\ PlainTops(b, o)
  BY DEF TableOK
<1>3. /\ \E S : c \in Seq(S)
      /\ Len(b) \in Nat /\ Len(c) = n /\ c[n] = r
      /\ \A id \in 1 .. Len(b) : id \in 1 .. n /\ c[id] = b[id] /\ id # n
      /\ \A id \in 1 .. n : id = n \/ id \in 1 .. Len(b)
  <2>1. c = Append(b, r) /\ \E S : b \in Seq(S)
    BY <1>2 DEF r, Shape
  <2>2. /\ \E S : c \in Seq(S)
        /\ Len(b) \in Nat /\ Len(c) = Len(b) + 1 /\ c[Len(c)] = r
        /\ \A id \in 1 .. Len(b) : id \in 1 .. Len(c) /\ c[id] = b[id] /\ id # Len(c)
        /\ \A id \in 1 .. Len(c) : id = Len(c) \/ id \in 1 .. Len(b)
    BY ONLY <2>1, Added
  <2> QED BY <2>2
<1>4. n \in 1 .. n /\ parent # NoBlock /\ n \notin 1 .. Len(b)
  BY <1>3, ProjectAssumption
<1>5. q \in [1 .. n -> Seq(Trees)] /\ q[n] = x /\ \A id \in 1 .. Len(b) : q[id] = o[id]
  BY <1>2, <1>3 DEF Extended, Shape
<1>6. e \in Trees /\ Proper(e)
  BY HeadTrees, TreesProper
<1>7. \A id \in 1 .. Len(b) : \A y : <<id, y>> \in more <=> <<id, y>> \in left
  BY <1>3 DEF Sockets
<1>8. <<n, "next">> \in more /\ \A s \in Ways(e) : <<n, s>> \in more
  BY DEF Sockets, Ways
<1>9. (\A y : Content(c, n, y) = NoBlock) /\ \A id \in 1 .. Len(b) : \A y : Content(c, id, y) = Content(b, id, y)
  BY <1>1, <1>3 DEF Content
<1>10. Shape(p, t, c, q)
  <2>1. ASSUME NEW id \in 1 .. n
        PROVE  /\ DOMAIN c[id] = Fields
               /\ c[id].topLevel = (c[id].parent = NoBlock) /\ c[id].topLevel = (c[id].index # 0)
               /\ c[id].topLevel => c[id].index \in 1 .. t /\ c[id].op = p[c[id].index].op /\ q[id] = <<>>
               /\ q[id] # <<>> => c[id].op = Head(q[id]).op
    <3>1. CASE id = n
      BY <1>1, <1>3, <1>4, <1>5, <3>1
    <3>2. CASE id \in 1 .. Len(b)
      BY <1>2, <1>3, <1>5, <3>2 DEF Shape
    <3> QED BY <1>3, <3>1, <3>2
  <2>2. \A k \in 1 .. t : \E id \in 1 .. n : c[id].topLevel /\ c[id].index = k
    <3> TAKE k \in 1 .. t
    <3>1. PICK id \in 1 .. Len(b) : b[id].topLevel /\ b[id].index = k
      BY <1>2 DEF Shape
    <3> QED BY <1>3, <3>1
  <2>3. \A i, j \in 1 .. n : c[i].topLevel /\ c[j].topLevel /\ c[i].index = c[j].index => i = j
    <3> TAKE i, j \in 1 .. n
    <3>1. HAVE c[i].topLevel /\ c[j].topLevel /\ c[i].index = c[j].index
    <3>2. i \in 1 .. Len(b) /\ j \in 1 .. Len(b)
      BY <1>1, <1>3, <3>1
    <3>3. c[i] = b[i] /\ c[j] = b[j]
      BY <1>3, <3>2
    <3> QED BY <1>2, <3>1, <3>2, <3>3 DEF Shape
  <2> QED BY <1>3, <1>5, <2>1, <2>2, <2>3 DEF Shape
<1>11. Unset(c, more)
  BY <1>2, <1>3, <1>7, <1>9 DEF Unset
<1>12. Owned(c, free \cup {n})
  <2> SUFFICES ASSUME NEW id \in 1 .. n, NEW y, Content(c, id, y) # NoBlock
               PROVE  /\ Content(c, id, y) \in 1 .. n /\ Content(c, id, y) \notin free \cup {n}
                      /\ c[Content(c, id, y)].parent = id
                      /\ \A z : Content(c, id, z) = Content(c, id, y) => z = y
    BY <1>3 DEF Owned
  <2>1. id \in 1 .. Len(b)
    BY <1>3, <1>9
  <2>2. Content(b, id, y) # NoBlock /\ \A z : Content(c, id, z) = Content(b, id, z)
    BY <1>9, <2>1
  <2>3. /\ Content(b, id, y) \in 1 .. Len(b) /\ Content(b, id, y) \notin free
        /\ b[Content(b, id, y)].parent = id
        /\ \A z : Content(b, id, z) = Content(b, id, y) => z = y
    BY <1>2, <2>1, <2>2 DEF Owned
  <2> QED BY <1>3, <1>4, <2>2, <2>3
<1>13. Placed(c, free \cup {n})
  BY <1>2, <1>3, <1>9 DEF Placed
<1>14. NextOK(p, c, q, more)
  <2> SUFFICES ASSUME NEW id \in 1 .. n, <<id, "next">> \notin more
               PROVE  IF c[id].next = NoBlock THEN Story(p, c, q, id) = <<>>
                      ELSE q[c[id].next] = Story(p, c, q, id) /\ q[c[id].next] # <<>>
    BY <1>3 DEF NextOK
  <2>1. id \in 1 .. Len(b) /\ <<id, "next">> \notin left
    BY <1>3, <1>7, <1>8
  <2>2. IF b[id].next = NoBlock THEN Story(p, b, o, id) = <<>>
        ELSE o[b[id].next] = Story(p, b, o, id) /\ o[b[id].next] # <<>>
    BY <1>2, <2>1 DEF NextOK
  <2>3. Story(p, c, q, id) = Story(p, b, o, id) /\ c[id].next = b[id].next
    BY <1>3, <1>5, <2>1 DEF Story
  <2>4. b[id].next # NoBlock => b[id].next \in 1 .. Len(b)
    BY <1>2, <2>1 DEF Owned, Content
  <2> QED BY <1>5, <2>2, <2>3, <2>4
<1>15. InputsOK(c, q, more)
  <2> SUFFICES ASSUME NEW id \in 1 .. n, q[id] # <<>>
               PROVE  /\ DOMAIN c[id].inputs = {s \in Ways(Head(q[id])) : <<id, s>> \notin more}
                      /\ \A s \in DOMAIN c[id].inputs : Filled(c, q, id, Head(q[id]), s)
    BY <1>3 DEF InputsOK
  <2>1. CASE id = n
    BY <1>1, <1>3, <1>5, <1>8, <2>1
  <2>2. CASE id \in 1 .. Len(b)
    <3>1. /\ DOMAIN b[id].inputs = {s \in Ways(Head(o[id])) : <<id, s>> \notin left}
          /\ \A s \in DOMAIN b[id].inputs : Filled(b, o, id, Head(o[id]), s)
      BY <1>2, <1>5, <2>2 DEF InputsOK
    <3>2. c[id] = b[id] /\ q[id] = o[id] /\ {s \in Ways(Head(o[id])) : <<id, s>> \notin left} = {s \in Ways(Head(o[id])) : <<id, s>> \notin more}
      BY <1>3, <1>5, <1>7, <2>2
    <3>3. ASSUME NEW s \in DOMAIN b[id].inputs PROVE Filled(c, q, id, Head(o[id]), s)
      <4>1. Filled(b, o, id, Head(o[id]), s)
        BY <3>1
      <4>2. s # "next"
        <5>1. Head(o[id]) \in Trees
          BY <1>2, <1>5, <2>2, HeadTrees DEF Shape
        <5> QED BY <3>1, <5>1, WaysFacts
      <4>3. b[id].inputs[s].block # NoBlock => b[id].inputs[s].block \in 1 .. Len(b)
        BY <1>2, <2>2, <4>2 DEF Owned, Content
      <4> QED BY <1>5, <3>2, <4>1, <4>3 DEF Filled
    <3> QED BY <3>1, <3>2, <3>3
  <2> QED BY <1>3, <2>1, <2>2
<1>16. PlainTops(c, q)
  BY <1>2, <1>3, <1>5 DEF PlainTops
<1>17. Keeps(b, o, c, q)
  <2>1. Len(b) \in Nat /\ Len(c) \in Nat /\ Len(b) <= Len(c)
    BY <1>3
  <2> QED BY <1>3, <1>5, <2>1 DEF Keeps
<1> QED BY <1>1, <1>3, <1>4, <1>5, <1>10, <1>11, <1>12, <1>13, <1>14, <1>15, <1>16, <1>17 DEF TableOK

-----------------------------------------------------------------------------
(* One place of the table gets what stands there. *)

Same(x, y) ==
  /\ DOMAIN x = Fields /\ x.op = y.op /\ x.parent = y.parent /\ x.topLevel = y.topLevel /\ x.index = y.index
Relinked(b, c, i, x, v) ==
  /\ \E S : c \in Seq(S)
  /\ Len(c) = Len(b)
  /\ \A id \in 1 .. Len(b) : Same(c[id], b[id]) /\ (id # i => c[id] = b[id])
  /\ \A id \in 1 .. Len(b) : \A y : id # i \/ y # x => Content(c, id, y) = Content(b, id, y)
  /\ Content(c, i, x) = v

Table(b) == (\E S : b \in Seq(S)) /\ \A id \in 1 .. Len(b) : DOMAIN b[id] = Fields
WithNext(b, i, v) == [b EXCEPT ![i].next = v]

LEMMA NextSet ==
  ASSUME NEW b, Table(b), NEW i, i \in 1 .. Len(b), NEW v, NEW c, c = WithNext(b, i, v)
  PROVE  Relinked(b, c, i, "next", v) /\ c[i].inputs = b[i].inputs /\ c[i].next = v
<1>1. PICK S : b \in Seq(S)
  BY DEF Table
<1>2. DOMAIN b = 1 .. Len(b) /\ Len(b) \in Nat /\ \A id \in 1 .. Len(b) : DOMAIN b[id] = Fields
  BY <1>1 DEF Table
<1>3. c = [b EXCEPT ![i] = [b[i] EXCEPT !.next = v]]
  BY DEF WithNext
<1> DEFINE r == [b[i] EXCEPT !.next = v]
<1>4. /\ DOMAIN r = Fields /\ r.next = v /\ r.inputs = b[i].inputs
      /\ r.op = b[i].op /\ r.parent = b[i].parent /\ r.topLevel = b[i].topLevel /\ r.index = b[i].index
  BY <1>2 DEF Fields
<1>5. c = [b EXCEPT ![i] = r]
  BY <1>3
<1> HIDE DEF r
<1>6. c[i] = r /\ (\A id \in 1 .. Len(b) : id # i => c[id] = b[id])
  BY <1>2, <1>5
<1>7. c \in Seq(S \cup {r}) /\ Len(c) = Len(b)
  BY <1>1, <1>2, <1>5
<1>8. \A id \in 1 .. Len(b) : Same(c[id], b[id]) /\ (id # i => c[id] = b[id])
  BY <1>2, <1>4, <1>6 DEF Same
<1>9. \A id \in 1 .. Len(b) : \A y : id # i \/ y # "next" => Content(c, id, y) = Content(b, id, y)
  BY <1>4, <1>6 DEF Content
<1>10. Content(c, i, "next") = v
  BY <1>4, <1>6 DEF Content
<1> QED BY <1>4, <1>6, <1>7, <1>8, <1>9, <1>10 DEF Relinked

PutInto(b, c, i, s, entry) == Table(b) /\ i \in 1 .. Len(b) /\ s # "next" /\ c = WithInput(b, i, s, entry)

LEMMA InputSet ==
  ASSUME NEW b, NEW c, NEW i, NEW s, NEW entry, PutInto(b, c, i, s, entry)
  PROVE  /\ Relinked(b, c, i, s, entry.block) /\ c[i].next = b[i].next
         /\ DOMAIN c[i].inputs = DOMAIN b[i].inputs \cup {s} /\ c[i].inputs[s] = entry
         /\ \A y \in DOMAIN b[i].inputs : y # s => c[i].inputs[y] = b[i].inputs[y]
<1>1. PICK S : b \in Seq(S)
  BY DEF PutInto, Table
<1>2. /\ DOMAIN b = 1 .. Len(b) /\ Len(b) \in Nat /\ \A id \in 1 .. Len(b) : DOMAIN b[id] = Fields
      /\ i \in 1 .. Len(b) /\ s # "next"
  BY <1>1 DEF PutInto, Table
<1> DEFINE in == [y \in DOMAIN b[i].inputs \cup {s} |-> IF y = s THEN entry ELSE b[i].inputs[y]]
<1> DEFINE r == [b[i] EXCEPT !.inputs = in]
<1>3. c = [b EXCEPT ![i] = r]
  BY DEF PutInto, WithInput
<1>in. /\ DOMAIN in = DOMAIN b[i].inputs \cup {s} /\ in[s] = entry
       /\ \A y \in DOMAIN b[i].inputs : y # s => in[y] = b[i].inputs[y]
  OBVIOUS
<1> HIDE DEF in
<1>4. /\ DOMAIN r = Fields /\ r.next = b[i].next /\ r.inputs = in
      /\ r.op = b[i].op /\ r.parent = b[i].parent /\ r.topLevel = b[i].topLevel /\ r.index = b[i].index
  BY <1>2 DEF Fields
<1> HIDE DEF r
<1>6. c[i] = r /\ (\A id \in 1 .. Len(b) : id # i => c[id] = b[id])
  BY <1>2, <1>3
<1>7. c \in Seq(S \cup {r}) /\ Len(c) = Len(b)
  BY <1>1, <1>2, <1>3
<1>8. \A id \in 1 .. Len(b) : Same(c[id], b[id]) /\ (id # i => c[id] = b[id])
  BY <1>2, <1>4, <1>6 DEF Same
<1>9. \A id \in 1 .. Len(b) : \A y : id # i \/ y # s => Content(c, id, y) = Content(b, id, y)
  <2> SUFFICES ASSUME NEW id \in 1 .. Len(b), NEW y, id # i \/ y # s PROVE Content(c, id, y) = Content(b, id, y)
    OBVIOUS
  <2>1. CASE id # i
    BY <1>6, <2>1 DEF Content
  <2>2. CASE id = i
    BY <1>4, <1>6, <1>in, <2>2 DEF Content
  <2> QED BY <2>1, <2>2
<1>10. Content(c, i, s) = entry.block
  BY <1>2, <1>4, <1>6, <1>in DEF Content
<1> QED BY <1>4, <1>6, <1>7, <1>8, <1>9, <1>10, <1>in DEF Relinked

\* What stays as it is, whatever the place.
Fillable(b, left, free, i, x, v, less, rest) ==
  /\ i \in 1 .. Len(b) /\ <<i, x>> \in left /\ (v # NoBlock => v \in 1 .. Len(b) /\ v \in free /\ b[v].parent = i)
  /\ less = left \ {<<i, x>>} /\ rest = free \ {v}
LEMMA PlaceFilled ==
  ASSUME NEW p, NEW t, NEW b, NEW o, NEW left, NEW free, TableOK(p, t, b, o, left, free),
         NEW i, NEW x, NEW v, NEW less, NEW rest, Fillable(b, left, free, i, x, v, less, rest), NEW c, Relinked(b, c, i, x, v)
  PROVE  Shape(p, t, c, o) /\ Unset(c, less) /\ Owned(c, rest) /\ Placed(c, rest)
<1>1. Shape(p, t, b, o) /\ Unset(b, left) /\ Owned(b, free) /\ Placed(b, free)
  BY DEF TableOK
<1>v. /\ i \in 1 .. Len(b) /\ <<i, x>> \in left /\ (v # NoBlock => v \in 1 .. Len(b) /\ v \in free /\ b[v].parent = i)
      /\ less = left \ {<<i, x>>} /\ rest = free \ {v}
  BY DEF Fillable
<1>2. /\ \E S : c \in Seq(S)
      /\ Len(c) = Len(b)
      /\ \A id \in 1 .. Len(b) : Same(c[id], b[id])
      /\ \A id \in 1 .. Len(b) : \A y : id # i \/ y # x => Content(c, id, y) = Content(b, id, y)
      /\ Content(c, i, x) = v
  BY DEF Relinked
<1>3. Content(b, i, x) = NoBlock
  BY <1>1, <1>v DEF Unset
<1>4. Shape(p, t, c, o)
  <2>1. \A id \in 1 .. Len(b) :
          /\ DOMAIN c[id] = Fields
          /\ c[id].topLevel = (c[id].parent = NoBlock) /\ c[id].topLevel = (c[id].index # 0)
          /\ c[id].topLevel => c[id].index \in 1 .. t /\ c[id].op = p[c[id].index].op /\ o[id] = <<>>
          /\ o[id] # <<>> => c[id].op = Head(o[id]).op
    <3> TAKE id \in 1 .. Len(b)
    <3>1. Same(c[id], b[id])
      BY <1>2
    <3>2. /\ b[id].topLevel = (b[id].parent = NoBlock) /\ b[id].topLevel = (b[id].index # 0)
          /\ b[id].topLevel => b[id].index \in 1 .. t /\ b[id].op = p[b[id].index].op /\ o[id] = <<>>
          /\ o[id] # <<>> => b[id].op = Head(o[id]).op
      BY <1>1 DEF Shape
    <3> QED BY ONLY <3>1, <3>2 DEF Same
  <2>2. \A k \in 1 .. t : \E id \in 1 .. Len(b) : c[id].topLevel /\ c[id].index = k
    <3> TAKE k \in 1 .. t
    <3>1. PICK id \in 1 .. Len(b) : b[id].topLevel /\ b[id].index = k
      BY <1>1 DEF Shape
    <3>2. c[id].topLevel = b[id].topLevel /\ c[id].index = b[id].index
      BY <1>2 DEF Same
    <3> QED BY <3>1, <3>2
  <2>3. \A k, j \in 1 .. Len(b) : c[k].topLevel /\ c[j].topLevel /\ c[k].index = c[j].index => k = j
    <3> TAKE k, j \in 1 .. Len(b)
    <3>1. c[k].topLevel = b[k].topLevel /\ c[j].topLevel = b[j].topLevel /\ c[k].index = b[k].index /\ c[j].index = b[j].index
      BY <1>2 DEF Same
    <3>2. b[k].topLevel /\ b[j].topLevel /\ b[k].index = b[j].index => k = j
      BY <1>1 DEF Shape
    <3> QED BY <3>1, <3>2
  <2> QED BY <1>1, <1>2, <2>1, <2>2, <2>3 DEF Shape
<1>5. Unset(c, less)
  <2> SUFFICES ASSUME NEW id \in 1 .. Len(b), NEW y, <<id, y>> \in less PROVE Content(c, id, y) = NoBlock
    BY <1>2 DEF Unset
  <2>1. <<id, y>> \in left /\ (id # i \/ y # x)
    BY <1>v
  <2> QED BY <1>1, <1>2, <2>1 DEF Unset
<1>6. Owned(c, rest)
  <2> SUFFICES ASSUME NEW id \in 1 .. Len(b), NEW y, Content(c, id, y) # NoBlock
               PROVE  /\ Content(c, id, y) \in 1 .. Len(b) /\ Content(c, id, y) \notin rest
                      /\ c[Content(c, id, y)].parent = id
                      /\ \A z : Content(c, id, z) = Content(c, id, y) => z = y
    BY <1>2 DEF Owned
  <2>1. CASE id = i /\ y = x
    <3>1. Content(c, id, y) = v /\ v # NoBlock
      BY <1>2, <2>1
    <3>2. v \in 1 .. Len(b) /\ v \in free /\ b[v].parent = i
      BY <1>v, <3>1
    <3>3. ASSUME NEW z, Content(c, i, z) = v PROVE z = x
      <4> SUFFICES ASSUME z # x PROVE FALSE
        OBVIOUS
      <4>1. Content(b, i, z) = v
        BY <1>v, <1>2, <3>3
      <4> QED BY <1>1, <1>v, <3>1, <3>2, <4>1 DEF Owned
    <3> QED BY <1>v, <1>2, <2>1, <3>1, <3>2, <3>3 DEF Same
  <2>2. CASE id # i \/ y # x
    <3>1. Content(c, id, y) = Content(b, id, y)
      BY <1>2, <2>2
    <3>2. /\ Content(b, id, y) \in 1 .. Len(b) /\ Content(b, id, y) \notin free /\ b[Content(b, id, y)].parent = id
          /\ \A z : Content(b, id, z) = Content(b, id, y) => z = y
      BY <1>1, <3>1 DEF Owned
    <3>3. ASSUME NEW z, Content(c, id, z) = Content(c, id, y) PROVE z = y
      <4>1. CASE id = i /\ z = x
        <5>1. v = Content(b, id, y) /\ v # NoBlock
          BY <1>2, <3>1, <3>3, <4>1
        <5> QED BY <1>v, <3>2, <5>1
      <4>2. CASE id # i \/ z # x
        BY <1>2, <3>1, <3>2, <3>3, <4>2
      <4> QED BY <4>1, <4>2
    <3> QED BY <1>v, <1>2, <3>1, <3>2, <3>3 DEF Same
  <2> QED BY <2>1, <2>2
<1>7. Placed(c, rest)
  <2> SUFFICES ASSUME NEW id \in 1 .. Len(b), ~c[id].topLevel, id \notin rest
               PROVE  c[id].parent \in 1 .. Len(b) /\ \E y : Content(c, c[id].parent, y) = id
    BY <1>2 DEF Placed
  <2>1. c[id].parent = b[id].parent /\ ~b[id].topLevel
    BY <1>2 DEF Same
  <2>2. CASE id = v
    <3>1. v # NoBlock
      BY <2>2, ProjectAssumption, <1>1 DEF Shape
    <3> QED BY <1>v, <1>2, <2>1, <2>2, <3>1
  <2>3. CASE id # v
    <3>1. PICK y : b[id].parent \in 1 .. Len(b) /\ Content(b, b[id].parent, y) = id
      BY <1>1, <1>v, <2>1, <2>3 DEF Placed
    <3>2. id # NoBlock
      BY ProjectAssumption, <1>1 DEF Shape
    <3>3. b[id].parent # i \/ y # x
      BY <1>3, <3>1, <3>2
    <3> QED BY <1>2, <2>1, <3>1, <3>3
  <2> QED BY <2>2, <2>3
<1> QED BY <1>4, <1>5, <1>6, <1>7

\* What follows a block, and what fills its sockets, where the table stays.
LEMMA StoryKept ==
  ASSUME NEW p, NEW b, NEW o, NEW c, NEW id, Same(c[id], b[id])
  PROVE  Story(p, c, o, id) = Story(p, b, o, id)
BY DEF Story, Same

Linking(p, t, b, o, left, free, i, v, c, less, rest) ==
  /\ TableOK(p, t, b, o, left, free) /\ i \in 1 .. Len(b) /\ <<i, "next">> \in left
  /\ v \in 1 .. Len(b) /\ v \in free /\ b[v].parent = i /\ o[v] = Story(p, b, o, i) /\ o[v] # <<>>
  /\ c = WithNext(b, i, v) /\ less = left \ {<<i, "next">>} /\ rest = free \ {v}
LEMMA NextPut ==
  ASSUME NEW p, NEW t, NEW b, NEW o, NEW left, NEW free, NEW i, NEW v, NEW c, NEW less, NEW rest,
         Linking(p, t, b, o, left, free, i, v, c, less, rest)
  PROVE  TableOK(p, t, c, o, less, rest) /\ Keeps(b, o, c, o)
<1>a. /\ TableOK(p, t, b, o, left, free) /\ i \in 1 .. Len(b) /\ <<i, "next">> \in left
      /\ v \in 1 .. Len(b) /\ v \in free /\ b[v].parent = i /\ o[v] = Story(p, b, o, i) /\ o[v] # <<>>
      /\ c = WithNext(b, i, v) /\ less = left \ {<<i, "next">>} /\ rest = free \ {v}
  BY DEF Linking
<1> USE <1>a
<1>1. Shape(p, t, b, o) /\ NextOK(p, b, o, left) /\ InputsOK(b, o, left) /\ PlainTops(b, o)
  BY DEF TableOK
<1>2. Relinked(b, c, i, "next", v) /\ c[i].inputs = b[i].inputs /\ c[i].next = v
  <2>1. Table(b)
    BY <1>1 DEF Shape, Table
  <2>2. c = WithNext(b, i, v) /\ i \in 1 .. Len(b)
    OBVIOUS
  <2> QED BY ONLY <2>1, <2>2, NextSet
<1>3. Shape(p, t, c, o) /\ Unset(c, less) /\ Owned(c, rest) /\ Placed(c, rest)
  <2>1. TableOK(p, t, b, o, left, free) /\ Fillable(b, left, free, i, "next", v, less, rest) /\ Relinked(b, c, i, "next", v)
    BY <1>2 DEF Fillable
  <2> QED BY ONLY <2>1, PlaceFilled
<1>4. /\ Len(c) = Len(b) /\ v # NoBlock
      /\ \A id \in 1 .. Len(b) : /\ Same(c[id], b[id]) /\ c[id].inputs = b[id].inputs
                                 /\ id # i => c[id].next = b[id].next
  <2>1. Len(b) \in Nat
    BY <1>1 DEF Shape
  <2>2. v # NoBlock
    BY <2>1, ProjectAssumption
  <2> QED BY ONLY <1>2, <2>2 DEF Relinked
<1>5. NextOK(p, c, o, less)
  <2> SUFFICES ASSUME NEW id \in 1 .. Len(b), <<id, "next">> \notin less
               PROVE  IF c[id].next = NoBlock THEN Story(p, c, o, id) = <<>>
                      ELSE o[c[id].next] = Story(p, c, o, id) /\ o[c[id].next] # <<>>
    BY <1>4 DEF NextOK
  <2>1. Story(p, c, o, id) = Story(p, b, o, id)
    <3>1. Same(c[id], b[id])
      BY <1>4
    <3> QED BY ONLY <3>1, StoryKept
  <2>2. CASE id = i
    BY <1>2, <1>4, <2>1, <2>2
  <2>3. CASE id # i
    <3>1. <<id, "next">> \notin left
      BY <2>3
    <3> QED BY <1>1, <1>4, <2>1, <2>3, <3>1 DEF NextOK
  <2> QED BY <2>2, <2>3
<1>6. InputsOK(c, o, less)
  <2> SUFFICES ASSUME NEW id \in 1 .. Len(b), o[id] # <<>>
               PROVE  /\ DOMAIN c[id].inputs = {s \in Ways(Head(o[id])) : <<id, s>> \notin less}
                      /\ \A s \in DOMAIN c[id].inputs : Filled(c, o, id, Head(o[id]), s)
    BY <1>4 DEF InputsOK
  <2>1. /\ DOMAIN b[id].inputs = {s \in Ways(Head(o[id])) : <<id, s>> \notin left}
        /\ \A s \in DOMAIN b[id].inputs : Filled(b, o, id, Head(o[id]), s)
    BY <1>1 DEF InputsOK
  <2>2. \A s \in Ways(Head(o[id])) : s # "next"
    <3>1. Head(o[id]) \in Trees
      BY <1>1, HeadTrees DEF Shape
    <3> QED BY <3>1, WaysFacts
  <2>3. {s \in Ways(Head(o[id])) : <<id, s>> \notin left} = {s \in Ways(Head(o[id])) : <<id, s>> \notin less}
    BY <2>2
  <2> QED BY <1>4, <2>1, <2>3 DEF Filled
<1>7. PlainTops(c, o)
  BY <1>1, <1>4 DEF PlainTops, Same
<1>8. Keeps(b, o, c, o)
  <2>1. Len(b) \in Nat /\ Len(b) <= Len(b)
    BY <1>1 DEF Shape
  <2> QED BY <1>4, <2>1 DEF Keeps, Same
<1> QED BY <1>3, <1>5, <1>6, <1>7, <1>8 DEF TableOK

\* An entry is put where the block of e wants it.
Fitting(b, o, i, e, s, entry, free) ==
  IF IsLiteral(WayInto(e, s)[1])
  THEN entry = [kind |-> 1, block |-> NoBlock, literal |-> WayInto(e, s)[1].literal]
  ELSE /\ entry.block \in 1 .. Len(b) /\ entry.block \in free /\ b[entry.block].parent = i
       /\ o[entry.block] = WayInto(e, s)
       /\ s \in DOMAIN e.inputs => entry.kind = Kind(WayInto(e, s)[1])

Socketing(p, t, b, o, left, free, i, e, s, entry, c, less, rest) ==
  /\ TableOK(p, t, b, o, left, free) /\ i \in 1 .. Len(b) /\ o[i] # <<>> /\ e = Head(o[i]) /\ s \in Ways(e) /\ <<i, s>> \in left
  /\ Fitting(b, o, i, e, s, entry, free) /\ c = WithInput(b, i, s, entry)
  /\ less = left \ {<<i, s>>} /\ rest = free \ {entry.block}
LEMMA SocketPut ==
  ASSUME NEW p, NEW t, NEW b, NEW o, NEW left, NEW free, NEW i, NEW e, NEW s, NEW entry, NEW c, NEW less, NEW rest,
         Socketing(p, t, b, o, left, free, i, e, s, entry, c, less, rest)
  PROVE  TableOK(p, t, c, o, less, rest) /\ Keeps(b, o, c, o)
<1>a. /\ TableOK(p, t, b, o, left, free) /\ i \in 1 .. Len(b) /\ o[i] # <<>> /\ e = Head(o[i]) /\ s \in Ways(e) /\ <<i, s>> \in left
      /\ Fitting(b, o, i, e, s, entry, free) /\ c = WithInput(b, i, s, entry)
      /\ less = left \ {<<i, s>>} /\ rest = free \ {entry.block}
  BY DEF Socketing
<1> USE <1>a
<1>1. Shape(p, t, b, o) /\ NextOK(p, b, o, left) /\ InputsOK(b, o, left) /\ PlainTops(b, o)
  BY DEF TableOK
<1>2. e \in Trees /\ s # "next"
  <2>1. o[i] \in Seq(Trees)
    BY <1>1 DEF Shape
  <2>2. e \in Trees
    BY <2>1, HeadTrees
  <2> QED BY <2>2, WaysFacts
<1>3. /\ Relinked(b, c, i, s, entry.block) /\ c[i].next = b[i].next
      /\ DOMAIN c[i].inputs = DOMAIN b[i].inputs \cup {s} /\ c[i].inputs[s] = entry
      /\ \A y \in DOMAIN b[i].inputs : y # s => c[i].inputs[y] = b[i].inputs[y]
  <2>1. Table(b)
    BY <1>1 DEF Shape, Table
  <2>2. PutInto(b, c, i, s, entry)
    BY <1>2, <2>1 DEF PutInto
  <2> QED BY ONLY <2>2, InputSet
<1>4. entry.block # NoBlock => entry.block \in 1 .. Len(b) /\ entry.block \in free /\ b[entry.block].parent = i
  BY DEF Fitting
<1>5. Shape(p, t, c, o) /\ Unset(c, less) /\ Owned(c, rest) /\ Placed(c, rest)
  <2> DEFINE v == entry.block
  <2>1. TableOK(p, t, b, o, left, free) /\ Fillable(b, left, free, i, s, v, less, rest) /\ Relinked(b, c, i, s, v)
    BY <1>3, <1>4 DEF Fillable
  <2> HIDE DEF v
  <2> QED BY ONLY <2>1, PlaceFilled
<1>6. /\ Len(c) = Len(b)
      /\ \A id \in 1 .. Len(b) : /\ Same(c[id], b[id]) /\ c[id].next = b[id].next
                                 /\ id # i => c[id].inputs = b[id].inputs
  BY <1>3 DEF Relinked
<1>7. NextOK(p, c, o, less)
  <2> SUFFICES ASSUME NEW id \in 1 .. Len(b), <<id, "next">> \notin less
               PROVE  IF c[id].next = NoBlock THEN Story(p, c, o, id) = <<>>
                      ELSE o[c[id].next] = Story(p, c, o, id) /\ o[c[id].next] # <<>>
    BY <1>6 DEF NextOK
  <2>1. Story(p, c, o, id) = Story(p, b, o, id)
    BY <1>6, StoryKept
  <2>2. <<id, "next">> \notin left
    BY <1>2
  <2> QED BY <1>1, <1>6, <2>1, <2>2 DEF NextOK
<1>8. InputsOK(c, o, less)
  <2> SUFFICES ASSUME NEW id \in 1 .. Len(b), o[id] # <<>>
               PROVE  /\ DOMAIN c[id].inputs = {y \in Ways(Head(o[id])) : <<id, y>> \notin less}
                      /\ \A y \in DOMAIN c[id].inputs : Filled(c, o, id, Head(o[id]), y)
    BY <1>6 DEF InputsOK
  <2>1. /\ DOMAIN b[id].inputs = {y \in Ways(Head(o[id])) : <<id, y>> \notin left}
        /\ \A y \in DOMAIN b[id].inputs : Filled(b, o, id, Head(o[id]), y)
    BY <1>1 DEF InputsOK
  <2>2. CASE id # i
    <3>1. {y \in Ways(Head(o[id])) : <<id, y>> \notin left} = {y \in Ways(Head(o[id])) : <<id, y>> \notin less}
      BY <2>2
    <3> QED BY <1>6, <2>1, <2>2, <3>1 DEF Filled
  <2>3. CASE id = i
    <3>1. {y \in Ways(e) : <<i, y>> \notin less} = {y \in Ways(e) : <<i, y>> \notin left} \cup {s}
      OBVIOUS
    <3>2. DOMAIN b[i].inputs = {y \in Ways(e) : <<i, y>> \notin left} /\ s \notin DOMAIN b[i].inputs
      BY <2>1, <2>3
    <3>3. Filled(c, o, i, e, s)
      BY <1>1, <1>3, ProjectAssumption DEF Filled, Fitting, Shape
    <3>4. ASSUME NEW y \in DOMAIN b[i].inputs PROVE Filled(c, o, i, e, y)
      BY <1>3, <2>1, <2>3, <3>2 DEF Filled
    <3> QED BY <1>3, <2>3, <3>1, <3>2, <3>3, <3>4
  <2> QED BY <2>2, <2>3
<1>9. PlainTops(c, o)
  BY <1>1, <1>6 DEF PlainTops, Same
<1>10. Keeps(b, o, c, o)
  <2>1. Len(b) \in Nat /\ Len(b) <= Len(b)
    BY <1>1 DEF Shape
  <2> QED BY <1>6, <2>1 DEF Keeps, Same
<1> QED BY <1>5, <1>7, <1>8, <1>9, <1>10 DEF TableOK

\* A place where nothing belongs is done.
Dropping(p, t, b, o, left, free, i, x, less) ==
  /\ TableOK(p, t, b, o, left, free) /\ i \in 1 .. Len(b) /\ <<i, x>> \in left /\ less = left \ {<<i, x>>}
  /\ x = "next" => Story(p, b, o, i) = <<>>
  /\ x # "next" /\ o[i] # <<>> => x \notin Ways(Head(o[i]))
LEMMA PlaceDropped ==
  ASSUME NEW p, NEW t, NEW b, NEW o, NEW left, NEW free, NEW i, NEW x, NEW less, Dropping(p, t, b, o, left, free, i, x, less)
  PROVE  TableOK(p, t, b, o, less, free)
<1>a. /\ TableOK(p, t, b, o, left, free) /\ i \in 1 .. Len(b) /\ <<i, x>> \in left /\ less = left \ {<<i, x>>}
      /\ x = "next" => Story(p, b, o, i) = <<>>
      /\ x # "next" /\ o[i] # <<>> => x \notin Ways(Head(o[i]))
  BY DEF Dropping
<1> USE <1>a
<1>1. /\ Shape(p, t, b, o) /\ Unset(b, left) /\ Owned(b, free) /\ Placed(b, free)
      /\ NextOK(p, b, o, left) /\ InputsOK(b, o, left) /\ PlainTops(b, o)
  BY DEF TableOK
<1>2. Unset(b, less)
  BY <1>1 DEF Unset
<1>3. NextOK(p, b, o, less)
  <2> SUFFICES ASSUME NEW id \in 1 .. Len(b), <<id, "next">> \notin less
               PROVE  IF b[id].next = NoBlock THEN Story(p, b, o, id) = <<>>
                      ELSE o[b[id].next] = Story(p, b, o, id) /\ o[b[id].next] # <<>>
    BY DEF NextOK
  <2>1. CASE <<id, "next">> \notin left
    BY <1>1, <2>1 DEF NextOK
  <2>2. CASE <<id, "next">> \in left
    <3>1. id = i /\ x = "next"
      BY <2>2
    <3>2. b[i].next = NoBlock
      BY <1>1, <3>1 DEF Unset, Content
    <3> QED BY <3>1, <3>2
  <2> QED BY <2>1, <2>2
<1>4. InputsOK(b, o, less)
  <2> SUFFICES ASSUME NEW id \in 1 .. Len(b), o[id] # <<>>
               PROVE  /\ DOMAIN b[id].inputs = {y \in Ways(Head(o[id])) : <<id, y>> \notin less}
                      /\ \A y \in DOMAIN b[id].inputs : Filled(b, o, id, Head(o[id]), y)
    BY DEF InputsOK
  <2>1. /\ DOMAIN b[id].inputs = {y \in Ways(Head(o[id])) : <<id, y>> \notin left}
        /\ \A y \in DOMAIN b[id].inputs : Filled(b, o, id, Head(o[id]), y)
    BY <1>1 DEF InputsOK
  <2>2. \A y \in Ways(Head(o[id])) : y # "next"
    <3>1. Head(o[id]) \in Trees
      BY <1>1, HeadTrees DEF Shape
    <3> QED BY <3>1, WaysFacts
  <2>3. \A y \in Ways(Head(o[id])) : id # i \/ y # x
    BY <2>2
  <2>4. {y \in Ways(Head(o[id])) : <<id, y>> \notin left} = {y \in Ways(Head(o[id])) : <<id, y>> \notin less}
    BY <2>3
  <2> QED BY <2>1, <2>4
<1> QED BY <1>1, <1>2, <1>3, <1>4 DEF TableOK

-----------------------------------------------------------------------------
(* A hat or a definition is begun: the table holds nothing unfinished. *)

\* Blocks at the end of the table that stand for no tree.
Rooted(b, o, n) == [k \in 1 .. n |-> IF k \in 1 .. Len(b) THEN o[k] ELSE <<>>]

\* What a table with more blocks at its end keeps of the one it had.
Longer(b, c) ==
  /\ \E S : c \in Seq(S)
  /\ Len(b) \in Nat /\ Len(c) \in Nat /\ Len(b) < Len(c) /\ \A id \in 1 .. Len(b) : c[id] = b[id]
\* What is said of one of the blocks that were added to t hats and definitions.
Plain(p, t, c, q, n, id) ==
  /\ DOMAIN c[id] = Fields /\ c[id].next = NoBlock /\ q[id] = <<>>
  /\ c[id].topLevel = (c[id].parent = NoBlock) /\ c[id].topLevel = (c[id].index # 0)
  /\ c[id].topLevel = (id = n)
  /\ id = n => c[id].index = t + 1 /\ c[id].op = p[c[id].index].op
  /\ id # n => c[id].parent \in n .. Len(c) /\ \E x : Content(c, c[id].parent, x) = id
  /\ \A y : Content(c, id, y) # NoBlock =>
       /\ Content(c, id, y) \in n + 1 .. Len(c) /\ c[Content(c, id, y)].parent = id
       /\ \A z : Content(c, id, z) = Content(c, id, y) => z = y
  /\ \A s \in DOMAIN c[id].inputs : s # "next" /\ ~BooleanSocket(c[id].op, s)

LEMMA RootsAdded ==
  ASSUME NEW p, NEW t \in Nat, NEW b, NEW o, TableOK(p, t, b, o, {}, {}), NEW c, Longer(b, c), NEW q, q = Rooted(b, o, Len(c)),
         NEW n, n = Len(b) + 1, \A id \in n .. Len(c) : Plain(p, t, c, q, n, id), NEW left, left = {<<n, "next">>}
  PROVE  TableOK(p, t + 1, c, q, left, {})
<1>1. /\ Shape(p, t, b, o) /\ Unset(b, {}) /\ Owned(b, {}) /\ Placed(b, {})
      /\ NextOK(p, b, o, {}) /\ InputsOK(b, o, {}) /\ PlainTops(b, o)
  BY DEF TableOK
<1>2. /\ \E S : c \in Seq(S)
      /\ Len(b) \in Nat /\ Len(c) \in Nat /\ n \in Nat /\ Len(b) < n /\ n \in n .. Len(c) /\ n \in 1 .. Len(c)
      /\ \A id \in 1 .. Len(b) : c[id] = b[id] /\ id \in 1 .. Len(c) /\ id # n /\ id < n
      /\ \A id \in n .. Len(c) : id \in 1 .. Len(c) /\ id \in Nat
      /\ \A id \in 1 .. Len(c) : id \in 1 .. Len(b) \/ id \in n .. Len(c)
      /\ \A id \in n + 1 .. Len(c) : id \in 1 .. Len(c)
  BY DEF Longer
<1>3. /\ q \in [1 .. Len(c) -> Seq(Trees)] /\ (\A id \in 1 .. Len(b) : q[id] = o[id]) /\ \A id \in n .. Len(c) : q[id] = <<>>
  <2>1. o \in [1 .. Len(b) -> Seq(Trees)]
    BY <1>1 DEF Shape
  <2>2. <<>> \in Seq(Trees) /\ (\A id \in n .. Len(c) : id \notin 1 .. Len(b) /\ id \in 1 .. Len(c))
    BY <1>2
  <2> QED BY <1>2, <2>1, <2>2 DEF Rooted
<1>4. \A id \in 1 .. Len(b) : \A y : Content(c, id, y) = Content(b, id, y)
  BY <1>2 DEF Content
<1>5. Shape(p, t + 1, c, q)
  <2>1. ASSUME NEW id \in 1 .. Len(c)
        PROVE  /\ DOMAIN c[id] = Fields
               /\ c[id].topLevel = (c[id].parent = NoBlock) /\ c[id].topLevel = (c[id].index # 0)
               /\ c[id].topLevel => c[id].index \in 1 .. t + 1 /\ c[id].op = p[c[id].index].op /\ q[id] = <<>>
               /\ q[id] # <<>> => c[id].op = Head(q[id]).op
    <3>1. CASE id \in n .. Len(c)
      <4>1. t + 1 \in 1 .. t + 1
        OBVIOUS
      <4> QED BY <3>1, <4>1 DEF Plain
    <3>2. CASE id \in 1 .. Len(b)
      <4>1. \A k \in 1 .. t : k \in 1 .. t + 1
        OBVIOUS
      <4>2. /\ DOMAIN b[id] = Fields
            /\ b[id].topLevel = (b[id].parent = NoBlock) /\ b[id].topLevel = (b[id].index # 0)
            /\ b[id].topLevel => b[id].index \in 1 .. t /\ b[id].op = p[b[id].index].op /\ o[id] = <<>>
            /\ o[id] # <<>> => b[id].op = Head(o[id]).op
        BY <1>1, <3>2 DEF Shape
      <4>3. c[id] = b[id] /\ q[id] = o[id]
        BY <1>2, <1>3, <3>2
      <4> QED BY ONLY <4>1, <4>2, <4>3
    <3> QED BY <1>2, <3>1, <3>2
  <2>2. \A k \in 1 .. t + 1 : \E id \in 1 .. Len(c) : c[id].topLevel /\ c[id].index = k
    <3> TAKE k \in 1 .. t + 1
    <3>1. CASE k = t + 1
      <4>1. c[n].topLevel /\ c[n].index = t + 1
        BY <1>2 DEF Plain
      <4> QED BY <1>2, <3>1, <4>1
    <3>2. CASE k # t + 1
      <4>1. k \in 1 .. t
        BY <3>2
      <4>2. PICK id \in 1 .. Len(b) : b[id].topLevel /\ b[id].index = k
        BY <1>1, <4>1 DEF Shape
      <4> QED BY <1>2, <4>2
    <3> QED BY <3>1, <3>2
  <2>3. \A i, j \in 1 .. Len(c) : c[i].topLevel /\ c[j].topLevel /\ c[i].index = c[j].index => i = j
    <3>1. ASSUME NEW i \in 1 .. Len(c), c[i].topLevel
          PROVE  \/ i = n /\ c[i].index = t + 1
                 \/ i \in 1 .. Len(b) /\ b[i].topLevel /\ c[i].index = b[i].index /\ b[i].index # t + 1
      <4>1. CASE i \in n .. Len(c)
        BY <3>1, <4>1 DEF Plain
      <4>2. CASE i \in 1 .. Len(b)
        <5>1. c[i] = b[i] /\ b[i].topLevel
          BY <1>2, <3>1, <4>2
        <5>2. b[i].index \in 1 .. t
          BY <1>1, <4>2, <5>1 DEF Shape
        <5>3. b[i].index # t + 1
          BY <5>2
        <5> QED BY <4>2, <5>1, <5>3
      <4> QED BY <1>2, <4>1, <4>2
    <3> TAKE i, j \in 1 .. Len(c)
    <3>2. HAVE c[i].topLevel /\ c[j].topLevel /\ c[i].index = c[j].index
    <3>3. \A k, l \in 1 .. Len(b) : b[k].topLevel /\ b[l].topLevel /\ b[k].index = b[l].index => k = l
      BY <1>1 DEF Shape
    <3>4. \/ i = n /\ c[i].index = t + 1
          \/ i \in 1 .. Len(b) /\ b[i].topLevel /\ c[i].index = b[i].index /\ b[i].index # t + 1
      BY <3>1, <3>2
    <3>5. \/ j = n /\ c[j].index = t + 1
          \/ j \in 1 .. Len(b) /\ b[j].topLevel /\ c[j].index = b[j].index /\ b[j].index # t + 1
      BY <3>1, <3>2
    <3> QED BY ONLY <3>2, <3>3, <3>4, <3>5
  <2> QED BY <1>2, <1>3, <2>1, <2>2, <2>3 DEF Shape
<1>6. Unset(c, left)
  BY <1>2 DEF Plain, Unset, Content
<1>7. Owned(c, {})
  <2> SUFFICES ASSUME NEW id \in 1 .. Len(c), NEW y, Content(c, id, y) # NoBlock
               PROVE  /\ Content(c, id, y) \in 1 .. Len(c) /\ c[Content(c, id, y)].parent = id
                      /\ \A z : Content(c, id, z) = Content(c, id, y) => z = y
    BY DEF Owned
  <2>1. CASE id \in n .. Len(c)
    BY <1>2, <2>1 DEF Plain
  <2>2. CASE id \in 1 .. Len(b)
    <3>1. Content(b, id, y) # NoBlock /\ \A z : Content(c, id, z) = Content(b, id, z)
      BY <1>4, <2>2
    <3>2. /\ Content(b, id, y) \in 1 .. Len(b) /\ b[Content(b, id, y)].parent = id
          /\ \A z : Content(b, id, z) = Content(b, id, y) => z = y
      BY <1>1, <2>2, <3>1 DEF Owned
    <3> QED BY <1>2, <3>1, <3>2
  <2> QED BY <1>2, <2>1, <2>2
<1>8. Placed(c, {})
  <2> SUFFICES ASSUME NEW id \in 1 .. Len(c), ~c[id].topLevel
               PROVE  c[id].parent \in 1 .. Len(c) /\ \E x : Content(c, c[id].parent, x) = id
    BY DEF Placed
  <2>1. CASE id \in n .. Len(c)
    BY <1>2, <2>1 DEF Plain
  <2>2. CASE id \in 1 .. Len(b)
    <3>1. b[id].parent \in 1 .. Len(b) /\ \E x : Content(b, b[id].parent, x) = id
      BY <1>1, <1>2, <2>2 DEF Placed
    <3> QED BY <1>2, <1>4, <2>2, <3>1
  <2> QED BY <1>2, <2>1, <2>2
<1>9. NextOK(p, c, q, left)
  <2> SUFFICES ASSUME NEW id \in 1 .. Len(c), <<id, "next">> \notin left
               PROVE  IF c[id].next = NoBlock THEN Story(p, c, q, id) = <<>>
                      ELSE q[c[id].next] = Story(p, c, q, id) /\ q[c[id].next] # <<>>
    BY DEF NextOK
  <2>1. id # n
    OBVIOUS
  <2>2. CASE id \in n .. Len(c)
    BY <1>3, <2>1, <2>2 DEF Plain, Story
  <2>3. CASE id \in 1 .. Len(b)
    <3>1. IF b[id].next = NoBlock THEN Story(p, b, o, id) = <<>>
          ELSE o[b[id].next] = Story(p, b, o, id) /\ o[b[id].next] # <<>>
      BY <1>1, <2>3 DEF NextOK
    <3>2. Story(p, c, q, id) = Story(p, b, o, id) /\ c[id].next = b[id].next
      BY <1>2, <1>3, <2>3 DEF Story
    <3>3. b[id].next # NoBlock => b[id].next \in 1 .. Len(b)
      BY <1>1, <2>3 DEF Owned, Content
    <3> QED BY <1>3, <3>1, <3>2, <3>3
  <2> QED BY <1>2, <2>2, <2>3
<1>10. InputsOK(c, q, left)
  <2> SUFFICES ASSUME NEW id \in 1 .. Len(c), q[id] # <<>>
               PROVE  /\ DOMAIN c[id].inputs = {s \in Ways(Head(q[id])) : <<id, s>> \notin left}
                      /\ \A s \in DOMAIN c[id].inputs : Filled(c, q, id, Head(q[id]), s)
    BY DEF InputsOK
  <2>1. id \in 1 .. Len(b) /\ c[id] = b[id] /\ q[id] = o[id]
    BY <1>2, <1>3
  <2>2. /\ DOMAIN b[id].inputs = {s \in Ways(Head(o[id])) : <<id, s>> \notin {}}
        /\ \A s \in DOMAIN b[id].inputs : Filled(b, o, id, Head(o[id]), s)
    BY <1>1, <2>1 DEF InputsOK
  <2>3. id # n
    BY <1>2, <2>1
  <2>4. {s \in Ways(Head(o[id])) : <<id, s>> \notin {}} = {s \in Ways(Head(o[id])) : <<id, s>> \notin left}
    BY <2>3
  <2>5. ASSUME NEW s \in DOMAIN b[id].inputs PROVE Filled(c, q, id, Head(o[id]), s)
    <3>1. Filled(b, o, id, Head(o[id]), s)
      BY <2>2
    <3>2. s # "next"
      <4>1. Head(o[id]) \in Trees
        BY <1>1, <2>1, HeadTrees DEF Shape
      <4> QED BY <2>2, <4>1, WaysFacts
    <3>3. b[id].inputs[s].block # NoBlock => b[id].inputs[s].block \in 1 .. Len(b)
      BY <1>1, <2>1, <3>2 DEF Owned, Content
    <3> QED BY <1>3, <2>1, <3>1, <3>3 DEF Filled
  <2> QED BY <2>1, <2>2, <2>4, <2>5
<1>11. PlainTops(c, q)
  <2> SUFFICES ASSUME NEW id \in 1 .. Len(c), q[id] = <<>>, NEW s \in DOMAIN c[id].inputs
               PROVE  s # "next" /\ ~BooleanSocket(c[id].op, s)
    BY DEF PlainTops
  <2>1. CASE id \in n .. Len(c)
    BY <2>1 DEF Plain
  <2>2. CASE id \in 1 .. Len(b)
    BY <1>1, <1>2, <1>3, <2>2 DEF PlainTops
  <2> QED BY <1>2, <2>1, <2>2
<1> QED BY <1>5, <1>6, <1>7, <1>8, <1>9, <1>10, <1>11 DEF TableOK

Heading(p, t, b, o, op, n, c, q, left) ==
  /\ t \in Nat /\ TableOK(p, t, b, o, {}, {}) /\ op = p[t + 1].op /\ c = Append(b, Block(op, NoBlock, FALSE, t + 1))
  /\ n = Len(b) + 1 /\ q = Rooted(b, o, n) /\ left = {<<n, "next">>}
LEMMA HatAdded ==
  ASSUME NEW p, NEW t, NEW b, NEW o, NEW op, NEW n, NEW c, NEW q, NEW left, Heading(p, t, b, o, op, n, c, q, left)
  PROVE  TableOK(p, t + 1, c, q, left, {}) /\ Longer(b, c) /\ Len(c) = n /\ c[n].topLevel /\ c[n].index = t + 1
<1>a. /\ t \in Nat /\ TableOK(p, t, b, o, {}, {}) /\ op = p[t + 1].op /\ c = Append(b, Block(op, NoBlock, FALSE, t + 1))
      /\ n = Len(b) + 1 /\ q = Rooted(b, o, n) /\ left = {<<n, "next">>}
  BY DEF Heading
<1> USE <1>a
<1> DEFINE r == Block(op, NoBlock, FALSE, t + 1)
<1>1. /\ DOMAIN r = Fields /\ r.op = op /\ r.parent = NoBlock /\ r.next = NoBlock /\ DOMAIN r.inputs = {}
      /\ r.topLevel = TRUE /\ r.index = t + 1
  <2>1. r = Block(op, NoBlock, FALSE, t + 1)
    OBVIOUS
  <2> HIDE DEF r
  <2>2. /\ DOMAIN r = Fields /\ r.op = op /\ r.parent = NoBlock /\ r.next = NoBlock /\ DOMAIN r.inputs = {}
        /\ r.topLevel = (t + 1 # 0) /\ r.index = t + 1
    BY ONLY <2>1 DEF Block, Fields, NoSockets
  <2>3. (t + 1 # 0) = TRUE
    OBVIOUS
  <2> QED BY <2>2, <2>3
<1>2. c = Append(b, r)
  OBVIOUS
<1> HIDE DEF r
<1>3. /\ \E S : c \in Seq(S)
      /\ Len(b) \in Nat /\ Len(c) = n /\ c[n] = r
      /\ \A id \in 1 .. Len(b) : c[id] = b[id]
  <2>1. c = Append(b, r) /\ \E S : b \in Seq(S)
    BY <1>2 DEF TableOK, Shape
  <2>2. /\ \E S : c \in Seq(S)
        /\ Len(b) \in Nat /\ Len(c) = Len(b) + 1 /\ c[Len(c)] = r
        /\ \A id \in 1 .. Len(b) : id \in 1 .. Len(c) /\ c[id] = b[id] /\ id # Len(c)
        /\ \A id \in 1 .. Len(c) : id = Len(c) \/ id \in 1 .. Len(b)
    BY ONLY <2>1, Added
  <2> QED BY <2>2
<1>4. Longer(b, c)
  <2>1. Len(c) \in Nat /\ Len(b) < Len(c)
    BY <1>3
  <2> QED BY <1>3, <2>1 DEF Longer
<1>5. q = Rooted(b, o, Len(c)) /\ n \in Nat /\ q[n] = <<>>
  BY <1>3 DEF Rooted
<1>6. \A id \in n .. Len(c) : Plain(p, t, c, q, n, id)
  <2>1. \A id \in n .. Len(c) : id = n
    BY <1>3, <1>5
  <2>2. \A y : Content(c, n, y) = NoBlock
    BY <1>1, <1>3 DEF Content
  <2>3. c[n].topLevel = (c[n].parent = NoBlock) /\ c[n].topLevel = (c[n].index # 0) /\ c[n].topLevel = (n = n)
    <3>1. (NoBlock = NoBlock) = TRUE /\ (t + 1 # 0) = TRUE /\ (n = n) = TRUE
      OBVIOUS
    <3>2. c[n].topLevel = TRUE /\ c[n].parent = NoBlock /\ c[n].index = t + 1
      BY <1>1, <1>3
    <3> QED BY ONLY <3>1, <3>2
  <2>4. Plain(p, t, c, q, n, n)
    BY <1>1, <1>3, <1>5, <2>2, <2>3 DEF Plain
  <2> QED BY <2>1, <2>4
<1>7. TableOK(p, t + 1, c, q, left, {})
  BY <1>4, <1>5, <1>6, RootsAdded
<1> QED BY <1>1, <1>3, <1>4, <1>7

\* The blocks of a definition behind a table.
After(b, c, n, x, y, r, m) ==
  (\E S : b \in Seq(S)) /\ n = Len(b) + 1 /\ m \in Nat /\ c = b \o <<x, y>> \o [i \in 1 .. m |-> r]
\* c is d with e at its end.
Joins(U, d, e, c) == d \in Seq(U) /\ e \in Seq(U) /\ c = d \o e
LEMMA Joined ==
  ASSUME NEW U, NEW d, NEW e, NEW c, Joins(U, d, e, c)
  PROVE  /\ c \in Seq(U) /\ Len(d) \in Nat /\ Len(e) \in Nat /\ Len(c) = Len(d) + Len(e)
         /\ \A id \in 1 .. Len(d) : c[id] = d[id]
         /\ \A id \in Len(d) + 1 .. Len(c) : c[id] = e[id - Len(d)]
<1>1. /\ c \in Seq(U) /\ Len(c) = Len(d) + Len(e)
      /\ \A i \in 1 .. Len(d) + Len(e) : c[i] = IF i <= Len(d) THEN d[i] ELSE e[i - Len(d)]
  BY ConcatProperties DEF Joins
<1>2. Len(d) \in Nat /\ Len(e) \in Nat
  BY DEF Joins
<1> DEFINE m == Len(d)
           n == Len(e)
<1>3. \A i \in 1 .. m + n : c[i] = IF i <= m THEN d[i] ELSE e[i - m]
  BY <1>1
<1>4. m \in Nat /\ n \in Nat /\ Len(c) = m + n
  BY <1>1, <1>2
<1> HIDE DEF m, n
<1>5. \A id \in 1 .. m : c[id] = d[id]
  <2> TAKE id \in 1 .. m
  <2>1. id \in 1 .. m + n /\ id <= m
    BY <1>4
  <2> QED BY <1>3, <2>1
<1>6. \A id \in m + 1 .. m + n : c[id] = e[id - m]
  <2> TAKE id \in m + 1 .. m + n
  <2>1. id \in 1 .. m + n /\ ~(id <= m)
    BY <1>4
  <2> QED BY <1>3, <2>1
<1> QED BY <1>1, <1>2, <1>4, <1>5, <1>6 DEF m, n

LEMMA ThreeParts ==
  ASSUME NEW b, NEW c, NEW n, NEW x, NEW y, NEW r, NEW m, After(b, c, n, x, y, r, m)
  PROVE  /\ Longer(b, c) /\ n \in Nat /\ n > Len(b) /\ Len(c) = n + 1 + m /\ c[n] = x /\ c[n + 1] = y
         /\ \A id \in n + 2 .. Len(c) : c[id] = r
<1>0. n = Len(b) + 1 /\ m \in Nat
  BY DEF After
<1>1. PICK S : b \in Seq(S)
  BY DEF After
<1> DEFINE d == b \o <<x, y>>
<1> DEFINE T == S \cup {x, y}
<1> DEFINE e == [i \in 1 .. m |-> r]
<1>2. /\ d \in Seq(T) /\ Len(b) \in Nat /\ Len(d) = Len(b) + 2 /\ (\A id \in 1 .. Len(b) : d[id] = b[id])
      /\ d[Len(b) + 1] = x /\ d[Len(b) + 2] = y
  <2>1. b \in Seq(T) /\ <<x, y>> \in Seq(T) /\ Len(<<x, y>>) = 2 /\ <<x, y>>[1] = x /\ <<x, y>>[2] = y
    BY <1>1
  <2> DEFINE xy == <<x, y>>
  <2>2. xy \in Seq(T) /\ Len(xy) = 2 /\ xy[1] = x /\ xy[2] = y /\ d = b \o xy
    BY <2>1
  <2> HIDE DEF xy, T, d
  <2>a. b \in Seq(T) /\ xy \in Seq(T) /\ d = b \o xy
    BY <2>1, <2>2
  <2>0. b \in Seq(T) /\ xy \in Seq(T) /\ d = b \o xy /\ Len(xy) = 2
    BY <2>2, <2>a
  <2>3. /\ d \in Seq(T) /\ Len(b) \in Nat /\ Len(d) = Len(b) + Len(xy)
        /\ \A id \in 1 .. Len(b) : d[id] = b[id]
        /\ \A id \in Len(b) + 1 .. Len(d) : d[id] = xy[id - Len(b)]
    <3>1. Joins(T, b, xy, d)
      BY <2>0 DEF Joins
    <3> QED BY ONLY <3>1, Joined
  <2> DEFINE k == Len(b)
  <2>4. /\ k \in Nat /\ Len(d) = k + 2 /\ \A id \in k + 1 .. k + 2 : d[id] = xy[id - k]
    BY ONLY <2>0, <2>3
  <2> HIDE DEF k
  <2>5. d[k + 1] = xy[1] /\ d[k + 2] = xy[2]
    <3>1. k + 1 \in k + 1 .. k + 2 /\ k + 2 \in k + 1 .. k + 2 /\ (k + 1) - k = 1 /\ (k + 2) - k = 2
      BY <2>4
    <3> QED BY <2>4, <3>1
  <2> QED BY <2>2, <2>3, <2>4, <2>5 DEF k
<1>3. e \in Seq({r}) /\ Len(e) = m /\ (\A i \in 1 .. m : e[i] = r) /\ c = d \o e
  BY DEF After
<1> HIDE DEF d, T, e
<1>4. /\ c \in Seq(T \cup {r}) /\ Len(c) = Len(d) + m
      /\ \A id \in 1 .. Len(d) : c[id] = d[id]
      /\ \A id \in Len(d) + 1 .. Len(c) : c[id] = e[id - Len(d)]
  <2>1. d \in Seq(T \cup {r}) /\ e \in Seq(T \cup {r})
    BY <1>2, <1>3
  <2> DEFINE U == T \cup {r}
  <2>2. d \in Seq(U) /\ e \in Seq(U) /\ c = d \o e /\ Len(e) = m /\ m \in Nat
    BY <1>0, <1>3, <2>1
  <2> HIDE DEF U
  <2>3. /\ c \in Seq(U) /\ Len(c) = Len(d) + Len(e)
        /\ \A id \in 1 .. Len(d) : c[id] = d[id]
        /\ \A id \in Len(d) + 1 .. Len(c) : c[id] = e[id - Len(d)]
    <3>1. Joins(U, d, e, c)
      BY <2>2 DEF Joins
    <3> QED BY ONLY <3>1, Joined
  <2> QED BY <2>2, <2>3 DEF U
<1>5. n \in Nat /\ n > Len(b) /\ Len(c) = n + 1 + m
  BY <1>0, <1>2, <1>4
<1>6. Longer(b, c)
  <2>1. Len(c) \in Nat /\ Len(b) < Len(c) /\ \A id \in 1 .. Len(b) : id \in 1 .. Len(d)
    BY <1>0, <1>2, <1>5
  <2> QED BY <1>2, <1>4, <2>1 DEF Longer
<1>7. c[n] = x /\ c[n + 1] = y
  BY <1>0, <1>2, <1>4
<1>8. \A id \in n + 2 .. Len(c) : c[id] = r
  <2> TAKE id \in n + 2 .. Len(c)
  <2>1. id \in Len(d) + 1 .. Len(c) /\ id - Len(d) \in 1 .. m
    BY <1>0, <1>2, <1>5
  <2> QED BY <1>3, <1>4, <2>1
<1> QED BY <1>5, <1>6, <1>7, <1>8

\* The reporter for an argument has its place.
Numbers(ids, n) == [s \in Range(ids) |-> n + 1 + (CHOOSE i \in DOMAIN ids : ids[i] = s)]
Numbered(ids, n, m, spot) == ids \in Seq(STRING) /\ IsInjective(ids) /\ n \in Nat /\ m = Len(ids) /\ spot = Numbers(ids, n)
LEMMA Reporters ==
  ASSUME NEW ids, NEW n, NEW m, NEW spot, Numbered(ids, n, m, spot)
  PROVE  /\ \A s \in Range(ids) : spot[s] \in n + 2 .. n + 1 + m
         /\ \A s, z \in Range(ids) : spot[s] = spot[z] => s = z
         /\ \A id \in n + 2 .. n + 1 + m : \E s \in Range(ids) : spot[s] = id
<1>1. /\ Len(ids) \in Nat /\ DOMAIN ids = 1 .. Len(ids) /\ IsInjective(ids) /\ n \in Nat /\ m = Len(ids)
      /\ spot = Numbers(ids, n)
  BY DEF Numbered
<1>2. ASSUME NEW s \in Range(ids)
      PROVE  \E i \in 1 .. Len(ids) : ids[i] = s /\ spot[s] = n + 1 + i
  <2> DEFINE i == CHOOSE k \in DOMAIN ids : ids[k] = s
  <2>1. i \in DOMAIN ids /\ ids[i] = s
    BY DEF Range
  <2>2. spot[s] = n + 1 + i
    BY <1>1 DEF Numbers
  <2> HIDE DEF i
  <2> QED BY <1>1, <2>1, <2>2
<1>3. \A s \in Range(ids) : spot[s] \in n + 2 .. n + 1 + m
  <2> TAKE s \in Range(ids)
  <2>1. PICK i \in 1 .. Len(ids) : ids[i] = s /\ spot[s] = n + 1 + i
    BY <1>2
  <2> QED BY <1>1, <2>1
<1>4. \A s, z \in Range(ids) : spot[s] = spot[z] => s = z
  <2> TAKE s, z \in Range(ids)
  <2>1. HAVE spot[s] = spot[z]
  <2>2. PICK i \in 1 .. Len(ids) : ids[i] = s /\ spot[s] = n + 1 + i
    BY <1>2
  <2>3. PICK j \in 1 .. Len(ids) : ids[j] = z /\ spot[z] = n + 1 + j
    BY <1>2
  <2>4. i = j
    <3>1. n + 1 + i = n + 1 + j
      BY ONLY <2>1, <2>2, <2>3
    <3>2. i \in Nat /\ j \in Nat
      BY ONLY <1>1, <2>2, <2>3
    <3> QED BY ONLY <1>1, <3>1, <3>2
  <2> QED BY <2>2, <2>3, <2>4
<1>5. \A id \in n + 2 .. n + 1 + m : \E s \in Range(ids) : spot[s] = id
  <2> TAKE id \in n + 2 .. n + 1 + m
  <2>1. PICK k \in 1 .. Len(ids) : id = n + 1 + k
    <3>1. id - (n + 1) \in 1 .. Len(ids) /\ id = n + 1 + (id - (n + 1))
      BY <1>1
    <3> QED BY <3>1
  <2>2. ids[k] \in Range(ids)
    BY <1>1 DEF Range
  <2>3. PICK i \in 1 .. Len(ids) : ids[i] = ids[k] /\ spot[ids[k]] = n + 1 + i
    BY <1>2, <2>2
  <2>4. i = k
    BY <1>1, <2>3 DEF IsInjective
  <2> QED BY <2>1, <2>2, <2>3, <2>4
<1> QED BY <1>3, <1>4, <1>5

Defining(p, t, b, o, ids, n, x, y, r, c, q, left) ==
  /\ t \in Nat /\ TableOK(p, t, b, o, {}, {}) /\ p[t + 1].op = "procedures_definition"
  /\ ids \in Seq(STRING) /\ IsInjective(ids) /\ "next" \notin Range(ids) /\ n = Len(b) + 1
  /\ x = [Block("procedures_definition", NoBlock, FALSE, t + 1) EXCEPT !.inputs = [s \in {"custom_block"} |-> Holding(1, n + 1)]]
  /\ y = [Block("procedures_prototype", n, TRUE, 0) EXCEPT
             !.inputs = [s \in Range(ids) |-> Holding(1, n + 1 + (CHOOSE i \in DOMAIN ids : ids[i] = s))]]
  /\ r = Block("argument_reporter_string_number", n + 1, TRUE, 0)
  /\ c = b \o <<x, y>> \o [i \in 1 .. Len(ids) |-> r] /\ q = Rooted(b, o, Len(c)) /\ left = {<<n, "next">>}
LEMMA DefinitionAdded ==
  ASSUME NEW p, NEW t, NEW b, NEW o, NEW ids, NEW n, NEW x, NEW y, NEW r, NEW c, NEW q, NEW left,
         Defining(p, t, b, o, ids, n, x, y, r, c, q, left)
  PROVE  TableOK(p, t + 1, c, q, left, {}) /\ Longer(b, c) /\ n \in 1 .. Len(c) /\ c[n].topLevel /\ c[n].index = t + 1
<1>a. /\ t \in Nat /\ TableOK(p, t, b, o, {}, {}) /\ p[t + 1].op = "procedures_definition"
      /\ ids \in Seq(STRING) /\ IsInjective(ids) /\ "next" \notin Range(ids) /\ n = Len(b) + 1
      /\ x = [Block("procedures_definition", NoBlock, FALSE, t + 1) EXCEPT !.inputs = [s \in {"custom_block"} |-> Holding(1, n + 1)]]
      /\ y = [Block("procedures_prototype", n, TRUE, 0) EXCEPT
                 !.inputs = [s \in Range(ids) |-> Holding(1, n + 1 + (CHOOSE i \in DOMAIN ids : ids[i] = s))]]
      /\ r = Block("argument_reporter_string_number", n + 1, TRUE, 0)
      /\ c = b \o <<x, y>> \o [i \in 1 .. Len(ids) |-> r] /\ q = Rooted(b, o, Len(c)) /\ left = {<<n, "next">>}
  BY DEF Defining
<1> USE <1>a
<1> DEFINE m == Len(ids)
<1>1. m \in Nat
  OBVIOUS
<1>2. /\ Longer(b, c) /\ n \in Nat /\ n > Len(b) /\ Len(c) = n + 1 + m /\ c[n] = x /\ c[n + 1] = y
      /\ \A id \in n + 2 .. Len(c) : c[id] = r
  <2>1. After(b, c, n, x, y, r, m)
    BY <1>1 DEF TableOK, Shape, After
  <2> HIDE DEF m
  <2> QED BY ONLY <2>1, ThreeParts
<1> DEFINE spot == Numbers(ids, n)
<1>3. /\ \A s \in Range(ids) : spot[s] \in n + 2 .. n + 1 + m
      /\ \A s, z \in Range(ids) : spot[s] = spot[z] => s = z
      /\ \A id \in n + 2 .. n + 1 + m : \E s \in Range(ids) : spot[s] = id
  <2>1. Numbered(ids, n, m, spot)
    BY <1>2 DEF Numbered
  <2> HIDE DEF spot, m
  <2> QED BY ONLY <2>1, Reporters
<1>4. y = [Block("procedures_prototype", n, TRUE, 0) EXCEPT !.inputs = [s \in Range(ids) |-> Holding(1, spot[s])]]
  <2>1. \A s \in Range(ids) : spot[s] = n + 1 + (CHOOSE i \in DOMAIN ids : ids[i] = s)
    BY DEF Numbers
  <2> HIDE DEF spot
  <2>3. \A s \in Range(ids) : Holding(1, n + 1 + (CHOOSE i \in DOMAIN ids : ids[i] = s)) = Holding(1, spot[s])
    BY <2>1
  <2>2. [s \in Range(ids) |-> Holding(1, n + 1 + (CHOOSE i \in DOMAIN ids : ids[i] = s))] = [s \in Range(ids) |-> Holding(1, spot[s])]
    BY <2>3
  <2> QED BY <2>2
<1> HIDE DEF spot, m
<1> DEFINE k == n + 1
<1>5. /\ DOMAIN x = Fields /\ x.op = "procedures_definition" /\ x.next = NoBlock /\ x.parent = NoBlock
      /\ x.topLevel = (t + 1 # 0) /\ x.index = t + 1
      /\ DOMAIN x.inputs = {"custom_block"} /\ x.inputs["custom_block"].block = k
  BY DEF Block, Fields, NoSockets, Holding
<1>6. /\ DOMAIN y = Fields /\ y.op = "procedures_prototype" /\ y.next = NoBlock /\ y.parent = n
      /\ y.topLevel = (0 # 0) /\ y.index = 0
      /\ DOMAIN y.inputs = Range(ids) /\ \A s \in Range(ids) : y.inputs[s].block = spot[s]
  BY ONLY <1>4 DEF Block, Fields, NoSockets, Holding
<1>7. /\ DOMAIN r = Fields /\ r.op = "argument_reporter_string_number" /\ r.next = NoBlock /\ r.parent = k
      /\ r.topLevel = (0 # 0) /\ r.index = 0 /\ DOMAIN r.inputs = {}
  BY DEF Block, Fields, NoSockets, Holding
<1>8. /\ n \in n .. Len(c) /\ k \in n .. Len(c) /\ k \in k .. Len(c) /\ n # k /\ n # NoBlock /\ k # NoBlock
      /\ \A id \in n .. Len(c) : id = n \/ id = k \/ id \in n + 2 .. Len(c)
      /\ \A id \in n + 2 .. Len(c) : id # n /\ id # k /\ id \in k .. Len(c) /\ id \in n .. Len(c)
      /\ n \in 1 .. Len(c) /\ n + 2 .. Len(c) = n + 2 .. n + 1 + m
  <2>1. n \in Nat /\ k \in Nat /\ k = n + 1 /\ Len(c) \in Nat /\ Len(c) = k + m /\ m \in Nat /\ n > 0
    BY <1>1, <1>2 DEF Longer
  <2> HIDE DEF k
  <2>2. n # NoBlock /\ k # NoBlock
    BY <2>1, ProjectAssumption
  <2>3. n \in n .. Len(c) /\ k \in n .. Len(c) /\ k \in k .. Len(c) /\ n # k /\ n \in 1 .. Len(c)
    BY ONLY <2>1
  <2>4. \A id \in n .. Len(c) : id = n \/ id = k \/ id \in n + 2 .. Len(c)
    BY ONLY <2>1
  <2>5. \A id \in n + 2 .. Len(c) : id # n /\ id # k /\ id \in k .. Len(c) /\ id \in n .. Len(c)
    BY ONLY <2>1
  <2>6. Len(c) = n + 1 + m
    BY ONLY <2>1
  <2> QED BY <2>2, <2>3, <2>4, <2>5, <2>6
<1>9. /\ (t + 1 # 0) = TRUE /\ (0 # 0) = FALSE /\ (NoBlock = NoBlock) = TRUE /\ (n = NoBlock) = FALSE /\ (k = NoBlock) = FALSE
      /\ (n = n) = TRUE /\ (k = n) = FALSE
  BY <1>8
<1>k. /\ c[k] = y /\ DOMAIN y = Fields /\ y.op = "procedures_prototype" /\ y.next = NoBlock /\ y.parent = n
      /\ y.topLevel = (0 # 0) /\ y.index = 0
      /\ DOMAIN y.inputs = Range(ids) /\ \A s \in Range(ids) : y.inputs[s].block = spot[s]
  BY <1>2, <1>6
<1>l. c[n] = x /\ x.inputs["custom_block"].block = k /\ r.parent = k
  BY <1>2, <1>5, <1>7
<1>o. n + 1 .. Len(c) = k .. Len(c)
  OBVIOUS
<1> HIDE DEF k
<1>10. q = Rooted(b, o, Len(c)) /\ \A id \in n .. Len(c) : q[id] = <<>>
  <2>1. \A id \in n .. Len(c) : id \in 1 .. Len(c) /\ id \notin 1 .. Len(b)
    BY <1>2 DEF Longer
  <2> QED BY <2>1 DEF Rooted
<1>11. /\ Content(c, n, "custom_block") = k /\ \A z : z # "custom_block" => Content(c, n, z) = NoBlock
       /\ \A s \in Range(ids) : Content(c, k, s) = spot[s]
       /\ \A z : z \notin Range(ids) => Content(c, k, z) = NoBlock
       /\ \A id \in n + 2 .. Len(c) : \A z : Content(c, id, z) = NoBlock
  <2>1. Content(c, n, "custom_block") = k /\ \A z : z # "custom_block" => Content(c, n, z) = NoBlock
    BY <1>5, <1>l DEF Content
  <2>2. /\ \A s \in Range(ids) : Content(c, k, s) = spot[s]
        /\ \A z : z \notin Range(ids) => Content(c, k, z) = NoBlock
    BY <1>k DEF Content
  <2>3. \A id \in n + 2 .. Len(c) : \A z : Content(c, id, z) = NoBlock
    BY <1>2, <1>7 DEF Content
  <2> QED BY <2>1, <2>2, <2>3
<1>12. \A id \in n .. Len(c) : Plain(p, t, c, q, n, id)
  <2> SUFFICES ASSUME NEW id \in n .. Len(c) PROVE Plain(p, t, c, q, n, id)
    OBVIOUS
  <2>1. CASE id = n
    <3>1. \A z : Content(c, n, z) # NoBlock => z = "custom_block" /\ Content(c, n, z) = k
      BY <1>11
    <3>2. c[k].parent = n
      BY <1>k
    <3>3. \A s \in DOMAIN c[n].inputs : s # "next" /\ ~BooleanSocket(c[n].op, s)
      BY <1>2, <1>5 DEF BooleanSocket
    <3>4. c[n].topLevel = TRUE /\ c[n].parent = NoBlock /\ c[n].index = t + 1 /\ c[n].op = p[t + 1].op /\ c[n].next = NoBlock
          /\ DOMAIN c[n] = Fields
      BY <1>2, <1>5, <1>9
    <3>5. c[n].topLevel = (c[n].parent = NoBlock) /\ c[n].topLevel = (c[n].index # 0) /\ c[n].topLevel = (n = n)
      BY ONLY <1>9, <3>4
    <3>6. \A z : Content(c, n, z) # NoBlock =>
            /\ Content(c, n, z) \in k .. Len(c) /\ c[Content(c, n, z)].parent = n
            /\ \A w : Content(c, n, w) = Content(c, n, z) => w = z
      <4> TAKE z
      <4>1. HAVE Content(c, n, z) # NoBlock
      <4>2. z = "custom_block" /\ Content(c, n, z) = k
        BY <3>1, <4>1
      <4>3. \A w : Content(c, n, w) = k => w = "custom_block"
        BY <1>8, <3>1
      <4> QED BY <1>8, <3>2, <4>2, <4>3
    <3>7. q[n] = <<>>
      BY <1>8, <1>10
    <3>8. Plain(p, t, c, q, n, n)
      BY ONLY <1>o, <3>3, <3>4, <3>5, <3>6, <3>7 DEF Plain
    <3> QED BY <2>1, <3>8
  <2>2. CASE id = k
    <3>1. \A z : Content(c, k, z) # NoBlock => z \in Range(ids) /\ Content(c, k, z) = spot[z]
      BY <1>11
    <3>2. \A s \in Range(ids) : spot[s] \in n + 2 .. Len(c) /\ spot[s] \in k .. Len(c) /\ c[spot[s]].parent = k
      BY <1>2, <1>3, <1>8, <1>l
    <3>3. \A s \in DOMAIN c[k].inputs : s # "next" /\ ~BooleanSocket(c[k].op, s)
      BY <1>k DEF BooleanSocket
    <3>4. c[k].topLevel = FALSE /\ c[k].parent = n /\ c[k].index = 0 /\ c[k].next = NoBlock
          /\ DOMAIN c[k] = Fields
      BY <1>9, <1>k
    <3>5. /\ c[k].topLevel = (c[k].parent = NoBlock) /\ c[k].topLevel = (c[k].index # 0)
          /\ c[k].topLevel = (k = n)
      BY ONLY <1>9, <3>4
    <3>6. \A z : Content(c, k, z) # NoBlock =>
            /\ Content(c, k, z) \in k .. Len(c) /\ c[Content(c, k, z)].parent = k
            /\ \A w : Content(c, k, w) = Content(c, k, z) => w = z
      <4> TAKE z
      <4>1. HAVE Content(c, k, z) # NoBlock
      <4>2. z \in Range(ids) /\ Content(c, k, z) = spot[z]
        BY <3>1, <4>1
      <4>3. ASSUME NEW w, Content(c, k, w) = Content(c, k, z) PROVE w = z
        <5>1. w \in Range(ids) /\ Content(c, k, w) = spot[w]
          BY <3>1, <4>1, <4>3
        <5> QED BY <1>3, <4>2, <4>3, <5>1
      <4> QED BY <3>2, <4>2, <4>3
    <3>7. q[k] = <<>> /\ k # n
      BY <1>8, <1>10
    <3>8. c[k].parent \in n .. Len(c) /\ \E z : Content(c, c[k].parent, z) = k
      BY <1>8, <1>11, <3>4
    <3>9. Plain(p, t, c, q, n, k)
      BY ONLY <1>o, <3>3, <3>4, <3>5, <3>6, <3>7, <3>8 DEF Plain
    <3> QED BY <2>2, <3>9
  <2>3. CASE id \in n + 2 .. Len(c)
    <3>1. c[id] = r /\ \A z : Content(c, id, z) = NoBlock
      BY <1>2, <1>11, <2>3
    <3>2. id # n /\ (id = n) = FALSE
      BY <1>8, <2>3
    <3>3. \E z : Content(c, k, z) = id
      <4>1. PICK s \in Range(ids) : spot[s] = id
        BY <1>3, <1>8, <2>3
      <4> QED BY <1>11, <4>1
    <3>4. c[id].topLevel = FALSE /\ c[id].parent = k /\ c[id].index = 0 /\ c[id].next = NoBlock
          /\ DOMAIN c[id] = Fields /\ DOMAIN c[id].inputs = {}
      BY <1>7, <1>9, <1>l, <3>1
    <3>5. c[id].topLevel = (c[id].parent = NoBlock) /\ c[id].topLevel = (c[id].index # 0) /\ c[id].topLevel = (id = n)
      BY ONLY <1>9, <3>2, <3>4
    <3>6. q[id] = <<>>
      BY <1>10
    <3>7. c[id].parent \in n .. Len(c) /\ \E z : Content(c, c[id].parent, z) = id
      BY <1>8, <3>3, <3>4
    <3> QED BY ONLY <3>1, <3>2, <3>4, <3>5, <3>6, <3>7 DEF Plain
  <2> QED BY <1>8, <2>1, <2>2, <2>3
<1>13. TableOK(p, t + 1, c, q, left, {})
  <2>1. /\ t \in Nat /\ TableOK(p, t, b, o, {}, {}) /\ Longer(b, c) /\ q = Rooted(b, o, Len(c)) /\ n = Len(b) + 1
        /\ left = {<<n, "next">>}
    BY <1>2
  <2> QED BY ONLY <1>12, <2>1, RootsAdded
<1> QED BY <1>2, <1>5, <1>8, <1>9, <1>13

-----------------------------------------------------------------------------
(* The activations.  Own are the blocks an activation has built, Known     *)
(* those and its parent; the ones above know only what was there before.   *)

AstFields == {"call", "id", "parent", "ast", "into", "inputs", "branches"}
SequenceFields == {"call", "parent", "rest", "into", "first", "previous"}

\* The whole script an activation of sequence was called with.
Script(p, b, o, f) == IF f.into = "next" THEN Story(p, b, o, f.parent) ELSE Head(o[f.parent]).branches[f.into]

AstOK(b, o, f) ==
  /\ f.call = "ast_block" /\ DOMAIN f = AstFields
  /\ f.id \in 1 .. Len(b) /\ f.parent \in 1 .. Len(b) /\ f.parent < f.id
  /\ o[f.id] # <<>> /\ f.ast = Head(o[f.id]) /\ b[f.id].parent = f.parent
  /\ f.inputs \subseteq DOMAIN f.ast.inputs /\ f.branches \subseteq DOMAIN f.ast.branches
  /\ f.into # "next" =>
       /\ o[f.parent] # <<>> /\ f.into \in DOMAIN Head(o[f.parent]).inputs
       /\ o[f.id] = <<Wanted(Head(o[f.parent]), f.into)>>
SequenceOK(p, b, o, f) ==
  /\ f.call = "sequence" /\ DOMAIN f = SequenceFields
  /\ f.parent \in 1 .. Len(b) /\ f.rest \in Seq(Trees)
  /\ f.into # "next" => o[f.parent] # <<>> /\ f.into \in DOMAIN Head(o[f.parent]).branches
  /\ f.first = NoBlock <=> f.previous = NoBlock
  /\ f.first # NoBlock =>
       /\ f.first \in 1 .. Len(b) /\ f.previous \in 1 .. Len(b) /\ f.parent < f.first /\ f.first <= f.previous
       /\ o[f.first] = Script(p, b, o, f) /\ o[f.first] # <<>> /\ o[f.previous] # <<>> /\ b[f.first].parent = f.parent
FrameOK(p, b, o, f) == AstOK(b, o, f) \/ SequenceOK(p, b, o, f)

\* An activation, and the one it waits for.
OnTop(p, b, o, f, g) ==
  IF f.call = "sequence"
  THEN /\ g.call = "ast_block" /\ g.into = "next" /\ g.parent = ParentOf(f.parent, f.previous)
       /\ Tail(o[g.id]) = f.rest
       /\ o[g.id] = IF f.previous = NoBlock THEN Script(p, b, o, f) ELSE Tail(o[f.previous])
  ELSE g.parent = f.id /\ g.into # "next" /\ g.into \notin f.inputs /\ g.into \notin f.branches

\* The innermost activation of sequence has the rest of its script to do.
Alone(p, b, o, f) ==
  f.call = "sequence" => f.rest = IF f.previous = NoBlock THEN Script(p, b, o, f) ELSE Tail(o[f.previous])

Own(f) == IF f.call = "ast_block" THEN {f.id} ELSE {f.first, f.previous} \ {NoBlock}
Known(f) == Own(f) \cup {f.parent}
Later(f, g) == \A u \in Known(f), w \in Own(g) : u < w

StackOK(p, b, o, a) ==
  /\ \E S : a \in Seq(S)
  /\ \A i \in 1 .. Len(a) : FrameOK(p, b, o, a[i])
  /\ a # <<>> => a[1].call = "sequence" /\ a[1].into = "next"
  /\ \A i \in 1 .. Len(a) - 1 : OnTop(p, b, o, a[i], a[i + 1])
  /\ \A i, j \in 1 .. Len(a) : i < j => Later(a[i], a[j])
Above(p, b, o, d, f) ==
  /\ FrameOK(p, b, o, f)
  /\ d = <<>> => f.call = "sequence" /\ f.into = "next"
  /\ d # <<>> => OnTop(p, b, o, d[Len(d)], f)
  /\ \A i \in 1 .. Len(d) : Later(d[i], f)

\* The places an activation has still to see to, and its blocks without one.
OpenOf(f) ==
  IF f.call = "ast_block"
  THEN {<<f.id, s>> : s \in {"next"} \cup f.inputs \cup f.branches} \cup (IF f.into = "next" THEN {} ELSE {<<f.parent, f.into>>})
  ELSE {<<f.parent, f.into>>} \cup (IF f.previous = NoBlock THEN {} ELSE {<<f.previous, "next">>})
Unlinked(f) == IF f.call = "ast_block" THEN {f.id} ELSE {f.first} \ {NoBlock}
Left(a) == UNION {OpenOf(a[i]) : i \in 1 .. Len(a)}
Unplaced(a) == UNION {Unlinked(a[i]) : i \in 1 .. Len(a)}

LEMMA Grown ==
  ASSUME NEW d, \E S : d \in Seq(S), NEW f, NEW a, a = Append(d, f)
  PROVE  /\ \E S : a \in Seq(S)
         /\ a # <<>> /\ Len(d) \in Nat /\ Len(a) = Len(d) + 1 /\ a[Len(d) + 1] = f /\ Len(d) + 1 \in 1 .. Len(a)
         /\ \A i \in 1 .. Len(d) : a[i] = d[i] /\ i \in 1 .. Len(a) /\ i < Len(d) + 1
         /\ \A i \in 1 .. Len(a) : i = Len(d) + 1 \/ i \in 1 .. Len(d)
         /\ d = <<>> <=> Len(d) = 0
<1>1. PICK S : d \in Seq(S)
  OBVIOUS
<1>2. a \in Seq(S \cup {f})
  BY <1>1
<1> QED BY <1>1, <1>2

LEMMA PartsOfStack ==
  ASSUME NEW d, \E S : d \in Seq(S), NEW f, NEW a, a = Append(d, f)
  PROVE  Left(a) = Left(d) \cup OpenOf(f) /\ Unplaced(a) = Unplaced(d) \cup Unlinked(f)
<1>1. /\ a[Len(d) + 1] = f /\ Len(d) + 1 \in 1 .. Len(a)
      /\ \A i \in 1 .. Len(d) : a[i] = d[i] /\ i \in 1 .. Len(a)
      /\ \A i \in 1 .. Len(a) : i = Len(d) + 1 \/ i \in 1 .. Len(d)
  BY Grown
<1>2. Left(a) = Left(d) \cup OpenOf(f)
  BY <1>1 DEF Left
<1>3. Unplaced(a) = Unplaced(d) \cup Unlinked(f)
  BY <1>1 DEF Unplaced
<1> QED BY <1>2, <1>3

LEMMA StackJoined ==
  ASSUME NEW p, NEW b, NEW o, NEW d, StackOK(p, b, o, d), NEW f, Above(p, b, o, d, f), NEW a, a = Append(d, f)
  PROVE  StackOK(p, b, o, a)
<1>1. /\ \E S : a \in Seq(S)
      /\ a # <<>> /\ Len(d) \in Nat /\ Len(a) = Len(d) + 1 /\ a[Len(d) + 1] = f /\ Len(d) + 1 \in 1 .. Len(a)
      /\ \A i \in 1 .. Len(d) : a[i] = d[i] /\ i \in 1 .. Len(a) /\ i < Len(d) + 1
      /\ \A i \in 1 .. Len(a) : i = Len(d) + 1 \/ i \in 1 .. Len(d)
      /\ d = <<>> <=> Len(d) = 0
  BY Grown DEF StackOK
<1>2. \A i \in 1 .. Len(a) : FrameOK(p, b, o, a[i])
  BY <1>1 DEF StackOK, Above
<1>3. a[1].call = "sequence" /\ a[1].into = "next"
  <2>1. CASE d = <<>>
    BY <1>1, <2>1 DEF Above
  <2>2. CASE d # <<>>
    <3>1. 1 \in 1 .. Len(d)
      BY <1>1, <2>2
    <3> QED BY <1>1, <2>2, <3>1 DEF StackOK
  <2> QED BY <2>1, <2>2
<1>4. \A i \in 1 .. Len(a) - 1 : OnTop(p, b, o, a[i], a[i + 1])
  <2> TAKE i \in 1 .. Len(a) - 1
  <2>1. i \in 1 .. Len(d) /\ d # <<>>
    BY <1>1
  <2>2. CASE i = Len(d)
    BY <1>1, <2>1, <2>2 DEF Above
  <2>3. CASE i # Len(d)
    <3>1. i \in 1 .. Len(d) - 1 /\ i + 1 \in 1 .. Len(d)
      BY <1>1, <2>1, <2>3
    <3>2. a[i] = d[i] /\ a[i + 1] = d[i + 1]
      BY <1>1, <2>1, <3>1
    <3> QED BY <3>1, <3>2 DEF StackOK
  <2> QED BY <2>2, <2>3
<1>5. \A i, j \in 1 .. Len(a) : i < j => Later(a[i], a[j])
  <2> TAKE i, j \in 1 .. Len(a)
  <2>1. HAVE i < j
  <2>2. i \in 1 .. Len(d)
    BY <1>1, <2>1
  <2>3. CASE j = Len(d) + 1
    BY <1>1, <2>2, <2>3 DEF Above
  <2>4. CASE j \in 1 .. Len(d)
    BY <1>1, <2>1, <2>2, <2>4 DEF StackOK
  <2> QED BY <1>1, <2>3, <2>4
<1> QED BY <1>1, <1>2, <1>3, <1>4, <1>5 DEF StackOK

LEMMA StackSplit ==
  ASSUME NEW p, NEW b, NEW o, NEW d, \E S : d \in Seq(S), NEW f, NEW a, a = Append(d, f), StackOK(p, b, o, a)
  PROVE  StackOK(p, b, o, d) /\ Above(p, b, o, d, f)
<1>1. /\ a # <<>> /\ Len(d) \in Nat /\ Len(a) = Len(d) + 1 /\ a[Len(d) + 1] = f /\ Len(d) + 1 \in 1 .. Len(a)
      /\ \A i \in 1 .. Len(d) : a[i] = d[i] /\ i \in 1 .. Len(a) /\ i < Len(d) + 1
      /\ \A i \in 1 .. Len(a) : i = Len(d) + 1 \/ i \in 1 .. Len(d)
      /\ d = <<>> <=> Len(d) = 0
  BY Grown
<1>2. /\ \A i \in 1 .. Len(a) : FrameOK(p, b, o, a[i])
      /\ a[1].call = "sequence" /\ a[1].into = "next"
      /\ \A i \in 1 .. Len(a) - 1 : OnTop(p, b, o, a[i], a[i + 1])
      /\ \A i, j \in 1 .. Len(a) : i < j => Later(a[i], a[j])
  BY <1>1 DEF StackOK
<1>3. Above(p, b, o, d, f)
  <2>1. d = <<>> => f.call = "sequence" /\ f.into = "next"
    BY <1>1, <1>2
  <2>2. d # <<>> => OnTop(p, b, o, d[Len(d)], f)
    <3>1. HAVE d # <<>>
    <3>2. Len(d) \in 1 .. Len(a) - 1 /\ Len(d) \in 1 .. Len(d)
      BY <1>1, <3>1
    <3> QED BY <1>1, <1>2, <3>2
  <2>3. \A i \in 1 .. Len(d) : Later(d[i], f)
    BY <1>1, <1>2
  <2> QED BY <1>1, <1>2, <2>1, <2>2, <2>3 DEF Above
<1>4. StackOK(p, b, o, d)
  <2>1. \A i \in 1 .. Len(d) : FrameOK(p, b, o, d[i])
    BY <1>1, <1>2
  <2>2. d # <<>> => d[1].call = "sequence" /\ d[1].into = "next"
    <3>1. HAVE d # <<>>
    <3>2. 1 \in 1 .. Len(d)
      BY <1>1, <3>1
    <3> QED BY <1>1, <1>2, <3>2
  <2>3. \A i \in 1 .. Len(d) - 1 : OnTop(p, b, o, d[i], d[i + 1])
    <3> TAKE i \in 1 .. Len(d) - 1
    <3>1. i \in 1 .. Len(d) /\ i + 1 \in 1 .. Len(d) /\ i \in 1 .. Len(a) - 1
      BY <1>1
    <3>2. a[i] = d[i] /\ a[i + 1] = d[i + 1]
      BY <1>1, <3>1
    <3> QED BY <1>2, <3>1, <3>2
  <2>4. \A i, j \in 1 .. Len(d) : i < j => Later(d[i], d[j])
    BY <1>1, <1>2
  <2> QED BY <2>1, <2>2, <2>3, <2>4 DEF StackOK
<1> QED BY <1>3, <1>4

\* Nobody below knows what an activation has built.
LEMMA Apart ==
  ASSUME NEW p, NEW b, Len(b) \in Nat, NEW o, NEW d, StackOK(p, b, o, d), NEW f, Above(p, b, o, d, f), NEW w \in Own(f)
  PROVE  w \notin Unplaced(d) /\ \A x : <<w, x>> \notin Left(d)
<1>1. ASSUME NEW i \in 1 .. Len(d)
      PROVE  w \notin Unlinked(d[i]) /\ \A x : <<w, x>> \notin OpenOf(d[i])
  <2>1. \A u \in Known(d[i]) : u < w
    BY DEF Above, Later
  <2>2. Known(d[i]) \subseteq 1 .. Len(b)
    <3>1. FrameOK(p, b, o, d[i])
      BY DEF StackOK
    <3> QED BY <3>1 DEF FrameOK, AstOK, SequenceOK, Known, Own
  <2>3. w \notin Known(d[i])
    BY <2>1, <2>2
  <2>4. Unlinked(d[i]) \subseteq Known(d[i])
    BY DEF Unlinked, Known, Own
  <2>5. \A v, x : <<v, x>> \in OpenOf(d[i]) => v \in Known(d[i])
    BY DEF OpenOf, Known, Own
  <2> QED BY <2>3, <2>4, <2>5
<1> QED BY <1>1 DEF Unplaced, Left

LEMMA FrameKept ==
  ASSUME NEW p, NEW b, NEW o, NEW c, NEW q, Keeps(b, o, c, q), NEW f, FrameOK(p, b, o, f)
  PROVE  FrameOK(p, c, q, f) /\ (f.call = "sequence" => Script(p, c, q, f) = Script(p, b, o, f))
<1>1. /\ \A id \in 1 .. Len(b) : id \in 1 .. Len(c)
      /\ \A id \in 1 .. Len(b) :
           q[id] = o[id] /\ c[id].parent = b[id].parent /\ c[id].topLevel = b[id].topLevel /\ c[id].index = b[id].index
  BY DEF Keeps
<1>2. CASE AstOK(b, o, f)
  <2>1. AstOK(c, q, f)
    BY <1>1, <1>2 DEF AstOK
  <2>2. f.call # "sequence"
    BY <1>2 DEF AstOK
  <2> QED BY <2>1, <2>2 DEF FrameOK
<1>3. CASE SequenceOK(p, b, o, f)
  <2>1. f.parent \in 1 .. Len(b)
    BY <1>3 DEF SequenceOK
  <2>2. Script(p, c, q, f) = Script(p, b, o, f)
    BY <1>1, <2>1 DEF Script, Story
  <2>3. SequenceOK(p, c, q, f)
    BY <1>1, <1>3, <2>2 DEF SequenceOK
  <2> QED BY <2>2, <2>3 DEF FrameOK
<1> QED BY <1>2, <1>3 DEF FrameOK

LEMMA OnTopKept ==
  ASSUME NEW p, NEW b, NEW o, NEW c, NEW q, Keeps(b, o, c, q),
         NEW f, FrameOK(p, b, o, f), NEW g, FrameOK(p, b, o, g), OnTop(p, b, o, f, g)
  PROVE  OnTop(p, c, q, f, g)
<1>1. CASE f.call = "sequence"
  <2>1. g.id \in 1 .. Len(b)
    BY <1>1 DEF OnTop, FrameOK, AstOK, SequenceOK
  <2>2. f.previous # NoBlock => f.previous \in 1 .. Len(b)
    BY <1>1 DEF FrameOK, AstOK, SequenceOK
  <2>3. Script(p, c, q, f) = Script(p, b, o, f)
    BY <1>1, FrameKept
  <2>4. q[g.id] = o[g.id] /\ (f.previous # NoBlock => q[f.previous] = o[f.previous])
    BY <2>1, <2>2 DEF Keeps
  <2> QED BY <1>1, <2>3, <2>4 DEF OnTop
<1>2. CASE f.call # "sequence"
  BY <1>2 DEF OnTop
<1> QED BY <1>1, <1>2

LEMMA StackKept ==
  ASSUME NEW p, NEW b, NEW o, NEW c, NEW q, Keeps(b, o, c, q), NEW a, StackOK(p, b, o, a)
  PROVE  StackOK(p, c, q, a)
<1>1. \A i \in 1 .. Len(a) : FrameOK(p, b, o, a[i])
  BY DEF StackOK
<1>2. \A i \in 1 .. Len(a) : FrameOK(p, c, q, a[i])
  BY <1>1, FrameKept
<1>3. \A i \in 1 .. Len(a) - 1 : OnTop(p, c, q, a[i], a[i + 1])
  <2> TAKE i \in 1 .. Len(a) - 1
  <2>1. i \in 1 .. Len(a) /\ i + 1 \in 1 .. Len(a)
    BY DEF StackOK
  <2>2. OnTop(p, b, o, a[i], a[i + 1])
    BY DEF StackOK
  <2> QED BY <1>1, <2>1, <2>2, OnTopKept
<1> QED BY <1>2, <1>3 DEF StackOK

LEMMA AboveKept ==
  ASSUME NEW p, NEW b, NEW o, NEW c, NEW q, Keeps(b, o, c, q), NEW d, StackOK(p, b, o, d), NEW f, Above(p, b, o, d, f)
  PROVE  Above(p, c, q, d, f)
<1>1. FrameOK(p, c, q, f)
  BY FrameKept DEF Above
<1>2. d # <<>> => OnTop(p, c, q, d[Len(d)], f)
  <2>1. HAVE d # <<>>
  <2>2. Len(d) \in 1 .. Len(d)
    BY <2>1 DEF StackOK
  <2> QED BY <2>1, <2>2, OnTopKept DEF StackOK, Above
<1> QED BY <1>1, <1>2 DEF Above

LEMMA LastFront ==
  ASSUME NEW a, \E S : a \in Seq(S), a # <<>>
  PROVE  a = Append(Front(a), Last(a)) /\ (\E S : Front(a) \in Seq(S)) /\ Last(a) = a[Len(a)]
<1>1. PICK S : a \in Seq(S)
  OBVIOUS
<1>2. Len(a) \in Nat /\ Len(a) > 0 /\ Last(a) = a[Len(a)]
  BY <1>1 DEF Last
<1> DEFINE d == Front(a)
<1>3. d \in Seq(S) /\ Len(d) = Len(a) - 1 /\ \A i \in 1 .. Len(d) : d[i] = a[i]
  <2> DEFINE n == Len(a) - 1
  <2>1. n = Len(a) - 1 /\ n \in Nat /\ n <= Len(a)
    BY <1>2
  <2> HIDE DEF n
  <2>2. SubSeq(a, 1, n) \in Seq(S) /\ Len(SubSeq(a, 1, n)) = n /\ \A i \in 1 .. n : SubSeq(a, 1, n)[i] = a[i]
    BY <1>1, <1>2, <2>1
  <2> QED BY <2>1, <2>2 DEF Front
<1> HIDE DEF d
<1>4. Append(d, Last(a)) \in Seq(S)
  BY <1>1, <1>2, <1>3
<1>5. Len(Append(d, Last(a))) = Len(a) /\ \A i \in 1 .. Len(a) : Append(d, Last(a))[i] = a[i]
  BY <1>1, <1>2, <1>3
<1>6. a = Append(d, Last(a))
  BY <1>1, <1>4, <1>5
<1> QED BY <1>2, <1>3, <1>6 DEF d

LEMMA KnownBlocks ==
  ASSUME NEW p, NEW b, NEW o, NEW f, FrameOK(p, b, o, f)
  PROVE  Known(f) \subseteq 1 .. Len(b) /\ Own(f) \subseteq Known(f) /\ f.parent \in Known(f)
BY DEF FrameOK, AstOK, SequenceOK, Known, Own

\* A new block is later than all that is known.
LEMMA Newest ==
  ASSUME NEW p, NEW b, Len(b) \in Nat, NEW o, NEW a, StackOK(p, b, o, a), NEW g, Own(g) \subseteq {Len(b) + 1}
  PROVE  \A i \in 1 .. Len(a) : Later(a[i], g)
<1> TAKE i \in 1 .. Len(a)
<1>1. Known(a[i]) \subseteq 1 .. Len(b)
  BY KnownBlocks DEF StackOK
<1> QED BY <1>1 DEF Later

\* An activation that has done one more thing.
Touched(f, h) ==
  /\ h.call = f.call /\ DOMAIN h = DOMAIN f /\ h.parent = f.parent /\ h.into = f.into
  /\ IF f.call = "ast_block"
     THEN h.id = f.id /\ h.ast = f.ast /\ h.inputs \subseteq f.inputs /\ h.branches \subseteq f.branches
     ELSE h.first = f.first /\ h.previous = f.previous /\ h.rest \in Seq(Trees)

LEMMA Retouched ==
  ASSUME NEW p, NEW b, NEW o, NEW d, NEW f, Above(p, b, o, d, f), NEW h, Touched(f, h)
  PROVE  Above(p, b, o, d, h) /\ Own(h) = Own(f) /\ Known(h) = Known(f) /\ (f.call = "sequence" => Script(p, b, o, h) = Script(p, b, o, f))
<1>1. Own(h) = Own(f) /\ Known(h) = Known(f)
  BY DEF Touched, Own, Known
<1>2. Script(p, b, o, h) = Script(p, b, o, f)
  BY DEF Script, Touched
<1>3. FrameOK(p, b, o, h)
  <2>1. CASE AstOK(b, o, f)
    <3>1. AstOK(b, o, h)
      BY <2>1 DEF AstOK, Touched
    <3> QED BY <3>1 DEF FrameOK
  <2>2. CASE SequenceOK(p, b, o, f)
    <3>1. SequenceOK(p, b, o, h)
      BY <1>2, <2>2 DEF SequenceOK, Touched
    <3> QED BY <3>1 DEF FrameOK
  <2> QED BY <2>1, <2>2 DEF FrameOK, Above
<1>4. d # <<>> => OnTop(p, b, o, d[Len(d)], h)
  BY DEF Above, OnTop, Touched
<1>5. \A i \in 1 .. Len(d) : Later(d[i], h)
  BY <1>1 DEF Above, Later
<1> QED BY <1>1, <1>2, <1>3, <1>4, <1>5 DEF Above, Touched

ProjectOK(p, t) == t \in Nat /\ \A k \in 1 .. t : p[k].body \in Seq(Trees)
BuildOK(p, t, b, a) ==
  \E o : /\ TableOK(p, t, b, o, Left(a), Unplaced(a)) /\ StackOK(p, b, o, a)
         /\ a # <<>> => Alone(p, b, o, a[Len(a)])

\* A hat or a definition has been put into the table.
LEMMA Begun ==
  ASSUME NEW p, NEW t, NEW b, NEW q, NEW n, TableOK(p, t, b, q, {<<n, "next">>}, {}), n \in 1 .. Len(b), b[n].topLevel,
         q[n] = <<>>, NEW body \in Seq(Trees), p[b[n].index].body = body
  PROVE  BuildOK(p, t, b, <<SequenceCall(n, body, "next")>>)
<1> DEFINE f == SequenceCall(n, body, "next")
<1>1. /\ f.call = "sequence" /\ DOMAIN f = SequenceFields /\ f.parent = n /\ f.rest = body /\ f.into = "next"
      /\ f.first = NoBlock /\ f.previous = NoBlock
  BY DEF SequenceCall, SequenceFields
<1> HIDE DEF f
<1>2. SequenceOK(p, b, q, f) /\ Script(p, b, q, f) = body
  BY <1>1 DEF SequenceOK, Script, Story
<1> DEFINE a == <<f>>
<1>3. a \in Seq({f}) /\ Len(a) = 1 /\ a[1] = f /\ a # <<>>
  OBVIOUS
<1> HIDE DEF a
<1>4. \A i \in 1 .. Len(a) : i = 1
  BY <1>3
<1>5. StackOK(p, b, q, a)
  <2>1. 1 .. Len(a) - 1 = {}
    BY <1>3
  <2>2. \A i, j \in 1 .. Len(a) : ~(i < j)
    BY <1>3
  <2>3. \A i \in 1 .. Len(a) : FrameOK(p, b, q, a[i])
    BY <1>2, <1>3, <1>4 DEF FrameOK
  <2> QED BY <1>1, <1>3, <2>1, <2>2, <2>3 DEF StackOK
<1>6. Left(a) = {<<n, "next">>} /\ Unplaced(a) = {}
  <2>1. OpenOf(f) = {<<n, "next">>} /\ Unlinked(f) = {}
    BY <1>1 DEF OpenOf, Unlinked
  <2>2. 1 .. Len(a) = {1}
    BY <1>3
  <2> QED BY <1>3, <2>1, <2>2 DEF Left, Unplaced
<1>7. Alone(p, b, q, a[Len(a)])
  BY <1>1, <1>2, <1>3 DEF Alone
<1>8. BuildOK(p, t, b, a)
  BY <1>5, <1>6, <1>7 DEF BuildOK
<1> QED BY <1>8 DEF a, f

\* A state of the builder: o for the table, d below the activation f.
Building(p, t, b, o, d, f, a) ==
  /\ TableOK(p, t, b, o, Left(a), Unplaced(a)) /\ StackOK(p, b, o, d) /\ Above(p, b, o, d, f) /\ Alone(p, b, o, f)
  /\ a = Append(d, f) /\ Left(a) = Left(d) \cup OpenOf(f) /\ Unplaced(a) = Unplaced(d) \cup Unlinked(f)
  /\ Len(b) \in Nat /\ \E S : d \in Seq(S)

LEMMA BuildingStates ==
  ASSUME NEW p, NEW t, NEW b, NEW a, BuildOK(p, t, b, a), a # <<>>
  PROVE  \E o : Building(p, t, b, o, Front(a), Last(a), a)
<1>1. PICK o : TableOK(p, t, b, o, Left(a), Unplaced(a)) /\ StackOK(p, b, o, a) /\ Alone(p, b, o, a[Len(a)])
  BY DEF BuildOK
<1> DEFINE d == Front(a)
           f == Last(a)
<1>2. a = Append(d, f) /\ (\E S : d \in Seq(S)) /\ f = a[Len(a)]
  BY <1>1, LastFront DEF StackOK
<1> HIDE DEF d, f
<1>3. StackOK(p, b, o, d) /\ Above(p, b, o, d, f)
  BY <1>1, <1>2, StackSplit
<1>4. Left(a) = Left(d) \cup OpenOf(f) /\ Unplaced(a) = Unplaced(d) \cup Unlinked(f)
  BY <1>2, PartsOfStack
<1>5. Len(b) \in Nat
  BY <1>1 DEF TableOK, Shape
<1>6. Building(p, t, b, o, d, f, a)
  BY <1>1, <1>2, <1>3, <1>4, <1>5 DEF Building
<1> QED BY <1>6 DEF d, f

LEMMA BuildDone ==
  ASSUME NEW p, NEW t, NEW b, NEW o, NEW d, NEW f, NEW a, StackOK(p, b, o, d), Above(p, b, o, d, f), a = Append(d, f),
         Alone(p, b, o, f), NEW left, left = Left(d) \cup OpenOf(f), NEW free, free = Unplaced(d) \cup Unlinked(f),
         TableOK(p, t, b, o, left, free)
  PROVE  BuildOK(p, t, b, a)
<1>1. (\E S : d \in Seq(S)) /\ a = Append(d, f)
  BY DEF StackOK
<1>2. StackOK(p, b, o, a)
  BY StackJoined
<1>3. Left(a) = left /\ Unplaced(a) = free
  BY <1>1, PartsOfStack
<1>4. a[Len(a)] = f
  <2>1. a[Len(d) + 1] = f /\ Len(a) = Len(d) + 1
    BY <1>1, Grown
  <2> QED BY <2>1
<1> QED BY <1>2, <1>3, <1>4 DEF BuildOK

LEMMA StatementBegun ==
  ASSUME NEW p, NEW t, NEW b, NEW o, NEW d, NEW f, NEW a, Building(p, t, b, o, d, f, a), f.call = "sequence", f.rest # <<>>,
         NEW ast, ast = Head(f.rest), NEW parent, parent = ParentOf(f.parent, f.previous), NEW n, n = Len(b) + 1,
         NEW c, c = Append(b, Block(ast.op, parent, Shadow(ast.op), 0)),
         NEW h, h = [f EXCEPT !.rest = Tail(@)], NEW g, g = AstCall(n, parent, ast, "next")
  PROVE  BuildOK(p, t, c, Append(Append(d, h), g))
<1> DEFINE x == f.rest
           q == Extended(b, o, x)
           more == Left(a) \cup Sockets(n, ast)
<1>1. SequenceOK(p, b, o, f) /\ Above(p, b, o, d, f) /\ StackOK(p, b, o, d) /\ Len(b) \in Nat
  BY DEF Building, Above, FrameOK, AstOK
<1>2. x \in Seq(Trees) /\ x # <<>> /\ parent \in 1 .. Len(b) /\ n \in Nat /\ parent < n /\ ast = Head(x)
  BY <1>1 DEF SequenceOK, ParentOf
<1>3. ast \in Trees /\ Tail(x) \in Seq(Trees)
  BY <1>2, HeadTrees
<1>4. /\ TableOK(p, t, c, q, more, Unplaced(a) \cup {n}) /\ Keeps(b, o, c, q)
      /\ n \in 1 .. Len(c) /\ q[n] = x /\ c[n].parent = parent
  <2> DEFINE left == Left(a)
             free == Unplaced(a)
  <2>1. Adding(p, t, b, o, left, free, x, parent, ast, n, c, q, more)
    BY <1>2 DEF Building, Adding
  <2> HIDE DEF x, q, more, left, free
  <2>2. /\ TableOK(p, t, c, q, more, free \cup {n}) /\ Keeps(b, o, c, q)
        /\ n \in 1 .. Len(c) /\ q[n] = x /\ c[n].parent = parent
    BY ONLY <2>1, BlockAdded
  <2> QED BY <2>2 DEF free
<1> HIDE DEF q, more
<1>5. Touched(f, h) /\ h.call = "sequence" /\ h.parent = f.parent /\ h.previous = f.previous /\ h.into = f.into /\ h.rest = Tail(x)
  BY <1>1, <1>3 DEF SequenceOK, SequenceFields, Touched
<1>6. /\ g.call = "ast_block" /\ DOMAIN g = AstFields /\ g.id = n /\ g.parent = parent /\ g.ast = ast /\ g.into = "next"
      /\ g.inputs = DOMAIN ast.inputs /\ g.branches = DOMAIN ast.branches
  BY DEF AstCall, AstFields
<1> HIDE DEF x
<1>7. Above(p, b, o, d, h) /\ Script(p, b, o, h) = Script(p, b, o, f)
  BY <1>1, <1>5, Retouched
<1> DEFINE e == Append(d, h)
<1>e. e = Append(d, h)
  OBVIOUS
<1>8. StackOK(p, b, o, e) /\ (\E S : d \in Seq(S)) /\ e = Append(d, h)
  <2> HIDE DEF e
  <2>1. StackOK(p, b, o, e)
    BY ONLY <1>1, <1>7, <1>e, StackJoined
  <2> QED BY <1>1, <1>e, <2>1 DEF StackOK
<1> HIDE DEF e
<1>9. StackOK(p, c, q, e)
  BY <1>4, <1>8, StackKept
<1>10. FrameOK(p, c, q, g)
  <2>1. parent \in 1 .. Len(c)
    BY <1>2, <1>4 DEF Keeps
  <2> QED BY <1>2, <1>4, <1>6, <2>1 DEF FrameOK, AstOK
<1>11. e # <<>> /\ e[Len(e)] = h
  <2>1. e # <<>> /\ e[Len(d) + 1] = h /\ Len(e) = Len(d) + 1
    BY <1>8, Grown
  <2> QED BY <2>1
<1>12. OnTop(p, c, q, h, g)
  <2>1. Script(p, c, q, h) = Script(p, b, o, f)
    <3>1. Keeps(b, o, c, q) /\ FrameOK(p, b, o, h) /\ h.call = "sequence"
      BY <1>4, <1>5, <1>7 DEF Above
    <3>2. Script(p, c, q, h) = Script(p, b, o, h)
      BY ONLY <3>1, FrameKept
    <3> QED BY <1>7, <3>2
  <2>2. f.previous # NoBlock => q[f.previous] = o[f.previous]
    BY <1>1, <1>4 DEF SequenceOK, Keeps
  <2>3. x = IF f.previous = NoBlock THEN Script(p, b, o, f) ELSE Tail(o[f.previous])
    BY DEF Building, Alone, x
  <2> QED BY <1>4, <1>5, <1>6, <2>1, <2>2, <2>3 DEF OnTop
<1>13. \A i \in 1 .. Len(e) : Later(e[i], g)
  <2>1. Own(g) \subseteq {Len(b) + 1}
    BY <1>6 DEF Own
  <2> QED BY <1>1, <1>8, <2>1, Newest
<1>14. Above(p, c, q, e, g)
  BY <1>10, <1>11, <1>12, <1>13 DEF Above
<1>15. more = Left(e) \cup OpenOf(g) /\ Unplaced(a) \cup {n} = Unplaced(e) \cup Unlinked(g)
  <2>1. Left(e) = Left(d) \cup OpenOf(h) /\ Unplaced(e) = Unplaced(d) \cup Unlinked(h)
    BY <1>8, PartsOfStack
  <2>2. OpenOf(h) = OpenOf(f) /\ Unlinked(h) = Unlinked(f)
    BY <1>5 DEF Touched, OpenOf, Unlinked
  <2>3. OpenOf(g) = Sockets(n, ast) /\ Unlinked(g) = {n}
    BY <1>6 DEF OpenOf, Unlinked, Sockets
  <2> QED BY <2>1, <2>2, <2>3 DEF Building, more
<1>16. Alone(p, c, q, g)
  BY <1>6 DEF Alone
<1>17. BuildOK(p, t, c, Append(e, g))
  <2> DEFINE free == Unplaced(a) \cup {n}
             all == Append(e, g)
  <2>1. /\ StackOK(p, c, q, e) /\ Above(p, c, q, e, g) /\ all = Append(e, g) /\ Alone(p, c, q, g)
        /\ more = Left(e) \cup OpenOf(g) /\ free = Unplaced(e) \cup Unlinked(g) /\ TableOK(p, t, c, q, more, free)
    BY <1>4, <1>9, <1>14, <1>15, <1>16
  <2> HIDE DEF free, all
  <2>2. BuildOK(p, t, c, all)
    BY ONLY <2>1, BuildDone
  <2> QED BY <2>2 DEF all
<1> QED BY <1>17 DEF e

\* An activation of ast_block looks at one of its sockets.
LEMMA SocketFacts ==
  ASSUME NEW p, NEW t, NEW b, NEW o, NEW d, NEW f, NEW a, Building(p, t, b, o, d, f, a), f.call = "ast_block"
  PROVE  /\ AstOK(b, o, f) /\ f.ast \in Trees /\ Proper(f.ast)
         /\ \A s \in f.inputs : s \in Ways(f.ast) /\ s # "next" /\ s \notin f.branches /\ <<f.id, s>> \in Left(a)
         /\ \A s \in f.branches : s # "next" /\ s \notin f.inputs
         /\ f.id \notin Unplaced(d) /\ \A x : <<f.id, x>> \notin Left(d)
         /\ f.parent # f.id
<1>1. AstOK(b, o, f) /\ TableOK(p, t, b, o, Left(a), Unplaced(a))
  BY DEF Building, Above, FrameOK, SequenceOK
<1>2. f.ast \in Trees
  <2>1. f.id \in 1 .. Len(b) /\ f.ast = Head(o[f.id]) /\ o[f.id] # <<>>
    BY <1>1 DEF AstOK
  <2>2. o[f.id] \in Seq(Trees)
    BY <1>1, <2>1 DEF TableOK, Shape
  <2> QED BY <2>1, <2>2, HeadTrees
<1>3. Proper(f.ast)
  BY <1>2, TreesProper
<1>4. \A s \in f.inputs : <<f.id, s>> \in OpenOf(f)
  BY <1>1 DEF OpenOf, AstOK
<1>5. f.id \in Own(f) /\ f.parent # f.id
  BY <1>1 DEF Own, AstOK
<1>6. f.id \notin Unplaced(d) /\ \A x : <<f.id, x>> \notin Left(d)
  <2>1. Len(b) \in Nat /\ StackOK(p, b, o, d) /\ Above(p, b, o, d, f)
    BY DEF Building
  <2> DEFINE w == f.id
  <2>2. w \in Own(f)
    BY <1>5
  <2> HIDE DEF w
  <2>3. w \notin Unplaced(d) /\ \A x : <<w, x>> \notin Left(d)
    BY ONLY <2>1, <2>2, Apart
  <2> QED BY <2>3 DEF w
<1> QED BY <1>1, <1>2, <1>3, <1>4, <1>5, <1>6 DEF AstOK, Proper, Ways, Building

LEMMA OneLess ==
  ASSUME NEW b, NEW o, NEW f, AstOK(b, o, f), NEW s \in f.inputs \cup f.branches, NEW h,
         \/ h = [f EXCEPT !.inputs = @ \ {s}] /\ s \notin f.branches
         \/ h = [f EXCEPT !.branches = @ \ {s}] /\ s \notin f.inputs
  PROVE  /\ Touched(f, h) /\ h.call = "ast_block" /\ h.id = f.id /\ h.parent = f.parent /\ h.ast = f.ast /\ h.into = f.into
         /\ s \notin h.inputs /\ s \notin h.branches
         /\ s # "next" => OpenOf(h) = OpenOf(f) \ {<<f.id, s>>} /\ <<f.id, s>> \in OpenOf(f)
         /\ Unlinked(h) = Unlinked(f)
<1>1. /\ h.call = "ast_block" /\ DOMAIN h = DOMAIN f /\ h.id = f.id /\ h.parent = f.parent /\ h.ast = f.ast /\ h.into = f.into
      /\ h.inputs \cup h.branches = (f.inputs \cup f.branches) \ {s} /\ h.inputs \subseteq f.inputs /\ h.branches \subseteq f.branches
  BY DEF AstOK, AstFields
<1>2. Touched(f, h) /\ Unlinked(h) = Unlinked(f) /\ s \notin h.inputs /\ s \notin h.branches
  BY <1>1 DEF Touched, AstOK, Unlinked
<1>3. ASSUME s # "next" PROVE OpenOf(h) = OpenOf(f) \ {<<f.id, s>>} /\ <<f.id, s>> \in OpenOf(f)
  <2>1. f.parent # f.id /\ f.call = "ast_block"
    BY DEF AstOK
  <2>2. {"next"} \cup h.inputs \cup h.branches = ({"next"} \cup f.inputs \cup f.branches) \ {s}
    BY <1>1, <1>3
  <2> DEFINE A == {"next"} \cup f.inputs \cup f.branches
             B == {"next"} \cup h.inputs \cup h.branches
             R == IF f.into = "next" THEN {} ELSE {<<f.parent, f.into>>}
  <2>3. OpenOf(f) = {<<f.id, x>> : x \in A} \cup R /\ OpenOf(h) = {<<f.id, x>> : x \in B} \cup R
    BY <1>1, <2>1 DEF OpenOf
  <2>4. B = A \ {s} /\ s \in A /\ <<f.id, s>> \notin R
    BY <2>1, <2>2
  <2> HIDE DEF A, B, R
  <2> QED BY <2>3, <2>4
<1> QED BY <1>1, <1>2, <1>3

LEMMA LiteralSet ==
  ASSUME NEW p, NEW t, NEW b, NEW o, NEW d, NEW f, NEW a, Building(p, t, b, o, d, f, a), f.call = "ast_block",
         NEW s \in f.inputs, NEW e, e = Wanted(f.ast, s), IsLiteral(e),
         NEW c, c = WithInput(b, f.id, s, [kind |-> 1, block |-> NoBlock, literal |-> e.literal]),
         NEW h, h = [f EXCEPT !.inputs = @ \ {s}]
  PROVE  BuildOK(p, t, c, Append(d, h))
<1>1. /\ AstOK(b, o, f) /\ f.ast \in Trees /\ s \in Ways(f.ast) /\ s # "next" /\ s \notin f.branches /\ <<f.id, s>> \in Left(a)
      /\ <<f.id, s>> \notin Left(d)
  BY SocketFacts
<1>2. /\ Touched(f, h) /\ h.call = "ast_block" /\ OpenOf(h) = OpenOf(f) \ {<<f.id, s>>} /\ Unlinked(h) = Unlinked(f)
  BY <1>1, OneLess
<1>3. WayInto(f.ast, s)[1] = e
  <2>1. s \in DOMAIN f.ast.inputs
    BY <1>1 DEF AstOK
  <2> QED BY <2>1 DEF WayInto
<1> DEFINE entry == [kind |-> 1, block |-> NoBlock, literal |-> e.literal]
           left == Left(a)
           free == Unplaced(a)
           less == left \ {<<f.id, s>>}
           rest == free \ {entry.block}
           i == f.id
           ast == f.ast
<1>4. Socketing(p, t, b, o, left, free, i, ast, s, entry, c, less, rest)
  BY <1>1, <1>3 DEF Socketing, Fitting, Building, AstOK
<1>5. entry.block = NoBlock /\ rest = free
  <2>1. NoBlock \notin free
    <3>1. \A j \in 1 .. Len(a) : NoBlock \notin Unlinked(a[j])
      <4>1. StackOK(p, b, o, a)
        BY StackJoined DEF Building
      <4>2. \A j \in 1 .. Len(a) : FrameOK(p, b, o, a[j])
        BY <4>1 DEF StackOK
      <4>3. NoBlock \notin 1 .. Len(b)
        BY ProjectAssumption DEF Building
      <4> QED BY <4>2, <4>3 DEF Unlinked, FrameOK, AstOK, SequenceOK
    <3> QED BY <3>1 DEF Unplaced
  <2> QED BY <2>1
<1>6. less = Left(d) \cup OpenOf(h) /\ free = Unplaced(d) \cup Unlinked(h)
  BY <1>1, <1>2 DEF Building
<1> HIDE DEF entry, left, free, less, rest, i, ast
<1>7. TableOK(p, t, c, o, less, rest) /\ Keeps(b, o, c, o)
  BY ONLY <1>4, SocketPut
<1>8. StackOK(p, b, o, d) /\ Above(p, b, o, d, h)
  BY <1>2, Retouched DEF Building
<1>9. StackOK(p, c, o, d) /\ Above(p, c, o, d, h)
  BY <1>7, <1>8, StackKept, AboveKept
<1>10. Alone(p, c, o, h)
  BY <1>2 DEF Alone
<1> DEFINE all == Append(d, h)
<1>11. all = Append(d, h) /\ TableOK(p, t, c, o, less, free)
  BY <1>5, <1>7
<1> HIDE DEF all
<1>12. BuildOK(p, t, c, all)
  BY ONLY <1>6, <1>9, <1>10, <1>11, BuildDone
<1> QED BY <1>12 DEF all

LEMMA InputBegun ==
  ASSUME NEW p, NEW t, NEW b, NEW o, NEW d, NEW f, NEW a, Building(p, t, b, o, d, f, a), f.call = "ast_block",
         NEW s \in f.inputs, NEW e, e = Wanted(f.ast, s), ~IsLiteral(e), NEW n, n = Len(b) + 1,
         NEW c, c = Append(b, Block(e.op, f.id, Shadow(e.op), 0)),
         NEW h, h = [f EXCEPT !.inputs = @ \ {s}], NEW g, g = AstCall(n, f.id, e, s)
  PROVE  BuildOK(p, t, c, Append(Append(d, h), g))
<1>1. /\ AstOK(b, o, f) /\ f.ast \in Trees /\ Proper(f.ast) /\ s # "next" /\ s \notin f.branches /\ StackOK(p, b, o, d) /\ Above(p, b, o, d, f)
      /\ Len(b) \in Nat
  BY SocketFacts DEF Building
<1>2. /\ Touched(f, h) /\ h.call = "ast_block" /\ OpenOf(h) = OpenOf(f) \ {<<f.id, s>>} /\ <<f.id, s>> \in OpenOf(f)
      /\ Unlinked(h) = Unlinked(f) /\ s \notin h.inputs /\ s \notin h.branches /\ h.id = f.id
  BY <1>1, OneLess
<1>3. s \in DOMAIN f.ast.inputs /\ e \in Trees
  BY <1>1 DEF AstOK, Proper, Trees
<1> DEFINE x == <<e>>
           q == Extended(b, o, x)
           more == Left(a) \cup Sockets(n, e)
           parent == f.id
<1>4. x \in Seq(Trees) /\ x # <<>> /\ e = Head(x) /\ parent \in 1 .. Len(b) /\ n \in Nat /\ parent < n /\ n = Len(b) + 1 /\ x = <<e>>
  BY <1>1, <1>3 DEF AstOK
<1>5. /\ TableOK(p, t, c, q, more, Unplaced(a) \cup {n}) /\ Keeps(b, o, c, q)
      /\ n \in 1 .. Len(c) /\ q[n] = x /\ c[n].parent = parent
  <2> DEFINE left == Left(a)
             free == Unplaced(a)
  <2> HIDE DEF x
  <2>1. Adding(p, t, b, o, left, free, x, parent, e, n, c, q, more)
    BY <1>4 DEF Building, Adding
  <2> HIDE DEF q, more, left, free, parent
  <2>2. /\ TableOK(p, t, c, q, more, free \cup {n}) /\ Keeps(b, o, c, q)
        /\ n \in 1 .. Len(c) /\ q[n] = x /\ c[n].parent = parent
    BY ONLY <2>1, BlockAdded
  <2> QED BY <2>2 DEF free
<1>m. more = Left(a) \cup Sockets(n, e)
  OBVIOUS
<1> HIDE DEF q, more, x
<1>6. /\ g.call = "ast_block" /\ DOMAIN g = AstFields /\ g.id = n /\ g.parent = f.id /\ g.ast = e /\ g.into = s
      /\ g.inputs = DOMAIN e.inputs /\ g.branches = DOMAIN e.branches
  BY DEF AstCall, AstFields
<1>7. Above(p, b, o, d, h)
  BY <1>1, <1>2, Retouched
<1> DEFINE u == Append(d, h)
<1>e. u = Append(d, h)
  OBVIOUS
<1> HIDE DEF u
<1>8. StackOK(p, b, o, u) /\ (\E S : d \in Seq(S)) /\ u = Append(d, h)
  <2>1. StackOK(p, b, o, u)
    BY ONLY <1>1, <1>7, <1>e, StackJoined
  <2> QED BY <1>1, <1>e, <2>1 DEF StackOK
<1>9. StackOK(p, c, q, u)
  BY <1>5, <1>8, StackKept
<1>10. FrameOK(p, c, q, g)
  <2>1. f.id \in 1 .. Len(b) /\ f.id \in 1 .. Len(c)
    BY <1>4, <1>5 DEF Keeps
  <2>2. q[f.id] = o[f.id] /\ o[f.id] # <<>> /\ f.ast = Head(o[f.id])
    BY <1>1, <1>5, <2>1 DEF Keeps, AstOK
  <2> QED BY <1>3, <1>4, <1>5, <1>6, <2>1, <2>2 DEF FrameOK, AstOK
<1>11. u # <<>> /\ u[Len(u)] = h
  <2>1. u # <<>> /\ u[Len(d) + 1] = h /\ Len(u) = Len(d) + 1
    BY <1>8, Grown
  <2> QED BY <2>1
<1>12. OnTop(p, c, q, h, g)
  BY <1>1, <1>2, <1>6 DEF OnTop
<1>13. \A i \in 1 .. Len(u) : Later(u[i], g)
  <2>1. Own(g) \subseteq {Len(b) + 1}
    BY <1>6 DEF Own
  <2> QED BY <1>1, <1>8, <2>1, Newest
<1>14. Above(p, c, q, u, g)
  BY <1>10, <1>11, <1>12, <1>13 DEF Above
<1>15. more = Left(u) \cup OpenOf(g) /\ Unplaced(a) \cup {n} = Unplaced(u) \cup Unlinked(g)
  <2>1. Left(u) = Left(d) \cup OpenOf(h) /\ Unplaced(u) = Unplaced(d) \cup Unlinked(h)
    BY <1>8, PartsOfStack
  <2>2. OpenOf(g) = Sockets(n, e) \cup {<<f.id, s>>} /\ Unlinked(g) = {n}
    BY <1>1, <1>6 DEF OpenOf, Unlinked, Sockets
  <2>3. Left(a) = Left(d) \cup OpenOf(f) /\ Unplaced(a) = Unplaced(d) \cup Unlinked(f)
    BY DEF Building
  <2> QED BY <1>2, <1>m, <2>1, <2>2, <2>3
<1>16. Alone(p, c, q, g)
  BY <1>6 DEF Alone
<1>17. BuildOK(p, t, c, Append(u, g))
  <2> DEFINE free == Unplaced(a) \cup {n}
             all == Append(u, g)
  <2>1. /\ StackOK(p, c, q, u) /\ Above(p, c, q, u, g) /\ all = Append(u, g) /\ Alone(p, c, q, g)
        /\ more = Left(u) \cup OpenOf(g) /\ free = Unplaced(u) \cup Unlinked(g) /\ TableOK(p, t, c, q, more, free)
    BY <1>5, <1>9, <1>14, <1>15, <1>16
  <2> HIDE DEF free, all
  <2>2. BuildOK(p, t, c, all)
    BY ONLY <2>1, BuildDone
  <2> QED BY <2>2 DEF all
<1> QED BY <1>17 DEF u

LEMMA BranchBegun ==
  ASSUME NEW p, NEW t, NEW b, NEW o, NEW d, NEW f, NEW a, Building(p, t, b, o, d, f, a), f.call = "ast_block",
         NEW s \in f.branches, NEW h, h = [f EXCEPT !.branches = @ \ {s}], NEW g, g = SequenceCall(f.id, f.ast.branches[s], s)
  PROVE  BuildOK(p, t, b, Append(Append(d, h), g))
<1>1. /\ AstOK(b, o, f) /\ f.ast \in Trees /\ Proper(f.ast) /\ s # "next" /\ s \notin f.inputs /\ StackOK(p, b, o, d) /\ Above(p, b, o, d, f)
  BY SocketFacts DEF Building
<1>2. /\ Touched(f, h) /\ h.call = "ast_block" /\ OpenOf(h) = OpenOf(f) \ {<<f.id, s>>} /\ <<f.id, s>> \in OpenOf(f)
      /\ Unlinked(h) = Unlinked(f) /\ s \notin h.inputs /\ s \notin h.branches /\ h.id = f.id
  BY <1>1, OneLess
<1>3. /\ g.call = "sequence" /\ DOMAIN g = SequenceFields /\ g.parent = f.id /\ g.rest = f.ast.branches[s] /\ g.into = s
      /\ g.first = NoBlock /\ g.previous = NoBlock
  BY DEF SequenceCall, SequenceFields
<1>4. Above(p, b, o, d, h)
  BY <1>1, <1>2, Retouched
<1> DEFINE u == Append(d, h)
<1>e. u = Append(d, h)
  OBVIOUS
<1> HIDE DEF u
<1>5. StackOK(p, b, o, u) /\ (\E S : d \in Seq(S)) /\ u = Append(d, h)
  <2>1. StackOK(p, b, o, u)
    BY ONLY <1>1, <1>4, <1>e, StackJoined
  <2> QED BY <1>1, <1>e, <2>1 DEF StackOK
<1>6. FrameOK(p, b, o, g) /\ Alone(p, b, o, g)
  <2>1. f.id \in 1 .. Len(b) /\ o[f.id] # <<>> /\ f.ast = Head(o[f.id]) /\ s \in DOMAIN f.ast.branches /\ f.ast.branches[s] \in Seq(Trees)
    BY <1>1 DEF AstOK, Proper
  <2> QED BY <1>1, <1>3, <2>1 DEF FrameOK, SequenceOK, Alone, Script
<1>7. u # <<>> /\ u[Len(u)] = h
  <2>1. u # <<>> /\ u[Len(d) + 1] = h /\ Len(u) = Len(d) + 1
    BY <1>5, Grown
  <2> QED BY <2>1
<1>8. OnTop(p, b, o, h, g)
  BY <1>1, <1>2, <1>3 DEF OnTop
<1>9. \A i \in 1 .. Len(u) : Later(u[i], g)
  BY <1>3 DEF Own, Later
<1>10. Above(p, b, o, u, g)
  BY <1>6, <1>7, <1>8, <1>9 DEF Above
<1> DEFINE left == Left(a)
           free == Unplaced(a)
<1>11. left = Left(u) \cup OpenOf(g) /\ free = Unplaced(u) \cup Unlinked(g)
  <2>1. Left(u) = Left(d) \cup OpenOf(h) /\ Unplaced(u) = Unplaced(d) \cup Unlinked(h)
    BY <1>5, PartsOfStack
  <2>2. OpenOf(g) = {<<f.id, s>>} /\ Unlinked(g) = {}
    BY <1>3 DEF OpenOf, Unlinked
  <2>3. Left(a) = Left(d) \cup OpenOf(f) /\ Unplaced(a) = Unplaced(d) \cup Unlinked(f)
    BY DEF Building
  <2> QED BY <1>2, <2>1, <2>2, <2>3
<1>12. TableOK(p, t, b, o, left, free)
  BY DEF Building
<1> DEFINE all == Append(u, g)
<1>13. all = Append(u, g)
  OBVIOUS
<1> HIDE DEF left, free, all
<1>14. BuildOK(p, t, b, all)
  BY ONLY <1>5, <1>6, <1>10, <1>11, <1>12, <1>13, BuildDone
<1> QED BY <1>14 DEF all, u

\* f waits for g, above the activations of d.
Waiting(p, b, o, d, f, g, e) ==
  /\ e = Append(d, f) /\ (\E S : d \in Seq(S)) /\ StackOK(p, b, o, d) /\ StackOK(p, b, o, e) /\ Above(p, b, o, d, f)
  /\ OnTop(p, b, o, f, g) /\ Later(f, g) /\ \A i \in 1 .. Len(d) : Later(d[i], g)
  /\ Left(e) = Left(d) \cup OpenOf(f) /\ Unplaced(e) = Unplaced(d) \cup Unlinked(f)

LEMMA WaitingFrames ==
  ASSUME NEW p, NEW t, NEW b, NEW o, NEW e, NEW g, NEW a, Building(p, t, b, o, e, g, a), e # <<>>
  PROVE  Waiting(p, b, o, Front(e), Last(e), g, e)
<1>1. StackOK(p, b, o, e) /\ Above(p, b, o, e, g)
  BY DEF Building
<1> DEFINE d == Front(e)
           f == Last(e)
<1>2. e = Append(d, f) /\ (\E S : d \in Seq(S)) /\ f = e[Len(e)]
  BY <1>1, LastFront DEF StackOK
<1> HIDE DEF d, f
<1>3. StackOK(p, b, o, d) /\ Above(p, b, o, d, f)
  BY <1>1, <1>2, StackSplit
<1>4. Left(e) = Left(d) \cup OpenOf(f) /\ Unplaced(e) = Unplaced(d) \cup Unlinked(f)
  BY <1>2, PartsOfStack
<1>5. OnTop(p, b, o, f, g) /\ (\A i \in 1 .. Len(e) : Later(e[i], g))
  BY <1>1, <1>2 DEF Above
<1>6. /\ e[Len(d) + 1] = f /\ Len(d) + 1 \in 1 .. Len(e)
      /\ \A i \in 1 .. Len(d) : e[i] = d[i] /\ i \in 1 .. Len(e)
  BY <1>2, Grown
<1>7. Waiting(p, b, o, d, f, g, e)
  BY <1>1, <1>2, <1>3, <1>4, <1>5, <1>6 DEF Waiting
<1> QED BY <1>7 DEF d, f

\* The block of a statement is the first of its script, or comes after another.
Advanced(f, id) == [f EXCEPT !.first = IF @ = NoBlock THEN id ELSE @, !.previous = id]
LEMMA StatementDone ==
  ASSUME NEW p, NEW t, NEW b, NEW o, NEW d, NEW e, NEW f, NEW g, NEW a, Building(p, t, b, o, e, g, a), g.call = "ast_block",
         g.inputs = {}, g.branches = {}, Waiting(p, b, o, d, f, g, e), f.call = "sequence",
         NEW c, c = IF f.previous = NoBlock THEN b ELSE WithNext(b, f.previous, g.id),
         NEW h, h = Advanced(f, g.id)
  PROVE  BuildOK(p, t, c, Append(d, h))
<1> DEFINE id == g.id
           left == Left(a)
           free == Unplaced(a)
<1>1. /\ AstOK(b, o, g) /\ SequenceOK(p, b, o, f) /\ OnTop(p, b, o, f, g) /\ Later(f, g) /\ (\A i \in 1 .. Len(d) : Later(d[i], g))
      /\ StackOK(p, b, o, d) /\ Above(p, b, o, d, f) /\ TableOK(p, t, b, o, left, free) /\ Len(b) \in Nat
  BY DEF Building, Waiting, Above, FrameOK, AstOK, SequenceOK
<1>2. /\ g.into = "next" /\ g.parent = ParentOf(f.parent, f.previous) /\ Tail(o[id]) = f.rest
      /\ o[id] = (IF f.previous = NoBlock THEN Script(p, b, o, f) ELSE Tail(o[f.previous]))
  BY <1>1 DEF OnTop
<1>3. /\ id \in 1 .. Len(b) /\ id # NoBlock /\ id \in Nat /\ o[id] # <<>> /\ b[id].parent = g.parent /\ f.parent < id
      /\ f.previous # NoBlock => f.previous < id /\ f.first < id /\ f.first \in Nat
  <2>1. id \in Own(g)
    BY <1>1 DEF Own, AstOK
  <2>2. \A u \in Known(f) : u < id
    BY <1>1, <2>1 DEF Later
  <2>3. f.parent \in Known(f) /\ (f.previous # NoBlock => f.previous \in Known(f) /\ f.first \in Known(f) /\ f.first \in Nat)
    BY <1>1 DEF Known, Own, SequenceOK
  <2>4. id \in 1 .. Len(b) /\ o[id] # <<>> /\ b[id].parent = g.parent
    BY <1>1 DEF AstOK
  <2> QED BY <1>1, <2>2, <2>3, <2>4, ProjectAssumption
<1>4. /\ OpenOf(g) = {<<id, "next">>} /\ Unlinked(g) = {id}
      /\ OpenOf(f) = {<<f.parent, f.into>>} \cup (IF f.previous = NoBlock THEN {} ELSE {<<f.previous, "next">>})
      /\ Unlinked(f) = {f.first} \ {NoBlock}
      /\ left = Left(d) \cup OpenOf(f) \cup OpenOf(g) /\ free = Unplaced(d) \cup Unlinked(f) \cup Unlinked(g)
  <2>1. OpenOf(g) = {<<id, "next">>} /\ Unlinked(g) = {id}
    BY <1>2 DEF OpenOf, Unlinked
  <2>2. Left(a) = Left(e) \cup OpenOf(g) /\ Unplaced(a) = Unplaced(e) \cup Unlinked(g)
    BY DEF Building
  <2>3. Left(e) = Left(d) \cup OpenOf(f) /\ Unplaced(e) = Unplaced(d) \cup Unlinked(f)
    BY DEF Waiting
  <2> QED BY <2>1, <2>2, <2>3 DEF OpenOf, Unlinked
<1> HIDE DEF id, left, free
<1>5. /\ h.call = "sequence" /\ DOMAIN h = SequenceFields /\ h.parent = f.parent /\ h.rest = f.rest /\ h.into = f.into
      /\ h.previous = id /\ h.first = IF f.first = NoBlock THEN id ELSE f.first
  BY <1>1 DEF SequenceOK, SequenceFields, Advanced, id
<1>6. Script(p, b, o, h) = Script(p, b, o, f)
  BY <1>5 DEF Script
<1>7. SequenceOK(p, b, o, h)
  <2>1. CASE f.previous = NoBlock
    <3>1. f.first = NoBlock /\ g.parent = f.parent /\ o[id] = Script(p, b, o, f)
      BY <1>1, <1>2, <2>1 DEF SequenceOK, ParentOf
    <3> QED BY <1>1, <1>3, <1>5, <1>6, <3>1 DEF SequenceOK
  <2>2. CASE f.previous # NoBlock
    <3>1. f.first # NoBlock /\ f.first <= id
      BY <1>1, <1>3, <2>2 DEF SequenceOK
    <3> QED BY <1>1, <1>3, <1>5, <1>6, <3>1 DEF SequenceOK
  <2> QED BY <2>1, <2>2
<1>8. \A i \in 1 .. Len(d) : Later(d[i], h)
  <2> TAKE i \in 1 .. Len(d)
  <2>1. Own(h) \subseteq Own(f) \cup Own(g)
    BY <1>1, <1>5 DEF Own, SequenceOK, AstOK, id
  <2> QED BY <1>1, <2>1 DEF Above, Later
<1>9. Above(p, b, o, d, h)
  <2>1. d # <<>> => OnTop(p, b, o, d[Len(d)], h)
    <3>1. HAVE d # <<>>
    <3>2. OnTop(p, b, o, d[Len(d)], f)
      BY <1>1, <3>1 DEF Above
    <3>3. d[Len(d)].call # "sequence"
      BY <1>1, <3>2 DEF OnTop, SequenceOK
    <3> QED BY <1>5, <3>2, <3>3 DEF OnTop
  <2> QED BY <1>1, <1>5, <1>7, <1>8, <2>1 DEF Above, FrameOK
<1>10. OpenOf(h) = {<<f.parent, f.into>>, <<id, "next">>} /\ Unlinked(h) = (IF f.first = NoBlock THEN {id} ELSE {f.first})
  BY <1>3, <1>5 DEF OpenOf, Unlinked
<1> DEFINE less == Left(d) \cup OpenOf(h)
           rest == Unplaced(d) \cup Unlinked(h)
<1>11. TableOK(p, t, c, o, less, rest) /\ Keeps(b, o, c, o)
  <2>1. CASE f.previous = NoBlock
    <3>1. f.first = NoBlock /\ c = b
      BY <1>1, <2>1 DEF SequenceOK
    <3>2. less = left /\ rest = free
      BY <1>4, <1>10, <2>1, <3>1
    <3>3. Keeps(b, o, b, o)
      BY <1>1 DEF Keeps
    <3> QED BY <1>1, <3>1, <3>2, <3>3
  <2>2. CASE f.previous # NoBlock
    <3> DEFINE v == f.previous
    <3>1. v \in Own(f) /\ v \in 1 .. Len(b) /\ f.first # NoBlock /\ f.parent < f.first /\ f.first <= v /\ f.parent \in Nat /\ f.first \in Nat
          /\ o[v] # <<>> /\ g.parent = v
      BY <1>1, <1>2, <2>2 DEF Own, SequenceOK, ParentOf
    <3>2. v # id /\ f.parent # v /\ f.first # id
      BY <1>3, <2>2, <3>1
    <3> HIDE DEF v
    <3>3. v \notin Unplaced(d) /\ \A x : <<v, x>> \notin Left(d)
      BY ONLY <1>1, <3>1, Apart
    <3>4. id \notin Unplaced(d)
      <4>1. id \in Own(g) /\ StackOK(p, b, o, e) /\ Above(p, b, o, e, g)
        BY <1>1 DEF Own, AstOK, Building, id
      <4>2. id \notin Unplaced(e)
        BY ONLY <1>1, <4>1, Apart
      <4> QED BY <4>2 DEF Waiting
    <3>5. less = left \ {<<v, "next">>}
      <4>1. left = Left(d) \cup {<<f.parent, f.into>>, <<v, "next">>, <<id, "next">>}
        BY <1>4, <2>2 DEF v
      <4>2. <<v, "next">> # <<f.parent, f.into>> /\ <<v, "next">> # <<id, "next">> /\ <<v, "next">> \notin Left(d)
        BY <3>2, <3>3
      <4> QED BY <1>10, <4>1, <4>2
    <3>6. rest = free \ {id}
      <4>1. free = Unplaced(d) \cup {f.first, id}
        BY <1>4, <3>1
      <4> QED BY <1>10, <3>1, <3>2, <3>4, <4>1
    <3>7. <<v, "next">> \in left /\ id \in free
      BY <1>4, <2>2 DEF v
    <3>8. o[id] = Story(p, b, o, v) /\ c = WithNext(b, v, id)
      BY <1>2, <2>2, <3>1 DEF Story, v, id
    <3> HIDE DEF less, rest
    <3>9. Linking(p, t, b, o, left, free, v, id, c, less, rest)
      BY <1>1, <1>3, <3>1, <3>5, <3>6, <3>7, <3>8 DEF Linking
    <3> QED BY ONLY <3>9, NextPut
  <2> QED BY <2>1, <2>2
<1>12. Alone(p, b, o, h)
  BY <1>2, <1>3, <1>5 DEF Alone
<1>13. Alone(p, c, o, h)
  <2>1. o[h.previous] = o[h.previous] /\ h.previous # NoBlock
    BY <1>3, <1>5
  <2> QED BY <1>12, <2>1 DEF Alone
<1>14. StackOK(p, c, o, d) /\ Above(p, c, o, d, h)
  <2> HIDE DEF less, rest
  <2> QED BY <1>1, <1>9, <1>11, StackKept, AboveKept
<1> DEFINE all == Append(d, h)
<1>15. all = Append(d, h) /\ less = Left(d) \cup OpenOf(h) /\ rest = Unplaced(d) \cup Unlinked(h)
  OBVIOUS
<1> HIDE DEF all, less, rest
<1>16. BuildOK(p, t, c, all)
  BY ONLY <1>11, <1>13, <1>14, <1>15, BuildDone
<1> QED BY <1>16 DEF all

LEMMA LastOfGrown ==
  ASSUME NEW d, \E S : d \in Seq(S), NEW f, NEW e, e = Append(d, f)
  PROVE  e # <<>> /\ e[Len(e)] = f
<1>1. e # <<>> /\ e[Len(d) + 1] = f /\ Len(e) = Len(d) + 1
  BY Grown
<1> QED BY <1>1

\* The activations that are left when the innermost has returned.
LEMMA CallerGoesOn ==
  ASSUME NEW p, NEW t, NEW b, NEW o, NEW c, NEW d, NEW f, NEW e, e = Append(d, f), \E S : d \in Seq(S), StackOK(p, b, o, e),
         Keeps(b, o, c, o), f.call = "ast_block", NEW left, left = Left(e), NEW free, free = Unplaced(e), TableOK(p, t, c, o, left, free)
  PROVE  BuildOK(p, t, c, e)
<1>1. StackOK(p, c, o, e)
  BY StackKept
<1>2. e[Len(e)] = f
  BY LastOfGrown
<1>3. Alone(p, c, o, e[Len(e)])
  BY <1>2 DEF Alone
<1> QED BY <1>1, <1>3 DEF BuildOK

\* The block of a value is put into its socket.
LEMMA InputDone ==
  ASSUME NEW p, NEW t, NEW b, NEW o, NEW d, NEW e, NEW f, NEW g, NEW a, Building(p, t, b, o, e, g, a), g.call = "ast_block",
         g.inputs = {}, g.branches = {}, Waiting(p, b, o, d, f, g, e), f.call = "ast_block",
         NEW c, c = WithInput(b, f.id, g.into, Holding(Kind(g.ast), g.id))
  PROVE  BuildOK(p, t, c, e)
<1> DEFINE id == g.id
           i == f.id
           s == g.into
           left == Left(a)
           free == Unplaced(a)
           entry == Holding(Kind(g.ast), id)
           ast == f.ast
<1>1. /\ AstOK(b, o, g) /\ AstOK(b, o, f) /\ Later(f, g) /\ (\A k \in 1 .. Len(d) : Later(d[k], g))
      /\ StackOK(p, b, o, d) /\ Above(p, b, o, d, f) /\ TableOK(p, t, b, o, left, free) /\ Len(b) \in Nat
      /\ StackOK(p, b, o, e) /\ Above(p, b, o, e, g) /\ e = Append(d, f) /\ \E S : d \in Seq(S)
  BY DEF Building, Waiting, Above, FrameOK, SequenceOK
<1>2. g.parent = i /\ s # "next" /\ s \notin f.inputs /\ s \notin f.branches
  BY DEF Waiting, OnTop
<1>3. /\ i \in 1 .. Len(b) /\ o[i] # <<>> /\ ast = Head(o[i]) /\ s \in DOMAIN ast.inputs /\ o[id] = <<Wanted(ast, s)>>
      /\ id \in 1 .. Len(b) /\ b[id].parent = i /\ g.ast = Head(o[id]) /\ i # id /\ f.parent # i
  BY <1>1, <1>2 DEF AstOK
<1>4. ast \in Trees /\ Wanted(ast, s) \in Trees /\ g.ast = Wanted(ast, s) /\ s \in Ways(ast)
  <2>1. ast \in Trees
    <3>1. o[i] \in Seq(Trees)
      BY <1>1, <1>3 DEF TableOK, Shape
    <3> QED BY <1>3, <3>1, HeadTrees
  <2>2. o[id] \in Seq(Trees) /\ o[id] # <<>>
    BY <1>1, <1>3 DEF TableOK, Shape, AstOK
  <2>3. g.ast \in Trees /\ g.ast = Wanted(ast, s)
    BY <1>3, <2>2, HeadTrees
  <2> QED BY <1>3, <2>1, <2>3 DEF Ways
<1>5. /\ OpenOf(g) = {<<id, "next">>, <<i, s>>} /\ Unlinked(g) = {id}
      /\ left = Left(e) \cup OpenOf(g) /\ free = Unplaced(e) \cup Unlinked(g)
      /\ Left(e) = Left(d) \cup OpenOf(f) /\ Unplaced(e) = Unplaced(d) \cup Unlinked(f)
  <2>1. OpenOf(g) = {<<id, "next">>, <<i, s>>} /\ Unlinked(g) = {id}
    BY <1>2 DEF OpenOf, Unlinked
  <2> QED BY <2>1 DEF Building, Waiting
<1>6. id \notin Unplaced(e) /\ \A x : <<id, x>> \notin Left(e)
  <2>1. id \in Own(g)
    BY <1>1 DEF Own, AstOK
  <2> HIDE DEF id
  <2> QED BY ONLY <1>1, <2>1, Apart
<1>7. <<i, s>> \notin Left(e)
  <2>1. i \in Own(f)
    BY <1>1 DEF Own, AstOK
  <2>2. <<i, s>> \notin OpenOf(f)
    BY <1>1, <1>2, <1>3 DEF OpenOf
  <2>3. \A x : <<i, x>> \notin Left(d)
    <3> HIDE DEF i
    <3> QED BY ONLY <1>1, <2>1, Apart
  <2> QED BY <1>5, <2>2, <2>3
<1>8. Fitting(b, o, i, ast, s, entry, free)
  <2>1. WayInto(ast, s) = <<Wanted(ast, s)>> /\ ~IsLiteral(WayInto(ast, s)[1]) /\ WayInto(ast, s)[1] = g.ast
    BY <1>3, <1>4 DEF WayInto, Trees
  <2>2. entry.block = id /\ entry.kind = Kind(g.ast)
    BY DEF Holding
  <2> QED BY <1>3, <1>5, <2>1, <2>2 DEF Fitting
<1>9. entry.block = id
  BY DEF Holding
<1> DEFINE less == left \ {<<i, s>>}
           rest == free \ {entry.block}
<1>10. Socketing(p, t, b, o, left, free, i, ast, s, entry, c, less, rest)
  BY <1>1, <1>3, <1>4, <1>5, <1>8 DEF Socketing
<1>11. rest = Unplaced(e)
  BY <1>5, <1>6, <1>9
<1>12. /\ Left(e) = less \ {<<id, "next">>} /\ <<id, "next">> \in less
  BY <1>2, <1>3, <1>5, <1>6, <1>7
<1> HIDE DEF less, rest, left, free, entry, id, i, s, ast
<1>13. TableOK(p, t, c, o, less, rest) /\ Keeps(b, o, c, o)
  BY ONLY <1>10, SocketPut
<1> DEFINE none == Left(e)
<1>14. Dropping(p, t, c, o, less, rest, id, "next", none)
  <2>1. id \in 1 .. Len(c)
    BY <1>3, <1>13 DEF Keeps
  <2>2. Story(p, c, o, id) = <<>>
    BY <1>3 DEF Story
  <2> QED BY <1>12, <1>13, <2>1, <2>2 DEF Dropping
<1>15. TableOK(p, t, c, o, none, rest)
  <2> HIDE DEF none
  <2> QED BY ONLY <1>14, PlaceDropped
<1>16. e = Append(d, f) /\ f.call = "ast_block" /\ none = Left(e) /\ rest = Unplaced(e)
  BY <1>1, <1>11
<1> HIDE DEF none
<1> QED BY ONLY <1>1, <1>13, <1>15, <1>16, CallerGoesOn

\* A script is done: its last block is the last, and its first goes where it was called for.
LEMMA ScriptDone ==
  ASSUME NEW p, NEW t, NEW b, NEW o, NEW d, NEW f, NEW a, Building(p, t, b, o, d, f, a), f.call = "sequence", f.rest = <<>>,
         NEW i, i = f.parent, NEW s, s = f.into,
         NEW c, c = IF f.first = NoBlock THEN b ELSE IF d = <<>> THEN WithNext(b, i, f.first) ELSE WithInput(b, i, s, Holding(2, f.first)),
         NEW left, left = Left(d), NEW free, free = Unplaced(d), <<i, s>> \notin left,
         IF d = <<>> THEN s = "next" ELSE s # "next"
  PROVE  TableOK(p, t, c, o, left, free) /\ Keeps(b, o, c, o)
<1> DEFINE all == Left(a)
           unplaced == Unplaced(a)
<1>1. /\ SequenceOK(p, b, o, f) /\ StackOK(p, b, o, d) /\ Above(p, b, o, d, f) /\ TableOK(p, t, b, o, all, unplaced) /\ Len(b) \in Nat
      /\ Alone(p, b, o, f)
  BY DEF Building, Above, FrameOK, AstOK
<1>2. /\ all = left \cup {<<i, s>>} \cup (IF f.previous = NoBlock THEN {} ELSE {<<f.previous, "next">>})
      /\ unplaced = free \cup ({f.first} \ {NoBlock}) /\ i \in 1 .. Len(b)
  BY <1>1 DEF Building, OpenOf, Unlinked, SequenceOK
<1>3. s # "next" => /\ o[i] # <<>> /\ s \in DOMAIN Head(o[i]).branches /\ Head(o[i]) \in Trees
                    /\ s \notin DOMAIN Head(o[i]).inputs /\ Script(p, b, o, f) = Head(o[i]).branches[s]
  <2> HAVE s # "next"
  <2>1. o[i] # <<>> /\ s \in DOMAIN Head(o[i]).branches
    BY <1>1 DEF SequenceOK
  <2>2. o[i] \in Seq(Trees)
    BY <1>1, <1>2 DEF TableOK, Shape
  <2>3. Head(o[i]) \in Trees
    BY <2>1, <2>2, HeadTrees
  <2>4. Proper(Head(o[i]))
    BY <2>3, TreesProper
  <2> QED BY <2>1, <2>3, <2>4 DEF Proper, Script
<1>4. s = "next" => Script(p, b, o, f) = Story(p, b, o, i)
  BY DEF Script
<1> HIDE DEF all, unplaced
<1>5. CASE f.first = NoBlock
  <2>1. f.previous = NoBlock /\ Script(p, b, o, f) = <<>> /\ c = b /\ unplaced = free
    BY <1>1, <1>2, <1>5 DEF SequenceOK, Alone
  <2>2. left = all \ {<<i, s>>} /\ <<i, s>> \in all
    BY <1>2, <2>1
  <2>3. s # "next" /\ o[i] # <<>> => s \notin Ways(Head(o[i]))
    BY <1>3, <2>1 DEF Ways
  <2>4. Dropping(p, t, b, o, all, unplaced, i, s, left)
    BY <1>1, <1>2, <1>4, <2>1, <2>2, <2>3 DEF Dropping
  <2>5. TableOK(p, t, b, o, left, unplaced)
    BY ONLY <2>4, PlaceDropped
  <2>6. Keeps(b, o, b, o)
    BY <1>1 DEF Keeps
  <2> QED BY <2>1, <2>5, <2>6
<1>6. CASE f.first # NoBlock
  <2> DEFINE v == f.first
             w == f.previous
  <2>1. /\ w # NoBlock /\ v \in 1 .. Len(b) /\ w \in 1 .. Len(b) /\ i < v /\ v <= w /\ i \in Nat /\ v \in Nat /\ w \in Nat
        /\ o[v] = Script(p, b, o, f) /\ o[v] # <<>> /\ o[w] # <<>> /\ b[v].parent = i /\ v \in Own(f) /\ w \in Own(f)
    BY <1>1, <1>6 DEF SequenceOK, Own
  <2>2. Tail(o[w]) = <<>>
    BY <1>1, <2>1 DEF Alone
  <2>3. all = left \cup {<<i, s>>, <<w, "next">>} /\ unplaced = free \cup {v}
    BY <1>2, <1>6, <2>1
  <2> HIDE DEF v, w
  <2>4. i # w
    BY <2>1
  <2>5. v \notin free /\ \A x : <<w, x>> \notin left
    <3>1. v \notin Unplaced(d)
      BY ONLY <1>1, <2>1, Apart
    <3>2. \A x : <<w, x>> \notin Left(d)
      BY ONLY <1>1, <2>1, Apart
    <3> QED BY <3>1, <3>2
  <2> DEFINE less == all \ {<<i, s>>}
             rest == unplaced \ {v}
  <2>6. rest = free /\ left = less \ {<<w, "next">>} /\ <<w, "next">> \in less /\ <<i, s>> \in all /\ v \in unplaced
    BY <2>3, <2>4, <2>5
  <2>7. TableOK(p, t, c, o, less, rest) /\ Keeps(b, o, c, o)
    <3>1. CASE d = <<>>
      <4>1. s = "next" /\ c = WithNext(b, i, v) /\ o[v] = Story(p, b, o, i)
        BY <1>4, <1>6, <2>1, <3>1 DEF v
      <4>2. Linking(p, t, b, o, all, unplaced, i, v, c, less, rest)
        BY <1>1, <1>2, <2>1, <2>6, <4>1 DEF Linking
      <4> HIDE DEF less, rest
      <4> QED BY ONLY <4>2, NextPut
    <3>2. CASE d # <<>>
      <4> DEFINE entry == Holding(2, v)
                 ast == Head(o[i])
      <4>1. s # "next" /\ c = WithInput(b, i, s, entry) /\ entry.block = v
        BY <1>6, <3>2 DEF v, Holding
      <4>2. s \in Ways(ast) /\ WayInto(ast, s) = o[v] /\ s \notin DOMAIN ast.inputs /\ ast \in Trees /\ o[i] # <<>>
        BY <1>3, <2>1, <4>1 DEF Ways, WayInto
      <4>3. ~IsLiteral(WayInto(ast, s)[1])
        BY <4>2, WaysFacts
      <4>4. Fitting(b, o, i, ast, s, entry, unplaced)
        BY <2>1, <2>6, <4>1, <4>2, <4>3 DEF Fitting
      <4>5. Socketing(p, t, b, o, all, unplaced, i, ast, s, entry, c, less, rest)
        BY <1>1, <1>2, <2>6, <4>1, <4>2, <4>4 DEF Socketing
      <4> HIDE DEF less, rest, entry, ast
      <4> QED BY ONLY <4>5, SocketPut
    <3> QED BY <3>1, <3>2
  <2> HIDE DEF less, rest
  <2>8. Dropping(p, t, c, o, less, rest, w, "next", left)
    <3>1. w \in 1 .. Len(c)
      BY <2>1, <2>7 DEF Keeps
    <3>2. Story(p, c, o, w) = <<>>
      BY <2>1, <2>2 DEF Story
    <3> QED BY <2>6, <2>7, <3>1, <3>2 DEF Dropping
  <2>9. TableOK(p, t, c, o, left, rest)
    BY ONLY <2>8, PlaceDropped
  <2> QED BY <2>6, <2>7, <2>9
<1> QED BY <1>5, <1>6

LEMMA NothingGoing ==
  ASSUME NEW p, NEW t, NEW b, NEW o, TableOK(p, t, b, o, {}, {})
  PROVE  BuildOK(p, t, b, <<>>)
<1> DEFINE a == <<>>
<1>1. a \in Seq({}) /\ Len(a) = 0 /\ a = <<>>
  OBVIOUS
<1> HIDE DEF a
<1>2. 1 .. Len(a) = {} /\ 1 .. Len(a) - 1 = {}
  BY <1>1
<1>3. Left(a) = {} /\ Unplaced(a) = {}
  BY <1>2 DEF Left, Unplaced
<1>4. StackOK(p, b, o, a)
  BY <1>1, <1>2 DEF StackOK
<1>5. BuildOK(p, t, b, a)
  BY <1>1, <1>3, <1>4 DEF BuildOK
<1> QED BY <1>5 DEF a

LEMMA NothingOpen ==
  ASSUME NEW p, NEW t, NEW b, BuildOK(p, t, b, <<>>)
  PROVE  \E o : TableOK(p, t, b, o, {}, {})
<1> DEFINE a == <<>>
<1>1. Len(a) = 0
  OBVIOUS
<1>2. PICK o : TableOK(p, t, b, o, Left(a), Unplaced(a))
  BY DEF BuildOK
<1> HIDE DEF a
<1>3. 1 .. Len(a) = {}
  BY <1>1
<1>4. Left(a) = {} /\ Unplaced(a) = {}
  BY <1>3 DEF Left, Unplaced
<1> QED BY <1>2, <1>4

LEMMA ScriptReturned ==
  ASSUME NEW p, NEW t, NEW b, NEW o, NEW d, NEW f, NEW a, Building(p, t, b, o, d, f, a), f.call = "sequence", f.rest = <<>>,
         NEW c, c = IF f.first = NoBlock THEN b ELSE IF d = <<>> THEN WithNext(b, f.parent, f.first)
                    ELSE WithInput(b, f.parent, f.into, Holding(2, f.first))
  PROVE  BuildOK(p, t, c, d)
<1> DEFINE i == f.parent
           s == f.into
           left == Left(d)
           free == Unplaced(d)
<1>0. Above(p, b, o, d, f) /\ StackOK(p, b, o, d) /\ Len(b) \in Nat /\ SequenceOK(p, b, o, f)
  BY DEF Building, Above, FrameOK, AstOK
<1>1. CASE d = <<>>
  <2>1. s = "next"
    BY <1>0, <1>1 DEF Above
  <2>2. left = {} /\ free = {}
    <3>1. 1 .. Len(d) = {}
      BY <1>1
    <3> QED BY <3>1 DEF Left, Unplaced
  <2> HIDE DEF i, s, left, free
  <2>3. i = f.parent /\ s = f.into /\ left = Left(d) /\ free = Unplaced(d)
    BY DEF i, s, left, free
  <2>4. <<i, s>> \notin left
    BY <2>2
  <2>5. c = IF f.first = NoBlock THEN b ELSE IF d = <<>> THEN WithNext(b, i, f.first) ELSE WithInput(b, i, s, Holding(2, f.first))
    BY DEF i, s
  <2>6. TableOK(p, t, c, o, left, free)
    BY <1>1, <2>1, <2>3, <2>4, <2>5, ScriptDone
  <2>7. TableOK(p, t, c, o, {}, {})
    BY <2>2, <2>6
  <2> QED BY <1>1, <2>7, NothingGoing
<1>2. CASE d # <<>>
  <2> DEFINE e == Front(d)
             g == Last(d)
  <2>1. Waiting(p, b, o, e, g, f, d)
    BY <1>2, WaitingFrames
  <2> HIDE DEF e, g
  <2>2. /\ OnTop(p, b, o, g, f) /\ d = Append(e, g) /\ (\E S : e \in Seq(S)) /\ StackOK(p, b, o, e) /\ Above(p, b, o, e, g)
        /\ Left(d) = Left(e) \cup OpenOf(g)
    BY <2>1 DEF Waiting
  <2>3. g.call = "ast_block" /\ AstOK(b, o, g)
    BY <1>0, <2>2 DEF OnTop, Above, FrameOK, SequenceOK, AstOK
  <2>4. i = g.id /\ s # "next" /\ s \notin g.inputs /\ s \notin g.branches
    BY <2>2, <2>3 DEF OnTop
  <2>5. <<i, s>> \notin left
    <3>1. <<i, s>> \notin OpenOf(g)
      BY <2>3, <2>4 DEF OpenOf, AstOK
    <3>2. i \in Own(g)
      BY <2>3, <2>4 DEF Own
    <3>3. \A x : <<i, x>> \notin Left(e)
      <4> HIDE DEF i
      <4> QED BY ONLY <1>0, <2>2, <3>2, Apart
    <3> QED BY <2>2, <3>1, <3>3
  <2> HIDE DEF i, s, left, free
  <2>6. i = f.parent /\ s = f.into /\ left = Left(d) /\ free = Unplaced(d)
    BY DEF i, s, left, free
  <2>7. c = IF f.first = NoBlock THEN b ELSE IF d = <<>> THEN WithNext(b, i, f.first) ELSE WithInput(b, i, s, Holding(2, f.first))
    BY DEF i, s
  <2>8. TableOK(p, t, c, o, left, free) /\ Keeps(b, o, c, o)
    BY <1>2, <2>4, <2>5, <2>6, <2>7, ScriptDone
  <2> QED BY ONLY <1>0, <2>2, <2>3, <2>6, <2>8, CallerGoesOn
<1> QED BY <1>1, <1>2

-----------------------------------------------------------------------------
(* The invariant, and what it says of the finished table.                  *)

\* The VM stands at the block where its script begins, or at an end.
ReadOK(b, o, r) ==
  \/ r.at = NoBlock /\ r.script = <<>>
  \/ r.at \in 1 .. Len(b) /\ o[r.at] = r.script /\ r.script # <<>>

TableInv ==
  /\ project \in Projects /\ turn \in 0 .. Len(project)
  /\ progress = "build" => BuildOK(project, turn, blocks, activations)
  /\ progress # "build" =>
       /\ progress \in {"saved", "read"} /\ turn = Len(project)
       /\ \E o : TableOK(project, turn, blocks, o, {}, {}) /\ (progress = "read" => ReadOK(blocks, o, reading))

LEMMA ProjectFacts ==
  ASSUME NEW p \in Projects, NEW k \in 1 .. Len(p)
  PROVE  /\ Len(p) \in Nat /\ p[k].op \in TopOps /\ p[k].ids \in Seq(STRING) /\ IsInjective(p[k].ids) /\ "next" \notin Range(p[k].ids)
         /\ p[k].body \in Seq(Trees)
<1>1. p \in Seq([op : TopOps, ids : Seq(STRING), body : Scripts])
  BY ProjectAssumption
<1> DEFINE R == [op : TopOps, ids : Seq(STRING), body : Scripts]
<1>2. k \in DOMAIN p /\ Len(p) \in Nat /\ p[k] \in R
  <2>1. p \in Seq(R)
    BY <1>1
  <2> HIDE DEF R
  <2> QED BY <2>1
<1>3. p[k].op \in TopOps /\ p[k].ids \in Seq(STRING) /\ p[k].body \in Scripts
  BY <1>2
<1>4. IsInjective(p[k].ids) /\ "next" \notin Range(p[k].ids)
  BY <1>2, ProjectAssumption
<1> QED BY <1>2, <1>3, <1>4, ScriptsOfTrees

LEMMA SocketNames ==
  ASSUME NEW p, NEW t, NEW b, NEW o, NEW left, NEW free, TableOK(p, t, b, o, left, free), NEW id \in 1 .. Len(b)
  PROVE  \A s \in DOMAIN b[id].inputs : s # "next"
<1>1. Shape(p, t, b, o) /\ InputsOK(b, o, left) /\ PlainTops(b, o)
  BY DEF TableOK
<1>2. CASE o[id] = <<>>
  BY <1>1, <1>2 DEF PlainTops
<1>3. CASE o[id] # <<>>
  <2>1. Head(o[id]) \in Trees
    BY <1>1, <1>3, HeadTrees DEF Shape
  <2>2. DOMAIN b[id].inputs \subseteq Ways(Head(o[id]))
    BY <1>1, <1>3 DEF InputsOK
  <2> QED BY <2>1, <2>2, WaysFacts
<1> QED BY <1>2, <1>3

LEMMA TableValidated ==
  ASSUME NEW p, NEW t, NEW b, NEW o, TableOK(p, t, b, o, {}, {})
  PROVE  Validated(b)
<1>1. Shape(p, t, b, o) /\ Owned(b, {}) /\ InputsOK(b, o, {})
  BY DEF TableOK
<1>2. DOMAIN b = 1 .. Len(b)
  BY <1>1 DEF Shape
<1> SUFFICES ASSUME NEW id \in 1 .. Len(b)
             PROVE  /\ b[id].next # NoBlock => Linked(b, id, b[id].next)
                    /\ \A s \in DOMAIN b[id].inputs : b[id].inputs[s].block # NoBlock => Linked(b, id, b[id].inputs[s].block)
                    /\ b[id].topLevel = (b[id].parent = NoBlock)
  BY <1>2 DEF Validated
<1>3. \A y : Content(b, id, y) # NoBlock => Linked(b, id, Content(b, id, y))
  BY <1>1, <1>2 DEF Owned, Linked
<1>4. b[id].next # NoBlock => Linked(b, id, b[id].next)
  BY <1>3 DEF Content
<1>5. b[id].topLevel = (b[id].parent = NoBlock)
  BY <1>1 DEF Shape
<1>6. \A s \in DOMAIN b[id].inputs : Content(b, id, s) = b[id].inputs[s].block
  BY SocketNames DEF Content
<1> QED BY <1>3, <1>4, <1>5, <1>6

LEMMA TableBegins == BuildInit => TableInv
<1> SUFFICES ASSUME NEW p \in Projects, BuildStarts(p) PROVE TableInv
  BY DEF BuildInit
<1>1. project = p /\ blocks = <<>> /\ activations = <<>> /\ turn = 0 /\ progress = "build"
  BY DEF BuildStarts
<1>2. Len(p) \in Nat
  BY ProjectAssumption
<1> DEFINE b == <<>>
           o == [k \in 1 .. 0 |-> <<>>]
<1>3. b \in Seq({}) /\ Len(b) = 0 /\ b = <<>>
  OBVIOUS
<1> HIDE DEF b
<1>4. 1 .. Len(b) = {} /\ 1 .. 0 = {}
  BY <1>3
<1>5. o \in [1 .. Len(b) -> Seq(Trees)]
  BY <1>4
<1> HIDE DEF o
<1>6. TableOK(p, 0, b, o, {}, {})
  BY <1>3, <1>4, <1>5 DEF TableOK, Shape, Unset, Owned, Placed, NextOK, InputsOK, PlainTops
<1>7. BuildOK(p, 0, b, <<>>)
  BY <1>6, NothingGoing
<1>8. BuildOK(project, turn, blocks, activations)
  BY <1>1, <1>3, <1>7
<1> QED BY <1>1, <1>2, <1>8 DEF TableInv

LEMMA HatKeeps == TableInv /\ BeginHat => TableInv'
<1> SUFFICES ASSUME TableInv, BeginHat PROVE TableInv'
  OBVIOUS
<1> DEFINE p == project
           t == turn
           b == blocks
           c == blocks'
           n == Len(b) + 1
           op == p[t + 1].op
           body == p[t + 1].body
<1>1. /\ p \in Projects /\ t \in 0 .. Len(p) /\ t < Len(p) /\ BuildOK(p, t, b, <<>>)
      /\ c = Append(b, Block(op, NoBlock, FALSE, t + 1)) /\ activations' = <<SequenceCall(n, body, "next")>>
      /\ turn' = t + 1 /\ project' = p /\ progress' = "build"
  BY DEF TableInv, BeginHat, New
<1> HIDE DEF p, t, b, c
<1>2. Len(p) \in Nat
  BY <1>1, ProjectAssumption
<1>3. t \in Nat /\ t + 1 \in 1 .. Len(p) /\ t + 1 \in 0 .. Len(p)
  BY <1>1, <1>2
<1>4. body \in Seq(Trees)
  BY <1>1, <1>3, ProjectFacts
<1>5. PICK o : TableOK(p, t, b, o, {}, {})
  BY <1>1, NothingOpen
<1> DEFINE q == Rooted(b, o, n)
           left == {<<n, "next">>}
<1> HIDE DEF body
<1>6. TableOK(p, t + 1, c, q, left, {}) /\ Longer(b, c) /\ Len(c) = n /\ c[n].topLevel /\ c[n].index = t + 1
  <2>1. Heading(p, t, b, o, op, n, c, q, left)
    BY <1>1, <1>3, <1>5 DEF Heading
  <2> HIDE DEF op, n, q, left
  <2> QED BY ONLY <2>1, HatAdded
<1>7. n \in 1 .. Len(c) /\ q[n] = <<>>
  BY <1>6 DEF Longer, Rooted
<1> DEFINE a == <<SequenceCall(n, body, "next")>>
           u == t + 1
<1>8. u = t + 1 /\ TableOK(p, u, c, q, {<<n, "next">>}, {}) /\ p[c[n].index].body = body
  BY <1>6 DEF body
<1> HIDE DEF n, q, left, op, u
<1>9. BuildOK(p, u, c, <<SequenceCall(n, body, "next")>>)
  BY <1>4, <1>6, <1>7, <1>8, Begun
<1> QED BY <1>1, <1>3, <1>8, <1>9 DEF TableInv, c

LEMMA ProcedureKeeps == TableInv /\ BeginProcedure => TableInv'
<1> SUFFICES ASSUME TableInv, BeginProcedure PROVE TableInv'
  OBVIOUS
<1> DEFINE p == project
           t == turn
           b == blocks
           c == blocks'
           n == Len(b) + 1
           body == p[t + 1].body
           ids == p[t + 1].ids
           x == [Block("procedures_definition", NoBlock, FALSE, t + 1) EXCEPT !.inputs = [s \in {"custom_block"} |-> Holding(1, n + 1)]]
           y == [Block("procedures_prototype", n, TRUE, 0) EXCEPT
                   !.inputs = [s \in Range(ids) |-> Holding(1, n + 1 + (CHOOSE i \in DOMAIN ids : ids[i] = s))]]
           r == Block("argument_reporter_string_number", n + 1, TRUE, 0)
<1>1. /\ p \in Projects /\ t \in 0 .. Len(p) /\ t < Len(p) /\ BuildOK(p, t, b, <<>>) /\ p[t + 1].op = "procedures_definition"
      /\ activations' = <<SequenceCall(n, body, "next")>>
      /\ turn' = t + 1 /\ project' = p /\ progress' = "build"
  BY DEF TableInv, BeginProcedure, New
<1>c. c = b \o <<x, y>> \o [i \in 1 .. Len(ids) |-> r]
  BY DEF BeginProcedure, New
<1> HIDE DEF p, t, b, c
<1>2. Len(p) \in Nat
  BY <1>1, ProjectAssumption
<1>3. t \in Nat /\ t + 1 \in 1 .. Len(p) /\ t + 1 \in 0 .. Len(p)
  BY <1>1, <1>2
<1>4. body \in Seq(Trees) /\ ids \in Seq(STRING) /\ IsInjective(ids) /\ "next" \notin Range(ids)
  BY <1>1, <1>3, ProjectFacts
<1>5. PICK o : TableOK(p, t, b, o, {}, {})
  BY <1>1, NothingOpen
<1> DEFINE q == Rooted(b, o, Len(c))
           left == {<<n, "next">>}
<1> HIDE DEF body, ids
<1>6. TableOK(p, t + 1, c, q, left, {}) /\ Longer(b, c) /\ n \in 1 .. Len(c) /\ c[n].topLevel /\ c[n].index = t + 1
  <2>1. Defining(p, t, b, o, ids, n, x, y, r, c, q, left)
    BY <1>1, <1>3, <1>4, <1>5, <1>c DEF Defining
  <2> HIDE DEF n, q, left, x, y, r
  <2> QED BY ONLY <2>1, DefinitionAdded
<1>7. n \in 1 .. Len(c) /\ q[n] = <<>>
  BY <1>6 DEF Longer, Rooted
<1> DEFINE u == t + 1
<1>8. u = t + 1 /\ TableOK(p, u, c, q, {<<n, "next">>}, {}) /\ p[c[n].index].body = body
  BY <1>6 DEF body
<1> HIDE DEF n, q, left, u
<1>9. BuildOK(p, u, c, <<SequenceCall(n, body, "next")>>)
  BY <1>4, <1>6, <1>7, <1>8, Begun
<1> QED BY <1>1, <1>3, <1>8, <1>9 DEF TableInv, c

\* What a step of sequence or ast_block finds, and has to leave.
LEMMA Goes ==
  ASSUME TableInv, NEW call, Going(call)
  PROVE  /\ \E o : Building(project, turn, blocks, o, Callers, Current, activations)
         /\ Current.call = call /\ progress = "build"
BY BuildingStates DEF TableInv, Going, Current, Callers

LEMMA StillBuilt ==
  ASSUME TableInv, progress = "build", UNCHANGED <<project, turn, progress, reading>>, BuildOK(project, turn, blocks', activations')
  PROVE  TableInv'
BY DEF TableInv

LEMMA NextStatementKeeps == TableInv /\ NextStatement => TableInv'
<1> SUFFICES ASSUME TableInv, NextStatement PROVE TableInv'
  OBVIOUS
<1>1. Going("sequence") /\ Current.rest # <<>> /\ UNCHANGED <<project, turn, progress, reading>>
  BY DEF NextStatement
<1> DEFINE d == Callers
           f == Current
           a == activations
           b == blocks
           ast == Head(f.rest)
           parent == ParentOf(f.parent, f.previous)
           n == Len(b) + 1
           c == blocks'
           h == [f EXCEPT !.rest = Tail(@)]
           g == AstCall(n, parent, ast, "next")
           z == activations'
<1>2. c = Append(b, Block(ast.op, parent, Shadow(ast.op), 0)) /\ z = Append(Append(d, h), g)
  BY DEF NextStatement, New
<1>3. PICK o : Building(project, turn, b, o, d, f, a)
  BY <1>1, Goes
<1>4. f.call = "sequence" /\ f.rest # <<>> /\ progress = "build"
  BY <1>1, Goes
<1>5. /\ ast = Head(f.rest) /\ parent = ParentOf(f.parent, f.previous) /\ n = Len(b) + 1
      /\ h = [f EXCEPT !.rest = Tail(@)] /\ g = AstCall(n, parent, ast, "next")
  OBVIOUS
<1> HIDE DEF d, f, a, b, ast, parent, n, c, h, g, z
<1>6. BuildOK(project, turn, c, z)
  BY <1>2, <1>3, <1>4, <1>5, StatementBegun
<1> QED BY <1>1, <1>4, <1>6, StillBuilt DEF c, z

LEMMA NextInputKeeps == TableInv /\ NextInput => TableInv'
<1> SUFFICES ASSUME TableInv, NextInput PROVE TableInv'
  OBVIOUS
<1>1. Going("ast_block") /\ Current.inputs # {} /\ UNCHANGED <<project, turn, progress, reading>>
  BY DEF NextInput
<1> DEFINE d == Callers
           f == Current
           a == activations
           b == blocks
           s == CHOOSE x \in f.inputs : TRUE
           v == FittedInput(f.ast.inputs[s], BooleanSocket(f.ast.op, s))
           e == Wanted(f.ast, s)
           n == Len(b) + 1
           c == blocks'
           h == [f EXCEPT !.inputs = @ \ {s}]
           g == AstCall(n, f.id, v, s)
           z == activations'
<1>2. IF IsLiteral(v)
      THEN c = WithInput(b, f.id, s, [kind |-> 1, block |-> NoBlock, literal |-> v.literal]) /\ z = Append(d, h)
      ELSE c = Append(b, Block(v.op, f.id, Shadow(v.op), 0)) /\ z = Append(Append(d, h), g)
  BY DEF NextInput, New
<1>3. PICK o : Building(project, turn, b, o, d, f, a)
  BY <1>1, Goes
<1>4. f.call = "ast_block" /\ progress = "build" /\ s \in f.inputs
  BY <1>1, Goes
<1>5. e = Wanted(f.ast, s) /\ n = Len(b) + 1 /\ h = [f EXCEPT !.inputs = @ \ {s}] /\ g = AstCall(n, f.id, v, s)
  OBVIOUS
<1> HIDE DEF d, f, a, b, s, v, e, n, c, h, g, z
<1>6. v = e
  <2>1. AstOK(b, o, f) /\ Proper(f.ast)
    BY <1>3, <1>4, SocketFacts
  <2>2. s \in DOMAIN f.ast.inputs
    BY <1>4, <2>1 DEF AstOK
  <2> QED BY <1>5, <2>1, <2>2 DEF Proper, v
<1>7. BuildOK(project, turn, c, z)
  <2>1. CASE IsLiteral(e)
    <3>1. c = WithInput(b, f.id, s, [kind |-> 1, block |-> NoBlock, literal |-> e.literal]) /\ z = Append(d, h)
      BY <1>2, <1>6, <2>1
    <3> QED BY <1>3, <1>4, <1>5, <2>1, <3>1, LiteralSet
  <2>2. CASE ~IsLiteral(e)
    <3>1. c = Append(b, Block(e.op, f.id, Shadow(e.op), 0)) /\ z = Append(Append(d, h), g) /\ g = AstCall(n, f.id, e, s)
      BY <1>2, <1>5, <1>6, <2>2
    <3> QED BY <1>3, <1>4, <1>5, <2>2, <3>1, InputBegun
  <2> QED BY <2>1, <2>2
<1> QED BY <1>1, <1>4, <1>7, StillBuilt DEF c, z

LEMMA NextBranchKeeps == TableInv /\ NextBranch => TableInv'
<1> SUFFICES ASSUME TableInv, NextBranch PROVE TableInv'
  OBVIOUS
<1>1. Going("ast_block") /\ Current.branches # {} /\ UNCHANGED <<project, blocks, turn, progress, reading>>
  BY DEF NextBranch
<1> DEFINE d == Callers
           f == Current
           a == activations
           b == blocks
           s == CHOOSE x \in f.branches : TRUE
           h == [f EXCEPT !.branches = @ \ {s}]
           g == SequenceCall(f.id, f.ast.branches[s], s)
           z == activations'
<1>2. z = Append(Append(d, h), g)
  BY DEF NextBranch
<1>3. PICK o : Building(project, turn, b, o, d, f, a)
  BY <1>1, Goes
<1>4. f.call = "ast_block" /\ progress = "build" /\ s \in f.branches
  BY <1>1, Goes
<1>5. h = [f EXCEPT !.branches = @ \ {s}] /\ g = SequenceCall(f.id, f.ast.branches[s], s)
  OBVIOUS
<1> HIDE DEF d, f, a, b, s, h, g, z
<1>6. BuildOK(project, turn, b, z)
  BY <1>2, <1>3, <1>4, <1>5, BranchBegun
<1> QED BY <1>1, <1>4, <1>6, StillBuilt DEF b, z

LEMMA BlockReturnsKeeps == TableInv /\ BlockReturns => TableInv'
<1> SUFFICES ASSUME TableInv, BlockReturns PROVE TableInv'
  OBVIOUS
<1>1. Going("ast_block") /\ Current.inputs = {} /\ Current.branches = {} /\ UNCHANGED <<project, turn, progress, reading>>
  BY DEF BlockReturns
<1> DEFINE e == Callers
           g == Current
           a == activations
           b == blocks
           d == Front(e)
           f == Last(e)
           c == blocks'
           h == Advanced(f, g.id)
           z == activations'
<1>2. IF f.call = "sequence"
      THEN c = (IF f.previous = NoBlock THEN b ELSE WithNext(b, f.previous, g.id)) /\ z = Append(d, h)
      ELSE c = WithInput(b, f.id, g.into, Holding(Kind(g.ast), g.id)) /\ z = e
  BY DEF BlockReturns, WithNext, Kind, Advanced
<1>3. PICK o : Building(project, turn, b, o, e, g, a)
  BY <1>1, Goes
<1>4. g.call = "ast_block" /\ g.inputs = {} /\ g.branches = {} /\ progress = "build"
  BY <1>1, Goes
<1>5. e # <<>>
  BY <1>3, <1>4 DEF Building, Above
<1> HIDE DEF a, b, c, e, g, z
<1>6. Waiting(project, b, o, d, f, g, e)
  BY <1>3, <1>5, WaitingFrames
<1>7. h = Advanced(f, g.id)
  OBVIOUS
<1> HIDE DEF d, f, h
<1>8. BuildOK(project, turn, c, z)
  <2>1. CASE f.call = "sequence"
    <3>1. c = (IF f.previous = NoBlock THEN b ELSE WithNext(b, f.previous, g.id)) /\ z = Append(d, h)
      BY <1>2, <2>1
    <3>2. BuildOK(project, turn, c, Append(d, h))
      BY ONLY <1>3, <1>4, <1>6, <1>7, <2>1, <3>1, StatementDone
    <3> QED BY <3>1, <3>2
  <2>2. CASE f.call # "sequence"
    <3>1. c = WithInput(b, f.id, g.into, Holding(Kind(g.ast), g.id)) /\ z = e
      BY <1>2, <2>2
    <3>2. f.call = "ast_block"
      BY <1>6, <2>2 DEF Waiting, Above, FrameOK, AstOK, SequenceOK
    <3> QED BY <1>3, <1>4, <1>6, <3>1, <3>2, InputDone
  <2> QED BY <2>1, <2>2
<1> QED BY <1>1, <1>4, <1>8, StillBuilt DEF c, z

LEMMA SequenceReturnsKeeps == TableInv /\ SequenceReturns => TableInv'
<1> SUFFICES ASSUME TableInv, SequenceReturns PROVE TableInv'
  OBVIOUS
<1>1. Going("sequence") /\ Current.rest = <<>> /\ UNCHANGED <<project, turn, progress, reading>>
  BY DEF SequenceReturns
<1> DEFINE d == Callers
           f == Current
           a == activations
           b == blocks
           c == blocks'
           z == activations'
<1>2. /\ c = IF f.first = NoBlock THEN b ELSE IF d = <<>> THEN WithNext(b, f.parent, f.first)
              ELSE WithInput(b, f.parent, f.into, Holding(2, f.first))
      /\ z = d
  BY DEF SequenceReturns, WithNext
<1>3. PICK o : Building(project, turn, b, o, d, f, a)
  BY <1>1, Goes
<1>4. f.call = "sequence" /\ f.rest = <<>> /\ progress = "build"
  BY <1>1, Goes
<1> HIDE DEF a, b, c, d, f, z
<1>5. BuildOK(project, turn, c, z)
  BY <1>2, <1>3, <1>4, ScriptReturned
<1> QED BY <1>1, <1>4, <1>5, StillBuilt DEF c, z

LEMMA SaveKeeps == TableInv /\ Save => TableInv'
<1> SUFFICES ASSUME TableInv, Save PROVE TableInv'
  OBVIOUS
<1>1. /\ progress = "build" /\ activations = <<>> /\ turn = Len(project) /\ progress' = IF Validated(blocks) THEN "saved" ELSE "refused"
      /\ UNCHANGED <<project, blocks, activations, turn, reading>>
  BY DEF Save
<1>2. PICK o : TableOK(project, turn, blocks, o, {}, {})
  <2>1. BuildOK(project, turn, blocks, <<>>)
    BY <1>1 DEF TableInv
  <2> QED BY <2>1, NothingOpen
<1>3. progress' = "saved"
  BY <1>1, <1>2, TableValidated
<1>4. \E q : TableOK(project, turn, blocks, q, {}, {}) /\ ("saved" = "read" => ReadOK(blocks, q, reading))
  BY <1>2
<1> QED BY <1>1, <1>3, <1>4 DEF TableInv

LEMMA ReadTopKeeps == TableInv /\ ReadTop => TableInv'
<1> SUFFICES ASSUME TableInv, ReadTop PROVE TableInv'
  OBVIOUS
<1>1. PICK id \in DOMAIN blocks : blocks[id].topLevel /\ reading' = [at |-> blocks[id].next, script |-> project[blocks[id].index].body]
  BY DEF ReadTop
<1>2. progress = "saved" /\ progress' = "read" /\ UNCHANGED <<project, blocks, activations, turn>>
  BY DEF ReadTop
<1>3. PICK o : TableOK(project, turn, blocks, o, {}, {})
  BY <1>2 DEF TableInv
<1>4. Shape(project, turn, blocks, o) /\ Owned(blocks, {}) /\ NextOK(project, blocks, o, {})
  BY <1>3 DEF TableOK
<1>5. id \in 1 .. Len(blocks) /\ o[id] = <<>>
  BY <1>1, <1>4 DEF Shape
<1>6. Story(project, blocks, o, id) = project[blocks[id].index].body
  BY <1>1, <1>5 DEF Story
<1>7. /\ reading'.at = blocks[id].next /\ reading'.script = Story(project, blocks, o, id)
      /\ blocks[id].next # NoBlock => blocks[id].next \in 1 .. Len(blocks)
  BY <1>1, <1>4, <1>5, <1>6 DEF Owned, Content
<1>8. ReadOK(blocks, o, reading')
  BY <1>4, <1>5, <1>7 DEF ReadOK, NextOK
<1> QED BY <1>2, <1>3, <1>8 DEF TableInv

LEMMA FollowKeeps == TableInv /\ Follow => TableInv'
<1> SUFFICES ASSUME TableInv, Follow PROVE TableInv'
  OBVIOUS
<1> DEFINE id == reading.at
           b == blocks[id]
           e == Head(reading.script)
<1>1. /\ progress = "read" /\ id # NoBlock /\ reading.script # <<>> /\ UNCHANGED <<project, blocks, activations, turn, progress>>
      /\ \/ reading' = [at |-> b.next, script |-> Tail(reading.script)]
         \/ \E s \in Ways(e) \cap DOMAIN b.inputs :
              ~IsLiteral(WayInto(e, s)[1]) /\ reading' = [at |-> b.inputs[s].block, script |-> WayInto(e, s)]
  BY DEF Follow
<1>2. PICK o : TableOK(project, turn, blocks, o, {}, {}) /\ ReadOK(blocks, o, reading)
  BY <1>1 DEF TableInv
<1>3. Shape(project, turn, blocks, o) /\ Owned(blocks, {}) /\ NextOK(project, blocks, o, {}) /\ InputsOK(blocks, o, {})
  BY <1>2 DEF TableOK
<1>4. id \in 1 .. Len(blocks) /\ o[id] = reading.script /\ o[id] # <<>> /\ e = Head(o[id])
  BY <1>1, <1>2 DEF ReadOK
<1> HIDE DEF id, e
<1>5. ReadOK(blocks, o, reading')
  <2>1. CASE reading' = [at |-> b.next, script |-> Tail(reading.script)]
    <3>1. reading'.at = blocks[id].next /\ reading'.script = Story(project, blocks, o, id)
      BY <1>4, <2>1 DEF Story
    <3>2. blocks[id].next # NoBlock => blocks[id].next \in 1 .. Len(blocks)
      BY <1>3, <1>4 DEF Owned, Content
    <3> QED BY <1>3, <1>4, <3>1, <3>2 DEF ReadOK, NextOK
  <2>2. CASE \E s \in Ways(e) \cap DOMAIN b.inputs :
               ~IsLiteral(WayInto(e, s)[1]) /\ reading' = [at |-> b.inputs[s].block, script |-> WayInto(e, s)]
    <3>1. PICK s \in Ways(e) \cap DOMAIN b.inputs :
                 ~IsLiteral(WayInto(e, s)[1]) /\ reading' = [at |-> b.inputs[s].block, script |-> WayInto(e, s)]
      BY <2>2
    <3>2. Filled(blocks, o, id, e, s)
      BY <1>3, <1>4, <3>1 DEF InputsOK
    <3>3. blocks[id].inputs[s].block # NoBlock /\ o[blocks[id].inputs[s].block] = WayInto(e, s)
      BY <3>1, <3>2 DEF Filled
    <3>4. s # "next" /\ WayInto(e, s) # <<>>
      <4>1. e \in Trees
        <5>1. o[id] \in Seq(Trees)
          BY <1>3, <1>4 DEF Shape
        <5> QED BY <1>4, <5>1, HeadTrees
      <4> QED BY <3>1, <4>1, WaysFacts
    <3>5. blocks[id].inputs[s].block \in 1 .. Len(blocks)
      BY <1>3, <1>4, <3>1, <3>3, <3>4 DEF Owned, Content
    <3>6. reading'.at = blocks[id].inputs[s].block /\ reading'.script = WayInto(e, s)
      BY <3>1
    <3> QED BY <3>3, <3>4, <3>5, <3>6 DEF ReadOK
  <2> QED BY <1>1, <2>1, <2>2
<1> QED BY <1>1, <1>2, <1>5 DEF TableInv

LEMMA TableKept == TableInv /\ [BuildStep]_buildVars => TableInv'
<1> SUFFICES ASSUME TableInv, [BuildStep]_buildVars PROVE TableInv'
  OBVIOUS
<1>1. CASE BeginHat
  BY <1>1, HatKeeps
<1>2. CASE BeginProcedure
  BY <1>2, ProcedureKeeps
<1>3. CASE NextStatement
  BY <1>3, NextStatementKeeps
<1>4. CASE NextInput
  BY <1>4, NextInputKeeps
<1>5. CASE NextBranch
  BY <1>5, NextBranchKeeps
<1>6. CASE BlockReturns
  BY <1>6, BlockReturnsKeeps
<1>7. CASE SequenceReturns
  BY <1>7, SequenceReturnsKeeps
<1>8. CASE Save
  BY <1>8, SaveKeeps
<1>9. CASE ReadTop
  BY <1>9, ReadTopKeeps
<1>10. CASE Follow
  BY <1>10, FollowKeeps
<1>11. CASE UNCHANGED buildVars
  <2>1. UNCHANGED <<project, blocks, activations, turn, progress, reading>>
    BY <1>11 DEF buildVars
  <2>2. TableInv' <=> TableInv
    BY <2>1 DEF TableInv
  <2> QED BY <2>2
<1> QED BY <1>1, <1>2, <1>3, <1>4, <1>5, <1>6, <1>7, <1>8, <1>9, <1>10, <1>11 DEF BuildStep

\* A finished table has the one top block of every hat and procedure.
LEMMA TopsFound ==
  ASSUME NEW o, TableOK(project, Len(project), blocks, o, {}, {}), NEW k \in 1 .. Len(project)
  PROVE  \E id \in DOMAIN blocks : /\ {j \in DOMAIN blocks : blocks[j].topLevel /\ blocks[j].index = k} = {id}
                                   /\ blocks[id].op = project[k].op
<1>1. Shape(project, Len(project), blocks, o)
  BY DEF TableOK
<1>2. DOMAIN blocks = 1 .. Len(blocks)
  BY <1>1 DEF Shape
<1>3. PICK id \in 1 .. Len(blocks) : blocks[id].topLevel /\ blocks[id].index = k
  BY <1>1 DEF Shape
<1>4. blocks[id].op = project[k].op
  BY <1>1, <1>3 DEF Shape
<1>5. \A j \in 1 .. Len(blocks) : blocks[j].topLevel /\ blocks[j].index = k => j = id
  BY <1>1, <1>3 DEF Shape
<1> QED BY <1>2, <1>3, <1>4, <1>5

\* The VM finds at a block what its script begins with.
LEMMA ReadRight ==
  ASSUME NEW o, TableOK(project, turn, blocks, o, {}, {}), ReadOK(blocks, o, reading)
  PROVE  /\ reading.at = NoBlock <=> reading.script = <<>>
         /\ reading.at # NoBlock =>
              LET b == blocks[reading.at]
                  e == Head(reading.script)
              IN /\ b.op = e.op /\ DOMAIN b.inputs = Ways(e)
                 /\ \A s \in Ways(e) :
                      LET w == WayInto(e, s)[1]
                      IN IF IsLiteral(w) THEN b.inputs[s] = [kind |-> 1, block |-> NoBlock, literal |-> w.literal]
                         ELSE b.inputs[s].block # NoBlock
<1> DEFINE id == reading.at
           e == Head(reading.script)
<1>1. reading.at = NoBlock <=> reading.script = <<>>
  <2>1. \A i \in 1 .. Len(blocks) : i # NoBlock
    BY ProjectAssumption
  <2> QED BY <2>1 DEF ReadOK
<1>2. ASSUME id # NoBlock
      PROVE  /\ blocks[id].op = e.op /\ DOMAIN blocks[id].inputs = Ways(e)
             /\ \A s \in Ways(e) : Filled(blocks, o, id, e, s)
  <2>1. id \in 1 .. Len(blocks) /\ o[id] # <<>> /\ e = Head(o[id])
    BY <1>2 DEF ReadOK
  <2>2. Shape(project, turn, blocks, o) /\ InputsOK(blocks, o, {})
    BY DEF TableOK
  <2> HIDE DEF id, e
  <2>3. blocks[id].op = e.op
    BY <2>1, <2>2 DEF Shape
  <2>4. /\ DOMAIN blocks[id].inputs = {s \in Ways(e) : <<id, s>> \notin {}}
        /\ \A s \in DOMAIN blocks[id].inputs : Filled(blocks, o, id, e, s)
    BY <2>1, <2>2 DEF InputsOK
  <2> QED BY <2>3, <2>4
<1>3. ASSUME id # NoBlock, NEW s \in Ways(e)
      PROVE  IF IsLiteral(WayInto(e, s)[1])
             THEN blocks[id].inputs[s] = [kind |-> 1, block |-> NoBlock, literal |-> WayInto(e, s)[1].literal]
             ELSE blocks[id].inputs[s].block # NoBlock
  BY <1>2, <1>3 DEF Filled
<1> QED BY <1>1, <1>2, <1>3

LEMMA LeadsTo ==
  ASSUME NEW q, NEW x, NEW id, id # NoBlock
  PROVE  Leads(q, x, id) <=> Content(blocks, q, x) = id
BY DEF Leads, Content

\* A block of a finished table has the one place its parent says.
LEMMA OneByOne ==
  ASSUME NEW t, NEW o, TableOK(project, t, blocks, o, {}, {}), NEW id \in DOMAIN blocks
  PROVE  IF blocks[id].topLevel THEN PlacesOf(id) = {}
         ELSE \E x \in {"next"} \cup DOMAIN blocks[blocks[id].parent].inputs : PlacesOf(id) = {<<blocks[id].parent, x>>}
<1>1. Shape(project, t, blocks, o) /\ Owned(blocks, {}) /\ Placed(blocks, {})
  BY DEF TableOK
<1>2. DOMAIN blocks = 1 .. Len(blocks) /\ Len(blocks) \in Nat
  BY <1>1 DEF Shape
<1>3. id \in 1 .. Len(blocks) /\ id # NoBlock /\ \A i \in 1 .. Len(blocks) : i # NoBlock
  BY <1>2, ProjectAssumption
<1>4. \A q \in 1 .. Len(blocks) : \A x : Leads(q, x, id) =>
        /\ blocks[id].parent = q
        /\ \A y : Leads(q, y, id) => y = x
  <2> TAKE q \in 1 .. Len(blocks)
  <2> TAKE x
  <2>1. HAVE Leads(q, x, id)
  <2>2. Content(blocks, q, x) = id
    BY <1>3, <2>1, LeadsTo
  <2>3. blocks[id].parent = q /\ \A y : Content(blocks, q, y) = id => y = x
    BY <1>1, <1>3, <2>2 DEF Owned
  <2> QED BY <1>3, <2>3, LeadsTo
<1> DEFINE all == {"next"} \cup UNION {DOMAIN blocks[q].inputs : q \in DOMAIN blocks}
<1>5. PlacesOf(id) = {w \in (DOMAIN blocks) \X all : Leads(w[1], w[2], id)}
  BY DEF PlacesOf
<1>6. CASE blocks[id].topLevel
  <2>1. blocks[id].parent = NoBlock
    BY <1>1, <1>3, <1>6 DEF Shape
  <2>2. ASSUME NEW w \in PlacesOf(id) PROVE FALSE
    <3>1. w[1] \in 1 .. Len(blocks) /\ Leads(w[1], w[2], id)
      BY <1>2, <1>5
    <3> QED BY <1>3, <1>4, <2>1, <3>1
  <2> QED BY <1>6, <2>2
<1>7. CASE ~blocks[id].topLevel
  <2> DEFINE q == blocks[id].parent
  <2>1. q \in 1 .. Len(blocks) /\ \E x : Content(blocks, q, x) = id
    BY <1>1, <1>3, <1>7 DEF Placed
  <2>2. PICK x : Content(blocks, q, x) = id
    BY <2>1
  <2>3. x \in {"next"} \cup DOMAIN blocks[q].inputs
    BY <1>3, <2>2 DEF Content
  <2>4. Leads(q, x, id)
    BY <1>3, <2>2, LeadsTo
  <2> HIDE DEF q
  <2>5. <<q, x>> \in PlacesOf(id)
    <3>1. <<q, x>> \in (DOMAIN blocks) \X all
      BY <1>2, <2>1, <2>3
    <3> HIDE DEF all
    <3> QED BY <1>5, <2>4, <3>1
  <2>6. ASSUME NEW w \in PlacesOf(id) PROVE w = <<q, x>>
    <3>1. w \in (DOMAIN blocks) \X all /\ Leads(w[1], w[2], id)
      BY <1>5
    <3>2. w[1] \in 1 .. Len(blocks) /\ w = <<w[1], w[2]>>
      BY <1>2, <3>1
    <3>3. blocks[id].parent = w[1]
      BY <1>4, <3>1, <3>2
    <3>4. w[1] = q
      BY <3>3 DEF q
    <3>5. w[2] = x
      BY <1>4, <2>4, <3>1, <3>2, <3>4
    <3> QED BY <3>2, <3>4, <3>5
  <2>7. PlacesOf(id) = {<<q, x>>}
    BY <2>5, <2>6
  <2> QED BY <1>7, <2>3, <2>7 DEF q
<1> QED BY <1>6, <1>7

\* A Boolean socket of a finished table holds a Boolean block.
LEMMA BooleansFit ==
  ASSUME NEW t, NEW o, TableOK(project, t, blocks, o, {}, {}), NEW id \in DOMAIN blocks, NEW s \in DOMAIN blocks[id].inputs,
         BooleanSocket(blocks[id].op, s)
  PROVE  /\ blocks[id].inputs[s].block # NoBlock /\ blocks[id].inputs[s].kind = 2
         /\ BooleanOpcode(blocks[blocks[id].inputs[s].block].op)
<1>1. Shape(project, t, blocks, o) /\ Owned(blocks, {}) /\ InputsOK(blocks, o, {}) /\ PlainTops(blocks, o)
  BY DEF TableOK
<1>2. id \in 1 .. Len(blocks)
  BY <1>1 DEF Shape
<1>3. o[id] # <<>>
  BY <1>1, <1>2 DEF PlainTops
<1> DEFINE e == Head(o[id])
           w == Wanted(e, s)
           v == blocks[id].inputs[s].block
<1>4. blocks[id].op = e.op /\ s \in Ways(e) /\ Filled(blocks, o, id, e, s)
  BY <1>1, <1>2, <1>3 DEF Shape, InputsOK
<1>5. e \in Trees
  BY <1>1, <1>2, <1>3, HeadTrees DEF Shape
<1> HIDE DEF e
<1>6. Proper(e)
  BY <1>5, TreesProper
<1>7. s \in DOMAIN e.inputs
  BY <1>4, <1>6 DEF Proper, Ways
<1>8. ~IsLiteral(w) /\ BooleanOpcode(w.op)
  BY <1>4, <1>6, <1>7 DEF Proper
<1>9. WayInto(e, s) = <<w>> /\ WayInto(e, s)[1] = w
  BY <1>7 DEF WayInto
<1> HIDE DEF w
<1>10. v # NoBlock /\ o[v] = <<w>> /\ blocks[id].inputs[s].kind = Kind(w)
  BY <1>4, <1>7, <1>8, <1>9 DEF Filled
<1>11. Kind(w) = 2
  BY <1>8 DEF Kind, Shadow, BooleanOpcode
<1>12. v \in 1 .. Len(blocks)
  <2>1. Content(blocks, id, s) = v
    BY <1>2, SocketNames DEF Content
  <2> QED BY <1>1, <1>2, <1>10, <2>1 DEF Owned
<1> HIDE DEF v
<1>13. blocks[v].op = w.op
  <2>1. o[v] # <<>> /\ Head(o[v]) = w
    BY <1>10
  <2> QED BY <1>1, <1>12, <2>1 DEF Shape
<1> QED BY <1>8, <1>10, <1>11, <1>13 DEF v

LEMMA TableReads == TableInv => ReadsBack
<1> SUFFICES ASSUME TableInv PROVE ReadsBack
  OBVIOUS
<1>1. CASE progress = "build"
  BY <1>1 DEF ReadsBack, ScriptsKept, OnePlaceEach
<1>2. CASE progress # "build"
  <2>1. PICK o : TableOK(project, turn, blocks, o, {}, {}) /\ (progress = "read" => ReadOK(blocks, o, reading))
    BY <1>2 DEF TableInv
  <2>2. progress \in {"saved", "read"} /\ turn = Len(project) /\ DOMAIN project = 1 .. Len(project)
    BY <1>2, ProjectAssumption DEF TableInv
  <2>3. \A k \in DOMAIN project :
          \E id \in DOMAIN blocks : /\ {j \in DOMAIN blocks : blocks[j].topLevel /\ blocks[j].index = k} = {id}
                                    /\ blocks[id].op = project[k].op
    BY <2>1, <2>2, TopsFound
  <2>4. ScriptsKept
    BY <2>1, <2>3, ReadRight DEF ScriptsKept
  <2>5. OnePlaceEach
    BY <2>1, <2>2, OneByOne, BooleansFit DEF OnePlaceEach
  <2> QED BY <2>4, <2>5 DEF ReadsBack
<1> QED BY <1>1, <1>2

\* Of every project, the table that Builder saves is the scripts, and nothing but
\* them: it is never refused, every block has the one place its parent says, the
\* Boolean sockets hold Boolean blocks, and the Scratch VM, whichever way it goes,
\* finds the statement or value that stands there (blocks.cpp:203-276).
THEOREM TableReadsBack == BuildSpec => []ReadsBack
<1>1. BuildInit => TableInv
  BY TableBegins
<1>2. TableInv /\ [BuildStep]_buildVars => TableInv'
  BY TableKept
<1>3. TableInv => ReadsBack
  BY TableReads
<1> QED BY <1>1, <1>2, <1>3, PTL DEF BuildSpec
=============================================================================
