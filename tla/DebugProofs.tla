---------------------------- MODULE DebugProofs -----------------------------
(***************************************************************************)
(* The debugger's programs, each by itself: what the terminal takes the    *)
(* program's state to be, how the adapter starts a program, and what LLDB, *)
(* the server and the engine agree on.  Each is about messages under way:  *)
(* the invariants say which may still come, and what they will change.     *)
(***************************************************************************)
EXTENDS DebugSession, Launch, Terminal, WellOrder, SequenceTheorems, TLAPS

-----------------------------------------------------------------------------
(* Queues of messages.                                                     *)

LEMMA Queued ==
  ASSUME NEW S, NEW s \in Seq(S), NEW e \in S
  PROVE  /\ Append(s, e) \in Seq(S) /\ Len(Append(s, e)) = Len(s) + 1 /\ Len(s) \in Nat
         /\ \A i \in 1 .. Len(s) : Append(s, e)[i] = s[i] /\ s[i] \in S
         /\ Append(s, e)[Len(s) + 1] = e /\ Append(s, e) # <<>>
OBVIOUS

LEMMA Dequeued ==
  ASSUME NEW S, NEW s \in Seq(S), s # <<>>
  PROVE  /\ Head(s) = s[1] /\ Head(s) \in S /\ Tail(s) \in Seq(S) /\ Len(s) \in Nat \ {0}
         /\ Len(Tail(s)) = Len(s) - 1
         /\ \A i \in 1 .. Len(s) - 1 : Tail(s)[i] = s[i + 1]
         /\ \A i \in 1 .. Len(s) : s[i] \in S
<1>1. Len(s) \in Nat \ {0}
  BY EmptySeq
<1>2. Head(s) \in S /\ Tail(s) \in Seq(S) /\ Len(Tail(s)) = Len(s) - 1 /\ \A i \in 1 .. Len(Tail(s)) : Tail(s)[i] = s[i + 1]
  BY HeadTailProperties
<1>3. \A i \in 1 .. Len(s) : s[i] \in S
  BY ElementOfSeq
<1>4. Head(s) = s[1]
  OBVIOUS
<1> QED BY <1>1, <1>2, <1>3, <1>4

LEMMA InAppend ==
  ASSUME NEW S, NEW s \in Seq(S), NEW e \in S, NEW x
  PROVE  Contains(Append(s, e), x) <=> Contains(s, x) \/ x = e
<1> DEFINE t == Append(s, e)
<1>1. /\ Len(t) = Len(s) + 1 /\ Len(s) \in Nat /\ t[Len(s) + 1] = e
      /\ \A i \in 1 .. Len(s) : t[i] = s[i]
  BY Queued
<1> HIDE DEF t
<1>2. ASSUME Contains(t, x) PROVE Contains(s, x) \/ x = e
  <2>1. PICK i \in 1 .. Len(t) : t[i] = x
    BY <1>2 DEF Contains
  <2>2. i \in 1 .. Len(s) \/ i = Len(s) + 1
    BY <1>1, <2>1
  <2> QED BY <1>1, <2>1, <2>2 DEF Contains
<1>3. ASSUME Contains(s, x) PROVE Contains(t, x)
  <2>1. PICK i \in 1 .. Len(s) : s[i] = x
    BY <1>3 DEF Contains
  <2>2. i \in 1 .. Len(t) /\ t[i] = x
    BY <1>1, <2>1
  <2> QED BY <2>2 DEF Contains
<1>4. Contains(t, e)
  <2>1. Len(s) + 1 \in 1 .. Len(t)
    BY <1>1
  <2> QED BY <1>1, <2>1 DEF Contains
<1> QED BY <1>2, <1>3, <1>4 DEF t

LEMMA InTail ==
  ASSUME NEW S, NEW s \in Seq(S), s # <<>>, NEW x
  PROVE  Contains(s, x) <=> Contains(Tail(s), x) \/ x = Head(s)
<1> DEFINE t == Tail(s)
<1>1. /\ Head(s) = s[1] /\ Len(t) = Len(s) - 1 /\ Len(s) \in Nat \ {0}
      /\ \A i \in 1 .. Len(s) - 1 : t[i] = s[i + 1]
  BY Dequeued
<1> HIDE DEF t
<1>2. ASSUME Contains(s, x), x # Head(s) PROVE Contains(t, x)
  <2>1. PICK i \in 1 .. Len(s) : s[i] = x
    BY <1>2 DEF Contains
  <2>2. i # 1
    BY <1>1, <1>2, <2>1
  <2>3. i - 1 \in 1 .. Len(s) - 1 /\ (i - 1) + 1 = i
    BY <1>1, <2>1, <2>2
  <2>4. i - 1 \in 1 .. Len(t) /\ t[i - 1] = x
    BY <1>1, <2>1, <2>3
  <2> QED BY <2>4 DEF Contains
<1>3. ASSUME Contains(t, x) PROVE Contains(s, x)
  <2>1. PICK i \in 1 .. Len(t) : t[i] = x
    BY <1>3 DEF Contains
  <2>2. i + 1 \in 1 .. Len(s) /\ s[i + 1] = x
    BY <1>1, <2>1
  <2> QED BY <2>2 DEF Contains
<1>4. Contains(s, Head(s))
  <2>1. 1 \in 1 .. Len(s)
    BY <1>1
  <2> QED BY <1>1, <2>1 DEF Contains
<1> QED BY <1>2, <1>3, <1>4 DEF t

-----------------------------------------------------------------------------
(* The terminal.  While a message of LLDB that changes the state it shows is  *)
(* under way, or a request that will cause one, the two differ; the phases    *)
(* below say in which ways.                                                   *)

Messages == {m \in [type : {"response", "stopped", "continued", "terminated"}, seq : Nat, success : BOOLEAN] :
               m.type = "response" => m.seq # 0}
Commands == [seq : Nat \ {0}, command : Controls]
Outcomes == [seq : Nat \ {0}, success : BOOLEAN]

AnswerTo(r, ok) == [type |-> "response", seq |-> r, success |-> ok]
Outcome(r, ok) == [seq |-> r, success |-> ok]

\* Sequence numbers are given out once.
Numbered(s, n) == \A i \in 1 .. Len(s) : s[i].seq < n

TerminalTypes ==
  /\ state \in {"stopped", "running", "terminated"} /\ target \in {"stopped", "running", "terminated"}
  /\ previous \in {"stopped", "running"} /\ mistaken \in BOOLEAN
  /\ stopSerial \in Nat /\ before \in Nat /\ before <= stopSerial
  /\ commands \in Seq(Controls) /\ toLldb \in Seq(Commands)
  /\ fromLldb \in Seq(Messages) /\ unanswered \in Seq(Outcomes)
  /\ nextSeq \in Nat \ {0} /\ request \in Nat /\ request < nextSeq
  /\ Numbered(toLldb, nextSeq) /\ Numbered(fromLldb, nextSeq) /\ Numbered(unanswered, nextSeq)

OnlyAnswers(f) == \A i \in 1 .. Len(f) : f[i].type = "response"
OnlyPauses(t) == \A i \in 1 .. Len(t) : t[i].command = "pause"
Asked(t, r) == \E i \in 1 .. Len(t) : t[i].seq = r

\* Of the requests not acted on, r alone resumes the program.
WillResume(t, r) ==
  \E k \in 1 .. Len(t) : /\ t[k].seq = r
                         /\ \A i \in 1 .. Len(t) : i # k => t[i].command = "pause" /\ t[i].seq # r

\* The outcome of r is decided, and not yet read.
Decided(f, u, r, ok) == Contains(f, AnswerTo(r, ok)) \/ Contains(u, Outcome(r, ok))

\* The events under way: none ends the run of a program that runs, the last
\* one tells how a program that does not came to stop.
Halts == {"stopped", "terminated"}
RunTold(f) == \A i \in 1 .. Len(f) : f[i].type \notin Halts
HaltTold(f, g) == \E k \in 1 .. Len(f) : /\ f[k].type = g
                                         /\ \A i \in 1 .. k - 1 : f[i].type \notin Halts
                                         /\ \A i \in k + 1 .. Len(f) : f[i].type = "response"

\* Both know that the program stands.
BothStopped ==
  /\ state = "stopped" /\ target = "stopped" /\ OnlyAnswers(fromLldb) /\ OnlyPauses(toLldb)
  /\ request # 0 => previous = "stopped" \/ before # stopSerial

\* The program stands, and is taken to run, for a resumption is under way ...
Resuming ==
  /\ state = "running" /\ target = "stopped" /\ OnlyAnswers(fromLldb)
  /\ request # 0 /\ previous = "stopped" /\ before = stopSerial

\* ... that LLDB has not acted on,
ResumptionSent ==
  /\ Resuming /\ WillResume(toLldb, request)
  /\ \A ok \in BOOLEAN : ~Decided(fromLldb, unanswered, request, ok)

\* or that has failed, which will be told.
ResumptionFailed ==
  /\ Resuming /\ OnlyPauses(toLldb) /\ ~Asked(toLldb, request)
  /\ Decided(fromLldb, unanswered, request, FALSE) /\ ~Decided(fromLldb, unanswered, request, TRUE)

\* The program runs, or its stop or end will be told.
Runs ==
  /\ state = "running" /\ OnlyPauses(toLldb)
  /\ IF target = "running" THEN RunTold(fromLldb) ELSE HaltTold(fromLldb, target)
  /\ request # 0 /\ previous = "stopped" =>
       ~Asked(toLldb, request) /\ ~Decided(fromLldb, unanswered, request, FALSE)

BothTerminated == state = "terminated" /\ target = "terminated"

Phases == BothStopped \/ ResumptionSent \/ ResumptionFailed \/ Runs \/ BothTerminated
TerminalInv == TerminalTypes /\ (mistaken \/ Phases)

LEMMA NumberedQueue ==
  ASSUME NEW S, \A x \in S : x.seq \in Nat, NEW s \in Seq(S), NEW n \in Nat, Numbered(s, n)
  PROVE  /\ Numbered(s, n + 1)
         /\ \A e \in S : e.seq < n => Numbered(Append(s, e), n)
         /\ \A e \in S : e.seq = n => Numbered(Append(s, e), n + 1)
         /\ s # <<>> => Numbered(Tail(s), n) /\ Head(s).seq < n /\ Head(s) \in S
<1>1. \A i \in 1 .. Len(s) : s[i] \in S /\ s[i].seq \in Nat /\ s[i].seq < n
  BY ElementOfSeq DEF Numbered
<1>2. Numbered(s, n + 1)
  BY <1>1 DEF Numbered
<1>3. ASSUME NEW e \in S, NEW m \in Nat, n <= m, e.seq < m PROVE Numbered(Append(s, e), m)
  <2> SUFFICES ASSUME NEW i \in 1 .. Len(Append(s, e)) PROVE Append(s, e)[i].seq < m
    BY DEF Numbered
  <2>1. CASE i \in 1 .. Len(s)
    <3>1. Append(s, e)[i] = s[i]
      BY <2>1, Queued
    <3> QED BY <1>1, <1>3, <2>1, <3>1
  <2>2. CASE i = Len(s) + 1
    <3>1. Append(s, e)[i] = e
      BY <2>2, Queued
    <3> QED BY <1>3, <3>1
  <2>3. Len(Append(s, e)) = Len(s) + 1 /\ Len(s) \in Nat
    BY Queued
  <2>4. i \in 1 .. Len(s) \/ i = Len(s) + 1
    BY <2>3
  <2> QED BY <2>1, <2>2, <2>4
<1>4. ASSUME s # <<>> PROVE Numbered(Tail(s), n) /\ Head(s).seq < n /\ Head(s) \in S
  <2>1. /\ Head(s) = s[1] /\ Head(s) \in S /\ Len(s) \in Nat \ {0} /\ Len(Tail(s)) = Len(s) - 1
        /\ \A i \in 1 .. Len(s) - 1 : Tail(s)[i] = s[i + 1]
    BY <1>4, Dequeued
  <2>2. Numbered(Tail(s), n)
    <3> SUFFICES ASSUME NEW i \in 1 .. Len(Tail(s)) PROVE Tail(s)[i].seq < n
      BY DEF Numbered
    <3>1. i \in 1 .. Len(s) - 1 /\ i + 1 \in 1 .. Len(s)
      BY <2>1
    <3> QED BY <1>1, <2>1, <3>1
  <2>3. 1 \in 1 .. Len(s)
    BY <2>1
  <2> QED BY <1>1, <2>1, <2>2, <2>3
<1>5. \A e \in S : e.seq < n => Numbered(Append(s, e), n)
  BY <1>3
<1>6. ASSUME NEW e \in S, e.seq = n PROVE Numbered(Append(s, e), n + 1)
  <2>1. n + 1 \in Nat /\ n <= n + 1 /\ e.seq < n + 1
    BY <1>6
  <2> QED BY <1>3, <2>1
<1> QED BY <1>2, <1>4, <1>5, <1>6

\* LLDB tells something.
LEMMA MessageSent ==
  ASSUME NEW f \in Seq(Messages), NEW e \in Messages
  PROVE  /\ OnlyAnswers(f) /\ e.type = "response" => OnlyAnswers(Append(f, e))
         /\ RunTold(f) /\ e.type \notin Halts => RunTold(Append(f, e))
         /\ RunTold(f) /\ e.type \in Halts => HaltTold(Append(f, e), e.type)
         /\ \A g : HaltTold(f, g) /\ e.type = "response" => HaltTold(Append(f, e), g)
<1> DEFINE t == Append(f, e)
<1>1. /\ Len(t) = Len(f) + 1 /\ Len(f) \in Nat /\ t[Len(f) + 1] = e
      /\ \A i \in 1 .. Len(f) : t[i] = f[i]
  BY Queued
<1> HIDE DEF t
<1>2. \A i \in 1 .. Len(t) : i \in 1 .. Len(f) \/ i = Len(f) + 1
  BY <1>1
<1>3. OnlyAnswers(f) /\ e.type = "response" => OnlyAnswers(t)
  BY <1>1, <1>2 DEF OnlyAnswers
<1>4. RunTold(f) /\ e.type \notin Halts => RunTold(t)
  BY <1>1, <1>2 DEF RunTold
<1>5. ASSUME RunTold(f), e.type \in Halts PROVE HaltTold(t, e.type)
  <2>1. Len(f) + 1 \in 1 .. Len(t) /\ t[Len(f) + 1].type = e.type
    BY <1>1
  <2>2. \A i \in 1 .. (Len(f) + 1) - 1 : t[i].type \notin Halts
    BY <1>1, <1>5 DEF RunTold
  <2>3. \A i \in (Len(f) + 1) + 1 .. Len(t) : t[i].type = "response"
    BY <1>1
  <2> QED BY <2>1, <2>2, <2>3 DEF HaltTold
<1>6. ASSUME NEW g, HaltTold(f, g), e.type = "response" PROVE HaltTold(t, g)
  <2>1. PICK k \in 1 .. Len(f) : /\ f[k].type = g
                                 /\ \A i \in 1 .. k - 1 : f[i].type \notin Halts
                                 /\ \A i \in k + 1 .. Len(f) : f[i].type = "response"
    BY <1>6 DEF HaltTold
  <2>2. k \in 1 .. Len(t) /\ t[k].type = g
    BY <1>1, <2>1
  <2>3. \A i \in 1 .. k - 1 : t[i].type \notin Halts
    BY <1>1, <2>1
  <2>4. ASSUME NEW i \in k + 1 .. Len(t) PROVE t[i].type = "response"
    <3>1. (i \in k + 1 .. Len(f) /\ i \in 1 .. Len(f)) \/ i = Len(f) + 1
      BY <1>1, <2>1
    <3> QED BY <1>1, <1>6, <2>1, <3>1
  <2> QED BY <2>2, <2>3, <2>4 DEF HaltTold
<1> QED BY <1>3, <1>4, <1>5, <1>6 DEF t

\* The terminal reads something.
LEMMA MessageRead ==
  ASSUME NEW f \in Seq(Messages), f # <<>>
  PROVE  /\ OnlyAnswers(f) => OnlyAnswers(Tail(f)) /\ Head(f).type = "response"
         /\ RunTold(f) => RunTold(Tail(f)) /\ Head(f).type \notin Halts
         /\ \A g \in Halts :
              HaltTold(f, g) => IF Head(f).type \in Halts THEN Head(f).type = g /\ OnlyAnswers(Tail(f))
                                ELSE HaltTold(Tail(f), g)
<1> DEFINE t == Tail(f)  h == Head(f)
<1>1. /\ h = f[1] /\ Len(t) = Len(f) - 1 /\ Len(f) \in Nat \ {0}
      /\ \A i \in 1 .. Len(f) - 1 : t[i] = f[i + 1]
  BY Dequeued
<1> HIDE DEF t, h
<1>2. \A i \in 1 .. Len(t) : i + 1 \in 1 .. Len(f) /\ t[i] = f[i + 1]
  BY <1>1
<1>3. 1 \in 1 .. Len(f)
  BY <1>1
<1>4. OnlyAnswers(f) => OnlyAnswers(t) /\ h.type = "response"
  BY <1>1, <1>2, <1>3 DEF OnlyAnswers
<1>5. RunTold(f) => RunTold(t) /\ h.type \notin Halts
  BY <1>1, <1>2, <1>3 DEF RunTold
<1>6. ASSUME NEW g \in Halts, HaltTold(f, g)
      PROVE  IF h.type \in Halts THEN h.type = g /\ OnlyAnswers(t) ELSE HaltTold(t, g)
  <2>1. PICK k \in 1 .. Len(f) : /\ f[k].type = g
                                 /\ \A i \in 1 .. k - 1 : f[i].type \notin Halts
                                 /\ \A i \in k + 1 .. Len(f) : f[i].type = "response"
    BY <1>6 DEF HaltTold
  <2>2. ASSUME k = 1 PROVE h.type = g /\ OnlyAnswers(t)
    <3>1. \A i \in 1 .. Len(t) : i + 1 \in k + 1 .. Len(f)
      BY <1>1, <2>2
    <3> QED BY <1>1, <1>2, <2>1, <2>2, <3>1 DEF OnlyAnswers
  <2>3. ASSUME k # 1 PROVE h.type \notin Halts /\ HaltTold(t, g)
    <3>1. 1 \in 1 .. k - 1
      BY <1>1, <2>1, <2>3
    <3>2. k - 1 \in 1 .. Len(t) /\ (k - 1) + 1 = k
      BY <1>1, <2>1, <2>3
    <3>3. t[k - 1].type = g
      BY <1>2, <2>1, <3>2
    <3>4. \A i \in 1 .. (k - 1) - 1 : i \in 1 .. Len(t) /\ i + 1 \in 1 .. k - 1
      BY <1>1, <2>1
    <3>5. \A i \in (k - 1) + 1 .. Len(t) : i \in 1 .. Len(t) /\ i + 1 \in k + 1 .. Len(f)
      BY <1>1, <2>1
    <3>6. \A i \in 1 .. (k - 1) - 1 : t[i].type \notin Halts
      BY <1>2, <2>1, <3>4
    <3>7. \A i \in (k - 1) + 1 .. Len(t) : t[i].type = "response"
      BY <1>2, <2>1, <3>5
    <3>8. HaltTold(t, g)
      BY <3>2, <3>3, <3>6, <3>7 DEF HaltTold
    <3> QED BY <1>1, <2>1, <3>1, <3>8
  <2> QED BY <1>6, <2>2, <2>3
<1> QED BY <1>4, <1>5, <1>6 DEF t, h

\* The terminal sends a command, LLDB acts on one.
LEMMA CommandSent ==
  ASSUME NEW t \in Seq(Commands), NEW e \in Commands
  PROVE  /\ OnlyPauses(t) /\ e.command = "pause" => OnlyPauses(Append(t, e))
         /\ \A r : ~Asked(t, r) /\ e.seq # r => ~Asked(Append(t, e), r)
         /\ OnlyPauses(t) /\ ~Asked(t, e.seq) => WillResume(Append(t, e), e.seq)
<1> DEFINE q == Append(t, e)
<1>1. /\ Len(q) = Len(t) + 1 /\ Len(t) \in Nat /\ q[Len(t) + 1] = e
      /\ \A i \in 1 .. Len(t) : q[i] = t[i]
  BY Queued
<1> HIDE DEF q
<1>2. \A i \in 1 .. Len(q) : i \in 1 .. Len(t) \/ i = Len(t) + 1
  BY <1>1
<1>3. OnlyPauses(t) /\ e.command = "pause" => OnlyPauses(q)
  BY <1>1, <1>2 DEF OnlyPauses
<1>4. \A r : ~Asked(t, r) /\ e.seq # r => ~Asked(q, r)
  BY <1>1, <1>2 DEF Asked
<1>5. ASSUME OnlyPauses(t), ~Asked(t, e.seq) PROVE WillResume(q, e.seq)
  <2>1. Len(t) + 1 \in 1 .. Len(q) /\ q[Len(t) + 1].seq = e.seq
    BY <1>1
  <2>2. \A i \in 1 .. Len(q) : i # Len(t) + 1 => q[i].command = "pause" /\ q[i].seq # e.seq
    BY <1>1, <1>2, <1>5 DEF OnlyPauses, Asked
  <2> QED BY <2>1, <2>2 DEF WillResume
<1> QED BY <1>3, <1>4, <1>5 DEF q

LEMMA CommandTaken ==
  ASSUME NEW t \in Seq(Commands), t # <<>>
  PROVE  /\ OnlyPauses(t) => OnlyPauses(Tail(t)) /\ Head(t).command = "pause"
         /\ \A r : ~Asked(t, r) => ~Asked(Tail(t), r) /\ Head(t).seq # r
         /\ \A r : WillResume(t, r) =>
              IF Head(t).seq = r THEN OnlyPauses(Tail(t)) /\ ~Asked(Tail(t), r)
              ELSE Head(t).command = "pause" /\ WillResume(Tail(t), r)
<1> DEFINE q == Tail(t)  h == Head(t)
<1>1. /\ h = t[1] /\ Len(q) = Len(t) - 1 /\ Len(t) \in Nat \ {0}
      /\ \A i \in 1 .. Len(t) - 1 : q[i] = t[i + 1]
  BY Dequeued
<1> HIDE DEF q, h
<1>2. \A i \in 1 .. Len(q) : i + 1 \in 1 .. Len(t) /\ q[i] = t[i + 1]
  BY <1>1
<1>3. 1 \in 1 .. Len(t)
  BY <1>1
<1>4. OnlyPauses(t) => OnlyPauses(q) /\ h.command = "pause"
  BY <1>1, <1>2, <1>3 DEF OnlyPauses
<1>5. \A r : ~Asked(t, r) => ~Asked(q, r) /\ h.seq # r
  BY <1>1, <1>2, <1>3 DEF Asked
<1>6. ASSUME NEW r, WillResume(t, r)
      PROVE  IF h.seq = r THEN OnlyPauses(q) /\ ~Asked(q, r) ELSE h.command = "pause" /\ WillResume(q, r)
  <2>1. PICK k \in 1 .. Len(t) : /\ t[k].seq = r
                                 /\ \A i \in 1 .. Len(t) : i # k => t[i].command = "pause" /\ t[i].seq # r
    BY <1>6 DEF WillResume
  <2>2. ASSUME k = 1 PROVE h.seq = r /\ OnlyPauses(q) /\ ~Asked(q, r)
    <3>1. \A i \in 1 .. Len(q) : i + 1 # k
      BY <1>1, <2>2
    <3> QED BY <1>1, <1>2, <2>1, <2>2, <3>1 DEF OnlyPauses, Asked
  <2>3. ASSUME k # 1 PROVE h.seq # r /\ h.command = "pause" /\ WillResume(q, r)
    <3>1. k - 1 \in 1 .. Len(q) /\ (k - 1) + 1 = k
      BY <1>1, <2>1, <2>3
    <3>2. \A i \in 1 .. Len(q) : i # k - 1 => i + 1 # k
      BY <1>1, <2>1
    <3>3. \A i \in 1 .. Len(q) : i # k - 1 => q[i].command = "pause" /\ q[i].seq # r
      BY <1>2, <2>1, <3>2
    <3>4. q[k - 1].seq = r
      BY <1>2, <2>1, <3>1
    <3>5. WillResume(q, r)
      BY <3>1, <3>3, <3>4 DEF WillResume
    <3> QED BY <1>1, <1>3, <2>1, <2>3, <3>5
  <2> QED BY <2>2, <2>3
<1> QED BY <1>4, <1>5, <1>6 DEF q, h

\* What becomes of the outcomes of the requests.
LEMMA OutcomeQueues ==
  ASSUME NEW f \in Seq(Messages), NEW u \in Seq(Outcomes), NEW r, NEW ok
  PROVE  /\ \A e \in Outcomes : Decided(f, Append(u, e), r, ok) <=> Decided(f, u, r, ok) \/ e = Outcome(r, ok)
         /\ \A e \in Messages : Decided(Append(f, e), u, r, ok) <=> Decided(f, u, r, ok) \/ e = AnswerTo(r, ok)
         /\ f # <<>> => (Decided(f, u, r, ok) <=> Decided(Tail(f), u, r, ok) \/ Head(f) = AnswerTo(r, ok))
         /\ u # <<>> => (Decided(f, u, r, ok) <=> Decided(f, Tail(u), r, ok) \/ Head(u) = Outcome(r, ok))
<1>1. \A e \in Outcomes : Contains(Append(u, e), Outcome(r, ok)) <=> Contains(u, Outcome(r, ok)) \/ Outcome(r, ok) = e
  BY InAppend
<1>2. \A e \in Messages : Contains(Append(f, e), AnswerTo(r, ok)) <=> Contains(f, AnswerTo(r, ok)) \/ AnswerTo(r, ok) = e
  BY InAppend
<1>3. f # <<>> => (Contains(f, AnswerTo(r, ok)) <=> Contains(Tail(f), AnswerTo(r, ok)) \/ AnswerTo(r, ok) = Head(f))
  BY InTail
<1>4. u # <<>> => (Contains(u, Outcome(r, ok)) <=> Contains(Tail(u), Outcome(r, ok)) \/ Outcome(r, ok) = Head(u))
  BY InTail
<1> QED BY <1>1, <1>2, <1>3, <1>4 DEF Decided

LEMMA OutcomesNumbered ==
  ASSUME NEW f \in Seq(Messages), NEW u \in Seq(Outcomes), NEW n \in Nat, Numbered(f, n), Numbered(u, n), NEW ok
  PROVE  ~Decided(f, u, n, ok)
<1>1. \A i \in 1 .. Len(f) : f[i].seq # n
  <2>1. \A i \in 1 .. Len(f) : f[i] \in Messages /\ f[i].seq < n
    BY ElementOfSeq DEF Numbered
  <2> QED BY <2>1 DEF Messages
<1>2. \A i \in 1 .. Len(u) : u[i].seq # n
  <2>1. \A i \in 1 .. Len(u) : u[i] \in Outcomes /\ u[i].seq < n
    BY ElementOfSeq DEF Numbered
  <2> QED BY <2>1 DEF Outcomes
<1>3. AnswerTo(n, ok).seq = n /\ Outcome(n, ok).seq = n
  BY DEF AnswerTo, Outcome
<1> QED BY <1>1, <1>2, <1>3 DEF Decided, Contains

LEMMA CommandsNumbered ==
  ASSUME NEW t \in Seq(Commands), NEW n \in Nat, Numbered(t, n)
  PROVE  ~Asked(t, n)
<1>1. \A i \in 1 .. Len(t) : t[i] \in Commands /\ t[i].seq < n
  BY ElementOfSeq DEF Numbered
<1> QED BY <1>1 DEF Asked, Commands

LEMMA RecordsNumbered ==
  /\ \A x \in Messages : x.seq \in Nat
  /\ \A x \in Commands : x.seq \in Nat /\ x.seq # 0
  /\ \A x \in Outcomes : x.seq \in Nat /\ x.seq # 0
BY DEF Messages, Commands, Outcomes

LEMMA TerminalTypesInit == TerminalInit => TerminalTypes
<1> SUFFICES ASSUME TerminalInit PROVE TerminalTypes
  OBVIOUS
<1>1. <<>> \in Seq(Controls) /\ <<>> \in Seq(Commands) /\ <<>> \in Seq(Messages) /\ <<>> \in Seq(Outcomes)
  OBVIOUS
<1>2. Numbered(<<>>, 1)
  BY DEF Numbered
<1>3. mistaken \in BOOLEAN
  BY DEF TerminalInit
<1>4. /\ commands \in Seq(Controls) /\ toLldb \in Seq(Commands)
      /\ fromLldb \in Seq(Messages) /\ unanswered \in Seq(Outcomes)
  BY <1>1 DEF TerminalInit
<1>5. nextSeq = 1 /\ Numbered(toLldb, 1) /\ Numbered(fromLldb, 1) /\ Numbered(unanswered, 1)
  BY <1>2 DEF TerminalInit
<1> QED BY <1>3, <1>4, <1>5 DEF TerminalInit, TerminalTypes

LEMMA TerminalTypesNext == TerminalTypes /\ [TerminalNext]_terminalVars => TerminalTypes'
<1> SUFFICES ASSUME TerminalTypes, [TerminalNext]_terminalVars PROVE TerminalTypes'
  OBVIOUS
<1> USE DEF TerminalTypes
<1>1. ASSUME NEW c \in Controls, Submit(c) PROVE TerminalTypes'
  <2>1. commands' \in Seq(Controls)
    BY <1>1, Queued DEF Submit
  <2> QED BY <1>1, <2>1 DEF Submit, executeVars
<1>2. CASE ExecuteCommand
  <2>1. commands' \in Seq(Controls) /\ Head(commands) \in Controls
    BY <1>2, Dequeued DEF ExecuteCommand
  <2>2. CASE Refused(Head(commands))
    BY <1>2, <2>1, <2>2 DEF ExecuteCommand, executeVars, countVars
  <2>3. CASE ~Refused(Head(commands))
    <3> DEFINE r == [seq |-> nextSeq, command |-> Head(commands)]
    <3>1. r \in Commands /\ r.seq = nextSeq /\ toLldb' = Append(toLldb, r)
      BY <1>2, <2>1, <2>3 DEF Commands, ExecuteCommand
    <3> HIDE DEF r
    <3>2. toLldb' \in Seq(Commands)
      BY <3>1, Queued
    <3>3. Numbered(toLldb', nextSeq + 1)
      BY <3>1, NumberedQueue, RecordsNumbered
    <3>4. Numbered(fromLldb, nextSeq + 1) /\ Numbered(unanswered, nextSeq + 1)
      BY NumberedQueue, RecordsNumbered
    <3>5. /\ before' = stopSerial /\ previous' = state /\ state' = StateWhileRequested(Head(commands))
          /\ request' = nextSeq /\ nextSeq' = nextSeq + 1 /\ state # "terminated"
          /\ UNCHANGED <<stopSerial, fromLldb, target, unanswered, countVars>>
      BY <1>2, <2>3 DEF ExecuteCommand
    <3>6. state' \in {"stopped", "running", "terminated"} /\ previous' \in {"stopped", "running"}
      BY <3>5 DEF StateWhileRequested
    <3> QED BY <2>1, <3>2, <3>3, <3>4, <3>5, <3>6 DEF countVars
  <2> QED BY <2>2, <2>3
<1>3. CASE Receive
  <2>1. /\ fromLldb # <<>> /\ fromLldb' = Tail(fromLldb)
        /\ UNCHANGED <<commands, previous, before, nextSeq, toLldb, target, unanswered, countVars>>
    BY <1>3 DEF Receive
  <2>2. fromLldb' \in Seq(Messages) /\ Numbered(fromLldb', nextSeq)
    BY <2>1, Dequeued, NumberedQueue, RecordsNumbered
  <2>3. request' \in {request, 0} /\ state' \in {"stopped", "running", "terminated"}
        /\ stopSerial' \in {stopSerial, stopSerial + 1}
    BY <1>3 DEF Receive, RequestSettled, StateAfterFailure
  <2> QED BY <2>1, <2>2, <2>3 DEF countVars
<1>4. CASE Expires
  <2>1. request' = 0 /\ state' \in {"stopped", "running", "terminated"} /\ mistaken' \in BOOLEAN
    BY <1>4 DEF Expires, RequestSettled, StateAfterFailure
  <2> QED BY <1>4, <2>1 DEF Expires
<1>5. CASE Acts
  <2>1. toLldb # <<>> /\ toLldb' = Tail(toLldb) /\ UNCHANGED <<state, stopSerial, commands, executeVars, countVars>>
    BY <1>5 DEF Acts
  <2>2. toLldb' \in Seq(Commands) /\ Numbered(toLldb', nextSeq) /\ Head(toLldb).seq < nextSeq /\ Head(toLldb).seq \in Nat \ {0}
    <3>1. Head(toLldb) \in Commands /\ Tail(toLldb) \in Seq(Commands)
      BY <2>1, Dequeued
    <3>2. Numbered(Tail(toLldb), nextSeq) /\ Head(toLldb).seq < nextSeq
      BY <2>1, NumberedQueue, RecordsNumbered
    <3> QED BY <2>1, <3>1, <3>2, RecordsNumbered
  <2>3. \E ok \in BOOLEAN : unanswered' = Append(unanswered, Outcome(Head(toLldb).seq, ok))
    BY <1>5 DEF Acts, Outcome
  <2>4. PICK ok \in BOOLEAN : unanswered' = Append(unanswered, Outcome(Head(toLldb).seq, ok))
    BY <2>3
  <2> DEFINE o == Outcome(Head(toLldb).seq, ok)
  <2>5. o \in Outcomes /\ o.seq < nextSeq /\ unanswered' = Append(unanswered, o)
    BY <2>2, <2>4 DEF Outcome, Outcomes
  <2> HIDE DEF o
  <2>6. unanswered' \in Seq(Outcomes) /\ Numbered(unanswered', nextSeq)
    BY <2>5, Queued, NumberedQueue, RecordsNumbered
  <2>7. target' \in {"stopped", "running", "terminated"}
    BY <1>5 DEF Acts
  <2>8. fromLldb' = fromLldb \/ Tell("continued") \/ Tell("stopped")
    BY <1>5 DEF Acts
  <2>9. fromLldb' \in Seq(Messages) /\ Numbered(fromLldb', nextSeq)
    <3>1. ASSUME NEW type \in {"continued", "stopped"}, Tell(type) PROVE fromLldb' \in Seq(Messages) /\ Numbered(fromLldb', nextSeq)
      <4> DEFINE e == [type |-> type, seq |-> 0, success |-> TRUE]
      <4>1. e \in Messages /\ e.seq < nextSeq /\ fromLldb' = Append(fromLldb, e)
        BY <3>1 DEF Messages, Tell
      <4> HIDE DEF e
      <4> QED BY <4>1, Queued, NumberedQueue, RecordsNumbered
    <3> QED BY <2>8, <3>1
  <2> QED BY <2>1, <2>2, <2>6, <2>7, <2>9 DEF executeVars, countVars
<1>6. CASE Answers
  <2> DEFINE e == AnswerTo(Head(unanswered).seq, Head(unanswered).success)
  <2>1. /\ unanswered # <<>> /\ unanswered' = Tail(unanswered) /\ fromLldb' = Append(fromLldb, e)
        /\ UNCHANGED <<state, stopSerial, commands, executeVars, toLldb, target, countVars>>
    BY <1>6 DEF Answers, AnswerTo
  <2>2. Head(unanswered) \in Outcomes /\ Head(unanswered).seq < nextSeq
        /\ unanswered' \in Seq(Outcomes) /\ Numbered(unanswered', nextSeq)
    BY <2>1, Dequeued, NumberedQueue, RecordsNumbered
  <2>3. e \in Messages /\ e.seq < nextSeq
    BY <2>2 DEF AnswerTo, Messages, Outcomes
  <2> HIDE DEF e
  <2>4. fromLldb' \in Seq(Messages) /\ Numbered(fromLldb', nextSeq)
    BY <2>1, <2>3, Queued, NumberedQueue, RecordsNumbered
  <2> QED BY <2>1, <2>2, <2>4 DEF executeVars, countVars
<1>7. CASE ProgramStops
  <2>1. PICK stop \in {"stopped", "terminated"} : target' = stop /\ Tell(stop)
    BY <1>7 DEF ProgramStops
  <2> DEFINE e == [type |-> stop, seq |-> 0, success |-> TRUE]
  <2>2. e \in Messages /\ e.seq < nextSeq /\ fromLldb' = Append(fromLldb, e)
    BY <2>1 DEF Messages, Tell
  <2> HIDE DEF e
  <2>3. fromLldb' \in Seq(Messages) /\ Numbered(fromLldb', nextSeq)
    BY <2>2, Queued, NumberedQueue, RecordsNumbered
  <2> QED BY <1>7, <2>1, <2>3 DEF ProgramStops, executeVars, countVars
<1>8. CASE UNCHANGED terminalVars
  BY <1>8 DEF terminalVars, executeVars, countVars
<1> QED BY <1>1, <1>2, <1>3, <1>4, <1>5, <1>6, <1>7, <1>8 DEF TerminalNext

-----------------------------------------------------------------------------
LEMMA PhasesInit == TerminalInit => BothStopped
BY DEF TerminalInit, BothStopped, OnlyAnswers, OnlyPauses

LEMMA NextCommand ==
  TerminalTypes /\ Phases /\ ExecuteCommand => Phases'
<1> SUFFICES ASSUME TerminalTypes, Phases, ExecuteCommand PROVE Phases'
  OBVIOUS
<1> DEFINE c == Head(commands)
<1>1. /\ commands # <<>> /\ request = 0 /\ state # "terminated" /\ state \in {"stopped", "running", "terminated"}
      /\ commands' = Tail(commands) /\ c \in Controls
      /\ UNCHANGED <<stopSerial, fromLldb, target, unanswered>>
  BY Dequeued DEF ExecuteCommand, TerminalTypes
<1>2. CASE Refused(c)
  <2>1. UNCHANGED <<state, request, previous, before, toLldb>>
    BY <1>2 DEF ExecuteCommand, executeVars
  <2> QED BY <1>1, <2>1 DEF Phases, BothStopped, ResumptionSent, ResumptionFailed, Resuming, Runs, BothTerminated
<1>3. CASE ~Refused(c)
  <2> DEFINE r == [seq |-> nextSeq, command |-> c]
  <2>1. /\ before' = stopSerial /\ previous' = state /\ state' = StateWhileRequested(c)
        /\ toLldb' = Append(toLldb, r) /\ request' = nextSeq /\ nextSeq \in Nat /\ nextSeq # 0
    BY <1>3 DEF ExecuteCommand, TerminalTypes
  <2>2. r \in Commands /\ r.seq = nextSeq /\ r.command = c
    BY <1>1, <2>1 DEF Commands
  <2> HIDE DEF r
  <2>3. /\ ~Asked(toLldb, nextSeq)
        /\ \A ok \in BOOLEAN : ~Decided(fromLldb, unanswered, nextSeq, ok)
    BY CommandsNumbered, OutcomesNumbered, <2>1 DEF TerminalTypes
  <2>4. CASE BothStopped
    <3>1. c # "pause" /\ state' = "running" /\ previous' = "stopped" /\ target' = "stopped"
      BY <1>1, <1>3, <2>1, <2>4 DEF BothStopped, Refused, StateWhileRequested
    <3>2. OnlyAnswers(fromLldb') /\ OnlyPauses(toLldb)
      BY <1>1, <2>4 DEF BothStopped
    <3>3. WillResume(toLldb', request')
      BY <2>1, <2>2, <2>3, <3>2, CommandSent DEF TerminalTypes
    <3>4. \A ok \in BOOLEAN : ~Decided(fromLldb', unanswered', request', ok)
      BY <1>1, <2>1, <2>3
    <3>5. before' = stopSerial' /\ request' # 0
      BY <1>1, <2>1
    <3> QED BY <3>1, <3>2, <3>3, <3>4, <3>5 DEF Phases, ResumptionSent, Resuming
  <2>5. CASE Runs
    <3>1. c = "pause" /\ state' = "running" /\ previous' = "running"
      BY <1>1, <1>3, <2>1, <2>5 DEF Runs, Refused, StateWhileRequested
    <3>2. OnlyPauses(toLldb')
      BY <2>1, <2>2, <2>5, <3>1, CommandSent DEF Runs, TerminalTypes
    <3> QED BY <1>1, <2>5, <3>1, <3>2 DEF Phases, Runs
  <2>6. BothStopped \/ Runs
    BY <1>1 DEF Phases, ResumptionSent, ResumptionFailed, Resuming, BothTerminated
  <2> QED BY <2>4, <2>5, <2>6
<1> QED BY <1>2, <1>3

LEMMA MessageReceived ==
  TerminalTypes /\ Phases /\ Receive => Phases'
<1> SUFFICES ASSUME TerminalTypes, Phases, Receive PROVE Phases'
  OBVIOUS
<1> DEFINE m == Head(fromLldb)
<1>1. /\ fromLldb # <<>> /\ fromLldb' = Tail(fromLldb) /\ m \in Messages /\ fromLldb \in Seq(Messages)
      /\ state # "terminated" /\ UNCHANGED <<previous, before, toLldb, target, unanswered>>
      /\ unanswered \in Seq(Outcomes) /\ stopSerial \in Nat /\ before \in Nat /\ before <= stopSerial
      /\ target \in {"stopped", "running", "terminated"} /\ previous \in {"stopped", "running"}
  BY Dequeued DEF Receive, TerminalTypes
<1>2. /\ m.type = "response" => UNCHANGED stopSerial
                                /\ IF m.seq = request THEN RequestSettled(m.success) ELSE UNCHANGED <<request, state>>
      /\ m.type = "stopped" => state' = "stopped" /\ stopSerial' = stopSerial + 1 /\ request' = request
      /\ m.type = "continued" => state' = "running" /\ UNCHANGED <<request, stopSerial>>
      /\ m.type = "terminated" => state' = "terminated" /\ UNCHANGED <<request, stopSerial>>
  BY DEF Receive
<1>3. \A r, ok : Decided(fromLldb, unanswered, r, ok) <=> Decided(fromLldb', unanswered', r, ok) \/ m = AnswerTo(r, ok)
  BY <1>1, OutcomeQueues
<1>4. m.type = "response" => m = AnswerTo(m.seq, m.success) /\ m.success \in BOOLEAN /\ m.seq # 0
  BY <1>1 DEF Messages, AnswerTo
<1>5. m.type \in {"response", "stopped", "continued", "terminated"}
  BY <1>1 DEF Messages
<1>6. /\ OnlyAnswers(fromLldb) => OnlyAnswers(fromLldb') /\ m.type = "response"
      /\ RunTold(fromLldb) => RunTold(fromLldb') /\ m.type \notin Halts
      /\ \A g \in Halts : HaltTold(fromLldb, g) => IF m.type \in Halts THEN m.type = g /\ OnlyAnswers(fromLldb')
                                                   ELSE HaltTold(fromLldb', g)
  BY <1>1, MessageRead
<1> HIDE DEF m
<1>7. CASE BothStopped
  <2>1. m.type = "response" /\ OnlyAnswers(fromLldb') /\ state = "stopped" /\ target' = "stopped" /\ OnlyPauses(toLldb')
    BY <1>1, <1>6, <1>7 DEF BothStopped
  <2>2. state' = "stopped" /\ request' \in {0, request}
    BY <1>1, <1>2, <1>4, <1>7, <2>1 DEF BothStopped, RequestSettled, StateAfterFailure
  <2>3. request' # 0 => previous' = "stopped" \/ before' # stopSerial'
    BY <1>1, <1>2, <1>7, <2>1, <2>2 DEF BothStopped
  <2> QED BY <2>1, <2>2, <2>3 DEF Phases, BothStopped
<1>8. CASE ResumptionSent
  <2>1. m.type = "response" /\ OnlyAnswers(fromLldb')
    BY <1>6, <1>8 DEF ResumptionSent, Resuming
  <2>2. m.seq # request
    BY <1>3, <1>4, <1>8, <2>1 DEF ResumptionSent
  <2>3. UNCHANGED <<request, state, stopSerial>>
    BY <1>2, <2>1, <2>2
  <2>4. \A ok \in BOOLEAN : ~Decided(fromLldb', unanswered', request', ok)
    BY <1>3, <1>8, <2>3 DEF ResumptionSent
  <2> QED BY <1>1, <1>8, <2>1, <2>3, <2>4 DEF Phases, ResumptionSent, Resuming
<1>9. CASE ResumptionFailed
  <2>1. m.type = "response" /\ OnlyAnswers(fromLldb') /\ UNCHANGED stopSerial
    BY <1>2, <1>6, <1>9 DEF ResumptionFailed, Resuming
  <2>2. CASE m.seq = request
    <3>1. m.success = FALSE
      BY <1>3, <1>4, <1>9, <2>1, <2>2 DEF ResumptionFailed
    <3>2. request' = 0 /\ state' = "stopped"
      BY <1>2, <1>9, <2>1, <2>2, <3>1 DEF ResumptionFailed, Resuming, RequestSettled, StateAfterFailure
    <3> QED BY <1>1, <1>9, <2>1, <3>2 DEF Phases, ResumptionFailed, Resuming, BothStopped
  <2>3. CASE m.seq # request
    <3>1. UNCHANGED <<request, state>>
      BY <1>2, <2>1, <2>3
    <3>2. \A ok : m # AnswerTo(request, ok)
      BY <2>3 DEF AnswerTo
    <3>3. Decided(fromLldb', unanswered', request', FALSE) /\ ~Decided(fromLldb', unanswered', request', TRUE)
      BY <1>3, <1>9, <3>1, <3>2 DEF ResumptionFailed
    <3> QED BY <1>1, <1>9, <2>1, <3>1, <3>3 DEF Phases, ResumptionFailed, Resuming
  <2> QED BY <2>2, <2>3
<1>10. CASE Runs
  <2>1. CASE m.type = "response"
    <3>1. state' = "running" /\ request' \in {0, request}
      <4>1. CASE m.seq # request
        BY <1>2, <1>10, <2>1, <4>1 DEF Runs
      <4>2. CASE m.seq = request /\ m.success = TRUE
        BY <1>2, <1>10, <2>1, <4>2 DEF Runs, RequestSettled
      <4>3. CASE m.seq = request /\ m.success = FALSE
        <5>1. m = AnswerTo(request, FALSE)
          BY <1>4, <2>1, <4>3
        <5>2. request # 0 => previous = "running"
          BY <1>1, <1>3, <1>10, <5>1 DEF Runs
        <5>3. request # 0
          BY <1>4, <2>1, <4>3
        <5> QED BY <1>2, <1>10, <2>1, <4>3, <5>2, <5>3 DEF Runs, RequestSettled, StateAfterFailure
      <4> QED BY <1>4, <2>1, <4>1, <4>2, <4>3
    <3>2. IF target' = "running" THEN RunTold(fromLldb') ELSE HaltTold(fromLldb', target')
      BY <1>1, <1>6, <1>10, <2>1 DEF Runs, Halts
    <3>3. request' # 0 /\ previous' = "stopped" => ~Asked(toLldb', request') /\ ~Decided(fromLldb', unanswered', request', FALSE)
      BY <1>1, <1>3, <1>10, <3>1 DEF Runs
    <3> QED BY <1>1, <1>10, <3>1, <3>2, <3>3 DEF Phases, Runs
  <2>2. CASE m.type = "continued"
    <3>1. state' = "running" /\ request' = request
      BY <1>2, <2>2
    <3>2. IF target' = "running" THEN RunTold(fromLldb') ELSE HaltTold(fromLldb', target')
      BY <1>1, <1>6, <1>10, <2>2 DEF Runs, Halts
    <3>3. request' # 0 /\ previous' = "stopped" => ~Asked(toLldb', request') /\ ~Decided(fromLldb', unanswered', request', FALSE)
      BY <1>1, <1>3, <1>10, <3>1 DEF Runs
    <3> QED BY <1>1, <1>10, <3>1, <3>2, <3>3 DEF Phases, Runs
  <2>3. CASE m.type \in Halts
    <3>1. target # "running" /\ m.type = target /\ OnlyAnswers(fromLldb')
      BY <1>1, <1>6, <1>10, <2>3 DEF Runs, Halts
    <3>2. CASE m.type = "stopped"
      BY <1>1, <1>2, <1>10, <3>1, <3>2 DEF Phases, BothStopped, Runs
    <3>3. CASE m.type = "terminated"
      BY <1>1, <1>2, <3>1, <3>3 DEF Phases, BothTerminated
    <3> QED BY <2>3, <3>2, <3>3 DEF Halts
  <2> QED BY <1>5, <2>1, <2>2, <2>3 DEF Halts
<1> QED BY <1>1, <1>7, <1>8, <1>9, <1>10 DEF Phases, BothTerminated

LEMMA RequestExpired ==
  TerminalTypes /\ Phases /\ Expires => (mistaken \/ Phases)'
<1> SUFFICES ASSUME TerminalTypes, Phases, Expires, ~mistaken' PROVE Phases'
  OBVIOUS
<1>1. /\ request # 0 /\ request' = 0 /\ state # "terminated"
      /\ state' = StateAfterFailure /\ ~(state = "running" /\ previous = "stopped")
      /\ UNCHANGED <<stopSerial, previous, before, toLldb, fromLldb, target, unanswered>>
  BY DEF Expires, RequestSettled
<1>2. previous \in {"stopped", "running"}
  BY DEF TerminalTypes
<1>3. CASE BothStopped
  <2>1. state' = "stopped"
    BY <1>1, <1>3 DEF BothStopped, StateAfterFailure
  <2> QED BY <1>1, <1>3, <2>1 DEF BothStopped, Phases
<1>4. CASE Runs
  <2>1. state' = "running"
    BY <1>1, <1>2, <1>4 DEF Runs, StateAfterFailure
  <2> QED BY <1>1, <1>4, <2>1 DEF Runs, Phases
<1> QED BY <1>1, <1>3, <1>4 DEF Phases, ResumptionSent, ResumptionFailed, Resuming, BothTerminated

\* An event is told: no outcome is.
LEMMA EventTold ==
  ASSUME NEW f \in Seq(Messages), NEW u \in Seq(Outcomes), NEW type \in {"continued", "stopped", "terminated"}
  PROVE  LET e == [type |-> type, seq |-> 0, success |-> TRUE] IN
         /\ e \in Messages
         /\ \A r, ok : Decided(Append(f, e), u, r, ok) <=> Decided(f, u, r, ok)
<1> DEFINE e == [type |-> type, seq |-> 0, success |-> TRUE]
<1>1. e \in Messages /\ e.type # "response"
  BY DEF Messages
<1>2. \A r, ok : e # AnswerTo(r, ok)
  BY <1>1 DEF AnswerTo
<1> HIDE DEF e
<1>3. \A r, ok : Decided(Append(f, e), u, r, ok) <=> Decided(f, u, r, ok)
  BY <1>1, <1>2, OutcomeQueues
<1> QED BY <1>1, <1>3 DEF e

LEMMA CommandActed ==
  TerminalTypes /\ Phases /\ Acts => Phases'
<1> SUFFICES ASSUME TerminalTypes, Phases, Acts PROVE Phases'
  OBVIOUS
<1> DEFINE h == Head(toLldb)
<1>1. /\ toLldb # <<>> /\ toLldb' = Tail(toLldb) /\ toLldb \in Seq(Commands) /\ h \in Commands
      /\ UNCHANGED <<state, stopSerial, request, previous, before>>
      /\ unanswered \in Seq(Outcomes) /\ fromLldb \in Seq(Messages)
      /\ target \in {"stopped", "running", "terminated"}
  BY Dequeued DEF Acts, TerminalTypes, executeVars
<1>2. \/ /\ h.command # "pause" /\ target = "stopped" /\ target' = "running"
         /\ unanswered' = Append(unanswered, Outcome(h.seq, TRUE))
         /\ Tell("continued") \/ fromLldb' = fromLldb
      \/ /\ h.command = "pause" /\ target = "running" /\ target' = "stopped" /\ Tell("stopped")
         /\ unanswered' = Append(unanswered, Outcome(h.seq, TRUE))
      \/ /\ unanswered' = Append(unanswered, Outcome(h.seq, h.command = "pause" /\ target = "running"))
         /\ target' = target /\ fromLldb' = fromLldb
  BY DEF Acts, Outcome
<1>3. PICK done \in BOOLEAN :
         /\ unanswered' = Append(unanswered, Outcome(h.seq, done))
         /\ \/ /\ h.command # "pause" /\ target = "stopped" /\ target' = "running" /\ done = TRUE
               /\ Tell("continued") \/ fromLldb' = fromLldb
            \/ /\ h.command = "pause" /\ target = "running" /\ target' = "stopped" /\ Tell("stopped") /\ done = TRUE
            \/ /\ target' = target /\ fromLldb' = fromLldb /\ done = (h.command = "pause" /\ target = "running")
  BY <1>2
<1>4. Outcome(h.seq, done) \in Outcomes
  BY <1>1 DEF Outcome, Outcomes, Commands
<1>5. fromLldb' \in Seq(Messages) /\ \A r, ok : Decided(fromLldb', unanswered, r, ok) <=> Decided(fromLldb, unanswered, r, ok)
  <2>1. CASE fromLldb' = fromLldb
    BY <1>1, <2>1
  <2>2. ASSUME NEW type \in {"continued", "stopped"}, Tell(type)
        PROVE  fromLldb' \in Seq(Messages)
               /\ \A r, ok : Decided(fromLldb', unanswered, r, ok) <=> Decided(fromLldb, unanswered, r, ok)
    <3> DEFINE e == [type |-> type, seq |-> 0, success |-> TRUE]
    <3>1. e \in Messages /\ \A r, ok : Decided(Append(fromLldb, e), unanswered, r, ok) <=> Decided(fromLldb, unanswered, r, ok)
      BY <1>1, EventTold
    <3>2. fromLldb' = Append(fromLldb, e)
      BY <2>2 DEF Tell
    <3> HIDE DEF e
    <3> QED BY <1>1, <3>1, <3>2, Queued
  <2> QED BY <1>3, <2>1, <2>2
<1>6. \A r, ok : Decided(fromLldb', unanswered', r, ok) <=> Decided(fromLldb, unanswered, r, ok) \/ Outcome(h.seq, done) = Outcome(r, ok)
  BY <1>1, <1>3, <1>4, <1>5, OutcomeQueues
<1>7. \A r, ok : Outcome(h.seq, done) = Outcome(r, ok) <=> h.seq = r /\ done = ok
  BY DEF Outcome
<1>8. /\ OnlyPauses(toLldb) => OnlyPauses(toLldb') /\ h.command = "pause"
      /\ \A r : ~Asked(toLldb, r) => ~Asked(toLldb', r) /\ h.seq # r
      /\ \A r : WillResume(toLldb, r) =>
           IF h.seq = r THEN OnlyPauses(toLldb') /\ ~Asked(toLldb', r)
           ELSE h.command = "pause" /\ WillResume(toLldb', r)
  BY <1>1, CommandTaken
<1>9. /\ Tell("continued") /\ RunTold(fromLldb) => RunTold(fromLldb')
      /\ Tell("stopped") /\ RunTold(fromLldb) => HaltTold(fromLldb', "stopped")
  <2>1. ASSUME NEW type \in {"continued", "stopped"}, Tell(type), RunTold(fromLldb)
        PROVE  IF type = "stopped" THEN HaltTold(fromLldb', type) ELSE RunTold(fromLldb')
    <3> DEFINE e == [type |-> type, seq |-> 0, success |-> TRUE]
    <3>1. e \in Messages /\ fromLldb' = Append(fromLldb, e) /\ e.type = type
      BY <1>1, <2>1, EventTold DEF Tell
    <3> HIDE DEF e
    <3> QED BY <1>1, <2>1, <3>1, MessageSent DEF Halts
  <2> QED BY <2>1
<1> HIDE DEF h
<1>10. CASE BothStopped
  <2>1. target' = target /\ fromLldb' = fromLldb /\ OnlyPauses(toLldb')
    BY <1>3, <1>8, <1>10 DEF BothStopped
  <2> QED BY <1>1, <1>10, <2>1 DEF BothStopped, Phases
<1>11. CASE ResumptionSent
  <2>1. CASE h.seq # request
    <3>1. WillResume(toLldb', request) /\ target' = target /\ fromLldb' = fromLldb
      BY <1>3, <1>8, <1>11, <2>1 DEF ResumptionSent, Resuming
    <3>2. \A ok \in BOOLEAN : ~Decided(fromLldb', unanswered', request, ok)
      BY <1>6, <1>7, <1>11, <2>1 DEF ResumptionSent
    <3> QED BY <1>1, <1>11, <3>1, <3>2 DEF ResumptionSent, Resuming, Phases
  <2>2. CASE h.seq = request
    <3>1. OnlyPauses(toLldb') /\ ~Asked(toLldb', request)
      BY <1>8, <1>11, <2>2 DEF ResumptionSent
    <3>2. \A ok \in BOOLEAN : Decided(fromLldb', unanswered', request, ok) <=> done = ok
      BY <1>6, <1>7, <1>11, <2>2 DEF ResumptionSent
    <3>3. OnlyAnswers(fromLldb) /\ target = "stopped" /\ state = "running"
      BY <1>11 DEF ResumptionSent, Resuming
    <3>4. CASE target' = "running" /\ done = TRUE
      <4>1. RunTold(fromLldb)
        BY <3>3 DEF OnlyAnswers, RunTold, Halts
      <4>2. RunTold(fromLldb')
        BY <1>3, <1>9, <3>3, <3>4, <4>1
      <4> QED BY <1>1, <3>1, <3>2, <3>3, <3>4, <4>2 DEF Phases, Runs
    <3>5. CASE target' = target /\ fromLldb' = fromLldb /\ done = FALSE
      BY <1>1, <1>11, <3>1, <3>2, <3>5 DEF Phases, ResumptionSent, ResumptionFailed, Resuming
    <3> QED BY <1>3, <3>3, <3>4, <3>5
  <2> QED BY <2>1, <2>2
<1>12. CASE ResumptionFailed
  <2>1. OnlyPauses(toLldb') /\ ~Asked(toLldb', request) /\ h.seq # request /\ target' = target /\ fromLldb' = fromLldb
    BY <1>3, <1>8, <1>12 DEF ResumptionFailed, Resuming
  <2>2. \A ok \in BOOLEAN : Decided(fromLldb', unanswered', request, ok) <=> Decided(fromLldb, unanswered, request, ok)
    BY <1>6, <1>7, <2>1
  <2> QED BY <1>1, <1>12, <2>1, <2>2 DEF ResumptionFailed, Resuming, Phases
<1>13. CASE Runs
  <2>1. OnlyPauses(toLldb') /\ h.command = "pause" /\ state = "running"
    BY <1>8, <1>13 DEF Runs
  <2>2. request # 0 /\ previous = "stopped" => ~Asked(toLldb', request) /\ ~Decided(fromLldb', unanswered', request, FALSE)
    BY <1>6, <1>7, <1>8, <1>13 DEF Runs
  <2>3. CASE target = "running" /\ target' = "stopped" /\ Tell("stopped")
    <3>1. HaltTold(fromLldb', target')
      BY <1>9, <1>13, <2>3 DEF Runs
    <3> QED BY <1>1, <2>1, <2>2, <2>3, <3>1 DEF Runs, Phases
  <2>4. CASE target' = target /\ fromLldb' = fromLldb
    BY <1>1, <1>13, <2>1, <2>2, <2>4 DEF Runs, Phases
  <2> QED BY <1>3, <2>1, <2>3, <2>4
<1>14. CASE BothTerminated
  BY <1>1, <1>3, <1>14 DEF BothTerminated, Phases
<1> QED BY <1>10, <1>11, <1>12, <1>13, <1>14 DEF Phases

LEMMA OutcomeAnswered ==
  TerminalTypes /\ Phases /\ Answers => Phases'
<1> SUFFICES ASSUME TerminalTypes, Phases, Answers PROVE Phases'
  OBVIOUS
<1> DEFINE h == Head(unanswered)
           e == AnswerTo(h.seq, h.success)
<1>1. /\ unanswered # <<>> /\ unanswered' = Tail(unanswered) /\ fromLldb' = Append(fromLldb, e)
      /\ UNCHANGED <<state, stopSerial, request, previous, before, toLldb, target>>
  BY DEF Answers, AnswerTo, executeVars
<1>2. /\ h \in Outcomes /\ unanswered' \in Seq(Outcomes) /\ unanswered \in Seq(Outcomes) /\ fromLldb \in Seq(Messages)
  BY <1>1, Dequeued DEF TerminalTypes
<1>3. e \in Messages /\ e.type = "response"
  BY <1>2 DEF Messages, Outcomes, AnswerTo
<1>4. \A r, ok : e = AnswerTo(r, ok) <=> h = Outcome(r, ok)
  BY <1>2 DEF AnswerTo, Outcome, Outcomes
<1> HIDE DEF e, h
<1>5. \A r, ok : Decided(fromLldb', unanswered', r, ok) <=> Decided(fromLldb, unanswered, r, ok)
  <2>1. \A r, ok : Decided(fromLldb', unanswered', r, ok) <=> Decided(fromLldb, unanswered', r, ok) \/ e = AnswerTo(r, ok)
    BY <1>1, <1>2, <1>3, OutcomeQueues
  <2>2. \A r, ok : Decided(fromLldb, unanswered, r, ok) <=> Decided(fromLldb, unanswered', r, ok) \/ h = Outcome(r, ok)
    BY <1>1, <1>2, OutcomeQueues DEF h
  <2> QED BY <1>4, <2>1, <2>2
<1>6. /\ OnlyAnswers(fromLldb) => OnlyAnswers(fromLldb')
      /\ RunTold(fromLldb) => RunTold(fromLldb')
      /\ \A g : HaltTold(fromLldb, g) => HaltTold(fromLldb', g)
  BY <1>1, <1>2, <1>3, MessageSent DEF Halts
<1> QED BY <1>1, <1>5, <1>6 DEF Phases, BothStopped, ResumptionSent, ResumptionFailed, Resuming, Runs, BothTerminated

LEMMA ProgramStopped ==
  TerminalTypes /\ Phases /\ ProgramStops => Phases'
<1> SUFFICES ASSUME TerminalTypes, Phases, ProgramStops PROVE Phases'
  OBVIOUS
<1>1. PICK stop \in {"stopped", "terminated"} : target' = stop /\ Tell(stop)
  BY DEF ProgramStops
<1> DEFINE e == [type |-> stop, seq |-> 0, success |-> TRUE]
<1>2. /\ target = "running" /\ fromLldb \in Seq(Messages) /\ unanswered \in Seq(Outcomes)
      /\ UNCHANGED <<state, stopSerial, request, previous, before, toLldb, unanswered>>
  BY DEF ProgramStops, TerminalTypes, executeVars
<1>3. e \in Messages /\ e.type = stop /\ fromLldb' = Append(fromLldb, e)
      /\ \A r, ok : Decided(fromLldb', unanswered, r, ok) <=> Decided(fromLldb, unanswered, r, ok)
  BY <1>1, <1>2, EventTold DEF Tell
<1> HIDE DEF e
<1>4. Runs
  BY <1>2 DEF Phases, BothStopped, ResumptionSent, ResumptionFailed, Resuming, BothTerminated
<1>5. HaltTold(fromLldb', target')
  BY <1>1, <1>2, <1>3, <1>4, MessageSent DEF Runs, Halts
<1> QED BY <1>1, <1>2, <1>3, <1>4, <1>5 DEF Phases, Runs

\* The terminal shows the state the program is in once nothing is under way:
\* for any commands, answers and stops, however they interleave, unless a
\* resumption was answered too late.
THEOREM TerminalPromptTruthful == TerminalSpec => []PromptTruthful
<1>1. TerminalInit => TerminalInv
  BY TerminalTypesInit, PhasesInit DEF TerminalInv, Phases
<1>2. TerminalInv /\ [TerminalNext]_terminalVars => TerminalInv'
  <2> SUFFICES ASSUME TerminalInv, [TerminalNext]_terminalVars PROVE (mistaken \/ Phases)'
    BY TerminalTypesNext DEF TerminalInv
  <2>1. CASE mistaken
    BY <2>1 DEF TerminalNext, terminalVars, ExecuteCommand, Receive, Expires, Acts, Answers, ProgramStops, Submit, countVars
  <2>2. CASE ~mistaken
    <3>1. TerminalTypes /\ Phases
      BY <2>2 DEF TerminalInv
    <3>2. ASSUME NEW c \in Controls, Submit(c) PROVE Phases'
      BY <3>1, <3>2 DEF Submit, executeVars, Phases, BothStopped, ResumptionSent, ResumptionFailed, Resuming, Runs, BothTerminated
    <3>3. CASE UNCHANGED terminalVars
      BY <3>1, <3>3 DEF terminalVars, executeVars, Phases, BothStopped, ResumptionSent, ResumptionFailed, Resuming, Runs,
           BothTerminated
    <3> QED BY <3>1, <3>2, <3>3, NextCommand, MessageReceived, RequestExpired, CommandActed, OutcomeAnswered, ProgramStopped
            DEF TerminalNext
  <2> QED BY <2>1, <2>2
<1>3. TerminalInv => PromptTruthful
  <2> SUFFICES ASSUME TerminalInv, ~InFlight, unanswered = <<>>, ~mistaken PROVE state = target
    BY DEF PromptTruthful
  <2>1. toLldb = <<>> /\ fromLldb = <<>> /\ unanswered = <<>>
    BY DEF InFlight
  <2>2. ~ResumptionSent
    BY <2>1 DEF ResumptionSent, WillResume
  <2>3. ~ResumptionFailed
    BY <2>1 DEF ResumptionFailed, Decided, Contains
  <2>4. ASSUME Runs PROVE target = "running"
    BY <2>1, <2>4 DEF Runs, HaltTold
  <2> QED BY <2>2, <2>3, <2>4 DEF TerminalInv, Phases, BothStopped, Runs, BothTerminated
<1> QED BY <1>1, <1>2, <1>3, PTL DEF TerminalSpec

-----------------------------------------------------------------------------
(* The adapter.  Each phase says how much of the program's start is done, and *)
(* for which sources the browser has, or is about to get, what the client     *)
(* wants.                                                                     *)

Requests == {r \in [id : Nat \ {0}, method : {"setBreakpoints", "start"}, source : Sources \cup {0}, lines : Nat] :
               r.method = "setBreakpoints" => r.source \in Sources}

LaunchTypes ==
  /\ order \in Seq(Sources) /\ wanted \in [Sources -> Nat] /\ installed \in [Sources -> Nat] /\ sets \in Nat
  /\ ready \in BOOLEAN /\ configured \in BOOLEAN /\ started \in BOOLEAN
  /\ iteration \in Nat /\ awaits \in Nat /\ nextRequest \in Nat \ {0} /\ starts \in Nat
  /\ toBrowser \in Seq(Requests) /\ answers \in Seq(Nat \ {0})

\* The program was not started, or once.
StartIn(q) == {i \in 1 .. Len(q) : q[i].method = "start"}
NotBegun(q, n) == n = 0 /\ StartIn(q) = {}
Begun(q, n) == (n = 1 /\ StartIn(q) = {}) \/ (n = 0 /\ \E k \in StartIn(q) : StartIn(q) = {k})

\* The browser has, or will get, the breakpoints of s.
Current(s) == Gets(toBrowser, installed, s, wanted[s])
AllCurrent == \A s \in Sources : Current(s)

\* A source the client has set no breakpoints for.
Unset(s) == wanted[s] = 0 /\ installed[s] = 0 /\ SetIn(toBrowser, s) = {}
UnsetOutside == \A s \in Sources : Contains(order, s) \/ Unset(s)

BeforeReady ==
  /\ \/ phase \in {"idle", "connecting"} /\ awaits = 0
     \/ phase = "installing" /\ awaits # 0
  /\ ~ready /\ ~started /\ handler = "launch" /\ NotBegun(toBrowser, starts)

IsLaunched ==
  /\ phase = "launched" /\ awaits = 0
  /\ ready /\ ~started /\ NotBegun(toBrowser, starts)

Resending ==
  /\ phase = "resending" /\ awaits # 0
  /\ ready /\ started /\ NotBegun(toBrowser, starts)
  /\ \A i \in 1 .. Len(order) : i <= iteration => Current(order[i])

Starting ==
  /\ \/ phase = "starting" /\ awaits # 0
     \/ phase = "running" /\ awaits = 0
  /\ ready /\ started /\ Begun(toBrowser, starts) /\ AllCurrent

HasFailed ==
  /\ phase = "failed" /\ awaits = 0 /\ ready /\ started
  /\ NotBegun(toBrowser, starts) \/ (Begun(toBrowser, starts) /\ AllCurrent)

IsClosed ==
  /\ phase = "closed" /\ awaits = 0 /\ (ready => started)
  /\ NotBegun(toBrowser, starts) \/ Begun(toBrowser, starts)

LaunchPhases == BeforeReady \/ IsLaunched \/ Resending \/ Starting \/ HasFailed \/ IsClosed

LaunchInv ==
  /\ LaunchTypes
  /\ UnsetOutside
  /\ LaunchPhases

LEMMA BreakpointsSent ==
  ASSUME NEW q \in Seq(Requests), NEW e \in Requests, NEW has, NEW s
  PROVE  /\ e.method = "setBreakpoints" /\ e.source = s => Gets(Append(q, e), has, s, e.lines)
         /\ ~(e.method = "setBreakpoints" /\ e.source = s) =>
              /\ \A n : Gets(q, has, s, n) => Gets(Append(q, e), has, s, n)
              /\ SetIn(q, s) = {} => SetIn(Append(q, e), s) = {}
<1> DEFINE t == Append(q, e)
<1>1. /\ Len(t) = Len(q) + 1 /\ Len(q) \in Nat /\ t[Len(q) + 1] = e
      /\ \A i \in 1 .. Len(q) : t[i] = q[i]
  BY Queued
<1> HIDE DEF t
<1>2. \A i \in 1 .. Len(t) : i \in 1 .. Len(q) \/ i = Len(q) + 1
  BY <1>1
<1>3. ASSUME e.method = "setBreakpoints", e.source = s PROVE Gets(t, has, s, e.lines)
  <2>1. Len(q) + 1 \in SetIn(t, s)
    BY <1>1, <1>3 DEF SetIn
  <2>2. \A j \in SetIn(t, s) : j <= Len(q) + 1
    BY <1>1 DEF SetIn
  <2> QED BY <1>1, <2>1, <2>2 DEF Gets
<1>4. ASSUME ~(e.method = "setBreakpoints" /\ e.source = s)
      PROVE  SetIn(t, s) = SetIn(q, s) /\ \A n : Gets(q, has, s, n) => Gets(t, has, s, n)
  <2>1. \A i : i \in SetIn(t, s) => i \in SetIn(q, s)
    BY <1>1, <1>2, <1>4 DEF SetIn
  <2>2. \A i : i \in SetIn(q, s) => i \in SetIn(t, s) /\ t[i] = q[i]
    BY <1>1 DEF SetIn
  <2>3. SetIn(t, s) = SetIn(q, s)
    BY <2>1, <2>2
  <2> QED BY <2>2, <2>3 DEF Gets
<1> QED BY <1>3, <1>4 DEF t

LEMMA BreakpointsTaken ==
  ASSUME NEW q \in Seq(Requests), q # <<>>, NEW has, NEW now, NEW s,
         IF Head(q).method = "setBreakpoints" /\ Head(q).source = s THEN now[s] = Head(q).lines ELSE now[s] = has[s]
  PROVE  /\ \A n : Gets(q, has, s, n) => Gets(Tail(q), now, s, n)
         /\ SetIn(q, s) = {} => SetIn(Tail(q), s) = {} /\ now[s] = has[s]
<1> DEFINE t == Tail(q)  h == Head(q)
<1>1. /\ h = q[1] /\ Len(t) = Len(q) - 1 /\ Len(q) \in Nat \ {0}
      /\ \A i \in 1 .. Len(q) - 1 : t[i] = q[i + 1]
  BY Dequeued
<1>2. IF h.method = "setBreakpoints" /\ h.source = s THEN now[s] = h.lines ELSE now[s] = has[s]
  OBVIOUS
<1> HIDE DEF t, h
<1>3. \A i \in SetIn(t, s) : i \in Nat /\ i + 1 \in SetIn(q, s) /\ t[i] = q[i + 1]
  BY <1>1 DEF SetIn
<1>4. \A i \in SetIn(q, s) : i \in Nat /\ (i # 1 => i - 1 \in SetIn(t, s) /\ t[i - 1] = q[i])
  <2> SUFFICES ASSUME NEW i \in SetIn(q, s) PROVE i \in Nat /\ (i # 1 => i - 1 \in SetIn(t, s) /\ t[i - 1] = q[i])
    OBVIOUS
  <2>1. i \in 1 .. Len(q) /\ i \in Nat /\ q[i].method = "setBreakpoints" /\ q[i].source = s
    BY <1>1 DEF SetIn
  <2>2. i # 1 => i - 1 \in 1 .. Len(t) /\ i - 1 \in 1 .. Len(q) - 1 /\ (i - 1) + 1 = i
    BY <1>1, <2>1
  <2>3. i # 1 => t[i - 1] = q[i]
    BY <1>1, <2>2
  <2> QED BY <2>1, <2>2, <2>3 DEF SetIn
<1>5. 1 \in SetIn(q, s) <=> h.method = "setBreakpoints" /\ h.source = s
  <2>1. 1 \in 1 .. Len(q)
    BY <1>1
  <2> QED BY <1>1, <2>1 DEF SetIn
<1>6. SetIn(q, s) = {} => SetIn(t, s) = {} /\ now[s] = has[s]
  BY <1>2, <1>3, <1>5
<1>7. ASSUME NEW n, Gets(q, has, s, n) PROVE Gets(t, now, s, n)
  <2>1. CASE SetIn(q, s) = {}
    BY <1>6, <1>7, <2>1 DEF Gets
  <2>2. CASE SetIn(q, s) # {}
    <3>1. PICK k \in SetIn(q, s) : q[k].lines = n /\ \A j \in SetIn(q, s) : j <= k
      BY <1>7, <2>2 DEF Gets
    <3>2. CASE k = 1
      <4>1. SetIn(t, s) = {}
        <5> SUFFICES ASSUME NEW i \in SetIn(t, s) PROVE FALSE
          OBVIOUS
        <5>1. i + 1 <= 1 /\ i \in Nat /\ i + 1 \in SetIn(q, s)
          BY <1>3, <3>1, <3>2
        <5>2. i \in 1 .. Len(t)
          BY DEF SetIn
        <5> QED BY <1>1, <5>1, <5>2
      <4>2. now[s] = n
        BY <1>1, <1>2, <1>5, <3>1, <3>2
      <4> QED BY <4>1, <4>2 DEF Gets
    <3>3. CASE k # 1
      <4>1. k - 1 \in SetIn(t, s) /\ t[k - 1].lines = n /\ k \in Nat
        BY <1>4, <3>1, <3>3
      <4>2. \A j \in SetIn(t, s) : j <= k - 1
        <5> SUFFICES ASSUME NEW j \in SetIn(t, s) PROVE j <= k - 1
          OBVIOUS
        <5>1. j \in Nat /\ j + 1 <= k
          BY <1>3, <3>1
        <5> QED BY <4>1, <5>1
      <4> QED BY <4>1, <4>2 DEF Gets
    <3> QED BY <3>2, <3>3
  <2> QED BY <2>1, <2>2
<1> QED BY <1>6, <1>7 DEF t

LEMMA StartSent ==
  ASSUME NEW q \in Seq(Requests), NEW e \in Requests, NEW n
  PROVE  IF e.method = "start" THEN NotBegun(q, n) => Begun(Append(q, e), n)
         ELSE /\ NotBegun(q, n) => NotBegun(Append(q, e), n)
              /\ Begun(q, n) => Begun(Append(q, e), n)
<1> DEFINE t == Append(q, e)
<1>1. /\ Len(t) = Len(q) + 1 /\ Len(q) \in Nat /\ t[Len(q) + 1] = e
      /\ \A i \in 1 .. Len(q) : t[i] = q[i]
  BY Queued
<1> HIDE DEF t
<1>2. \A i \in 1 .. Len(t) : i \in 1 .. Len(q) \/ i = Len(q) + 1
  BY <1>1
<1>3. Len(q) + 1 \in 1 .. Len(t) /\ \A i \in 1 .. Len(q) : i \in 1 .. Len(t)
  BY <1>1
<1>4. CASE e.method = "start"
  <2>1. StartIn(q) = {} => StartIn(t) = {Len(q) + 1}
    BY <1>1, <1>2, <1>3, <1>4 DEF StartIn
  <2> QED BY <1>4, <2>1 DEF NotBegun, Begun, t
<1>5. CASE e.method # "start"
  <2>1. \A i : i \in StartIn(t) <=> i \in StartIn(q)
    BY <1>1, <1>2, <1>3, <1>5 DEF StartIn
  <2>2. StartIn(t) = StartIn(q)
    BY <2>1
  <2> QED BY <1>5, <2>2 DEF NotBegun, Begun, t
<1> QED BY <1>4, <1>5

LEMMA StartTaken ==
  ASSUME NEW q \in Seq(Requests), q # <<>>, NEW n \in Nat
  PROVE  IF Head(q).method = "start" THEN ~NotBegun(q, n) /\ (Begun(q, n) => n = 0 /\ Begun(Tail(q), 1))
         ELSE /\ NotBegun(q, n) => NotBegun(Tail(q), n)
              /\ Begun(q, n) => Begun(Tail(q), n)
<1> DEFINE t == Tail(q)  h == Head(q)
<1>1. /\ h = q[1] /\ Len(t) = Len(q) - 1 /\ Len(q) \in Nat \ {0}
      /\ \A i \in 1 .. Len(q) - 1 : t[i] = q[i + 1]
  BY Dequeued
<1> HIDE DEF t, h
<1>2. \A i \in StartIn(t) : i \in Nat \ {0} /\ i + 1 \in StartIn(q)
  BY <1>1 DEF StartIn
<1>3. \A i \in StartIn(q) : i \in Nat /\ (i # 1 => i - 1 \in StartIn(t))
  <2> SUFFICES ASSUME NEW i \in StartIn(q) PROVE i \in Nat /\ (i # 1 => i - 1 \in StartIn(t))
    OBVIOUS
  <2>1. i \in 1 .. Len(q) /\ i \in Nat /\ q[i].method = "start"
    BY <1>1 DEF StartIn
  <2>2. i # 1 => i - 1 \in 1 .. Len(t) /\ i - 1 \in 1 .. Len(q) - 1 /\ (i - 1) + 1 = i
    BY <1>1, <2>1
  <2>3. i # 1 => t[i - 1] = q[i]
    BY <1>1, <2>2
  <2> QED BY <2>1, <2>2, <2>3 DEF StartIn
<1>4. 1 \in StartIn(q) <=> h.method = "start"
  <2>1. 1 \in 1 .. Len(q)
    BY <1>1
  <2> QED BY <1>1, <2>1 DEF StartIn
<1>5. StartIn(q) = {} => StartIn(t) = {}
  BY <1>2
<1>6. CASE h.method = "start"
  <2>1. ASSUME NEW k, StartIn(q) = {k} PROVE StartIn(t) = {}
    <3> SUFFICES ASSUME NEW i \in StartIn(t) PROVE FALSE
      OBVIOUS
    <3>1. i \in Nat \ {0} /\ i + 1 = 1
      BY <1>2, <1>4, <1>6, <2>1
    <3> QED BY <3>1
  <2> QED BY <1>4, <1>6, <2>1 DEF NotBegun, Begun, t, h
<1>7. CASE h.method # "start"
  <2>1. ASSUME NEW k \in StartIn(q), StartIn(q) = {k} PROVE StartIn(t) = {k - 1}
    <3>1. k \in Nat /\ k - 1 \in StartIn(t)
      BY <1>3, <1>4, <1>7, <2>1
    <3>2. ASSUME NEW i \in StartIn(t) PROVE i = k - 1
      <4>1. i \in Nat /\ i + 1 = k
        BY <1>2, <2>1, <3>2
      <4> QED BY <3>1, <4>1
    <3> QED BY <3>1, <3>2
  <2> QED BY <1>5, <1>7, <2>1 DEF NotBegun, Begun, t, h
<1> QED BY <1>6, <1>7 DEF h

LEMMA LaunchTypesInit == LaunchInit => LaunchTypes
<1> SUFFICES ASSUME LaunchInit PROVE LaunchTypes
  OBVIOUS
<1>1. <<>> \in Seq(Sources) /\ <<>> \in Seq(Requests) /\ <<>> \in Seq(Nat \ {0})
  OBVIOUS
<1>2. order \in Seq(Sources) /\ toBrowser \in Seq(Requests) /\ answers \in Seq(Nat \ {0})
  BY <1>1 DEF LaunchInit
<1>3. wanted \in [Sources -> Nat] /\ installed \in [Sources -> Nat]
  BY DEF LaunchInit
<1>4. ready \in BOOLEAN /\ configured \in BOOLEAN /\ started \in BOOLEAN
  BY DEF LaunchInit
<1>5. iteration \in Nat /\ awaits \in Nat /\ nextRequest \in Nat \ {0} /\ starts \in Nat /\ sets \in Nat
  BY DEF LaunchInit
<1> QED BY <1>2, <1>3, <1>4, <1>5 DEF LaunchTypes

\* What a request sent to the browser changes.
LEMMA SourceSent ==
  ASSUME LaunchTypes, NEW s \in Sources, NEW lines \in Nat, ToBrowser("setBreakpoints", s, lines), installed' = installed,
         starts' = starts
  PROVE  /\ toBrowser' \in Seq(Requests) /\ nextRequest' \in Nat \ {0}
         /\ Gets(toBrowser', installed', s, lines)
         /\ \A x : x # s =>
              /\ \A n : Gets(toBrowser, installed, x, n) => Gets(toBrowser', installed', x, n)
              /\ SetIn(toBrowser, x) = {} => SetIn(toBrowser', x) = {}
         /\ NotBegun(toBrowser, starts) => NotBegun(toBrowser', starts')
         /\ Begun(toBrowser, starts) => Begun(toBrowser', starts')
<1> DEFINE e == [id |-> nextRequest, method |-> "setBreakpoints", source |-> s, lines |-> lines]
<1>1. /\ e \in Requests /\ e.method = "setBreakpoints" /\ e.source = s /\ e.lines = lines
      /\ toBrowser \in Seq(Requests) /\ toBrowser' = Append(toBrowser, e) /\ nextRequest' \in Nat \ {0}
  BY DEF LaunchTypes, Requests, ToBrowser
<1> HIDE DEF e
<1>2. toBrowser' \in Seq(Requests)
  BY <1>1, Queued
<1>3. Gets(toBrowser', installed', s, lines)
  BY <1>1, BreakpointsSent
<1>4. ASSUME NEW x, x # s
      PROVE  /\ \A n : Gets(toBrowser, installed, x, n) => Gets(toBrowser', installed', x, n)
             /\ SetIn(toBrowser, x) = {} => SetIn(toBrowser', x) = {}
  <2>1. ~(e.method = "setBreakpoints" /\ e.source = x)
    BY <1>1, <1>4
  <2> QED BY <1>1, <2>1, BreakpointsSent
<1>5. /\ NotBegun(toBrowser, starts) => NotBegun(toBrowser', starts')
      /\ Begun(toBrowser, starts) => Begun(toBrowser', starts')
  BY <1>1, StartSent
<1> QED BY <1>1, <1>2, <1>3, <1>4, <1>5

LEMMA ProgramStartSent ==
  ASSUME LaunchTypes, ToBrowser("start", 0, 0), installed' = installed, starts' = starts
  PROVE  /\ toBrowser' \in Seq(Requests) /\ nextRequest' \in Nat \ {0}
         /\ \A x : /\ \A n : Gets(toBrowser, installed, x, n) => Gets(toBrowser', installed', x, n)
                   /\ SetIn(toBrowser, x) = {} => SetIn(toBrowser', x) = {}
         /\ NotBegun(toBrowser, starts) => Begun(toBrowser', starts')
<1> DEFINE e == [id |-> nextRequest, method |-> "start", source |-> 0, lines |-> 0]
<1>1. /\ e \in Requests /\ e.method = "start"
      /\ toBrowser \in Seq(Requests) /\ toBrowser' = Append(toBrowser, e) /\ nextRequest' \in Nat \ {0}
  BY DEF LaunchTypes, Requests, ToBrowser
<1> HIDE DEF e
<1>2. toBrowser' \in Seq(Requests)
  BY <1>1, Queued
<1>3. ASSUME NEW x
      PROVE  /\ \A n : Gets(toBrowser, installed, x, n) => Gets(toBrowser', installed', x, n)
             /\ SetIn(toBrowser, x) = {} => SetIn(toBrowser', x) = {}
  <2>1. ~(e.method = "setBreakpoints" /\ e.source = x)
    BY <1>1
  <2> QED BY <1>1, <2>1, BreakpointsSent
<1>4. NotBegun(toBrowser, starts) => Begun(toBrowser', starts')
  BY <1>1, StartSent
<1> QED BY <1>1, <1>2, <1>3, <1>4

\* A loop sends the breakpoints of its next source.
LEMMA Installs ==
  ASSUME LaunchTypes, UnsetOutside, NEW p, NEW i \in Nat \ {0}, i <= Len(order), Install(p, i),
         UNCHANGED <<order, wanted, installed, starts>>
  PROVE  /\ toBrowser' \in Seq(Requests) /\ nextRequest' \in Nat \ {0}
         /\ phase' = p /\ iteration' = i /\ awaits' \in Nat \ {0}
         /\ UnsetOutside' /\ Current(order[i])'
         /\ \A s \in Sources : Current(s) => Current(s)'
         /\ NotBegun(toBrowser, starts) => NotBegun(toBrowser', starts')
<1>1. i \in 1 .. Len(order) /\ order[i] \in Sources /\ wanted[order[i]] \in Nat
  BY ElementOfSeq DEF LaunchTypes
<1>2. ToBrowser("setBreakpoints", order[i], wanted[order[i]])
  BY DEF Install
<1>3. /\ toBrowser' \in Seq(Requests) /\ nextRequest' \in Nat \ {0}
      /\ Gets(toBrowser', installed', order[i], wanted[order[i]])
      /\ \A x : x # order[i] =>
           /\ \A n : Gets(toBrowser, installed, x, n) => Gets(toBrowser', installed', x, n)
           /\ SetIn(toBrowser, x) = {} => SetIn(toBrowser', x) = {}
      /\ NotBegun(toBrowser, starts) => NotBegun(toBrowser', starts')
  BY <1>1, <1>2, SourceSent
<1>4. Current(order[i])'
  BY <1>3 DEF Current
<1>5. ASSUME NEW s \in Sources, Current(s) PROVE Current(s)'
  BY <1>3, <1>5 DEF Current
<1>6. UnsetOutside'
  <2> SUFFICES ASSUME NEW s \in Sources, ~Contains(order, s) PROVE Unset(s)'
    BY DEF UnsetOutside
  <2>1. s # order[i] /\ Unset(s)
    BY <1>1 DEF UnsetOutside, Contains
  <2> QED BY <1>3, <2>1 DEF Unset
<1>7. phase' = p /\ iteration' = i /\ awaits' \in Nat \ {0}
  BY DEF Install, Await, LaunchTypes
<1> QED BY <1>3, <1>4, <1>5, <1>6, <1>7

\* start() goes on.
LEMMA Resends ==
  ASSUME LaunchTypes, UnsetOutside, NEW i \in Nat \ {0}, Resend(i),
         UNCHANGED <<order, wanted, installed, starts>>, ready', NotBegun(toBrowser, starts),
         \A j \in 1 .. Len(order) : j < i => Current(order[j])
  PROVE  /\ toBrowser' \in Seq(Requests) /\ nextRequest' \in Nat \ {0} /\ started' = TRUE
         /\ iteration' \in Nat /\ awaits' \in Nat /\ UnsetOutside' /\ LaunchPhases'
<1>1. started' = TRUE /\ Len(order) \in Nat /\ order \in Seq(Sources)
  BY DEF Resend, LaunchTypes
<1>2. CASE i <= Len(order)
  <2>1. Install("resending", i)
    BY <1>2 DEF Resend
  <2>2. /\ toBrowser' \in Seq(Requests) /\ nextRequest' \in Nat \ {0}
        /\ phase' = "resending" /\ iteration' = i /\ awaits' \in Nat \ {0}
        /\ UnsetOutside' /\ Current(order[i])' /\ \A s \in Sources : Current(s) => Current(s)'
        /\ NotBegun(toBrowser', starts')
    BY <1>2, <2>1, Installs
  <2>3. ASSUME NEW j \in 1 .. Len(order'), j <= iteration' PROVE Current(order[j])'
    <3>1. CASE j = i
      BY <2>2, <3>1
    <3>2. CASE j # i
      <4>1. j < i /\ j \in 1 .. Len(order) /\ order[j] \in Sources
        BY <1>1, <2>2, <2>3, <3>2, ElementOfSeq
      <4>2. Current(order[j]) /\ order' = order
        BY <4>1
      <4> DEFINE s == order[j]
      <4>3. Current(s)'
        BY <2>2, <4>1, <4>2
      <4> QED BY <4>2, <4>3
    <3> QED BY <3>1, <3>2
  <2>4. Resending'
    BY <1>1, <2>2, <2>3 DEF Resending
  <2> QED BY <1>1, <2>2, <2>4 DEF LaunchPhases
<1>3. CASE ~(i <= Len(order))
  <2>1. ToBrowser("start", 0, 0) /\ Await("starting", i)
    BY <1>3 DEF Resend
  <2>2. /\ toBrowser' \in Seq(Requests) /\ nextRequest' \in Nat \ {0}
        /\ \A x : /\ \A n : Gets(toBrowser, installed, x, n) => Gets(toBrowser', installed', x, n)
                  /\ SetIn(toBrowser, x) = {} => SetIn(toBrowser', x) = {}
        /\ Begun(toBrowser', starts')
    BY <2>1, ProgramStartSent
  <2>3. phase' = "starting" /\ iteration' = i /\ awaits' \in Nat \ {0}
    BY <2>1 DEF Await, LaunchTypes
  <2>4. UnsetOutside'
    <3> SUFFICES ASSUME NEW s \in Sources, ~Contains(order, s) PROVE Unset(s)'
      BY DEF UnsetOutside
    <3>1. Unset(s)
      BY DEF UnsetOutside
    <3> QED BY <2>2, <3>1 DEF Unset
  <2>5. ASSUME NEW s \in Sources PROVE Current(s)'
    <3>1. CASE Contains(order, s)
      <4>1. PICK j \in 1 .. Len(order) : order[j] = s
        BY <3>1 DEF Contains
      <4>2. Current(s)
        BY <1>1, <1>3, <4>1
      <4> QED BY <2>2, <4>2 DEF Current
    <3>2. CASE ~Contains(order, s)
      <4>1. Current(s)
        BY <3>2 DEF UnsetOutside, Unset, Current, Gets
      <4> QED BY <2>2, <4>1 DEF Current
    <3> QED BY <3>1, <3>2
  <2>6. Starting'
    BY <1>1, <2>2, <2>3, <2>5 DEF Starting, AllCurrent
  <2> QED BY <1>1, <2>2, <2>3, <2>4, <2>6 DEF LaunchPhases
<1> QED BY <1>2, <1>3

\* launch goes on, from its i-th source.
LEMMA LaunchGoesOn ==
  ASSUME LaunchTypes, UnsetOutside, NEW i \in Nat \ {0}, Launching(i), ~ready, ~started, handler = "launch",
         NotBegun(toBrowser, starts), UNCHANGED <<order, wanted, installed, starts, handler>>
  PROVE  /\ toBrowser' \in Seq(Requests) /\ nextRequest' \in Nat \ {0} /\ started' \in BOOLEAN /\ ready' \in BOOLEAN
         /\ iteration' \in Nat /\ awaits' \in Nat /\ UnsetOutside' /\ LaunchPhases'
<1>1. CASE i <= Len(order)
  <2>1. Install("installing", i) /\ UNCHANGED <<ready, started>>
    BY <1>1 DEF Launching
  <2>2. /\ toBrowser' \in Seq(Requests) /\ nextRequest' \in Nat \ {0}
        /\ phase' = "installing" /\ iteration' = i /\ awaits' \in Nat \ {0}
        /\ UnsetOutside' /\ NotBegun(toBrowser', starts')
    BY <1>1, <2>1, Installs
  <2> QED BY <2>1, <2>2 DEF LaunchTypes, LaunchPhases, BeforeReady
<1>2. CASE ~(i <= Len(order))
  <2>1. Launched
    BY <1>2 DEF Launching
  <2>2. ready' = TRUE
    BY <2>1 DEF Launched
  <2>3. CASE configured
    <3>1. Resend(1)
      BY <2>1, <2>3 DEF Launched
    <3>2. \A j \in 1 .. Len(order) : j < 1 => Current(order[j])
      <4>1. \A j \in 1 .. Len(order) : ~(j < 1)
        BY DEF LaunchTypes
      <4> QED BY <4>1
    <3>3. 1 \in Nat \ {0} /\ ready' /\ UNCHANGED <<order, wanted, installed, starts>>
      BY <2>2
    <3>4. /\ toBrowser' \in Seq(Requests) /\ nextRequest' \in Nat \ {0} /\ started' = TRUE
          /\ iteration' \in Nat /\ awaits' \in Nat /\ UnsetOutside' /\ LaunchPhases'
      BY <3>1, <3>2, <3>3, Resends
    <3> QED BY <2>2, <3>4
  <2>4. CASE ~configured
    <3>1. phase' = "launched" /\ awaits' = 0 /\ UNCHANGED <<iteration, started, toBrowser, nextRequest>>
      BY <2>1, <2>4 DEF Launched
    <3>2. UnsetOutside'
      BY <3>1 DEF UnsetOutside, Unset
    <3> QED BY <2>2, <3>1, <3>2 DEF LaunchTypes, LaunchPhases, IsLaunched
  <2> QED BY <2>3, <2>4
<1> QED BY <1>1, <1>2

LEMMA BreakpointsChanged ==
  ASSUME LaunchInv, NEW s \in Sources, SetBreakpoints(s)
  PROVE  LaunchInv'
<1>1. /\ sets' = sets + 1 /\ sets + 1 \in Nat /\ wanted' = [wanted EXCEPT ![s] = sets + 1]
      /\ order' = IF Contains(order, s) THEN order ELSE Append(order, s)
      /\ UNCHANGED <<installed, starts, ready, started, phase, iteration, awaits, handler, configured, answers>>
  BY DEF SetBreakpoints, LaunchInv, LaunchTypes, browserVars, handlerVars, loopVars
<1>2. LaunchTypes /\ UnsetOutside /\ LaunchPhases
  BY DEF LaunchInv
<1>3. wanted' \in [Sources -> Nat] /\ wanted'[s] = sets + 1 /\ \A x \in Sources : x # s => wanted'[x] = wanted[x]
  BY <1>1, <1>2 DEF LaunchTypes
<1>4. /\ order' \in Seq(Sources) /\ Len(order) \in Nat
      /\ \A i \in 1 .. Len(order') : order'[i] = s \/ (i \in 1 .. Len(order) /\ order'[i] = order[i] /\ order[i] \in Sources)
      /\ \A x : Contains(order', x) <=> Contains(order, x) \/ x = s
  <2>1. CASE Contains(order, s)
    BY <1>1, <1>2, <2>1, ElementOfSeq DEF LaunchTypes
  <2>2. CASE ~Contains(order, s)
    <3>1. order' = Append(order, s) /\ order \in Seq(Sources)
      BY <1>1, <1>2, <2>2 DEF LaunchTypes
    <3>2. \A x : Contains(order', x) <=> Contains(order, x) \/ x = s
      BY <3>1, InAppend
    <3>3. /\ order' \in Seq(Sources) /\ Len(order') = Len(order) + 1 /\ Len(order) \in Nat
          /\ \A i \in 1 .. Len(order) : order'[i] = order[i] /\ order[i] \in Sources
          /\ order'[Len(order) + 1] = s
      BY <3>1, Queued
    <3>4. \A i \in 1 .. Len(order') : i \in 1 .. Len(order) \/ i = Len(order) + 1
      BY <3>3
    <3> QED BY <3>2, <3>3, <3>4
  <2> QED BY <2>1, <2>2
<1>5. CASE ready /\ phase # "closed"
  <2>1. ToBrowser("setBreakpoints", s, sets + 1)
    BY <1>5 DEF SetBreakpoints
  <2>2. /\ toBrowser' \in Seq(Requests) /\ nextRequest' \in Nat \ {0}
        /\ Gets(toBrowser', installed', s, sets + 1)
        /\ \A x : x # s =>
             /\ \A n : Gets(toBrowser, installed, x, n) => Gets(toBrowser', installed', x, n)
             /\ SetIn(toBrowser, x) = {} => SetIn(toBrowser', x) = {}
        /\ NotBegun(toBrowser, starts) => NotBegun(toBrowser', starts')
        /\ Begun(toBrowser, starts) => Begun(toBrowser', starts')
    BY <1>1, <1>2, <2>1, SourceSent
  <2>3. Current(s)' /\ \A x \in Sources : Current(x) => Current(x)'
    BY <1>3, <2>2 DEF Current
  <2>4. UnsetOutside'
    <3> SUFFICES ASSUME NEW x \in Sources, ~Contains(order', x) PROVE Unset(x)'
      BY DEF UnsetOutside
    <3>1. x # s /\ Unset(x)
      BY <1>2, <1>4 DEF UnsetOutside
    <3> QED BY <1>1, <1>3, <2>2, <3>1 DEF Unset
  <2>5. LaunchTypes'
    BY <1>1, <1>2, <1>3, <1>4, <2>2 DEF LaunchTypes
  <2>6. ASSUME Resending PROVE Resending'
    <3>1. ASSUME NEW i \in 1 .. Len(order'), i <= iteration' PROVE Current(order[i])'
      <4>1. PICK x \in Sources : /\ order'[i] = x
                                 /\ x = s \/ (i \in 1 .. Len(order) /\ order[i] = x)
        BY <1>4
      <4>2. x # s => Current(x)
        BY <1>1, <2>6, <3>1, <4>1 DEF Resending
      <4>3. Current(x)'
        BY <2>3, <4>2
      <4> QED BY <4>1, <4>3 DEF Current
    <3> QED BY <1>1, <2>2, <2>6, <3>1 DEF Resending
  <2>7. AllCurrent => AllCurrent'
    BY <2>3 DEF AllCurrent
  <2>8. LaunchPhases'
    BY <1>1, <1>2, <1>5, <2>2, <2>6, <2>7 DEF LaunchPhases, BeforeReady, IsLaunched, Starting, HasFailed, IsClosed
  <2> QED BY <2>4, <2>5, <2>8 DEF LaunchInv
<1>6. CASE ~(ready /\ phase # "closed")
  <2>1. UNCHANGED <<toBrowser, nextRequest>>
    BY <1>6 DEF SetBreakpoints
  <2>2. BeforeReady \/ IsClosed
    BY <1>2, <1>6 DEF LaunchPhases, BeforeReady, IsLaunched, Resending, Starting, HasFailed, IsClosed
  <2>3. LaunchPhases'
    BY <1>1, <2>1, <2>2 DEF LaunchPhases, BeforeReady, IsClosed
  <2>4. UnsetOutside'
    <3> SUFFICES ASSUME NEW x \in Sources, ~Contains(order', x) PROVE Unset(x)'
      BY DEF UnsetOutside
    <3>1. x # s /\ Unset(x)
      BY <1>2, <1>4 DEF UnsetOutside
    <3> QED BY <1>1, <1>3, <2>1, <3>1 DEF Unset
  <2>5. LaunchTypes'
    BY <1>1, <1>2, <1>3, <1>4, <2>1 DEF LaunchTypes
  <2> QED BY <2>3, <2>4, <2>5 DEF LaunchInv
<1> QED BY <1>5, <1>6

LEMMA ClientConfigured ==
  ASSUME LaunchInv, ConfigurationDone
  PROVE  LaunchInv'
<1>1. /\ configured' = TRUE /\ UNCHANGED <<order, wanted, sets, installed, starts, answers>>
      /\ LaunchTypes /\ UnsetOutside /\ LaunchPhases
  BY DEF ConfigurationDone, LaunchInv, breakpointVars, browserVars
<1>2. CASE ready /\ ~started
  <2>1. Resend(1) /\ handler' = "configurationDone" /\ UNCHANGED ready
    BY <1>2 DEF ConfigurationDone
  <2>2. IsLaunched
    BY <1>1, <1>2 DEF LaunchPhases, BeforeReady, Resending, Starting, HasFailed, IsClosed
  <2>3. \A j \in 1 .. Len(order) : j < 1 => Current(order[j])
    <3>1. \A j \in 1 .. Len(order) : ~(j < 1)
      BY <1>1 DEF LaunchTypes
    <3> QED BY <3>1
  <2>4. 1 \in Nat \ {0} /\ ready' /\ NotBegun(toBrowser, starts) /\ UNCHANGED <<order, wanted, installed, starts>>
    BY <1>1, <1>2, <2>1, <2>2 DEF IsLaunched
  <2>5. /\ toBrowser' \in Seq(Requests) /\ nextRequest' \in Nat \ {0} /\ started' = TRUE
        /\ iteration' \in Nat /\ awaits' \in Nat /\ UnsetOutside' /\ LaunchPhases'
    BY <1>1, <2>1, <2>3, <2>4, Resends
  <2>6. LaunchTypes'
    BY <1>1, <2>1, <2>5 DEF LaunchTypes
  <2> QED BY <2>5, <2>6 DEF LaunchInv
<1>3. CASE ~(ready /\ ~started)
  <2>1. UNCHANGED <<ready, started, phase, iteration, awaits, handler, toBrowser, nextRequest>>
    BY <1>3 DEF ConfigurationDone, handlerVars, loopVars
  <2>2. LaunchTypes'
    BY <1>1, <2>1 DEF LaunchTypes
  <2>3. UnsetOutside' /\ LaunchPhases'
    BY <1>1, <2>1 DEF UnsetOutside, Unset, LaunchPhases, BeforeReady, IsLaunched, Resending, Starting, HasFailed, IsClosed,
                      AllCurrent, Current
  <2> QED BY <2>2, <2>3 DEF LaunchInv
<1> QED BY <1>2, <1>3

LEMMA RequestAnswered ==
  ASSUME LaunchInv, Answered
  PROVE  LaunchInv'
<1>1. /\ answers # <<>> /\ answers' = Tail(answers)
      /\ UNCHANGED <<order, wanted, sets, installed, starts, handler, configured>>
      /\ LaunchTypes /\ UnsetOutside /\ LaunchPhases
  BY DEF Answered, LaunchInv, breakpointVars, browserVars
<1>2. Head(answers) \in Nat \ {0} /\ answers' \in Seq(Nat \ {0})
  BY <1>1, Dequeued DEF LaunchTypes
<1>3. CASE Head(answers) # awaits
  <2>1. UNCHANGED <<ready, started, phase, iteration, awaits, toBrowser, nextRequest>>
    BY <1>3 DEF Answered, loopVars
  <2>2. LaunchTypes'
    BY <1>1, <1>2, <2>1 DEF LaunchTypes
  <2>3. UnsetOutside' /\ LaunchPhases'
    BY <1>1, <2>1 DEF UnsetOutside, Unset, LaunchPhases, BeforeReady, IsLaunched, Resending, Starting, HasFailed, IsClosed,
                      AllCurrent, Current
  <2> QED BY <2>2, <2>3 DEF LaunchInv
<1>4. CASE Head(answers) = awaits
  <2>1. awaits # 0 /\ iteration \in Nat /\ iteration + 1 \in Nat \ {0}
    BY <1>1, <1>2, <1>4 DEF LaunchTypes
  <2>2. /\ phase = "installing" => Launching(iteration + 1)
        /\ phase = "resending" => Resend(iteration + 1) /\ UNCHANGED ready
        /\ phase = "starting" => phase' = "running" /\ awaits' = 0
                                 /\ UNCHANGED <<ready, started, iteration, toBrowser, nextRequest>>
    BY <1>4 DEF Answered
  <2>3. CASE BeforeReady
    <3>1. phase = "installing" /\ ~ready /\ ~started /\ handler = "launch" /\ NotBegun(toBrowser, starts)
      BY <2>1, <2>3 DEF BeforeReady
    <3>2. /\ toBrowser' \in Seq(Requests) /\ nextRequest' \in Nat \ {0} /\ started' \in BOOLEAN /\ ready' \in BOOLEAN
          /\ iteration' \in Nat /\ awaits' \in Nat /\ UnsetOutside' /\ LaunchPhases'
      BY <1>1, <2>1, <2>2, <3>1, LaunchGoesOn
    <3>3. LaunchTypes'
      BY <1>1, <1>2, <3>2 DEF LaunchTypes
    <3> QED BY <3>2, <3>3 DEF LaunchInv
  <2>4. CASE Resending
    <3>1. phase = "resending" /\ ready /\ NotBegun(toBrowser, starts)
      BY <2>4 DEF Resending
    <3>2. \A j \in 1 .. Len(order) : j < iteration + 1 => Current(order[j])
      <4>1. \A j \in 1 .. Len(order) : j < iteration + 1 => j <= iteration
        BY <2>1
      <4> QED BY <2>4, <4>1 DEF Resending
    <3>3. Resend(iteration + 1) /\ ready' /\ ready' = ready
      BY <2>2, <3>1
    <3>4. /\ toBrowser' \in Seq(Requests) /\ nextRequest' \in Nat \ {0} /\ started' = TRUE
          /\ iteration' \in Nat /\ awaits' \in Nat /\ UnsetOutside' /\ LaunchPhases'
      BY <1>1, <2>1, <3>1, <3>2, <3>3, Resends
    <3>5. LaunchTypes'
      BY <1>1, <1>2, <3>3, <3>4 DEF LaunchTypes
    <3> QED BY <3>4, <3>5 DEF LaunchInv
  <2>5. CASE Starting
    <3>1. phase' = "running" /\ awaits' = 0 /\ UNCHANGED <<ready, started, iteration, toBrowser, nextRequest>>
      BY <2>1, <2>2, <2>5 DEF Starting
    <3>2. LaunchTypes'
      BY <1>1, <1>2, <3>1 DEF LaunchTypes
    <3>3. UnsetOutside' /\ Starting'
      BY <1>1, <2>5, <3>1 DEF UnsetOutside, Unset, Starting, AllCurrent, Current
    <3> QED BY <3>2, <3>3 DEF LaunchInv, LaunchPhases
  <2> QED BY <1>1, <2>1, <2>3, <2>4, <2>5 DEF LaunchPhases, IsLaunched, HasFailed, IsClosed
<1> QED BY <1>3, <1>4

LEMMA RequestLate ==
  ASSUME LaunchInv, RequestFails
  PROVE  LaunchInv'
<1>1. /\ phase = "connecting" \/ awaits # 0
      /\ phase' = IF handler = "launch" THEN "closed" ELSE "failed"
      /\ awaits' = 0
      /\ UNCHANGED <<handler, order, wanted, sets, installed, starts, ready, started, iteration, configured, nextRequest,
                     toBrowser, answers>>
      /\ LaunchTypes /\ UnsetOutside /\ LaunchPhases
  BY DEF RequestFails, LaunchInv, breakpointVars, browserVars
<1>2. LaunchTypes'
  BY <1>1 DEF LaunchTypes
<1>3. UnsetOutside' /\ AllCurrent' = AllCurrent
  BY <1>1 DEF UnsetOutside, Unset, AllCurrent, Current
<1>4. LaunchPhases'
  BY <1>1, <1>3 DEF LaunchPhases, BeforeReady, IsLaunched, Resending, Starting, HasFailed, IsClosed
<1> QED BY <1>2, <1>3, <1>4 DEF LaunchInv

LEMMA BrowserHandled ==
  ASSUME LaunchInv, BrowserHandles
  PROVE  LaunchInv'
<1> DEFINE r == Head(toBrowser)
<1>1. /\ toBrowser # <<>> /\ phase # "closed" /\ toBrowser' = Tail(toBrowser) /\ answers' = Append(answers, r.id)
      /\ IF r.method = "start" THEN starts' = starts + 1 /\ installed' = installed
         ELSE installed' = [installed EXCEPT ![r.source] = r.lines] /\ starts' = starts
      /\ UNCHANGED <<order, wanted, sets, ready, started, phase, iteration, awaits, handler, configured, nextRequest>>
      /\ LaunchTypes /\ UnsetOutside /\ LaunchPhases
  BY DEF BrowserHandles, LaunchInv, breakpointVars, handlerVars, loopVars
<1>2. r \in Requests /\ toBrowser' \in Seq(Requests) /\ toBrowser \in Seq(Requests) /\ starts \in Nat
      /\ installed \in [Sources -> Nat]
  BY <1>1, Dequeued DEF LaunchTypes
<1>3. /\ r.id \in Nat \ {0} /\ r.lines \in Nat /\ r.method \in {"start", "setBreakpoints"}
      /\ r.method = "setBreakpoints" => r.source \in Sources
  BY <1>2 DEF Requests
<1>4. answers' \in Seq(Nat \ {0})
  <2>1. answers \in Seq(Nat \ {0})
    BY <1>1 DEF LaunchTypes
  <2> QED BY <1>1, <1>3, <2>1, Queued
<1>5. installed' \in [Sources -> Nat] /\ starts' \in Nat
  BY <1>1, <1>2, <1>3
<1>6. LaunchTypes'
  BY <1>1, <1>2, <1>4, <1>5 DEF LaunchTypes
<1>7. ASSUME NEW x \in Sources
      PROVE  /\ \A n : Gets(toBrowser, installed, x, n) => Gets(toBrowser', installed', x, n)
             /\ SetIn(toBrowser, x) = {} => SetIn(toBrowser', x) = {} /\ installed'[x] = installed[x]
  <2>1. IF r.method = "setBreakpoints" /\ r.source = x THEN installed'[x] = r.lines ELSE installed'[x] = installed[x]
    BY <1>1, <1>2, <1>3
  <2> QED BY <1>1, <1>2, <2>1, BreakpointsTaken
<1>8. IF r.method = "start" THEN ~NotBegun(toBrowser, starts) /\ (Begun(toBrowser, starts) => Begun(toBrowser', starts'))
      ELSE /\ NotBegun(toBrowser, starts) => NotBegun(toBrowser', starts')
           /\ Begun(toBrowser, starts) => Begun(toBrowser', starts')
  <2>1. IF r.method = "start" THEN ~NotBegun(toBrowser, starts) /\ (Begun(toBrowser, starts) => starts = 0 /\ Begun(toBrowser', 1))
        ELSE /\ NotBegun(toBrowser, starts) => NotBegun(toBrowser', starts)
             /\ Begun(toBrowser, starts) => Begun(toBrowser', starts)
    BY <1>1, <1>2, StartTaken
  <2> QED BY <1>1, <2>1
<1> HIDE DEF r
<1>9. UnsetOutside'
  BY <1>1, <1>7 DEF UnsetOutside, Unset
<1>10. \A x \in Sources : Current(x) => Current(x)'
  BY <1>1, <1>7 DEF Current
<1>11. AllCurrent => AllCurrent'
  BY <1>10 DEF AllCurrent
<1>12. ASSUME Resending PROVE Resending'
  <2>1. ASSUME NEW i \in 1 .. Len(order), i <= iteration PROVE Current(order[i])'
    <3> DEFINE x == order[i]
    <3>1. Current(x) /\ x \in Sources
      BY <1>1, <1>12, <2>1, ElementOfSeq DEF Resending, LaunchTypes
    <3>2. Current(x)' /\ order' = order
      BY <1>1, <1>10, <3>1
    <3> QED BY <3>2 DEF Current
  <2> QED BY <1>1, <1>8, <1>12, <2>1 DEF Resending
<1>13. LaunchPhases'
  BY <1>1, <1>8, <1>11, <1>12 DEF LaunchPhases, BeforeReady, IsLaunched, Starting, HasFailed, IsClosed, Resending
<1> QED BY <1>6, <1>9, <1>13 DEF LaunchInv

\* The program is started at most once and, unless the bridge was closed, with
\* the breakpoints the client has set: whatever the order in which launch,
\* configurationDone, setBreakpoints, answers and timeouts come.
THEOREM LaunchStartsAsConfigured == LaunchSpec => []StartsAsConfigured
<1>1. LaunchInit => LaunchInv
  <2> SUFFICES ASSUME LaunchInit PROVE LaunchInv
    OBVIOUS
  <2>1. UnsetOutside
    BY DEF UnsetOutside, Unset, LaunchInit, SetIn
  <2>2. BeforeReady
    BY DEF BeforeReady, LaunchInit, NotBegun, StartIn
  <2> QED BY <2>1, <2>2, LaunchTypesInit DEF LaunchInv, LaunchPhases
<1>2. LaunchInv /\ [LaunchNext]_launchVars => LaunchInv'
  <2> SUFFICES ASSUME LaunchInv, [LaunchNext]_launchVars PROVE LaunchInv'
    OBVIOUS
  <2>1. LaunchTypes /\ UnsetOutside /\ LaunchPhases
    BY DEF LaunchInv
  <2>2. CASE LaunchRequest
    <3>1. /\ phase = "idle" /\ phase' = "connecting"
          /\ UNCHANGED <<order, wanted, sets, installed, starts, handler, ready, started, iteration, awaits, configured,
                         nextRequest, toBrowser, answers>>
      BY <2>2 DEF LaunchRequest, breakpointVars, browserVars
    <3>2. LaunchTypes' /\ UnsetOutside'
      BY <2>1, <3>1 DEF LaunchTypes, UnsetOutside, Unset
    <3>3. LaunchPhases'
      BY <2>1, <3>1 DEF LaunchPhases, BeforeReady, IsLaunched, Resending, Starting, HasFailed, IsClosed
    <3> QED BY <3>2, <3>3 DEF LaunchInv
  <2>3. CASE BrowserReady
    <3>1. /\ phase = "connecting" /\ Launching(1)
          /\ UNCHANGED <<handler, order, wanted, sets, installed, starts, configured, answers>>
      BY <2>3 DEF BrowserReady, breakpointVars, browserVars
    <3>2. 1 \in Nat \ {0} /\ ~ready /\ ~started /\ handler = "launch" /\ NotBegun(toBrowser, starts)
      BY <2>1, <3>1 DEF LaunchPhases, BeforeReady, IsLaunched, Resending, Starting, HasFailed, IsClosed
    <3>3. /\ toBrowser' \in Seq(Requests) /\ nextRequest' \in Nat \ {0} /\ started' \in BOOLEAN /\ ready' \in BOOLEAN
          /\ iteration' \in Nat /\ awaits' \in Nat /\ UnsetOutside' /\ LaunchPhases'
      BY <2>1, <3>1, <3>2, LaunchGoesOn
    <3>4. LaunchTypes'
      BY <2>1, <3>1, <3>3 DEF LaunchTypes
    <3> QED BY <3>3, <3>4 DEF LaunchInv
  <2>4. CASE UNCHANGED launchVars
    <3>1. UNCHANGED <<order, wanted, sets, installed, starts, handler, ready, started, phase, iteration, awaits, configured,
                      nextRequest, toBrowser, answers>>
      BY <2>4 DEF launchVars, breakpointVars, browserVars, handlerVars, loopVars
    <3> QED BY <2>1, <3>1 DEF LaunchInv, LaunchTypes, UnsetOutside, Unset, LaunchPhases, BeforeReady, IsLaunched, Resending,
                              Starting, HasFailed, IsClosed, AllCurrent, Current
  <2> QED BY <2>2, <2>3, <2>4, BreakpointsChanged, ClientConfigured, RequestAnswered, RequestLate, BrowserHandled
          DEF LaunchNext
<1>3. LaunchInv => StartsAsConfigured
  <2> SUFFICES ASSUME LaunchInv PROVE StartsAsConfigured
    OBVIOUS
  <2>1. starts <= 1
    BY DEF LaunchInv, LaunchPhases, BeforeReady, IsLaunched, Resending, Starting, HasFailed, IsClosed, NotBegun, Begun
  <2>2. starts = 1 /\ phase # "closed" => AllCurrent
    BY DEF LaunchInv, LaunchPhases, BeforeReady, IsLaunched, Resending, Starting, HasFailed, IsClosed, NotBegun
  <2> QED BY <2>1, <2>2 DEF StartsAsConfigured, AllCurrent, Current
<1> QED BY <1>1, <1>2, <1>3, PTL DEF LaunchSpec

-----------------------------------------------------------------------------
(* The session.  LLDB has one packet outstanding at most, which the token     *)
(* below follows from LLDB to its reply; the order of resumptions, answers    *)
(* and stops on the way keeps its reply the one LLDB waits for.               *)

Packets == [kind : {"c", "s", "g", "Z0", "z0", "interrupt"}, p : Points]
ToHandle == {x \in Packets : x.kind # "interrupt"}
Methods == {"continue", "stepInstruction", "pause", "getIRState", "setIRBreakpoints"}
EngineRequests == [id : Nat \ {0}, method : Methods, points : SUBSET Points]
Told == {"breakpoint", "pause", "step", "exit", "stopped", "running", "terminated", "timeout"}
EngineMessages == {m \in [type : {"result", "error", "stopped", "terminated"}, id : Nat, at : Points, reason : Told] :
                     m.type \in {"result", "error"} <=> m.id # 0}
Replies == [kind : {"OK", "E01", "g", "T", "W"}, p : Points]

IdsBelow(q, n) == \A i \in 1 .. Len(q) : q[i].id < n

SessionTypes ==
  /\ TypeOK
  /\ paused \in BOOLEAN /\ running \in BOOLEAN /\ pauseRequested \in BOOLEAN /\ executed \in 0 .. 2
  /\ serverRunning \in BOOLEAN /\ exitReply \in BOOLEAN /\ interrupted \in BOOLEAN
  /\ nextId \in Nat \ {0} /\ timeouts \in Nat /\ sent \in Nat
  /\ wire \in Seq(Packets) /\ queue \in Seq(ToHandle) /\ (awaiting # 0 => command \in ToHandle)
  /\ toEngine \in Seq(EngineRequests) /\ toServer \in Seq(EngineMessages) /\ toClient \in Seq(Replies)
  /\ IdsBelow(toEngine, nextId) /\ IdsBelow(toServer, nextId)
  /\ awaiting # 0 => awaiting \in pending

\* The engine passes over the instruction it was resumed at, once.
EngineInv ==
  /\ paused => running /\ skip = 0
  /\ paused /\ mode # "entry" => executed # 0 /\ (mode = "stepInstruction" => executed = 1)
  /\ running /\ ~paused => /\ mode # "entry"
                           /\ (executed = 0 /\ skip = at) \/ (executed # 0 /\ skip = 0)
                           /\ mode = "stepInstruction" => executed # 2

\* Where the packet LLDB waits for is.
PacketsIn(w) == {k \in 1 .. Len(w) : w[k].kind # "interrupt"}
Left == awaiting # 0 /\ Resumes(command) /\ ~serverRunning
NotHandled == ~serverRunning /\ (awaiting = 0 \/ Left)
NothingSent == PacketsIn(wire) = {} /\ queue = <<>>
Waits(x) == client = IF Resumes(x) THEN "running" ELSE "waiting"

AtLldb == client = "ready" /\ NothingSent /\ NotHandled /\ toClient = <<>>
OnWire == (\E k \in PacketsIn(wire) : PacketsIn(wire) = {k} /\ Waits(wire[k])) /\ queue = <<>> /\ NotHandled /\ toClient = <<>>
InQueue == Len(queue) = 1 /\ Waits(queue[1]) /\ PacketsIn(wire) = {} /\ NotHandled /\ toClient = <<>>
Querying == client = "waiting" /\ awaiting # 0 /\ ~Resumes(command) /\ ~serverRunning /\ NothingSent /\ toClient = <<>>
Running == client = "running" /\ serverRunning /\ (awaiting = 0 \/ Resumes(command)) /\ NothingSent /\ toClient = <<>>
IsReply(r) ==
  \/ r.kind = "T" /\ client = "running"
  \/ r.kind \in {"g", "OK"} /\ client = "waiting"
  \/ r.kind = "E01" /\ client \in {"running", "waiting"}
IsReplied == Len(toClient) = 1 /\ IsReply(toClient[1]) /\ NothingSent /\ NotHandled

Token == AtLldb \/ OnWire \/ InQueue \/ Querying \/ Running \/ IsReplied

\* What is under way between the server and the engine.
Has(q, id) == \E k \in 1 .. Len(q) : q[k].id = id
HasOne(q, id) == \E k \in 1 .. Len(q) : q[k].id = id /\ \A i \in 1 .. Len(q) : q[i].id = id => i = k

HasStop(q) == \E k \in 1 .. Len(q) : q[k].type = "stopped"
OneStop(q) == \A i, k \in 1 .. Len(q) : q[i].type = "stopped" /\ q[k].type = "stopped" => i = k
HasEnd(q) == \E k \in 1 .. Len(q) : q[k].type = "terminated"
StopAfter(q, id) == \E j, k \in 1 .. Len(q) : q[j].id = id /\ q[k].type = "stopped" /\ k > j
StopBefore(q, id) == \E j, k \in 1 .. Len(q) : q[j].id = id /\ q[k].type = "stopped" /\ k < j
EndBefore(q, id) == \E j, k \in 1 .. Len(q) : q[j].id = id /\ q[k].type = "terminated" /\ k < j
IsRefused(q, id) == \E j \in 1 .. Len(q) : q[j].id = id /\ q[j].type = "error"

RequestOf(x) == CASE x.kind = "c" -> "continue" [] x.kind = "s" -> "stepInstruction"
                  [] x.kind = "g" -> "getIRState" [] OTHER -> "setIRBreakpoints"
AsksFor(q, id, method) == HasOne(q, id) /\ \A k \in 1 .. Len(q) : q[k].id = id => q[k].method = method

\* Resumptions nobody awaits any more.
IsStale(r, id) == r.method \in {"continue", "stepInstruction"} /\ r.id # id
HasStale(q, id) == \E k \in 1 .. Len(q) : IsStale(q[k], id)
OneStale(q, id) == \A i, k \in 1 .. Len(q) : IsStale(q[i], id) /\ IsStale(q[k], id) => i = k
StaleFirst(q, id) == \A i, k \in 1 .. Len(q) : IsStale(q[i], id) /\ q[k].id = id => i < k

Still == paused \/ ~running

\* The awaited request has not been acted on, or its answer is coming.
Unacted == AsksFor(toEngine, awaiting, RequestOf(command)) /\ ~Has(toServer, awaiting)
Acted == HasOne(toServer, awaiting) /\ ~Has(toEngine, awaiting)
ResumptionUnacted == awaiting # 0 /\ Resumes(command) /\ Unacted
ResumptionActed == awaiting # 0 /\ Resumes(command) /\ Acted

\* After a timeout there may be one, which the engine will act on.
StaleAlone ==
  HasStale(toEngine, awaiting) =>
    /\ timeouts # 0 /\ Still /\ ~HasStop(toServer) /\ ~Left
    /\ OneStale(toEngine, awaiting) /\ StaleFirst(toEngine, awaiting)
    /\ awaiting # 0 => Unacted

\* A stop that is told leaves the engine still until the next resumption, also
\* one that was taken for the stop of a later one.
StopsLast ==
  /\ ~ResumptionActed => (HasStop(toServer) \/ Left => Still)
  /\ ResumptionActed => /\ StopAfter(toServer, awaiting) => Still
                        /\ IsRefused(toServer, awaiting) => \/ EndBefore(toServer, awaiting)
                                                            \/ ~Left /\ ~StopBefore(toServer, awaiting)

\* Without timeouts each run has one stop, after the answer to its resumption.
InStep ==
  /\ ~Left
  /\ ~serverRunning \/ ResumptionUnacted => Still /\ ~HasStop(toServer)
  /\ ResumptionActed => /\ ~StopBefore(toServer, awaiting)
                        /\ IsRefused(toServer, awaiting) => EndBefore(toServer, awaiting)
  /\ HasStop(toServer) => Still /\ OneStop(toServer)

\* ... and LLDB hears where the program stopped, and gets the breakpoints it set.
Placed ==
  /\ client \in {"ready", "waiting"} => pc = at
  /\ \A i \in 1 .. Len(toClient) : /\ toClient[i].kind \in {"T", "g"} => toClient[i].p = at
                                   /\ toClient[i].kind = "E01" => client = "waiting"
  /\ \A k \in 1 .. Len(toServer) : toServer[k].type = "stopped" => toServer[k].at = at
  /\ awaiting # 0 /\ command.kind = "g" => \A k \in 1 .. Len(toServer) : toServer[k].id = awaiting => toServer[k].at = at
SendsBreaks(q, id, ps) == \A k \in 1 .. Len(q) : q[k].method = "setIRBreakpoints" => q[k].id = id /\ q[k].points = ps
BreakpointsAgree ==
  /\ SendsBreaks(toEngine, awaiting, breaks)
  /\ instructionBreakpoints = breaks \/ (awaiting # 0 /\ command.kind \in {"Z0", "z0"} /\ Unacted)

\* A program that ended will be told to have, once.
EndTold == (running => ~exitReply /\ ~HasEnd(toServer)) /\ (~running => exitReply \/ HasEnd(toServer))

InOrder == /\ Token /\ StaleAlone /\ StopsLast
           /\ awaiting # 0 => Unacted \/ Acted

SessionAgrees ==
  /\ EndTold
  /\ ~exitReply /\ timeouts <= 1 => InOrder
  /\ ~exitReply /\ timeouts = 0 => InStep
  /\ running /\ timeouts = 0 => Placed /\ BreakpointsAgree

SessionInv == SessionTypes /\ EngineInv /\ SessionAgrees

LEMMA IdAppended ==
  ASSUME NEW S, NEW q \in Seq(S), NEW e \in S
  PROVE  /\ \A id : Has(Append(q, e), id) <=> Has(q, id) \/ e.id = id
         /\ \A id : HasOne(q, id) /\ e.id # id => HasOne(Append(q, e), id)
         /\ \A id : ~Has(q, id) /\ e.id = id => HasOne(Append(q, e), id)
<1> DEFINE t == Append(q, e)
<1>1. /\ Len(t) = Len(q) + 1 /\ Len(q) \in Nat /\ t[Len(q) + 1] = e
      /\ \A i \in 1 .. Len(q) : t[i] = q[i]
  BY Queued
<1> HIDE DEF t
<1>2. \A i \in 1 .. Len(t) : i \in 1 .. Len(q) \/ i = Len(q) + 1
  BY <1>1
<1>3. Len(q) + 1 \in 1 .. Len(t) /\ \A i \in 1 .. Len(q) : i \in 1 .. Len(t)
  BY <1>1
<1>4. \A id : Has(t, id) <=> Has(q, id) \/ e.id = id
  BY <1>1, <1>2, <1>3 DEF Has
<1>5. ASSUME NEW id, HasOne(q, id), e.id # id PROVE HasOne(t, id)
  <2>1. PICK k \in 1 .. Len(q) : q[k].id = id /\ \A i \in 1 .. Len(q) : q[i].id = id => i = k
    BY <1>5 DEF HasOne
  <2>2. k \in 1 .. Len(t) /\ t[k].id = id
    BY <1>1, <1>3, <2>1
  <2>3. ASSUME NEW i \in 1 .. Len(t), t[i].id = id PROVE i = k
    <3>1. i \in 1 .. Len(q)
      BY <1>1, <1>2, <1>5, <2>3
    <3> QED BY <1>1, <2>1, <2>3, <3>1
  <2> QED BY <2>2, <2>3 DEF HasOne
<1>6. ASSUME NEW id, ~Has(q, id), e.id = id PROVE HasOne(t, id)
  <2>1. \A i \in 1 .. Len(q) : q[i].id # id
    BY <1>6 DEF Has
  <2> QED BY <1>1, <1>2, <1>3, <1>6, <2>1 DEF HasOne
<1> QED BY <1>4, <1>5, <1>6 DEF t

LEMMA IdTaken ==
  ASSUME NEW S, NEW q \in Seq(S), q # <<>>
  PROVE  /\ \A id : Has(q, id) <=> Has(Tail(q), id) \/ Head(q).id = id
         /\ \A id : HasOne(q, id) => IF Head(q).id = id THEN ~Has(Tail(q), id) ELSE HasOne(Tail(q), id)
<1> DEFINE t == Tail(q)  h == Head(q)
<1>1. /\ h = q[1] /\ Len(t) = Len(q) - 1 /\ Len(q) \in Nat \ {0}
      /\ \A i \in 1 .. Len(q) - 1 : t[i] = q[i + 1]
  BY Dequeued
<1> HIDE DEF t, h
<1>2. \A i \in 1 .. Len(t) : i + 1 \in 1 .. Len(q) /\ i + 1 # 1 /\ t[i] = q[i + 1]
  BY <1>1
<1>3. 1 \in 1 .. Len(q)
  BY <1>1
<1>4. ASSUME NEW i \in 1 .. Len(q), i # 1 PROVE i - 1 \in 1 .. Len(t) /\ t[i - 1] = q[i]
  <2>1. i - 1 \in 1 .. Len(t) /\ (i - 1) + 1 = i
    BY <1>1, <1>4
  <2> QED BY <1>2, <2>1
<1>5. \A id : Has(q, id) <=> Has(t, id) \/ h.id = id
  BY <1>1, <1>2, <1>3, <1>4 DEF Has
<1>6. ASSUME NEW id, HasOne(q, id) PROVE IF h.id = id THEN ~Has(t, id) ELSE HasOne(t, id)
  <2>1. PICK k \in 1 .. Len(q) : q[k].id = id /\ \A i \in 1 .. Len(q) : q[i].id = id => i = k
    BY <1>6 DEF HasOne
  <2>2. CASE h.id = id
    BY <1>1, <1>2, <1>3, <2>1, <2>2 DEF Has
  <2>3. CASE h.id # id
    <3>1. k # 1
      BY <1>1, <2>1, <2>3
    <3>2. k - 1 \in 1 .. Len(t) /\ t[k - 1].id = id
      BY <1>4, <2>1, <3>1
    <3>3. ASSUME NEW i \in 1 .. Len(t), t[i].id = id PROVE i = k - 1
      <4>1. i + 1 = k
        BY <1>2, <2>1, <3>3
      <4> QED BY <1>1, <4>1
    <3> QED BY <2>3, <3>2, <3>3 DEF HasOne
  <2> QED BY <2>2, <2>3
<1> QED BY <1>5, <1>6 DEF t, h

\* The engine tells something, or answers.
LEMMA EngineTells ==
  ASSUME NEW q \in Seq(EngineMessages), NEW e \in EngineMessages
  PROVE  /\ HasStop(Append(q, e)) <=> HasStop(q) \/ e.type = "stopped"
         /\ HasEnd(Append(q, e)) <=> HasEnd(q) \/ e.type = "terminated"
         /\ OneStop(q) /\ (e.type = "stopped" => ~HasStop(q)) => OneStop(Append(q, e))
         /\ \A id : e.id # id =>
              /\ StopAfter(Append(q, e), id) => StopAfter(q, id) \/ e.type = "stopped"
              /\ StopBefore(Append(q, e), id) => StopBefore(q, id)
              /\ EndBefore(q, id) => EndBefore(Append(q, e), id)
              /\ IsRefused(Append(q, e), id) => IsRefused(q, id)
         /\ \A id : e.id = id /\ e.type \in {"result", "error"} /\ ~Has(q, id) =>
              /\ ~StopAfter(Append(q, e), id)
              /\ StopBefore(Append(q, e), id) => HasStop(q)
              /\ HasEnd(q) => EndBefore(Append(q, e), id)
              /\ IsRefused(Append(q, e), id) => e.type = "error"
<1> DEFINE t == Append(q, e)
<1>1. /\ Len(t) = Len(q) + 1 /\ Len(q) \in Nat /\ t[Len(q) + 1] = e
      /\ \A i \in 1 .. Len(q) : t[i] = q[i]
  BY Queued
<1> HIDE DEF t
<1>2. \A i \in 1 .. Len(t) : i \in 1 .. Len(q) \/ i = Len(q) + 1
  BY <1>1
<1>3. /\ Len(q) + 1 \in 1 .. Len(t) /\ \A i \in 1 .. Len(q) : i \in 1 .. Len(t) /\ i < Len(q) + 1
  BY <1>1
<1>4. HasStop(t) <=> HasStop(q) \/ e.type = "stopped"
  BY <1>1, <1>2, <1>3 DEF HasStop
<1>5. HasEnd(t) <=> HasEnd(q) \/ e.type = "terminated"
  BY <1>1, <1>2, <1>3 DEF HasEnd
<1>6. ASSUME OneStop(q), e.type = "stopped" => ~HasStop(q) PROVE OneStop(t)
  <2> SUFFICES ASSUME NEW i \in 1 .. Len(t), NEW k \in 1 .. Len(t), t[i].type = "stopped", t[k].type = "stopped"
               PROVE  i = k
    BY DEF OneStop
  <2>1. CASE e.type = "stopped"
    <3>1. i = Len(q) + 1
      BY <1>1, <1>2, <1>6, <2>1 DEF HasStop
    <3>2. k = Len(q) + 1
      BY <1>1, <1>2, <1>6, <2>1 DEF HasStop
    <3> QED BY <3>1, <3>2
  <2>2. CASE e.type # "stopped"
    <3>1. i \in 1 .. Len(q) /\ k \in 1 .. Len(q)
      BY <1>1, <1>2, <2>2
    <3> QED BY <1>1, <1>6, <3>1 DEF OneStop
  <2> QED BY <2>1, <2>2
<1>7. ASSUME NEW id, e.id # id
      PROVE  /\ StopAfter(t, id) => StopAfter(q, id) \/ e.type = "stopped"
             /\ StopBefore(t, id) => StopBefore(q, id)
             /\ EndBefore(q, id) => EndBefore(t, id)
             /\ IsRefused(t, id) => IsRefused(q, id)
  <2>1. \A j \in 1 .. Len(t) : t[j].id = id => j \in 1 .. Len(q)
    BY <1>1, <1>2, <1>7
  <2>2. StopAfter(t, id) => StopAfter(q, id) \/ e.type = "stopped"
    BY <1>1, <1>2, <2>1 DEF StopAfter
  <2>3. ASSUME StopBefore(t, id) PROVE StopBefore(q, id)
    <3>1. PICK j \in 1 .. Len(t), k \in 1 .. Len(t) : t[j].id = id /\ t[k].type = "stopped" /\ k < j
      BY <2>3 DEF StopBefore
    <3>2. j \in 1 .. Len(q)
      BY <2>1, <3>1
    <3>3. k \in 1 .. Len(q)
      BY <1>1, <3>1, <3>2
    <3> QED BY <1>1, <3>1, <3>2, <3>3 DEF StopBefore
  <2>4. EndBefore(q, id) => EndBefore(t, id)
    BY <1>1, <1>3 DEF EndBefore
  <2>5. IsRefused(t, id) => IsRefused(q, id)
    BY <1>1, <2>1 DEF IsRefused
  <2> QED BY <2>2, <2>3, <2>4, <2>5
<1>8. ASSUME NEW id, e.id = id, e.type \in {"result", "error"}, ~Has(q, id)
      PROVE  /\ ~StopAfter(t, id)
             /\ StopBefore(t, id) => HasStop(q)
             /\ HasEnd(q) => EndBefore(t, id)
             /\ IsRefused(t, id) => e.type = "error"
  <2>1. \A j \in 1 .. Len(t) : t[j].id = id <=> j = Len(q) + 1
    BY <1>1, <1>2, <1>3, <1>8 DEF Has
  <2>2. ~StopAfter(t, id)
    <3>1. \A k \in 1 .. Len(t) : ~(k > Len(q) + 1)
      BY <1>1
    <3> QED BY <2>1, <3>1 DEF StopAfter
  <2>3. StopBefore(t, id) => HasStop(q)
    BY <1>1, <1>2, <1>8 DEF StopBefore, HasStop
  <2>4. HasEnd(q) => EndBefore(t, id)
    BY <1>1, <1>3, <2>1 DEF EndBefore, HasEnd
  <2>5. IsRefused(t, id) => e.type = "error"
    BY <1>1, <2>1 DEF IsRefused
  <2> QED BY <2>2, <2>3, <2>4, <2>5
<1> QED BY <1>4, <1>5, <1>6, <1>7, <1>8 DEF t

\* The server reads something.
LEMMA ServerReads ==
  ASSUME NEW q \in Seq(EngineMessages), q # <<>>
  PROVE  /\ HasStop(q) <=> HasStop(Tail(q)) \/ Head(q).type = "stopped"
         /\ HasEnd(q) <=> HasEnd(Tail(q)) \/ Head(q).type = "terminated"
         /\ OneStop(q) => OneStop(Tail(q)) /\ (Head(q).type = "stopped" => ~HasStop(Tail(q)))
         /\ \A id : Head(q).id # id /\ Has(q, id) =>
              /\ StopAfter(Tail(q), id) => StopAfter(q, id)
              /\ StopBefore(Tail(q), id) => StopBefore(q, id)
              /\ Head(q).type = "stopped" => StopBefore(q, id)
              /\ EndBefore(q, id) => EndBefore(Tail(q), id) \/ Head(q).type = "terminated"
              /\ IsRefused(Tail(q), id) => IsRefused(q, id)
         /\ \A id : Head(q).id = id /\ HasOne(q, id) =>
              /\ HasStop(Tail(q)) => StopAfter(q, id)
              /\ ~EndBefore(q, id)
              /\ Head(q).type = "error" => IsRefused(q, id)
<1> DEFINE t == Tail(q)  h == Head(q)
<1>1. /\ h = q[1] /\ Len(t) = Len(q) - 1 /\ Len(q) \in Nat \ {0}
      /\ \A i \in 1 .. Len(q) - 1 : t[i] = q[i + 1]
  BY Dequeued
<1> HIDE DEF t, h
<1>2. \A i \in 1 .. Len(t) : i + 1 \in 1 .. Len(q) /\ i + 1 # 1 /\ i + 1 > 1 /\ t[i] = q[i + 1]
  BY <1>1
<1>3. 1 \in 1 .. Len(q)
  BY <1>1
<1>4. ASSUME NEW i \in 1 .. Len(q), i # 1 PROVE i - 1 \in 1 .. Len(t) /\ t[i - 1] = q[i] /\ 1 < i
  <2>1. i - 1 \in 1 .. Len(t) /\ (i - 1) + 1 = i /\ 1 < i
    BY <1>1, <1>4
  <2> QED BY <1>2, <2>1
<1>5. \A i, k \in 1 .. Len(t) :
        /\ (i < k) => (i + 1 < k + 1)
        /\ (i > k) => (i + 1 > k + 1)
        /\ (i + 1 = k + 1) => (i = k)
  BY <1>1
<1>6. HasStop(q) <=> HasStop(t) \/ h.type = "stopped"
  BY <1>1, <1>2, <1>3, <1>4 DEF HasStop
<1>7. HasEnd(q) <=> HasEnd(t) \/ h.type = "terminated"
  BY <1>1, <1>2, <1>3, <1>4 DEF HasEnd
<1>8. ASSUME OneStop(q) PROVE OneStop(t) /\ (h.type = "stopped" => ~HasStop(t))
  <2>1. OneStop(t)
    BY <1>2, <1>5, <1>8 DEF OneStop
  <2>2. h.type = "stopped" => ~HasStop(t)
    BY <1>1, <1>2, <1>3, <1>8 DEF OneStop, HasStop
  <2> QED BY <2>1, <2>2
<1>9. ASSUME NEW id, h.id # id, Has(q, id)
      PROVE  /\ StopAfter(t, id) => StopAfter(q, id)
             /\ StopBefore(t, id) => StopBefore(q, id)
             /\ h.type = "stopped" => StopBefore(q, id)
             /\ EndBefore(q, id) => EndBefore(t, id) \/ h.type = "terminated"
             /\ IsRefused(t, id) => IsRefused(q, id)
  <2>1. StopAfter(t, id) => StopAfter(q, id)
    BY <1>2, <1>5 DEF StopAfter
  <2>2. StopBefore(t, id) => StopBefore(q, id)
    BY <1>2, <1>5 DEF StopBefore
  <2>3. PICK j \in 1 .. Len(q) : q[j].id = id /\ j # 1
    BY <1>1, <1>9 DEF Has
  <2>4. h.type = "stopped" => StopBefore(q, id)
    BY <1>1, <1>3, <1>4, <2>3 DEF StopBefore
  <2>5. ASSUME EndBefore(q, id), h.type # "terminated" PROVE EndBefore(t, id)
    <3>1. PICK i \in 1 .. Len(q), k \in 1 .. Len(q) : q[i].id = id /\ q[k].type = "terminated" /\ k < i
      BY <2>5 DEF EndBefore
    <3>2. i # 1 /\ k # 1
      BY <1>1, <1>9, <2>5, <3>1
    <3>3. /\ i - 1 \in 1 .. Len(t) /\ t[i - 1] = q[i]
          /\ k - 1 \in 1 .. Len(t) /\ t[k - 1] = q[k]
      BY <1>4, <3>2
    <3>4. k - 1 < i - 1
      BY <3>1
    <3> QED BY <3>1, <3>3, <3>4 DEF EndBefore
  <2>6. IsRefused(t, id) => IsRefused(q, id)
    BY <1>2 DEF IsRefused
  <2> QED BY <2>1, <2>2, <2>4, <2>5, <2>6
<1>10. ASSUME NEW id, h.id = id, HasOne(q, id)
       PROVE  /\ HasStop(t) => StopAfter(q, id)
              /\ ~EndBefore(q, id)
              /\ h.type = "error" => IsRefused(q, id)
  <2>1. \A i \in 1 .. Len(q) : q[i].id = id => i = 1
    BY <1>1, <1>3, <1>10 DEF HasOne
  <2>2. HasStop(t) => StopAfter(q, id)
    BY <1>1, <1>2, <1>3, <1>10 DEF HasStop, StopAfter
  <2>3. ~EndBefore(q, id)
    <3>1. \A k \in 1 .. Len(q) : ~(k < 1)
      BY <1>1
    <3> QED BY <2>1, <3>1 DEF EndBefore
  <2>4. h.type = "error" => IsRefused(q, id)
    BY <1>1, <1>3, <1>10 DEF IsRefused
  <2> QED BY <2>2, <2>3, <2>4
<1> QED BY <1>6, <1>7, <1>8, <1>9, <1>10 DEF t, h

\* The server asks something.
LEMMA ServerAsks ==
  ASSUME NEW q \in Seq(EngineRequests), NEW e \in EngineRequests
  PROVE  /\ \A id : e.id # id =>
              /\ \A method : AsksFor(q, id, method) => AsksFor(Append(q, e), id, method)
              /\ ~IsStale(e, id) => /\ HasStale(Append(q, e), id) => HasStale(q, id)
                                    /\ OneStale(q, id) => OneStale(Append(q, e), id)
                                    /\ StaleFirst(q, id) => StaleFirst(Append(q, e), id)
         /\ ~Has(q, e.id) => /\ AsksFor(Append(q, e), e.id, e.method)
                             /\ HasStale(Append(q, e), e.id) => HasStale(q, 0)
                             /\ OneStale(q, 0) => OneStale(Append(q, e), e.id)
                             /\ StaleFirst(Append(q, e), e.id)
         /\ \A id, ps : SendsBreaks(q, id, ps) /\ e.method # "setIRBreakpoints" => SendsBreaks(Append(q, e), id, ps)
         /\ \A ps, new : SendsBreaks(q, 0, ps) /\ (e.method = "setIRBreakpoints" => e.points = new) =>
              SendsBreaks(Append(q, e), e.id, new)
<1> DEFINE t == Append(q, e)
<1>1. /\ Len(t) = Len(q) + 1 /\ Len(q) \in Nat /\ t[Len(q) + 1] = e
      /\ \A i \in 1 .. Len(q) : t[i] = q[i] /\ q[i] \in EngineRequests
  BY Queued
<1>a. /\ \A id : e.id # id => (HasOne(q, id) => HasOne(t, id))
      /\ ~Has(q, e.id) => HasOne(t, e.id)
  BY IdAppended
<1> HIDE DEF t
<1>2. \A i \in 1 .. Len(t) : i \in 1 .. Len(q) \/ i = Len(q) + 1
  BY <1>1
<1>3. /\ Len(q) + 1 \in 1 .. Len(t) /\ \A i \in 1 .. Len(q) : i \in 1 .. Len(t) /\ i < Len(q) + 1
  BY <1>1
<1>b. \A i \in 1 .. Len(q) : q[i].id # 0
  BY <1>1 DEF EngineRequests
<1>4. ASSUME NEW id, e.id # id, NEW method, AsksFor(q, id, method) PROVE AsksFor(t, id, method)
  <2>1. \A k \in 1 .. Len(t) : t[k].id = id => t[k].method = method
    BY <1>1, <1>2, <1>4 DEF AsksFor
  <2> QED BY <1>a, <1>4, <2>1 DEF AsksFor
<1>5. ASSUME NEW id, ~IsStale(e, id)
      PROVE  /\ HasStale(t, id) => HasStale(q, id)
             /\ OneStale(q, id) => OneStale(t, id)
             /\ StaleFirst(q, id) /\ e.id # id => StaleFirst(t, id)
  <2>1. \A i \in 1 .. Len(t) : IsStale(t[i], id) => i \in 1 .. Len(q) /\ IsStale(q[i], id)
    BY <1>1, <1>2, <1>5
  <2>2. HasStale(t, id) => HasStale(q, id)
    BY <2>1 DEF HasStale
  <2>3. OneStale(q, id) => OneStale(t, id)
    BY <2>1 DEF OneStale
  <2>4. StaleFirst(q, id) /\ e.id # id => StaleFirst(t, id)
    BY <1>1, <1>2, <2>1 DEF StaleFirst
  <2> QED BY <2>2, <2>3, <2>4
<1>6. ASSUME ~Has(q, e.id)
      PROVE  /\ AsksFor(t, e.id, e.method)
             /\ HasStale(t, e.id) => HasStale(q, 0)
             /\ OneStale(q, 0) => OneStale(t, e.id)
             /\ StaleFirst(t, e.id)
  <2>1. \A i \in 1 .. Len(t) : t[i].id = e.id => i = Len(q) + 1
    BY <1>1, <1>2, <1>6 DEF Has
  <2>2. \A i \in 1 .. Len(t) : IsStale(t[i], e.id) => i \in 1 .. Len(q) /\ IsStale(q[i], 0)
    BY <1>1, <1>2, <1>b DEF IsStale
  <2>3. AsksFor(t, e.id, e.method)
    BY <1>1, <1>a, <1>6, <2>1 DEF AsksFor
  <2>4. HasStale(t, e.id) => HasStale(q, 0)
    BY <2>2 DEF HasStale
  <2>5. OneStale(q, 0) => OneStale(t, e.id)
    BY <2>2 DEF OneStale
  <2>6. StaleFirst(t, e.id)
    BY <1>3, <2>1, <2>2 DEF StaleFirst
  <2> QED BY <2>3, <2>4, <2>5, <2>6
<1>7. ASSUME NEW id, NEW ps, SendsBreaks(q, id, ps), e.method # "setIRBreakpoints" PROVE SendsBreaks(t, id, ps)
  BY <1>1, <1>2, <1>7 DEF SendsBreaks
<1>8. ASSUME NEW ps, NEW new, SendsBreaks(q, 0, ps), e.method = "setIRBreakpoints" => e.points = new
      PROVE  SendsBreaks(t, e.id, new)
  BY <1>1, <1>2, <1>b, <1>8 DEF SendsBreaks
<1> QED BY <1>4, <1>5, <1>6, <1>7, <1>8 DEF t

\* The engine takes the first request.
LEMMA EngineTakes ==
  ASSUME NEW q \in Seq(EngineRequests), q # <<>>
  PROVE  /\ \A id :
              /\ IsStale(Head(q), id) \/ HasStale(Tail(q), id) <=> HasStale(q, id)
              /\ OneStale(q, id) => OneStale(Tail(q), id) /\ (IsStale(Head(q), id) => ~HasStale(Tail(q), id))
              /\ StaleFirst(q, id) => StaleFirst(Tail(q), id) /\ (Head(q).id = id => ~HasStale(q, id))
         /\ \A id, method : AsksFor(q, id, method) => IF Head(q).id = id THEN Head(q).method = method
                                                      ELSE AsksFor(Tail(q), id, method)
         /\ \A id, ps : SendsBreaks(q, id, ps) =>
              /\ SendsBreaks(Tail(q), id, ps)
              /\ Head(q).method = "setIRBreakpoints" => Head(q).id = id /\ Head(q).points = ps
<1> DEFINE t == Tail(q)  h == Head(q)
<1>1. /\ h = q[1] /\ Len(t) = Len(q) - 1 /\ Len(q) \in Nat \ {0}
      /\ \A i \in 1 .. Len(q) - 1 : t[i] = q[i + 1]
  BY Dequeued
<1>a. \A id : HasOne(q, id) => (h.id # id => HasOne(t, id))
  BY IdTaken
<1> HIDE DEF t, h
<1>2. \A i \in 1 .. Len(t) : i + 1 \in 1 .. Len(q) /\ i + 1 # 1 /\ t[i] = q[i + 1]
  BY <1>1
<1>3. 1 \in 1 .. Len(q) /\ \A i \in 1 .. Len(q) : ~(i < 1)
  BY <1>1
<1>4. ASSUME NEW i \in 1 .. Len(q), i # 1 PROVE i - 1 \in 1 .. Len(t) /\ t[i - 1] = q[i]
  <2>1. i - 1 \in 1 .. Len(t) /\ (i - 1) + 1 = i
    BY <1>1, <1>4
  <2> QED BY <1>2, <2>1
<1>5. \A i, k \in 1 .. Len(t) : ((i + 1 < k + 1) => (i < k)) /\ ((i + 1 = k + 1) => (i = k))
  BY <1>1
<1>6. ASSUME NEW id
      PROVE  /\ IsStale(h, id) \/ HasStale(t, id) <=> HasStale(q, id)
             /\ OneStale(q, id) => OneStale(t, id) /\ (IsStale(h, id) => ~HasStale(t, id))
             /\ StaleFirst(q, id) => StaleFirst(t, id) /\ (h.id = id => ~HasStale(q, id))
  <2>1. IsStale(h, id) \/ HasStale(t, id) <=> HasStale(q, id)
    BY <1>1, <1>2, <1>3, <1>4 DEF HasStale
  <2>2. ASSUME OneStale(q, id) PROVE OneStale(t, id) /\ (IsStale(h, id) => ~HasStale(t, id))
    <3>1. OneStale(t, id)
      BY <1>2, <1>5, <2>2 DEF OneStale
    <3>2. IsStale(h, id) => ~HasStale(t, id)
      BY <1>1, <1>2, <1>3, <2>2 DEF OneStale, HasStale
    <3> QED BY <3>1, <3>2
  <2>3. ASSUME StaleFirst(q, id) PROVE StaleFirst(t, id) /\ (h.id = id => ~HasStale(q, id))
    <3>1. StaleFirst(t, id)
      BY <1>2, <1>5, <2>3 DEF StaleFirst
    <3>2. h.id = id => ~HasStale(q, id)
      BY <1>1, <1>3, <2>3 DEF StaleFirst, HasStale
    <3> QED BY <3>1, <3>2
  <2> QED BY <2>1, <2>2, <2>3
<1>7. ASSUME NEW id, NEW method, AsksFor(q, id, method)
      PROVE  IF h.id = id THEN h.method = method ELSE AsksFor(t, id, method)
  <2>1. h.id = id => h.method = method
    BY <1>1, <1>3, <1>7 DEF AsksFor
  <2>2. \A k \in 1 .. Len(t) : t[k].id = id => t[k].method = method
    BY <1>2, <1>7 DEF AsksFor
  <2> QED BY <1>a, <1>7, <2>1, <2>2 DEF AsksFor
<1>8. ASSUME NEW id, NEW ps, SendsBreaks(q, id, ps)
      PROVE  /\ SendsBreaks(t, id, ps)
             /\ h.method = "setIRBreakpoints" => h.id = id /\ h.points = ps
  <2>1. SendsBreaks(t, id, ps)
    BY <1>2, <1>8 DEF SendsBreaks
  <2>2. h.method = "setIRBreakpoints" => h.id = id /\ h.points = ps
    BY <1>1, <1>3, <1>8 DEF SendsBreaks
  <2> QED BY <2>1, <2>2
<1> QED BY <1>6, <1>7, <1>8 DEF t, h

\* The server awaits nothing any more.
LEMMA GivenUp ==
  ASSUME NEW q \in Seq(EngineRequests), NEW id
  PROVE  /\ StaleFirst(q, 0)
         /\ ~Has(q, id) /\ HasStale(q, 0) => HasStale(q, id)
         /\ HasOne(q, id) /\ ~HasStale(q, id) => OneStale(q, 0)
         /\ \A method : AsksFor(q, id, method) /\ ~HasStale(q, id) /\ HasStale(q, 0) =>
              method \in {"continue", "stepInstruction"}
         /\ \A ps : SendsBreaks(q, id, ps) /\ ~Has(q, id) => SendsBreaks(q, 0, ps)
<1>1. \A i \in 1 .. Len(q) : q[i] \in EngineRequests
  BY ElementOfSeq
<1>2. \A i \in 1 .. Len(q) : q[i].id # 0
  BY <1>1 DEF EngineRequests
<1>3. StaleFirst(q, 0)
  BY <1>2 DEF StaleFirst
<1>4. ~Has(q, id) /\ HasStale(q, 0) => HasStale(q, id)
  BY DEF Has, HasStale, IsStale
<1>5. HasOne(q, id) /\ ~HasStale(q, id) => OneStale(q, 0)
  <2> SUFFICES ASSUME HasOne(q, id), ~HasStale(q, id), NEW i \in 1 .. Len(q), NEW k \in 1 .. Len(q),
                      IsStale(q[i], 0), IsStale(q[k], 0)
               PROVE  i = k
    BY DEF OneStale
  <2>1. q[i].id = id /\ q[k].id = id
    BY DEF HasStale, IsStale
  <2> QED BY <2>1 DEF HasOne
<1>6. ASSUME NEW method, AsksFor(q, id, method), ~HasStale(q, id), HasStale(q, 0)
      PROVE  method \in {"continue", "stepInstruction"}
  <2>1. PICK k \in 1 .. Len(q) : IsStale(q[k], 0) /\ ~IsStale(q[k], id)
    BY <1>6 DEF HasStale
  <2> QED BY <1>6, <2>1 DEF AsksFor, IsStale
<1>7. ASSUME NEW ps, SendsBreaks(q, id, ps), ~Has(q, id) PROVE SendsBreaks(q, 0, ps)
  BY <1>7 DEF SendsBreaks, Has
<1> QED BY <1>3, <1>4, <1>5, <1>6, <1>7

-----------------------------------------------------------------------------
\* What the engine does to itself.
LEMMA EngineMoves ==
  ASSUME SessionTypes, EngineInv, EntryAssumption
  PROVE  /\ EngineRuns => EngineInv' /\ at' \in Points
         /\ StopButton => EngineInv'
         /\ EngineReceives => EngineInv'
         /\ UNCHANGED engineVars => EngineInv'
<1> USE DEF EngineInv
<1>1. ASSUME UNCHANGED engineVars PROVE EngineInv'
  BY <1>1 DEF engineVars
<1>2. ASSUME EngineRuns PROVE EngineInv' /\ at' \in Points
  <2> USE DEF SessionTypes, TypeOK
  <2>1. running /\ ~paused
    BY <1>2 DEF EngineRuns, Boundary
  <2>2. ASSUME Skipped(at), Execute PROVE EngineInv' /\ at' \in Points
    <3>1. executed = 0 /\ skip' = 0 /\ executed' = 1
      BY <2>1, <2>2, EntryAssumption DEF Skipped, Execute
    <3>2. CASE at' \in Points /\ UNCHANGED <<paused, running, mode>>
      BY <2>1, <3>1, <3>2
    <3>3. CASE OnStop
      BY <3>1, <3>3 DEF OnStop
    <3> QED BY <2>2, <3>2, <3>3 DEF Execute
  <2>3. ASSUME skip # at, Reasons(at) # {}, Stop(Reported(Reasons(at))), UNCHANGED skip PROVE EngineInv' /\ at' \in Points
    BY <2>1, <2>3 DEF Stop
  <2>4. ASSUME skip # at, Reasons(at) = {}, Execute, UNCHANGED skip PROVE EngineInv' /\ at' \in Points
    <3>1. executed # 0 /\ skip' = 0 /\ executed' = 2
      BY <2>1, <2>4 DEF Execute
    <3>2. mode # "stepInstruction"
      <4>1. mode = "stepInstruction" => "step" \in Reasons(at)
        BY DEF Reasons
      <4> QED BY <2>4, <4>1
    <3>3. CASE at' \in Points /\ UNCHANGED <<paused, running, mode>>
      BY <2>1, <3>1, <3>2, <3>3
    <3>4. CASE OnStop
      BY <3>1, <3>4 DEF OnStop
    <3> QED BY <2>4, <3>3, <3>4 DEF Execute
  <2> QED BY <1>2, <2>2, <2>3, <2>4 DEF EngineRuns, Boundary
<1>3. ASSUME StopButton PROVE EngineInv'
  BY <1>3 DEF StopButton, OnStop
<1>4. ASSUME EngineReceives PROVE EngineInv'
  <2>1. ASSUME NEW m \in {"continue", "stepInstruction"}, Resume(m) PROVE EngineInv'
    <3>1. running /\ running' /\ ~paused' /\ mode' = m /\ at' = at
      BY <2>1 DEF Resume, ResumeAllowed, SessionTypes
    <3>2. CASE paused
      BY <2>1, <3>1, <3>2 DEF Resume
    <3>3. CASE ~paused
      BY <2>1, <3>1, <3>3 DEF Resume, ResumeAllowed
    <3> QED BY <3>2, <3>3
  <2>2. ASSUME Pause PROVE EngineInv'
    <3>1. CASE running /\ ~paused
      BY <2>2, <3>1 DEF Pause
    <3>2. CASE ~(running /\ ~paused)
      BY <2>2, <3>2 DEF Pause
    <3> QED BY <3>1, <3>2
  <2>3. ASSUME NEW ps, SetIRBreakpoints(ps) PROVE EngineInv'
    BY <2>3 DEF SetIRBreakpoints
  <2> QED BY <1>1, <1>4, <2>1, <2>2, <2>3 DEF EngineReceives
<1> QED BY <1>1, <1>2, <1>3, <1>4

\* The messages of the engine.
LEMMA EngineAnswers ==
  ASSUME SessionTypes, EngineReceives
  PROVE  /\ toEngine # <<>> /\ toEngine' = Tail(toEngine)
         /\ Head(toEngine) \in EngineRequests /\ Head(toEngine).id < nextId
         /\ \E type \in {"result", "error"} :
              LET e == Message(type, Head(toEngine).id, at, Status) IN
              /\ e \in EngineMessages /\ toServer' = Append(toServer, e)
              /\ e.type = type /\ e.id = Head(toEngine).id /\ e.at = at
              /\ type = "error" => /\ Head(toEngine).method \in {"continue", "stepInstruction"}
                                   /\ ~ResumeAllowed(Head(toEngine).method)
<1> USE DEF SessionTypes
<1>1. /\ toEngine # <<>> /\ toEngine' = Tail(toEngine)
  BY DEF EngineReceives
<1>2. Head(toEngine) \in EngineRequests /\ Head(toEngine) = toEngine[1] /\ 1 \in 1 .. Len(toEngine)
  BY <1>1, Dequeued
<1>3. Head(toEngine).id < nextId
  BY <1>2 DEF IdsBelow
<1>4. ASSUME NEW type \in {"result", "error"}
      PROVE  LET e == Message(type, Head(toEngine).id, at, Status) IN
             e \in EngineMessages /\ e.type = type /\ e.id = Head(toEngine).id /\ e.at = at
  BY <1>2 DEF Message, EngineMessages, EngineRequests, Status, TypeOK, Told
<1>5. \/ toServer' = Append(toServer, Message("result", Head(toEngine).id, at, Status))
      \/ /\ toServer' = Append(toServer, Message("error", Head(toEngine).id, at, Status))
         /\ Head(toEngine).method \in {"continue", "stepInstruction"} /\ ~ResumeAllowed(Head(toEngine).method)
  BY DEF EngineReceives, Replied
<1> QED BY <1>1, <1>2, <1>3, <1>4, <1>5

\* What the engine tells while it runs, or is stopped.
LEMMA EngineEvents ==
  ASSUME SessionTypes, EngineRuns \/ StopButton
  PROVE  \/ /\ EngineRuns /\ running /\ ~paused /\ running' /\ ~paused' /\ toServer' = toServer
         \/ \E e \in EngineMessages :
              /\ toServer' = Append(toServer, e) /\ e.id = 0 /\ e.at = at
              /\ \/ EngineRuns /\ running /\ ~paused /\ running' /\ paused' /\ at' = at /\ e.type = "stopped"
                 \/ running /\ ~running' /\ ~paused' /\ at' = at /\ e.type = "terminated"
<1> USE DEF SessionTypes, TypeOK
<1>1. \A type \in {"stopped", "terminated"}, reason \in Told :
        LET e == Event(type, at, reason) IN e \in EngineMessages /\ e.id = 0 /\ e.at = at /\ e.type = type
  BY DEF Event, Message, EngineMessages
<1>2. ASSUME OnStop
      PROVE  \E e \in EngineMessages :
               /\ toServer' = Append(toServer, e) /\ e.id = 0 /\ e.at = at
               /\ running /\ ~running' /\ ~paused' /\ at' = at /\ e.type = "terminated"
  <2>1. "exit" \in Told
    BY DEF Told
  <2> QED BY <1>1, <1>2, <2>1 DEF OnStop
<1>3. ASSUME NEW reason \in Told, Stop(reason), running, EngineRuns, ~paused
      PROVE  \E e \in EngineMessages :
               /\ toServer' = Append(toServer, e) /\ e.id = 0 /\ e.at = at
               /\ EngineRuns /\ running /\ ~paused /\ running' /\ paused' /\ at' = at /\ e.type = "stopped"
  BY <1>1, <1>3 DEF Stop
<1>4. \A reasons : Reported(reasons) \in Told
  BY DEF Reported, Told
<1>5. CASE StopButton
  BY <1>2, <1>5 DEF StopButton
<1>6. CASE EngineRuns
  <2>1. running /\ ~paused
    BY <1>6 DEF EngineRuns, Boundary
  <2>2. Execute \/ Stop(Reported(Reasons(at)))
    BY <1>6 DEF EngineRuns, Boundary
  <2>3. CASE Execute
    BY <1>2, <1>6, <2>1, <2>3 DEF Execute
  <2>4. CASE Stop(Reported(Reasons(at)))
    BY <1>3, <1>4, <1>6, <2>1, <2>4
  <2> QED BY <2>2, <2>3, <2>4
<1> QED BY <1>5, <1>6

\* One interrupt at most is taken out of what arrives together.
LEMMA WithoutInterrupt ==
  ASSUME NEW s \in Seq(Packets), NEW i \in 1 .. Len(s), \A j \in 1 .. Len(s) : s[j].kind = "interrupt" => j = i
  PROVE  /\ RemoveAt(s, i) \in Seq(ToHandle) /\ Len(RemoveAt(s, i)) = Len(s) - 1
         /\ \A j \in 1 .. i - 1 : RemoveAt(s, i)[j] = s[j]
         /\ \A j \in i .. Len(s) - 1 : RemoveAt(s, i)[j] = s[j + 1]
<1> DEFINE a == SubSeq(s, 1, i - 1)  b == SubSeq(s, i + 1, Len(s))
<1>1. Len(s) \in Nat /\ \A j \in 1 .. Len(s) : s[j] \in Packets
  BY ElementOfSeq
<1>2. \A j \in 1 .. Len(s) : j # i => s[j] \in ToHandle
  BY <1>1 DEF ToHandle
<1>3. a \in Seq(ToHandle) /\ Len(a) = i - 1 /\ \A j \in 1 .. i - 1 : a[j] = s[j]
  <2>1. 1 \in Int /\ i - 1 \in Int /\ \A j \in 1 .. i - 1 : s[j] \in ToHandle
    BY <1>1, <1>2
  <2>2. /\ a \in Seq(ToHandle) /\ Len(a) = IF 1 <= i - 1 THEN (i - 1) - 1 + 1 ELSE 0
        /\ \A j \in 1 .. (i - 1) - 1 + 1 : a[j] = s[1 + j - 1]
    BY <2>1, SubSeqProperties
  <2> HIDE DEF a
  <2> QED BY <1>1, <2>2
<1>4. b \in Seq(ToHandle) /\ Len(b) = Len(s) - i /\ \A j \in 1 .. Len(s) - i : b[j] = s[i + j]
  <2>1. i + 1 \in Int /\ Len(s) \in Int /\ \A j \in i + 1 .. Len(s) : s[j] \in ToHandle
    BY <1>1, <1>2
  <2>2. /\ b \in Seq(ToHandle) /\ Len(b) = IF i + 1 <= Len(s) THEN Len(s) - (i + 1) + 1 ELSE 0
        /\ \A j \in 1 .. Len(s) - (i + 1) + 1 : b[j] = s[(i + 1) + j - 1]
    BY <2>1, SubSeqProperties
  <2> HIDE DEF b
  <2> QED BY <1>1, <2>2
<1>5. RemoveAt(s, i) = a \o b
  BY DEF RemoveAt
<1> HIDE DEF a, b
<1>6. /\ a \o b \in Seq(ToHandle) /\ Len(a \o b) = Len(a) + Len(b)
      /\ \A j \in 1 .. Len(a) + Len(b) : (a \o b)[j] = IF j <= Len(a) THEN a[j] ELSE b[j - Len(a)]
  BY <1>3, <1>4, ConcatProperties
<1>7. Len(a \o b) = Len(s) - 1
  BY <1>1, <1>3, <1>4, <1>6
<1>8. \A j \in 1 .. i - 1 : (a \o b)[j] = s[j]
  BY <1>1, <1>3, <1>4, <1>6
<1>9. ASSUME NEW j \in i .. Len(s) - 1 PROVE (a \o b)[j] = s[j + 1]
  <2>1. j \in 1 .. Len(a) + Len(b) /\ ~(j <= Len(a)) /\ j - Len(a) \in 1 .. Len(s) - i /\ i + (j - Len(a)) = j + 1
    BY <1>1, <1>3, <1>4
  <2> QED BY <1>4, <1>6, <2>1
<1> QED BY <1>5, <1>6, <1>7, <1>8, <1>9

\* What a chunk brings: the packets on the wire go on to the queue in order.
LEMMA FeedMoves ==
  ASSUME wire \in Seq(Packets), queue \in Seq(ToHandle), Feed
  PROVE  /\ wire' \in Seq(Packets) /\ queue' \in Seq(ToHandle)
         /\ PacketsIn(wire) = {} => PacketsIn(wire') = {} /\ queue' = queue
         /\ \A k \in PacketsIn(wire) : PacketsIn(wire) = {k} =>
              \/ queue' = queue /\ \E j \in PacketsIn(wire') : PacketsIn(wire') = {j} /\ wire'[j] = wire[k]
              \/ PacketsIn(wire') = {} /\ (queue = <<>> => Len(queue') = 1 /\ queue'[1] = wire[k])
<1>1. PICK n \in 1 .. (IF Coalesce THEN Len(wire) ELSE 1) :
        /\ n <= Len(wire)
        /\ LET chunk == SubSeq(wire, 1, n)
               interrupts == {i \in 1 .. n : wire[i].kind = "interrupt"}
           IN \/ interrupts = {} /\ queue' = queue \o chunk
              \/ \E i \in interrupts : interrupts = {i} /\ queue' = queue \o RemoveAt(chunk, i)
        /\ wire' = SubSeq(wire, n + 1, Len(wire))
  BY DEF Feed
<1> DEFINE chunk == SubSeq(wire, 1, n)  rest == SubSeq(wire, n + 1, Len(wire))
           interrupts == {i \in 1 .. n : wire[i].kind = "interrupt"}
<1>2. /\ Len(wire) \in Nat /\ n \in Nat /\ 1 <= n /\ n <= Len(wire)
      /\ \A i \in 1 .. Len(wire) : wire[i] \in Packets
  BY <1>1, ElementOfSeq
<1>3. chunk \in Seq(Packets) /\ Len(chunk) = n /\ \A i \in 1 .. n : chunk[i] = wire[i]
  <2>1. 1 \in Int /\ n \in Int /\ \A i \in 1 .. n : wire[i] \in Packets
    BY <1>2
  <2>2. /\ chunk \in Seq(Packets) /\ Len(chunk) = IF 1 <= n THEN n - 1 + 1 ELSE 0
        /\ \A i \in 1 .. n - 1 + 1 : chunk[i] = wire[1 + i - 1]
    BY <2>1, SubSeqProperties
  <2> HIDE DEF chunk
  <2>3. n - 1 + 1 = n /\ 1 <= n
    BY <1>2
  <2>4. \A i \in 1 .. n : 1 + i - 1 = i
    BY <1>2
  <2>5. Len(chunk) = n /\ \A i \in 1 .. n : chunk[i] = wire[1 + i - 1]
    BY <2>2, <2>3
  <2> QED BY <2>2, <2>4, <2>5
<1>4. rest \in Seq(Packets) /\ Len(rest) = Len(wire) - n /\ \A i \in 1 .. Len(wire) - n : rest[i] = wire[n + i]
  <2>1. n + 1 \in Int /\ Len(wire) \in Int /\ \A i \in n + 1 .. Len(wire) : wire[i] \in Packets
    BY <1>2
  <2>2. /\ rest \in Seq(Packets) /\ Len(rest) = IF n + 1 <= Len(wire) THEN Len(wire) - (n + 1) + 1 ELSE 0
        /\ \A i \in 1 .. Len(wire) - (n + 1) + 1 : rest[i] = wire[(n + 1) + i - 1]
    BY <2>1, SubSeqProperties
  <2> HIDE DEF rest
  <2> QED BY <1>2, <2>2
<1>5. wire' = rest /\ ((interrupts = {} /\ queue' = queue \o chunk) \/ \E i \in interrupts : interrupts = {i} /\ queue' = queue \o RemoveAt(chunk, i))
  BY <1>1
<1> HIDE DEF chunk, rest
<1>6. \E c \in Seq(ToHandle) :
        /\ queue' = queue \o c
        /\ (\A i \in 1 .. n : wire[i].kind = "interrupt") => c = <<>>
        /\ \A k \in 1 .. n : (\A i \in 1 .. n : wire[i].kind # "interrupt" <=> i = k) => Len(c) = 1 /\ c[1] = wire[k]
  <2>1. CASE interrupts = {} /\ queue' = queue \o chunk
    <3>1. \A i \in 1 .. n : wire[i].kind # "interrupt"
      BY <2>1
    <3>2. \A i \in 1 .. Len(chunk) : chunk[i] \in ToHandle
      BY <1>2, <1>3, <3>1 DEF ToHandle
    <3>3. chunk \in Seq(ToHandle)
      BY <1>3, <3>2
    <3>4. 1 \in 1 .. n /\ n \in 1 .. n
      BY <1>2
    <3>5. ~ \A i \in 1 .. n : wire[i].kind = "interrupt"
      BY <3>1, <3>4
    <3>6. ASSUME NEW k \in 1 .. n, \A i \in 1 .. n : wire[i].kind # "interrupt" <=> i = k PROVE Len(chunk) = 1 /\ chunk[1] = wire[k]
      <4>1. k = 1 /\ n = 1
        BY <3>1, <3>4, <3>6
      <4> QED BY <1>3, <3>4, <4>1
    <3> QED BY <2>1, <3>3, <3>5, <3>6
  <2>2. ASSUME NEW i \in interrupts, interrupts = {i}, queue' = queue \o RemoveAt(chunk, i)
        PROVE  \E c \in Seq(ToHandle) :
                 /\ queue' = queue \o c
                 /\ (\A j \in 1 .. n : wire[j].kind = "interrupt") => c = <<>>
                 /\ \A k \in 1 .. n : (\A j \in 1 .. n : wire[j].kind # "interrupt" <=> j = k) => Len(c) = 1 /\ c[1] = wire[k]
    <3> DEFINE c == RemoveAt(chunk, i)
    <3>1. i \in 1 .. n /\ \A j \in 1 .. n : wire[j].kind = "interrupt" <=> j = i
      BY <2>2
    <3>2. i \in 1 .. Len(chunk) /\ \A j \in 1 .. Len(chunk) : chunk[j].kind = "interrupt" => j = i
      BY <1>3, <3>1
    <3>3. /\ c \in Seq(ToHandle) /\ Len(c) = n - 1
          /\ \A j \in 1 .. i - 1 : c[j] = chunk[j]
          /\ \A j \in i .. n - 1 : c[j] = chunk[j + 1]
      BY <1>3, <3>2, WithoutInterrupt
    <3> HIDE DEF c
    <3>4. ASSUME \A j \in 1 .. n : wire[j].kind = "interrupt" PROVE c = <<>>
      <4>1. 1 = i /\ n = i
        BY <1>2, <3>1, <3>4
      <4>2. Len(c) = 0
        BY <3>3, <4>1
      <4> QED BY <3>3, <4>2, EmptySeq
    <3>5. ASSUME NEW k \in 1 .. n, \A j \in 1 .. n : wire[j].kind # "interrupt" <=> j = k PROVE Len(c) = 1 /\ c[1] = wire[k]
      <4>1. \A j \in 1 .. n : j = i \/ j = k
        BY <3>1, <3>5
      <4>2. i # k
        BY <3>1, <3>5
      <4>3. n = 2 /\ ((i = 1 /\ k = 2) \/ (i = 2 /\ k = 1))
        <5>1. n >= 3 => 1 \in 1 .. n /\ 2 \in 1 .. n /\ 3 \in 1 .. n
          BY <1>2
        <5>2. ASSUME n >= 3 PROVE FALSE
          <6>1. (1 = i \/ 1 = k) /\ (2 = i \/ 2 = k) /\ (3 = i \/ 3 = k)
            BY <4>1, <5>1, <5>2
          <6> QED BY <6>1
        <5> QED BY <1>2, <3>1, <4>2, <5>2
      <4>4. c[1] = chunk[k]
        <5>1. CASE i = 1 /\ k = 2
          <6>1. 1 \in i .. n - 1
            BY <4>3, <5>1
          <6> QED BY <3>3, <5>1, <6>1
        <5>2. CASE i = 2 /\ k = 1
          <6>1. 1 \in 1 .. i - 1
            BY <5>2
          <6> QED BY <3>3, <5>2, <6>1
        <5> QED BY <4>3, <5>1, <5>2
      <4> QED BY <1>3, <3>3, <4>3, <4>4
    <3> QED BY <2>2, <3>3, <3>4, <3>5 DEF c
  <2> HIDE DEF interrupts
  <2> QED BY <1>5, <2>1, <2>2
<1>7. PICK c \in Seq(ToHandle) :
        /\ queue' = queue \o c
        /\ (\A i \in 1 .. n : wire[i].kind = "interrupt") => c = <<>>
        /\ \A k \in 1 .. n : (\A i \in 1 .. n : wire[i].kind # "interrupt" <=> i = k) => Len(c) = 1 /\ c[1] = wire[k]
  BY <1>6
<1> HIDE DEF interrupts
<1>8. \A j : j \in PacketsIn(rest) => j \in 1 .. Len(wire) - n /\ n + j \in PacketsIn(wire)
  <2>1. \A j \in 1 .. Len(wire) - n : n + j \in 1 .. Len(wire)
    BY <1>2
  <2> QED BY <1>4, <2>1 DEF PacketsIn
<1>9. queue' \in Seq(ToHandle)
  BY <1>7, ConcatProperties
<1>10. ASSUME PacketsIn(wire) = {} PROVE PacketsIn(rest) = {} /\ queue' = queue
  <2>1. \A i \in 1 .. n : wire[i].kind = "interrupt"
    <3>1. \A i \in 1 .. n : i \in 1 .. Len(wire)
      BY <1>2
    <3> QED BY <1>10, <3>1 DEF PacketsIn
  <2> QED BY <1>7, <1>8, <1>10, <2>1, ConcatEmptySeq
<1>11. ASSUME NEW k \in PacketsIn(wire), PacketsIn(wire) = {k}
       PROVE  \/ queue' = queue /\ \E j \in PacketsIn(rest) : PacketsIn(rest) = {j} /\ rest[j] = wire[k]
              \/ PacketsIn(rest) = {} /\ (queue = <<>> => Len(queue') = 1 /\ queue'[1] = wire[k])
  <2>1. k \in 1 .. Len(wire) /\ \A i \in 1 .. Len(wire) : wire[i].kind # "interrupt" <=> i = k
    BY <1>11 DEF PacketsIn
  <2>2. \A i \in 1 .. n : i \in 1 .. Len(wire)
    BY <1>2
  <2>3. CASE k <= n
    <3>1. k \in 1 .. n
      BY <1>2, <2>1, <2>3
    <3>2. Len(c) = 1 /\ c[1] = wire[k]
      BY <1>7, <2>1, <2>2, <3>1
    <3>3. PacketsIn(rest) = {}
      <4>1. \A j \in 1 .. Len(wire) - n : n + j # k
        BY <1>2, <2>1, <2>3
      <4> QED BY <1>8, <1>11, <4>1
    <3>4. queue = <<>> => queue' = c
      BY <1>7, ConcatEmptySeq
    <3> QED BY <3>2, <3>3, <3>4
  <2>4. CASE ~(k <= n)
    <3>1. \A i \in 1 .. n : i # k
      BY <1>2, <2>1, <2>4
    <3>2. queue' = queue
      BY <1>7, <2>1, <2>2, <3>1, ConcatEmptySeq
    <3>3. k - n \in 1 .. Len(wire) - n /\ n + (k - n) = k
      BY <1>2, <2>1, <2>4
    <3>4. rest[k - n] = wire[k] /\ k - n \in PacketsIn(rest)
      BY <1>4, <2>1, <3>3 DEF PacketsIn
    <3>5. ASSUME NEW j \in PacketsIn(rest) PROVE j = k - n
      <4>1. j \in 1 .. Len(wire) - n /\ n + j = k
        BY <1>8, <1>11
      <4> QED BY <1>2, <4>1
    <3> QED BY <3>2, <3>4, <3>5
  <2> QED BY <2>3, <2>4
<1> QED BY <1>4, <1>5, <1>9, <1>10, <1>11

\* A request of the server: its number is new.
LEMMA Requested ==
  ASSUME SessionTypes, NEW method \in Methods, NEW ps \in SUBSET Points, Request(method, ps)
  PROVE  LET e == [id |-> nextId, method |-> method, points |-> ps] IN
         /\ e \in EngineRequests /\ toEngine' = Append(toEngine, e) /\ e.id = nextId /\ e.method = method /\ e.points = ps
         /\ toEngine' \in Seq(EngineRequests) /\ IdsBelow(toEngine', nextId')
         /\ nextId' = nextId + 1 /\ nextId' \in Nat \ {0} /\ pending' = pending \cup {nextId}
         /\ pending' \subseteq 1 .. nextId' - 1 /\ nextId \in 1 .. nextId' - 1 /\ awaiting \in 0 .. nextId' - 1
         /\ IdsBelow(toServer, nextId')
         /\ ~Has(toEngine, nextId) /\ ~Has(toServer, nextId)
<1> DEFINE e == [id |-> nextId, method |-> method, points |-> ps]
<1> USE DEF SessionTypes
<1>1. e \in EngineRequests /\ e.id = nextId /\ e.method = method /\ e.points = ps
  BY DEF EngineRequests
<1>2. toEngine' = Append(toEngine, e) /\ nextId' = nextId + 1 /\ pending' = pending \cup {nextId}
  BY DEF Request
<1> HIDE DEF e
<1>3. /\ toEngine' \in Seq(EngineRequests) /\ Len(toEngine') = Len(toEngine) + 1 /\ Len(toEngine) \in Nat
      /\ toEngine'[Len(toEngine) + 1] = e
      /\ \A i \in 1 .. Len(toEngine) : toEngine'[i] = toEngine[i] /\ toEngine[i] \in EngineRequests
  BY <1>1, <1>2, Queued
<1>4. \A i \in 1 .. Len(toServer) : toServer[i] \in EngineMessages
  BY ElementOfSeq
<1>5. IdsBelow(toServer, nextId')
  <2>1. \A i \in 1 .. Len(toServer) : toServer[i].id < nextId /\ toServer[i].id \in Nat
    BY <1>4 DEF IdsBelow, EngineMessages
  <2>2. nextId \in Nat
    OBVIOUS
  <2> HIDE DEF SessionTypes
  <2>3. \A i \in 1 .. Len(toServer) : toServer[i].id < nextId + 1
    BY <2>1, <2>2
  <2> QED BY <1>2, <2>3 DEF IdsBelow
<1>6. IdsBelow(toEngine', nextId')
  <2>1. \A i \in 1 .. Len(toEngine) : toEngine[i].id < nextId /\ toEngine[i].id \in Nat
    BY <1>3 DEF IdsBelow, EngineRequests
  <2>2. \A i \in 1 .. Len(toEngine') : toEngine'[i].id <= nextId /\ toEngine'[i].id \in Nat
    <3> SUFFICES ASSUME NEW i \in 1 .. Len(toEngine') PROVE toEngine'[i].id <= nextId /\ toEngine'[i].id \in Nat
      OBVIOUS
    <3>1. CASE i \in 1 .. Len(toEngine)
      <4>1. toEngine'[i].id = toEngine[i].id
        BY <1>3, <3>1
      <4> QED BY <2>1, <3>1, <4>1
    <3>2. CASE i = Len(toEngine) + 1
      <4>1. toEngine'[i].id = nextId
        BY <1>1, <1>3, <3>2
      <4> QED BY <4>1
    <3> QED BY <1>3, <3>1, <3>2
  <2> QED BY <1>2, <2>2 DEF IdsBelow
<1>7. ~Has(toEngine, nextId) /\ ~Has(toServer, nextId)
  <2>1. \A i \in 1 .. Len(toServer) : toServer[i].id < nextId /\ toServer[i].id \in Nat
    BY <1>4 DEF IdsBelow, EngineMessages
  <2>2. \A i \in 1 .. Len(toEngine) : toEngine[i].id < nextId /\ toEngine[i].id \in Nat
    BY <1>3 DEF IdsBelow, EngineRequests
  <2>3. nextId \in Nat
    OBVIOUS
  <2> HIDE DEF SessionTypes
  <2>4. /\ \A i \in 1 .. Len(toServer) : toServer[i].id # nextId
        /\ \A i \in 1 .. Len(toEngine) : toEngine[i].id # nextId
    BY <2>1, <2>2, <2>3
  <2> QED BY <2>4 DEF Has
<1>8. pending' \subseteq 1 .. nextId' - 1 /\ nextId \in 1 .. nextId' - 1 /\ awaiting \in 0 .. nextId' - 1
  BY <1>2 DEF TypeOK
<1> QED BY <1>1, <1>2, <1>3, <1>5, <1>6, <1>7, <1>8 DEF e

LEMMA RepliedTo ==
  ASSUME SessionTypes, NEW kind \in {"OK", "E01", "g", "T", "W"}, NEW p \in Points, Answer(Reply(kind, p))
  PROVE  /\ toClient' \in Seq(Replies) /\ Len(toClient') = Len(toClient) + 1 /\ Len(toClient) \in Nat
         /\ toClient'[Len(toClient) + 1].kind = kind /\ toClient'[Len(toClient) + 1].p = p
         /\ \A i \in 1 .. Len(toClient) : toClient'[i] = toClient[i]
<1>1. Reply(kind, p) \in Replies /\ Reply(kind, p).kind = kind /\ Reply(kind, p).p = p
  BY DEF Reply, Replies
<1> DEFINE r == Reply(kind, p)
<1> HIDE DEF r
<1>2. /\ Append(toClient, r) \in Seq(Replies) /\ Len(Append(toClient, r)) = Len(toClient) + 1 /\ Len(toClient) \in Nat
      /\ Append(toClient, r)[Len(toClient) + 1] = r
      /\ \A i \in 1 .. Len(toClient) : Append(toClient, r)[i] = toClient[i]
  BY <1>1, Queued DEF r, SessionTypes
<1>3. toClient' = Append(toClient, r)
  BY DEF Answer, r
<1> QED BY <1>1, <1>2, <1>3 DEF r

LEMMA SessionTypesInit ==
  ASSUME Init, EntryAssumption, SessionAssumption
  PROVE  SessionTypes
<1>1. \A S : <<>> \in Seq(S)
  BY EmptySeq
<1>2. \A n : IdsBelow(<<>>, n)
  BY DEF IdsBelow
<1>3. TypeOK
  <2>1. Entry \in Points /\ \A S : {} \subseteq S
    BY DEF EntryAssumption
  <2>2. pending \subseteq 1 .. nextId - 1 /\ awaiting \in 0 .. nextId - 1
    BY DEF Init
  <2> QED BY <2>1, <2>2 DEF Init, EngineInit, TypeOK
<1>4. /\ wire \in Seq(Packets) /\ queue \in Seq(ToHandle)
      /\ toEngine \in Seq(EngineRequests) /\ toServer \in Seq(EngineMessages) /\ toClient \in Seq(Replies)
      /\ IdsBelow(toEngine, nextId) /\ IdsBelow(toServer, nextId)
  BY <1>1, <1>2 DEF Init
<1>5. /\ paused \in BOOLEAN /\ running \in BOOLEAN /\ pauseRequested \in BOOLEAN /\ executed \in 0 .. 2
      /\ serverRunning \in BOOLEAN /\ exitReply \in BOOLEAN /\ interrupted \in BOOLEAN
      /\ nextId \in Nat \ {0} /\ timeouts \in Nat /\ sent \in Nat /\ awaiting = 0
  <2>1. /\ executed = 0 /\ nextId = 1 /\ timeouts = 0 /\ sent = 0 /\ awaiting = 0
        /\ paused = TRUE /\ running = TRUE /\ pauseRequested = FALSE
        /\ serverRunning = FALSE /\ exitReply = FALSE /\ interrupted = FALSE
    BY DEF Init, EngineInit
  <2>2. executed \in 0 .. 2 /\ nextId \in Nat \ {0} /\ timeouts \in Nat /\ sent \in Nat
    BY <2>1
  <2> QED BY <2>1, <2>2
<1> QED BY <1>3, <1>4, <1>5 DEF SessionTypes

LEMMA EngineTypes ==
  ASSUME SessionTypes, EngineRuns \/ StopButton, EntryAssumption
  PROVE  /\ at' \in Points /\ skip' \in Points \cup {0} /\ mode' \in {"entry", "continue", "stepInstruction", "pause"}
         /\ instructionBreakpoints' \subseteq Points
         /\ paused' \in BOOLEAN /\ running' \in BOOLEAN /\ pauseRequested' \in BOOLEAN /\ executed' \in 0 .. 2
<1> USE DEF SessionTypes, TypeOK
<1>1. ASSUME Execute
      PROVE  /\ at' \in Points /\ mode' = mode /\ instructionBreakpoints' = instructionBreakpoints
             /\ paused' \in BOOLEAN /\ running' \in BOOLEAN /\ pauseRequested' \in BOOLEAN /\ executed' \in 0 .. 2
  <2>0. executed' \in 0 .. 2
    <3>1. executed' = 1 \/ executed' = 2
      BY <1>1 DEF Execute
    <3> QED BY <3>1
  <2>1. CASE OnStop
    <3>1. /\ mode' = mode /\ instructionBreakpoints' = instructionBreakpoints /\ at' = at
          /\ paused' = FALSE /\ running' = FALSE /\ pauseRequested' = pauseRequested
      BY <2>1 DEF OnStop
    <3>2. at \in Points /\ pauseRequested \in BOOLEAN
      OBVIOUS
    <3> QED BY <2>0, <3>1, <3>2
  <2>2. CASE at' \in Points /\ UNCHANGED <<paused, running, mode, pauseRequested, instructionBreakpoints, toServer>>
    <3>1. paused \in BOOLEAN /\ running \in BOOLEAN /\ pauseRequested \in BOOLEAN
      OBVIOUS
    <3> QED BY <2>0, <2>2, <3>1
  <2> QED BY <1>1, <2>1, <2>2 DEF Execute
<1>2. CASE EngineRuns /\ Skipped(at) /\ Execute
  BY <1>1, <1>2 DEF Skipped
<1>3. CASE EngineRuns /\ UNCHANGED skip /\ Execute
  BY <1>1, <1>3
<1>4. CASE EngineRuns /\ UNCHANGED skip /\ Stop(Reported(Reasons(at)))
  BY <1>4 DEF Stop
<1>5. CASE StopButton
  BY <1>5 DEF StopButton, OnStop
<1> QED BY <1>2, <1>3, <1>4, <1>5 DEF EngineRuns, Boundary

LEMMA SessionTypesNext ==
  ASSUME SessionTypes, [Next]_vars, EntryAssumption, SessionAssumption
  PROVE  SessionTypes'
<1> USE DEF SessionTypes, TypeOK
<1> DEFINE EngineTyped == /\ at \in Points /\ skip \in Points \cup {0} /\ mode \in {"entry", "continue", "stepInstruction", "pause"}
                          /\ instructionBreakpoints \subseteq Points
                          /\ paused \in BOOLEAN /\ running \in BOOLEAN /\ pauseRequested \in BOOLEAN /\ executed \in 0 .. 2
<1>1. ASSUME UNCHANGED vars PROVE SessionTypes'
  BY <1>1 DEF vars, engineVars, serverVars, clientVars
<1>2. ASSUME ClientCommands PROVE SessionTypes'
  <2>1. PICK x \in Packets : Send(x)
    <3>1. \A k \in {"c", "s", "g", "Z0", "z0"}, p \in Points : Packet(k, p) \in Packets
      BY DEF Packet, Packets
    <3> QED BY <1>2, <3>1, EntryAssumption DEF ClientCommands, EntryAssumption
  <2>2. wire' \in Seq(Packets) /\ sent' \in Nat
    BY <2>1 DEF Send
  <2>3. client' \in {"running", "waiting"} /\ interrupted' \in BOOLEAN
    BY <1>2 DEF ClientCommands
  <2> QED BY <1>2, <2>2, <2>3 DEF ClientCommands, engineVars, serverVars
<1>3. ASSUME ClientInterrupts PROVE SessionTypes'
  <2>1. Packet("interrupt", Entry) \in Packets
    BY EntryAssumption DEF Packet, Packets, EntryAssumption
  <2>2. wire' \in Seq(Packets)
    BY <1>3, <2>1 DEF ClientInterrupts
  <2> QED BY <1>3, <2>2 DEF ClientInterrupts, engineVars, serverVars
<1>4. ASSUME ClientReceives PROVE SessionTypes'
  <2>1. toClient' \in Seq(Replies) /\ Head(toClient) \in Replies
    BY <1>4, Dequeued DEF ClientReceives
  <2>2. client' \in {"ready", "exited"} /\ pc' \in Points
    BY <1>4, <2>1 DEF ClientReceives, Replies
  <2> QED BY <1>4, <2>1, <2>2 DEF ClientReceives, engineVars, serverVars
<1>5. ASSUME Feed PROVE SessionTypes'
  <2>1. wire' \in Seq(Packets) /\ queue' \in Seq(ToHandle)
    BY <1>5, FeedMoves
  <2>2. CASE UNCHANGED <<toEngine, nextId, pending>>
    BY <1>5, <2>1, <2>2 DEF Feed, engineVars, clientVars
  <2>3. CASE Request("pause", {})
    <3>1. /\ toEngine' \in Seq(EngineRequests) /\ IdsBelow(toEngine', nextId') /\ nextId' \in Nat \ {0}
          /\ pending' = pending \cup {nextId} /\ pending' \subseteq 1 .. nextId' - 1 /\ awaiting \in 0 .. nextId' - 1
          /\ IdsBelow(toServer, nextId')
      <4> DEFINE m == "pause"
                 ps == {}
      <4>1. m \in Methods /\ ps \in SUBSET Points /\ Request(m, ps)
        BY <2>3 DEF Methods
      <4> HIDE DEF m, ps
      <4> QED BY <4>1, Requested
    <3> QED BY <1>5, <2>1, <3>1 DEF Feed, engineVars, clientVars
  <2> QED BY <1>5, <2>2, <2>3 DEF Feed
<1>6. ASSUME Handle PROVE SessionTypes'
  <2>1. queue' \in Seq(ToHandle) /\ Head(queue) \in ToHandle /\ Head(queue).p \in Points
    <3>1. queue' \in Seq(ToHandle) /\ Head(queue) \in ToHandle
      BY <1>6, Dequeued DEF Handle
    <3> QED BY <3>1 DEF ToHandle, Packets
  <2>2. NewBreaks(Head(queue)) \subseteq Points
    BY <2>1 DEF NewBreaks
  <2>3. PICK method \in Methods, ps \in SUBSET Points : Request(method, ps)
    BY <1>6, <2>2 DEF Handle, Methods
  <2>4. /\ toEngine' \in Seq(EngineRequests) /\ IdsBelow(toEngine', nextId') /\ nextId' \in Nat \ {0}
        /\ pending' = pending \cup {nextId} /\ pending' \subseteq 1 .. nextId' - 1 /\ nextId \in 1 .. nextId' - 1
        /\ IdsBelow(toServer, nextId')
    BY <2>3, Requested
  <2>5. breaks' \subseteq Points /\ serverRunning' \in BOOLEAN
    BY <1>6, <2>2 DEF Handle
  <2>6. command' \in ToHandle /\ awaiting' = nextId /\ awaiting' \in 0 .. nextId' - 1 /\ awaiting' \in pending'
    BY <1>6, <2>1, <2>4 DEF Handle
  <2> QED BY <1>6, <2>1, <2>4, <2>5, <2>6 DEF Handle, engineVars, clientVars
<1>7. ASSUME NEW m \in EngineMessages, m.type \in {"result", "error"}, Completed(m) PROVE awaiting' = 0 /\ serverRunning' \in BOOLEAN /\ toClient' \in Seq(Replies)
  <2>1. m.at \in Points
    BY <1>7 DEF EngineMessages
  <2>2. Entry \in Points
    BY EntryAssumption DEF EntryAssumption
  <2>3. serverRunning' \in BOOLEAN /\ awaiting' = 0
    BY <1>7 DEF Completed, RunningAfter
  <2>4. UNCHANGED toClient \/ \E kind \in {"OK", "E01", "g"}, p \in Points : Answer(Reply(kind, p))
    BY <1>7, <2>1, <2>2 DEF Completed
  <2>5. toClient' \in Seq(Replies)
    BY <2>4, RepliedTo
  <2> QED BY <2>3, <2>5
<1>8. ASSUME Timeout PROVE SessionTypes'
  <2>1. PICK id \in pending : pending' = pending \ {id} /\ Failed(id)
    BY <1>8 DEF Timeout
  <2>2. Message("error", id, Entry, "timeout") \in EngineMessages
    BY EntryAssumption DEF Message, EngineMessages, EntryAssumption, Told
  <2>3. Message("error", id, Entry, "timeout").type = "error"
    BY DEF Message
  <2>4. /\ serverRunning' \in BOOLEAN /\ toClient' \in Seq(Replies)
        /\ awaiting' = 0 \/ (awaiting' = awaiting /\ id # awaiting)
    BY <1>7, <2>1, <2>2, <2>3 DEF Failed
  <2>5. timeouts' \in Nat /\ pending' \subseteq pending /\ (awaiting' # 0 => awaiting' \in pending') /\ awaiting' \in 0 .. nextId - 1
    BY <1>8, <2>1, <2>4 DEF Timeout
  <2> QED BY <1>8, <2>4, <2>5 DEF Timeout, engineVars, clientVars
<1>9. ASSUME ServerReceives PROVE SessionTypes'
  <2> DEFINE m == Head(toServer)
  <2>1. toServer # <<>> /\ toServer' = Tail(toServer)
    BY <1>9 DEF ServerReceives
  <2>2. /\ m \in EngineMessages /\ Tail(toServer) \in Seq(EngineMessages) /\ Len(toServer) \in Nat \ {0}
        /\ Len(Tail(toServer)) = Len(toServer) - 1
        /\ \A i \in 1 .. Len(toServer) - 1 : Tail(toServer)[i] = toServer[i + 1]
    BY <2>1, Dequeued
  <2>3. IdsBelow(toServer', nextId)
    <3>1. \A i \in 1 .. Len(toServer) - 1 : i + 1 \in 1 .. Len(toServer)
      BY <2>2
    <3> QED BY <2>1, <2>2, <3>1 DEF IdsBelow
  <2> HIDE DEF m
  <2>4. Entry \in Points /\ m.at \in Points /\ m.type \in {"result", "error", "stopped", "terminated"}
    BY <2>2, EntryAssumption DEF EntryAssumption, EngineMessages
  <2>5. /\ serverRunning' \in BOOLEAN /\ toClient' \in Seq(Replies) /\ exitReply' \in BOOLEAN
        /\ pending' \subseteq pending /\ (awaiting' # 0 => awaiting' \in pending') /\ awaiting' \in 0 .. nextId - 1
    <3>1. CASE m.type \in {"result", "error"}
      <4>1. pending' = pending \ {m.id} /\ UNCHANGED exitReply
        BY <1>9, <3>1 DEF ServerReceives, m
      <4>2. CASE IsAwaited(m)
        <5>1. Completed(m)
          BY <1>9, <3>1, <4>2 DEF ServerReceives, m
        <5> QED BY <1>7, <2>2, <3>1, <4>1, <5>1
      <4>3. CASE ~IsAwaited(m)
        <5>1. UNCHANGED <<awaiting, serverRunning, toClient>>
          BY <1>9, <3>1, <4>3 DEF ServerReceives, m
        <5>2. awaiting # 0 => m.id # awaiting
          BY <4>3 DEF IsAwaited
        <5> QED BY <4>1, <5>1, <5>2
      <4> QED BY <4>2, <4>3
    <3>2. CASE m.type = "stopped"
      <4>1. /\ serverRunning' = FALSE /\ UNCHANGED <<pending, awaiting, exitReply>>
            /\ Answer(Reply("T", m.at)) \/ UNCHANGED toClient
        BY <1>9, <3>2 DEF ServerReceives, m
      <4>2. toClient' \in Seq(Replies)
        BY <2>4, <4>1, RepliedTo
      <4> QED BY <4>1, <4>2
    <3>3. CASE m.type = "terminated"
      <4>1. serverRunning' = FALSE /\ UNCHANGED <<pending, awaiting>> /\ exitReply' = TRUE /\ Answer(Reply("W", Entry))
        BY <1>9, <3>3 DEF ServerReceives, m
      <4>2. toClient' \in Seq(Replies)
        BY <2>4, <4>1, RepliedTo
      <4> QED BY <4>1, <4>2
    <3> QED BY <2>4, <3>1, <3>2, <3>3
  <2>6. pending' \subseteq 1 .. nextId - 1
    BY <2>5
  <2>7. UNCHANGED <<engineVars, wire, queue, command, breaks, nextId, toEngine, clientVars, timeouts>>
    BY <1>9 DEF ServerReceives
  <2>8. TypeOK'
    BY <2>5, <2>6, <2>7 DEF engineVars, clientVars
  <2>9. /\ (paused \in BOOLEAN)' /\ (running \in BOOLEAN)' /\ (pauseRequested \in BOOLEAN)' /\ (executed \in 0 .. 2)'
        /\ (interrupted \in BOOLEAN)' /\ (nextId \in Nat \ {0})' /\ (timeouts \in Nat)' /\ (sent \in Nat)'
        /\ (wire \in Seq(Packets))' /\ (queue \in Seq(ToHandle))'
        /\ (toEngine \in Seq(EngineRequests))' /\ IdsBelow(toEngine, nextId)' /\ IdsBelow(toServer, nextId)'
    BY <2>3, <2>7 DEF engineVars, clientVars
  <2>10. (awaiting # 0 => command \in ToHandle)'
    <3>1. awaiting' # 0 => awaiting # 0
      BY <1>9, <2>4 DEF ServerReceives, Completed, m
    <3> QED BY <2>7, <3>1
  <2>11. toServer' \in Seq(EngineMessages)
    BY <2>1, <2>2
  <2> QED BY <2>5, <2>8, <2>9, <2>10, <2>11
<1>10. ASSUME NEW e \in EngineMessages, e.id < nextId, toServer' = Append(toServer, e)
       PROVE  toServer' \in Seq(EngineMessages) /\ IdsBelow(toServer', nextId)
  <2>1. /\ toServer' \in Seq(EngineMessages) /\ Len(toServer') = Len(toServer) + 1 /\ Len(toServer) \in Nat
        /\ \A i \in 1 .. Len(toServer) : toServer'[i] = toServer[i]
        /\ toServer'[Len(toServer) + 1] = e
    BY <1>10, Queued
  <2>2. \A i \in 1 .. Len(toServer') : i \in 1 .. Len(toServer) \/ i = Len(toServer) + 1
    BY <2>1
  <2> QED BY <1>10, <2>1, <2>2 DEF IdsBelow
<1>11. ASSUME EngineReceives PROVE SessionTypes'
  <2> DEFINE r == Head(toEngine)
  <2>1. toEngine # <<>> /\ toEngine' = Tail(toEngine) /\ r \in EngineRequests
    BY <1>11, EngineAnswers
  <2>2. toServer' \in Seq(EngineMessages) /\ IdsBelow(toServer', nextId)
    BY <1>10, <1>11, EngineAnswers
  <2>3. toEngine' \in Seq(EngineRequests) /\ IdsBelow(toEngine', nextId)
    <3>1. /\ Tail(toEngine) \in Seq(EngineRequests) /\ Len(toEngine) \in Nat \ {0}
          /\ Len(Tail(toEngine)) = Len(toEngine) - 1
          /\ \A i \in 1 .. Len(toEngine) - 1 : Tail(toEngine)[i] = toEngine[i + 1]
      BY <2>1, Dequeued
    <3>2. \A i \in 1 .. Len(toEngine) - 1 : i + 1 \in 1 .. Len(toEngine)
      BY <3>1
    <3> QED BY <2>1, <3>1, <3>2 DEF IdsBelow
  <2> HIDE DEF r
  <2>4. r.points \in SUBSET Points
    BY <2>1 DEF EngineRequests
  <2>5. EngineTyped'
    <3>1. ASSUME NEW m \in {"continue", "stepInstruction"}, Resume(m) PROVE EngineTyped'
      <4>1. UNCHANGED <<running, instructionBreakpoints, at>> /\ mode' = m /\ pauseRequested' = FALSE
        BY <3>1 DEF Resume
      <4>2. skip' \in Points \cup {0} /\ paused' \in BOOLEAN /\ executed' \in 0 .. 2
        <5>1. CASE paused
          <6>1. skip' = at /\ paused' = FALSE /\ executed' = 0
            BY <3>1, <5>1 DEF Resume
          <6>2. executed' \in 0 .. 2
            BY <6>1
          <6>3. skip' \in Points \cup {0}
            BY <6>1
          <6> QED BY <6>1, <6>2, <6>3
        <5>2. CASE ~paused
          <6>1. UNCHANGED <<skip, paused, executed>>
            BY <3>1, <5>2 DEF Resume
          <6> QED BY <6>1
        <5> QED BY <5>1, <5>2
      <4>3. mode' \in {"entry", "continue", "stepInstruction", "pause"}
        BY <4>1
      <4> QED BY <4>1, <4>2, <4>3
    <3>2. ASSUME Pause PROVE EngineTyped'
      BY <3>2 DEF Pause
    <3>3. ASSUME SetIRBreakpoints(r.points) PROVE EngineTyped'
      BY <2>4, <3>3 DEF SetIRBreakpoints
    <3>4. ASSUME UNCHANGED engineVars PROVE EngineTyped'
      BY <3>4 DEF engineVars
    <3> HIDE DEF EngineTyped
    <3> QED BY <1>11, <3>1, <3>2, <3>3, <3>4 DEF EngineReceives, r
  <2> QED BY <1>11, <2>2, <2>3, <2>5 DEF EngineReceives, serverVars, clientVars
<1>12. ASSUME EngineRuns \/ StopButton PROVE SessionTypes'
  <2>1. EngineTyped'
    BY <1>12, EngineTypes
  <2>2. toServer' \in Seq(EngineMessages) /\ IdsBelow(toServer', nextId)
    <3>1. 0 < nextId
      OBVIOUS
    <3> QED BY <1>10, <1>12, <3>1, EngineEvents
  <2>3. UNCHANGED <<wire, serverVars, toEngine, toClient, clientVars, timeouts>>
    BY <1>12 DEF EngineRuns, StopButton
  <2> QED BY <2>1, <2>2, <2>3 DEF serverVars, clientVars
<1> QED BY <1>1, <1>2, <1>3, <1>4, <1>5, <1>6, <1>8, <1>9, <1>11, <1>12 DEF Next

-----------------------------------------------------------------------------
LEMMA PacketSent ==
  ASSUME NEW w \in Seq(Packets), NEW x \in Packets
  PROVE  /\ PacketsIn(Append(w, x)) = IF x.kind = "interrupt" THEN PacketsIn(w) ELSE PacketsIn(w) \cup {Len(w) + 1}
         /\ \A k \in PacketsIn(w) : Append(w, x)[k] = w[k]
         /\ Append(w, x)[Len(w) + 1] = x
<1> DEFINE t == Append(w, x)
<1>1. /\ Len(t) = Len(w) + 1 /\ Len(w) \in Nat /\ t[Len(w) + 1] = x
      /\ \A i \in 1 .. Len(w) : t[i] = w[i]
  BY Queued
<1> HIDE DEF t
<1>2. \A i : i \in 1 .. Len(t) <=> i \in 1 .. Len(w) \/ i = Len(w) + 1
  BY <1>1
<1>3. \A k \in PacketsIn(w) : t[k] = w[k]
  BY <1>1 DEF PacketsIn
<1>4. PacketsIn(t) = IF x.kind = "interrupt" THEN PacketsIn(w) ELSE PacketsIn(w) \cup {Len(w) + 1}
  <2>1. \A i : i \in PacketsIn(t) <=> i \in PacketsIn(w) \/ (i = Len(w) + 1 /\ x.kind # "interrupt")
    BY <1>1, <1>2 DEF PacketsIn
  <2> QED BY <2>1
<1> QED BY <1>1, <1>3, <1>4 DEF t

\* What LLDB does leaves the server and the engine as they are.
LEMMA Apart ==
  ASSUME SessionAgrees,
         UNCHANGED <<engineVars, toServer, toEngine, awaiting, command, serverRunning, breaks, exitReply, timeouts>>
  PROVE  /\ EndTold'
         /\ ~exitReply' /\ timeouts' <= 1 =>
              Token /\ StaleAlone' /\ StopsLast' /\ (awaiting' # 0 => Unacted' \/ Acted')
         /\ ~exitReply' /\ timeouts' = 0 => InStep'
         /\ running' /\ timeouts' = 0 => Token /\ Placed /\ BreakpointsAgree'
<1> USE DEF engineVars
<1>1. EndTold'
  BY DEF SessionAgrees, EndTold
<1>2. Left' = Left /\ Still' = Still /\ Unacted' = Unacted /\ Acted' = Acted
  BY DEF Left, Still, Unacted, Acted
<1>3. ResumptionActed' = ResumptionActed /\ ResumptionUnacted' = ResumptionUnacted
  BY <1>2 DEF ResumptionActed, ResumptionUnacted
<1>4. StaleAlone => StaleAlone'
  BY <1>2 DEF StaleAlone
<1>5. StopsLast => StopsLast'
  BY <1>2, <1>3 DEF StopsLast
<1>6. InStep => InStep'
  BY <1>2, <1>3 DEF InStep
<1>7. BreakpointsAgree => BreakpointsAgree'
  BY <1>2 DEF BreakpointsAgree
<1>8. running /\ timeouts = 0 => ~exitReply /\ timeouts <= 1
  BY DEF SessionAgrees, EndTold
<1> QED BY <1>1, <1>2, <1>4, <1>5, <1>6, <1>7, <1>8 DEF SessionAgrees, InOrder

LEMMA LldbCommands ==
  ASSUME SessionTypes, SessionAgrees, ClientCommands, EntryAssumption
  PROVE  SessionAgrees'
<1> USE DEF SessionTypes, TypeOK
<1>1. UNCHANGED <<engineVars, toServer, toEngine, awaiting, command, serverRunning, breaks, exitReply, timeouts>>
  BY DEF ClientCommands, serverVars
<1>2. client = "ready" /\ UNCHANGED <<queue, toClient, pc>>
  BY DEF ClientCommands, serverVars
<1>3. PICK x \in Packets : x.kind # "interrupt" /\ wire' = Append(wire, x) /\ client' = IF Resumes(x) THEN "running" ELSE "waiting"
  <2>1. \A k \in {"c", "s", "g", "Z0", "z0"}, p \in Points :
          Packet(k, p) \in Packets /\ Packet(k, p).kind # "interrupt" /\ (Resumes(Packet(k, p)) <=> k \in {"c", "s"})
    BY DEF Packet, Packets, Resumes
  <2>2. Entry \in Points
    BY EntryAssumption DEF EntryAssumption
  <2>3. \E k \in {"c", "s", "g", "Z0", "z0"}, p \in Points : Send(Packet(k, p)) /\ client' = IF k \in {"c", "s"} THEN "running" ELSE "waiting"
    BY <2>2 DEF ClientCommands
  <2> QED BY <2>1, <2>3 DEF Send
<1>4. Token => Token'
  <2> SUFFICES ASSUME Token PROVE Token'
    OBVIOUS
  <2>1. AtLldb
    BY <1>2 DEF Token, OnWire, InQueue, Querying, Running, IsReplied, IsReply, Waits
  <2>2. PacketsIn(wire') = {Len(wire) + 1} /\ wire'[Len(wire) + 1] = x
    BY <1>3, <2>1, PacketSent DEF AtLldb, NothingSent
  <2>3. NotHandled'
    BY <1>1, <2>1 DEF AtLldb, NotHandled, Left
  <2>4. client' = IF Resumes(wire'[Len(wire) + 1]) THEN "running" ELSE "waiting"
    BY <1>3, <2>2
  <2>5. OnWire'
    BY <1>2, <2>1, <2>2, <2>3, <2>4 DEF OnWire, AtLldb, NothingSent, Waits
  <2> QED BY <2>5 DEF Token
<1>5. Placed /\ Token => Placed'
  <2> SUFFICES ASSUME Placed, Token PROVE Placed'
    OBVIOUS
  <2>1. AtLldb
    BY <1>2 DEF Token, OnWire, InQueue, Querying, Running, IsReplied, IsReply, Waits
  <2>2. pc' = at' /\ toClient' = <<>>
    BY <1>1, <1>2, <2>1 DEF Placed, AtLldb, engineVars
  <2>3. Len(toClient') = 0
    BY <2>2
  <2> QED BY <1>1, <2>2, <2>3 DEF Placed, engineVars
<1> QED BY <1>1, <1>4, <1>5, Apart DEF SessionAgrees, InOrder

LEMMA LldbInterrupts ==
  ASSUME SessionTypes, SessionAgrees, ClientInterrupts, EntryAssumption
  PROVE  SessionAgrees'
<1> USE DEF SessionTypes, TypeOK
<1>1. UNCHANGED <<engineVars, toServer, toEngine, awaiting, command, serverRunning, breaks, exitReply, timeouts>>
  BY DEF ClientInterrupts, serverVars
<1>2. UNCHANGED <<queue, toClient, pc, client>> /\ wire' = Append(wire, Packet("interrupt", Entry))
  BY DEF ClientInterrupts, serverVars
<1>3. PacketsIn(wire') = PacketsIn(wire) /\ \A k \in PacketsIn(wire) : wire'[k] = wire[k]
  <2>1. Packet("interrupt", Entry) \in Packets /\ Packet("interrupt", Entry).kind = "interrupt"
    BY EntryAssumption DEF Packet, Packets, EntryAssumption
  <2> QED BY <1>2, <2>1, PacketSent
<1>4. Token => Token'
  <2> SUFFICES ASSUME Token PROVE Token'
    OBVIOUS
  <2>1. (NothingSent => NothingSent') /\ (NotHandled => NotHandled')
    BY <1>1, <1>2, <1>3 DEF NothingSent, NotHandled, Left
  <2>2. OnWire => OnWire'
    BY <1>2, <1>3, <2>1 DEF OnWire, Waits
  <2>3. (AtLldb => AtLldb') /\ (Querying => Querying') /\ (Running => Running')
    BY <1>1, <1>2, <2>1 DEF AtLldb, Querying, Running
  <2>4. (InQueue => InQueue') /\ (IsReplied => IsReplied')
    BY <1>2, <1>3, <2>1 DEF InQueue, IsReplied, Waits, IsReply
  <2> QED BY <2>2, <2>3, <2>4 DEF Token
<1>5. Placed => Placed'
  BY <1>1, <1>2 DEF Placed, engineVars
<1> QED BY <1>1, <1>4, <1>5, Apart DEF SessionAgrees, InOrder

LEMMA LldbReceives ==
  ASSUME SessionTypes, SessionAgrees, ClientReceives
  PROVE  SessionAgrees'
<1> USE DEF SessionTypes, TypeOK
<1>1. UNCHANGED <<engineVars, toServer, toEngine, awaiting, command, serverRunning, breaks, exitReply, timeouts>>
  BY DEF ClientReceives, serverVars
<1>2. UNCHANGED <<wire, queue>> /\ toClient # <<>> /\ toClient' = Tail(toClient)
  BY DEF ClientReceives, serverVars
<1> DEFINE r == Head(toClient)
<1>3. /\ client' = IF client = "exited" \/ r.kind = "W" THEN "exited" ELSE "ready"
      /\ pc' = IF r.kind \in {"T", "g"} THEN r.p ELSE pc
  BY DEF ClientReceives
<1>4. r = toClient[1] /\ r \in Replies /\ Len(toClient') = Len(toClient) - 1 /\ Len(toClient) \in Nat \ {0} /\ toClient' \in Seq(Replies)
  BY <1>2, Dequeued
<1> HIDE DEF r
<1>5. ASSUME Token PROVE IsReplied /\ client # "exited" /\ client' = "ready" /\ toClient' = <<>>
  <2>1. IsReplied
    BY <1>2, <1>5 DEF Token, AtLldb, OnWire, InQueue, Querying, Running
  <2>2. IsReply(r) /\ Len(toClient') = 0
    BY <1>4, <2>1 DEF IsReplied
  <2>3. client # "exited" /\ r.kind # "W"
    BY <2>2 DEF IsReply
  <2> QED BY <1>3, <1>4, <2>1, <2>2, <2>3, EmptySeq
<1>6. Token => Token'
  <2> SUFFICES ASSUME Token PROVE Token'
    OBVIOUS
  <2>1. NothingSent' /\ NotHandled'
    BY <1>1, <1>2, <1>5 DEF IsReplied, NothingSent, NotHandled, Left
  <2> QED BY <1>5, <2>1 DEF Token, AtLldb
<1>7. Placed /\ Token => Placed'
  <2> SUFFICES ASSUME Placed, Token PROVE Placed'
    OBVIOUS
  <2>1. IsReply(r) /\ 1 \in 1 .. Len(toClient)
    BY <1>4, <1>5 DEF IsReplied
  <2>2. (r.kind \in {"T", "g"} => r.p = at) /\ (r.kind = "E01" => client = "waiting")
    BY <1>4, <2>1 DEF Placed
  <2>3. r.kind \in {"T", "g"} \/ client = "waiting"
    BY <2>1, <2>2 DEF IsReply
  <2>4. pc' = at
    BY <1>3, <2>2, <2>3 DEF Placed
  <2>5. toClient' = <<>> /\ Len(toClient') = 0
    BY <1>5
  <2> QED BY <1>1, <2>4, <2>5 DEF Placed, engineVars
<1> QED BY <1>1, <1>6, <1>7, Apart DEF SessionAgrees, InOrder

\* Nothing happens.
LEMMA SessionRests ==
  ASSUME SessionAgrees, UNCHANGED vars
  PROVE  SessionAgrees'
<1> USE DEF vars, engineVars, serverVars, clientVars
<1>1. Token => Token'
  <2>1. (NothingSent => NothingSent') /\ (NotHandled => NotHandled')
    BY DEF NothingSent, NotHandled, Left
  <2> QED BY <2>1 DEF Token, AtLldb, OnWire, InQueue, Querying, Running, IsReplied, Waits, IsReply
<1>2. Placed => Placed'
  BY DEF Placed
<1> QED BY <1>1, <1>2, Apart DEF SessionAgrees, InOrder

\* The token moves on with what a chunk brings.
LEMMA FeedToken ==
  ASSUME SessionTypes, Token, Feed
  PROVE  Token'
<1> USE DEF SessionTypes
<1>1. UNCHANGED <<engineVars, toServer, awaiting, command, serverRunning, breaks, exitReply, toClient, clientVars, timeouts>>
  BY DEF Feed
<1>2. NotHandled => NotHandled'
  BY <1>1 DEF NotHandled, Left
<1>3. ASSUME PacketsIn(wire) = {} PROVE PacketsIn(wire') = {} /\ queue' = queue
  BY <1>3, FeedMoves
<1>4. NothingSent => NothingSent'
  BY <1>3 DEF NothingSent
<1>5. (AtLldb => AtLldb') /\ (Querying => Querying') /\ (Running => Running')
  BY <1>1, <1>2, <1>4 DEF AtLldb, Querying, Running, clientVars
<1>6. InQueue => InQueue'
  BY <1>1, <1>2, <1>3 DEF InQueue, Waits, clientVars
<1>7. IsReplied => IsReplied'
  BY <1>1, <1>2, <1>4 DEF IsReplied, IsReply, clientVars
<1>8. OnWire => OnWire' \/ InQueue'
  <2> SUFFICES ASSUME OnWire PROVE OnWire' \/ InQueue'
    OBVIOUS
  <2>1. PICK k \in PacketsIn(wire) : PacketsIn(wire) = {k} /\ Waits(wire[k])
    BY DEF OnWire
  <2>2. \/ queue' = queue /\ \E j \in PacketsIn(wire') : PacketsIn(wire') = {j} /\ wire'[j] = wire[k]
        \/ PacketsIn(wire') = {} /\ (queue = <<>> => Len(queue') = 1 /\ queue'[1] = wire[k])
    BY <2>1, FeedMoves
  <2>3. CASE queue' = queue /\ \E j \in PacketsIn(wire') : PacketsIn(wire') = {j} /\ wire'[j] = wire[k]
    BY <1>1, <1>2, <2>1, <2>3 DEF OnWire, Waits, clientVars
  <2>4. CASE PacketsIn(wire') = {} /\ Len(queue') = 1 /\ queue'[1] = wire[k]
    BY <1>1, <1>2, <2>1, <2>4 DEF OnWire, InQueue, Waits, clientVars
  <2> QED BY <2>2, <2>3, <2>4 DEF OnWire
<1> QED BY <1>5, <1>6, <1>7, <1>8 DEF Token

LEMMA ChunkRead ==
  ASSUME SessionTypes, SessionAgrees, Feed
  PROVE  SessionAgrees'
<1> USE DEF SessionTypes
<1>1. UNCHANGED <<engineVars, toServer, awaiting, command, serverRunning, breaks, exitReply, toClient, clientVars, timeouts>>
  BY DEF Feed
<1>2. Token => Token'
  BY FeedToken
<1>3. Placed => Placed'
  BY <1>1 DEF Placed, engineVars, clientVars
<1>4. CASE UNCHANGED toEngine
  BY <1>1, <1>2, <1>3, <1>4, Apart DEF SessionAgrees, InOrder
<1>5. CASE Request("pause", {})
  <2>1. PICK e \in EngineRequests :
          toEngine' = Append(toEngine, e) /\ e.id = nextId /\ e.method = "pause" /\ nextId \in Nat \ {0}
    <3>1. "pause" \in Methods /\ {} \in SUBSET Points
      BY DEF Methods
    <3> DEFINE e == [id |-> nextId, method |-> "pause", points |-> {}]
    <3>2. e \in EngineRequests /\ toEngine' = Append(toEngine, e) /\ e.id = nextId /\ e.method = "pause"
      BY <1>5, <3>1, Requested
    <3>3. nextId \in Nat \ {0}
      OBVIOUS
    <3> HIDE DEF e
    <3> QED BY <3>2, <3>3
  <2>2. e.id # awaiting /\ ~IsStale(e, awaiting)
    BY <2>1 DEF TypeOK, IsStale
  <2>3. /\ \A method : AsksFor(toEngine, awaiting, method) => AsksFor(toEngine', awaiting, method)
        /\ HasStale(toEngine', awaiting) => HasStale(toEngine, awaiting)
        /\ OneStale(toEngine, awaiting) => OneStale(toEngine', awaiting)
        /\ StaleFirst(toEngine, awaiting) => StaleFirst(toEngine', awaiting)
    BY <2>1, <2>2, ServerAsks
  <2>4. \A id, ps : SendsBreaks(toEngine, id, ps) => SendsBreaks(toEngine', id, ps)
    BY <2>1, ServerAsks
  <2>5. Has(toEngine', awaiting) <=> Has(toEngine, awaiting)
    BY <2>1, <2>2, IdAppended
  <2>6. EndTold' /\ Left' = Left /\ Still' = Still /\ ResumptionActed' = ResumptionActed
    BY <1>1, <2>5 DEF SessionAgrees, EndTold, Left, Still, ResumptionActed, Acted, engineVars
  <2>7. Unacted => Unacted'
    BY <1>1, <2>3 DEF Unacted
  <2>8. Acted => Acted'
    BY <1>1, <2>5 DEF Acted
  <2>9. StaleAlone => StaleAlone'
    BY <1>1, <2>3, <2>6, <2>7 DEF StaleAlone
  <2>10. StopsLast => StopsLast'
    BY <1>1, <2>6 DEF StopsLast
  <2>11. ASSUME InStep, awaiting # 0 => Unacted \/ Acted PROVE InStep'
    <3>1. ResumptionUnacted' => ResumptionUnacted
      <4>1. Unacted' => Has(toEngine', awaiting)
        BY <1>1 DEF Unacted, AsksFor, HasOne, Has
      <4> QED BY <1>1, <2>5, <2>11, <4>1 DEF ResumptionUnacted, Acted
    <3> QED BY <1>1, <2>6, <2>11, <3>1 DEF InStep
  <2>12. BreakpointsAgree => BreakpointsAgree'
    BY <1>1, <2>4, <2>7 DEF BreakpointsAgree, engineVars
  <2>13. running /\ timeouts = 0 => ~exitReply /\ timeouts <= 1
    BY DEF SessionAgrees, EndTold
  <2> QED BY <1>1, <1>2, <1>3, <2>6, <2>7, <2>8, <2>9, <2>10, <2>11, <2>12, <2>13 DEF SessionAgrees, InOrder, engineVars
<1> QED BY <1>4, <1>5 DEF Feed

LEMMA PacketHandled ==
  ASSUME SessionTypes, SessionAgrees, Handle
  PROVE  SessionAgrees'
<1> USE DEF SessionTypes
<1> DEFINE x == Head(queue)
<1>1. UNCHANGED <<engineVars, toServer, wire, exitReply, toClient, clientVars, timeouts>>
  BY DEF Handle
<1>2. queue # <<>> /\ awaiting = 0 /\ queue' = Tail(queue) /\ command' = x /\ awaiting' = nextId
  BY DEF Handle
<1>3. x = queue[1] /\ x \in ToHandle /\ Len(queue') = Len(queue) - 1 /\ Len(queue) \in Nat \ {0} /\ queue' \in Seq(ToHandle)
  BY <1>2, Dequeued
<1> HIDE DEF x
<1>4. x.kind \in {"c", "s", "g", "Z0", "z0"} /\ x.p \in Points
  BY <1>3 DEF ToHandle, Packets
<1>5. NewBreaks(x) \subseteq Points
  BY <1>4 DEF NewBreaks, TypeOK
<1>6. \E ps \in SUBSET Points :
        /\ Request(RequestOf(x), ps)
        /\ RequestOf(x) = "setIRBreakpoints" => ps = breaks'
        /\ ~(x.kind \in {"Z0", "z0"}) => breaks' = breaks
        /\ serverRunning' = IF Resumes(x) THEN TRUE ELSE serverRunning
  <2>1. CASE x.kind = "c" \/ x.kind = "s" \/ x.kind = "g"
    <3>1. Request(RequestOf(x), {}) /\ breaks' = breaks /\ serverRunning' = IF Resumes(x) THEN TRUE ELSE serverRunning
      BY <2>1 DEF Handle, RequestOf, Resumes, x
    <3>2. RequestOf(x) # "setIRBreakpoints" /\ {} \in SUBSET Points
      BY <2>1 DEF RequestOf
    <3> QED BY <3>1, <3>2
  <2>2. CASE x.kind \in {"Z0", "z0"}
    <3>1. Request(RequestOf(x), NewBreaks(x)) /\ breaks' = NewBreaks(x) /\ serverRunning' = serverRunning /\ ~Resumes(x)
      BY <2>2 DEF Handle, RequestOf, Resumes, x
    <3> QED BY <1>5, <2>2, <3>1
  <2> QED BY <1>4, <2>1, <2>2
<1>7. RequestOf(x) \in Methods /\ (RequestOf(x) = "setIRBreakpoints" <=> x.kind \in {"Z0", "z0"})
  BY <1>4 DEF RequestOf, Methods
<1>8. PICK e \in EngineRequests :
        /\ toEngine' = Append(toEngine, e) /\ e.id = nextId /\ e.method = RequestOf(x) /\ nextId \in Nat \ {0}
        /\ e.method = "setIRBreakpoints" => e.points = breaks'
        /\ ~Has(toEngine, nextId) /\ ~Has(toServer, nextId)
  <2> DEFINE m == RequestOf(x)
  <2>1. PICK ps \in SUBSET Points : Request(m, ps) /\ (m = "setIRBreakpoints" => ps = breaks')
    BY <1>6
  <2>2. m \in Methods
    BY <1>7
  <2> HIDE DEF m
  <2> DEFINE e == [id |-> nextId, method |-> m, points |-> ps]
  <2>3. /\ e \in EngineRequests /\ toEngine' = Append(toEngine, e) /\ e.id = nextId /\ e.method = m /\ e.points = ps
        /\ nextId \in Nat \ {0} /\ ~Has(toEngine, nextId) /\ ~Has(toServer, nextId)
    BY <2>1, <2>2, Requested
  <2> HIDE DEF e
  <2>4. /\ e \in EngineRequests
        /\ toEngine' = Append(toEngine, e) /\ e.id = nextId /\ e.method = RequestOf(x) /\ nextId \in Nat \ {0}
        /\ e.method = "setIRBreakpoints" => e.points = breaks'
        /\ ~Has(toEngine, nextId) /\ ~Has(toServer, nextId)
    BY <2>1, <2>3 DEF m
  <2> QED BY <2>4
<1>9. /\ AsksFor(toEngine', nextId, RequestOf(x))
      /\ HasStale(toEngine', nextId) => HasStale(toEngine, 0)
      /\ OneStale(toEngine, 0) => OneStale(toEngine', nextId)
      /\ StaleFirst(toEngine', nextId)
      /\ SendsBreaks(toEngine, 0, breaks) => SendsBreaks(toEngine', nextId, breaks')
  BY <1>8, ServerAsks
<1>10. serverRunning' = IF Resumes(x) THEN TRUE ELSE serverRunning
  BY <1>6
<1>11. Unacted' /\ ~Left' /\ Still' = Still /\ ~ResumptionActed' /\ EndTold'
  <2>1. Unacted' /\ Has(toEngine', awaiting')
    BY <1>1, <1>2, <1>8, <1>9 DEF Unacted, AsksFor, HasOne, Has
  <2>2. ~ResumptionActed'
    BY <2>1 DEF ResumptionActed, Acted
  <2>3. ~Left'
    BY <1>2, <1>10 DEF Left
  <2> QED BY <1>1, <2>1, <2>2, <2>3 DEF Still, EndTold, SessionAgrees, engineVars
<1>12. ASSUME Token PROVE InQueue
  BY <1>2, <1>12 DEF Token, AtLldb, OnWire, Querying, Running, IsReplied, NothingSent
<1>13. Token => Token'
  <2> SUFFICES ASSUME Token PROVE Token'
    OBVIOUS
  <2>1. Waits(x) /\ ~serverRunning /\ PacketsIn(wire) = {} /\ toClient = <<>> /\ Len(queue') = 0
    BY <1>3, <1>12 DEF InQueue, NotHandled
  <2>2. NothingSent'
    BY <1>1, <1>3, <2>1, EmptySeq DEF NothingSent
  <2>3. awaiting' # 0
    BY <1>2, <1>8
  <2>4. CASE Resumes(x)
    BY <1>1, <1>2, <1>10, <2>1, <2>2, <2>4 DEF Token, Running, Waits, clientVars
  <2>5. CASE ~Resumes(x)
    BY <1>1, <1>2, <1>10, <2>1, <2>2, <2>3, <2>5 DEF Token, Querying, Waits, clientVars
  <2> QED BY <2>4, <2>5
<1>14. ~ResumptionActed /\ ~Left
  BY <1>2 DEF ResumptionActed, Left
<1>15. StaleAlone => StaleAlone'
  BY <1>1, <1>2, <1>9, <1>11 DEF StaleAlone
<1>16. StopsLast => StopsLast'
  BY <1>1, <1>11, <1>14 DEF StopsLast
<1>17. InStep /\ Token => InStep'
  <2> SUFFICES ASSUME InStep, Token PROVE InStep'
    OBVIOUS
  <2>1. ~serverRunning
    BY <1>12 DEF InQueue, NotHandled
  <2>2. Still /\ ~HasStop(toServer)
    BY <2>1 DEF InStep
  <2> QED BY <1>1, <1>11, <2>2 DEF InStep
<1>18. Placed => Placed'
  <2>1. \A k \in 1 .. Len(toServer) : toServer[k].id # nextId
    BY <1>8 DEF Has
  <2> QED BY <1>1, <1>2, <2>1 DEF Placed, engineVars, clientVars
<1>19. BreakpointsAgree => BreakpointsAgree'
  <2> SUFFICES ASSUME BreakpointsAgree PROVE BreakpointsAgree'
    OBVIOUS
  <2>1. SendsBreaks(toEngine', awaiting', breaks')
    BY <1>2, <1>9 DEF BreakpointsAgree
  <2>2. instructionBreakpoints' = breaks
    BY <1>1, <1>2 DEF BreakpointsAgree, engineVars
  <2>3. awaiting' # 0
    BY <1>2, <1>8
  <2> QED BY <1>2, <1>6, <1>11, <2>1, <2>2, <2>3 DEF BreakpointsAgree
<1>20. running /\ timeouts = 0 => ~exitReply /\ timeouts <= 1
  BY DEF SessionAgrees, EndTold
<1> QED BY <1>1, <1>11, <1>13, <1>15, <1>16, <1>17, <1>18, <1>19, <1>20 DEF SessionAgrees, InOrder, engineVars

LEMMA RequestTimesOut ==
  ASSUME SessionTypes, SessionAgrees, Timeout, EntryAssumption
  PROVE  SessionAgrees'
<1> USE DEF SessionTypes
<1>1. UNCHANGED <<engineVars, toServer, wire, queue, command, breaks, exitReply, nextId, toEngine, clientVars>>
  BY DEF Timeout
<1>2. timeouts' = timeouts + 1 /\ timeouts \in Nat
  BY DEF Timeout
<1>3. PICK id \in pending : Failed(id)
  BY DEF Timeout
<1>4. EndTold'
  BY <1>1 DEF SessionAgrees, EndTold, engineVars
<1>5. ASSUME ~exitReply', timeouts' <= 1 PROVE InOrder'
  <2>1. /\ timeouts = 0 /\ timeouts' # 0
        /\ Token /\ StaleAlone /\ StopsLast /\ InStep
        /\ awaiting # 0 => Unacted \/ Acted
    BY <1>1, <1>2, <1>5 DEF SessionAgrees, InOrder
  <2>2. CASE id # awaiting
    <3>1. UNCHANGED <<awaiting, serverRunning, toClient>>
      BY <1>3, <2>2 DEF Failed
    <3>2. Token'
      <4>1. (NothingSent => NothingSent') /\ (NotHandled => NotHandled')
        BY <1>1, <3>1 DEF NothingSent, NotHandled, Left
      <4> QED BY <1>1, <2>1, <3>1, <4>1
              DEF Token, AtLldb, OnWire, InQueue, Querying, Running, IsReplied, Waits, IsReply, clientVars
    <3>3. Left' = Left /\ Still' = Still /\ Unacted' = Unacted /\ Acted' = Acted
      BY <1>1, <3>1 DEF Left, Still, Unacted, Acted, engineVars
    <3>4. ResumptionActed' = ResumptionActed
      BY <1>1, <3>1, <3>3 DEF ResumptionActed
    <3>5. StaleAlone'
      BY <1>1, <2>1, <3>1, <3>3 DEF StaleAlone
    <3>6. StopsLast'
      BY <1>1, <2>1, <3>1, <3>3, <3>4 DEF StopsLast
    <3> QED BY <2>1, <3>1, <3>2, <3>3, <3>5, <3>6 DEF InOrder
  <2>3. CASE id = awaiting
    <3>1. awaiting # 0 /\ ~Left
      BY <2>1, <2>3 DEF TypeOK, InStep
    <3>2. /\ awaiting' = 0 /\ serverRunning' = IF Resumes(command) THEN FALSE ELSE serverRunning
          /\ Answer(Reply("E01", Entry))
      BY <1>3, <2>3 DEF Failed, Completed, RunningAfter, Message
    <3>3. Querying \/ Running
      <4>1. ~NotHandled
        BY <3>1 DEF NotHandled
      <4> QED BY <2>1, <4>1 DEF Token, AtLldb, OnWire, InQueue, IsReplied
    <3>4. Token'
      <4>1. Entry \in Points
        BY EntryAssumption DEF EntryAssumption
      <4>2. Len(toClient') = Len(toClient) + 1 /\ toClient'[Len(toClient) + 1].kind = "E01"
        BY <3>2, <4>1, RepliedTo
      <4>3. toClient = <<>> /\ NothingSent /\ client \in {"running", "waiting"} /\ ~serverRunning'
        BY <3>1, <3>2, <3>3 DEF Querying, Running
      <4>4. Len(toClient') = 1 /\ toClient'[1].kind = "E01"
        BY <4>2, <4>3
      <4>5. NothingSent' /\ NotHandled'
        BY <1>1, <3>2, <4>3 DEF NothingSent, NotHandled
      <4>6. IsReplied'
        BY <1>1, <4>3, <4>4, <4>5 DEF IsReplied, IsReply, clientVars
      <4> QED BY <4>6 DEF Token
    <3>5. ~HasStale(toEngine, awaiting)
      BY <2>1 DEF StaleAlone
    <3>6. ~Left' /\ ~ResumptionActed' /\ Still' = Still
      BY <1>1, <3>2 DEF Left, ResumptionActed, Still, engineVars
    <3>7. HasStop(toServer) => Still
      BY <2>1 DEF InStep
    <3>8. StopsLast'
      BY <1>1, <3>6, <3>7 DEF StopsLast
    <3>9. ASSUME HasStale(toEngine, 0) PROVE Still /\ ~HasStop(toServer) /\ OneStale(toEngine, 0)
      <4>1. Has(toEngine, awaiting)
        BY <3>5, <3>9, GivenUp
      <4>2. Unacted
        BY <2>1, <3>1, <4>1 DEF Acted
      <4>3. AsksFor(toEngine, awaiting, RequestOf(command)) /\ HasOne(toEngine, awaiting)
        BY <4>2 DEF Unacted, AsksFor
      <4>4. RequestOf(command) \in {"continue", "stepInstruction"}
        BY <3>5, <3>9, <4>3, GivenUp
      <4>5. Resumes(command)
        <5>1. command.kind \in {"c", "s", "g", "Z0", "z0"}
          BY <3>1 DEF ToHandle, Packets
        <5> QED BY <4>4, <5>1 DEF RequestOf, Resumes
      <4>6. ResumptionUnacted
        BY <3>1, <4>2, <4>5 DEF ResumptionUnacted
      <4> QED BY <2>1, <3>5, <4>3, <4>6, GivenUp DEF InStep
    <3>10. StaleFirst(toEngine, 0)
      BY GivenUp
    <3>11. StaleAlone'
      BY <1>1, <2>1, <3>2, <3>6, <3>9, <3>10 DEF StaleAlone
    <3> QED BY <3>2, <3>4, <3>8, <3>11 DEF InOrder
  <2> QED BY <2>2, <2>3
<1>6. timeouts' # 0
  BY <1>2
<1> QED BY <1>4, <1>5, <1>6 DEF SessionAgrees

\* The server reads an answer that nothing waits for.
LEMMA LateAnswerRead ==
  ASSUME SessionTypes, SessionAgrees, ServerReceives,
         Head(toServer).type \in {"result", "error"}, ~IsAwaited(Head(toServer))
  PROVE  SessionAgrees'
<1> USE DEF SessionTypes
<1> DEFINE m == Head(toServer)
<1>1. UNCHANGED <<engineVars, wire, queue, command, breaks, nextId, toEngine, clientVars, timeouts>> /\ toServer # <<>> /\ toServer' = Tail(toServer)
  BY DEF ServerReceives
<1>2. UNCHANGED <<awaiting, serverRunning, toClient, exitReply>>
  BY DEF ServerReceives
<1>3. m \in EngineMessages /\ m.type \in {"result", "error"} /\ m.id # awaiting
  <2>1. m \in EngineMessages
    BY <1>1, Dequeued
  <2>2. m.id # 0
    BY <2>1 DEF EngineMessages
  <2>3. awaiting # 0 => m.id # awaiting
    BY DEF IsAwaited
  <2> QED BY <2>1, <2>2, <2>3
<1> HIDE DEF m
<1>4. /\ HasStop(toServer) <=> HasStop(toServer')
      /\ HasEnd(toServer) <=> HasEnd(toServer')
      /\ OneStop(toServer) => OneStop(toServer')
  BY <1>1, <1>3, ServerReads DEF m
<1>5. Has(toServer, awaiting) =>
        /\ StopAfter(toServer', awaiting) => StopAfter(toServer, awaiting)
        /\ StopBefore(toServer', awaiting) => StopBefore(toServer, awaiting)
        /\ EndBefore(toServer, awaiting) => EndBefore(toServer', awaiting)
        /\ IsRefused(toServer', awaiting) => IsRefused(toServer, awaiting)
  BY <1>1, <1>3, ServerReads DEF m
<1>6. /\ Has(toServer', awaiting) <=> Has(toServer, awaiting)
      /\ HasOne(toServer, awaiting) => HasOne(toServer', awaiting)
  BY <1>1, <1>3, IdTaken DEF m
<1>7. EndTold'
  BY <1>1, <1>2, <1>4 DEF SessionAgrees, EndTold, engineVars
<1>8. Left' = Left /\ Still' = Still /\ Unacted' = Unacted /\ (Acted => Acted')
  BY <1>1, <1>2, <1>6 DEF Left, Still, Unacted, Acted, engineVars
<1>9. HasOne(toServer', awaiting) => Has(toServer', awaiting)
  BY DEF HasOne, Has
<1>10. ASSUME awaiting # 0 => Unacted \/ Acted
       PROVE  /\ ResumptionActed' <=> ResumptionActed
              /\ ResumptionUnacted' <=> ResumptionUnacted
              /\ ResumptionActed => Has(toServer, awaiting)
  <2>1. ResumptionActed => Has(toServer, awaiting)
    BY <1>6, <1>9 DEF ResumptionActed, Acted
  <2>2. ResumptionActed' => Has(toServer, awaiting)
    BY <1>2, <1>6, <1>9 DEF ResumptionActed, Acted
  <2> QED BY <1>1, <1>2, <1>8, <1>10, <2>1, <2>2 DEF ResumptionActed, ResumptionUnacted, Unacted
<1>11. Token => Token'
  <2>1. (NothingSent => NothingSent') /\ (NotHandled => NotHandled')
    BY <1>1, <1>2 DEF NothingSent, NotHandled, Left
  <2> QED BY <1>1, <1>2, <2>1
          DEF Token, AtLldb, OnWire, InQueue, Querying, Running, IsReplied, Waits, IsReply, clientVars
<1>12. StaleAlone => StaleAlone'
  BY <1>1, <1>2, <1>4, <1>8 DEF StaleAlone
<1>13. StopsLast /\ (awaiting # 0 => Unacted \/ Acted) => StopsLast'
  BY <1>2, <1>4, <1>5, <1>8, <1>10 DEF StopsLast
<1>14. InStep /\ (awaiting # 0 => Unacted \/ Acted) => InStep'
  BY <1>2, <1>4, <1>5, <1>8, <1>10 DEF InStep
<1>15. Placed => Placed'
  <2>1. /\ Len(toServer') = Len(toServer) - 1 /\ Len(toServer) \in Nat
        /\ \A i \in 1 .. Len(toServer') : toServer'[i] = toServer[i + 1]
    BY <1>1, Dequeued
  <2>2. \A i \in 1 .. Len(toServer') : i + 1 \in 1 .. Len(toServer) /\ toServer'[i] = toServer[i + 1]
    BY <2>1
  <2> QED BY <1>1, <1>2, <2>2 DEF Placed, engineVars, clientVars
<1>16. BreakpointsAgree => BreakpointsAgree'
  BY <1>1, <1>2, <1>8 DEF BreakpointsAgree, engineVars
<1>17. running /\ timeouts = 0 => ~exitReply /\ timeouts <= 1
  BY DEF SessionAgrees, EndTold
<1> QED BY <1>1, <1>2, <1>7, <1>8, <1>11, <1>12, <1>13, <1>14, <1>15, <1>16, <1>17 DEF SessionAgrees, InOrder, engineVars

\* It reads the answer that the packet being handled waits for.
LEMMA AnswerRead ==
  ASSUME SessionTypes, SessionAgrees, ServerReceives, EntryAssumption,
         Head(toServer).type \in {"result", "error"}, IsAwaited(Head(toServer))
  PROVE  SessionAgrees'
<1> USE DEF SessionTypes
<1> DEFINE m == Head(toServer)
<1>1. UNCHANGED <<engineVars, wire, queue, command, breaks, nextId, toEngine, clientVars, timeouts>> /\ toServer # <<>> /\ toServer' = Tail(toServer)
  BY DEF ServerReceives
<1>2. Completed(m) /\ UNCHANGED exitReply
  BY DEF ServerReceives
<1>3. /\ m \in EngineMessages /\ m.type \in {"result", "error"} /\ m.id = awaiting /\ awaiting # 0 /\ m.at \in Points
      /\ m = toServer[1] /\ 1 \in 1 .. Len(toServer)
  <2>1. m \in EngineMessages /\ m = toServer[1] /\ 1 \in 1 .. Len(toServer)
    BY <1>1, Dequeued
  <2>2. m.id # 0 /\ m.at \in Points
    BY <2>1 DEF EngineMessages
  <2> QED BY <2>1, <2>2 DEF IsAwaited
<1> HIDE DEF m
<1>4. /\ awaiting' = 0
      /\ serverRunning' = IF Resumes(command) /\ m.type = "error" THEN FALSE ELSE serverRunning
      /\ IF m.type = "error" THEN Answer(Reply("E01", Entry))
         ELSE IF Resumes(command) THEN UNCHANGED toClient
         ELSE Answer(IF command.kind = "g" THEN Reply("g", m.at) ELSE Reply("OK", Entry))
  BY <1>2 DEF Completed, RunningAfter
<1>5. /\ HasStop(toServer) <=> HasStop(toServer')
      /\ HasEnd(toServer) <=> HasEnd(toServer')
      /\ OneStop(toServer) => OneStop(toServer')
  BY <1>1, <1>3, ServerReads DEF m
<1>6. HasOne(toServer, awaiting) =>
        /\ HasStop(toServer') => StopAfter(toServer, awaiting)
        /\ ~EndBefore(toServer, awaiting)
        /\ m.type = "error" => IsRefused(toServer, awaiting)
  BY <1>1, <1>3, ServerReads DEF m
<1>7. Has(toServer, awaiting)
  BY <1>3 DEF Has
<1>8. ~Unacted
  BY <1>7 DEF Unacted
<1>9. EndTold' /\ ~Left' /\ Still' = Still /\ ~ResumptionActed' /\ ~ResumptionUnacted'
  BY <1>1, <1>2, <1>4, <1>5 DEF SessionAgrees, EndTold, Left, Still, ResumptionActed, ResumptionUnacted, engineVars
<1>10. ASSUME ~exitReply', timeouts' <= 1 PROVE InOrder' /\ Token /\ Acted
  <2>1. Token /\ StaleAlone /\ StopsLast /\ Acted
    BY <1>1, <1>2, <1>3, <1>8, <1>10 DEF SessionAgrees, InOrder
  <2>2. HasOne(toServer, awaiting) /\ ~Has(toEngine, awaiting)
    BY <2>1 DEF Acted
  <2>3. StaleAlone'
    <3>1. ~HasStale(toEngine, awaiting)
      BY <1>3, <1>8, <2>1 DEF StaleAlone
    <3>2. ~HasStale(toEngine, 0)
      BY <2>2, <3>1, GivenUp
    <3> QED BY <1>1, <1>4, <3>2 DEF StaleAlone
  <2>4. StopsLast'
    <3>1. CASE Resumes(command)
      <4>1. ResumptionActed
        BY <1>3, <2>1, <3>1 DEF ResumptionActed
      <4> QED BY <1>6, <1>9, <2>1, <2>2, <4>1 DEF StopsLast
    <3>2. CASE ~Resumes(command)
      <4>1. ~ResumptionActed
        BY <3>2 DEF ResumptionActed
      <4> QED BY <1>5, <1>9, <2>1, <4>1 DEF StopsLast
    <3> QED BY <3>1, <3>2
  <2>5. Token'
    <3>1. CASE Left
      <4>1. Resumes(command) /\ ~serverRunning /\ ResumptionActed
        BY <1>3, <2>1, <3>1 DEF Left, ResumptionActed
      <4>2. m.type # "error"
        BY <1>6, <2>1, <2>2, <3>1, <4>1 DEF StopsLast
      <4>3. UNCHANGED <<toClient, serverRunning>>
        BY <1>4, <4>1, <4>2
      <4>4. NotHandled' /\ (NothingSent => NothingSent')
        BY <1>1, <1>4, <4>1, <4>3 DEF NotHandled, NothingSent
      <4> QED BY <1>1, <2>1, <4>1, <4>3, <4>4
              DEF Token, AtLldb, OnWire, InQueue, Querying, Running, IsReplied, Waits, IsReply, clientVars
    <3>2. CASE ~Left
      <4>1. Querying \/ Running
        <5>1. ~NotHandled
          BY <1>3, <3>2 DEF NotHandled
        <5> QED BY <2>1, <5>1 DEF Token, AtLldb, OnWire, InQueue, IsReplied
      <4>2. CASE Running /\ m.type # "error"
        <5>1. Resumes(command) /\ UNCHANGED <<toClient, serverRunning>>
          BY <1>3, <1>4, <4>2 DEF Running
        <5>2. Running'
          BY <1>1, <1>4, <4>2, <5>1 DEF Running, NothingSent, clientVars
        <5> QED BY <5>2 DEF Token
      <4>3. CASE Running /\ m.type = "error"
        <5>1. Resumes(command) /\ ~serverRunning' /\ toClient = <<>> /\ NothingSent /\ client = "running" /\ Answer(Reply("E01", Entry))
          BY <1>3, <1>4, <4>3 DEF Running
        <5>2. Len(toClient') = 1 /\ toClient'[1].kind = "E01"
          <6>1. Entry \in Points
            BY EntryAssumption DEF EntryAssumption
          <6>2. Len(toClient') = Len(toClient) + 1 /\ toClient'[Len(toClient) + 1].kind = "E01"
            BY <5>1, <6>1, RepliedTo
          <6> QED BY <5>1, <6>2
        <5>3. NothingSent' /\ NotHandled'
          BY <1>1, <1>4, <5>1 DEF NothingSent, NotHandled
        <5>4. IsReplied'
          BY <1>1, <5>1, <5>2, <5>3 DEF IsReplied, IsReply, clientVars
        <5> QED BY <5>4 DEF Token
      <4>4. CASE Querying
        <5>1. ~Resumes(command) /\ ~serverRunning' /\ toClient = <<>> /\ NothingSent /\ client = "waiting"
          BY <1>4, <4>4 DEF Querying
        <5>2. Len(toClient') = 1 /\ toClient'[1].kind \in {"E01", "g", "OK"}
          <6>1. Entry \in Points
            BY EntryAssumption DEF EntryAssumption
          <6>2. \E kind \in {"E01", "g", "OK"}, p \in Points : Answer(Reply(kind, p))
            BY <1>3, <1>4, <5>1, <6>1
          <6>3. Len(toClient') = Len(toClient) + 1 /\ toClient'[Len(toClient) + 1].kind \in {"E01", "g", "OK"}
            BY <6>2, RepliedTo
          <6> QED BY <5>1, <6>3
        <5>3. NothingSent' /\ NotHandled'
          BY <1>1, <1>4, <5>1 DEF NothingSent, NotHandled
        <5>4. IsReplied'
          BY <1>1, <5>1, <5>2, <5>3 DEF IsReplied, IsReply, clientVars
        <5> QED BY <5>4 DEF Token
      <4> QED BY <4>1, <4>2, <4>3, <4>4
    <3> QED BY <3>1, <3>2
  <2> QED BY <1>4, <2>1, <2>3, <2>4, <2>5 DEF InOrder
<1>11. ASSUME ~exitReply', timeouts' = 0 PROVE InStep' /\ InStep /\ (Resumes(command) => serverRunning /\ m.type # "error")
  <2>1. InStep /\ Acted
    BY <1>1, <1>2, <1>10, <1>11 DEF SessionAgrees
  <2>2. HasOne(toServer, awaiting)
    BY <2>1 DEF Acted
  <2>3. ASSUME Resumes(command) PROVE serverRunning /\ m.type # "error"
    <3>1. ResumptionActed
      BY <1>3, <2>1, <2>3 DEF ResumptionActed
    <3>2. m.type # "error"
      BY <1>6, <2>1, <2>2, <3>1 DEF InStep
    <3>3. ~Left
      BY <2>1 DEF InStep
    <3> QED BY <1>3, <2>3, <3>2, <3>3 DEF Left
  <2>4. serverRunning' = serverRunning
    BY <1>4, <2>3
  <2>5. ~serverRunning => Still /\ ~HasStop(toServer)
    BY <2>1 DEF InStep
  <2>6. HasStop(toServer) => Still /\ OneStop(toServer)
    BY <2>1 DEF InStep
  <2> QED BY <1>5, <1>9, <2>1, <2>3, <2>4, <2>5, <2>6 DEF InStep
<1>12. ASSUME running', timeouts' = 0 PROVE Placed' /\ BreakpointsAgree'
  <2>1. running /\ timeouts = 0 /\ ~exitReply /\ ~exitReply' /\ timeouts' <= 1
    BY <1>1, <1>2, <1>12 DEF SessionAgrees, EndTold, engineVars
  <2>2. Placed /\ BreakpointsAgree /\ Token /\ Acted /\ (Resumes(command) => serverRunning /\ m.type # "error")
    BY <1>10, <1>11, <1>12, <2>1 DEF SessionAgrees
  <2>3. BreakpointsAgree'
    <3>1. SendsBreaks(toEngine, 0, breaks)
      BY <2>2, GivenUp DEF Acted, BreakpointsAgree
    <3>2. instructionBreakpoints = breaks
      BY <1>8, <2>2 DEF BreakpointsAgree
    <3> QED BY <1>1, <1>4, <3>1, <3>2 DEF BreakpointsAgree, engineVars
  <2>4. \A i \in 1 .. Len(toClient') : /\ toClient'[i].kind \in {"T", "g"} => toClient'[i].p = at
                                       /\ toClient'[i].kind = "E01" => client = "waiting"
    <3>1. CASE UNCHANGED toClient
      BY <2>2, <3>1 DEF Placed
    <3>2. CASE ~ UNCHANGED toClient
      <4>1. ~Resumes(command)
        BY <1>4, <2>2, <3>2
      <4>2. client = "waiting" /\ toClient = <<>>
        <5>1. ~NotHandled /\ ~Running
          BY <1>3, <4>1 DEF NotHandled, Left, Running
        <5> QED BY <2>2, <5>1 DEF Token, AtLldb, OnWire, InQueue, IsReplied, Querying
      <4>3. command.kind = "g" => m.at = at
        BY <1>3, <2>2 DEF Placed
      <4>4. Entry \in Points
        BY EntryAssumption DEF EntryAssumption
      <4>5. \E kind \in {"E01", "g", "OK"}, p \in Points : Answer(Reply(kind, p)) /\ (kind = "g" => p = at)
        BY <1>3, <1>4, <4>1, <4>3, <4>4
      <4>6. PICK kind \in {"E01", "g", "OK"}, p \in Points : Answer(Reply(kind, p)) /\ (kind = "g" => p = at)
        BY <4>5
      <4>7. Len(toClient') = Len(toClient) + 1 /\ toClient'[Len(toClient) + 1].kind = kind /\ toClient'[Len(toClient) + 1].p = p
        BY <4>6, RepliedTo
      <4>8. Len(toClient') = 1 /\ toClient'[1].kind = kind /\ toClient'[1].p = p
        BY <4>2, <4>7
      <4>9. \A i \in 1 .. Len(toClient') : i = 1
        BY <4>8
      <4> QED BY <4>2, <4>6, <4>8, <4>9
    <3> QED BY <3>1, <3>2
  <2>5. /\ Len(toServer') = Len(toServer) - 1 /\ Len(toServer) \in Nat
        /\ \A i \in 1 .. Len(toServer') : toServer'[i] = toServer[i + 1]
    BY <1>1, Dequeued
  <2>6. \A i \in 1 .. Len(toServer') : i + 1 \in 1 .. Len(toServer) /\ toServer'[i] = toServer[i + 1]
    BY <2>5
  <2>7. UNCHANGED <<at, pc, client>>
    BY <1>1 DEF engineVars, clientVars
  <2>8. Placed'
    <3>1. client' \in {"ready", "waiting"} => pc' = at'
      BY <2>2, <2>7 DEF Placed
    <3>2. \A i \in 1 .. Len(toClient') : /\ toClient'[i].kind \in {"T", "g"} => toClient'[i].p = at'
                                         /\ toClient'[i].kind = "E01" => client' = "waiting"
      BY <2>4, <2>7
    <3>3. \A k \in 1 .. Len(toServer') : toServer'[k].type = "stopped" => toServer'[k].at = at'
      BY <2>2, <2>6, <2>7 DEF Placed
    <3>4. awaiting' # 0 /\ command'.kind = "g" => \A k \in 1 .. Len(toServer') : toServer'[k].id = awaiting' => toServer'[k].at = at'
      BY <1>4
    <3> QED BY <3>1, <3>2, <3>3, <3>4 DEF Placed
  <2> QED BY <2>3, <2>8
<1> QED BY <1>9, <1>10, <1>11, <1>12 DEF SessionAgrees

\* It reads that the engine has stopped.
LEMMA StopRead ==
  ASSUME SessionTypes, SessionAgrees, ServerReceives, Head(toServer).type = "stopped"
  PROVE  SessionAgrees'
<1> USE DEF SessionTypes
<1> DEFINE m == Head(toServer)
<1>1. UNCHANGED <<engineVars, wire, queue, command, breaks, nextId, toEngine, clientVars, timeouts>> /\ toServer # <<>> /\ toServer' = Tail(toServer)
  BY DEF ServerReceives
<1>2. /\ UNCHANGED <<awaiting, exitReply>> /\ serverRunning' = FALSE
      /\ IF serverRunning THEN Answer(Reply("T", m.at)) ELSE UNCHANGED toClient
  BY DEF ServerReceives, ReportsStop
<1>3. /\ m \in EngineMessages /\ m.type = "stopped" /\ m.id = 0 /\ m.at \in Points
      /\ m = toServer[1] /\ 1 \in 1 .. Len(toServer)
  <2>1. m \in EngineMessages /\ m = toServer[1] /\ 1 \in 1 .. Len(toServer)
    BY <1>1, Dequeued
  <2> QED BY <2>1 DEF EngineMessages
<1> HIDE DEF m
<1>4. /\ HasStop(toServer)
      /\ HasStop(toServer') => HasStop(toServer)
      /\ HasEnd(toServer) <=> HasEnd(toServer')
      /\ OneStop(toServer) => ~HasStop(toServer')
  BY <1>1, <1>3, ServerReads DEF m
<1>5. awaiting # 0 /\ Has(toServer, awaiting) =>
        /\ StopAfter(toServer', awaiting) => StopAfter(toServer, awaiting)
        /\ StopBefore(toServer, awaiting)
        /\ EndBefore(toServer, awaiting) => EndBefore(toServer', awaiting)
        /\ IsRefused(toServer', awaiting) => IsRefused(toServer, awaiting)
  BY <1>1, <1>3, ServerReads DEF m
<1>6. awaiting # 0 => /\ Has(toServer', awaiting) <=> Has(toServer, awaiting)
                      /\ HasOne(toServer, awaiting) => HasOne(toServer', awaiting)
  BY <1>1, <1>3, IdTaken DEF m
<1>7. EndTold'
  BY <1>1, <1>2, <1>4 DEF SessionAgrees, EndTold, engineVars
<1>8. Still' = Still /\ (awaiting # 0 => (Unacted' <=> Unacted) /\ (Acted => Acted'))
  BY <1>1, <1>2, <1>6 DEF Still, Unacted, Acted, engineVars
<1>9. \A q : HasOne(q, awaiting) => Has(q, awaiting)
  BY DEF HasOne, Has
<1>10. ASSUME ~exitReply', timeouts' <= 1 PROVE InOrder' /\ Token /\ (awaiting # 0 => Unacted \/ Acted)
  <2>1. Token /\ StaleAlone /\ StopsLast /\ (awaiting # 0 => Unacted \/ Acted)
    BY <1>1, <1>2, <1>10 DEF SessionAgrees, InOrder
  <2>2. StaleAlone'
    BY <1>1, <1>2, <1>4, <2>1 DEF StaleAlone
  <2>3. StopsLast'
    <3>1. CASE ResumptionActed
      <4>1. awaiting # 0 /\ Has(toServer, awaiting)
        BY <1>9, <3>1 DEF ResumptionActed, Acted
      <4>2. ResumptionActed'
        BY <1>1, <1>2, <1>8, <3>1 DEF ResumptionActed
      <4>3. (StopAfter(toServer, awaiting) => Still) /\ (IsRefused(toServer, awaiting) => EndBefore(toServer, awaiting))
        BY <1>5, <2>1, <3>1, <4>1 DEF StopsLast
      <4> QED BY <1>2, <1>5, <1>8, <4>1, <4>2, <4>3 DEF StopsLast
    <3>2. CASE ~ResumptionActed
      <4>1. Still
        BY <1>4, <2>1, <3>2 DEF StopsLast
      <4>2. ~ResumptionActed'
        <5>1. ASSUME ResumptionActed' PROVE FALSE
          <6>1. awaiting # 0 /\ Resumes(command) /\ Has(toServer', awaiting)
            BY <1>1, <1>2, <1>9, <5>1 DEF ResumptionActed, Acted
          <6> QED BY <1>6, <2>1, <3>2, <6>1 DEF ResumptionActed, Unacted
        <5> QED BY <5>1
      <4> QED BY <1>8, <4>1, <4>2 DEF StopsLast
    <3> QED BY <3>1, <3>2
  <2>4. Token'
    <3>1. CASE serverRunning
      <4>1. Running
        BY <2>1, <3>1 DEF Token, AtLldb, OnWire, InQueue, Querying, IsReplied, NotHandled
      <4>2. Len(toClient') = Len(toClient) + 1 /\ toClient'[Len(toClient) + 1].kind = "T"
        BY <1>2, <1>3, <3>1, RepliedTo
      <4>3. Len(toClient') = 1 /\ toClient'[1].kind = "T"
        BY <4>1, <4>2 DEF Running
      <4>4. NothingSent' /\ NotHandled'
        BY <1>1, <1>2, <4>1 DEF Running, NothingSent, NotHandled, Left
      <4>5. IsReplied'
        BY <1>1, <4>1, <4>3, <4>4 DEF Running, IsReplied, IsReply, clientVars
      <4> QED BY <4>5 DEF Token
    <3>2. CASE ~serverRunning
      <4>1. UNCHANGED <<toClient, serverRunning>>
        BY <1>2, <3>2
      <4>2. (NothingSent => NothingSent') /\ (NotHandled => NotHandled')
        BY <1>1, <1>2, <4>1 DEF NothingSent, NotHandled, Left
      <4> QED BY <1>1, <1>2, <2>1, <4>1, <4>2
              DEF Token, AtLldb, OnWire, InQueue, Querying, Running, IsReplied, Waits, IsReply, clientVars
    <3> QED BY <3>1, <3>2
  <2> QED BY <1>2, <1>8, <2>1, <2>2, <2>3, <2>4 DEF InOrder
<1>11. ASSUME ~exitReply', timeouts' = 0 PROVE InStep'
  <2>1. InStep /\ (awaiting # 0 => Unacted \/ Acted)
    BY <1>1, <1>2, <1>10, <1>11 DEF SessionAgrees
  <2>2. Still /\ ~HasStop(toServer')
    BY <1>4, <2>1 DEF InStep
  <2>3. ~(awaiting # 0 /\ Resumes(command))
    <3>1. ~ResumptionUnacted
      BY <1>4, <2>1 DEF InStep
    <3>2. ~ResumptionActed
      <4>1. ResumptionActed => Has(toServer, awaiting) /\ awaiting # 0
        BY <1>9 DEF ResumptionActed, Acted
      <4> QED BY <1>5, <2>1, <4>1 DEF InStep
    <3> QED BY <2>1, <3>1, <3>2 DEF ResumptionActed, ResumptionUnacted
  <2>4. ~Left' /\ ~ResumptionActed'
    BY <1>1, <1>2, <2>3 DEF Left, ResumptionActed
  <2> QED BY <1>8, <2>2, <2>4 DEF InStep
<1>12. ASSUME running', timeouts' = 0 PROVE Placed' /\ BreakpointsAgree'
  <2>1. running /\ timeouts = 0 /\ ~exitReply /\ ~exitReply' /\ timeouts' <= 1
    BY <1>1, <1>2, <1>12 DEF SessionAgrees, EndTold, engineVars
  <2>2. Placed /\ BreakpointsAgree /\ Token
    BY <1>10, <2>1 DEF SessionAgrees
  <2>3. BreakpointsAgree'
    <3>1. Unacted /\ awaiting # 0 => Unacted'
      BY <1>8
    <3> QED BY <1>1, <1>2, <2>2, <3>1 DEF BreakpointsAgree, engineVars
  <2>4. \A i \in 1 .. Len(toClient') : /\ toClient'[i].kind \in {"T", "g"} => toClient'[i].p = at
                                       /\ toClient'[i].kind = "E01" => client = "waiting"
    <3>1. CASE ~serverRunning
      BY <1>2, <2>2, <3>1 DEF Placed
    <3>2. CASE serverRunning
      <4>1. toClient = <<>>
        BY <2>2, <3>2 DEF Token, AtLldb, OnWire, InQueue, Querying, IsReplied, NotHandled, Running
      <4>2. m.at = at
        BY <1>3, <2>2 DEF Placed
      <4>3. Len(toClient') = Len(toClient) + 1 /\ toClient'[Len(toClient) + 1].kind = "T" /\ toClient'[Len(toClient) + 1].p = m.at
        BY <1>2, <1>3, <3>2, RepliedTo
      <4>4. Len(toClient') = 1 /\ toClient'[1].kind = "T" /\ toClient'[1].p = at
        BY <4>1, <4>2, <4>3
      <4>5. \A i \in 1 .. Len(toClient') : i = 1
        BY <4>4
      <4> QED BY <4>4, <4>5
    <3> QED BY <3>1, <3>2
  <2>5. /\ Len(toServer') = Len(toServer) - 1 /\ Len(toServer) \in Nat
        /\ \A i \in 1 .. Len(toServer') : toServer'[i] = toServer[i + 1]
    BY <1>1, Dequeued
  <2>6. \A i \in 1 .. Len(toServer') : i + 1 \in 1 .. Len(toServer) /\ toServer'[i] = toServer[i + 1]
    BY <2>5
  <2>7. UNCHANGED <<at, pc, client>>
    BY <1>1 DEF engineVars, clientVars
  <2>8. Placed'
    <3>1. client' \in {"ready", "waiting"} => pc' = at'
      BY <2>2, <2>7 DEF Placed
    <3>2. \A i \in 1 .. Len(toClient') : /\ toClient'[i].kind \in {"T", "g"} => toClient'[i].p = at'
                                         /\ toClient'[i].kind = "E01" => client' = "waiting"
      BY <2>4, <2>7
    <3>3. \A k \in 1 .. Len(toServer') : toServer'[k].type = "stopped" => toServer'[k].at = at'
      BY <2>2, <2>6, <2>7 DEF Placed
    <3>4. awaiting' # 0 /\ command'.kind = "g" => \A k \in 1 .. Len(toServer') : toServer'[k].id = awaiting' => toServer'[k].at = at'
      <4>1. UNCHANGED <<awaiting, command>>
        BY <1>1, <1>2
      <4> QED BY <2>2, <2>6, <2>7, <4>1 DEF Placed
    <3> QED BY <3>1, <3>2, <3>3, <3>4 DEF Placed
  <2> QED BY <2>3, <2>8
<1> QED BY <1>7, <1>10, <1>11, <1>12 DEF SessionAgrees

LEMMA ServerMoves ==
  ASSUME SessionTypes, SessionAgrees, ServerReceives, EntryAssumption
  PROVE  SessionAgrees'
<1> USE DEF SessionTypes
<1>1. toServer # <<>> /\ Head(toServer) \in EngineMessages
  <2>1. toServer # <<>>
    BY DEF ServerReceives
  <2> QED BY <2>1, Dequeued
<1>2. Head(toServer).type \in {"result", "error", "stopped", "terminated"}
  BY <1>1 DEF EngineMessages
<1>3. CASE Head(toServer).type = "terminated"
  <2>1. exitReply' = TRUE /\ running' = running
    BY <1>3 DEF ServerReceives, engineVars
  <2>2. HasEnd(toServer)
    BY <1>1, <1>3, ServerReads
  <2>3. ~running
    BY <2>2 DEF SessionAgrees, EndTold
  <2> QED BY <2>1, <2>3 DEF SessionAgrees, EndTold
<1> QED BY <1>2, <1>3, LateAnswerRead, AnswerRead, StopRead

\* The engine answers a request that the server does not await.
LEMMA OtherAnswered ==
  ASSUME SessionTypes, SessionAgrees, EngineReceives, Head(toEngine).id # awaiting
  PROVE  SessionAgrees'
<1> USE DEF SessionTypes
<1> DEFINE r == Head(toEngine)
<1>1. UNCHANGED <<wire, serverVars, toClient, clientVars, timeouts>>
  BY DEF EngineReceives
<1>2. /\ toEngine # <<>> /\ toEngine' = Tail(toEngine) /\ r \in EngineRequests
      /\ \E e \in EngineMessages :
           /\ toServer' = Append(toServer, e) /\ e.id = r.id /\ e.type \in {"result", "error"}
  BY EngineAnswers
<1>3. PICK e \in EngineMessages : toServer' = Append(toServer, e) /\ e.id = r.id /\ e.type \in {"result", "error"}
  BY <1>2
<1> HIDE DEF r
<1>4. r.id # awaiting
  BY DEF r
<1>5. /\ HasStop(toServer') <=> HasStop(toServer)
      /\ HasEnd(toServer') <=> HasEnd(toServer)
      /\ OneStop(toServer) => OneStop(toServer')
      /\ StopAfter(toServer', awaiting) => StopAfter(toServer, awaiting)
      /\ StopBefore(toServer', awaiting) => StopBefore(toServer, awaiting)
      /\ EndBefore(toServer, awaiting) => EndBefore(toServer', awaiting)
      /\ IsRefused(toServer', awaiting) => IsRefused(toServer, awaiting)
  BY <1>3, <1>4, EngineTells
<1>6. /\ Has(toServer', awaiting) <=> Has(toServer, awaiting)
      /\ HasOne(toServer, awaiting) => HasOne(toServer', awaiting)
  BY <1>3, <1>4, IdAppended
<1>7. Has(toEngine', awaiting) <=> Has(toEngine, awaiting)
  BY <1>2, <1>4, IdTaken DEF r
<1>8. /\ IsStale(r, awaiting) \/ HasStale(toEngine', awaiting) <=> HasStale(toEngine, awaiting)
      /\ OneStale(toEngine, awaiting) => OneStale(toEngine', awaiting) /\ (IsStale(r, awaiting) => ~HasStale(toEngine', awaiting))
      /\ StaleFirst(toEngine, awaiting) => StaleFirst(toEngine', awaiting)
      /\ \A method : AsksFor(toEngine, awaiting, method) => AsksFor(toEngine', awaiting, method)
      /\ SendsBreaks(toEngine, awaiting, breaks) =>
           SendsBreaks(toEngine', awaiting, breaks) /\ r.method # "setIRBreakpoints"
  BY <1>2, <1>4, EngineTakes DEF r
<1>9. running' = running
  BY DEF EngineReceives, Resume, Pause, SetIRBreakpoints, engineVars
<1>10. EndTold'
  BY <1>1, <1>5, <1>9 DEF SessionAgrees, EndTold, serverVars
<1>11. /\ Left' = Left
       /\ awaiting # 0 => (Unacted => Unacted') /\ (Acted => Acted')
  BY <1>1, <1>6, <1>7, <1>8 DEF Left, Unacted, Acted, serverVars
<1>12. \A q : HasOne(q, awaiting) => Has(q, awaiting)
  BY DEF HasOne, Has
<1>13. ASSUME awaiting # 0 => Unacted \/ Acted
       PROVE  (ResumptionActed' <=> ResumptionActed) /\ (ResumptionUnacted' => ResumptionUnacted)
  <2>1. ASSUME ResumptionActed' PROVE ResumptionActed
    <3>1. awaiting # 0 /\ Resumes(command) /\ ~Has(toEngine', awaiting)
      BY <1>1, <2>1 DEF ResumptionActed, Acted, serverVars
    <3>2. ~Unacted
      BY <1>7, <1>12, <3>1 DEF Unacted, AsksFor
    <3> QED BY <1>13, <3>1, <3>2 DEF ResumptionActed
  <2>2. ResumptionActed => ResumptionActed'
    BY <1>1, <1>11 DEF ResumptionActed, serverVars
  <2>3. ASSUME ResumptionUnacted' PROVE ResumptionUnacted
    <3>1. awaiting # 0 /\ Resumes(command) /\ ~Has(toServer', awaiting)
      BY <1>1, <2>3 DEF ResumptionUnacted, Unacted, serverVars
    <3>2. ~Acted
      BY <1>6, <1>12, <3>1 DEF Acted
    <3> QED BY <1>13, <3>1, <3>2 DEF ResumptionUnacted
  <2> QED BY <2>1, <2>2, <2>3
<1>14. IsStale(r, awaiting) <=> r.method \in {"continue", "stepInstruction"}
  BY <1>4 DEF IsStale
<1>15. ~IsStale(r, awaiting) => Still' = Still /\ UNCHANGED at
  BY <1>14 DEF EngineReceives, r, Pause, SetIRBreakpoints, engineVars, Still
<1>16. Token => Token'
  <2>1. (NothingSent => NothingSent') /\ (NotHandled => NotHandled')
    BY <1>1 DEF NothingSent, NotHandled, Left, serverVars
  <2> QED BY <1>1, <2>1
          DEF Token, AtLldb, OnWire, InQueue, Querying, Running, IsReplied, Waits, IsReply, clientVars, serverVars
<1>17. ASSUME ~exitReply', timeouts' <= 1
       PROVE  InOrder' /\ Token /\ (awaiting # 0 => Unacted \/ Acted) /\ (IsStale(r, awaiting) => timeouts # 0)
  <2>1. Token /\ StaleAlone /\ StopsLast /\ (awaiting # 0 => Unacted \/ Acted)
    BY <1>1, <1>17 DEF SessionAgrees, InOrder, serverVars
  <2>2. CASE IsStale(r, awaiting)
    <3>1. /\ timeouts # 0 /\ ~HasStop(toServer) /\ ~Left /\ OneStale(toEngine, awaiting)
          /\ awaiting # 0 => Unacted
      BY <1>8, <2>1, <2>2 DEF StaleAlone
    <3>2. StaleAlone'
      BY <1>1, <1>8, <2>2, <3>1 DEF StaleAlone, serverVars
    <3>3. ~ResumptionActed
      BY <1>12, <3>1 DEF ResumptionActed, Acted, Unacted
    <3>4. StopsLast'
      BY <1>1, <1>5, <1>11, <1>13, <2>1, <3>1, <3>3 DEF StopsLast, serverVars
    <3> QED BY <1>1, <1>11, <1>16, <2>1, <3>1, <3>2, <3>4 DEF InOrder, serverVars
  <2>3. CASE ~IsStale(r, awaiting)
    <3>1. StaleAlone'
      BY <1>1, <1>5, <1>8, <1>11, <1>15, <2>1, <2>3 DEF StaleAlone, serverVars
    <3>2. StopsLast'
      BY <1>1, <1>5, <1>11, <1>13, <1>15, <2>1, <2>3 DEF StopsLast, serverVars
    <3> QED BY <1>1, <1>11, <1>16, <2>1, <2>3, <3>1, <3>2 DEF InOrder, serverVars
  <2> QED BY <2>2, <2>3
<1>18. ASSUME ~exitReply', timeouts' = 0 PROVE InStep' /\ ~IsStale(r, awaiting)
  <2>1. InStep /\ ~IsStale(r, awaiting) /\ (awaiting # 0 => Unacted \/ Acted)
    BY <1>1, <1>17, <1>18 DEF SessionAgrees, serverVars
  <2> QED BY <1>1, <1>5, <1>11, <1>13, <1>15, <2>1 DEF InStep, serverVars
<1>19. ASSUME running', timeouts' = 0 PROVE Placed' /\ BreakpointsAgree'
  <2>1. running /\ timeouts = 0 /\ ~exitReply /\ ~exitReply' /\ timeouts' <= 1
    BY <1>1, <1>9, <1>19 DEF SessionAgrees, EndTold, serverVars
  <2>2. Placed /\ BreakpointsAgree /\ ~IsStale(r, awaiting)
    BY <1>18, <1>19, <2>1 DEF SessionAgrees
  <2>3. UNCHANGED <<at, client, pc, toClient, awaiting, command, breaks>>
    BY <1>1, <1>15, <2>2 DEF clientVars, serverVars
  <2>4. instructionBreakpoints' = instructionBreakpoints
    <3>1. r.method # "setIRBreakpoints"
      BY <1>8, <2>2 DEF BreakpointsAgree
    <3> QED BY <1>14, <2>2, <3>1 DEF EngineReceives, r, Pause, engineVars
  <2>5. BreakpointsAgree'
    BY <1>8, <1>11, <2>2, <2>3, <2>4 DEF BreakpointsAgree
  <2>6. /\ Len(toServer') = Len(toServer) + 1 /\ Len(toServer) \in Nat /\ toServer'[Len(toServer) + 1] = e
        /\ \A i \in 1 .. Len(toServer) : toServer'[i] = toServer[i]
    BY <1>3, Queued
  <2>7. \A i \in 1 .. Len(toServer') : i \in 1 .. Len(toServer) \/ i = Len(toServer) + 1
    BY <2>6
  <2>8. e.type # "stopped" /\ e.id # awaiting
    BY <1>3, <1>4
  <2>9. Placed'
    BY <2>2, <2>3, <2>6, <2>7, <2>8 DEF Placed
  <2> QED BY <2>5, <2>9
<1> QED BY <1>10, <1>17, <1>18, <1>19 DEF SessionAgrees

\* It answers the request that the server awaits.
LEMMA AwaitedAnswered ==
  ASSUME SessionTypes, SessionAgrees, EngineReceives, Head(toEngine).id = awaiting
  PROVE  SessionAgrees'
<1> USE DEF SessionTypes
<1> DEFINE r == Head(toEngine)
<1>1. UNCHANGED <<wire, serverVars, toClient, clientVars, timeouts>>
  BY DEF EngineReceives
<1>2. /\ toEngine # <<>> /\ toEngine' = Tail(toEngine) /\ r \in EngineRequests
      /\ \E e \in EngineMessages :
           /\ toServer' = Append(toServer, e) /\ e.id = r.id /\ e.type \in {"result", "error"} /\ e.at = at
           /\ e.type = "error" => r.method \in {"continue", "stepInstruction"} /\ ~ResumeAllowed(r.method)
  BY EngineAnswers
<1>3. PICK e \in EngineMessages :
        /\ toServer' = Append(toServer, e) /\ e.id = r.id /\ e.type \in {"result", "error"} /\ e.at = at
        /\ e.type = "error" => r.method \in {"continue", "stepInstruction"} /\ ~ResumeAllowed(r.method)
  BY <1>2
<1> HIDE DEF r
<1>4. r.id = awaiting /\ awaiting # 0 /\ r = toEngine[1] /\ 1 \in 1 .. Len(toEngine)
  <2>1. r.id = awaiting /\ r.id # 0
    BY <1>2 DEF r, EngineRequests
  <2> QED BY <1>2, <2>1, Dequeued DEF r
<1>5. /\ HasStop(toServer') <=> HasStop(toServer)
      /\ HasEnd(toServer') <=> HasEnd(toServer)
      /\ OneStop(toServer) => OneStop(toServer')
      /\ ~Has(toServer, awaiting) =>
           /\ ~StopAfter(toServer', awaiting)
           /\ StopBefore(toServer', awaiting) => HasStop(toServer)
           /\ HasEnd(toServer) => EndBefore(toServer', awaiting)
           /\ IsRefused(toServer', awaiting) => e.type = "error"
  BY <1>3, <1>4, EngineTells
<1>6. ~Has(toServer, awaiting) => HasOne(toServer', awaiting)
  BY <1>3, <1>4, IdAppended
<1>7. Has(toEngine, awaiting)
  BY <1>4 DEF Has
<1>8. running' = running
  BY DEF EngineReceives, Resume, Pause, SetIRBreakpoints, engineVars
<1>9. EndTold'
  BY <1>1, <1>5, <1>8 DEF SessionAgrees, EndTold, serverVars
<1>10. Left' = Left
  BY <1>1 DEF Left, serverVars
<1>11. ASSUME ~exitReply', timeouts' <= 1
       PROVE  /\ InOrder' /\ Token /\ Acted' /\ r.method = RequestOf(command) /\ Unacted
              /\ e.type = "error" /\ Still => EndBefore(toServer', awaiting)
  <2>1. /\ Token /\ StaleAlone /\ StopsLast /\ Unacted /\ ~exitReply
    BY <1>1, <1>4, <1>7, <1>11 DEF SessionAgrees, InOrder, Acted, serverVars
  <2>2. r.method = RequestOf(command) /\ ~Has(toEngine', awaiting) /\ ~Has(toServer, awaiting)
    <3>1. AsksFor(toEngine, awaiting, RequestOf(command)) /\ HasOne(toEngine, awaiting) /\ ~Has(toServer, awaiting)
      BY <2>1 DEF Unacted, AsksFor
    <3>2. r.method = RequestOf(command)
      BY <1>2, <1>4, <3>1, EngineTakes DEF r
    <3>3. ~Has(toEngine', awaiting)
      BY <1>2, <1>4, <3>1, IdTaken DEF r
    <3> QED BY <3>1, <3>2, <3>3
  <2>3. Acted'
    BY <1>1, <1>6, <2>2 DEF Acted, serverVars
  <2>4. StaleAlone'
    <3>1. ~HasStale(toEngine, awaiting)
      <4>1. StaleFirst(toEngine, awaiting) => ~HasStale(toEngine, awaiting)
        BY <1>2, <1>4, EngineTakes DEF r
      <4> QED BY <2>1, <4>1 DEF StaleAlone
    <3>2. ~HasStale(toEngine', awaiting)
      BY <1>2, <3>1, EngineTakes DEF r
    <3> QED BY <1>1, <3>2 DEF StaleAlone, serverVars
  <2>5. Token'
    <3>1. (NothingSent => NothingSent') /\ (NotHandled => NotHandled')
      BY <1>1 DEF NothingSent, NotHandled, Left, serverVars
    <3> QED BY <1>1, <2>1, <3>1
            DEF Token, AtLldb, OnWire, InQueue, Querying, Running, IsReplied, Waits, IsReply, clientVars, serverVars
  <2>6. e.type = "error" /\ Still => EndBefore(toServer', awaiting)
    <3> SUFFICES ASSUME e.type = "error", Still PROVE EndBefore(toServer', awaiting)
      OBVIOUS
    <3>1. ~running
      BY <1>3 DEF ResumeAllowed, Still
    <3>2. HasEnd(toServer)
      BY <2>1, <3>1 DEF SessionAgrees, EndTold
    <3> QED BY <1>5, <2>2, <3>2
  <2>7. ~ResumptionActed /\ (HasStop(toServer) \/ Left => Still)
    BY <1>7, <2>1 DEF ResumptionActed, Acted, StopsLast
  <2>8. StopsLast'
    <3>1. CASE Resumes(command)
      <4>1. ResumptionActed'
        BY <1>1, <1>4, <2>3, <3>1 DEF ResumptionActed, serverVars
      <4>2. ~StopAfter(toServer', awaiting)
        BY <1>5, <2>2
      <4>3. IsRefused(toServer', awaiting) => EndBefore(toServer', awaiting) \/ (~Left /\ ~StopBefore(toServer', awaiting))
        BY <1>5, <2>2, <2>6, <2>7
      <4> QED BY <1>1, <1>10, <4>1, <4>2, <4>3 DEF StopsLast, serverVars
    <3>2. CASE ~Resumes(command)
      <4>1. ~ResumptionActed' /\ ~Left
        BY <1>1, <3>2 DEF ResumptionActed, Left, serverVars
      <4>2. r.method \notin {"continue", "stepInstruction"}
        <5>1. command.kind \in {"c", "s", "g", "Z0", "z0"}
          BY <1>4 DEF ToHandle, Packets
        <5> QED BY <2>2, <3>2, <5>1 DEF RequestOf, Resumes
      <4>3. Still' = Still
        BY <4>2 DEF EngineReceives, r, Pause, SetIRBreakpoints, engineVars, Still
      <4> QED BY <1>1, <1>5, <1>10, <2>7, <4>1, <4>3 DEF StopsLast, serverVars
    <3> QED BY <3>1, <3>2
  <2> QED BY <2>1, <2>2, <2>3, <2>4, <2>5, <2>6, <2>8 DEF InOrder
<1>12. \A q : HasOne(q, awaiting) => Has(q, awaiting)
  BY DEF HasOne, Has
<1>13. ASSUME ~exitReply', timeouts' = 0 PROVE InStep'
  <2>1. /\ InStep /\ Acted' /\ Unacted /\ r.method = RequestOf(command)
        /\ e.type = "error" /\ Still => EndBefore(toServer', awaiting)
    BY <1>1, <1>11, <1>13 DEF SessionAgrees, serverVars
  <2>2. ~ResumptionUnacted' /\ ~Left' /\ ~Has(toServer, awaiting)
    BY <1>1, <1>10, <1>12, <2>1 DEF ResumptionUnacted, Unacted, Acted, InStep, serverVars
  <2>3. CASE Resumes(command)
    <3>1. ResumptionUnacted /\ serverRunning /\ serverRunning' = serverRunning
      BY <1>1, <1>4, <2>1, <2>3 DEF ResumptionUnacted, InStep, Left, serverVars
    <3>2. Still /\ ~HasStop(toServer)
      BY <2>1, <3>1 DEF InStep
    <3>3. ~StopBefore(toServer', awaiting) /\ (IsRefused(toServer', awaiting) => EndBefore(toServer', awaiting))
      BY <1>5, <2>1, <2>2, <3>2
    <3> QED BY <1>1, <1>5, <2>2, <3>1, <3>2, <3>3 DEF InStep, serverVars
  <2>4. CASE ~Resumes(command)
    <3>1. ~ResumptionActed'
      BY <1>1, <2>4 DEF ResumptionActed, serverVars
    <3>2. r.method \notin {"continue", "stepInstruction"}
      <4>1. command.kind \in {"c", "s", "g", "Z0", "z0"}
        BY <1>4 DEF ToHandle, Packets
      <4> QED BY <2>1, <2>4, <4>1 DEF RequestOf, Resumes
    <3>3. Still' = Still /\ serverRunning' = serverRunning
      BY <1>1, <3>2 DEF EngineReceives, r, Pause, SetIRBreakpoints, engineVars, Still, serverVars
    <3>4. /\ ~serverRunning => Still /\ ~HasStop(toServer)
          /\ HasStop(toServer) => Still /\ OneStop(toServer)
      BY <2>1 DEF InStep
    <3> QED BY <1>5, <2>2, <3>1, <3>3, <3>4 DEF InStep
  <2> QED BY <2>3, <2>4
<1>14. ASSUME running', timeouts' = 0 PROVE Placed' /\ BreakpointsAgree'
  <2>1. running /\ timeouts = 0 /\ ~exitReply /\ ~exitReply' /\ timeouts' <= 1
    BY <1>1, <1>8, <1>14 DEF SessionAgrees, EndTold, serverVars
  <2>2. Placed /\ BreakpointsAgree /\ Unacted /\ r.method = RequestOf(command)
    BY <1>11, <2>1 DEF SessionAgrees
  <2>3. UNCHANGED <<at, client, pc, toClient, awaiting, command, breaks>>
    BY <1>1 DEF clientVars, serverVars, EngineReceives, Resume, Pause, SetIRBreakpoints, engineVars
  <2>4. BreakpointsAgree'
    <3>1. SendsBreaks(toEngine', awaiting, breaks) /\ (r.method = "setIRBreakpoints" => r.points = breaks)
      BY <1>2, <2>2, EngineTakes DEF BreakpointsAgree, r
    <3>2. command.kind \in {"c", "s", "g", "Z0", "z0"}
      BY <1>4 DEF ToHandle, Packets
    <3>3. CASE command.kind \in {"Z0", "z0"}
      <4>1. r.method = "setIRBreakpoints"
        BY <2>2, <3>3 DEF RequestOf
      <4>2. instructionBreakpoints' = breaks
        BY <3>1, <4>1 DEF EngineReceives, r, SetIRBreakpoints
      <4> QED BY <2>3, <3>1, <4>2 DEF BreakpointsAgree
    <3>4. CASE command.kind \notin {"Z0", "z0"}
      <4>1. instructionBreakpoints = breaks
        BY <2>2, <3>4 DEF BreakpointsAgree
      <4>2. r.method # "setIRBreakpoints"
        BY <2>2, <3>2, <3>4 DEF RequestOf
      <4>3. instructionBreakpoints' = instructionBreakpoints
        BY <4>2 DEF EngineReceives, r, Resume, Pause, engineVars
      <4> QED BY <2>3, <3>1, <4>1, <4>3 DEF BreakpointsAgree
    <3> QED BY <3>3, <3>4
  <2>5. /\ Len(toServer') = Len(toServer) + 1 /\ Len(toServer) \in Nat /\ toServer'[Len(toServer) + 1] = e
        /\ \A i \in 1 .. Len(toServer) : toServer'[i] = toServer[i]
    BY <1>3, Queued
  <2>6. \A i \in 1 .. Len(toServer') : i \in 1 .. Len(toServer) \/ i = Len(toServer) + 1
    BY <2>5
  <2>7. e.type # "stopped" /\ e.at = at
    BY <1>3
  <2>8. Placed'
    BY <2>2, <2>3, <2>5, <2>6, <2>7 DEF Placed
  <2> QED BY <2>4, <2>8
<1> QED BY <1>9, <1>11, <1>13, <1>14 DEF SessionAgrees

\* The program runs, stops or ends.
LEMMA ProgramMoves ==
  ASSUME SessionTypes, SessionAgrees, EngineRuns \/ StopButton
  PROVE  SessionAgrees'
<1> USE DEF SessionTypes
<1>1. UNCHANGED <<wire, serverVars, toEngine, toClient, clientVars, timeouts>>
  BY DEF EngineRuns, StopButton
<1>2. instructionBreakpoints' = instructionBreakpoints
  BY DEF EngineRuns, StopButton, Boundary, Execute, Stop, OnStop
<1>3. Left' = Left
  BY <1>1 DEF Left, serverVars
<1>4. Token => Token'
  <2>1. (NothingSent => NothingSent') /\ (NotHandled => NotHandled')
    BY <1>1 DEF NothingSent, NotHandled, Left, serverVars
  <2> QED BY <1>1, <2>1
          DEF Token, AtLldb, OnWire, InQueue, Querying, Running, IsReplied, Waits, IsReply, clientVars, serverVars
<1>5. running /\ timeouts = 0 => ~exitReply /\ timeouts <= 1
  BY DEF SessionAgrees, EndTold
\* While the program runs, nothing is stale and no stop is on its way.
<1>6. ASSUME ~Still, ~exitReply, timeouts <= 1
      PROVE  /\ ~HasStale(toEngine, awaiting)
             /\ ~ResumptionActed => ~HasStop(toServer) /\ ~Left
             /\ ResumptionActed => ~StopAfter(toServer, awaiting)
             /\ timeouts = 0 => ~HasStop(toServer) /\ Running
  <2>1. Token /\ StaleAlone /\ StopsLast
    BY <1>6 DEF SessionAgrees, InOrder
  <2>2. ASSUME timeouts = 0 PROVE ~HasStop(toServer) /\ Running
    <3>1. InStep
      BY <1>6, <2>2 DEF SessionAgrees
    <3>2. ~HasStop(toServer) /\ serverRunning
      BY <1>6, <3>1 DEF InStep
    <3> QED BY <2>1, <3>2 DEF Token, AtLldb, OnWire, InQueue, Querying, IsReplied, NotHandled
  <2> QED BY <1>6, <2>1, <2>2 DEF StaleAlone, StopsLast
<1>7. CASE EngineRuns /\ running /\ ~paused /\ running' /\ ~paused' /\ toServer' = toServer
  <2>1. Still' = Still /\ ~Still /\ Unacted' = Unacted /\ Acted' = Acted
    BY <1>1, <1>7 DEF Still, Unacted, Acted, serverVars
  <2>2. ResumptionActed' = ResumptionActed /\ ResumptionUnacted' = ResumptionUnacted
    BY <1>1, <2>1 DEF ResumptionActed, ResumptionUnacted, serverVars
  <2>3. EndTold'
    BY <1>1, <1>7 DEF SessionAgrees, EndTold, serverVars
  <2>4. ASSUME ~exitReply', timeouts' <= 1 PROVE InOrder'
    <3>1. ~exitReply /\ timeouts <= 1 /\ Token /\ StaleAlone /\ StopsLast /\ (awaiting # 0 => Unacted \/ Acted)
      BY <1>1, <2>4 DEF SessionAgrees, InOrder, serverVars
    <3>2. StaleAlone'
      BY <1>1, <1>3, <1>7, <2>1, <3>1 DEF StaleAlone, serverVars
    <3>3. StopsLast'
      BY <1>1, <1>3, <1>7, <2>1, <2>2, <3>1 DEF StopsLast, serverVars
    <3> QED BY <1>1, <1>4, <2>1, <3>1, <3>2, <3>3 DEF InOrder, serverVars
  <2>5. ASSUME ~exitReply', timeouts' = 0 PROVE InStep'
    <3>1. InStep
      BY <1>1, <2>5 DEF SessionAgrees, serverVars
    <3> QED BY <1>1, <1>3, <1>7, <2>1, <2>2, <3>1 DEF InStep, serverVars
  <2>6. ASSUME running', timeouts' = 0 PROVE Placed' /\ BreakpointsAgree'
    <3>1. Placed /\ BreakpointsAgree /\ ~HasStop(toServer) /\ Running
      BY <1>1, <1>5, <1>6, <1>7, <2>1, <2>6 DEF SessionAgrees
    <3>2. toClient' = <<>> /\ client' = "running" /\ (awaiting' # 0 => Resumes(command'))
      BY <1>1, <3>1 DEF Running, clientVars, serverVars
    <3>3. \A k \in 1 .. Len(toServer') : toServer'[k].type # "stopped"
      BY <1>7, <3>1 DEF HasStop
    <3>4. Placed'
      <4>1. Len(toClient') = 0
        BY <3>2
      <4> QED BY <3>2, <3>3, <4>1 DEF Placed, Resumes
    <3>5. BreakpointsAgree'
      BY <1>1, <1>2, <2>1, <3>1 DEF BreakpointsAgree, serverVars
    <3> QED BY <3>4, <3>5
  <2> QED BY <2>3, <2>4, <2>5, <2>6 DEF SessionAgrees
<1>8. ASSUME NEW e \in EngineMessages, toServer' = Append(toServer, e), e.id = 0, e.at = at, Still', running, at' = at,
             \/ ~Still /\ running' /\ e.type = "stopped"
             \/ ~running' /\ e.type = "terminated"
      PROVE  SessionAgrees'
  <2>1. /\ HasStop(toServer') <=> HasStop(toServer) \/ e.type = "stopped"
        /\ HasEnd(toServer') <=> HasEnd(toServer) \/ e.type = "terminated"
        /\ OneStop(toServer) /\ (e.type = "stopped" => ~HasStop(toServer)) => OneStop(toServer')
        /\ awaiting # 0 =>
             /\ StopBefore(toServer', awaiting) => StopBefore(toServer, awaiting)
             /\ EndBefore(toServer, awaiting) => EndBefore(toServer', awaiting)
             /\ IsRefused(toServer', awaiting) => IsRefused(toServer, awaiting)
    BY <1>8, EngineTells
  <2>2. awaiting # 0 => /\ Has(toServer', awaiting) <=> Has(toServer, awaiting)
                        /\ HasOne(toServer, awaiting) => HasOne(toServer', awaiting)
    BY <1>8, IdAppended
  <2>3. EndTold'
    BY <1>1, <1>8, <2>1 DEF SessionAgrees, EndTold, serverVars
  <2>4. awaiting # 0 => (Unacted' <=> Unacted) /\ (Acted => Acted')
    BY <1>1, <2>2 DEF Unacted, Acted, serverVars
  <2>5. \A q : HasOne(q, awaiting) => Has(q, awaiting)
    BY DEF HasOne, Has
  <2>6. ASSUME awaiting # 0 => Unacted \/ Acted
        PROVE  (ResumptionActed' <=> ResumptionActed) /\ (ResumptionUnacted' <=> ResumptionUnacted)
    <3>1. ASSUME ResumptionActed' PROVE ResumptionActed
      <4>1. awaiting # 0 /\ Resumes(command) /\ Has(toServer', awaiting)
        BY <1>1, <2>5, <3>1 DEF ResumptionActed, Acted, serverVars
      <4> QED BY <2>2, <2>6, <4>1 DEF ResumptionActed, Unacted
    <3>2. ResumptionActed => ResumptionActed'
      BY <1>1, <2>4 DEF ResumptionActed, serverVars
    <3>3. ResumptionUnacted' <=> ResumptionUnacted
      BY <1>1, <2>4 DEF ResumptionUnacted, serverVars
    <3> QED BY <3>1, <3>2, <3>3
  <2>7. ASSUME ~exitReply', timeouts' <= 1 PROVE InOrder' /\ (awaiting # 0 => Unacted \/ Acted)
    <3>1. ~exitReply /\ timeouts <= 1 /\ Token /\ StaleAlone /\ StopsLast /\ (awaiting # 0 => Unacted \/ Acted)
      BY <1>1, <2>7 DEF SessionAgrees, InOrder, serverVars
    <3>2. StaleAlone'
      <4>1. CASE ~Still
        <5>1. ~HasStale(toEngine, awaiting)
          BY <1>6, <3>1, <4>1
        <5> QED BY <1>1, <5>1 DEF StaleAlone, serverVars
      <4>2. CASE Still
        <5>1. HasStop(toServer') => HasStop(toServer)
          BY <1>8, <2>1, <4>2
        <5> QED BY <1>1, <1>3, <1>8, <2>4, <3>1, <5>1 DEF StaleAlone, serverVars
      <4> QED BY <4>1, <4>2
    <3>3. StopsLast'
      <4>1. CASE ResumptionActed
        <5>1. awaiting # 0 /\ ResumptionActed'
          BY <2>6, <3>1, <4>1 DEF ResumptionActed
        <5>2. IsRefused(toServer, awaiting) => EndBefore(toServer, awaiting) \/ (~Left /\ ~StopBefore(toServer, awaiting))
          BY <3>1, <4>1 DEF StopsLast
        <5> QED BY <1>1, <1>3, <1>8, <2>1, <5>1, <5>2 DEF StopsLast, serverVars
      <4>2. CASE ~ResumptionActed
        <5>1. ~ResumptionActed'
          BY <2>6, <3>1, <4>2
        <5> QED BY <1>8, <5>1 DEF StopsLast
      <4> QED BY <4>1, <4>2
    <3> QED BY <1>1, <1>4, <2>4, <3>1, <3>2, <3>3 DEF InOrder, serverVars
  <2>8. ASSUME ~exitReply', timeouts' = 0 PROVE InStep'
    <3>1. InStep /\ ~exitReply /\ timeouts = 0 /\ timeouts <= 1 /\ (awaiting # 0 => Unacted \/ Acted)
      BY <1>1, <2>7, <2>8 DEF SessionAgrees, serverVars
    <3>2. (ResumptionActed' <=> ResumptionActed) /\ (ResumptionUnacted' <=> ResumptionUnacted)
      BY <2>6, <3>1
    <3>3. ~Left' /\ serverRunning' = serverRunning
      BY <1>1, <1>3, <3>1 DEF InStep, serverVars
    <3>4. ~serverRunning \/ ResumptionUnacted => Still /\ ~HasStop(toServer)
      BY <3>1 DEF InStep
    <3>5. ~serverRunning' \/ ResumptionUnacted' => Still' /\ ~HasStop(toServer')
      BY <1>8, <2>1, <3>2, <3>3, <3>4
    <3>6. ResumptionActed' => /\ ~StopBefore(toServer', awaiting)
                              /\ IsRefused(toServer', awaiting) => EndBefore(toServer', awaiting)
      <4>1. ResumptionActed => awaiting # 0
        BY DEF ResumptionActed
      <4> QED BY <2>1, <3>1, <3>2, <4>1 DEF InStep
    <3>7. OneStop(toServer')
      <4>1. HasStop(toServer) => Still /\ OneStop(toServer)
        BY <3>1 DEF InStep
      <4>2. ~HasStop(toServer) => OneStop(toServer)
        BY DEF HasStop, OneStop
      <4> QED BY <1>8, <2>1, <4>1, <4>2
    <3> QED BY <1>1, <1>8, <3>3, <3>5, <3>6, <3>7 DEF InStep, serverVars
  <2>9. ASSUME running', timeouts' = 0 PROVE Placed' /\ BreakpointsAgree'
    <3>1. ~Still /\ e.type = "stopped" /\ timeouts = 0 /\ ~exitReply /\ timeouts <= 1
      BY <1>1, <1>5, <1>8, <2>9
    <3>2. Placed /\ BreakpointsAgree /\ ~HasStop(toServer) /\ Running
      BY <1>6, <1>8, <3>1 DEF SessionAgrees
    <3>3. toClient' = <<>> /\ client' = "running" /\ (awaiting' # 0 => Resumes(command'))
      BY <1>1, <3>2 DEF Running, clientVars, serverVars
    <3>4. /\ Len(toServer') = Len(toServer) + 1 /\ Len(toServer) \in Nat /\ toServer'[Len(toServer) + 1] = e
          /\ \A i \in 1 .. Len(toServer) : toServer'[i] = toServer[i]
      BY <1>8, Queued
    <3>5. \A k \in 1 .. Len(toServer') : toServer'[k].type = "stopped" => toServer'[k].at = at'
      <4>1. \A k \in 1 .. Len(toServer') : k \in 1 .. Len(toServer) \/ k = Len(toServer) + 1
        BY <3>4
      <4>2. \A k \in 1 .. Len(toServer) : toServer[k].type # "stopped"
        BY <3>2 DEF HasStop
      <4> QED BY <1>8, <3>4, <4>1, <4>2
    <3>6. Placed'
      <4>1. Len(toClient') = 0
        BY <3>3
      <4> QED BY <3>3, <3>5, <4>1 DEF Placed, Resumes
    <3>7. BreakpointsAgree'
      BY <1>1, <1>2, <2>4, <3>2 DEF BreakpointsAgree, serverVars
    <3> QED BY <3>6, <3>7
  <2> QED BY <2>3, <2>7, <2>8, <2>9 DEF SessionAgrees
<1>9. \/ EngineRuns /\ running /\ ~paused /\ running' /\ ~paused' /\ toServer' = toServer
      \/ \E e \in EngineMessages :
           /\ toServer' = Append(toServer, e) /\ e.id = 0 /\ e.at = at
           /\ \/ EngineRuns /\ running /\ ~paused /\ running' /\ paused' /\ at' = at /\ e.type = "stopped"
              \/ running /\ ~running' /\ ~paused' /\ at' = at /\ e.type = "terminated"
  BY EngineEvents
<1> QED BY <1>7, <1>8, <1>9 DEF Still

-----------------------------------------------------------------------------
\* The session begins in agreement, and every step keeps it.
LEMMA SessionStarts ==
  ASSUME Init, EntryAssumption, SessionAssumption
  PROVE  SessionInv
<1>1. SessionTypes
  BY SessionTypesInit
<1> USE DEF Init, EngineInit
<1>2. EngineInv
  BY DEF EngineInv
<1>3. \A i : i \notin 1 .. Len(<<>>)
  OBVIOUS
<1>4. EndTold
  BY <1>3 DEF EndTold, HasEnd
<1>5. Token
  <2>1. NothingSent /\ NotHandled
    BY <1>3 DEF NothingSent, NotHandled, PacketsIn
  <2> QED BY <2>1 DEF Token, AtLldb
<1>6. ~HasStale(toEngine, awaiting) /\ ~HasStop(toServer) /\ Still /\ ~ResumptionActed /\ ~Left
  BY <1>3 DEF HasStale, HasStop, Still, ResumptionActed, Left
<1>7. InOrder
  BY <1>5, <1>6 DEF InOrder, StaleAlone, StopsLast
<1>8. InStep
  BY <1>6 DEF InStep
<1>9. Placed /\ BreakpointsAgree
  BY <1>3 DEF Placed, BreakpointsAgree, SendsBreaks
<1> QED BY <1>1, <1>2, <1>4, <1>7, <1>8, <1>9 DEF SessionInv, SessionAgrees

LEMMA SessionGoesOn ==
  ASSUME SessionInv, [Next]_vars, EntryAssumption, SessionAssumption
  PROVE  SessionInv'
<1> USE DEF SessionInv
<1>1. SessionTypes'
  BY SessionTypesNext
<1>2. EngineInv'
  <2>1. UNCHANGED engineVars \/ EngineReceives \/ EngineRuns \/ StopButton
    BY DEF Next, vars, ClientCommands, ClientInterrupts, ClientReceives, Feed, Handle, Timeout, ServerReceives
  <2> QED BY <2>1, EngineMoves
<1>3. SessionAgrees'
  <2>1. CASE EngineReceives
    BY <2>1, OtherAnswered, AwaitedAnswered
  <2>2. CASE EngineRuns \/ StopButton
    BY <2>2, ProgramMoves
  <2> QED BY <2>1, <2>2, LldbCommands, LldbInterrupts, LldbReceives, ChunkRead, PacketHandled, RequestTimesOut,
             ServerMoves, SessionRests DEF Next
<1> QED BY <1>1, <1>2, <1>3

\* For any instructions, any number of packets and timeouts, packets that come
\* together or not, and a stop button pressed at any time: LLDB, the server and the
\* engine mean the same stop, place and breakpoints, as long as no request timed
\* out, and a resumed program moves on.
THEOREM SessionInAgreement == Spec => []InAgreement
<1> USE EntryAssumption, SessionAssumption
<1>1. Init => SessionInv
  BY SessionStarts
<1>2. SessionInv /\ [Next]_vars => SessionInv'
  BY SessionGoesOn
<1>3. SessionInv => InAgreement
  <2> SUFFICES ASSUME SessionInv PROVE InAgreement
    OBVIOUS
  <2>1. TypeOK
    BY DEF SessionInv, SessionTypes
  <2>2. MovesOn
    BY DEF SessionInv, EngineInv, SessionTypes, MovesOn
  <2>3. ASSUME Undisturbed
        PROVE  Token /\ InStep /\ Placed /\ BreakpointsAgree /\ running
    BY <2>3 DEF SessionInv, SessionAgrees, InOrder, EndTold, Undisturbed, SessionTypes
  <2>4. StoppedMeansPaused
    <3> SUFFICES ASSUME client \in {"ready", "waiting"}, Undisturbed PROVE paused /\ pc = at
      BY DEF StoppedMeansPaused
    <3>1. ~serverRunning
      BY <2>3 DEF Token, AtLldb, OnWire, InQueue, Querying, Running, IsReplied, NotHandled
    <3> QED BY <2>3, <3>1 DEF InStep, Still, Placed
  <2>5. BreakpointsInstalled
    <3> SUFFICES ASSUME Undisturbed, ~paused PROVE instructionBreakpoints = breaks
      BY DEF BreakpointsInstalled
    <3>1. serverRunning
      BY <2>3 DEF InStep, Still
    <3>2. awaiting # 0 => Resumes(command)
      BY <2>3, <3>1 DEF Token, AtLldb, OnWire, InQueue, Querying, Running, IsReplied, NotHandled
    <3> QED BY <2>3, <3>2 DEF BreakpointsAgree, Resumes
  <2> QED BY <2>1, <2>2, <2>4, <2>5 DEF InAgreement
<1> QED BY <1>1, <1>2, <1>3, PTL DEF Spec

\* In the same generality: no breakpoint is run over unless the program was
\* resumed from it, and until a second request times out every reply is one that
\* LLDB waits for.
THEOREM SessionStepsExpected == Spec => StepsExpected
<1> USE EntryAssumption, SessionAssumption
<1>1. Init => SessionInv
  BY SessionStarts
<1>2. SessionInv /\ [Next]_vars => SessionInv'
  BY SessionGoesOn
<1>3. SessionInv /\ [Next]_vars =>
        [(EngineRuns /\ ~paused') => (at \notin instructionBreakpoints \/ executed = 0)]_vars
  <2> SUFFICES ASSUME SessionInv, EngineRuns, ~paused', executed # 0 PROVE at \notin instructionBreakpoints
    OBVIOUS
  <2>1. running /\ ~paused /\ at \in Points
    BY DEF EngineRuns, Boundary, SessionInv, SessionTypes, TypeOK
  <2>2. skip = 0 /\ skip # at
    BY <2>1, EntryAssumption DEF SessionInv, EngineInv, EntryAssumption
  <2>3. Reasons(at) = {}
    BY <2>2 DEF EngineRuns, Boundary, Skipped, Stop
  <2>4. at \in instructionBreakpoints => "breakpoint" \in Reasons(at)
    BY DEF Reasons
  <2> QED BY <2>3, <2>4
<1>4. SessionInv /\ [Next]_vars =>
        [(ClientReceives /\ ~exitReply /\ timeouts <= 1) =>
           LET kind == Head(toClient).kind IN
           /\ kind = "T" => client = "running"
           /\ kind \in {"g", "OK"} => client = "waiting"
           /\ kind = "E01" => client \in {"running", "waiting"}]_vars
  <2> SUFFICES ASSUME SessionInv, ClientReceives, ~exitReply, timeouts <= 1
               PROVE  LET kind == Head(toClient).kind IN
                      /\ kind = "T" => client = "running"
                      /\ kind \in {"g", "OK"} => client = "waiting"
                      /\ kind = "E01" => client \in {"running", "waiting"}
    OBVIOUS
  <2>1. toClient # <<>> /\ Token
    BY DEF ClientReceives, SessionInv, SessionAgrees, InOrder
  <2>2. IsReplied
    BY <2>1 DEF Token, AtLldb, OnWire, InQueue, Querying, Running
  <2>3. IsReply(Head(toClient))
    <3>1. Head(toClient) = toClient[1]
      BY <2>1, Dequeued DEF SessionInv, SessionTypes
    <3> QED BY <2>2, <3>1 DEF IsReplied
  <2> QED BY <2>3 DEF IsReply
<1>5. Spec => BreakpointsHit
  BY <1>1, <1>2, <1>3, PTL DEF Spec, BreakpointsHit
<1>6. Spec => RepliesExpected
  BY <1>1, <1>2, <1>4, PTL DEF Spec, RepliesExpected
<1> QED BY <1>5, <1>6 DEF StepsExpected
=============================================================================
