------------------------------ MODULE Console -------------------------------
(***************************************************************************)
(* The pen console (include/console/console.cpp): a ring of text lines, a  *)
(* viewport on it that is redrawn piece by piece, and one line of keyboard *)
(* input at a time, which a blocked reader or the program's own loop takes.*)
(*                                                                         *)
(* The events package (module Events) is abstracted to one queue: poll     *)
(* takes all of it and calls the handlers for one event after another; the *)
(* program's own handlers may call any function of the console between two *)
(* events. Text arrives as code points; a tab is eight blanks or fewer.    *)
(***************************************************************************)
EXTENDS Integers, Sequences, FiniteSets, SequencesExt, FiniteSetsExt

CONSTANTS Columns, Rows, History,   \* config, as clamped by init
          Letters, Events,          \* printable keys; what the hats report
          Printed,                  \* what the program prints
          Prompts,                  \* prompts (of one character; more are a Write first)
          MaxBytes,                 \* the program's limit of an input line
          CallBound, HatBound       \* bounds: calls of the program, events

ASSUME ConfigAssumption ==
  /\ Columns \in Nat /\ Columns >= 2 /\ Rows \in Nat \ {0} /\ History \in Nat /\ History >= Rows
  /\ Events \subseteq Letters \cup {"enter", "delete", "up", "down"}
  /\ Letters \cap {"empty", "half", "wide", "lf", "cr", "bs", "enter", "delete", "up", "down"} = {} /\ "cursor" \notin Letters \cup Printed
  /\ Printed \cap {"empty", "half"} = {} /\ Prompts \subseteq Printed
  /\ MaxBytes \in Nat /\ CallBound \in Nat /\ HatBound \in Nat

VARIABLES
  text,         \* the ring and where the program writes: see Fresh
  accepting, completed, closed, cancelled,        \* accepting_input, completed_input, ...
  input, result, inputRow, inputColumn, limit,    \* input_text, completed_text, ...
  painted,      \* __scl_console::painted: what the package takes to be drawn
  ink,          \* what is on the pen layer, in every cell of the viewport
  cursorVisible, cursorDrawn, cursorAt, resetSurface,
  queue, batch, \* events waiting; events this poll has yet to dispatch
  phase,        \* "main", "dispatching" or "painting"
  flushing, reader,       \* in flush? is read_line_result waiting?
  submitted, shifted,     \* history: Enter in this batch; see DeleteKey
  calls, hats             \* counters

inputVars == <<accepting, completed, closed, cancelled, input, result, inputRow, inputColumn, limit>>
paintVars == <<painted, ink, cursorDrawn, cursorAt, resetSurface>>
eventVars == <<queue, batch, phase, flushing, reader, submitted>>
counters == <<calls, hats>>
vars == <<text, inputVars, paintVars, cursorVisible, eventVars, shifted, counters>>

Columns0 == 0 .. Columns - 1
Screen == (0 .. Rows - 1) \X Columns0

Empty == "empty"
Half == "half"     \* the right half of a wide character
Wide == {"wide"}
Width(g) == IF g \in Wide THEN 2 ELSE 1

-----------------------------------------------------------------------------
\* Text.
Fresh == [cells |-> [r \in 0 .. History - 1 |-> [c \in Columns0 |-> Empty]],
          oldest |-> 0, newest |-> 0, view |-> 0, column |-> 0, repaint |-> TRUE, dirty |-> {}]

BottomView(t) == Max({t.newest - Rows + 1, t.oldest})
ReadCell(t, row, col) == t.cells[row % History][col]
SetCell(t, row, col, g) == [t EXCEPT !.cells[row % History][col] = g]

\* Dirty cells need not be listed before a complete repaint.
Dirty(t, cells) == IF t.repaint THEN t ELSE [t EXCEPT !.dirty = @ \cup cells]

Follow(t) == [t EXCEPT !.view = BottomView(t), !.repaint = @ \/ t.view # BottomView(t)]

NextLine(t) ==
  LET full == t.newest + 1 - t.oldest >= History
      moved == [t EXCEPT !.newest = @ + 1, !.oldest = IF full THEN @ + 1 ELSE @, !.column = 0,
                         !.cells[(t.newest + 1) % History] = [c \in Columns0 |-> Empty]]
      view == IF t.view = BottomView(t) THEN BottomView(moved) ELSE Max({t.view, moved.oldest})
  IN [moved EXCEPT !.view = view, !.repaint = @ \/ view # t.view]

\* Both halves of a wide character go together.
OtherHalf(t, row, col) ==
  IF ReadCell(t, row, col) = Half /\ col > 0 THEN {col - 1}
  ELSE {c \in {col + 1} : c < Columns /\ ReadCell(t, row, c) = Half}

\* Mutant: only the cell itself is erased.
EraseAtAlone(t, row, col) ==
  IF ReadCell(t, row, col) = Empty THEN t
  ELSE SetCell(Dirty(t, {<<row, col>>}), row, col, Empty)

EraseAt(t, row, col) ==
  IF ReadCell(t, row, col) = Empty THEN t
  ELSE LET gone == {col} \cup OtherHalf(t, row, col) IN
       [Dirty(t, {row} \X gone) EXCEPT
          !.cells[row % History] = [c \in Columns0 |-> IF c \in gone THEN Empty ELSE @[c]]]

BackSpace(t) ==
  IF t.column = 0 THEN t
  ELSE LET c == t.column - 1
           start == IF ReadCell(t, t.newest, c) = Half /\ c > 0 THEN c - 1 ELSE c
       IN EraseAt([t EXCEPT !.column = start], t.newest, start)

\* A character where there is room for it.
Place(t, g) ==
  LET e == EraseAt(t, t.newest, t.column)
      f == IF Width(g) = 2 THEN EraseAt(e, t.newest, t.column + 1) ELSE e
      s == SetCell(f, t.newest, t.column, g)
      h == IF Width(g) = 2 THEN SetCell(s, t.newest, t.column + 1, Half) ELSE s
  IN [Dirty(h, {<<t.newest, t.column>>}) EXCEPT !.column = @ + Width(g)]

PutGlyph(t, g) == Place(IF t.column + Width(g) > Columns THEN NextLine(t) ELSE t, g)

Put(t, g) ==
  CASE g = "lf" -> NextLine(t)
    [] g = "cr" -> [t EXCEPT !.column = 0]
    [] g = "bs" -> BackSpace(t)
    [] OTHER    -> PutGlyph(t, g)

Visible(t, row, col) ==
  IF t.view + row \in t.oldest .. t.newest THEN ReadCell(t, t.view + row, col) ELSE Empty

-----------------------------------------------------------------------------
Init ==
  /\ text = Fresh
  /\ accepting = FALSE /\ completed = FALSE /\ closed = FALSE /\ cancelled = FALSE
  /\ input = <<>> /\ result = <<>> /\ inputRow = 0 /\ inputColumn = 0 /\ limit = 0
  /\ painted = [s \in Screen |-> Empty] /\ ink = [s \in Screen |-> {}]
  /\ cursorVisible = FALSE /\ cursorDrawn = FALSE /\ cursorAt = <<0, 0>> /\ resetSurface = TRUE
  /\ queue = <<>> /\ batch = <<>> /\ phase = "main" /\ flushing = FALSE /\ reader = FALSE
  /\ submitted = FALSE /\ shifted = FALSE
  /\ calls = 0 /\ hats = 0

\* The program runs: its main code, or a handler of its own during a poll.
MayCall == /\ phase = "dispatching" \/ (phase = "main" /\ ~reader)
           /\ calls < CallBound
           /\ calls' = calls + 1 /\ UNCHANGED hats

\* cancel_input, which keeps what was echoed on a line of its own.
Abandoned(t) == IF accepting THEN Put(t, "lf") ELSE t

Cancel ==
  /\ accepting' = FALSE
  /\ cancelled' = (cancelled \/ accepting)
  /\ input' = IF accepting THEN <<>> ELSE input
  /\ UNCHANGED <<inputRow, inputColumn, limit>>

Write ==
  /\ MayCall
  /\ \E g \in Printed : text' = Put(Abandoned(text), g)
  /\ Cancel
  /\ UNCHANGED <<completed, closed, result, paintVars, cursorVisible, eventVars, shifted>>

CancelInput ==
  /\ MayCall /\ accepting
  /\ text' = Abandoned(text)
  /\ Cancel
  /\ UNCHANGED <<completed, closed, result, paintVars, cursorVisible, eventVars, shifted>>

CloseInput ==
  /\ MayCall
  /\ text' = Abandoned(text)
  /\ accepting' = FALSE /\ cancelled' = FALSE /\ closed' = TRUE
  /\ input' = IF accepting THEN <<>> ELSE input
  /\ UNCHANGED <<completed, result, inputRow, inputColumn, limit, paintVars, cursorVisible, eventVars, shifted>>

ReopenInput ==
  /\ MayCall
  /\ closed' = FALSE /\ cancelled' = FALSE
  /\ UNCHANGED <<text, accepting, completed, input, result, inputRow, inputColumn, limit,
                 paintVars, cursorVisible, eventVars, shifted>>

\* clear: the rows that are left are cleared when they are reached again.
Clear ==
  /\ MayCall
  /\ text' = [text EXCEPT !.oldest = 0, !.newest = 0, !.view = 0, !.column = 0, !.repaint = TRUE, !.dirty = {},
                          !.cells[0] = [c \in Columns0 |-> Empty]]
  /\ accepting' = FALSE /\ completed' = FALSE /\ cancelled' = (cancelled \/ accepting)
  /\ input' = <<>> /\ result' = <<>>
  /\ UNCHANGED <<closed, inputRow, inputColumn, limit, paintVars, cursorVisible, eventVars, shifted>>

\* init once more, with the same options.
Reset ==
  /\ MayCall
  /\ text' = Fresh
  /\ accepting' = FALSE /\ completed' = FALSE /\ closed' = FALSE /\ cancelled' = FALSE
  /\ input' = <<>> /\ result' = <<>>
  /\ cursorVisible' = FALSE /\ resetSurface' = TRUE
  /\ UNCHANGED <<inputRow, inputColumn, limit, painted, ink, cursorDrawn, cursorAt, eventVars, shifted>>

-----------------------------------------------------------------------------
\* Mutant: input begins inside a handler.
CanBeginAnywhere == ~closed /\ ~accepting /\ ~completed

CanBegin == phase # "dispatching" /\ ~closed /\ ~accepting /\ ~completed

\* What the ring retains from the first cell of the input on.
Capacity(column) == Min({MaxBytes, History * Columns - column})

\* begin_input: its prompt is written and fills no line completely.
Begin(prompt) ==
  /\ CanBegin
  /\ cancelled' = FALSE
  /\ LET p == Put(text, prompt)
         t == Follow(IF p.column = Columns THEN NextLine(p) ELSE p)
     IN /\ text' = t
        /\ inputRow' = t.newest /\ inputColumn' = t.column
        /\ limit' = Capacity(t.column)
  /\ input' = <<>>
  /\ accepting' = TRUE
  /\ cursorVisible' = TRUE
  /\ UNCHANGED <<completed, closed, result>>

BeginInput ==
  /\ MayCall
  /\ \E p \in Prompts : Begin(p)
  /\ UNCHANGED <<paintVars, eventVars, shifted>>

\* read_line_result: it flushes until the input has ended, then takes a result.
ReadLine ==
  /\ MayCall
  /\ \E p \in Prompts : Begin(p)
  /\ reader' = TRUE
  /\ UNCHANGED <<paintVars, queue, batch, phase, flushing, submitted, shifted>>

\* try_read_line_result.
Take ==
  /\ completed' = FALSE
  /\ result' = IF completed THEN <<>> ELSE result
  /\ cancelled' = (cancelled /\ (completed \/ closed))
  /\ UNCHANGED <<accepting, closed, input, inputRow, inputColumn, limit>>

TryRead ==
  /\ MayCall
  /\ Take
  /\ UNCHANGED <<text, paintVars, cursorVisible, eventVars, shifted>>

ReaderReturns ==
  /\ reader /\ phase = "main" /\ ~accepting
  /\ reader' = FALSE
  /\ Take
  /\ UNCHANGED <<text, paintVars, cursorVisible, queue, batch, phase, flushing, submitted, shifted, counters>>

-----------------------------------------------------------------------------
\* Keys (only while input is accepted) and the wheel.
Scroll(lines) ==
  LET next == Max({text.oldest, Min({text.view - lines, BottomView(text)})}) IN
  /\ text' = [text EXCEPT !.view = next, !.repaint = @ \/ next # text.view]
  /\ UNCHANGED <<inputVars, cursorVisible, submitted, shifted>>

EnterKey ==
  /\ accepting' = FALSE /\ completed' = TRUE
  /\ result' = input /\ input' = <<>>
  /\ text' = Put(Follow(text), "lf")
  /\ cursorVisible' = FALSE
  /\ submitted' = TRUE
  /\ UNCHANGED <<closed, cancelled, inputRow, inputColumn, limit, shifted>>

\* A full line wraps only at the character after it.
EndRow(end) == inputRow + (IF end = 0 THEN 0 ELSE (end - 1) \div Columns)
EndColumn(end) == IF end = 0 THEN 0 ELSE ((end - 1) % Columns) + 1

\* The view may move back without a repaint: shifted notes it.
DeleteKey ==
  /\ cursorVisible' = TRUE
  /\ IF input = <<>> THEN text' = Follow(text) /\ UNCHANGED <<input, shifted>>
     ELSE LET offset == inputColumn + Len(input) - 1
              erased == EraseAt(Follow(text), inputRow + offset \div Columns, offset % Columns)
              t == [erased EXCEPT !.newest = EndRow(offset), !.column = EndColumn(offset)]
          IN /\ text' = [t EXCEPT !.view = Min({t.view, BottomView(t)})]
             /\ input' = Front(input)
             /\ shifted' = (shifted \/ t.view > BottomView(t))
  /\ UNCHANGED <<accepting, completed, closed, cancelled, result, inputRow, inputColumn, limit, submitted>>

LetterKey(k) ==
  /\ IF Len(input) >= limit THEN text' = Follow(text) /\ UNCHANGED <<input, cursorVisible>>
     ELSE /\ input' = Append(input, k)
          /\ text' = Put(Follow(text), k)
          /\ cursorVisible' = TRUE
  /\ UNCHANGED <<accepting, completed, closed, cancelled, result, inputRow, inputColumn, limit, submitted, shifted>>

Called(e) ==
  \/ e = "up" /\ Scroll(1)
  \/ e = "down" /\ Scroll(-1)
  \/ e \notin {"up", "down"} /\ ~accepting /\ UNCHANGED <<text, inputVars, cursorVisible, submitted, shifted>>
  \/ accepting /\ e = "enter" /\ EnterKey
  \/ accepting /\ e = "delete" /\ DeleteKey
  \/ accepting /\ e \in Letters /\ LetterKey(e)

-----------------------------------------------------------------------------
\* The event hats, at any moment.
Hat ==
  /\ hats < HatBound /\ hats' = hats + 1
  /\ \E e \in Events : queue' = Append(queue, e)
  /\ UNCHANGED <<text, inputVars, paintVars, cursorVisible, batch, phase, flushing, reader, submitted, shifted, calls>>

\* What follows a poll.
PollDone(f) == IF f THEN "painting" ELSE "main"

\* events::poll, called by the main code or at the beginning of flush.
Poll ==
  /\ phase = "main" /\ (reader => accepting)
  /\ \E f \in BOOLEAN :
       /\ reader => f
       /\ f => ~flushing
       /\ flushing' = f
       /\ phase' = IF queue = <<>> THEN PollDone(f) ELSE "dispatching"
  /\ queue' = <<>> /\ batch' = queue
  /\ submitted' = FALSE
  /\ UNCHANGED <<text, inputVars, paintVars, cursorVisible, reader, shifted, counters>>

Dispatch ==
  /\ phase = "dispatching" /\ batch # <<>>
  /\ batch' = Tail(batch)
  /\ Called(Head(batch))
  /\ UNCHANGED <<paintVars, queue, phase, flushing, reader, counters>>

PollEnds ==
  /\ phase = "dispatching" /\ batch = <<>>
  /\ phase' = PollDone(flushing)
  /\ UNCHANGED <<text, inputVars, paintVars, cursorVisible, queue, batch, flushing, reader, submitted, shifted, counters>>

-----------------------------------------------------------------------------
\* Painting: p is [painted, ink, cursor (drawn or not)].
Painting == [painted |-> painted, ink |-> ink, cursor |-> cursorDrawn]
Blank == [painted |-> [s \in Screen |-> Empty], ink |-> [s \in Screen |-> {}], cursor |-> FALSE]

\* The ink the glyphs from some columns of a row leave at col: each covers its cells.
Drawn(row, columns, col) ==
  {<<Visible(text, row, c), c>> :
     c \in {d \in columns : /\ Visible(text, row, d) \notin {Empty, Half}
                            /\ col \in d .. d + Width(Visible(text, row, d)) - 1}}

\* Mutant: a region is never larger than its cell.
RegionAlone(p, row, col) == {col}

\* The cell with the characters that reach into it, before or now.
Region(p, row, col) ==
  LET joined(c) == p.painted[<<row, c>>] = Half \/ Visible(text, row, c) = Half IN
  {c \in Columns0 : /\ c < col => \A d \in c + 1 .. col : joined(d)
                    /\ c > col => \A d \in col + 1 .. c : joined(d)}

Update(p, row, col, force) ==
  IF ~force /\ p.painted[<<row, col>>] = Visible(text, row, col) THEN p
  ELSE LET columns == Region(p, row, col)
           region == {row} \X columns
           hit == p.cursor /\ cursorAt \in region
           erase == force \/ hit \/ \E s \in region : p.painted[s] # Empty
       IN [painted |-> [s \in Screen |-> IF s \in region THEN Visible(text, s[1], s[2]) ELSE p.painted[s]],
           ink |-> [s \in Screen |->
                      IF s[1] = row THEN (IF erase /\ s \in region THEN {} ELSE p.ink[s]) \cup Drawn(row, columns, s[2])
                      ELSE p.ink[s]],
           cursor |-> p.cursor /\ ~hit]

\* Cells whose update is due.
Due == IF text.repaint THEN Screen
       ELSE {<<d[1] - text.view, d[2]>> : d \in text.dirty} \cap Screen

CursorCell == <<text.newest - text.view, Min({text.column, Columns - 1})>>
Shown(visible) == accepting /\ visible /\ text.newest \in text.view .. text.view + Rows - 1

\* The cursor is erased where it was drawn before it is drawn elsewhere.
Moved(p, visible) ==
  IF p.cursor /\ (~Shown(visible) \/ CursorCell # cursorAt) THEN Update(p, cursorAt[1], cursorAt[2], TRUE) ELSE p

Cell(n) == <<(n - 1) \div Columns, (n - 1) % Columns>>

\* They are updated row by row, as for a complete repaint; dirty cells in the code
\* as they were noted, which makes no difference to what is drawn in the end.
Updated(p) ==
  LET after[n \in 0 .. Rows * Columns] ==
        IF n = 0 THEN p
        ELSE IF Cell(n) \in Due THEN Update(after[n - 1], Cell(n)[1], Cell(n)[2], FALSE) ELSE after[n - 1]
  IN after[Rows * Columns]

Painted(visible) ==
  LET p0 == IF resetSurface THEN Blank ELSE Painting
      p1 == Updated(Moved(p0, visible))
  IN [p1 EXCEPT !.ink = IF Shown(visible) /\ ~p1.cursor
                        THEN [p1.ink EXCEPT ![CursorCell] = @ \cup {<<"cursor", CursorCell[2]>>}] ELSE p1.ink,
                !.cursor = Shown(visible)]

\* flush after its poll; the cursor may be due to blink.
Paint ==
  /\ \E visible \in {cursorVisible, accepting # cursorVisible} :
       /\ cursorVisible' = visible
       /\ LET p == Painted(visible) IN painted' = p.painted /\ ink' = p.ink /\ cursorDrawn' = p.cursor
       /\ cursorAt' = CursorCell
  /\ resetSurface' = FALSE
  /\ text' = [text EXCEPT !.repaint = FALSE, !.dirty = {}]
  /\ shifted' = (shifted /\ ~text.repaint)
  /\ UNCHANGED <<inputVars, queue, batch, reader, submitted>>

\* Mutant: flush is entered once only.
PaintEndsFlushing ==
  /\ phase = "painting"
  /\ Paint
  /\ phase' = "main" /\ UNCHANGED flushing
  /\ UNCHANGED counters

PaintEnds ==
  /\ phase = "painting"
  /\ Paint
  /\ phase' = "main" /\ flushing' = FALSE
  /\ UNCHANGED counters

\* flush in a handler of a poll that no flush began: its poll returns at once.
FlushInHandler ==
  /\ phase = "dispatching" /\ ~flushing
  /\ MayCall
  /\ Paint
  /\ UNCHANGED <<phase, flushing>>

-----------------------------------------------------------------------------
Next == \/ Write \/ CancelInput \/ CloseInput \/ ReopenInput \/ Clear \/ Reset \/ BeginInput \/ ReadLine
        \/ TryRead \/ ReaderReturns \/ Hat \/ Poll \/ Dispatch \/ PollEnds \/ PaintEnds \/ FlushInHandler

\* A blocked reader keeps flushing, and handlers return.
Fairness == WF_vars(reader /\ Poll) /\ WF_vars(Dispatch) /\ WF_vars(PollEnds) /\ WF_vars(PaintEnds) /\ WF_vars(ReaderReturns)
Spec == Init /\ [][Next]_vars /\ Fairness

-----------------------------------------------------------------------------
Glyphs == {Empty, Half} \cup Wide \cup Letters \cup Printed

TypeOK ==
  /\ text.cells \in [0 .. History - 1 -> [Columns0 -> Glyphs]]
  /\ text.column \in 0 .. Columns /\ text.newest - text.oldest \in 0 .. History - 1
  /\ text.view \in text.oldest .. BottomView(text)
  /\ painted \in [Screen -> Glyphs] /\ phase \in {"main", "dispatching", "painting"}
  /\ Len(input) <= limit

\* A wide character is on the screen with both its halves or not at all.
WideWhole ==
  \A row \in text.oldest .. text.newest, col \in Columns0 :
    LET g == ReadCell(text, row, col) IN
    /\ g \in Wide => col + 1 < Columns /\ ReadCell(text, row, col + 1) = Half
    /\ g = Half => col > 0 /\ ReadCell(text, row, col - 1) \in Wide

\* The input stands where it began, whole, for as long as it can be edited: the
\* history never drops its beginning and a deletion never reaches the prompt.
EchoIsInput ==
  accepting =>
    /\ inputRow >= text.oldest
    /\ \A i \in 1 .. Len(input) :
         LET at == inputColumn + i - 1 IN
         /\ inputRow + at \div Columns <= text.newest
         /\ ReadCell(text, inputRow + at \div Columns, at % Columns) = input[i]
    /\ LET end == inputColumn + Len(input) IN
       text.newest = EndRow(end) /\ text.column = EndColumn(end)

\* There is one line at most: being edited, or waiting to be taken.
OneLine == ~(accepting /\ completed) /\ ~(accepting /\ closed)

\* The line being edited is what the screen shows of it.
LineWhole == TypeOK /\ WideWhole /\ EchoIsInput /\ OneLine

\* "The remaining keys after Enter in the same batch do not enter the next
\* session by mistake" (README).
BatchIsolated == [][submitted => Len(input') <= Len(input)]_vars

Expected(row, col) ==
  (UNION {{m \in {<<Visible(text, row, c), c>>} : m[1] \notin {Empty, Half} /\ col \in c .. c + Width(m[1]) - 1} : c \in Columns0})
  \cup {m \in {<<"cursor", col>>} : cursorDrawn /\ cursorAt = <<row, col>>}

AsShown == \A s \in Screen : ink[s] = Expected(s[1], s[2])

\* What flush leaves on the pen layer is the visible text, and the cursor at the
\* end of the input, unless a deletion moved the view.
FlushShows == [][phase = "painting" /\ phase' # "painting" /\ ~shifted => AsShown']_vars

\* The same after every deletion: "flush recognises changed regions of overwritten
\* text, backspace, cursor and scrolling" (README).
DeletionShows == [][phase = "painting" /\ phase' # "painting" => AsShown']_vars

\* A blocked reader gets the line that was entered, or the end of the input.
EnterEndsRead ==
  (reader /\ "enter" \in ToSet(queue) \cup ToSet(batch)) ~> ~reader
=============================================================================
