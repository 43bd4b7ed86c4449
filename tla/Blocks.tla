-------------------------------- MODULE Blocks --------------------------------
(***************************************************************************)
(* The Builder of src/blocks.cpp: scripts, which are trees, become the     *)
(* flat table of blocks of a Scratch project, linked by next, parent and   *)
(* inputs, with the Boolean sockets filled by Boolean blocks only.         *)
(*                                                                         *)
(* An expression is a literal [literal] or a block [op, inputs, branches], *)
(* where inputs maps sockets to expressions and branches maps sockets to   *)
(* scripts; a script is a sequence of blocks.  A call's arguments are its  *)
(* inputs, named by the procedure's argument ids.  A serialized input is   *)
(* [kind, block, literal]: 1 for a literal or a shadow, 2 for a Boolean    *)
(* block or a branch, 3 for a block over an empty default.                 *)
(*                                                                         *)
(* ast_block and sequence call each other: activations is the C++ stack,   *)
(* with what each still has to do.  A saved project is then read as the    *)
(* Scratch VM reads it, along any way from a top block.                    *)
(***************************************************************************)
EXTENDS Integers, Sequences, FiniteSets, SequencesExt, Functions

CONSTANTS NoBlock,
          Expressions,   \* the expressions and statements of the projects, and their parts
          Projects       \* what is built: hats and procedures [op, ids, body] in their order

VARIABLES project, blocks,
          activations,   \* of sequence and ast_block, innermost last
          turn,          \* how many hats and procedures were begun
          progress,      \* "build", "refused", "saved" or "read"
          reading        \* where the VM is: a block, and the script that should begin there

buildVars == <<project, blocks, activations, turn, progress, reading>>

-----------------------------------------------------------------------------
IsLiteral(e) == "literal" \in DOMAIN e
LiteralOf(n) == [literal |-> n]
Ast(op, in, branches) == [op |-> op, inputs |-> in, branches |-> branches]
NoSockets == [s \in {} |-> <<>>]

BooleanOpcode(op) ==
  op \in {"operator_equals", "operator_lt", "operator_gt", "operator_and", "operator_or", "operator_not",
          "operator_contains", "data_listcontainsitem", "argument_reporter_boolean", "sensing_touchingobject",
          "sensing_touchingcolor", "sensing_coloristouchingcolor", "sensing_keypressed", "sensing_mousedown"}

\* The only expression that asks to be a shadow.
Shadow(op) == op = "pen_menu_colorParam"

BooleanSocket(op, socket) ==
  \/ socket = "CONDITION" /\ op \in {"control_if", "control_if_else", "control_repeat_until", "control_wait_until"}
  \/ socket \in {"OPERAND1", "OPERAND2"} /\ op \in {"operator_and", "operator_or"}
  \/ socket = "OPERAND" /\ op = "operator_not"

EqualsZero(e) == Ast("operator_equals", [s \in {"OPERAND1", "OPERAND2"} |-> IF s = "OPERAND1" THEN e ELSE LiteralOf(0)], NoSockets)
NotZero(e) == Ast("operator_not", [s \in {"OPERAND"} |-> EqualsZero(e)], NoSockets)

Scripts == Seq({e \in Expressions : ~IsLiteral(e)})

\* Which sockets there are, and that parts of expressions are expressions.
Fits(e) ==
  /\ \A s \in DOMAIN e.inputs : e.inputs[s] \in Expressions
  /\ \A s \in DOMAIN e.branches : e.branches[s] \in Scripts /\ ~BooleanSocket(e.op, s)
  /\ DOMAIN e.inputs \cap DOMAIN e.branches = {} /\ "next" \notin DOMAIN e.inputs \cup DOMAIN e.branches
  /\ "CONDITION" \in DOMAIN e.inputs =>
       e.op \in {"control_if", "control_if_else", "control_repeat_until", "control_wait_until"}
  /\ e.op \in {"operator_and", "operator_or"} => DOMAIN e.inputs \subseteq {"OPERAND1", "OPERAND2"}
  /\ e.op = "operator_not" => DOMAIN e.inputs \subseteq {"OPERAND"}

TopOps == {"event_whenflagclicked", "event_whenkeypressed", "procedures_definition"}

ASSUME ProjectAssumption ==
  /\ NoBlock \notin Nat
  /\ \A e \in Expressions : ~IsLiteral(e) => Fits(e)
  /\ \A p \in Projects :
       /\ p \in Seq([op : TopOps, ids : Seq(STRING), body : Scripts])
       /\ \A k \in DOMAIN p : IsInjective(p[k].ids) /\ "next" \notin Range(p[k].ids)

-----------------------------------------------------------------------------
\* block: a new entry of the table; index is the place of a top block.
Block(op, parent, shadow, index) ==
  [op |-> op, next |-> NoBlock, parent |-> parent, inputs |-> NoSockets, shadow |-> shadow,
   topLevel |-> index # 0, index |-> index]

Holding(kind, id) == [kind |-> kind, block |-> id, literal |-> NoBlock]
WithInput(table, id, socket, entry) ==
  [table EXCEPT ![id].inputs = [s \in DOMAIN @ \cup {socket} |-> IF s = socket THEN entry ELSE @[s]]]

\* Mutant: the statement before is not made the parent.
FirstParent(parent, previous) == parent
ParentOf(parent, previous) == IF previous = NoBlock THEN parent ELSE previous

\* A value in a Boolean socket is compared with zero, unless it is a Boolean block.
FittedInput(value, socket) == IF socket /\ (IsLiteral(value) \/ ~BooleanOpcode(value.op)) THEN NotZero(value) ELSE value

\* Activations.  into: the socket of the caller's block for what is returned.
AstCall(id, parent, e, into) ==
  [call |-> "ast_block", id |-> id, parent |-> parent, ast |-> e, into |-> into,
   inputs |-> DOMAIN e.inputs, branches |-> DOMAIN e.branches]
SequenceCall(parent, script, into) ==
  [call |-> "sequence", parent |-> parent, rest |-> script, into |-> into, first |-> NoBlock, previous |-> NoBlock]

Current == Last(activations)
Callers == Front(activations)
Going(call) == progress = "build" /\ activations # <<>> /\ Current.call = call
New == Len(blocks) + 1

BuildStarts(p) ==
  project = p /\ blocks = <<>> /\ activations = <<>> /\ turn = 0 /\ progress = "build" /\ reading = <<>>

\* hat, key_hat and procedure, one after the other.
BeginHat ==
  /\ progress = "build" /\ activations = <<>> /\ turn < Len(project)
  /\ project[turn + 1].op # "procedures_definition"
  /\ turn' = turn + 1
  /\ blocks' = Append(blocks, Block(project[turn + 1].op, NoBlock, FALSE, turn + 1))
  /\ activations' = <<SequenceCall(New, project[turn + 1].body, "next")>>
  /\ UNCHANGED <<project, progress, reading>>

\* The definition holds the prototype, and that a reporter for each argument.
BeginProcedure ==
  /\ progress = "build" /\ activations = <<>> /\ turn < Len(project)
  /\ project[turn + 1].op = "procedures_definition"
  /\ turn' = turn + 1
  /\ LET ids == project[turn + 1].ids
         definition == [Block("procedures_definition", NoBlock, FALSE, turn + 1) EXCEPT
                          !.inputs = [s \in {"custom_block"} |-> Holding(1, New + 1)]]
         prototype == [Block("procedures_prototype", New, TRUE, 0) EXCEPT
                         !.inputs = [s \in Range(ids) |-> Holding(1, New + 1 + (CHOOSE i \in DOMAIN ids : ids[i] = s))]]
         reporter == Block("argument_reporter_string_number", New + 1, TRUE, 0)
     IN blocks' = blocks \o <<definition, prototype>> \o [i \in 1 .. Len(ids) |-> reporter]
  /\ activations' = <<SequenceCall(New, project[turn + 1].body, "next")>>
  /\ UNCHANGED <<project, progress, reading>>

\* sequence goes on with a statement.
NextStatement ==
  /\ Going("sequence") /\ Current.rest # <<>>
  /\ LET ast == Head(Current.rest)
         parent == ParentOf(Current.parent, Current.previous)
     IN /\ blocks' = Append(blocks, Block(ast.op, parent, Shadow(ast.op), 0))
        /\ activations' = Append(Append(Callers, [Current EXCEPT !.rest = Tail(@)]), AstCall(New, parent, ast, "next"))
  /\ UNCHANGED <<project, turn, progress, reading>>

\* ast_block goes on with an input: input.
NextInput ==
  /\ Going("ast_block") /\ Current.inputs # {}
  /\ LET s == CHOOSE x \in Current.inputs : TRUE
         e == FittedInput(Current.ast.inputs[s], BooleanSocket(Current.ast.op, s))
         caller == [Current EXCEPT !.inputs = @ \ {s}]
     IN IF IsLiteral(e)
        THEN /\ blocks' = WithInput(blocks, Current.id, s, [kind |-> 1, block |-> NoBlock, literal |-> e.literal])
             /\ activations' = Append(Callers, caller)
        ELSE /\ blocks' = Append(blocks, Block(e.op, Current.id, Shadow(e.op), 0))
             /\ activations' = Append(Append(Callers, caller), AstCall(New, Current.id, e, s))
  /\ UNCHANGED <<project, turn, progress, reading>>

\* Then with a branch.
NextBranch ==
  /\ Going("ast_block") /\ Current.inputs = {} /\ Current.branches # {}
  /\ LET s == CHOOSE x \in Current.branches : TRUE
     IN activations' = Append(Append(Callers, [Current EXCEPT !.branches = @ \ {s}]),
                        SequenceCall(Current.id, Current.ast.branches[s], s))
  /\ UNCHANGED <<project, blocks, turn, progress, reading>>

\* ast_block returns, to sequence or to input.
BlockReturns ==
  /\ Going("ast_block") /\ Current.inputs = {} /\ Current.branches = {}
  /\ LET caller == Last(Callers)
         id == Current.id
         kind == IF Shadow(Current.ast.op) THEN 1 ELSE IF BooleanOpcode(Current.ast.op) THEN 2 ELSE 3
     IN IF caller.call = "sequence"
        THEN /\ blocks' = IF caller.previous = NoBlock THEN blocks ELSE [blocks EXCEPT ![caller.previous].next = id]
             /\ activations' = Append(Front(Callers), [caller EXCEPT !.first = IF @ = NoBlock THEN id ELSE @, !.previous = id])
        ELSE /\ blocks' = WithInput(blocks, caller.id, Current.into, Holding(kind, id))
             /\ activations' = Callers
  /\ UNCHANGED <<project, turn, progress, reading>>

\* sequence returns its first block, to ast_block or to hat and procedure.
SequenceReturns ==
  /\ Going("sequence") /\ Current.rest = <<>>
  /\ blocks' = IF Current.first = NoBlock THEN blocks
               ELSE IF Callers = <<>> THEN [blocks EXCEPT ![Current.parent].next = Current.first]
               ELSE WithInput(blocks, Current.parent, Current.into, Holding(2, Current.first))
  /\ activations' = Callers
  /\ UNCHANGED <<project, turn, progress, reading>>

\* validate and validate_child.
Linked(table, parent, child) == child \in DOMAIN table /\ table[child].parent = parent
Validated(table) ==
  \A id \in DOMAIN table :
    LET b == table[id]
    IN /\ b.next # NoBlock => Linked(table, id, b.next)
       /\ \A s \in DOMAIN b.inputs : b.inputs[s].block # NoBlock => Linked(table, id, b.inputs[s].block)
       /\ b.topLevel = (b.parent = NoBlock)

Save ==
  /\ progress = "build" /\ activations = <<>> /\ turn = Len(project)
  /\ progress' = IF Validated(blocks) THEN "saved" ELSE "refused"
  /\ UNCHANGED <<project, blocks, activations, turn, reading>>

-----------------------------------------------------------------------------
(* A Scratch VM starts at a top block and follows next and the inputs.  The *)
(* script it should find has every value that is taken for a truth, without *)
(* being one, compared with zero.                                           *)

WantsTruth(op, socket) == socket = "CONDITION" \/ op \in {"operator_and", "operator_or", "operator_not"}
Wanted(e, s) ==
  LET value == e.inputs[s]
  IN IF WantsTruth(e.op, s) /\ (IsLiteral(value) \/ ~BooleanOpcode(value.op)) THEN NotZero(value) ELSE value

ReadTop ==
  /\ progress = "saved"
  /\ \E id \in DOMAIN blocks :
       blocks[id].topLevel /\ reading' = [at |-> blocks[id].next, script |-> project[blocks[id].index].body]
  /\ progress' = "read"
  /\ UNCHANGED <<project, blocks, activations, turn>>

\* What stands at a block of a script: its sockets, and the scripts there.
Ways(e) == DOMAIN e.inputs \cup {s \in DOMAIN e.branches : e.branches[s] # <<>>}
WayInto(e, s) == IF s \in DOMAIN e.inputs THEN <<Wanted(e, s)>> ELSE e.branches[s]

Follow ==
  /\ progress = "read" /\ reading.at # NoBlock /\ reading.script # <<>>
  /\ LET b == blocks[reading.at]
         e == Head(reading.script)
     IN \/ reading' = [at |-> b.next, script |-> Tail(reading.script)]
        \/ \E s \in Ways(e) \cap DOMAIN b.inputs :
             /\ ~IsLiteral(WayInto(e, s)[1])
             /\ reading' = [at |-> b.inputs[s].block, script |-> WayInto(e, s)]
  /\ UNCHANGED <<project, blocks, activations, turn, progress>>

BuildInit == \E p \in Projects : BuildStarts(p)
BuildStep == BeginHat \/ BeginProcedure \/ NextStatement \/ NextInput \/ NextBranch \/ BlockReturns \/ SequenceReturns \/ Save \/ ReadTop \/ Follow
BuildSpec == BuildInit /\ [][BuildStep]_buildVars

-----------------------------------------------------------------------------
\* The table says what the scripts say: every hat and procedure has its one top
\* block, and whichever way the VM goes from there, it finds the block of the
\* statement or value that stands at this place of the script, or the end where
\* the script ends, with values tested for being nonzero where Scratch wants a
\* truth (blocks.cpp:203-275).
ScriptsKept ==
  /\ progress = "saved" =>
       \A k \in DOMAIN project :
         \E id \in DOMAIN blocks : /\ {j \in DOMAIN blocks : blocks[j].topLevel /\ blocks[j].index = k} = {id}
                                   /\ blocks[id].op = project[k].op
  /\ progress = "read" =>
       /\ reading.at = NoBlock <=> reading.script = <<>>
       /\ reading.at # NoBlock =>
            LET b == blocks[reading.at]
                e == Head(reading.script)
            IN /\ b.op = e.op /\ DOMAIN b.inputs = Ways(e)
               /\ \A s \in Ways(e) :
                    LET w == WayInto(e, s)[1]
                    IN IF IsLiteral(w) THEN b.inputs[s] = [kind |-> 1, block |-> NoBlock, literal |-> w.literal]
                       ELSE b.inputs[s].block # NoBlock

\* Every block but the hats and definitions has one place, the one its parent
\* says, so that an editor can take it out; every Boolean socket has a Boolean
\* block; and what was built is never refused (blocks.cpp:134-151).
Leads(p, x, id) ==
  IF x = "next" THEN blocks[p].next = id ELSE x \in DOMAIN blocks[p].inputs /\ blocks[p].inputs[x].block = id
PlacesOf(id) ==
  {w \in (DOMAIN blocks) \X ({"next"} \cup UNION {DOMAIN blocks[q].inputs : q \in DOMAIN blocks}) : Leads(w[1], w[2], id)}
OnePlaceEach ==
  progress \in {"saved", "refused"} =>
    /\ progress = "saved"
    /\ \A id \in DOMAIN blocks :
         IF blocks[id].topLevel THEN PlacesOf(id) = {}
         ELSE \E x \in {"next"} \cup DOMAIN blocks[blocks[id].parent].inputs : PlacesOf(id) = {<<blocks[id].parent, x>>}
    /\ \A id \in DOMAIN blocks : \A s \in DOMAIN blocks[id].inputs :
         BooleanSocket(blocks[id].op, s) =>
           /\ blocks[id].inputs[s].block # NoBlock /\ blocks[id].inputs[s].kind = 2
           /\ BooleanOpcode(blocks[blocks[id].inputs[s].block].op)

\* The table is the scripts, and nothing but them.
ReadsBack == ScriptsKept /\ OnePlaceEach
=============================================================================
