------------------------------ MODULE MCBlocks -------------------------------
(* Templates of up to two statements with branches two deep, operands of    *)
(* every content of up to three bytes of four bits, and every number of a   *)
(* format of twelve bits.  Projects of hats and procedures with one or two  *)
(* statements, expressions two deep and branches two deep.                  *)
EXTENDS Assembly, Blocks

\* The numbers of the format, in units of the least of them; and some that only
\* matter where an integer is wanted.
Magnitudes == {f : f \in 0 .. 127} \cup {(128 + f) * 2 ^ e : f \in 0 .. 127, e \in 0 .. 13}
MCMinExponent == -6
MCResults ==
  {PlusInfinity, MinusInfinity, MinusZero, NotANumber, Text} \cup Magnitudes \cup {-m : m \in Magnitudes}

Operation(op, assign, bare, reads, branches) ==
  [op |-> op, assign |-> assign, bare |-> bare, reads |-> reads, branches |-> branches]

Assign(reads) == Operation("operator_add", TRUE, FALSE, reads, <<>>)
Command(reads) == Operation("data_setvariableto", FALSE, FALSE, reads, <<>>)
StopAll == Operation("control_stop", FALSE, FALSE, {}, <<>>)
Leaves == {Assign({1}), Command({0}), StopAll}
AllLeaves == Leaves \cup {Assign({0}), Assign({2}), Command({1}), Operation("operator_random", TRUE, FALSE, {1}, <<>>)}

Short == {<<>>} \cup {<<s>> : s \in Leaves}
Bodies == Short \cup {<<s, t>> : s \in Leaves, t \in Leaves}
Branching(bodies) ==
  {Operation(op, FALSE, FALSE, reads, <<body>>) :
     op \in {"control_if", "control_repeat", "control_repeat_until"}, reads \in {{0}, {1}}, body \in bodies}
  \cup {Operation("control_if_else", FALSE, FALSE, {1}, <<yes, no>>) : yes \in bodies, no \in bodies}
Flat == AllLeaves \cup Branching(Short)
Nested == Branching({<<s, Command({0})>> : s \in Branching(Short)})
TemplatePrograms ==
  {<<s>> : s \in Flat \cup Nested \cup Branching(Bodies)} \cup {<<s, t>> : s \in Flat, t \in Flat}
  \cup {<<s, t, Command({0})>> : s \in Branching(Short), t \in Branching(Short)}
  \cup {<<Operation(op, FALSE, bare, IF bare THEN {} ELSE {0, 1}, <<>>)>> :
          op \in {"operator_add", "operator_random"}, bare \in BOOLEAN}
  \cup {<<Operation(op, FALSE, TRUE, {}, <<>>)>> : op \in {"control_stop", "sensing_timer"}}

\* A control program with two operands.
Controls ==
  {[operands |-> <<[bits |-> 1, bytes |-> <<1>>], [bits |-> 1, bytes |-> <<2>>]>>,
    output |-> kind, bits |-> 1, effects |-> effects, program |-> program, any |-> FALSE] :
     kind \in {"none", "int"}, effects \in BOOLEAN, program \in TemplatePrograms}

\* An operand and results of all kinds.
Tuples(n) == [1 .. n -> 0 .. Char - 1]
Conversions ==
  {[operands |-> <<[bits |-> bits, bytes |-> b]>>, output |-> "none", bits |-> 1, effects |-> TRUE,
    program |-> <<Command({0})>>, any |-> FALSE] : bits \in {1, 3, 4}, b \in Tuples(1)}
  \cup {[operands |-> <<[bits |-> bits, bytes |-> b]>>, output |-> "none", bits |-> 1, effects |-> TRUE,
         program |-> <<Command({0})>>, any |-> FALSE] : bits \in {5, 8}, b \in Tuples(2)}
  \cup {[operands |-> <<[bits |-> 9, bytes |-> b]>>, output |-> "none", bits |-> 1, effects |-> TRUE,
         program |-> <<Command({0})>>, any |-> FALSE] : b \in {t \in Tuples(3) : t[2] \in {0, 15}}}
  \cup {[operands |-> <<>>, output |-> kind, bits |-> bits, effects |-> TRUE,
         program |-> <<Operation("sensing_timer", FALSE, TRUE, {}, <<>>)>>, any |-> TRUE] :
          kind \in {"int", "double"}, bits \in {1, 3, 4, 7, 9}}
MCTemplates == Controls \cup Conversions

-----------------------------------------------------------------------------
Leaf(op) == Ast(op, NoSockets, NoSockets)
TwoInputs(op, s, t, e, f) == Ast(op, s :> e @@ t :> f, NoSockets)
SimpleValues == {LiteralOf(1), Leaf("data_variable"), Leaf("sensing_mousedown")}
Deep == {TwoInputs("operator_add", "NUM1", "NUM2", e, f) : e \in SimpleValues, f \in SimpleValues}
        \cup {TwoInputs("operator_equals", "OPERAND1", "OPERAND2", e, f) : e \in SimpleValues, f \in SimpleValues}
        \cup {TwoInputs("operator_and", "OPERAND1", "OPERAND2", e, f) : e \in SimpleValues, f \in SimpleValues}
        \cup {Ast("operator_not", "OPERAND" :> e, NoSockets) : e \in SimpleValues}
Deeper == SimpleValues \cup Deep
          \cup {TwoInputs("operator_and", "OPERAND1", "OPERAND2", e, f) : e \in Deep, f \in SimpleValues}
          \cup {Ast("operator_not", "OPERAND" :> e, NoSockets) : e \in Deep}

Set(e) == Ast("data_setvariableto", "VALUE" :> e, NoSockets)
If(e, yes) == Ast("control_if", "CONDITION" :> e, "SUBSTACK" :> yes)
IfElse(e, yes, no) == Ast("control_if_else", "CONDITION" :> e, "SUBSTACK" :> yes @@ "SUBSTACK2" :> no)
Call(e, f) == Ast("procedures_call", "a1" :> e @@ "a2" :> f, NoSockets)
Pen == Ast("pen_setPenColorParamTo", "COLOR_PARAM" :> Leaf("pen_menu_colorParam") @@ "VALUE" :> LiteralOf(1), NoSockets)

Plain == {Set(LiteralOf(1)), Call(Leaf("data_variable"), LiteralOf(1)), Pen}
Branches == {<<>>} \cup {<<s>> : s \in Plain} \cup {<<s, t>> : s \in Plain, t \in Plain}
Conditionals == {If(Leaf("data_variable"), b) : b \in Branches}
Statements ==
  {Set(e) : e \in Deeper} \cup {If(e, <<Pen>>) : e \in Deeper} \cup Conditionals
  \cup {IfElse(e, yes, no) : e \in {LiteralOf(1), Leaf("sensing_mousedown")}, yes \in Branches, no \in Branches}
  \cup {If(LiteralOf(1), <<s, t>>) : s \in Conditionals, t \in Plain}
  \cup {Call(e, f) : e \in SimpleValues, f \in SimpleValues}

\* Everything the projects consist of.
BlockParts == {LiteralOf(1)} \cup Deeper \cup {Leaf("pen_menu_colorParam"), LiteralOf(0)}
MCExpressions == BlockParts \cup Plain \cup Statements

Flag(body) == [op |-> "event_whenflagclicked", ids |-> <<>>, body |-> body]
Key(body) == [op |-> "event_whenkeypressed", ids |-> <<>>, body |-> body]
Definition(ids, body) == [op |-> "procedures_definition", ids |-> ids, body |-> body]
MCProjects ==
  {<<Flag(<<s>>)>> : s \in Statements}
  \cup {<<Flag(<<s, t>>), Definition(<<"a1", "a2">>, <<t, s>>), Key(<<t>>), Definition(<<>>, <<>>)>> :
          s \in Statements, t \in Plain}
=============================================================================
