------------------------------ MODULE Assembly -------------------------------
(***************************************************************************)
(* Inline assembly (src/assembly.cpp): a template of Scratch blocks with   *)
(* operands $0, $1, ...  emit_assembly checks the parsed template, follows *)
(* through its branches whether the output $0 has a value wherever it is   *)
(* read, and wraps it in the conversions between the bytes of LLVM values  *)
(* and the universal values of Scratch.  Then the blocks run, with any     *)
(* outcome of conditions and counts.                                       *)
(*                                                                         *)
(* An operation is [op, assign, bare, reads, branches]: reads are the      *)
(* operands its inputs name, those of nested reporters included, and it is *)
(* bare when it has no bindings.  A value of Scratch is a number in units  *)
(* of 1 / One, or one of the symbols below; a template has any if its      *)
(* reporters may give any value, and else they give zero.                  *)
(***************************************************************************)
EXTENDS Integers, Sequences, FiniteSets, SequencesExt

CONSTANTS CharBits,         \* 8 in the code
          DoubleBytes,      \* 8: the size of a double,
          FractionBits,     \* 52: and of its fraction,
          MinExponent,      \* -1022: the exponent of the least normal number,
          DoubleBias,       \* 1023: and what is added to an exponent
          PointBits,        \* One is 2^PointBits
          Reported,         \* the values reporters give
          PlusInfinity, MinusInfinity, MinusZero, NotANumber,
          Text,             \* any other string
          Unset,            \* left over from another execution
          MaxNesting,       \* 128: the parser refuses deeper branches
          Templates         \* what emit_assembly is called for

One == 2 ^ PointBits
Char == 2 ^ CharBits

VARIABLES asm,      \* what is emitted: operands, output, bits, effects, program, any
          step,     \* "emit", "rejected", "running", "done" or "stopped"
          inputs,   \* the numbers of the operands
          output,   \* the value of $0
          misread,  \* $0 was read without a value
          stack,    \* the statements that are left to run, innermost last
          bytes     \* the bytes of the result

assemblyVars == <<asm, step, inputs, output, misread, stack, bytes>>

-----------------------------------------------------------------------------
(* The opcodes, by what the table says of them: a class for each.          *)

IsCommand(op) == op \in {"data_setvariableto", "control_if", "control_if_else", "control_repeat",
                         "control_repeat_until", "control_stop"}
Writes(op) == op \in {"operator_random", "data_setvariableto", "control_stop"}
Inputs(op) == CASE op \in {"operator_add", "operator_random"} -> 2
                [] op \in {"control_if", "control_if_else", "control_repeat",
                           "control_repeat_until", "data_setvariableto"} -> 1
                [] OTHER -> 0
HasFields(op) == op \in {"data_setvariableto", "control_stop"}
BranchCount(op) == CASE op = "control_if_else" -> 2
                     [] op \in {"control_if", "control_repeat", "control_repeat_until"} -> 1
                     [] OTHER -> 0

\* What the parser gives: lists of operations with branches up to some depth.
StatementLists[depth \in 0 .. MaxNesting] ==
  Seq([op : STRING, assign : BOOLEAN, bare : BOOLEAN, reads : SUBSET Nat,
       branches : IF depth = 0 THEN {<<>>} ELSE Seq(StatementLists[depth - 1])])

\* validate_operation, but for the branches; sole: the program is one operation.
ValidOperation(o, sole) ==
  /\ o.assign => ~IsCommand(o.op)
  /\ o.assign \/ IsCommand(o.op) \/ sole
  /\ o.bare => IF sole THEN Inputs(o.op) = 0 \/ (~HasFields(o.op) /\ BranchCount(o.op) = 0)
              ELSE Inputs(o.op) = 0
  /\ o.bare => ~HasFields(o.op)
  /\ Len(o.branches) = BranchCount(o.op)

\* validate_structure, of branches and of the whole.
ValidBranch ==
  LET valid[depth \in 0 .. MaxNesting] ==
        [l \in StatementLists[depth] |->
           \A i \in DOMAIN l : /\ ValidOperation(l[i], FALSE)
                               /\ \A j \in DOMAIN l[i].branches : valid[depth - 1][l[i].branches[j]]]
  IN valid[MaxNesting]
Valid(program, sole) ==
  \A i \in DOMAIN program : /\ ValidOperation(program[i], sole)
                            /\ \A j \in DOMAIN program[i].branches : ValidBranch[program[i].branches[j]]

\* The start of Lowerer::program: a single operation may leave its operands and
\* its output to the order of the LLVM operands.
Completed(program, hasOutput, count) ==
  IF Len(program) # 1 THEN program
  ELSE LET o == program[1]
           shift == IF hasOutput THEN 1 ELSE 0
       IN <<[o EXCEPT !.reads = IF o.bare THEN {i + shift : i \in 0 .. count - 1} ELSE @,
                      !.assign = @ \/ (~IsCommand(o.op) /\ hasOutput)]>>
BareFits(program, count) == Len(program) = 1 /\ program[1].bare => Inputs(program[1].op) = count

ASSUME AssemblyAssumption ==
  /\ MaxNesting \in Nat
  /\ \A a \in Templates : a.program \in StatementLists[MaxNesting]
  /\ Unset \notin Reported \cup {0}

-----------------------------------------------------------------------------
(* Lowerer::sequence: what is known of $0 after a list of operations, from  *)
(* what is known before, or "rejected".                                     *)

Knowledge == {"unassigned", "assigned", "rejected"}

\* Lowerer::value and the checks of Lowerer::block.
Readable(o, a, known) ==
  /\ \A i \in o.reads : IF a.output = "none" THEN i < Len(a.operands)
                        ELSE IF i = 0 THEN known = "assigned" ELSE i - 1 < Len(a.operands)
  /\ o.assign => ~IsCommand(o.op)
  /\ Writes(o.op) => a.effects
  /\ Len(o.branches) = BranchCount(o.op)

\* Mutant: what any branch assigns counts.
AfterAny(o, known, ends) ==
  IF \E j \in DOMAIN ends : ends[j] = "rejected" THEN "rejected"
  ELSE IF \E j \in DOMAIN ends : ends[j] = "assigned" THEN "assigned" ELSE known

\* Only if-else is sure to run one of its branches.
After(o, known, ends) ==
  IF \E j \in DOMAIN ends : ends[j] = "rejected" THEN "rejected"
  ELSE IF o.op = "control_if_else" /\ \A j \in DOMAIN ends : ends[j] = "assigned" THEN "assigned" ELSE known

\* One operation, from what is known before it and at the ends of its branches.
Stepped(o, a, known, ends) ==
  IF known = "rejected" \/ ~Readable(o, a, known) THEN "rejected"
  ELSE IF o.assign THEN IF a.output = "none" THEN "rejected" ELSE "assigned"
  ELSE IF ~IsCommand(o.op) THEN "rejected"
  ELSE After(o, known, ends)

\* A list; inner has what is known after a branch.
Sequenced(l, a, start, inner) ==
  LET after[i \in 0 .. Len(l)] ==
        IF i = 0 THEN start
        ELSE Stepped(l[i], a, after[i - 1], [j \in DOMAIN l[i].branches |-> inner[l[i].branches[j]][after[i - 1]]])
  IN after[Len(l)]

Known(a) ==
  LET known[depth \in 0 .. MaxNesting] ==
        [l \in StatementLists[depth] |->
           [k \in Knowledge |-> Sequenced(l, a, k, IF depth = 0 THEN <<>> ELSE known[depth - 1])]]
  IN known

-----------------------------------------------------------------------------
(* The conversions.                                                         *)

Count(bits) == (bits + CharBits - 1) \div CharBits

WithoutPadding(byte, last, bits) == IF last /\ bits % CharBits # 0 THEN byte % 2 ^ (bits % CharBits) ELSE byte

\* bridge_inputs.
BridgeInput(operand) ==
  LET count == Count(operand.bits)
      value == FoldRight(LAMBDA j, sum :
                           sum * Char + WithoutPadding(operand.bytes[j], j = count, operand.bits),
                         [j \in 1 .. count |-> j], 0)
  IN IF operand.bits > 1 /\ value >= 2 ^ (operand.bits - 1) THEN value - 2 ^ operand.bits ELSE value

\* Multiplication by one makes any value a number.
ScratchNumber(value) == IF value \in {NotANumber, Text} THEN 0 ELSE value

\* Mutant: numbers are rounded down.
RoundedDown(value) == value \div One
TowardsZero(value) == IF value < 0 THEN -((-value) \div One) ELSE value \div One

\* bridge_output, for integers.
BridgeInteger(value, bits) ==
  LET number == ScratchNumber(value)
      finite == IF number \in {PlusInfinity, MinusInfinity, MinusZero} THEN 0 ELSE number
      rest == TowardsZero(finite) % 2 ^ bits
  IN [i \in 1 .. Count(bits) |-> (rest \div 2 ^ (CharBits * (i - 1))) % Char]

\* The two loops that bring a number into [1, 2), or to the least exponent.
Enlarged[value \in Nat, exponent \in Int] ==
  IF value >= One \/ exponent = MinExponent THEN <<value, exponent>> ELSE Enlarged[value * 2, exponent - 1]
Reduced[value \in Nat, exponent \in Int] ==
  IF value < 2 * One THEN <<value, exponent>> ELSE Reduced[value \div 2, exponent + 1]

\* Special exponent: all ones.
Special == 2 ^ (CharBits * DoubleBytes - 1 - FractionBits) - 1

Finite(magnitude) ==
  IF magnitude = 0 THEN [exponent |-> 0, fraction |-> 0]
  ELSE LET up == Enlarged[magnitude, 0]
           normal == Reduced[up[1], up[2]]
       IN IF normal[1] < One
          THEN [exponent |-> 0, fraction |-> (normal[1] * 2 ^ FractionBits) \div One]
          ELSE [exponent |-> normal[2] + DoubleBias, fraction |-> ((normal[1] - One) * 2 ^ FractionBits) \div One]

Parts(value) ==
  CASE value = NotANumber -> [sign |-> FALSE, exponent |-> Special, fraction |-> 2 ^ (FractionBits - 1)]
    [] value = Text -> [sign |-> FALSE, exponent |-> 0, fraction |-> 0]
    [] value = PlusInfinity -> [sign |-> FALSE, exponent |-> Special, fraction |-> 0]
    [] value = MinusInfinity -> [sign |-> TRUE, exponent |-> Special, fraction |-> 0]
    [] value = MinusZero -> [sign |-> TRUE, exponent |-> 0, fraction |-> 0]
    [] OTHER -> LET finite == Finite(IF value < 0 THEN -value ELSE value)
                IN [sign |-> value < 0, exponent |-> finite.exponent, fraction |-> finite.fraction]

\* Of the last but one byte, the low bits are the fraction's.
Split == FractionBits - CharBits * (DoubleBytes - 2)

\* bridge_double_output.
BridgeDouble(value) ==
  LET parts == Parts(value)
  IN [i \in 1 .. DoubleBytes |->
        IF i <= DoubleBytes - 2 THEN (parts.fraction \div 2 ^ (CharBits * (i - 1))) % Char
        ELSE IF i = DoubleBytes - 1
        THEN parts.fraction \div 2 ^ (CharBits * (DoubleBytes - 2)) + (parts.exponent % 2 ^ (CharBits - Split)) * 2 ^ Split
        ELSE (IF parts.sign THEN Char \div 2 ELSE 0) + parts.exponent \div 2 ^ (CharBits - Split)]

BridgeOutput(a, value) ==
  CASE a.output = "none" -> <<>>
    [] a.output = "int" -> BridgeInteger(value, a.bits)
    [] a.output = "double" -> BridgeDouble(value)

-----------------------------------------------------------------------------
AssemblyStarts(a) ==
  /\ asm = a
  /\ step = "emit" /\ inputs = <<>> /\ output = Unset /\ misread = FALSE /\ stack = <<>> /\ bytes = <<>>

\* emit_assembly; what it emits starts by converting the operands.
Emit ==
  /\ step = "emit"
  /\ LET hasOutput == asm.output # "none"
         count == Len(asm.operands)
         program == Completed(asm.program, hasOutput, count)
         accepted == /\ Valid(asm.program, Len(asm.program) = 1)
                     /\ BareFits(asm.program, count)
                     /\ Known(asm)[MaxNesting][program]["unassigned"] \in (IF hasOutput THEN {"assigned"} ELSE {"unassigned"})
     IN IF accepted
        THEN /\ step' = "running" /\ stack' = <<program>>
             /\ inputs' = [i \in 1 .. count |-> BridgeInput(asm.operands[i])]
        ELSE step' = "rejected" /\ UNCHANGED <<stack, inputs>>
  /\ UNCHANGED <<asm, output, misread, bytes>>

Statement == Head(Last(stack))
Following == Append(Front(stack), Tail(Last(stack)))
Reads0 == asm.output # "none" /\ 0 \in Statement.reads /\ output = Unset

\* A sequence ends.
EndSequence ==
  /\ step = "running" /\ stack # <<>> /\ Last(stack) = <<>>
  /\ stack' = Front(stack)
  /\ UNCHANGED <<asm, step, inputs, output, misread, bytes>>

\* A statement runs; what is between a loop and its end is run any number of times.
Run ==
  /\ step = "running" /\ stack # <<>> /\ Last(stack) # <<>>
  /\ misread' = (misread \/ Reads0)
  /\ output' \in (IF ~Statement.assign THEN {output} ELSE IF asm.any THEN Reported ELSE {0})
  /\ step' = IF Statement.op = "control_stop" THEN "stopped" ELSE step
  /\ CASE Statement.op = "control_if" -> stack' \in {Following, Append(Following, Statement.branches[1])}
       [] Statement.op = "control_if_else" -> \E j \in 1 .. 2 : stack' = Append(Following, Statement.branches[j])
       [] Statement.op \in {"control_repeat", "control_repeat_until"} ->
            stack' \in {Following, Append(stack, Statement.branches[1])}
       [] OTHER -> stack' = Following
  /\ UNCHANGED <<asm, inputs, bytes>>

\* The result is converted.
Finish ==
  /\ step = "running" /\ stack = <<>>
  /\ step' = "done"
  /\ bytes' = IF output = Unset THEN <<>> ELSE BridgeOutput(asm, output)
  /\ UNCHANGED <<asm, inputs, output, misread, stack>>

AssemblyInit == \E a \in Templates : AssemblyStarts(a)
AssemblyNext == Emit \/ EndSequence \/ Run \/ Finish
AssemblySpec == AssemblyInit /\ [][AssemblyNext]_assemblyVars

-----------------------------------------------------------------------------
(* The temporaries of a template are variables of the project and keep the  *)
(* values of earlier executions.                                            *)

\* Whatever the conditions, counts and branches, an emitted template never uses
\* a value of $0 that this execution did not compute, and when it ends, a
\* result it has was assigned (assembly.cpp:414, 492, 571-579).
NoStaleOutput ==
  /\ ~misread
  /\ (step = "done" /\ asm.output # "none" => output # Unset)

\* The number of an operand is that of its two's complement bits, whatever the
\* unused bits of its bytes hold (assembly.cpp:387-396).
SignedValue(operand) ==
  LET bit(i) == (operand.bytes[i \div CharBits + 1] \div 2 ^ (i % CharBits)) % 2
      weight(i) == IF i = operand.bits - 1 /\ i > 0 THEN -(2 ^ i) ELSE 2 ^ i
  IN FoldLeft(LAMBDA sum, i : sum + bit(i - 1) * weight(i - 1), 0, [i \in 1 .. operand.bits |-> i])
OperandsMean ==
  step = "running" => \A i \in DOMAIN inputs : inputs[i] = SignedValue(asm.operands[i])

\* The bytes of an integer result are those of the number without its fraction,
\* modulo the type; the bytes of a double are the number itself, its sign and
\* special values included (assembly.cpp:416-484).
DoubleValue(b) ==
  LET bits == FoldRight(LAMBDA byte, sum : sum * Char + byte, b, 0)
      fraction == bits % 2 ^ FractionBits
      exponent == (bits \div 2 ^ FractionBits) % (Special + 1)
      negative == bits >= 2 ^ (CharBits * DoubleBytes - 1)
      scale == PointBits + MinExponent - FractionBits
      magnitude == IF exponent = 0 THEN fraction * 2 ^ scale
                   ELSE (2 ^ FractionBits + fraction) * 2 ^ (scale + exponent - 1)
  IN CASE exponent = Special /\ fraction # 0 -> NotANumber
       [] exponent = Special -> IF negative THEN MinusInfinity ELSE PlusInfinity
       [] magnitude = 0 -> IF negative THEN MinusZero ELSE 0
       [] OTHER -> IF negative THEN -magnitude ELSE magnitude
ResultMeans ==
  step = "done" =>
    /\ asm.output = "double" => DoubleValue(bytes) = IF output = Text THEN 0 ELSE output
    /\ asm.output = "int" =>
         LET whole == IF output \in {NotANumber, Text, PlusInfinity, MinusInfinity, MinusZero} THEN 0
                      ELSE IF output < 0 THEN -((-output) \div One) ELSE output \div One
             stored == FoldRight(LAMBDA byte, sum : sum * Char + byte, bytes, 0)
         IN /\ Len(bytes) = Count(asm.bits) /\ \A i \in DOMAIN bytes : bytes[i] \in 0 .. Char - 1
            /\ stored \in 0 .. 2 ^ asm.bits - 1 /\ (stored - whole) % 2 ^ asm.bits = 0

\* Numbers keep their value on the way into a template and out of it.
BridgesMean == OperandsMean /\ ResultMeans
=============================================================================
