-------------------------- MODULE ExpressionPlan --------------------------
(***************************************************************************)
(* The evaluation of a projection or of the condition of a filter:         *)
(* add_expression_to_plan turns each expression, a sequence of tokens in   *)
(* prefix order, into operations over numbered registers, and the          *)
(* interpreter kernel runs all operations on one row, first over the data, *)
(* then over the validity.                                                 *)
(*                                                                         *)
(* Registers 0 .. NumInputs-1 hold the columns that are used, the next     *)
(* NumOutputs the results, the rest ("processing space") intermediate      *)
(* results.  A register holds a term: the tokens of the expression whose   *)
(* value it has, so that it can be compared with the expression meant (the *)
(* value is that of the expression, whatever was rounded on the way), and  *)
(* it is stored as a 64 bit integer or as a double: before the kernel runs,*)
(* the types of the operations decide as which each of them reads it.      *)
(* Strings, and null as a literal, are not in the model.                   *)
(***************************************************************************)
EXTENDS Integers, Sequences, FiniteSets

CONSTANTS
  Columns,      \* the columns of the input frame, numbered
  ColumnTypes,  \* their types
  Projections,  \* the projections to evaluate: sequences of expressions
  Conditions,   \* the conditions of filters: sequences of one expression
  Spaces,       \* the size of processing_space_free (512)
  GridRegisters \* the most registers calculate_grid knows a grid for (64)

ASSUME ColumnsAssumption == Columns \subseteq Nat /\ IsFiniteSet(Columns)
ASSUME SpacesAssumption == Spaces \in Nat
ASSUME GridRegistersAssumption == GridRegisters \in Nat

VARIABLES
  exprs,   \* the expressions
  output_types, \* the types of the output columns
  nulls,   \* the columns that are null in the row
  current, \* the expression being planned
  left,    \* how many of its tokens, from the first, are still to be read
  stack,   \* operand_stack, its top first
  free,    \* the registers marked in processing_space_free
  plan,    \* the vectors of the plan
  phase,   \* "plan", "types", "data", "valid", "done", "failed", "undefined"
  op,      \* the operation the kernel is at
  types,   \* of the operations: what they read left and right, and write
  typed,   \* output_map_type: of the registers that operations have written
  buffer,  \* the registers of the row: terms
  stored,  \* the types they are stored as
  valid,   \* the registers of the validity pass
  columns  \* the output columns

planning == <<current, left, stack, free, plan>>
kernel == <<op, types, typed, buffer, stored, valid, columns>>
vars == <<exprs, output_types, nulls, planning, phase, kernel>>

SCALAR_INDEX == -2
NOT_USED == -1

BLZ_IS_NULL == 19
BLZ_IS_NOT_NULL == 20

\* The id of an operator says which one of its kind it is.  A token of the
\* kind "other" is none that the planner knows: is_operator_token takes all
\* that is no column, number, date or string for an operator (true and null).
Token == [kind : {"int", "float", "column", "binary", "coalesce", "unary", "is_null", "other"}, id : Nat]
ARITHMETIC == 0  \* +, -, *, /, MOD, AND, OR
COMPARISON == 1
POWER == 2
TRIGONOMETRIC == 1  \* and LN, LOG10
Column(c) == [kind |-> "column", id |-> c]
is_literal(t) == t.kind \in {"int", "float"}
is_binary_operator_token(t) == t.kind \in {"binary", "coalesce"}
is_unary_operator_token(t) == t.kind \in {"unary", "is_null"}
Elements(s) == {s[i] : i \in DOMAIN s}
Tokens(e) == Elements(e)

is_operator_token(t) == ~is_literal(t) /\ t.kind # "column"

\* Expressions name columns of the input frame only, and have operators: a
\* field that is a column or a literal is not given to the planner
\* (contains_evaluation), nor is a condition that is a column.
Evaluations == Projections \cup Conditions
ASSUME EvaluationsAssumption ==
  /\ \A es \in Evaluations :
       /\ es \in Seq(Seq(Token)) /\ es # <<>>
       /\ \A i \in DOMAIN es :
            /\ es[i] # <<>> /\ is_operator_token(es[i][1])
            /\ \A t \in Tokens(es[i]) : t.kind = "column" => t.id \in Columns
  /\ \A es \in Conditions : Len(es) = 1

-----------------------------------------------------------------------------
(* The types of expressions. *)

Signed == {"INT8", "INT16", "INT32", "INT64", "FLOAT32", "FLOAT64", "DATE32", "DATE64", "TIMESTAMP"}
gdf_dtype == Signed \cup {"invalid"}
ASSUME ColumnTypesAssumption == ColumnTypes \in [Columns -> Signed]

is_type_float(t) == t \in {"FLOAT32", "FLOAT64"}
is_date_type(t) == t \in {"DATE32", "DATE64", "TIMESTAMP"}
get_width_dtype(t) ==
  CASE t = "invalid" -> 0
    [] t = "INT8" -> 1
    [] t = "INT16" -> 2
    [] t \in {"INT32", "DATE32", "FLOAT32"} -> 4
    [] OTHER -> 8

get_unary_output_type(t, l) ==
  CASE is_date_type(l) -> "INT16"
    [] t.kind = "is_null" -> "INT8"
    [] t.kind = "unary" /\ t.id = TRIGONOMETRIC /\ ~is_type_float(l) -> "FLOAT64"
    [] OTHER -> l

Larger(l, r) == IF get_width_dtype(l) >= get_width_dtype(r) THEN l ELSE r
get_binary_output_type(t, l, r) ==
  CASE "invalid" \in {l, r} -> "invalid"
    [] t.kind = "coalesce" -> l
    [] t.kind = "binary" /\ t.id = ARITHMETIC ->
         IF is_type_float(l) = is_type_float(r) THEN Larger(l, r)
         ELSE IF is_type_float(l) THEN l ELSE r
    [] t.kind = "binary" /\ t.id = COMPARISON -> "INT8"
    [] t.kind = "binary" /\ t.id = POWER ->
         IF is_type_float(l) \/ is_type_float(r) THEN "FLOAT64" ELSE "INT64"
    [] OTHER -> "invalid"

\* A literal has the type of the other operand.
\* Mutant: it has none.
LiteralUntyped(operand, other) == operand
OperandType(operand, other) == IF operand = "invalid" THEN other ELSE operand

\* get_output_type_expression: what a token makes of the types on the stack.
\* It throws at an operator of literals and at one it does not know.
TypeToken(t, operands) ==
  CASE operands # <<>> /\ operands[1] = "thrown" -> operands
    [] t.kind = "column" -> <<ColumnTypes[t.id]>> \o operands
    [] is_literal(t) -> <<"invalid">> \o operands
    [] is_unary_operator_token(t) -> <<get_unary_output_type(t, operands[1])>> \o Tail(operands)
    [] is_binary_operator_token(t) /\ {operands[1], operands[2]} # {"invalid"} ->
         <<get_binary_output_type(t, OperandType(operands[1], operands[2]),
                                     OperandType(operands[2], operands[1]))>> \o Tail(Tail(operands))
    [] OTHER -> <<"thrown">>

TypesFrom(e) ==
  LET of[i \in 1 .. Len(e) + 1] == IF i > Len(e) THEN <<>> ELSE TypeToken(e[i], of[i + 1]) IN of
get_output_type_expression(e) == TypesFrom(e)[1][1]

-----------------------------------------------------------------------------
(* The layout of the registers. *)

Used == {c \in Columns : \E i \in DOMAIN exprs : Column(c) \in Tokens(exprs[i])}
NumInputs == Cardinality(Used)
NumOutputs == Len(exprs)
\* Mutant: the outputs are forgotten.
start_after_inputs == NumInputs
start_processing_position == NumInputs + NumOutputs
new_input_indices == [c \in Used |-> Cardinality({d \in Used : d < c})]
final_output_position(e) == NumInputs + e - 1

Register == 0 .. Spaces - 1
AllFree == {p \in 0 .. Spaces - 1 : p >= start_processing_position}

EmptyPlan == [left_inputs |-> <<>>, right_inputs |-> <<>>, outputs |-> <<>>,
              operators |-> <<>>, left_scalars |-> <<>>, right_scalars |-> <<>>]

\* parse_project_plan types all expressions before it plans the first (and so
\* does the aggregation of one), process_filter has a stencil of GDF_INT8.
Init ==
  /\ \/ /\ exprs \in Projections
        /\ output_types = [e \in DOMAIN exprs |-> get_output_type_expression(exprs[e])]
        /\ \A e \in DOMAIN exprs : output_types[e] # "thrown"
     \/ /\ exprs \in Conditions
        /\ output_types = <<"INT8">>
  /\ nulls \in SUBSET Used
  /\ current = 1
  /\ left = Len(exprs[1])
  /\ stack = <<>>
  /\ free = AllFree
  /\ plan = EmptyPlan
  /\ phase = "plan"
  /\ op = 1
  /\ types = [left |-> <<>>, right |-> <<>>, output |-> <<>>]
  /\ typed = [r \in Register |-> "invalid"]
  /\ buffer = <<>>
  /\ stored = <<>>
  /\ valid = <<>>
  /\ columns = <<>>

-----------------------------------------------------------------------------
(* add_expression_to_plan *)

get_first_open_position(open) ==
  IF open = {} THEN NOT_USED ELSE CHOOSE p \in open : \A q \in open : p <= q

\* The registers of the operands ops that can be used again.
Released(ops) ==
  {o.position : o \in {x \in ops : ~is_literal(x.token) /\ x.position >= start_processing_position}}

InputOf(o) == IF is_literal(o.token) THEN SCALAR_INDEX ELSE o.position

\* The operator is appended; its inputs are appended only when one of them
\* is no literal.
WithOperator(t) == [plan EXCEPT !.operators = Append(@, t)]
WithBinary(t, l, r) ==
  IF is_literal(l.token) /\ is_literal(r.token)
    THEN [WithOperator(t) EXCEPT !.left_inputs = Append(@, SCALAR_INDEX)]
    ELSE [WithOperator(t) EXCEPT
            !.left_inputs = Append(@, InputOf(l)), !.right_inputs = Append(@, InputOf(r)),
            !.left_scalars = Append(@, l.token), !.right_scalars = Append(@, r.token)]
\* Mutant: no right input for an operator that has none.
WithUnaryLeftOnly(t, l) ==
  [WithOperator(t) EXCEPT !.left_inputs = Append(@, InputOf(l)), !.left_scalars = Append(@, l.token)]
WithUnary(t, l) ==
  IF is_literal(l.token)
    THEN WithOperator(t)
    ELSE [WithOperator(t) EXCEPT
            !.left_inputs = Append(@, InputOf(l)), !.right_inputs = Append(@, NOT_USED),
            !.left_scalars = Append(@, l.token), !.right_scalars = Append(@, l.token)]

\* Mutant: open_positions[index] = false is left out.
OutputUnmarked(p, rest, open) ==
  IF left = 1
    THEN /\ plan' = [p EXCEPT !.outputs = Append(@, final_output_position(current))]
         /\ stack' = rest
         /\ free' = open
    ELSE LET position == get_first_open_position(open)
         IN /\ plan' = [p EXCEPT !.outputs = Append(@, position)]
            /\ stack' = <<[token |-> Column(position), position |-> position]>> \o rest
            /\ free' = open
\* The value of the operator goes to the output or to a free register.
Output(p, rest, open) ==
  IF left = 1
    THEN /\ plan' = [p EXCEPT !.outputs = Append(@, final_output_position(current))]
         /\ stack' = rest
         /\ free' = open
    ELSE LET position == get_first_open_position(open)
         IN /\ plan' = [p EXCEPT !.outputs = Append(@, position)]
            /\ stack' = <<[token |-> Column(position), position |-> position]>> \o rest
            /\ free' = open \ {position}

Reading ==
  /\ phase = "plan" /\ left > 0
  /\ left' = left - 1
  /\ UNCHANGED <<exprs, output_types, nulls, current, phase, kernel>>

ReadBinary ==
  /\ Reading
  /\ is_binary_operator_token(exprs[current][left])
  /\ Len(stack) >= 2
  /\ Output(WithBinary(exprs[current][left], stack[1], stack[2]), Tail(Tail(stack)),
            free \cup Released({stack[1], stack[2]}))

ReadUnary ==
  /\ Reading
  /\ is_unary_operator_token(exprs[current][left])
  /\ Len(stack) >= 1
  /\ Output(WithUnary(exprs[current][left], stack[1]), Tail(stack), free \cup Released({stack[1]}))

\* An operator of neither kind: an output, but no operator and no inputs.
\* Mutant: it is left out.
ReadOtherSkipped ==
  /\ Reading
  /\ exprs[current][left].kind = "other"
  /\ UNCHANGED <<stack, free, plan>>
ReadOther ==
  /\ Reading
  /\ exprs[current][left].kind = "other"
  /\ Output(plan, stack, free)

\* A literal or a column is pushed.
OperandOf(t) ==
  [token |-> IF is_literal(t) THEN t ELSE Column(new_input_indices[t.id]),
   position |-> IF is_literal(t) THEN SCALAR_INDEX ELSE new_input_indices[t.id]]

ReadOperand ==
  /\ Reading
  /\ is_literal(exprs[current][left]) \/ exprs[current][left].kind = "column"
  /\ stack' = <<OperandOf(exprs[current][left])>> \o stack
  /\ UNCHANGED <<free, plan>>

\* The next expression has a stack and a processing space of its own.
NextExpression ==
  /\ phase = "plan" /\ left = 0 /\ current < Len(exprs)
  /\ current' = current + 1
  /\ left' = Len(exprs[current'])
  /\ stack' = <<>>
  /\ free' = AllFree
  /\ UNCHANGED <<exprs, output_types, nulls, plan, phase, kernel>>

-----------------------------------------------------------------------------
(* perform_operation and the kernel *)

num_operations == Len(plan.left_inputs)
\* The column whose values are in input register r.
ColumnAt(r) == CHOOSE c \in Used : new_input_indices[c] = r

\* Mutant: the register of the last result for the last of all.
last_output == plan.outputs[Len(plan.outputs)]
\* The last register: the kernel gets shared memory up to it.
max_output == CHOOSE p \in Elements(plan.outputs) : \A q \in Elements(plan.outputs) : q <= p

\* calculate_grid has a case for each number of registers up to 64, and leaves
\* the sizes uninitialized for others: the launch fails, or works by chance.
calculate_grid == max_output + 1 \in 1 .. GridRegisters

\* The vectors have the same length.  If they have not, the kernel takes the
\* operator of one operation with the registers of another, or what is behind
\* the end of a vector: what it does then is not followed.
SameLength == \A f, g \in DOMAIN plan : Len(plan[f]) = Len(plan[g])

perform_operation ==
  /\ phase = "plan" /\ left = 0 /\ current = Len(exprs)
  /\ \/ SameLength /\ phase' = "types"
     \/ SameLength /\ ~calculate_grid /\ phase' = "failed"
     \/ ~SameLength /\ phase' = "undefined"
  /\ op' = 1
  /\ UNCHANGED <<exprs, output_types, nulls, planning, types, typed, buffer, stored, valid, columns>>

\* The constructor of InterpreterFunctor finds the types of one operation.
\* A literal is an integer or a double.
InputType(inputs, scalars) ==
  CASE inputs[op] = NOT_USED -> "invalid"
    [] inputs[op] = SCALAR_INDEX -> IF scalars[op].kind = "float" THEN "FLOAT64" ELSE "INT64"
    [] inputs[op] >= NumInputs -> typed[inputs[op]]
    [] OTHER -> ColumnTypes[ColumnAt(inputs[op])]

\* The kernel has 64 bit values only.
Widened(t) == IF is_type_float(t) THEN "FLOAT64" ELSE IF t \in Signed THEN "INT64" ELSE "invalid"
OutputType(t, l, r) ==
  Widened(IF plan.right_inputs[op] = NOT_USED THEN get_unary_output_type(t, l)
          ELSE get_binary_output_type(t, l, r))

\* Mutant: a register keeps the type of its first value.
RetypeFirst(l, r, out) ==
  typed' = IF \E k \in 1 .. op - 1 : plan.outputs[k] = plan.outputs[op]
             THEN typed ELSE [typed EXCEPT ![plan.outputs[op]] = out]
Retype(l, r, out) == typed' = [typed EXCEPT ![plan.outputs[op]] = out]

InterpreterFunctor ==
  /\ phase = "types" /\ op <= num_operations
  /\ LET l == InputType(plan.left_inputs, plan.left_scalars)
         r == InputType(plan.right_inputs, plan.right_scalars)
         out == OutputType(plan.operators[op], l, r)
     IN /\ types' = [left |-> Append(types.left, l), right |-> Append(types.right, r),
                      output |-> Append(types.output, out)]
        /\ Retype(l, r, out)
  /\ op' = op + 1
  /\ UNCHANGED <<exprs, output_types, nulls, planning, phase, buffer, stored, valid, columns>>

\* The row of every input is widened into its register.
read_data ==
  /\ phase = "types" /\ op > num_operations
  /\ phase' = "data"
  /\ op' = 1
  /\ buffer' = [r \in Register |-> IF r < NumInputs THEN <<Column(ColumnAt(r))>> ELSE <<>>]
  /\ stored' = [r \in Register |-> IF r < NumInputs THEN ColumnTypes[ColumnAt(r)] ELSE "invalid"]
  /\ UNCHANGED <<exprs, output_types, nulls, planning, types, typed, valid, columns>>

\* scale_to_64_bit_return_bytes converts a floating point literal to an
\* integer, whose bits the kernel then reads as a floating point number.
scale_to_64_bit(t) == IF t.kind = "float" THEN [kind |-> "garbled", id |-> t.id] ELSE t

\* What operation k reads.
Operand(k, inputs, scalars) ==
  IF inputs[k] = SCALAR_INDEX THEN <<scale_to_64_bit(scalars[k])>>
  ELSE buffer[inputs[k]]
LeftValue(k) == Operand(k, plan.left_inputs, plan.left_scalars)
RightValue(k) == Operand(k, plan.right_inputs, plan.right_scalars)

\* gdf_is_valid_32 of the column in the left register of operation k.
LeftColumnIsValid(k) == ColumnAt(plan.left_inputs[k]) \notin nulls

Bool(b) == [kind |-> "bool", id |-> IF b THEN 1 ELSE 0]

\* process_operator_3
Computed(k) ==
  LET t == plan.operators[k]
  IN CASE t.kind = "coalesce" -> IF LeftColumnIsValid(k) THEN LeftValue(k) ELSE RightValue(k)
       [] t.kind = "is_null"  -> <<Bool(~LeftColumnIsValid(k))>>
       [] t.kind = "unary"    -> <<t>> \o LeftValue(k)
       [] OTHER               -> <<t>> \o LeftValue(k) \o RightValue(k)

\* valid_ptrs has an entry for each input register only.
ReadsOwnValidity(k) ==
  plan.operators[k].kind \in {"coalesce", "is_null"} => plan.left_inputs[k] \in 0 .. NumInputs - 1

process_operator ==
  /\ phase = "data" /\ op <= num_operations
  /\ ReadsOwnValidity(op)
  /\ buffer' = [buffer EXCEPT ![plan.outputs[op]] = Computed(op)]
  /\ stored' = [stored EXCEPT ![plan.outputs[op]] = types.output[op]]
  /\ op' = op + 1
  /\ UNCHANGED <<exprs, output_types, nulls, planning, phase, types, typed, valid, columns>>

\* A validity pointer read beyond the array: the kernel faults and
\* CheckCudaErrors ends the process, or finds a zero and takes the row as valid.
process_operator_outside ==
  /\ phase = "data" /\ op <= num_operations
  /\ ~ReadsOwnValidity(op)
  /\ \/ phase' = "failed" /\ UNCHANGED <<op, buffer, stored>>
     \/ /\ buffer' = [buffer EXCEPT ![plan.outputs[op]] =
                        IF plan.operators[op].kind = "coalesce" THEN LeftValue(op) ELSE <<Bool(FALSE)>>]
        /\ stored' = [stored EXCEPT ![plan.outputs[op]] = types.output[op]]
        /\ op' = op + 1
        /\ UNCHANGED phase
  /\ UNCHANGED <<exprs, output_types, nulls, planning, types, typed, valid, columns>>

\* What lies behind the array of unary operations in the kernel's memory.
Positions == plan.left_inputs \o plan.right_inputs \o plan.outputs
             \o [e \in 1 .. NumOutputs |-> final_output_position(e)]

\* Operation number c (from 0) is a null check: the kernel asks this of a
\* column number c.  If there are more columns than operations it takes two
\* positions, numbers of 16 bits each, for an operator of 32 bits.
\* (They are positions: there is at most one column more than operations in
\* each of the expressions.)
NullCheckNumbered(c) ==
  IF c < num_operations THEN plan.operators[c + 1].kind = "is_null"
  ELSE LET k == 2 * (c - num_operations) + 1
       IN /\ k + 1 \in DOMAIN Positions
          /\ Positions[k] \in {BLZ_IS_NULL, BLZ_IS_NOT_NULL} /\ Positions[k + 1] = 0

\* The data is written to the output columns; the validity pass starts.
write_data ==
  /\ phase = "data" /\ op > num_operations
  /\ columns' = [e \in 1 .. NumOutputs |->
                   [value |-> buffer[final_output_position(e)], valid |-> TRUE]]
  /\ valid' = [r \in Register |->
                 r < NumInputs => ColumnAt(r) \notin nulls \/ NullCheckNumbered(r)]
  /\ phase' = "valid"
  /\ op' = 1
  /\ UNCHANGED <<exprs, output_types, nulls, planning, types, typed, buffer, stored>>

ValidOf(inputs) == inputs[op] = SCALAR_INDEX \/ valid[inputs[op]]
LeftValid == ValidOf(plan.left_inputs)
\* Mutant: the validity of the right operand is not looked at.
RightValidIgnored == TRUE
RightValid == ValidOf(plan.right_inputs)

OutputValid ==
  IF plan.right_inputs[op] = NOT_USED THEN LeftValid
  ELSE IF plan.operators[op].kind = "coalesce" THEN LeftValid \/ RightValid
  ELSE LeftValid /\ RightValid

process_valids ==
  /\ phase = "valid" /\ op <= num_operations
  /\ valid' = [valid EXCEPT ![plan.outputs[op]] = OutputValid]
  /\ op' = op + 1
  /\ UNCHANGED <<exprs, output_types, nulls, planning, phase, types, typed, buffer, stored, columns>>

write_valid_data ==
  /\ phase = "valid" /\ op > num_operations
  /\ columns' = [e \in DOMAIN columns |->
                   [columns[e] EXCEPT !.valid = valid[final_output_position(e)]]]
  /\ phase' = "done"
  /\ UNCHANGED <<exprs, output_types, nulls, planning, op, types, typed, buffer, stored, valid>>

-----------------------------------------------------------------------------
Next ==
  \/ ReadBinary \/ ReadUnary \/ ReadOther \/ ReadOperand \/ NextExpression
  \/ perform_operation \/ InterpreterFunctor \/ read_data \/ process_operator \/ process_operator_outside
  \/ write_data \/ process_valids \/ write_valid_data

Spec == Init /\ [][Next]_vars

-----------------------------------------------------------------------------
(* What an expression means. *)

\* The expression that begins with token i of e, on a row where the columns
\* absent are null: the token behind it, its value, and whether it has one.
\* of has the same for the expressions that begin later.
MeaningFrom(e, of, i, absent) ==
  IF i > Len(e) THEN [end |-> i, value |-> <<>>, valid |-> TRUE]
  ELSE LET t == e[i]
           l == of[i + 1]
           r == of[l.end]
       IN CASE t.kind = "column" -> [end |-> i + 1, value |-> <<t>>, valid |-> t.id \notin absent]
            [] t.kind = "unary" -> [end |-> l.end, value |-> <<t>> \o l.value, valid |-> l.valid]
            [] t.kind = "is_null" -> [end |-> l.end, value |-> <<Bool(~l.valid)>>, valid |-> TRUE]
            [] t.kind = "coalesce" -> [end |-> r.end,
                                       value |-> IF l.valid THEN l.value ELSE r.value,
                                       valid |-> l.valid \/ r.valid]
            [] t.kind = "binary" -> [end |-> r.end, value |-> <<t>> \o l.value \o r.value,
                                     valid |-> l.valid /\ r.valid]
            [] OTHER -> [end |-> i + 1, value |-> <<t>>, valid |-> TRUE]

Meanings(e, absent) ==
  LET of[i \in 1 .. Len(e) + 1] == MeaningFrom(e, of, i, absent) IN of

Meaning(e) == Meanings(exprs[e], nulls)[1]

\* The kernel is known not to get these right on rows with nulls: IS NULL, and
\* COALESCE of a computed value; and none of its rows with a float literal.
HasFloat == \E e \in DOMAIN exprs : \E t \in Tokens(exprs[e]) : t.kind = "float"
CoalescesLiteral ==
  \E e \in DOMAIN exprs : \E i \in DOMAIN exprs[e] :
    exprs[e][i].kind = "coalesce" /\ is_literal(exprs[e][i + 1])
\* A trigonometric function of a date.
TrigonometricDate ==
  \E e \in DOMAIN exprs : \E i \in DOMAIN exprs[e] :
    /\ exprs[e][i].kind = "unary" /\ exprs[e][i].id = TRIGONOMETRIC
    /\ is_date_type(TypesFrom(exprs[e])[i + 1][1])
ChecksNulls ==
  \E e \in DOMAIN exprs : \E i \in DOMAIN exprs[e] :
    \/ exprs[e][i].kind = "is_null"
    \/ exprs[e][i].kind = "coalesce" /\ exprs[e][i + 1].kind # "column"

-----------------------------------------------------------------------------
(* Properties *)

\* The intermediate results on the stack.
Temporaries == {i \in DOMAIN stack : stack[i].position >= NumInputs}

\* Every intermediate result that is still needed has a register of its own
\* in the processing space, which is not marked free: no later operation of
\* the expression overwrites it, and it is in no register of another
\* expression's result.
RegistersApart ==
  phase = "plan" =>
    /\ \A i \in Temporaries : /\ stack[i].position \in AllFree
                              /\ stack[i].position \notin free
    /\ \A i, j \in Temporaries : stack[i].position = stack[j].position => i = j

\* An operator is known and reads something that is no literal.
ReadsColumn(e, i) ==
  /\ e[i].kind # "other"
  /\ is_unary_operator_token(e[i]) => ~is_literal(e[i + 1])
  /\ is_binary_operator_token(e[i]) => ~(is_literal(e[i + 1]) /\ is_literal(e[i + 2]))

\* Once an expression is planned, the vectors of add_expression_to_plan, which
\* the kernel indexes with the same number, are equally long if and only if
\* every operator was known to the planner and none had literals only: one
\* vector that is too short is never made up for by another operator.
VectorsAligned ==
  left = 0 =>
    (SameLength <=> \A e \in 1 .. current : \A i \in DOMAIN exprs[e] : ReadsColumn(exprs[e], i))

\* No register that the kernel reads or writes, nor one that an input or a
\* result has, is beyond the shared memory it is launched with
\* (perform_operation takes the largest output of an operation for the last).
StaysInSharedMemory ==
  phase \in {"types", "data", "valid"} =>
    \A p \in Elements(plan.left_inputs) \cup Elements(plan.right_inputs) \cup Elements(plan.outputs)
             \cup {NumInputs - 1} \cup {final_output_position(e) : e \in 1 .. NumOutputs} :
      p <= max_output

\* An operation reads every register as it was stored, an integer as an
\* integer and a double as a double, though registers are used again for
\* values of other types (InterpreterFunctor, process_operator).
ReadsAsStored ==
  phase = "data" /\ op <= num_operations =>
    /\ plan.left_inputs[op] >= 0 =>
         is_type_float(types.left[op]) = is_type_float(stored[plan.left_inputs[op]])
    /\ plan.right_inputs[op] >= 0 =>
         is_type_float(types.right[op]) = is_type_float(stored[plan.right_inputs[op]])

\* A result is stored as the column it is written to is, an integer or a
\* double, though the column's type was found from the expression (that of a
\* condition is GDF_INT8) and the type of the result from the operations
\* (get_output_type_expression, write_data).  They differ for a float literal beside an integer, for a
\* COALESCE that begins with a literal, and for a trigonometric function of a
\* computed date, which is no SQL.
WritesAsStored ==
  phase = "data" /\ op > num_operations /\ ~HasFloat /\ ~CoalescesLiteral /\ ~TrigonometricDate =>
    \A e \in DOMAIN exprs :
      is_type_float(output_types[e]) = is_type_float(stored[final_output_position(e)])

\* When the kernel has run, every output column has the value of its
\* expression in the row, unless the expression is null there
\* (add_expression_to_plan, process_operator_3).
ComputesExpressions ==
  phase = "done" /\ ~HasFloat /\ (ChecksNulls => nulls = {}) =>
    \A e \in DOMAIN exprs : Meaning(e).valid => columns[e].value = Meaning(e).value

\* An output column of the kernel is null in the row exactly when the
\* expression is (process_valids).
NullsAreExact ==
  phase = "done" => \A e \in DOMAIN exprs : columns[e].valid = Meaning(e).valid

\* The same if no expression checks for nulls, and no position of a register
\* can be taken for a null check (valid_operator): that needs more columns than
\* operations and register BLZ_IS_NULL.
FewRegisters == NumInputs <= num_operations \/ max_output < BLZ_IS_NULL
PlainNullsAreExact == phase = "done" /\ ~ChecksNulls /\ FewRegisters => NullsAreExact
=============================================================================
