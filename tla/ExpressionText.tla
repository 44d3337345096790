--------------------------- MODULE ExpressionText ---------------------------
(***************************************************************************)
(* How the expressions of a plan are read (CalciteExpressionParsing.cpp):  *)
(* the text of a projection is split into its fields, the text of an       *)
(* expression loses its casts, its AND and OR become binary, and it is cut *)
(* into tokens in reverse order.  On the tokens run a stack machine that   *)
(* finds the type of a field (get_output_type_expression) and the reader   *)
(* of join conditions (JoinProcessor.cpp).                                 *)
(*                                                                         *)
(* A text is a sequence of lexemes: brackets, commas, spaces, quotes, and  *)
(* words.  (What the code searches for begins and ends where lexemes do:   *)
(* the OR( of FLOOR( is gone, in strings too, before it looks for OR(.)    *)
(* Left out are the replacement of CASE by COALESCE, which is a regular    *)
(* expression, and the values of literals.                                 *)
(***************************************************************************)
EXTENDS Integers, Sequences, FiniteSets, SequencesExt

CONSTANT Inputs  \* what is asked to be read: [kind, fields, types]

(* An expression is a tree: [leaf |-> text] or [op |-> word, args |-> ...].*)
ColumnWords == <<"$0", "$1", "$2", "$3">>
Numbers == <<"1", "2">>

Type == {"INT8", "INT16", "INT32", "INT64", "FLOAT32", "FLOAT64", "DATE32", "DATE64",
         "TIMESTAMP", "STRING_CATEGORY"}

Input == [kind : {"project", "filter", "join"}, types : Seq(Type)]
ASSUME InputsAreInputs ==
  \A i \in Inputs : [kind |-> i.kind, types |-> i.types] \in Input /\ i.fields # <<>>

VARIABLES
  input,       \* the operator of the plan
  fields,      \* the texts that are still to be read
  pc,          \* the function that runs
  expression,  \* its text
  start_pos,   \* of expand_if_logical_op
  tokens,      \* all tokens of the expression, in reverse order
  next,        \* the next one to process
  operands,    \* the stack
  results      \* of the fields that were read

vars == <<input, fields, pc, expression, start_pos, tokens, next, operands, results>>

-----------------------------------------------------------------------------
(* What Calcite writes.                                                    *)
IsLeaf(t) == "leaf" \in DOMAIN t

RECURSIVE Written(_)
Written(t) ==
  IF IsLeaf(t) THEN t.leaf
  ELSE IF t.op = "CAST" THEN <<"CAST", "(">> \o Written(t.args[1]) \o <<")", t.to>>
  ELSE IF t.op = "YEAR" THEN <<"EXTRACT(FLAG(YEAR), ">> \o Written(t.args[1]) \o <<")">>
  ELSE <<t.op, "(">> \o
       FlattenSeq([i \in DOMAIN t.args |->
         (IF i > 1 THEN <<",", " ">> ELSE <<>>) \o Written(t.args[i])]) \o <<")">>

Line(i) ==
  IF i.kind # "project" THEN Written(i.fields[1]) \o <<"]", ")">>
  ELSE FlattenSeq([f \in DOMAIN i.fields |->
         (IF f > 1 THEN <<",", " ">> ELSE <<>>) \o <<"x", "=[">> \o Written(i.fields[f]) \o <<"]">>])

-----------------------------------------------------------------------------
(* The scan that get_expressions_from_expression_list and                  *)
(* find_closing_char share: after each lexeme, whether the text is in      *)
(* quotes, and how deep in brackets.  In quotes, a quote before another    *)
(* one does not end them.                                                  *)
Start == [quoted |-> FALSE, round |-> 0, square |-> 0]

Over(state, lexeme, following) ==
  IF lexeme = "'" THEN [state EXCEPT !.quoted = ~@ \/ following = "'"]
  ELSE IF state.quoted THEN state
  ELSE CASE lexeme = "(" -> [state EXCEPT !.round = @ + 1]
         [] lexeme = ")" -> [state EXCEPT !.round = @ - 1]
         [] lexeme = "=[" -> [state EXCEPT !.square = @ + 1]
         [] lexeme = "]" -> [state EXCEPT !.square = @ - 1]
         [] OTHER -> state

RECURSIVE Scan(_, _)
Scan(text, state) ==
  IF text = <<>> THEN <<>>
  ELSE LET now == Over(state, Head(text), IF Len(text) > 1 THEN text[2] ELSE "")
       IN <<now>> \o Scan(Tail(text), now)

(* Where the parenthesis that opens at start closes; 0 for none.           *)
find_closing_char(text, start) ==
  LET closed == SelectInSeq(Scan(SubSeq(text, start + 1, Len(text)), Start), LAMBDA s : s.round = -1)
  IN IF closed = 0 THEN 0 ELSE start + closed

(* StringUtil::findAndReplaceAll, for one lexeme or two.                   *)
RECURSIVE Replaced(_, _, _)
Replaced(text, from, to) ==
  IF Len(text) < Len(from) THEN text
  ELSE IF IsPrefix(from, text)
    THEN to \o Replaced(SubSeq(text, Len(from) + 1, Len(text)), from, to)
    ELSE <<Head(text)>> \o Replaced(Tail(text), from, to)

ReplacedBy(text, rules) == FoldLeft(LAMBDA t, r : Replaced(t, r[1], r[2]), text, rules)

CommonRules == << << <<" NOT NULL">>, <<>> >>, << <<")", ":DOUBLE">>, <<>> >>,
                  << <<"CAST", "(">>, <<>> >>,
                  << <<"EXTRACT(FLAG(YEAR), ">>, <<"BL_YEAR", "(">> >>,
                  << <<"FLOOR", "(">>, <<"BL_FLOUR", "(">> >> >>

(* A list loses every " NOT NULL", that of IS NOT NULL too.                *)
ListRules == << << <<"IS NOT NULL">>, <<"IS">> >> >> \o CommonRules
CleanRules == << << <<"IS NOT NULL">>, <<"IS_NOT_NULL">> >>,
                 << <<"IS NULL">>, <<"IS_NULL">> >> >> \o CommonRules

(* The pieces of a text between the separators at the given places.        *)
RECURSIVE Pieces(_, _)
Pieces(text, places) ==
  IF places = {} THEN <<text>>
  ELSE LET cut == Min(places) IN
       <<SubSeq(text, 1, cut - 1)>> \o
         Pieces(SubSeq(text, cut + 1, Len(text)), {p - cut : p \in places \ {cut}})

ltrim(text) == IF text # <<>> /\ Head(text) = " " THEN Tail(text) ELSE text

get_expressions_from_expression_list(list, trim) ==
  LET text == ReplacedBy(list, ListRules)
      states == Scan(text, Start)
      pieces == Pieces(text, {i \in DOMAIN text : text[i] = "," /\ states[i] = Start})
  IN IF trim THEN [k \in DOMAIN pieces |-> ltrim(pieces[k])] ELSE pieces

(* StringUtil::findFirstNotInQuotes, where a quote begins or ends quotes.  *)
OddQuotes(text, i) == Cardinality({j \in 1 .. i - 1 : text[j] = "'"}) % 2 = 1
findFirstNotInQuotes(text, op, from) ==
  SelectInSubSeq([i \in 1 .. Len(text) - 1 |-> text[i] = op /\ text[i + 1] = "(" /\ ~OddQuotes(text, i)],
                 from, Len(text) - 1, LAMBDA found : found)

(* The end of clean_calcite_expression, and get_tokens_in_reverse_order.   *)
Spaced(text) ==
  SelectSeq([i \in DOMAIN text |-> IF text[i] = "(" THEN " " ELSE text[i]],
            LAMBDA l : l \notin {",", ")"})

get_tokens_in_reverse_order(text) ==
  Reverse(Pieces(text, {i \in DOMAIN text : text[i] = " " /\ ~OddQuotes(text, i)}))

-----------------------------------------------------------------------------
(* What a token is.  The maps of the operators.                            *)
binary_operators == [arithmetic |-> {"+", "*", "AND", "OR"}, comparison |-> {"=", ">"},
                     power |-> {"POWER"}, coalesce |-> {"COALESCE"}]
unary_operators == [null_check |-> {"IS_NULL", "IS_NOT_NULL"}, trig |-> {"SIN"},
                    other |-> {"NOT", "BL_YEAR", "BL_FLOUR"}]

is_binary_operator_token(t) == \E k \in DOMAIN binary_operators : t \in {<<o>> : o \in binary_operators[k]}
is_unary_operator_token(t) == \E k \in DOMAIN unary_operators : t \in {<<o>> : o \in unary_operators[k]}
is_string(t) == t # <<>> /\ t[1] = "'" /\ t[Len(t)] = "'"
is_number(t) == \E n \in DOMAIN Numbers : t = <<Numbers[n]>>
is_column(t) == t # <<>> /\ t[1] \in ToSet(ColumnWords)
is_operator_token(t) == ~is_column(t) /\ ~is_number(t) /\ ~is_string(t)

(* The number after the $, or the literal itself; from 1 on here.  A column*)
(* beyond the last one is the last one (blazing_frame::get_column).        *)
get_index(t) ==
  IF is_column(t) THEN SelectInSeq(ColumnWords, LAMBDA w : w = t[1])
                  ELSE SelectInSeq(Numbers, LAMBDA w : <<w>> = t) + 1
get_column(i) == IF i > Len(input.types) THEN Len(input.types) ELSE i

(* ral::traits::get_dtype_size_in_bytes.                                   *)
get_width_dtype(type) ==
  CASE type = "INT8" -> 1
    [] type = "INT16" -> 2
    [] type \in {"INT32", "DATE32", "FLOAT32", "STRING_CATEGORY"} -> 4
    [] type \in {"INT64", "FLOAT64", "DATE64", "TIMESTAMP"} -> 8
    [] OTHER -> 0

is_type_float(type) == type \in {"FLOAT32", "FLOAT64"}
is_date_type(type) == type \in {"DATE32", "DATE64", "TIMESTAMP"}
is_numeric_type(type) == type \notin {"STRING_CATEGORY", "invalid"}

Wider(left, right) == IF get_width_dtype(left) >= get_width_dtype(right) THEN left ELSE right

get_unary_output_type(type, op) ==
  CASE is_date_type(type) -> "INT16"
    [] ~is_date_type(type) /\ op \in unary_operators.trig -> IF is_type_float(type) THEN type ELSE "FLOAT64"
    [] ~is_date_type(type) /\ op \in unary_operators.null_check -> "INT8"
    [] OTHER -> type

get_binary_output_type(left, right, op) ==
  IF ~is_numeric_type(left) \/ ~is_numeric_type(right) THEN "invalid"
  ELSE CASE op \in binary_operators.comparison -> "INT8"
         [] op \in binary_operators.power ->
              IF is_type_float(left) \/ is_type_float(right) THEN "FLOAT64" ELSE "INT64"
         [] op \in binary_operators.coalesce -> left
         [] OTHER -> IF is_type_float(left) = is_type_float(right) THEN Wider(left, right)
                     ELSE IF is_type_float(left) THEN left ELSE right

(* A literal gets the type of the other operand.                           *)
BinaryType(left, right, op) ==
  get_binary_output_type(IF left = "invalid" THEN right ELSE left,
                         IF right = "invalid" THEN left ELSE right, op)
-----------------------------------------------------------------------------
Init ==
  /\ input \in Inputs
  /\ pc = IF input.kind = "project" THEN "split" ELSE "condition"
  /\ fields = <<>> /\ expression = <<>> /\ start_pos = 1
  /\ tokens = <<>> /\ next = 1 /\ operands = <<>> /\ results = <<>>

Goes(to) == pc' = to
Threw == Goes("threw") /\ UNCHANGED <<input, fields, expression, start_pos, tokens, next, operands, results>>
Result(toks, value) == results' = Append(results, [tokens |-> toks, value |-> value])

(* parse_project_plan: the fields of the list, without their names.        *)
Split ==
  /\ pc = "split"
  /\ fields' = LET list == get_expressions_from_expression_list(Line(input), TRUE)
               IN [f \in DOMAIN list |-> SubSeq(list[f], 3, Len(list[f]) - 1)]
  /\ Goes("field")
  /\ UNCHANGED <<input, expression, start_pos, tokens, next, operands, results>>

(* get_named_expression takes the condition up to the first bracket.       *)
Condition ==
  /\ pc = "condition"
  /\ LET line == Line(input) IN
       fields' = <<SubSeq(line, 1, SelectInSeq(line, LAMBDA l : l = "]") - 1)>>
  /\ Goes("field")
  /\ UNCHANGED <<input, expression, start_pos, tokens, next, operands, results>>

contains_evaluation(text) == "(" \in ToSet(text)

(* Nothing to evaluate: a filter by a column, or a field that is taken as  *)
(* the number of a column; a string is none.                               *)
NothingToEvaluate(text) == IF input.kind = "filter" THEN is_column(text) ELSE ~contains_evaluation(text)

TakeColumn ==
  /\ pc = "field" /\ fields # <<>> /\ input.kind # "join" /\ NothingToEvaluate(Head(fields))
  /\ LET token == Spaced(Head(fields)) IN
       IF is_string(token) THEN Threw
       ELSE /\ Result(<<token>>, input.types[get_column(get_index(token))])
            /\ fields' = Tail(fields)
            /\ UNCHANGED <<input, pc, expression, start_pos, tokens, next, operands>>

Clean ==
  /\ pc = "field" /\ fields # <<>> /\ (input.kind = "join" \/ ~NothingToEvaluate(Head(fields)))
  /\ expression' = ReplacedBy(Head(fields), CleanRules)
  /\ start_pos' = 1
  /\ Goes("expand")
  /\ UNCHANGED <<input, fields, tokens, next, operands, results>>

AllRead ==
  /\ pc = "field" /\ fields = <<>>
  /\ Goes("done")
  /\ UNCHANGED <<input, fields, expression, start_pos, tokens, next, operands, results>>

(* expand_if_logical_op, one turn of its loop.                             *)
FirstAnd == findFirstNotInQuotes(expression, "AND", start_pos)
FirstOr == findFirstNotInQuotes(expression, "OR", start_pos)
First == IF FirstAnd = 0 \/ (FirstOr # 0 /\ FirstOr < FirstAnd) THEN FirstOr ELSE FirstAnd
Closing == find_closing_char(expression, First + 1)
Operands == SubSeq(expression, First + 2, IF Closing = 0 THEN Len(expression) ELSE Closing - 1)
After == IF Closing = 0 THEN <<>> ELSE SubSeq(expression, Closing + 1, Len(expression))

(* Mutant: the operands lose the space before them.                        *)
ProcessedTrimmed == get_expressions_from_expression_list(Operands, TRUE)

Processed == get_expressions_from_expression_list(Operands, FALSE)
Expands == pc = "expand" /\ start_pos <= Len(expression) /\ First # 0

(* Mutant: the same operator is found again.                               *)
InsideStaying == First

Inside == First + 1

AlreadyBinary ==
  /\ Expands /\ Len(Processed) = 2
  /\ start_pos' = Inside
  /\ UNCHANGED <<input, fields, pc, expression, tokens, next, operands, results>>

(* op(a, b, c) becomes op(op(a, b), c).                                    *)
Expand ==
  /\ Expands /\ Len(Processed) # 2
  /\ LET op == SubSeq(expression, First, First + 1)
         n == Len(Processed)
         opened == FlattenSeq([i \in 1 .. n - 1 |-> op])
         middle == FlattenSeq([i \in 1 .. n - 2 |-> Processed[i + 1] \o <<")", ",">>])
     IN /\ expression' = SubSeq(expression, 1, First - 1) \o opened \o Processed[1] \o <<",">>
                           \o middle \o Processed[n] \o <<")">> \o After
        /\ start_pos' = First + Len(opened)
  /\ UNCHANGED <<input, fields, pc, tokens, next, operands, results>>

Tokenize ==
  /\ pc = "expand" /\ (start_pos > Len(expression) \/ First = 0)
  /\ tokens' = get_tokens_in_reverse_order(Spaced(expression))
  /\ next' = 1 /\ operands' = <<>>
  /\ Goes("process")
  /\ UNCHANGED <<input, fields, expression, start_pos, results>>

-----------------------------------------------------------------------------
(* The loop over the tokens.                                               *)
token == tokens[next]
Processing(kind) == pc = "process" /\ input.kind = kind /\ next <= Len(tokens)
Push(x) == operands' = <<x>> \o operands
Step == next' = next + 1 /\ UNCHANGED <<input, fields, pc, expression, start_pos, tokens, results>>

(* get_output_type_expression.                                             *)
TypeOperand ==
  /\ Processing("project") /\ ~is_operator_token(token)
  /\ Push(IF is_column(token) THEN input.types[get_column(get_index(token))] ELSE "invalid")
  /\ Step


TypeBinary ==
  /\ Processing("project") /\ is_binary_operator_token(token)
  /\ IF Len(operands) < 2 \/ (operands[1] = "invalid" /\ operands[2] = "invalid") THEN Threw
     ELSE /\ operands' = <<BinaryType(operands[1], operands[2], token[1])>> \o Tail(Tail(operands))
          /\ Step

TypeUnary ==
  /\ Processing("project") /\ is_unary_operator_token(token) /\ operands # <<>>
  /\ operands' = <<get_unary_output_type(operands[1], token[1])>> \o Tail(operands)
  /\ Step

TypeUnsupported ==
  /\ Processing("project") /\ is_operator_token(token)
  /\ ~is_binary_operator_token(token) /\ ~is_unary_operator_token(token)
  /\ Threw

(* parseJoinConditionToColumnIndices: the operands are stacked, the        *)
(* operators must be equations.                                            *)
JoinOperand ==
  /\ Processing("join") /\ ~is_operator_token(token)
  /\ Push(token) /\ Step

JoinOperator ==
  /\ Processing("join") /\ is_operator_token(token)
  /\ IF token \in {<<"=">>, <<"AND">>} THEN Step /\ UNCHANGED operands ELSE Threw

(* Mutant: the indices of an equation stay as they are written.            *)
PairAsPopped(right, left) == <<left, right>>

Pair(right, left) == IF right < left THEN <<right, left>> ELSE <<left, right>>

columnIndices ==
  [i \in 1 .. Cardinality({k \in DOMAIN tokens : tokens[k] = <<"=">>}) |->
     Pair(get_index(operands[2 * i - 1]), get_index(operands[2 * i]))]

(* The end of the loop.  A filter goes on with add_expression_to_plan, see *)
(* ExpressionPlan.                                                         *)
Finish ==
  /\ pc = "process"
  /\ input.kind = "filter" \/ next > Len(tokens)
  /\ Result(tokens, CASE input.kind = "project" -> operands[1]
                      [] input.kind = "join" -> columnIndices
                      [] OTHER -> "")
  /\ fields' = Tail(fields)
  /\ Goes("field")
  /\ UNCHANGED <<input, expression, start_pos, tokens, next, operands>>

Next ==
  \/ Split \/ Condition \/ TakeColumn \/ Clean \/ AllRead
  \/ AlreadyBinary \/ Expand \/ Tokenize
  \/ TypeOperand \/ TypeBinary \/ TypeUnary \/ TypeUnsupported
  \/ JoinOperand \/ JoinOperator \/ Finish

Spec == Init /\ [][Next]_vars

-----------------------------------------------------------------------------
(* The tree as the evaluation of the tokens takes it: AND and OR of many   *)
(* operands group from the left; casts are passed over.                    *)
Meant(op) ==
  CASE op = "IS NOT NULL" -> "IS_NOT_NULL" [] op = "IS NULL" -> "IS_NULL"
    [] op = "YEAR" -> "BL_YEAR" [] op = "FLOOR" -> "BL_FLOUR" [] OTHER -> op

RECURSIVE Prefix(_)
Prefix(t) ==
  IF IsLeaf(t) THEN <<t.leaf>>
  ELSE IF t.op = "CAST" THEN Prefix(t.args[1])
  ELSE [i \in 1 .. (IF Len(t.args) < 3 THEN 1 ELSE Len(t.args) - 1) |-> <<Meant(t.op)>>]
       \o FlattenSeq([i \in DOMAIN t.args |-> Prefix(t.args[i])])

RECURSIVE TypeOf(_)
TypeOf(t) ==
  IF IsLeaf(t) THEN IF is_column(t.leaf) THEN input.types[get_index(t.leaf)] ELSE "invalid"
  ELSE IF t.op = "CAST" THEN TypeOf(t.args[1])
  ELSE IF Len(t.args) = 1
    THEN LET type == TypeOf(t.args[1]) IN
         IF type = "untyped" THEN type ELSE get_unary_output_type(type, Meant(t.op))
    ELSE FoldLeft(LAMBDA l, r : IF "untyped" \in {l, r} \/ {l, r} = {"invalid"} THEN "untyped"
                                ELSE BinaryType(l, r, t.op),
                  TypeOf(t.args[1]), [i \in 1 .. Len(t.args) - 1 |-> TypeOf(t.args[i + 1])])

RECURSIVE Equations(_)
Equations(t) ==
  IF t.op = "AND" THEN FlattenSeq([i \in DOMAIN t.args |-> Equations(t.args[i])])
  ELSE <<SortSeq(<<get_index(t.args[1].leaf), get_index(t.args[2].leaf)>>, <)>>

(* What the reader is made for.  It does not know casts but those to       *)
(* DOUBLE, IS NOT NULL in a projection, quotes in strings, brackets in the *)
(* strings of conditions, literals as fields, and join conditions that are *)
(* not equations of columns.                                               *)
RECURSIVE Supported(_)
Supported(t) ==
  IF IsLeaf(t) THEN
    /\ \A k \in 2 .. Len(t.leaf) - 1 : t.leaf[k] # "'"
    /\ input.kind # "project" => "]" \notin ToSet(t.leaf)
  ELSE /\ t.op = "CAST" => t.to = ":DOUBLE"
       /\ input.kind = "project" => t.op # "IS NOT NULL"
       /\ input.kind = "join" =>
            \/ t.op = "AND"
            \/ t.op = "=" /\ \A i \in 1 .. 2 : IsLeaf(t.args[i]) /\ is_column(t.args[i].leaf)
       /\ \A i \in DOMAIN t.args : Supported(t.args[i])

AllSupported ==
  \A f \in DOMAIN input.fields :
    LET t == input.fields[f] IN
    Supported(t) /\ (IsLeaf(t) => input.kind # "join" /\ is_column(t.leaf))

(* A string with something that is removed or replaced wherever it stands, *)
(* also in quotes.                                                         *)
Mangled(leaf) ==
  /\ is_string(leaf)
  /\ ToSet(leaf) \cap {",", "(", ")", "IS NULL", "IS NOT NULL", " NOT NULL", "EXTRACT(FLAG(YEAR), "} # {}

(* The text gives the tokens of the expression that was written, whatever  *)
(* its strings contain: fields are split at their own commas only, the     *)
(* binary AND and OR that expand_if_logical_op makes take the same         *)
(* operands, and a string is always one token.  It is the string that was  *)
(* written if it has no brackets and commas, which clean_calcite_expression*)
(* drops, and none of the words that it replaces; from the others the code *)
(* makes another string.                                                   *)
ReadsAsWritten ==
  AllSupported =>
    \A r \in DOMAIN results :
      LET written == Reverse(Prefix(input.fields[r])) IN
      /\ Len(results[r].tokens) = Len(written)
      /\ \A i \in DOMAIN written :
           IF Mangled(written[i]) THEN is_string(results[r].tokens[i])
           ELSE results[r].tokens[i] = written[i]


(* A join condition gives the columns of each of its equations, the one of *)
(* the left table first, however they are written                          *)
(* (parseJoinConditionToColumnIndices).                                    *)
PairsAsWritten ==
  AllSupported /\ input.kind = "join" =>
    /\ \A r \in DOMAIN results : results[r].value = Equations(input.fields[r])
    /\ pc # "threw"

(* expand_if_logical_op changes the text it walks over; still every turn   *)
(* of its loop leaves fewer operators before it, so that it ends.          *)
Ahead ==
  Cardinality({i \in start_pos .. Len(expression) - 1 :
    expression[i] \in {"AND", "OR"} /\ expression[i + 1] = "(" /\ ~OddQuotes(expression, i)})

LoopMovesOn ==
  [][AllSupported /\ pc = "expand" /\ pc' = "expand" => Ahead' < Ahead]_vars
=============================================================================
