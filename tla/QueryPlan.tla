------------------------------ MODULE QueryPlan ------------------------------
(***************************************************************************)
(* evaluate_split_query (CalciteInterpreter.cpp): a relational plan is a   *)
(* list of lines, an operator each, whose indentation is the depth of the  *)
(* operator in the tree.  A call gets a part of the list, evaluates the    *)
(* parts of the children by calling itself, and applies the operator of    *)
(* its first line to their frames.                                         *)
(*                                                                         *)
(* A frame (DataFrame.h) is a sequence of tables, a table a sequence of    *)
(* columns.  Of a column the model keeps the line that made it, its number *)
(* there, and the line that chose its rows.  Whether an operator runs on   *)
(* one node or on all is not seen here: see OneNodeOperator.               *)
(***************************************************************************)
EXTENDS Lists, SequencesExt

CONSTANTS
  Plans,   \* the plans, sequences of lines
  Known,   \* the tables of the query
  Null     \* no frame

(* A line: op, depth, and what the operator needs: the table of a scan and *)
(* the columns it loads, or the number of columns a projection, an         *)
(* aggregation or a union makes.                                           *)
Double == {"join", "union", "union distinct"}
Single == {"project", "aggregate", "sort", "filter", "other"}
Leaf == {"scan", "values"}

(* The tree of the plan p, by its indentation: line j is under line i.     *)
Under(p, i, j) == i < j /\ \A k \in i + 1 .. j : p[k].depth > p[i].depth
Inputs(p, i) == {j \in DOMAIN p : Under(p, i, j) /\ p[j].depth = p[i].depth + 1}
Left(p, i) == CHOOSE j \in Inputs(p, i) : \A k \in Inputs(p, i) : j <= k
Right(p, i) == CHOOSE j \in Inputs(p, i) : \A k \in Inputs(p, i) : j >= k

(* Calcite prints the tree depth first.  An operator may have more inputs  *)
(* than the worker takes, but not less: a union of three, for instance.    *)
IsTree(p) ==
  /\ Len(p) > 0 /\ p[1].depth = 0
  /\ \A i \in 2 .. Len(p) : p[i].depth \in 1 .. p[i - 1].depth + 1
  /\ \A i \in DOMAIN p :
       /\ p[i].op \in Single => Inputs(p, i) # {}
       /\ p[i].op \in Double => \E j, k \in Inputs(p, i) : j # k

(* Every table has columns.                                                *)
HasColumns(l) ==
  /\ l.op = "scan" => l.columns \in Seq(Nat) \ {<<>>}
  /\ l.op \in {"project", "aggregate"} => l.width \in Nat \ {0}

ASSUME PlansAreTrees ==
  \A p \in Plans :
    /\ DOMAIN p = 1 .. Len(p) /\ Len(p) \in Nat /\ IsTree(p)
    /\ \A i \in DOMAIN p : p[i].op \in Double \cup Single \cup Leaf /\ HasColumns(p[i])

VARIABLES
  plan,      \* the lines
  empty,     \* the tables have no rows
  calls,     \* the stack of evaluate_split_query
  returned,  \* the frame the last call returned
  outcome,   \* of the query
  applied    \* the lines whose operator was applied, in order

vars == <<plan, empty, calls, returned, outcome, applied>>

(* A call: its part of the plan, its call_depth, where it is, and its      *)
(* left_frame.                                                             *)
Call(first, last, depth) ==
  [first |-> first, last |-> last, depth |-> depth, at |-> "enter", left |-> Null]

Init ==
  /\ plan \in Plans
  /\ empty \in BOOLEAN
  /\ calls = <<Call(1, Len(plan), 0)>>
  /\ returned = Null
  /\ outcome = "running"
  /\ applied = <<>>

top == Last(calls)
line == plan[top.first]

is_scan(l) == l.op = "scan"
is_double_input(l) == l.op \in Double

-----------------------------------------------------------------------------
(* blazing_frame.                                                          *)
get_num_columns(frame) == Len(FlattenSeq(frame))
get_size_column(frame, table) == Len(frame[table])
add_table(frame, table) == Append(frame, table)

(* The row marks of the columns of a new table: rows chosen by the line.   *)
Made(l, n, rows) == [i \in 1 .. n |-> [by |-> l, as |-> i, rows |-> rows]]

(* The columns that load_data returns for the projections of the scan, or  *)
(* for all the columns of the table.                                       *)
Scanned(l) == [i \in DOMAIN plan[l].columns |->
                [by |-> l, as |-> plan[l].columns[i], rows |-> l]]

(* Mutant: only the columns of the first table have new rows.              *)
MaterializedLeft(frame, l) ==
  [i \in 1 .. get_num_columns(frame) |->
     IF i <= get_size_column(frame, 1) THEN [FlattenSeq(frame)[i] EXCEPT !.rows = l]
                                       ELSE FlattenSeq(frame)[i]]

(* materialize_column: every column of the frame, in one new table.        *)
Materialized(frame, l) ==
  [i \in 1 .. get_num_columns(frame) |-> [FlattenSeq(frame)[i] EXCEPT !.rows = l]]

-----------------------------------------------------------------------------
(* Mutant: the call of the last line ends the query.                       *)
ReturnOfTheLast(frame) ==
  /\ returned' = frame
  /\ calls' = Front(calls)
  /\ outcome' = IF top.last = Len(plan) THEN "returned" ELSE outcome
  /\ UNCHANGED <<plan, empty>>

Return(frame) ==
  /\ returned' = frame
  /\ calls' = Front(calls)
  /\ outcome' = IF Len(calls) = 1 THEN "returned" ELSE outcome
  /\ UNCHANGED <<plan, empty>>

Apply(frame) ==
  /\ Return(frame)
  /\ applied' = Append(applied, top.first)

Stop(how) ==
  /\ outcome' = how
  /\ UNCHANGED <<plan, empty, calls, returned, applied>>

(* The call goes on to evaluate another part of the plan.                  *)
Evaluate(at, first, last) ==
  /\ calls' = Append(Append(Front(calls), [top EXCEPT !.at = at]),
                     Call(first, last, top.depth + 1))
  /\ returned' = Null
  /\ UNCHANGED <<plan, empty, outcome, applied>>

Running(at) == outcome = "running" /\ top.at = at
Back(at) == Running(at) /\ returned # Null

(* A call with no line reads the first one all the same.                   *)
NoLine ==
  /\ Running("enter") /\ top.first > top.last
  /\ Stop("undefined")

(* The only line is a scan: get_table_index, load_data.                    *)
Only == Running("enter") /\ top.first = top.last /\ is_scan(line)

Scan ==
  /\ Only /\ line.table \in Known
  /\ Apply(<<Scanned(top.first)>>)

ScanUnknown ==
  /\ Only /\ line.table \notin Known
  /\ Stop("threw")

(* An operator with two inputs: the lines at depth 1 are looked for from   *)
(* the third line of the part on, and the last one begins the right input. *)

(* Mutant: the depth is not taken relative to the call.                    *)
DepthInPlan(i) == plan[i].depth

DepthInCall(i) == plan[i].depth - top.depth

RightInputs == {i \in top.first + 2 .. top.last : DepthInCall(i) = 1}
other_depth_one_start ==
  IF RightInputs = {} THEN top.first + 2
  ELSE CHOOSE i \in RightInputs : \A j \in RightInputs : j <= i

TwoInputs == is_double_input(line) /\ ~Only

(* Mutant: the right input first.                                          *)
InputsSwapped(at) ==
  IF at = "right" THEN <<top.first + 1, other_depth_one_start - 1>>
                  ELSE <<other_depth_one_start, top.last>>

Input(at) ==
  IF at = "left" THEN <<top.first + 1, other_depth_one_start - 1>>
                 ELSE <<other_depth_one_start, top.last>>

EvaluateLeft ==
  /\ Running("enter") /\ top.first <= top.last /\ TwoInputs
  /\ IF other_depth_one_start > top.last + 1
       THEN Stop("undefined")
       ELSE Evaluate("left", Input("left")[1], Input("left")[2])

EvaluateRight ==
  /\ Back("left")
  /\ calls' = Append(Append(Front(calls), [top EXCEPT !.at = "right", !.left = returned]),
                     Call(Input("right")[1], Input("right")[2], top.depth + 1))
  /\ returned' = Null
  /\ UNCHANGED <<plan, empty, outcome, applied>>

(* The first table of the right frame is added to the left frame, and      *)
(* process_join materializes all the columns.                              *)
Join ==
  /\ Back("right") /\ line.op = "join"
  /\ Apply(<<Materialized(add_table(top.left, returned[1]), top.first)>>)

(* process_union, of the first tables; it throws unless all=[true] and the *)
(* inputs have equally many columns (the types are left out).              *)
CanUnite == line.op = "union" /\ get_size_column(top.left, 1) = get_size_column(returned, 1)

Union ==
  /\ Back("right") /\ CanUnite
  /\ Apply(<<Made(top.first, get_size_column(top.left, 1), top.first)>>)

CannotUnite ==
  /\ Back("right") /\ line.op # "join" /\ ~CanUnite
  /\ Stop("threw")

(* Any other line has one input: all the lines after it.                   *)
EvaluateChild ==
  /\ Running("enter") /\ top.first <= top.last /\ ~TwoInputs /\ ~Only
  /\ Evaluate("child", top.first + 1, top.last)

(* execute_project_plan: the new columns have as many rows as the table.   *)
Project ==
  /\ Back("child") /\ line.op = "project"
  /\ Apply(<<Made(top.first, line.width, Head(Head(returned)).rows)>>)

(* process_aggregate.                                                      *)
Aggregate ==
  /\ Back("child") /\ line.op = "aggregate"
  /\ Apply(<<Made(top.first, line.width, top.first)>>)

(* process_sort: the columns of the first table, in a new table.           *)
Sort ==
  /\ Back("child") /\ line.op = "sort"
  /\ Apply(<<Materialized(SubSeq(returned, 1, 1), top.first)>>)

(* process_filter puts the new columns in place of the old ones, unless    *)
(* there is no row.                                                        *)
Filter ==
  /\ Back("child") /\ line.op = "filter"
  /\ Apply(IF empty THEN returned ELSE <<Materialized(returned, top.first)>>)

Unsupported ==
  /\ Back("child") /\ line.op \notin {"project", "aggregate", "sort", "filter"}
  /\ Stop("threw")

Next ==
  \/ NoLine \/ Scan \/ ScanUnknown
  \/ EvaluateLeft \/ EvaluateRight \/ Join \/ Union \/ CannotUnite
  \/ EvaluateChild \/ Project \/ Aggregate \/ Sort \/ Filter \/ Unsupported

Spec == Init /\ [][Next]_vars

-----------------------------------------------------------------------------
Lines == DOMAIN plan

(* An operator comes after everything under it; otherwise the lines keep   *)
(* their order.                                                            *)
After(p, i, j) == Under(p, i, j) \/ (i > j /\ ~Under(p, j, i))
PostOrder(p) == InOrder(DOMAIN p, LAMBDA i, j : After(p, j, i))

(* The columns of the frame of a line, what makes them and which they are, *)
(* from those of its inputs: a join has the columns of both.               *)
ColumnsFrom(p, of, i) ==
  CASE p[i].op = "scan" -> [c \in DOMAIN p[i].columns |-> <<i, p[i].columns[c]>>]
    [] p[i].op = "join" -> of[Left(p, i)] \o of[Right(p, i)]
    [] p[i].op \in {"sort", "filter"} -> of[Left(p, i)]
    [] p[i].op = "union" -> [c \in DOMAIN of[Left(p, i)] |-> <<i, c>>]
    [] OTHER -> [c \in 1 .. p[i].width |-> <<i, c>>]
Columns(p, i) == LET of[j \in DOMAIN p] == ColumnsFrom(p, of, j) IN of[i]

(* Every line has the inputs of its operator, which the worker can apply   *)
(* (unions of equally many columns too).                                   *)
Evaluable(p) ==
  \A i \in DOMAIN p :
    /\ p[i].op \notin {"union distinct", "other", "values"}
    /\ p[i].op = "scan" => p[i].table \in Known /\ Inputs(p, i) = {}
    /\ p[i].op \in Single => \E j \in DOMAIN p : Inputs(p, i) = {j}
    /\ p[i].op \in Double => \E j, k \in DOMAIN p :
         /\ j # k /\ Inputs(p, i) = {j, k}
         /\ p[i].op = "union" => Len(Columns(p, j)) = Len(Columns(p, k))

TypeOK ==
  /\ empty \in BOOLEAN
  /\ \A k \in DOMAIN calls :
       /\ calls[k].first \in 1 .. Len(plan) + 1 /\ calls[k].last \in 0 .. Len(plan)
       /\ calls[k].at \in {"enter", "left", "right", "child"}
       /\ k < Len(calls) => calls[k].at # "enter"
  /\ outcome \in {"running", "returned", "threw", "undefined"}
  /\ calls = <<>> <=> outcome = "returned"
  /\ Range(applied) \subseteq Lines

(* The worker evaluates every plan whose operators it has, and applies to  *)
(* each operator the frames of its own inputs: what it returns is what the *)
(* tree says, whatever lines come before and after a subtree               *)
(* (evaluate_split_query).                                                 *)
AsTheTree ==
  /\ outcome \in {"threw", "undefined"} => ~Evaluable(plan)
  /\ outcome = "returned" =>
       [i \in DOMAIN FlattenSeq(returned) |->
          <<FlattenSeq(returned)[i].by, FlattenSeq(returned)[i].as>>] = Columns(plan, 1)

(* All nodes of a cluster apply the operators of a plan in the same order, *)
(* the inputs first and the left one before the right one: the rounds of   *)
(* their exchanges follow each other in that order.                        *)
InPostOrder ==
  outcome = "returned" /\ Evaluable(plan) => applied = PostOrder(plan)

(* A call returns one table, and its columns have the same rows:           *)
(* get_columns()[0] of the right frame of a join, get_size_column(0) in a  *)
(* union or a sort leave nothing out.                                      *)
FramesAreTables ==
  returned # Null =>
    /\ Len(returned) = 1
    /\ \A i, j \in DOMAIN returned[1] : returned[1][i].rows = returned[1][j].rows
=============================================================================
