----------------------- MODULE ExpressionPlanProofs -----------------------
(* Proofs about ExpressionPlan, for any projections and number of registers. *)
EXTENDS ExpressionPlan, FiniteSetTheorems, TLAPS

(* Induction for a set of natural numbers: on the numbers up to n that are  *)
(* missing, the predecessor would be injective and leave out n.             *)
LEMMA SetInduction ==
  ASSUME NEW I, 0 \in I, \A k \in Nat : k \in I => k + 1 \in I,
         NEW n \in Nat
  PROVE  n \in I
<1>1. SUFFICES ASSUME n \notin I PROVE FALSE
  OBVIOUS
<1> DEFINE Missing == {k \in 0 .. n : k \notin I}
           pred == [k \in Missing |-> k - 1]
<1>2. n \in Missing /\ IsFiniteSet(Missing)
  <2>1. n \in Missing
    BY <1>1
  <2>2. Missing \in SUBSET (0 .. n) /\ IsFiniteSet(0 .. n)
    BY FS_Interval
  <2> HIDE DEF Missing
  <2>3. QED
    BY <2>1, <2>2, FS_Subset
<1>3. ASSUME NEW k \in Missing PROVE k - 1 \in Missing \ {n}
  <2>1. k # 0 /\ k \in Nat
    OBVIOUS
  <2>2. k - 1 \in Nat /\ (k - 1) + 1 = k
    BY <2>1
  <2>3. k - 1 \notin I
    BY <2>2
  <2>4. QED
    BY <2>2, <2>3
<1>4. pred \in [Missing -> Missing \ {n}]
  BY <1>3
<1>5. /\ IsFiniteSet(Missing \ {n})
      /\ Cardinality(Missing \ {n}) = Cardinality(Missing) - 1
      /\ Cardinality(Missing) \in Nat
  BY <1>2, FS_RemoveElement, FS_CardinalityType
<1>6. Cardinality(Missing \ {n}) < Cardinality(Missing)
  BY <1>5
<1> HIDE DEF Missing
<1>7. PICK x, y \in Missing : x # y /\ pred[x] = pred[y]
  <2> HIDE DEF pred
  <2>1. QED
    BY <1>2, <1>4, <1>5, <1>6, FS_PigeonHole
<1>8. x - 1 = y - 1 /\ x \in Int /\ y \in Int
  BY <1>7 DEF Missing
<1>9. QED
  BY <1>7, <1>8

(* A nonempty set of natural numbers has a smallest element.               *)
LEMMA Smallest ==
  ASSUME NEW S \in SUBSET Nat, S # {}
  PROVE  \E p \in S : \A q \in S : p <= q
<1>1. SUFFICES ASSUME \A p \in S : \E q \in S : q < p PROVE FALSE
  OBVIOUS
<1> DEFINE Beneath == {k \in Nat : \A q \in S : k < q}
<1>2. 0 \in Beneath
  BY <1>1
<1>3. ASSUME NEW k \in Nat, k \in Beneath PROVE k + 1 \in Beneath
  <2>1. k + 1 \notin S
    BY <1>1, <1>3
  <2>2. QED
    BY <1>3, <2>1
<1>4. PICK p \in S : TRUE
  OBVIOUS
<1>5. p \in Beneath
  <2> HIDE DEF Beneath
  <2>1. QED
    BY <1>2, <1>3, SetInduction
<1>6. QED
  BY <1>5

(* get_first_open_position finds one of the open registers, if any.        *)
LEMMA FirstOpenIsOpen ==
  ASSUME NEW open \in SUBSET Nat, open # {}
  PROVE  get_first_open_position(open) \in open
BY Smallest DEF get_first_open_position

(* The columns that are used are numbered below NumInputs.                 *)
LEMMA InputsAreBelow ==
  ASSUME NEW c \in Used
  PROVE  /\ NumInputs \in Nat
         /\ new_input_indices[c] \in Nat
         /\ new_input_indices[c] < NumInputs
<1> DEFINE Below == {d \in Used : d < c}
<1>1. IsFiniteSet(Used) /\ Used \subseteq Nat
  BY ColumnsAssumption, FS_Subset DEF Used
<1>2. Below \subseteq Used /\ c \notin Below
  BY <1>1
<1>3. /\ IsFiniteSet(Below)
      /\ Cardinality(Below) <= Cardinality(Used)
      /\ Cardinality(Below) # Cardinality(Used)
  BY <1>1, <1>2, FS_Subset
<1>4. Cardinality(Below) \in Nat /\ Cardinality(Used) \in Nat
  BY <1>1, <1>3, FS_CardinalityType
<1>5. new_input_indices[c] = Cardinality(Below)
  BY DEF new_input_indices
<1>6. QED
  BY <1>3, <1>4, <1>5 DEF NumInputs

-----------------------------------------------------------------------------
(* The operands of expression current: its tokens, and registers.          *)
OperandSet ==
  [token : (UNION {Tokens(exprs[i]) : i \in DOMAIN exprs}) \cup {Column(p) : p \in Int},
   position : Int]

(* Where the planner is in the projection.                                 *)
Place ==
  /\ exprs \in Evaluations
  /\ current \in DOMAIN exprs
  /\ left \in 0 .. Len(exprs[current])

(* RegistersApart with the types it needs.                                 *)
IInv ==
  /\ Place
  /\ stack \in Seq(OperandSet)
  /\ free \subseteq AllFree
  /\ RegistersApart

(* The first token that is not read yet.                                   *)
LEMMA CurrentToken ==
  ASSUME Place, left > 0
  PROVE  LET t == exprs[current][left]
         IN /\ t \in Token
            /\ t \in UNION {Tokens(exprs[i]) : i \in DOMAIN exprs}
            /\ t.kind = "column" => t.id \in Used
<1> DEFINE t == exprs[current][left]
<1>1. exprs \in Seq(Seq(Token)) /\ current \in DOMAIN exprs
  BY EvaluationsAssumption DEF Place
<1>2. exprs[current] \in Seq(Token)
  BY <1>1
<1>3. left \in DOMAIN exprs[current]
  BY <1>2 DEF Place
<1>4. t \in Tokens(exprs[current]) /\ t \in Token
  BY <1>2, <1>3 DEF Tokens, Elements
<1>5. ASSUME t.kind = "column" PROVE t.id \in Used
  <2>1. t.id \in Columns
    BY <1>1, <1>4, <1>5, EvaluationsAssumption DEF Place
  <2>2. t = Column(t.id)
    BY <1>4, <1>5 DEF Token, Column
  <2>3. QED
    BY <1>1, <1>4, <2>1, <2>2 DEF Used
<1>6. QED
  BY <1>1, <1>4, <1>5

-----------------------------------------------------------------------------
(* RegistersApart of a stack and a set of open registers.                  *)
Apart(st, open) ==
  /\ \A i \in DOMAIN st :
       st[i].position >= NumInputs => st[i].position \in AllFree \ open
  /\ \A i, j \in DOMAIN st :
       st[i].position >= NumInputs /\ st[i].position = st[j].position => i = j

LEMMA ApartIsRegistersApart ==
  ASSUME phase = "plan"
  PROVE  RegistersApart <=> Apart(stack, free)
<1>1. \A i : i \in Temporaries <=> i \in DOMAIN stack /\ stack[i].position >= NumInputs
  BY DEF Temporaries
<1>2. QED
  BY <1>1 DEF RegistersApart, Apart

LEMMA CountsAreNatural ==
  ASSUME Place
  PROVE  NumInputs \in Nat /\ NumOutputs \in Nat /\ AllFree \in SUBSET Nat
<1>1. IsFiniteSet(Used)
  BY ColumnsAssumption, FS_Subset DEF Used
<1>2. NumInputs \in Nat
  BY <1>1, FS_CardinalityType DEF NumInputs
<1>3. NumOutputs \in Nat
  BY EvaluationsAssumption DEF Place, NumOutputs
<1>4. QED
  BY <1>2, <1>3 DEF AllFree

(* An operand that holds no intermediate result can be pushed.             *)
LEMMA PushInput ==
  ASSUME NEW st \in Seq(OperandSet), NEW open, Apart(st, open), Place,
         NEW o \in OperandSet, ~(o.position >= NumInputs)
  PROVE  <<o>> \o st \in Seq(OperandSet) /\ Apart(<<o>> \o st, open)
<1> DEFINE pushed == <<o>> \o st
<1>1. /\ pushed = <<o>> \o st
      /\ pushed \in Seq(OperandSet)
      /\ pushed[1] = o
      /\ DOMAIN pushed = 1 .. Len(st) + 1
      /\ \A i \in DOMAIN pushed : i # 1 => i - 1 \in DOMAIN st /\ pushed[i] = st[i - 1]
  OBVIOUS
<1> HIDE DEF pushed
<1>2. QED
  BY <1>1 DEF Apart, OperandSet

(* A register that was open is pushed and marked.                          *)
LEMMA PushOpen ==
  ASSUME NEW st \in Seq(OperandSet), NEW open, Apart(st, open), Place,
         NEW o \in OperandSet, o.position \in open, o.position \in AllFree
  PROVE  <<o>> \o st \in Seq(OperandSet) /\ Apart(<<o>> \o st, open \ {o.position})
<1> DEFINE pushed == <<o>> \o st
<1>1. /\ pushed = <<o>> \o st
      /\ pushed \in Seq(OperandSet)
      /\ pushed[1] = o
      /\ DOMAIN pushed = 1 .. Len(st) + 1
      /\ \A i \in DOMAIN pushed : i # 1 => i - 1 \in DOMAIN st /\ pushed[i] = st[i - 1]
  OBVIOUS
<1> HIDE DEF pushed
<1>2. \A i \in DOMAIN st : st[i].position >= NumInputs => st[i].position # o.position
  BY DEF Apart
<1>3. \A i \in DOMAIN pushed : pushed[i].position >= NumInputs =>
        pushed[i].position \in AllFree \ (open \ {o.position})
  BY <1>1 DEF Apart
<1>4. ASSUME NEW i \in DOMAIN pushed, NEW j \in DOMAIN pushed,
             pushed[i].position >= NumInputs, pushed[i].position = pushed[j].position
      PROVE  i = j
  <2>1. CASE i = 1 \/ j = 1
    BY <1>1, <1>2, <1>4, <2>1
  <2>2. CASE i # 1 /\ j # 1
    <3>1. /\ i - 1 \in DOMAIN st /\ j - 1 \in DOMAIN st
          /\ st[i - 1].position = st[j - 1].position
          /\ st[i - 1].position >= NumInputs
      BY <1>1, <1>4, <2>2
    <3>2. i - 1 = j - 1
      BY <3>1 DEF Apart
    <3>3. QED
      BY <1>1, <3>2
  <2>3. QED
    BY <2>1, <2>2
<1>5. QED
  BY <1>1, <1>3, <1>4 DEF Apart

(* Popping an operand releases its register, which no other operand has.   *)
LEMMA PopOne ==
  ASSUME NEW st \in Seq(OperandSet), NEW open \in SUBSET AllFree, Apart(st, open), Place,
         Len(st) >= 1
  PROVE  LET released == open \cup Released({st[1]})
         IN /\ Tail(st) \in Seq(OperandSet)
            /\ released \subseteq AllFree
            /\ Apart(Tail(st), released)
<1> DEFINE released == open \cup Released({st[1]})
           rest == Tail(st)
<1>1. /\ rest = Tail(st)
      /\ rest \in Seq(OperandSet)
      /\ 1 \in DOMAIN st
      /\ \A i \in DOMAIN rest : i \in Nat /\ i + 1 \in DOMAIN st /\ i + 1 # 1 /\ rest[i] = st[i + 1]
  OBVIOUS
<1>2. \A p \in Released({st[1]}) : p = st[1].position /\ p >= NumInputs
  <2>1. st[1].position \in Int
    <3>1. st[1] \in OperandSet
      BY <1>1
    <3>2. QED
      BY <3>1 DEF OperandSet
  <2>2. NumInputs \in Nat /\ NumOutputs \in Nat
    BY CountsAreNatural
  <2>3. ASSUME NEW p \in Released({st[1]})
        PROVE  p = st[1].position /\ p >= start_processing_position
    BY <2>3 DEF Released
  <2>4. QED
    BY <2>1, <2>2, <2>3 DEF start_processing_position
<1>3. Released({st[1]}) \subseteq AllFree
  BY <1>1, <1>2 DEF Apart
<1> HIDE DEF rest
<1>4. ASSUME NEW i \in DOMAIN rest, rest[i].position >= NumInputs
      PROVE  rest[i].position \in AllFree \ released
  <2>1. i + 1 \in DOMAIN st /\ i + 1 # 1 /\ 1 \in DOMAIN st /\ rest[i] = st[i + 1]
    BY <1>1
  <2>2. st[i + 1].position \in AllFree \ open
    BY <1>4, <2>1 DEF Apart
  <2>3. st[i + 1].position # st[1].position
    BY <1>4, <2>1 DEF Apart
  <2>4. QED
    BY <1>2, <2>1, <2>2, <2>3
<1>5. ASSUME NEW i \in DOMAIN rest, NEW j \in DOMAIN rest,
             rest[i].position >= NumInputs, rest[i].position = rest[j].position
      PROVE  i = j
  <2>1. i + 1 = j + 1
    BY <1>1, <1>5 DEF Apart
  <2>2. QED
    BY <1>1, <2>1
<1>6. Apart(rest, released)
  BY <1>4, <1>5 DEF Apart
<1>7. QED
  BY <1>1, <1>3, <1>6

LEMMA PopTwo ==
  ASSUME NEW st \in Seq(OperandSet), NEW open \in SUBSET AllFree, Apart(st, open), Place,
         Len(st) >= 2
  PROVE  LET released == open \cup Released({st[1], st[2]})
         IN /\ Tail(Tail(st)) \in Seq(OperandSet)
            /\ released \subseteq AllFree
            /\ Apart(Tail(Tail(st)), released)
<1> DEFINE first == open \cup Released({st[1]})
           rest == Tail(st)
<1>1. rest \in Seq(OperandSet) /\ first \in SUBSET AllFree /\ Apart(rest, first)
  <2>1. Len(st) >= 1
    OBVIOUS
  <2>2. QED
    BY <2>1, PopOne
<1>2. Len(rest) >= 1 /\ rest[1] = st[2]
  OBVIOUS
<1> HIDE DEF rest, first
<1>3. /\ Tail(rest) \in Seq(OperandSet)
      /\ first \cup Released({rest[1]}) \subseteq AllFree
      /\ Apart(Tail(rest), first \cup Released({rest[1]}))
  BY <1>1, <1>2, PopOne
<1>4. first \cup Released({rest[1]}) = open \cup Released({st[1], st[2]})
  BY <1>2 DEF first, Released
<1>5. QED
  BY <1>3, <1>4 DEF rest

(* The result of an operator gets a register no operand has.               *)
LEMMA OutputKeepsApart ==
  ASSUME Place, NEW rest \in Seq(OperandSet), NEW open \in SUBSET AllFree, Apart(rest, open),
         NEW p, Output(p, rest, open)
  PROVE  stack' \in Seq(OperandSet) /\ free' \subseteq AllFree /\ Apart(stack', free')
<1>1. CASE left = 1
  BY <1>1 DEF Output
<1>2. CASE left # 1
  <2> DEFINE position == get_first_open_position(open)
             o == [token |-> Column(position), position |-> position]
  <2>1. stack' = <<o>> \o rest /\ free' = open \ {position}
    BY <1>2 DEF Output
  <2>2. CASE open = {}
    <3>1. position = -1
      BY <2>2 DEF get_first_open_position, NOT_USED
    <3>2. o \in OperandSet /\ ~(o.position >= NumInputs)
      BY <3>1, CountsAreNatural DEF OperandSet
    <3>3. <<o>> \o rest \in Seq(OperandSet) /\ Apart(<<o>> \o rest, open)
      BY <3>2, PushInput
    <3>4. QED
      BY <2>1, <2>2, <3>3
  <2>3. CASE open # {}
    <3>1. position \in open /\ position \in AllFree /\ position \in Int
      BY <2>3, FirstOpenIsOpen, CountsAreNatural
    <3>2. o \in OperandSet /\ o.position = position
      BY <3>1 DEF OperandSet
    <3>3. <<o>> \o rest \in Seq(OperandSet) /\ Apart(<<o>> \o rest, open \ {position})
      BY <3>1, <3>2, PushOpen
    <3>4. QED
      BY <2>1, <3>3
  <2>4. QED
    BY <2>2, <2>3
<1>3. QED
  BY <1>1, <1>2

(* The layout does not change while a projection is planned.               *)
LEMMA LayoutIsFixed ==
  ASSUME exprs' = exprs
  PROVE  /\ NumInputs' = NumInputs
         /\ AllFree' = AllFree
         /\ OperandSet' = OperandSet
BY DEF NumInputs, NumOutputs, AllFree, start_processing_position, Used, OperandSet

-----------------------------------------------------------------------------
(* IInv is an inductive invariant.                                         *)
LEMMA InitIInv == Init => IInv
<1>1. SUFFICES ASSUME Init PROVE IInv
  OBVIOUS
<1>2. exprs \in Evaluations /\ current = 1 /\ stack = <<>> /\ free = AllFree
  BY <1>1 DEF Init, Evaluations
<1>3. exprs \in Seq(Seq(Token)) /\ exprs # <<>>
  BY <1>2, EvaluationsAssumption
<1>4. 1 \in DOMAIN exprs /\ exprs[1] \in Seq(Token)
  BY <1>3
<1>5. Place
  BY <1>1, <1>2, <1>4 DEF Init, Place
<1>6. stack \in Seq(OperandSet) /\ RegistersApart
  BY <1>2 DEF RegistersApart, Temporaries
<1>7. QED
  BY <1>2, <1>5, <1>6 DEF IInv

(* Reading a token: the planner stays in its expression.                   *)
LEMMA ReadingKeepsPlace ==
  ASSUME Place, Reading
  PROVE  Place' /\ phase = "plan" /\ phase' = "plan" /\ exprs' = exprs
<1>1. /\ exprs' = exprs /\ current' = current /\ left > 0 /\ left' = left - 1
      /\ phase = "plan" /\ phase' = "plan"
  BY DEF Reading
<1>2. exprs[current] \in Seq(Token)
  BY EvaluationsAssumption DEF Place
<1>3. left' \in 0 .. Len(exprs[current])
  BY <1>1, <1>2 DEF Place
<1>4. QED
  BY <1>1, <1>3 DEF Place

(* What is left to prove of a step that reads a token.                     *)
LEMMA ReadingKeepsIInv ==
  ASSUME Place, Reading, stack' \in Seq(OperandSet), free' \subseteq AllFree, Apart(stack', free')
  PROVE  IInv'
<1>1. Place' /\ phase' = "plan" /\ exprs' = exprs
  BY ReadingKeepsPlace
<1>2. NumInputs' = NumInputs /\ AllFree' = AllFree /\ OperandSet' = OperandSet
  BY <1>1, LayoutIsFixed
<1>3. RegistersApart'
  BY <1>2 DEF Apart, RegistersApart, Temporaries
<1>4. QED
  BY <1>1, <1>2, <1>3 DEF IInv

LEMMA NextIInv == IInv /\ [Next]_vars => IInv'
<1>1. SUFFICES ASSUME IInv, [Next]_vars PROVE IInv'
  OBVIOUS
<1>2. Place /\ stack \in Seq(OperandSet) /\ free \in SUBSET AllFree
  BY <1>1 DEF IInv
<1>3. phase = "plan" => Apart(stack, free)
  BY <1>1, ApartIsRegistersApart DEF IInv
<1>4. CASE ReadBinary
  <2>1. Reading /\ phase = "plan" /\ Len(stack) >= 2
    BY <1>4 DEF ReadBinary, Reading
  <2> DEFINE open == free \cup Released({stack[1], stack[2]})
  <2>2. Tail(Tail(stack)) \in Seq(OperandSet) /\ open \in SUBSET AllFree /\ Apart(Tail(Tail(stack)), open)
    BY <1>2, <1>3, <2>1, PopTwo
  <2>3. PICK p : Output(p, Tail(Tail(stack)), open)
    BY <1>4 DEF ReadBinary
  <2> HIDE DEF open
  <2>4. stack' \in Seq(OperandSet) /\ free' \subseteq AllFree /\ Apart(stack', free')
    BY <1>2, <2>2, <2>3, OutputKeepsApart
  <2>5. QED
    BY <1>2, <2>1, <2>4, ReadingKeepsIInv
<1>5. CASE ReadUnary
  <2>1. Reading /\ phase = "plan" /\ Len(stack) >= 1
    BY <1>5 DEF ReadUnary, Reading
  <2> DEFINE open == free \cup Released({stack[1]})
  <2>2. Tail(stack) \in Seq(OperandSet) /\ open \in SUBSET AllFree /\ Apart(Tail(stack), open)
    BY <1>2, <1>3, <2>1, PopOne
  <2>3. PICK p : Output(p, Tail(stack), open)
    BY <1>5 DEF ReadUnary
  <2> HIDE DEF open
  <2>4. stack' \in Seq(OperandSet) /\ free' \subseteq AllFree /\ Apart(stack', free')
    BY <1>2, <2>2, <2>3, OutputKeepsApart
  <2>5. QED
    BY <1>2, <2>1, <2>4, ReadingKeepsIInv
<1>6. CASE ReadOperand
  <2> DEFINE t == exprs[current][left]
             o == OperandOf(t)
  <2>1. Reading /\ phase = "plan" /\ left > 0 /\ stack' = <<o>> \o stack /\ free' = free
    BY <1>6 DEF ReadOperand, Reading
  <2>2. /\ t \in UNION {Tokens(exprs[i]) : i \in DOMAIN exprs}
        /\ t.kind = "column" => t.id \in Used
    BY <1>2, <2>1, CurrentToken
  <2>3. o \in OperandSet /\ ~(o.position >= NumInputs)
    <3>1. CASE is_literal(t)
      <4>1. o = [token |-> t, position |-> -2]
        BY <3>1 DEF OperandOf, SCALAR_INDEX
      <4>2. QED
        BY <1>2, <2>2, <4>1, CountsAreNatural DEF OperandSet
    <3>2. CASE ~is_literal(t)
      <4> DEFINE p == new_input_indices[t.id]
      <4>1. t.kind = "column"
        BY <1>6, <3>2 DEF ReadOperand
      <4>2. p \in Nat /\ p < NumInputs /\ NumInputs \in Nat
        BY <2>2, <4>1, InputsAreBelow
      <4>3. o = [token |-> Column(p), position |-> p]
        BY <3>2 DEF OperandOf
      <4> HIDE DEF p, o
      <4>4. QED
        BY <4>2, <4>3 DEF OperandSet
    <3>3. QED
      BY <3>1, <3>2
  <2> HIDE DEF o
  <2>4. stack' \in Seq(OperandSet) /\ Apart(stack', free')
    BY <1>2, <1>3, <2>1, <2>3, PushInput
  <2>5. QED
    BY <1>2, <2>1, <2>4, ReadingKeepsIInv
<1>6a. CASE ReadOther
  <2>1. Reading /\ phase = "plan" /\ Output(plan, stack, free)
    BY <1>6a DEF ReadOther, Reading
  <2>2. stack' \in Seq(OperandSet) /\ free' \subseteq AllFree /\ Apart(stack', free')
    BY <1>2, <1>3, <2>1, OutputKeepsApart
  <2>3. QED
    BY <1>2, <2>1, <2>2, ReadingKeepsIInv
<1>7. CASE NextExpression
  <2>1. /\ exprs' = exprs /\ current < Len(exprs) /\ current' = current + 1
        /\ left' = Len(exprs[current']) /\ stack' = <<>> /\ free' = AllFree
    BY <1>7 DEF NextExpression
  <2>2. exprs \in Seq(Seq(Token))
    BY <1>2, EvaluationsAssumption DEF Place
  <2>3. current' \in DOMAIN exprs /\ exprs[current'] \in Seq(Token)
    BY <1>2, <2>1, <2>2 DEF Place
  <2>4. Place'
    BY <1>2, <2>1, <2>3 DEF Place
  <2>5. free' \subseteq AllFree' /\ stack' \in Seq(OperandSet')
    BY <2>1, LayoutIsFixed
  <2>6. RegistersApart'
    BY <2>1 DEF RegistersApart, Temporaries
  <2>7. QED
    BY <2>4, <2>5, <2>6 DEF IInv
<1>8. CASE \/ perform_operation \/ InterpreterFunctor \/ read_data
           \/ process_operator \/ process_operator_outside
           \/ write_data \/ process_valids \/ write_valid_data
  <2>1. UNCHANGED <<exprs, planning>> /\ phase' # "plan"
    BY <1>8 DEF perform_operation, InterpreterFunctor, read_data, process_operator, process_operator_outside,
                write_data, process_valids, write_valid_data
  <2>2. exprs' = exprs /\ current' = current /\ left' = left /\ stack' = stack /\ free' = free
    BY <2>1 DEF planning
  <2>3. Place' /\ AllFree' = AllFree /\ OperandSet' = OperandSet
    BY <1>2, <2>2, LayoutIsFixed DEF Place
  <2>4. RegistersApart'
    BY <2>1 DEF RegistersApart
  <2>5. QED
    BY <1>2, <2>2, <2>3, <2>4 DEF IInv
<1>9. CASE UNCHANGED vars
  <2>1. /\ exprs' = exprs /\ current' = current /\ left' = left /\ stack' = stack
        /\ free' = free /\ phase' = phase
    BY <1>9 DEF vars, planning
  <2>2. Place' /\ NumInputs' = NumInputs /\ AllFree' = AllFree /\ OperandSet' = OperandSet
    BY <1>2, <2>1, LayoutIsFixed DEF Place
  <2>3. RegistersApart'
    BY <1>1, <2>1, <2>2 DEF IInv, RegistersApart, Temporaries
  <2>4. QED
    BY <1>2, <2>1, <2>2, <2>3 DEF IInv
<1>10. QED
  BY <1>1, <1>4, <1>5, <1>6, <1>6a, <1>7, <1>8, <1>9 DEF Next

(* For any evaluations and number of registers, no register of             *)
(* add_expression_to_plan is given away while it holds an operand.         *)
THEOREM OperandsKeepTheirRegisters == Spec => []RegistersApart
<1>1. IInv => RegistersApart
  BY DEF IInv
<1>2. QED
  BY InitIInv, NextIInv, <1>1, PTL DEF Spec

-----------------------------------------------------------------------------
(***************************************************************************)
(* The plan that add_expression_to_plan leaves to the kernel, for any      *)
(* evaluations and any number of registers: its vectors fit each other if  *)
(* and only if every operator is known and reads something that is no      *)
(* literal.  The kernel runs only then, has memory for every register, and *)
(* reads every register as it was stored.                                  *)
(***************************************************************************)

is_operator(t) == is_binary_operator_token(t) \/ is_unary_operator_token(t)

OperatorsReadColumns == \A e \in DOMAIN exprs : \A i \in DOMAIN exprs[e] : ReadsColumn(exprs[e], i)

-----------------------------------------------------------------------------
(* The invariant of the planner.                                           *)

Scalar == [kind : {"int", "float", "column", "binary", "coalesce", "unary", "is_null", "other"}, id : Int]

Vectors == [left_inputs : Seq(Int), right_inputs : Seq(Int), outputs : Seq(Int),
            operators : Seq(Token), left_scalars : Seq(Scalar), right_scalars : Seq(Scalar)]

Aligned(p) ==
  /\ Len(p.right_inputs) = Len(p.left_inputs) /\ Len(p.outputs) = Len(p.left_inputs)
  /\ Len(p.operators) = Len(p.left_inputs)
  /\ Len(p.left_scalars) = Len(p.left_inputs) /\ Len(p.right_scalars) = Len(p.left_inputs)

(* What an operation may read, when the ones before it wrote outputs.      *)
Readable(r, outputs) ==
  \/ r = SCALAR_INDEX \/ r = NOT_USED
  \/ r \in 0 .. NumInputs - 1
  \/ r \in AllFree /\ r \in Elements(outputs)

Writable(r) ==
  \/ r = NOT_USED
  \/ r \in AllFree
  \/ r \in NumInputs .. NumInputs + NumOutputs - 1

Reads(p) ==
  /\ \A r \in Elements(p.left_inputs) : Readable(r, p.outputs)
  /\ \A r \in Elements(p.right_inputs) : Readable(r, p.outputs)
Writes(p) == \A r \in Elements(p.outputs) : Writable(r)

OperandsReadable(st, outputs) == \A i \in DOMAIN st : Readable(st[i].position, outputs)

(* The fields that are planned have their results.                         *)
Finished(outputs, c, n) ==
  \A e \in 1 .. c : e < c \/ n = 0 => final_output_position(e) \in Elements(outputs)

PInv ==
  /\ plan \in Vectors /\ Aligned(plan)
  /\ Reads(plan) /\ Writes(plan)
  /\ OperandsReadable(stack, plan.outputs)
  /\ Finished(plan.outputs, current, left)
  /\ phase # "plan" => current = NumOutputs /\ left = 0

LEMMA InElements == ASSUME NEW s, NEW i \in DOMAIN s PROVE s[i] \in Elements(s)
BY DEF Elements

LEMMA AppendElements ==
  ASSUME NEW s \in Seq(Int), NEW x \in Int
  PROVE  Elements(Append(s, x)) = Elements(s) \cup {x}
<1>1. DOMAIN Append(s, x) = 1 .. Len(s) + 1 /\ DOMAIN s = 1 .. Len(s) /\ Len(s) \in Nat
  OBVIOUS
<1>2. Append(s, x)[Len(s) + 1] = x /\ \A i \in DOMAIN s : Append(s, x)[i] = s[i]
  OBVIOUS
<1>3. Elements(Append(s, x)) \subseteq Elements(s) \cup {x}
  BY <1>1, <1>2 DEF Elements
<1>4. Elements(s) \subseteq Elements(Append(s, x))
  BY <1>1, <1>2 DEF Elements
<1>5. x \in Elements(Append(s, x))
  <2>1. Len(s) + 1 \in DOMAIN Append(s, x)
    BY <1>1
  <2>2. QED
    BY <1>2, <2>1, InElements
<1>6. QED
  BY <1>3, <1>4, <1>5

LEMMA TokensAreScalars == \A o \in OperandSet : Place => o.token \in Scalar
<1>1. SUFFICES ASSUME NEW o \in OperandSet, Place PROVE o.token \in Scalar
  OBVIOUS
<1>2. o.token \in (UNION {Tokens(exprs[i]) : i \in DOMAIN exprs}) \cup {Column(p) : p \in Int}
  BY DEF OperandSet
<1>3. CASE o.token \in {Column(p) : p \in Int}
  BY <1>3 DEF Column, Scalar
<1>4. CASE \E i \in DOMAIN exprs : o.token \in Tokens(exprs[i])
  <2>1. PICK i \in DOMAIN exprs : o.token \in Tokens(exprs[i])
    BY <1>4
  <2>2. exprs[i] \in Seq(Token)
    <3>1. exprs \in Seq(Seq(Token))
      BY <1>1, EvaluationsAssumption DEF Place
    <3>2. QED
      BY <3>1
  <2>3. o.token \in Token
    BY <2>1, <2>2 DEF Tokens, Elements
  <2>4. QED
    BY <2>3 DEF Token, Scalar
<1>5. QED
  BY <1>2, <1>3, <1>4

-----------------------------------------------------------------------------
(* The operator in the vectors: one more of everything but the outputs.    *)
Extended(p, l, r) ==
  /\ p \in Vectors /\ p.outputs = plan.outputs
  /\ p.left_inputs = Append(plan.left_inputs, l)
  /\ p.right_inputs = Append(plan.right_inputs, r)
  /\ Len(p.operators) = Len(plan.operators) + 1
  /\ Len(p.left_scalars) = Len(plan.left_scalars) + 1
  /\ Len(p.right_scalars) = Len(plan.right_scalars) + 1

LEMMA BinaryExtends ==
  ASSUME plan \in Vectors, NEW t \in Token,
         NEW a \in [token : Scalar, position : Int], NEW b \in [token : Scalar, position : Int],
         ~(is_literal(a.token) /\ is_literal(b.token))
  PROVE  Extended(WithBinary(t, a, b), InputOf(a), InputOf(b))
<1> DEFINE p == WithBinary(t, a, b)
<1>1. InputOf(a) \in Int /\ InputOf(b) \in Int
  BY DEF InputOf, SCALAR_INDEX
<1>2. p = [left_inputs |-> Append(plan.left_inputs, InputOf(a)),
           right_inputs |-> Append(plan.right_inputs, InputOf(b)),
           outputs |-> plan.outputs, operators |-> Append(plan.operators, t),
           left_scalars |-> Append(plan.left_scalars, a.token),
           right_scalars |-> Append(plan.right_scalars, b.token)]
  BY DEF WithBinary, WithOperator, Vectors
<1>3. /\ plan.left_inputs \in Seq(Int) /\ plan.right_inputs \in Seq(Int)
      /\ plan.outputs \in Seq(Int) /\ plan.operators \in Seq(Token)
      /\ plan.left_scalars \in Seq(Scalar) /\ plan.right_scalars \in Seq(Scalar)
  BY DEF Vectors
<1>4. /\ Append(plan.left_inputs, InputOf(a)) \in Seq(Int)
      /\ Append(plan.right_inputs, InputOf(b)) \in Seq(Int)
      /\ Append(plan.operators, t) \in Seq(Token)
      /\ Append(plan.left_scalars, a.token) \in Seq(Scalar)
      /\ Append(plan.right_scalars, b.token) \in Seq(Scalar)
  BY <1>1, <1>3
<1>5. /\ Len(Append(plan.operators, t)) = Len(plan.operators) + 1
      /\ Len(Append(plan.left_scalars, a.token)) = Len(plan.left_scalars) + 1
      /\ Len(Append(plan.right_scalars, b.token)) = Len(plan.right_scalars) + 1
  BY <1>3
<1>6. QED
  BY <1>2, <1>3, <1>4, <1>5 DEF Extended, Vectors

LEMMA UnaryExtends ==
  ASSUME plan \in Vectors, NEW t \in Token,
         NEW a \in [token : Scalar, position : Int], ~is_literal(a.token)
  PROVE  Extended(WithUnary(t, a), InputOf(a), NOT_USED)
<1> DEFINE p == WithUnary(t, a)
<1>1. InputOf(a) \in Int /\ NOT_USED \in Int
  BY DEF InputOf, SCALAR_INDEX, NOT_USED
<1>2. p = [left_inputs |-> Append(plan.left_inputs, InputOf(a)),
           right_inputs |-> Append(plan.right_inputs, NOT_USED),
           outputs |-> plan.outputs, operators |-> Append(plan.operators, t),
           left_scalars |-> Append(plan.left_scalars, a.token),
           right_scalars |-> Append(plan.right_scalars, a.token)]
  BY DEF WithUnary, WithOperator, Vectors
<1>3. /\ plan.left_inputs \in Seq(Int) /\ plan.right_inputs \in Seq(Int)
      /\ plan.outputs \in Seq(Int) /\ plan.operators \in Seq(Token)
      /\ plan.left_scalars \in Seq(Scalar) /\ plan.right_scalars \in Seq(Scalar)
  BY DEF Vectors
<1>4. /\ Append(plan.left_inputs, InputOf(a)) \in Seq(Int)
      /\ Append(plan.right_inputs, NOT_USED) \in Seq(Int)
      /\ Append(plan.operators, t) \in Seq(Token)
      /\ Append(plan.left_scalars, a.token) \in Seq(Scalar)
      /\ Append(plan.right_scalars, a.token) \in Seq(Scalar)
  BY <1>1, <1>3
<1>5. /\ Len(Append(plan.operators, t)) = Len(plan.operators) + 1
      /\ Len(Append(plan.left_scalars, a.token)) = Len(plan.left_scalars) + 1
      /\ Len(Append(plan.right_scalars, a.token)) = Len(plan.right_scalars) + 1
  BY <1>3
<1>6. QED
  BY <1>2, <1>3, <1>4, <1>5 DEF Extended, Vectors

LEMMA OperandIsRecord ==
  ASSUME Place, NEW st \in Seq(OperandSet), NEW i \in DOMAIN st
  PROVE  st[i] \in [token : Scalar, position : Int]
<1>1. st[i] \in OperandSet
  OBVIOUS
<1>2. st[i].token \in Scalar
  BY <1>1, TokensAreScalars
<1>3. QED
  BY <1>1, <1>2 DEF OperandSet

LEMMA InputIsInteger ==
  ASSUME NEW o \in [token : Scalar, position : Int]
  PROVE  InputOf(o) \in Int
BY DEF InputOf, SCALAR_INDEX

(* The expression that is read, and what is assumed of it.                 *)
LEMMA CurrentExpression ==
  ASSUME Place
  PROVE  /\ exprs \in Evaluations /\ current \in DOMAIN exprs
         /\ exprs \in Seq(Seq(Token)) /\ exprs[current] \in Seq(Token)
         /\ DOMAIN exprs[current] = 1 .. Len(exprs[current])
         /\ Len(exprs[current]) \in Nat /\ left \in 0 .. Len(exprs[current])
<1>1. exprs \in Evaluations /\ current \in DOMAIN exprs /\ left \in 0 .. Len(exprs[current])
  BY DEF Place
<1>2. exprs \in Seq(Seq(Token))
  BY <1>1, EvaluationsAssumption
<1>3. exprs[current] \in Seq(Token)
  BY <1>1, <1>2
<1>4. QED
  BY <1>1, <1>2, <1>3

LEMMA LayoutStays ==
  ASSUME exprs' = exprs
  PROVE  /\ NumInputs' = NumInputs /\ NumOutputs' = NumOutputs /\ AllFree' = AllFree
         /\ \A r, s : Readable(r, s)' <=> Readable(r, s)
BY DEF NumInputs, NumOutputs, AllFree, start_processing_position, Used, Readable

(* More outputs make more registers readable.                              *)
LEMMA ReadableMore ==
  ASSUME NEW s \in Seq(Int), NEW x \in Int, NEW r, Readable(r, s)
  PROVE  Readable(r, Append(s, x))
BY AppendElements DEF Readable

(* The result of an operator, and the operands that are left.              *)
LEMMA OutputWrites ==
  ASSUME IInv, plan \in Vectors, Reading,
         NEW p, NEW rest \in Seq(OperandSet), NEW open \in SUBSET AllFree, p.outputs = plan.outputs,
         Output(p, rest, open)
  PROVE  \E x \in Int :
           /\ plan' = [p EXCEPT !.outputs = Append(@, x)]
           /\ Writable(x)
           /\ left = 1 => x = final_output_position(current)
           /\ OperandsReadable(rest, plan.outputs) =>
                OperandsReadable(stack', Append(plan.outputs, x))
           /\ left > 1 => Len(stack') >= 1 /\ ~is_literal(stack'[1].token)
<1>1. Place /\ left > 0 /\ plan.outputs \in Seq(Int)
  BY DEF IInv, Reading, Vectors
<1>2. /\ NumInputs \in Nat /\ NumOutputs \in Nat /\ AllFree \in SUBSET Nat
      /\ current \in 1 .. NumOutputs /\ left \in Nat
  <2>1. exprs \in Seq(Seq(Token))
    BY <1>1, EvaluationsAssumption DEF Place
  <2>2. current \in 1 .. NumOutputs
    BY <1>1, <2>1 DEF Place, NumOutputs
  <2>3. QED
    BY <1>1, <2>1, <2>2, CountsAreNatural DEF Place
<1>3. CASE left = 1
  <2> DEFINE x == final_output_position(current)
  <2>1. plan' = [p EXCEPT !.outputs = Append(@, x)] /\ stack' = rest
    BY <1>3 DEF Output
  <2>2. x \in Int /\ Writable(x)
    BY <1>2 DEF final_output_position, Writable
  <2>3. OperandsReadable(rest, plan.outputs) => OperandsReadable(rest, Append(plan.outputs, x))
    BY <1>1, <2>2, ReadableMore DEF OperandsReadable
  <2>4. left = 1 => x = final_output_position(current)
    OBVIOUS
  <2>5. left > 1 => Len(stack') >= 1 /\ ~is_literal(stack'[1].token)
    BY <1>3
  <2>6. OperandsReadable(rest, plan.outputs) => OperandsReadable(stack', Append(plan.outputs, x))
    BY <2>1, <2>3
  <2> HIDE DEF x
  <2>7. QED
    BY <2>1, <2>2, <2>4, <2>5, <2>6, Zenon
<1>4. CASE left # 1
  <2> DEFINE x == get_first_open_position(open)
             o == [token |-> Column(x), position |-> x]
  <2>1. plan' = [p EXCEPT !.outputs = Append(@, x)] /\ stack' = <<o>> \o rest
    BY <1>4 DEF Output
  <2>2. x = NOT_USED \/ x \in AllFree
    BY <1>2, FirstOpenIsOpen DEF get_first_open_position
  <2> HIDE DEF x
  <2>3. x \in Int /\ Writable(x)
    <3>1. x \in Int
      <4>1. AllFree \subseteq Int /\ NOT_USED \in Int
        BY <1>2 DEF NOT_USED
      <4>2. QED
        BY <2>2, <4>1
    <3>2. Writable(x)
      BY <2>2 DEF Writable
    <3>3. QED
      BY <3>1, <3>2
  <2>4. Readable(x, Append(plan.outputs, x))
    BY <1>1, <2>2, <2>3, AppendElements DEF Readable
  <2>5. /\ Len(stack') >= 1 /\ stack'[1] = o
        /\ \A i \in DOMAIN stack' : i # 1 => i - 1 \in DOMAIN rest /\ stack'[i] = rest[i - 1]
    <3> HIDE DEF o
    <3>1. QED
      BY <2>1
  <2>6. ~is_literal(stack'[1].token) /\ stack'[1].position = x
    BY <2>5 DEF is_literal, Column
  <2> HIDE DEF o
  <2>7. OperandsReadable(rest, plan.outputs) => OperandsReadable(stack', Append(plan.outputs, x))
    BY <1>1, <2>3, <2>4, <2>5, <2>6, ReadableMore DEF OperandsReadable
  <2>8. QED
    BY <1>4, <2>1, <2>3, <2>5, <2>6, <2>7
<1>5. QED
  BY <1>3, <1>4

-----------------------------------------------------------------------------
(* The lengths of the vectors.                                             *)

(* Literals on the top of the stack are the tokens that were read last.    *)
LiteralsOnTop(st, e, n) ==
  /\ Len(st) >= 1 => n + 1 \in DOMAIN e /\ (is_literal(st[1].token) <=> is_literal(e[n + 1]))
  /\ Len(st) >= 2 /\ is_literal(st[1].token) =>
       n + 2 \in DOMAIN e /\ (is_literal(st[2].token) <=> is_literal(e[n + 2]))

(* All operators that have been read are known and read a column.          *)
ReadWell ==
  \A e \in 1 .. current : \A i \in DOMAIN exprs[e] :
    e < current \/ left < i => ReadsColumn(exprs[e], i)

(* An operator can leave out an input, and then leaves out what follows in *)
(* this order: no operator makes up for what another one left out.         *)
Shorter(p) ==
  /\ Len(p.operators) <= Len(p.outputs)
  /\ Len(p.left_inputs) <= Len(p.operators)
  /\ Len(p.right_inputs) <= Len(p.left_inputs)
  /\ Len(p.left_scalars) = Len(p.right_inputs) /\ Len(p.right_scalars) = Len(p.right_inputs)

LInv ==
  /\ plan \in Vectors /\ Shorter(plan)
  /\ phase = "plan" /\ left > 0 => LiteralsOnTop(stack, exprs[current], left)
  /\ (Len(plan.outputs) = Len(plan.right_inputs)) <=> ReadWell
  /\ phase \in {"types", "data", "valid", "done"} => OperatorsReadColumns

LEMMA SumsOrdered ==
  ASSUME NEW n \in Int, NEW m \in Int, NEW y \in Int, NEW z \in Int, n <= m, y <= z
  PROVE  n + y <= m + z
OBVIOUS

(* One operator more in the vectors: it is in a of the operators, b of the *)
(* left inputs and c of the others.                                        *)
Longer(p, a, b, c) ==
  /\ p \in Vectors /\ p.outputs = plan.outputs
  /\ Len(p.operators) = Len(plan.operators) + a
  /\ Len(p.left_inputs) = Len(plan.left_inputs) + b
  /\ Len(p.right_inputs) = Len(plan.right_inputs) + c
  /\ Len(p.left_scalars) = Len(plan.left_scalars) + c
  /\ Len(p.right_scalars) = Len(plan.right_scalars) + c

LEMMA ExtendedIsLonger ==
  ASSUME plan \in Vectors, NEW p, NEW l \in Int, NEW r \in Int, Extended(p, l, r)
  PROVE  Longer(p, 1, 1, 1)
<1>1. plan.left_inputs \in Seq(Int) /\ plan.right_inputs \in Seq(Int)
  BY DEF Vectors
<1>2. /\ Len(Append(plan.left_inputs, l)) = Len(plan.left_inputs) + 1
      /\ Len(Append(plan.right_inputs, r)) = Len(plan.right_inputs) + 1
  BY <1>1
<1>3. QED
  BY <1>2 DEF Extended, Longer

LEMMA BinaryLonger ==
  ASSUME plan \in Vectors, NEW t \in Token,
         NEW a \in [token : Scalar, position : Int], NEW b \in [token : Scalar, position : Int]
  PROVE  Longer(WithBinary(t, a, b), 1, 1, IF is_literal(a.token) /\ is_literal(b.token) THEN 0 ELSE 1)
<1>1. CASE is_literal(a.token) /\ is_literal(b.token)
  <2>1. WithBinary(t, a, b) =
          [left_inputs |-> Append(plan.left_inputs, SCALAR_INDEX), right_inputs |-> plan.right_inputs,
           outputs |-> plan.outputs, operators |-> Append(plan.operators, t),
           left_scalars |-> plan.left_scalars, right_scalars |-> plan.right_scalars]
    BY <1>1 DEF WithBinary, WithOperator, Vectors
  <2>2. /\ plan.left_inputs \in Seq(Int) /\ plan.right_inputs \in Seq(Int)
        /\ plan.outputs \in Seq(Int) /\ plan.operators \in Seq(Token)
        /\ plan.left_scalars \in Seq(Scalar) /\ plan.right_scalars \in Seq(Scalar)
    BY DEF Vectors
  <2>3. SCALAR_INDEX \in Int
    BY DEF SCALAR_INDEX
  <2>4. /\ Append(plan.left_inputs, SCALAR_INDEX) \in Seq(Int)
        /\ Append(plan.operators, t) \in Seq(Token)
        /\ Len(Append(plan.left_inputs, SCALAR_INDEX)) = Len(plan.left_inputs) + 1
        /\ Len(Append(plan.operators, t)) = Len(plan.operators) + 1
        /\ Len(plan.right_inputs) \in Nat
        /\ Len(plan.left_scalars) \in Nat /\ Len(plan.right_scalars) \in Nat
    BY <2>2, <2>3
  <2>5. QED
    BY <1>1, <2>1, <2>2, <2>4 DEF Longer, Vectors
<1>2. CASE ~(is_literal(a.token) /\ is_literal(b.token))
  <2>1. Extended(WithBinary(t, a, b), InputOf(a), InputOf(b))
    BY <1>2, BinaryExtends
  <2>2. InputOf(a) \in Int /\ InputOf(b) \in Int
    BY InputIsInteger
  <2>3. QED
    BY <1>2, <2>1, <2>2, ExtendedIsLonger
<1>3. QED
  BY <1>1, <1>2

LEMMA UnaryLonger ==
  ASSUME plan \in Vectors, NEW t \in Token, NEW a \in [token : Scalar, position : Int]
  PROVE  LET some == IF is_literal(a.token) THEN 0 ELSE 1
         IN  Longer(WithUnary(t, a), 1, some, some)
<1>1. CASE is_literal(a.token)
  <2>1. WithUnary(t, a) =
          [left_inputs |-> plan.left_inputs, right_inputs |-> plan.right_inputs,
           outputs |-> plan.outputs, operators |-> Append(plan.operators, t),
           left_scalars |-> plan.left_scalars, right_scalars |-> plan.right_scalars]
    BY <1>1 DEF WithUnary, WithOperator, Vectors
  <2>2. /\ plan.left_inputs \in Seq(Int) /\ plan.right_inputs \in Seq(Int)
        /\ plan.outputs \in Seq(Int) /\ plan.operators \in Seq(Token)
        /\ plan.left_scalars \in Seq(Scalar) /\ plan.right_scalars \in Seq(Scalar)
    BY DEF Vectors
  <2>3. /\ Append(plan.operators, t) \in Seq(Token)
        /\ Len(Append(plan.operators, t)) = Len(plan.operators) + 1
        /\ Len(plan.left_inputs) \in Nat /\ Len(plan.right_inputs) \in Nat
        /\ Len(plan.left_scalars) \in Nat /\ Len(plan.right_scalars) \in Nat
    BY <2>2
  <2>4. QED
    BY <1>1, <2>1, <2>2, <2>3 DEF Longer, Vectors
<1>2. CASE ~is_literal(a.token)
  <2>1. Extended(WithUnary(t, a), InputOf(a), NOT_USED)
    BY <1>2, UnaryExtends
  <2>2. InputOf(a) \in Int /\ NOT_USED \in Int
    BY InputIsInteger DEF NOT_USED
  <2>3. QED
    BY <1>2, <2>1, <2>2, ExtendedIsLonger
<1>3. QED
  BY <1>1, <1>2

LEMMA NothingLonger ==
  ASSUME plan \in Vectors
  PROVE  Longer(plan, 0, 0, 0)
<1>1. /\ Len(plan.left_inputs) \in Nat /\ Len(plan.right_inputs) \in Nat
      /\ Len(plan.outputs) \in Nat /\ Len(plan.operators) \in Nat
      /\ Len(plan.left_scalars) \in Nat /\ Len(plan.right_scalars) \in Nat
  BY DEF Vectors
<1>2. QED
  BY <1>1 DEF Longer

(* One token more is read.                                                 *)
LEMMA ReadWellNext ==
  ASSUME IInv, Reading
  PROVE  ReadWell' <=> ReadWell /\ ReadsColumn(exprs[current], left)
<1>1. exprs' = exprs /\ current' = current /\ left > 0 /\ left' = left - 1
  BY DEF Reading
<1>2. /\ current \in DOMAIN exprs /\ exprs \in Seq(Seq(Token))
      /\ DOMAIN exprs[current] = 1 .. Len(exprs[current])
      /\ Len(exprs[current]) \in Nat /\ left \in 0 .. Len(exprs[current])
  BY CurrentExpression DEF IInv
<1>3. current \in 1 .. current /\ left \in DOMAIN exprs[current] /\ left \in Nat
  BY <1>1, <1>2
<1>4. ASSUME NEW e \in 1 .. current, NEW i \in DOMAIN exprs[e]
      PROVE  e < current \/ left' < i <=> e < current \/ left < i \/ (e = current /\ i = left)
  <2>1. e \in Nat /\ current \in Nat /\ e <= current
    BY <1>2
  <2>2. CASE e = current
    BY <1>1, <1>2, <1>3, <2>2
  <2>3. CASE e # current
    BY <2>1, <2>3
  <2>4. QED
    BY <2>2, <2>3
<1>5. ReadWell' <=> \A e \in 1 .. current : \A i \in DOMAIN exprs[e] :
                      e < current \/ left' < i => ReadsColumn(exprs[e], i)
  BY <1>1 DEF ReadWell
<1>6. QED
  BY <1>3, <1>4, <1>5 DEF ReadWell

LEMMA LengthsGrow ==
  ASSUME IInv, LInv, Reading, NEW p, NEW a \in {0, 1}, NEW b \in {0, 1}, NEW c \in {0, 1},
         b <= a, c <= b, Longer(p, a, b, c), (c = 1) <=> ReadsColumn(exprs[current], left),
         ~is_literal(exprs[current][left]),
         NEW rest \in Seq(OperandSet), NEW open \in SUBSET AllFree, Output(p, rest, open)
  PROVE  LInv'
<1>1. PICK x \in Int :
           /\ plan' = [p EXCEPT !.outputs = Append(@, x)]
           /\ left > 1 => Len(stack') >= 1 /\ ~is_literal(stack'[1].token)
  BY OutputWrites DEF Longer, LInv
<1>2. /\ exprs' = exprs /\ current' = current /\ left > 0 /\ left' = left - 1 /\ phase' = "plan"
  BY DEF Reading
<1>3. /\ p \in Vectors /\ p.outputs = plan.outputs /\ plan \in Vectors
  BY DEF Longer, LInv
<1>4. /\ plan' \in Vectors
      /\ plan'.outputs = Append(plan.outputs, x) /\ plan'.operators = p.operators
      /\ plan'.left_inputs = p.left_inputs /\ plan'.right_inputs = p.right_inputs
      /\ plan'.left_scalars = p.left_scalars /\ plan'.right_scalars = p.right_scalars
  <2> DEFINE outs == Append(plan.outputs, x)
  <2>1. outs \in Seq(Int)
    BY <1>3 DEF Vectors
  <2>2. plan' = [p EXCEPT !.outputs = outs]
    BY <1>1, <1>3
  <2> HIDE DEF outs
  <2>3. QED
    BY <1>3, <2>1, <2>2 DEF Vectors, outs
<1>5. Len(plan'.outputs) = Len(plan.outputs) + 1
  BY <1>3, <1>4 DEF Vectors
<1>6. /\ Len(plan.left_inputs) \in Nat /\ Len(plan.right_inputs) \in Nat
      /\ Len(plan.outputs) \in Nat /\ Len(plan.operators) \in Nat
      /\ Len(plan.left_scalars) \in Nat /\ Len(plan.right_scalars) \in Nat
  BY <1>3 DEF Vectors
<1>7. Shorter(plan) /\ ((Len(plan.outputs) = Len(plan.right_inputs)) <=> ReadWell)
  BY DEF LInv
<1>8. Shorter(plan')
  <2>1. /\ Len(plan'.operators) = Len(plan.operators) + a
        /\ Len(plan'.left_inputs) = Len(plan.left_inputs) + b
        /\ Len(plan'.right_inputs) = Len(plan.right_inputs) + c
        /\ Len(plan'.left_scalars) = Len(plan.left_scalars) + c
        /\ Len(plan'.right_scalars) = Len(plan.right_scalars) + c
    BY <1>4 DEF Longer
  <2>2. /\ Len(plan.operators) <= Len(plan.outputs)
        /\ Len(plan.left_inputs) <= Len(plan.operators)
        /\ Len(plan.right_inputs) <= Len(plan.left_inputs)
        /\ Len(plan.left_scalars) = Len(plan.right_inputs)
        /\ Len(plan.right_scalars) = Len(plan.right_inputs)
    BY <1>7 DEF Shorter
  <2>3. a <= 1 /\ a \in Int /\ b \in Int /\ c \in Int
    OBVIOUS
  <2>4. /\ Len(plan.operators) + a <= Len(plan.outputs) + 1
        /\ Len(plan.left_inputs) + b <= Len(plan.operators) + a
        /\ Len(plan.right_inputs) + c <= Len(plan.left_inputs) + b
    <3>1. Len(plan.operators) + a <= Len(plan.outputs) + 1
      BY <1>6, <2>2, <2>3, SumsOrdered
    <3>2. Len(plan.left_inputs) + b <= Len(plan.operators) + a
      BY <1>6, <2>2, <2>3, SumsOrdered
    <3>3. Len(plan.right_inputs) + c <= Len(plan.left_inputs) + b
      BY <1>6, <2>2, <2>3, SumsOrdered
    <3>4. QED
      BY <3>1, <3>2, <3>3
  <2>5. QED
    BY <1>5, <2>1, <2>2, <2>4 DEF Shorter
<1>9. (Len(plan'.outputs) = Len(plan'.right_inputs)) <=> ReadWell'
  <2>1. Len(plan'.right_inputs) = Len(plan.right_inputs) + c
    BY <1>4 DEF Longer
  <2>2. Len(plan.right_inputs) <= Len(plan.outputs)
    BY <1>6, <1>7 DEF Shorter
  <2>3. (Len(plan'.outputs) = Len(plan'.right_inputs)) <=>
          Len(plan.outputs) = Len(plan.right_inputs) /\ c = 1
    BY <1>5, <1>6, <2>1, <2>2
  <2>4. QED
    BY <1>7, <2>3, ReadWellNext
<1>10. left' > 0 => LiteralsOnTop(stack', exprs[current], left')
  <2>1. left \in DOMAIN exprs[current] /\ left \in Nat /\ left' + 1 = left
    BY <1>2, CurrentExpression DEF IInv
  <2>2. QED
    BY <1>1, <1>2, <2>1 DEF LiteralsOnTop
<1>11. QED
  <2>1. LiteralsOnTop(stack', exprs[current], left') => LiteralsOnTop(stack, exprs[current], left)'
    BY <1>2 DEF LiteralsOnTop
  <2>2. (plan \in Vectors)' /\ Shorter(plan)'
    BY <1>4, <1>8 DEF Vectors, Shorter
  <2>3. QED
    BY <1>2, <1>9, <1>10, <2>1, <2>2 DEF LInv

LEMMA BinaryLengths == ASSUME IInv, LInv, ReadBinary PROVE LInv'
<1> DEFINE t == exprs[current][left]
           a == stack[1]
           b == stack[2]
           some == IF is_literal(a.token) /\ is_literal(b.token) THEN 0 ELSE 1
<1>1. /\ Reading /\ phase = "plan" /\ left > 0 /\ Len(stack) >= 2
      /\ is_binary_operator_token(t)
  BY DEF ReadBinary, Reading
<1>2. Place /\ stack \in Seq(OperandSet) /\ free \in SUBSET AllFree /\ Apart(stack, free)
  BY <1>1, ApartIsRegistersApart DEF IInv
<1>3. t \in Token
  BY <1>1, <1>2, CurrentToken
<1>4. 1 \in DOMAIN stack /\ 2 \in DOMAIN stack
  BY <1>1, <1>2
<1>5. a \in [token : Scalar, position : Int] /\ b \in [token : Scalar, position : Int]
  BY <1>2, <1>4, OperandIsRecord
<1>6. (some = 1) <=> ReadsColumn(exprs[current], left)
  <2>1. /\ is_literal(a.token) <=> is_literal(exprs[current][left + 1])
        /\ is_literal(a.token) => (is_literal(b.token) <=> is_literal(exprs[current][left + 2]))
    BY <1>1, <1>2, <1>4 DEF LInv, LiteralsOnTop
  <2>2. t.kind # "other" /\ ~is_unary_operator_token(t)
    BY <1>1 DEF is_binary_operator_token, is_unary_operator_token
  <2> HIDE DEF a, b
  <2>3. QED
    BY <1>1, <2>1, <2>2 DEF ReadsColumn
<1>7. Longer(WithBinary(t, a, b), 1, 1, some) /\ some \in {0, 1}
  <2> HIDE DEF t, a, b
  <2>1. QED
    BY <1>3, <1>5, BinaryLonger DEF LInv
<1> DEFINE rest == Tail(Tail(stack))
           open == free \cup Released({a, b})
<1>8. rest \in Seq(OperandSet) /\ open \in SUBSET AllFree
  BY <1>1, <1>2, PopTwo
<1>9. Output(WithBinary(t, a, b), rest, open)
  BY DEF ReadBinary
<1>10. ~is_literal(exprs[current][left])
  BY <1>1 DEF is_binary_operator_token, is_literal
<1> HIDE DEF a, b, rest, open, some
<1>11. some <= 1 /\ 1 <= 1 /\ 1 \in {0, 1}
  BY <1>7
<1>12. QED
  BY <1>1, <1>6, <1>7, <1>8, <1>9, <1>10, <1>11, LengthsGrow

LEMMA UnaryLengths == ASSUME IInv, LInv, ReadUnary PROVE LInv'
<1> DEFINE t == exprs[current][left]
           a == stack[1]
           some == IF is_literal(a.token) THEN 0 ELSE 1
<1>1. /\ Reading /\ phase = "plan" /\ left > 0 /\ Len(stack) >= 1
      /\ is_unary_operator_token(t)
  BY DEF ReadUnary, Reading
<1>2. Place /\ stack \in Seq(OperandSet) /\ free \in SUBSET AllFree /\ Apart(stack, free)
  BY <1>1, ApartIsRegistersApart DEF IInv
<1>3. t \in Token
  BY <1>1, <1>2, CurrentToken
<1>4. 1 \in DOMAIN stack
  BY <1>1, <1>2
<1>5. a \in [token : Scalar, position : Int]
  BY <1>2, <1>4, OperandIsRecord
<1>6. (some = 1) <=> ReadsColumn(exprs[current], left)
  <2>1. is_literal(a.token) <=> is_literal(exprs[current][left + 1])
    BY <1>1, <1>2, <1>4 DEF LInv, LiteralsOnTop
  <2>2. t.kind # "other" /\ ~is_binary_operator_token(t)
    BY <1>1 DEF is_binary_operator_token, is_unary_operator_token
  <2> HIDE DEF a
  <2>3. QED
    BY <1>1, <2>1, <2>2 DEF ReadsColumn
<1>7. Longer(WithUnary(t, a), 1, some, some) /\ some \in {0, 1}
  <2> HIDE DEF t, a
  <2>1. QED
    BY <1>3, <1>5, UnaryLonger DEF LInv
<1> DEFINE rest == Tail(stack)
           open == free \cup Released({a})
<1>8. rest \in Seq(OperandSet) /\ open \in SUBSET AllFree
  BY <1>1, <1>2, PopOne
<1>9. Output(WithUnary(t, a), rest, open)
  BY DEF ReadUnary
<1>10. ~is_literal(exprs[current][left])
  BY <1>1 DEF is_unary_operator_token, is_literal
<1> HIDE DEF a, rest, open, some
<1>11. some <= some /\ some <= 1 /\ 1 \in {0, 1}
  BY <1>7
<1>12. QED
  BY <1>1, <1>6, <1>7, <1>8, <1>9, <1>10, <1>11, LengthsGrow

LEMMA OtherLengths == ASSUME IInv, LInv, ReadOther PROVE LInv'
<1>1. /\ Reading /\ exprs[current][left].kind = "other" /\ Output(plan, stack, free)
  BY DEF ReadOther
<1>2. stack \in Seq(OperandSet) /\ free \in SUBSET AllFree /\ Longer(plan, 0, 0, 0)
  BY NothingLonger DEF IInv, LInv
<1>3. ~ReadsColumn(exprs[current], left) /\ ~is_literal(exprs[current][left])
  BY <1>1 DEF ReadsColumn, is_literal
<1>4. 0 <= 0 /\ 0 \in {0, 1} /\ ~(0 = 1)
  OBVIOUS
<1>5. QED
  BY <1>1, <1>2, <1>3, <1>4, LengthsGrow

LEMMA OperandLengths == ASSUME IInv, LInv, ReadOperand PROVE LInv'
<1> DEFINE t == exprs[current][left]
           o == OperandOf(t)
<1>1. /\ Reading /\ phase = "plan" /\ left > 0 /\ left' = left - 1 /\ phase' = "plan"
      /\ exprs' = exprs /\ current' = current /\ plan' = plan /\ stack' = <<o>> \o stack
      /\ is_literal(t) \/ t.kind = "column"
  BY DEF ReadOperand, Reading
<1>2. Place /\ stack \in Seq(OperandSet)
  BY DEF IInv
<1>3. is_literal(o.token) <=> is_literal(t)
  BY DEF OperandOf, is_literal, Column
<1>4. ReadsColumn(exprs[current], left)
  BY <1>1 DEF ReadsColumn, is_literal, is_unary_operator_token, is_binary_operator_token
<1> HIDE DEF o
<1>5. /\ stack'[1] = o /\ Len(stack') >= 1
      /\ Len(stack') >= 2 => Len(stack) >= 1 /\ stack'[2] = stack[1]
  BY <1>1, <1>2
<1>6. LiteralsOnTop(stack', exprs[current], left')
  <2>1. /\ left' + 1 = left /\ left' + 2 = left + 1
        /\ left \in DOMAIN exprs[current]
    BY <1>1, <1>2, CurrentExpression
  <2>2. is_literal(stack'[1].token) <=> is_literal(exprs[current][left])
    BY <1>3, <1>5
  <2>3. Len(stack) >= 1 =>
          left + 1 \in DOMAIN exprs[current] /\ (is_literal(stack[1].token) <=> is_literal(exprs[current][left + 1]))
    BY <1>1 DEF LInv, LiteralsOnTop
  <2>4. QED
    BY <1>5, <2>1, <2>2, <2>3 DEF LiteralsOnTop
<1>7. ReadWell' <=> ReadWell
  BY <1>1, <1>4, ReadWellNext
<1>8. QED
  <2>1. LiteralsOnTop(stack, exprs[current], left)'
    BY <1>1, <1>6 DEF LiteralsOnTop
  <2>2. (plan \in Vectors)' /\ Shorter(plan)'
    BY <1>1 DEF LInv, Vectors, Shorter
  <2>3. QED
    BY <1>1, <1>7, <2>1, <2>2 DEF LInv

LEMMA NextExpressionLengths == ASSUME IInv, LInv, NextExpression PROVE LInv'
<1>1. /\ phase' = "plan" /\ left = 0 /\ exprs' = exprs /\ plan' = plan
      /\ current < Len(exprs) /\ current' = current + 1 /\ left' = Len(exprs[current'])
      /\ stack' = <<>>
  BY DEF NextExpression
<1>2. current \in DOMAIN exprs /\ exprs \in Seq(Seq(Token))
  BY CurrentExpression DEF IInv
<1>3. current \in Nat /\ current' \in DOMAIN exprs /\ 1 .. current' = (1 .. current) \cup {current'}
  BY <1>1, <1>2
<1>4. ASSUME NEW e \in 1 .. current, NEW i \in DOMAIN exprs[e]
      PROVE  (e < current \/ left < i) /\ e < current'
  <2>1. e \in DOMAIN exprs /\ e < current + 1
    BY <1>2, <1>3
  <2>2. exprs[e] \in Seq(Token)
    BY <1>2, <2>1
  <2>3. i \in Nat /\ i > 0
    BY <2>2
  <2>4. QED
    BY <1>1, <2>1, <2>3
<1>5. ASSUME NEW i \in DOMAIN exprs[current'] PROVE ~(current' < current') /\ ~(left' < i)
  <2>1. exprs[current'] \in Seq(Token) /\ current' \in Nat
    BY <1>1, <1>2, <1>3
  <2>2. QED
    BY <1>1, <2>1
<1>6. ReadWell' <=> ReadWell
  <2>1. ReadWell' <=> \A e \in 1 .. current' : \A i \in DOMAIN exprs[e] :
                        e < current' \/ left' < i => ReadsColumn(exprs[e], i)
    BY <1>1 DEF ReadWell
  <2>2. QED
    BY <1>3, <1>4, <1>5, <2>1 DEF ReadWell
<1>7. QED
  <2>1. LiteralsOnTop(stack, exprs[current], left)'
    BY <1>1 DEF LiteralsOnTop
  <2>2. (plan \in Vectors)' /\ Shorter(plan)'
    BY <1>1 DEF LInv, Vectors, Shorter
  <2>3. QED
    BY <1>1, <1>6, <2>1, <2>2 DEF LInv

(* The vectors have the same length when every operator that was read did. *)
LEMMA SameLengthIs ==
  ASSUME LInv
  PROVE  SameLength <=> ReadWell
<1>1. DOMAIN plan = {"left_inputs", "right_inputs", "outputs", "operators", "left_scalars",
                     "right_scalars"}
  BY DEF LInv, Vectors
<1>2. /\ Len(plan.left_inputs) \in Nat /\ Len(plan.right_inputs) \in Nat
      /\ Len(plan.outputs) \in Nat /\ Len(plan.operators) \in Nat
      /\ Len(plan.left_scalars) \in Nat /\ Len(plan.right_scalars) \in Nat
  BY DEF LInv, Vectors
<1>3. SameLength => Len(plan.outputs) = Len(plan.right_inputs)
  BY <1>1 DEF SameLength
<1>4. ASSUME Len(plan.outputs) = Len(plan.right_inputs), NEW f \in DOMAIN plan
      PROVE  Len(plan[f]) = Len(plan.outputs)
  BY <1>1, <1>2, <1>4 DEF LInv, Shorter
<1>5. QED
  BY <1>3, <1>4 DEF LInv, SameLength

LEMMA AllRead ==
  ASSUME IInv, left = 0
  PROVE  ReadWell <=> \A e \in 1 .. current : \A i \in DOMAIN exprs[e] : ReadsColumn(exprs[e], i)
<1>1. current \in DOMAIN exprs /\ exprs \in Seq(Seq(Token))
  BY CurrentExpression DEF IInv
<1>2. ASSUME NEW e \in 1 .. current, NEW i \in DOMAIN exprs[e] PROVE left < i
  <2>1. exprs[e] \in Seq(Token)
    BY <1>1
  <2>2. QED
    BY <2>1
<1>3. QED
  BY <1>2 DEF ReadWell

(* The kernel changes nothing of the vectors.                              *)
LEMMA LengthsKept ==
  ASSUME LInv, exprs' = exprs, UNCHANGED planning,
         \/ phase' = phase
         \/ /\ phase' # "plan"
            /\ phase' \in {"types", "data", "valid", "done"} => OperatorsReadColumns
  PROVE  LInv'
<1>1. plan' = plan /\ stack' = stack /\ current' = current /\ left' = left
  BY DEF planning
<1>2. (plan \in Vectors)' /\ Shorter(plan)'
  BY <1>1 DEF LInv, Vectors, Shorter
<1>3. (ReadWell' <=> ReadWell) /\ (OperatorsReadColumns' <=> OperatorsReadColumns)
  BY <1>1 DEF ReadWell, OperatorsReadColumns
<1>4. LiteralsOnTop(stack, exprs[current], left)' <=> LiteralsOnTop(stack, exprs[current], left)
  BY <1>1 DEF LiteralsOnTop
<1>5. QED
  BY <1>1, <1>2, <1>3, <1>4 DEF LInv

LEMMA InitLInv == Init => LInv
<1>1. SUFFICES ASSUME Init PROVE LInv
  OBVIOUS
<1>2. /\ exprs \in Evaluations /\ current = 1 /\ left = Len(exprs[1]) /\ stack = <<>>
      /\ plan = EmptyPlan /\ phase = "plan"
  BY <1>1 DEF Init, Evaluations
<1>3. exprs \in Seq(Seq(Token)) /\ exprs # <<>>
  BY <1>2, EvaluationsAssumption
<1>4. exprs[1] \in Seq(Token)
  BY <1>3
<1>5. ReadWell
  BY <1>2, <1>4 DEF ReadWell
<1>6. plan \in Vectors /\ Shorter(plan) /\ Len(plan.outputs) = Len(plan.right_inputs)
  BY <1>2 DEF EmptyPlan, Vectors, Shorter
<1>7. LiteralsOnTop(stack, exprs[current], left)
  BY <1>2 DEF LiteralsOnTop
<1>8. QED
  BY <1>2, <1>5, <1>6, <1>7 DEF LInv

LEMMA NextLInv == IInv /\ LInv /\ [Next]_vars => LInv'
<1>1. SUFFICES ASSUME IInv, LInv, [Next]_vars PROVE LInv'
  OBVIOUS
<1>2. CASE ReadBinary
  BY <1>1, <1>2, BinaryLengths
<1>3. CASE ReadUnary
  BY <1>1, <1>3, UnaryLengths
<1>4. CASE ReadOther
  BY <1>1, <1>4, OtherLengths
<1>5. CASE ReadOperand
  BY <1>1, <1>5, OperandLengths
<1>6. CASE NextExpression
  BY <1>1, <1>6, NextExpressionLengths
<1>7. CASE perform_operation
  <2>1. /\ exprs' = exprs /\ UNCHANGED planning /\ left = 0 /\ current = Len(exprs)
        /\ phase' \in {"types", "failed", "undefined"} /\ (phase' = "types" => SameLength)
    BY <1>7 DEF perform_operation
  <2>2. DOMAIN exprs = 1 .. current
    BY <1>1, <2>1, CurrentExpression DEF IInv
  <2>3. SameLength => OperatorsReadColumns
    BY <1>1, <2>1, <2>2, SameLengthIs, AllRead DEF OperatorsReadColumns
  <2>4. QED
    BY <1>1, <2>1, <2>3, LengthsKept
<1>8. CASE \/ InterpreterFunctor \/ read_data \/ process_operator \/ process_operator_outside
           \/ write_data \/ process_valids \/ write_valid_data
  <2>1. /\ exprs' = exprs /\ UNCHANGED planning /\ phase' # "plan"
        /\ phase \in {"types", "data", "valid", "done"}
    BY <1>8 DEF InterpreterFunctor, read_data, process_operator, process_operator_outside,
                write_data, process_valids, write_valid_data
  <2>2. OperatorsReadColumns
    BY <1>1, <2>1 DEF LInv
  <2>3. QED
    BY <1>1, <2>1, <2>2, LengthsKept
<1>9. CASE UNCHANGED vars
  <2>1. exprs' = exprs /\ UNCHANGED planning /\ phase' = phase
    BY <1>9 DEF vars
  <2>2. QED
    BY <1>1, <2>1, LengthsKept
<1>10. QED
  BY <1>1, <1>2, <1>3, <1>4, <1>5, <1>6, <1>7, <1>8, <1>9 DEF Next

(* For any evaluations and any number of registers: once an expression is  *)
(* planned, the vectors of add_expression_to_plan are equally long if and  *)
(* only if every operator was known and read something that is no literal. *)
THEOREM VectorsFit == Spec => []VectorsAligned
<1>1. IInv /\ LInv => VectorsAligned
  BY SameLengthIs, AllRead DEF VectorsAligned
<1>2. QED
  BY <1>1, InitIInv, NextIInv, InitLInv, NextLInv, PTL DEF Spec

-----------------------------------------------------------------------------
(* PInv is kept by the steps of the planner.                               *)

(* A step that reads an operator keeps PInv.                               *)
LEMMA OperatorKept ==
  ASSUME IInv, PInv, Reading,
         NEW p, NEW l \in Int, NEW r \in Int, Extended(p, l, r),
         Readable(l, plan.outputs), Readable(r, plan.outputs),
         NEW rest \in Seq(OperandSet), NEW open \in SUBSET AllFree,
         Output(p, rest, open), OperandsReadable(rest, plan.outputs)
  PROVE  PInv'
<1>1. PICK x \in Int :
           /\ plan' = [p EXCEPT !.outputs = Append(@, x)]
           /\ Writable(x)
           /\ left = 1 => x = final_output_position(current)
           /\ OperandsReadable(stack', Append(plan.outputs, x))
  BY OutputWrites DEF Extended, PInv
<1> DEFINE outs == Append(plan.outputs, x)
<1>2. /\ exprs' = exprs /\ current' = current /\ left > 0 /\ left' = left - 1
      /\ phase = "plan" /\ phase' = "plan"
  BY DEF Reading
<1>3. /\ plan.left_inputs \in Seq(Int) /\ plan.right_inputs \in Seq(Int)
      /\ plan.outputs \in Seq(Int)
  BY DEF PInv, Vectors
<1>4. /\ plan' \in Vectors /\ plan'.outputs = outs
      /\ plan'.left_inputs = Append(plan.left_inputs, l)
      /\ plan'.right_inputs = Append(plan.right_inputs, r)
      /\ Len(plan'.operators) = Len(plan.operators) + 1
      /\ Len(plan'.left_scalars) = Len(plan.left_scalars) + 1
      /\ Len(plan'.right_scalars) = Len(plan.right_scalars) + 1
  <2>1. outs \in Seq(Int)
    BY <1>3
  <2> HIDE DEF outs
  <2>2. plan' = [p EXCEPT !.outputs = outs]
    BY <1>1 DEF Extended, outs
  <2>3. QED
    BY <2>1, <2>2 DEF Extended, Vectors
<1>5. Aligned(plan')
  <2>1. /\ Len(Append(plan.left_inputs, l)) = Len(plan.left_inputs) + 1
        /\ Len(Append(plan.right_inputs, r)) = Len(plan.right_inputs) + 1
        /\ Len(outs) = Len(plan.outputs) + 1
    BY <1>3
  <2>2. QED
    BY <1>4, <2>1 DEF Aligned, PInv
<1>6. \A s : Readable(s, plan.outputs) => Readable(s, outs)
  BY <1>3, ReadableMore
<1>7. Elements(outs) = Elements(plan.outputs) \cup {x}
  BY <1>3, AppendElements
<1>8. /\ Elements(plan'.left_inputs) = Elements(plan.left_inputs) \cup {l}
      /\ Elements(plan'.right_inputs) = Elements(plan.right_inputs) \cup {r}
  <2>1. /\ Elements(Append(plan.left_inputs, l)) = Elements(plan.left_inputs) \cup {l}
        /\ Elements(Append(plan.right_inputs, r)) = Elements(plan.right_inputs) \cup {r}
    BY <1>3, AppendElements
  <2>2. QED
    BY <1>4, <2>1
<1> HIDE DEF outs
<1>9. Reads(plan')
  BY <1>4, <1>6, <1>8 DEF Reads, PInv
<1>10. Writes(plan')
  BY <1>1, <1>4, <1>7 DEF Writes, PInv
<1>11. OperandsReadable(stack', plan'.outputs)
  BY <1>1, <1>4 DEF outs
<1>13. Finished(plan'.outputs, current, left')
  <2>1. left \in Nat /\ current \in Nat
    <3>1. exprs \in Seq(Seq(Token))
      BY EvaluationsAssumption DEF IInv, Place
    <3>2. QED
      BY <3>1 DEF IInv, Place
  <2>2. ASSUME NEW e \in 1 .. current, e < current \/ left' = 0
        PROVE  final_output_position(e) \in Elements(outs)
    <3>1. CASE e < current
      BY <1>7, <3>1 DEF PInv, Finished
    <3>2. CASE ~(e < current)
      <4>1. e = current /\ left = 1
        BY <1>2, <2>1, <2>2, <3>2
      <4>2. QED
        BY <1>1, <1>7, <4>1
    <3>3. QED
      BY <3>1, <3>2
  <2>3. QED
    BY <1>4, <2>2 DEF Finished
<1>14. QED
  <2>1. /\ \A a, s : Readable(a, s)' <=> Readable(a, s)
        /\ NumInputs' = NumInputs /\ NumOutputs' = NumOutputs /\ AllFree' = AllFree
    BY <1>2, LayoutStays
  <2>2. Reads(plan)' /\ Writes(plan)' /\ OperandsReadable(stack, plan.outputs)'
    BY <1>9, <1>10, <1>11, <2>1 DEF Reads, Writes, Writable, OperandsReadable, Readable
  <2>3. Aligned(plan)' /\ (plan \in Vectors)' 
    BY <1>4, <1>5 DEF Aligned, Vectors
  <2>5. Finished(plan'.outputs, current, left') => Finished(plan.outputs, current, left)'
    BY <1>2, <2>1 DEF Finished, final_output_position
  <2>6. QED
    BY <1>2, <1>13, <2>2, <2>3, <2>5 DEF PInv

LEMMA InputReadable ==
  ASSUME NEW st, NEW i \in DOMAIN st, NEW outs, OperandsReadable(st, outs)
  PROVE  Readable(InputOf(st[i]), outs)
BY DEF InputOf, OperandsReadable, Readable

(* The operands of an operator are not all literals.                       *)
LEMMA TwoLiterals ==
  ASSUME OperatorsReadColumns, Place, LInv, phase = "plan", left > 0,
         stack \in Seq(OperandSet), Len(stack) >= 2,
         is_binary_operator_token(exprs[current][left])
  PROVE  ~(is_literal(stack[1].token) /\ is_literal(stack[2].token))
<1>1. left \in DOMAIN exprs[current] /\ current \in DOMAIN exprs
  BY CurrentExpression
<1>2. ReadsColumn(exprs[current], left)
  BY <1>1 DEF OperatorsReadColumns
<1>3. Len(stack) >= 1
  OBVIOUS
<1>4. LiteralsOnTop(stack, exprs[current], left)
  BY DEF LInv
<1>5. QED
  BY <1>2, <1>3, <1>4 DEF ReadsColumn, LiteralsOnTop

LEMMA OneLiteral ==
  ASSUME OperatorsReadColumns, Place, LInv, phase = "plan", left > 0, Len(stack) >= 1,
         is_unary_operator_token(exprs[current][left])
  PROVE  ~is_literal(stack[1].token)
<1>1. left \in DOMAIN exprs[current] /\ current \in DOMAIN exprs
  BY CurrentExpression
<1>2. ReadsColumn(exprs[current], left)
  BY <1>1 DEF OperatorsReadColumns
<1>3. LiteralsOnTop(stack, exprs[current], left)
  BY DEF LInv
<1>4. QED
  BY <1>2, <1>3 DEF ReadsColumn, LiteralsOnTop

LEMMA BinaryKept ==
  ASSUME OperatorsReadColumns, IInv, LInv, PInv, ReadBinary
  PROVE  PInv'
<1> DEFINE t == exprs[current][left]
           a == stack[1]
           b == stack[2]
<1>1. /\ Reading /\ phase = "plan" /\ left > 0 /\ Len(stack) >= 2
      /\ is_binary_operator_token(t)
  BY DEF ReadBinary, Reading
<1>2. Place /\ stack \in Seq(OperandSet) /\ free \in SUBSET AllFree /\ Apart(stack, free)
  BY <1>1, ApartIsRegistersApart DEF IInv
<1>3. t \in Token
  BY <1>1, <1>2, CurrentToken
<1>4. 1 \in DOMAIN stack /\ 2 \in DOMAIN stack
  BY <1>1, <1>2
<1>5. a \in [token : Scalar, position : Int] /\ b \in [token : Scalar, position : Int]
  BY <1>2, <1>4, OperandIsRecord
<1>6. ~(is_literal(a.token) /\ is_literal(b.token))
  BY <1>1, <1>2, <1>4, TwoLiterals
<1>7. plan \in Vectors /\ OperandsReadable(stack, plan.outputs)
  BY DEF PInv
<1>8. Extended(WithBinary(t, a, b), InputOf(a), InputOf(b))
  <2> HIDE DEF t, a, b
  <2>1. QED
    BY <1>3, <1>5, <1>6, <1>7, BinaryExtends
<1>9. Readable(InputOf(a), plan.outputs) /\ Readable(InputOf(b), plan.outputs)
  BY <1>4, <1>7, InputReadable
<1>10. InputOf(a) \in Int /\ InputOf(b) \in Int
  BY <1>5, InputIsInteger
<1> DEFINE rest == Tail(Tail(stack))
           open == free \cup Released({a, b})
<1>11. rest \in Seq(OperandSet) /\ open \in SUBSET AllFree
  BY <1>1, <1>2, PopTwo
<1>12. OperandsReadable(rest, plan.outputs)
  <2>1. \A i \in DOMAIN rest : i + 2 \in DOMAIN stack /\ rest[i] = stack[i + 2]
    BY <1>1, <1>2
  <2> HIDE DEF rest
  <2>2. QED
    BY <1>7, <2>1 DEF OperandsReadable
<1>13. Output(WithBinary(t, a, b), rest, open)
  BY DEF ReadBinary
<1> HIDE DEF t, a, b, rest, open
<1>14. QED
  BY <1>1, <1>8, <1>9, <1>10, <1>11, <1>12, <1>13, OperatorKept

LEMMA UnaryKept ==
  ASSUME OperatorsReadColumns, IInv, LInv, PInv, ReadUnary
  PROVE  PInv'
<1> DEFINE t == exprs[current][left]
           a == stack[1]
<1>1. /\ Reading /\ phase = "plan" /\ left > 0 /\ Len(stack) >= 1
      /\ is_unary_operator_token(t)
  BY DEF ReadUnary, Reading
<1>2. Place /\ stack \in Seq(OperandSet) /\ free \in SUBSET AllFree /\ Apart(stack, free)
  BY <1>1, ApartIsRegistersApart DEF IInv
<1>3. t \in Token
  BY <1>1, <1>2, CurrentToken
<1>4. 1 \in DOMAIN stack
  BY <1>1, <1>2
<1>5. a \in [token : Scalar, position : Int]
  BY <1>2, <1>4, OperandIsRecord
<1>6. ~is_literal(a.token)
  BY <1>1, <1>2, <1>4, OneLiteral
<1>7. plan \in Vectors /\ OperandsReadable(stack, plan.outputs)
  BY DEF PInv
<1>8. Extended(WithUnary(t, a), InputOf(a), NOT_USED)
  <2> HIDE DEF t, a
  <2>1. QED
    BY <1>3, <1>5, <1>6, <1>7, UnaryExtends
<1>9. Readable(InputOf(a), plan.outputs) /\ Readable(NOT_USED, plan.outputs)
  <2>1. Readable(NOT_USED, plan.outputs)
    BY DEF Readable
  <2>2. QED
    BY <1>4, <1>7, <2>1, InputReadable
<1>10. InputOf(a) \in Int /\ NOT_USED \in Int
  BY <1>5, InputIsInteger DEF NOT_USED
<1> DEFINE rest == Tail(stack)
           open == free \cup Released({a})
<1>11. rest \in Seq(OperandSet) /\ open \in SUBSET AllFree
  BY <1>1, <1>2, PopOne
<1>12. OperandsReadable(rest, plan.outputs)
  <2>1. \A i \in DOMAIN rest : i + 1 \in DOMAIN stack /\ rest[i] = stack[i + 1]
    BY <1>1, <1>2
  <2> HIDE DEF rest
  <2>2. QED
    BY <1>7, <2>1 DEF OperandsReadable
<1>13. Output(WithUnary(t, a), rest, open)
  BY DEF ReadUnary
<1> HIDE DEF t, a, rest, open
<1>14. QED
  BY <1>1, <1>8, <1>9, <1>10, <1>11, <1>12, <1>13, OperatorKept

LEMMA OperandKept ==
  ASSUME IInv, PInv, ReadOperand
  PROVE  PInv'
<1> DEFINE t == exprs[current][left]
           o == OperandOf(t)
<1>1. /\ Reading /\ phase = "plan" /\ left > 0 /\ left' = left - 1 /\ phase' = "plan"
      /\ exprs' = exprs /\ current' = current /\ plan' = plan /\ stack' = <<o>> \o stack
      /\ is_literal(t) \/ t.kind = "column"
  BY DEF ReadOperand, Reading
<1>2. Place /\ stack \in Seq(OperandSet)
  BY DEF IInv
<1>3. left # 1
  <2>1. ~is_operator_token(t)
    BY <1>1 DEF is_operator_token
  <2>2. QED
    BY <1>2, <2>1, CurrentExpression, EvaluationsAssumption
<1>4. t.kind = "column" => t.id \in Used
  BY <1>1, <1>2, CurrentToken
<1>5. Readable(o.position, plan.outputs)
  <2>1. CASE is_literal(t)
    BY <2>1 DEF OperandOf, Readable
  <2>2. CASE ~is_literal(t)
    <3>1. o.position = new_input_indices[t.id] /\ t.id \in Used
      BY <1>1, <1>4, <2>2 DEF OperandOf
    <3>2. new_input_indices[t.id] \in 0 .. NumInputs - 1
      BY <3>1, InputsAreBelow
    <3>3. QED
      BY <3>1, <3>2 DEF Readable
  <2>3. QED
    BY <2>1, <2>2
<1> HIDE DEF o
<1>7. /\ stack'[1] = o /\ Len(stack') >= 1
      /\ \A i \in DOMAIN stack' : i # 1 => i - 1 \in DOMAIN stack /\ stack'[i] = stack[i - 1]
      /\ Len(stack') >= 2 => Len(stack) >= 1 /\ stack'[2] = stack[1]
  BY <1>1, <1>2
<1>8. OperandsReadable(stack', plan.outputs)
  BY <1>5, <1>7 DEF OperandsReadable, PInv
<1>10. Finished(plan.outputs, current, left')
  BY <1>1, <1>2, <1>3, CurrentExpression DEF PInv, Finished
<1>11. QED
  <2>1. /\ \A a, s : Readable(a, s)' <=> Readable(a, s)
        /\ NumInputs' = NumInputs /\ NumOutputs' = NumOutputs /\ AllFree' = AllFree
    BY <1>1, LayoutStays
  <2>2. Reads(plan)' /\ Writes(plan)'
    BY <1>1, <2>1 DEF PInv, Reads, Writes, Writable, Readable
  <2>3. Aligned(plan)' /\ (plan \in Vectors)'
    BY <1>1 DEF PInv, Aligned, Vectors
  <2>5. Finished(plan.outputs, current, left)'
    BY <1>1, <1>10, <2>1 DEF Finished, final_output_position
  <2>6. OperandsReadable(stack, plan.outputs)'
    BY <1>1, <1>8, <2>1 DEF OperandsReadable, Readable
  <2>7. QED
    BY <1>1, <2>2, <2>3, <2>5, <2>6 DEF PInv

LEMMA NextExpressionKept ==
  ASSUME IInv, PInv, NextExpression
  PROVE  PInv'
<1>1. /\ phase = "plan" /\ left = 0 /\ phase' = "plan" /\ exprs' = exprs /\ plan' = plan
      /\ current < Len(exprs) /\ current' = current + 1 /\ left' = Len(exprs[current'])
      /\ stack' = <<>>
  BY DEF NextExpression
<1>2. exprs \in Evaluations /\ current \in DOMAIN exprs /\ exprs \in Seq(Seq(Token))
  BY CurrentExpression DEF IInv
<1>3. current \in Nat /\ current' \in DOMAIN exprs /\ exprs[current'] \in Seq(Token)
  BY <1>1, <1>2
<1>4. left' # 0
  BY <1>1, <1>2, <1>3, EvaluationsAssumption
<1>5. Finished(plan.outputs, current', left')
  <2>1. ASSUME NEW e \in 1 .. current + 1, e < current + 1
        PROVE  final_output_position(e) \in Elements(plan.outputs)
    BY <1>1, <1>3, <2>1 DEF PInv, Finished
  <2>2. QED
    BY <1>1, <1>4, <2>1 DEF Finished
<1>6. QED
  <2>1. /\ \A a, s : Readable(a, s)' <=> Readable(a, s)
        /\ NumInputs' = NumInputs /\ NumOutputs' = NumOutputs /\ AllFree' = AllFree
    BY <1>1, LayoutStays
  <2>2. Reads(plan)' /\ Writes(plan)'
    BY <1>1, <2>1 DEF PInv, Reads, Writes, Writable, Readable
  <2>3. Aligned(plan)' /\ (plan \in Vectors)'
    BY <1>1 DEF PInv, Aligned, Vectors
  <2>4. OperandsReadable(stack, plan.outputs)'
    BY <1>1 DEF OperandsReadable
  <2>5. Finished(plan.outputs, current, left)'
    BY <1>1, <1>5, <2>1 DEF Finished, final_output_position
  <2>6. QED
    BY <1>1, <2>2, <2>3, <2>4, <2>5 DEF PInv

(* The kernel changes nothing of the plan.                                 *)
LEMMA PlannedKept ==
  ASSUME PInv, exprs' = exprs, UNCHANGED planning,
         \/ phase' = phase
         \/ phase' # "plan" /\ (phase # "plan" \/ (left = 0 /\ current = NumOutputs))
  PROVE  PInv'
<1>1. /\ plan' = plan /\ stack' = stack /\ current' = current /\ left' = left
  BY DEF planning
<1>2. /\ \A a, s : Readable(a, s)' <=> Readable(a, s)
      /\ NumInputs' = NumInputs /\ NumOutputs' = NumOutputs /\ AllFree' = AllFree
  BY LayoutStays
<1>3. Reads(plan)' /\ Writes(plan)' /\ OperandsReadable(stack, plan.outputs)'
  BY <1>1, <1>2 DEF PInv, Reads, Writes, Writable, Readable, OperandsReadable
<1>4. Aligned(plan)' /\ (plan \in Vectors)'
  BY <1>1 DEF PInv, Aligned, Vectors
<1>5. Finished(plan.outputs, current, left)'
  BY <1>1, <1>2 DEF PInv, Finished, final_output_position
<1>6. QED
  BY <1>1, <1>2, <1>3, <1>4, <1>5 DEF PInv

LEMMA InitPInv == Init => PInv
<1>1. SUFFICES ASSUME Init PROVE PInv
  OBVIOUS
<1>2. /\ exprs \in Evaluations /\ current = 1 /\ left = Len(exprs[1]) /\ stack = <<>>
      /\ plan = EmptyPlan /\ phase = "plan"
  BY <1>1 DEF Init, Evaluations
<1>3. exprs \in Seq(Seq(Token)) /\ exprs # <<>>
  BY <1>2, EvaluationsAssumption
<1>4. 1 \in DOMAIN exprs /\ exprs[1] \in Seq(Token) /\ exprs[1] # <<>>
  BY <1>2, <1>3, EvaluationsAssumption
<1>5. left # 0
  BY <1>2, <1>4
<1>6. plan \in Vectors /\ Aligned(plan)
  BY <1>2 DEF EmptyPlan, Vectors, Aligned
<1>7. Reads(plan) /\ Writes(plan) /\ OperandsReadable(stack, plan.outputs)
  BY <1>2 DEF EmptyPlan, Reads, Writes, OperandsReadable, Elements
<1>9. Finished(plan.outputs, current, left)
  BY <1>2, <1>5 DEF Finished
<1>10. QED
  BY <1>2, <1>6, <1>7, <1>9 DEF PInv

LEMMA NextPInv == OperatorsReadColumns /\ IInv /\ LInv /\ PInv /\ [Next]_vars => PInv'
<1>1. SUFFICES ASSUME OperatorsReadColumns, IInv, LInv, PInv, [Next]_vars
               PROVE  PInv'
  OBVIOUS
<1>2. CASE ReadBinary
  BY <1>1, <1>2, BinaryKept
<1>3. CASE ReadUnary
  BY <1>1, <1>3, UnaryKept
<1>4. CASE ReadOther
  <2>1. left \in DOMAIN exprs[current] /\ current \in DOMAIN exprs
    BY <1>1, <1>4, CurrentExpression DEF IInv, ReadOther, Reading
  <2>2. QED
    BY <1>1, <1>4, <2>1 DEF OperatorsReadColumns, ReadsColumn, ReadOther
<1>5. CASE ReadOperand
  BY <1>1, <1>5, OperandKept
<1>6. CASE NextExpression
  BY <1>1, <1>6, NextExpressionKept
<1>7. CASE perform_operation
  <2>1. exprs' = exprs /\ UNCHANGED planning /\ phase' # "plan" /\ left = 0 /\ current = NumOutputs
    BY <1>7 DEF perform_operation, NumOutputs
  <2>2. QED
    BY <1>1, <2>1, PlannedKept
<1>8. CASE \/ InterpreterFunctor \/ read_data \/ process_operator \/ process_operator_outside
           \/ write_data \/ process_valids \/ write_valid_data
  <2>1. exprs' = exprs /\ UNCHANGED planning /\ phase' # "plan" /\ phase # "plan"
    BY <1>8 DEF InterpreterFunctor, read_data, process_operator, process_operator_outside,
                write_data, process_valids, write_valid_data
  <2>2. phase' # "plan" /\ (phase # "plan" \/ (left = 0 /\ current = NumOutputs))
    BY <2>1
  <2>3. QED
    BY <1>1, <2>1, <2>2, PlannedKept
<1>9. CASE UNCHANGED vars
  <2>1. exprs' = exprs /\ UNCHANGED planning /\ phase' = phase
    BY <1>9 DEF vars
  <2>2. QED
    BY <1>1, <2>1, PlannedKept
<1>10. QED
  BY <1>1, <1>2, <1>3, <1>4, <1>5, <1>6, <1>7, <1>8, <1>9 DEF Next

(* The expressions do not change.                                          *)
LEMMA ExpressionsStay == [Next]_vars => exprs' = exprs
<1>1. ReadBinary \/ ReadUnary \/ ReadOther \/ ReadOperand => exprs' = exprs
  BY DEF ReadBinary, ReadUnary, ReadOther, ReadOperand, Reading
<1>2. NextExpression \/ perform_operation \/ InterpreterFunctor \/ read_data => exprs' = exprs
  BY DEF NextExpression, perform_operation, InterpreterFunctor, read_data
<1>3. process_operator \/ process_operator_outside => exprs' = exprs
  BY DEF process_operator, process_operator_outside
<1>4. write_data \/ process_valids \/ write_valid_data => exprs' = exprs
  BY DEF write_data, process_valids, write_valid_data
<1>5. UNCHANGED vars => exprs' = exprs
  BY DEF vars
<1>6. QED
  BY <1>1, <1>2, <1>3, <1>4, <1>5 DEF Next

LEMMA OperatorsStay == [Next]_vars => (OperatorsReadColumns' <=> OperatorsReadColumns)
BY ExpressionsStay DEF OperatorsReadColumns

(* The plan of the kernel.                                                 *)
PlanInv == OperatorsReadColumns => PInv

LEMMA InitPlanInv == Init => PlanInv
BY InitPInv DEF PlanInv

LEMMA NextPlanInv == IInv /\ LInv /\ PlanInv /\ [Next]_vars => PlanInv'
BY NextPInv, OperatorsStay DEF PlanInv

LEMMA KernelHasPlan ==
  ASSUME LInv, PlanInv, phase \in {"types", "data", "valid", "done"}
  PROVE  OperatorsReadColumns /\ PInv
BY DEF LInv, PlanInv

(* The largest of a bounded set of integers.                               *)
LEMMA Largest ==
  ASSUME NEW S \in SUBSET Int, S # {}, NEW b \in Int, \A p \in S : p <= b
  PROVE  \E p \in S : \A q \in S : q <= p
<1> DEFINE Below == {n \in Nat : b - n \in S}
<1>1. Below \in SUBSET Nat /\ Below # {}
  <2>1. PICK p \in S : p <= b
    OBVIOUS
  <2>2. p \in Int /\ b - p \in Nat /\ b - (b - p) = p
    BY <2>1
  <2>3. b - p \in Below
    BY <2>2
  <2>4. QED
    BY <2>3
<1>2. PICK n \in Below : \A m \in Below : n <= m
  <2> HIDE DEF Below
  <2>1. QED
    BY <1>1, Smallest
<1>3. ASSUME NEW q \in S PROVE q <= b - n
  <2>1. q \in Int /\ b - q \in Nat /\ b - (b - q) = q
    BY <1>3
  <2>2. b - q \in Below
    BY <2>1
  <2>3. n <= b - q /\ n \in Nat
    BY <1>2, <2>2
  <2>4. QED
    BY <2>1, <2>3
<1>4. b - n \in S
  BY <1>2
<1>5. QED
  BY <1>3, <1>4

(* The last register of the kernel is that of the last field: all others   *)
(* that it reads or writes come before it, or are written by an operation. *)
LEMMA LastRegister ==
  ASSUME IInv, PInv, phase # "plan"
  PROVE  /\ max_output \in Int
         /\ \A q \in Elements(plan.outputs) : q <= max_output
         /\ NumInputs + NumOutputs - 1 <= max_output
<1> DEFINE S == Elements(plan.outputs)
<1>1. /\ NumInputs \in Nat /\ NumOutputs \in Nat /\ AllFree \in SUBSET Nat
      /\ current \in 1 .. NumOutputs /\ current = NumOutputs /\ left = 0
  BY CountsAreNatural, CurrentExpression DEF IInv, PInv, NumOutputs
<1>2. plan.outputs \in Seq(Int)
  BY DEF PInv, Vectors
<1>3. S \in SUBSET Int
  BY <1>2 DEF Elements
<1>4. NumInputs + NumOutputs - 1 \in S
  <2>1. final_output_position(NumOutputs) \in S
    BY <1>1 DEF PInv, Finished
  <2>2. QED
    BY <2>1 DEF final_output_position
<1>5. ASSUME NEW p \in S PROVE p <= NumInputs + NumOutputs + Spaces
  <2>1. p \in Int
    BY <1>3
  <2>2. Writable(p)
    BY DEF PInv, Writes
  <2>3. QED
    BY <1>1, <2>1, <2>2, SpacesAssumption DEF Writable, NOT_USED, AllFree
<1>6. NumInputs + NumOutputs + Spaces \in Int
  BY <1>1, SpacesAssumption
<1> HIDE DEF S
<1>7. \E p \in S : \A q \in S : q <= p
  BY <1>3, <1>4, <1>5, <1>6, Largest
<1>8. max_output = CHOOSE p \in S : \A q \in S : q <= p
  BY DEF max_output, S
<1>9. max_output \in S /\ \A q \in S : q <= max_output
  BY <1>7, <1>8
<1>10. QED
  BY <1>3, <1>4, <1>9 DEF S

(* The registers of the plan.                                              *)
PlanRegisters ==
  Elements(plan.left_inputs) \cup Elements(plan.right_inputs) \cup Elements(plan.outputs)
    \cup {NumInputs - 1} \cup {final_output_position(e) : e \in 1 .. NumOutputs}

LEMMA RegistersBelow ==
  ASSUME IInv, PInv, phase # "plan", NEW p \in PlanRegisters
  PROVE  p <= max_output
<1>1. p \in Elements(plan.left_inputs) \cup Elements(plan.right_inputs) \cup Elements(plan.outputs)
            \cup {NumInputs - 1} \cup {final_output_position(e) : e \in 1 .. NumOutputs}
  BY DEF PlanRegisters
<1>2. /\ max_output \in Int /\ \A q \in Elements(plan.outputs) : q <= max_output
      /\ NumInputs + NumOutputs - 1 <= max_output
  BY LastRegister
<1>3. NumInputs \in Nat /\ NumOutputs \in Nat /\ NumOutputs >= 1
  BY CountsAreNatural, CurrentExpression DEF IInv, NumOutputs
<1>4. ASSUME Readable(p, plan.outputs) PROVE p <= max_output
  BY <1>2, <1>3, <1>4 DEF Readable, SCALAR_INDEX, NOT_USED
<1>5. CASE p \in Elements(plan.left_inputs) \cup Elements(plan.right_inputs)
  BY <1>4, <1>5 DEF PInv, Reads
<1>6. CASE p \in Elements(plan.outputs)
  BY <1>2, <1>6
<1>7. CASE p = NumInputs - 1
  BY <1>2, <1>3, <1>7
<1>8. CASE \E e \in 1 .. NumOutputs : p = final_output_position(e)
  BY <1>2, <1>3, <1>8 DEF final_output_position
<1>9. QED
  BY <1>1, <1>5, <1>6, <1>7, <1>8

(* Every register that the kernel reads or writes is in the shared memory  *)
(* that perform_operation asks for.                                        *)
THEOREM KernelStaysInSharedMemory == Spec => []StaysInSharedMemory
<1>1. IInv /\ LInv /\ PlanInv => StaysInSharedMemory
  BY KernelHasPlan, RegistersBelow DEF StaysInSharedMemory, PlanRegisters
<1>2. QED
  BY <1>1, InitIInv, NextIInv, InitLInv, NextLInv, InitPlanInv, NextPlanInv,
     PTL DEF Spec

-----------------------------------------------------------------------------
(* The columns are numbered one by one, from 0.                            *)
LEMMA NumbersDiffer ==
  ASSUME NEW c \in Used, NEW d \in Used, new_input_indices[c] = new_input_indices[d]
  PROVE  c = d
<1> DEFINE Below(x) == {e \in Used : e < x}
<1>1. IsFiniteSet(Used) /\ Used \subseteq Nat
  BY ColumnsAssumption, FS_Subset DEF Used
<1>2. Cardinality(Below(c)) = Cardinality(Below(d))
  BY DEF new_input_indices
<1>3. ASSUME NEW x \in Used, NEW y \in Used, x < y PROVE Cardinality(Below(x)) # Cardinality(Below(y))
  <2>1. Below(y) \subseteq Used /\ Below(x) \subseteq Below(y) /\ x \in Below(y) /\ x \notin Below(x)
    <3>1. x \in Nat /\ y \in Nat /\ ~(x < x)
      BY <1>1
    <3>2. \A e \in Used : e < x => e < y
      <4>1. \A e \in Nat : e < x => e < y
        BY <1>3, <3>1
      <4> QED
        BY <1>1, <4>1
    <3> QED
      BY <1>3, <3>1, <3>2, Zenon
  <2>2. IsFiniteSet(Below(y))
    BY <1>1, <2>1, FS_Subset
  <2> HIDE DEF Below
  <2>3. Below(x) # Below(y)
    BY <2>1
  <2> QED
    BY <2>1, <2>2, <2>3, FS_Subset
<1> HIDE DEF Below
<1>4. c < d \/ d < c \/ c = d
  BY <1>1
<1> QED
  BY <1>2, <1>3, <1>4

LEMMA ColumnAtIs ==
  ASSUME NEW c \in Used
  PROVE  ColumnAt(new_input_indices[c]) = c
<1>1. /\ ColumnAt(new_input_indices[c]) \in Used
      /\ new_input_indices[ColumnAt(new_input_indices[c])] = new_input_indices[c]
  BY DEF ColumnAt
<1> QED
  BY <1>1, NumbersDiffer

LEMMA ColumnInRegister ==
  ASSUME NEW r \in 0 .. NumInputs - 1
  PROVE  ColumnAt(r) \in Used /\ new_input_indices[ColumnAt(r)] = r
<1>1. SUFFICES \E c \in Used : new_input_indices[c] = r
  BY DEF ColumnAt
<1>2. SUFFICES ASSUME \A c \in Used : new_input_indices[c] # r PROVE FALSE
  OBVIOUS
<1>3. IsFiniteSet(Used) /\ NumInputs = Cardinality(Used) /\ NumInputs \in Nat
  BY ColumnsAssumption, FS_Subset, FS_CardinalityType DEF Used, NumInputs
<1> DEFINE Others == (0 .. NumInputs - 1) \ {r}
<1>4. IsFiniteSet(Others) /\ Cardinality(Others) < NumInputs
  <2>1. /\ IsFiniteSet(0 .. NumInputs - 1)
        /\ Cardinality(0 .. NumInputs - 1) = NumInputs
    <3>1. 0 \in Int /\ NumInputs - 1 \in Int
      BY <1>3
    <3>2. /\ IsFiniteSet(0 .. NumInputs - 1)
          /\ Cardinality(0 .. NumInputs - 1) =
               IF 0 > NumInputs - 1 THEN 0 ELSE (NumInputs - 1) - 0 + 1
      BY <3>1, FS_Interval
    <3>3. r \in Int /\ 0 <= r /\ r <= NumInputs - 1
      BY <1>3
    <3>4. ~(0 > NumInputs - 1) /\ (NumInputs - 1) - 0 + 1 = NumInputs
      BY <1>3, <3>3
    <3> QED
      BY <3>2, <3>4
  <2>2. IsFiniteSet(Others) /\ Cardinality(Others) = NumInputs - 1
    BY <2>1, FS_RemoveElement
  <2> QED
    BY <1>3, <2>2
<1>5. new_input_indices \in [Used -> Others]
  <2>1. \A c \in Used : new_input_indices[c] \in 0 .. NumInputs - 1
    BY InputsAreBelow
  <2> QED
    BY <1>2, <2>1 DEF new_input_indices
<1> HIDE DEF Others
<1>6. \E c, d \in Used : c # d /\ new_input_indices[c] = new_input_indices[d]
  BY <1>3, <1>4, <1>5, FS_PigeonHole
<1> QED
  BY <1>6, NumbersDiffer

LEMMA ColumnTyped ==
  ASSUME NEW r \in 0 .. NumInputs - 1
  PROVE  ColumnTypes[ColumnAt(r)] \in gdf_dtype
BY ColumnInRegister, ColumnTypesAssumption DEF Used, gdf_dtype

(* How registers are stored.  t is the type that register r has before     *)
(* operation k, if the operations write values of the types ts.            *)

LastWritten(k, r, t, ts) ==
  \/ \E j \in 1 .. k - 1 :
       plan.outputs[j] = r /\ t = ts[j] /\ \A i \in j + 1 .. k - 1 : plan.outputs[i] # r
  \/ t = "invalid" /\ \A j \in 1 .. k - 1 : plan.outputs[j] # r

RegisterType(k, r, t, ts) ==
  /\ r \in 0 .. NumInputs - 1 => t = ColumnTypes[ColumnAt(r)]
  /\ r >= NumInputs => LastWritten(k, r, t, ts)

(* The types of the first n operations are known.                          *)
TypesUpTo(n) ==
  /\ types \in [left : Seq(gdf_dtype), right : Seq(gdf_dtype), output : Seq(gdf_dtype)]
  /\ Len(types.left) = n /\ Len(types.right) = n /\ Len(types.output) = n
  /\ \A k \in 1 .. n :
       /\ plan.left_inputs[k] >= 0 =>
            RegisterType(k, plan.left_inputs[k], types.left[k], types.output)
       /\ plan.right_inputs[k] >= 0 =>
            RegisterType(k, plan.right_inputs[k], types.right[k], types.output)

KInv ==
  /\ phase = "plan" =>
       types = [left |-> <<>>, right |-> <<>>, output |-> <<>>] /\ typed = [r \in Register |-> "invalid"]
  /\ phase = "types" =>
       /\ op \in 1 .. num_operations + 1
       /\ TypesUpTo(op - 1)
       /\ typed \in [Register -> gdf_dtype]
       /\ \A r \in Register : r >= NumInputs => LastWritten(op, r, typed[r], types.output)
  /\ phase = "data" =>
       /\ op \in 1 .. num_operations + 1
       /\ TypesUpTo(num_operations)
       /\ stored \in [Register -> gdf_dtype]
       /\ \A r \in Register : RegisterType(op, r, stored[r], types.output)

(* There is only one such type.                                            *)
LEMMA OneType ==
  ASSUME NEW k \in Nat, NEW r, NEW ts, NEW t, NEW u, LastWritten(k, r, t, ts), LastWritten(k, r, u, ts)
  PROVE  t = u
<1>1. CASE \A j \in 1 .. k - 1 : plan.outputs[j] # r
  BY <1>1 DEF LastWritten
<1>2. CASE \E j \in 1 .. k - 1 : plan.outputs[j] = r
  <2>1. PICK i \in 1 .. k - 1 :
          plan.outputs[i] = r /\ t = ts[i] /\ \A n \in i + 1 .. k - 1 : plan.outputs[n] # r
    BY <1>2 DEF LastWritten
  <2>2. PICK j \in 1 .. k - 1 :
          plan.outputs[j] = r /\ u = ts[j] /\ \A n \in j + 1 .. k - 1 : plan.outputs[n] # r
    BY <1>2 DEF LastWritten
  <2>3. i \in Int /\ j \in Int /\ ~(j \in i + 1 .. k - 1) /\ ~(i \in j + 1 .. k - 1)
    BY <2>1, <2>2
  <2>4. i = j
    BY <2>3
  <2>5. QED
    BY <2>1, <2>2, <2>4
<1>3. QED
  BY <1>1, <1>2

(* Operation k writes its output and no other register.                    *)
LEMMA WrittenNext ==
  ASSUME NEW k \in Nat \ {0}, NEW r, NEW t, NEW ts, LastWritten(k, r, t, ts)
  PROVE  LastWritten(k + 1, r, IF plan.outputs[k] = r THEN ts[k] ELSE t, ts)
<1>1. (k + 1) - 1 = k /\ 1 .. k = (1 .. k - 1) \cup {k}
  OBVIOUS
<1>2. CASE plan.outputs[k] = r
  <2>1. k \in 1 .. k /\ k + 1 .. k = {}
    OBVIOUS
  <2>2. QED
    BY <1>1, <1>2, <2>1 DEF LastWritten
<1>3. CASE plan.outputs[k] # r
  <2>1. CASE \E j \in 1 .. k - 1 :
               plan.outputs[j] = r /\ t = ts[j] /\ \A i \in j + 1 .. k - 1 : plan.outputs[i] # r
    <3>1. PICK j \in 1 .. k - 1 :
            plan.outputs[j] = r /\ t = ts[j] /\ \A i \in j + 1 .. k - 1 : plan.outputs[i] # r
      BY <2>1
    <3>2. \A i \in j + 1 .. k : i = k \/ i \in j + 1 .. k - 1
      OBVIOUS
    <3>3. \A i \in j + 1 .. k : plan.outputs[i] # r
      BY <1>3, <3>1, <3>2
    <3>4. j \in 1 .. k
      BY <3>1
    <3>5. QED
      BY <1>1, <1>3, <3>1, <3>3, <3>4 DEF LastWritten
  <2>2. CASE t = "invalid" /\ \A j \in 1 .. k - 1 : plan.outputs[j] # r
    BY <1>1, <1>3, <2>2 DEF LastWritten
  <2>3. QED
    BY <2>1, <2>2 DEF LastWritten
<1>4. QED
  BY <1>2, <1>3

(* One more type does not change those before.                             *)
LEMMA WrittenLonger ==
  ASSUME NEW ts \in Seq(gdf_dtype), NEW x \in gdf_dtype, NEW k \in 1 .. Len(ts) + 1, NEW r, NEW t,
         LastWritten(k, r, t, ts)
  PROVE  LastWritten(k, r, t, Append(ts, x))
<1>1. \A j \in 1 .. k - 1 : Append(ts, x)[j] = ts[j]
  OBVIOUS
<1>2. QED
  BY <1>1 DEF LastWritten

LEMMA TypeLonger ==
  ASSUME NEW ts \in Seq(gdf_dtype), NEW x \in gdf_dtype, NEW k \in 1 .. Len(ts) + 1, NEW r, NEW t,
         RegisterType(k, r, t, ts)
  PROVE  RegisterType(k, r, t, Append(ts, x))
BY WrittenLonger DEF RegisterType

(* The registers that an operation names.                                  *)
InputsFit == Cardinality(Columns) <= Spaces

LEMMA InputsAreRegisters ==
  ASSUME InputsFit, IInv
  PROVE  \A r \in 0 .. NumInputs - 1 : r \in Register
<1>1. Used \in SUBSET Columns /\ IsFiniteSet(Columns)
  BY ColumnsAssumption DEF Used
<1>2. Cardinality(Used) <= Cardinality(Columns) /\ Cardinality(Columns) \in Nat
  BY <1>1, FS_Subset, FS_CardinalityType
<1>3. NumInputs \in Nat /\ NumInputs <= Cardinality(Columns)
  BY <1>2, CountsAreNatural DEF IInv, NumInputs
<1>4. QED
  BY <1>2, <1>3, SpacesAssumption DEF InputsFit, Register

LEMMA OperationRegisters ==
  ASSUME InputsFit, IInv, PInv, NEW k \in 1 .. num_operations
  PROVE  /\ k \in 1 .. Len(plan.right_inputs) /\ k \in 1 .. Len(plan.left_inputs)
         /\ \A r \in {plan.left_inputs[k], plan.right_inputs[k]} :
              /\ r \in Int
              /\ r >= 0 => r \in Register
              /\ r < 0 => r = SCALAR_INDEX \/ r = NOT_USED
         /\ plan.outputs[k] \in Int
         /\ plan.outputs[k] \in Register => plan.outputs[k] >= NumInputs
<1>1. /\ plan.left_inputs \in Seq(Int) /\ plan.right_inputs \in Seq(Int) /\ plan.outputs \in Seq(Int)
      /\ num_operations = Len(plan.left_inputs)
      /\ Len(plan.right_inputs) = num_operations /\ Len(plan.outputs) = num_operations
  BY DEF PInv, Vectors, Aligned, num_operations
<1>2. /\ k \in DOMAIN plan.left_inputs /\ k \in DOMAIN plan.right_inputs
      /\ k \in DOMAIN plan.outputs /\ k \in 1 .. Len(plan.left_inputs)
      /\ k \in 1 .. Len(plan.right_inputs)
  BY <1>1
<1>3. NumInputs \in Nat /\ NumOutputs \in Nat /\ AllFree \in SUBSET Nat /\ AllFree \subseteq Register
  BY CountsAreNatural DEF IInv, AllFree, Register
<1>4. Readable(plan.left_inputs[k], plan.outputs) /\ Readable(plan.right_inputs[k], plan.outputs)
  BY <1>2, InElements DEF PInv, Reads
<1>5. ASSUME NEW r, Readable(r, plan.outputs)
      PROVE  (r \in Register /\ r \in Nat) \/ r = SCALAR_INDEX \/ r = NOT_USED
  <2>1. CASE r \in 0 .. NumInputs - 1
    <3>1. r \in Nat
      BY <1>3, <2>1
    <3>2. QED
      BY <2>1, <3>1, InputsAreRegisters
  <2>2. CASE r \in AllFree
    BY <1>3, <2>2
  <2>3. QED
    BY <1>5, <2>1, <2>2 DEF Readable
<1>6. Writable(plan.outputs[k])
  BY <1>2, InElements DEF PInv, Writes
<1>7. plan.outputs[k] \in Register => plan.outputs[k] >= NumInputs
  BY <1>3, <1>6, SpacesAssumption DEF Writable, NOT_USED, AllFree, Register, start_processing_position
<1>8. plan.left_inputs[k] \in Int /\ plan.right_inputs[k] \in Int /\ plan.outputs[k] \in Int
  BY <1>1, <1>2
<1>9. ASSUME NEW r \in Int, Readable(r, plan.outputs)
      PROVE  /\ r >= 0 => r \in Register
             /\ r < 0 => r = SCALAR_INDEX \/ r = NOT_USED
  <2>1. (r \in Register /\ r \in Nat) \/ r = SCALAR_INDEX \/ r = NOT_USED
    BY <1>5, <1>9
  <2>2. SCALAR_INDEX < 0 /\ NOT_USED < 0
    BY DEF SCALAR_INDEX, NOT_USED
  <2>3. QED
    BY <2>1, <2>2
<1>10. QED
  BY <1>2, <1>4, <1>7, <1>8, <1>9

-----------------------------------------------------------------------------
(* KInv is kept.                                                           *)

LEMMA TypesStay ==
  ASSUME exprs' = exprs, plan' = plan
  PROVE  /\ \A k, r, t, ts : LastWritten(k, r, t, ts)' <=> LastWritten(k, r, t, ts)
         /\ \A k, r, t, ts : RegisterType(k, r, t, ts)' <=> RegisterType(k, r, t, ts)
         /\ NumInputs' = NumInputs /\ num_operations' = num_operations
BY DEF LastWritten, RegisterType, ColumnAt, new_input_indices, Used, NumInputs,
       num_operations

(* The type that InterpreterFunctor gives to an input of operation op.     *)
LEMMA InputTyped ==
  ASSUME NEW inputs \in Seq(Int), NEW scalars \in Seq(Scalar), op \in 1 .. Len(inputs),
         Len(scalars) = Len(inputs), NumInputs \in Nat,
         inputs[op] >= 0 => inputs[op] \in Register,
         inputs[op] < 0 => inputs[op] = SCALAR_INDEX \/ inputs[op] = NOT_USED,
         typed \in [Register -> gdf_dtype],
         \A r \in Register : r >= NumInputs => LastWritten(op, r, typed[r], types.output)
  PROVE  /\ InputType(inputs, scalars) \in gdf_dtype
         /\ inputs[op] >= 0 =>
              RegisterType(op, inputs[op], InputType(inputs, scalars), types.output)
<1> DEFINE r == inputs[op]
           t == InputType(inputs, scalars)
<1>1. r \in Int /\ op \in 1 .. Len(scalars)
  OBVIOUS
<1>2. SCALAR_INDEX < 0 /\ NOT_USED < 0 /\ SCALAR_INDEX # NOT_USED
  BY DEF SCALAR_INDEX, NOT_USED
<1>3. CASE r = NOT_USED
  <2>1. t = "invalid"
    BY <1>1, <1>2, <1>3 DEF InputType
  <2>2. QED
    BY <1>1, <1>2, <1>3, <2>1 DEF gdf_dtype
<1>4. CASE r = SCALAR_INDEX
  <2>1. t \in {"FLOAT64", "INT64"}
    BY <1>1, <1>2, <1>4 DEF InputType
  <2>2. QED
    BY <1>1, <1>2, <1>4, <2>1 DEF gdf_dtype, Signed
<1>5. CASE r >= 0 /\ r < NumInputs
  <2>1. t = ColumnTypes[ColumnAt(r)]
    BY <1>1, <1>2, <1>5 DEF InputType
  <2>2. t \in gdf_dtype
    BY <1>1, <1>5, <2>1, ColumnTyped
  <2>3. QED
    BY <1>1, <1>5, <2>1, <2>2 DEF RegisterType
<1>6. CASE r >= 0 /\ ~(r < NumInputs)
  <2>1. t = typed[r] /\ r \in Register /\ r >= NumInputs
    BY <1>1, <1>2, <1>6 DEF InputType
  <2>2. LastWritten(op, r, t, types.output) /\ t \in gdf_dtype
    BY <2>1
  <2>3. ~(r \in 0 .. NumInputs - 1)
    BY <1>6
  <2>4. QED
    BY <2>2, <2>3 DEF RegisterType
<1>7. QED
  BY <1>1, <1>3, <1>4, <1>5, <1>6

(* What InterpreterFunctor and the kernel know of the plan.                *)
LEMMA PlanOfTheKernel ==
  ASSUME InputsFit, IInv, PInv
  PROVE  /\ plan.left_inputs \in Seq(Int) /\ plan.right_inputs \in Seq(Int)
         /\ plan.left_scalars \in Seq(Scalar) /\ plan.right_scalars \in Seq(Scalar)
         /\ plan.operators \in Seq(Token)
         /\ num_operations = Len(plan.left_inputs) /\ num_operations = Len(plan.right_inputs)
         /\ num_operations = Len(plan.left_scalars) /\ num_operations = Len(plan.right_scalars)
         /\ num_operations = Len(plan.operators)
         /\ num_operations \in Nat /\ NumInputs \in Nat
BY CountsAreNatural DEF IInv, PInv, Vectors, Aligned, num_operations

LEMMA FunctorKept ==
  ASSUME InputsFit, IInv, PInv, KInv, InterpreterFunctor
  PROVE  KInv'
<1> DEFINE l == InputType(plan.left_inputs, plan.left_scalars)
           r == InputType(plan.right_inputs, plan.right_scalars)
           out == OutputType(plan.operators[op], l, r)
           outs == Append(types.output, out)
<1>1. /\ phase = "types" /\ phase' = "types" /\ op <= num_operations /\ op' = op + 1
      /\ exprs' = exprs /\ plan' = plan
      /\ types' = [left |-> Append(types.left, l), right |-> Append(types.right, r), output |-> outs]
      /\ typed' = [typed EXCEPT ![plan.outputs[op]] = out]
  BY DEF InterpreterFunctor, Retype, planning
<1>2. /\ op \in 1 .. num_operations + 1 /\ TypesUpTo(op - 1) /\ typed \in [Register -> gdf_dtype]
      /\ \A s \in Register : s >= NumInputs => LastWritten(op, s, typed[s], types.output)
  BY <1>1 DEF KInv
<1>3. /\ types.left \in Seq(gdf_dtype) /\ types.right \in Seq(gdf_dtype) /\ types.output \in Seq(gdf_dtype)
      /\ Len(types.left) = op - 1 /\ Len(types.right) = op - 1 /\ Len(types.output) = op - 1
  BY <1>2 DEF TypesUpTo
<1>4. op \in 1 .. num_operations /\ num_operations \in Nat /\ op \in Nat \ {0}
  <2>1. num_operations \in Nat /\ op \in 1 .. num_operations + 1 /\ op <= num_operations
    BY <1>1, <1>2, PlanOfTheKernel
  <2>2. QED
    BY <2>1
<1>5. /\ l \in gdf_dtype
      /\ plan.left_inputs[op] >= 0 => RegisterType(op, plan.left_inputs[op], l, types.output)
  <2> HIDE DEF l
  <2>1. /\ plan.left_inputs[op] >= 0 => plan.left_inputs[op] \in Register
        /\ plan.left_inputs[op] < 0 =>
             plan.left_inputs[op] = SCALAR_INDEX \/ plan.left_inputs[op] = NOT_USED
    BY <1>4, OperationRegisters
  <2>2. op \in 1 .. Len(plan.left_inputs) /\ Len(plan.left_scalars) = Len(plan.left_inputs)
    BY <1>4, PlanOfTheKernel
  <2>3. QED
    BY <1>2, <2>1, <2>2, PlanOfTheKernel, InputTyped DEF l
<1>6. /\ r \in gdf_dtype
      /\ plan.right_inputs[op] >= 0 => RegisterType(op, plan.right_inputs[op], r, types.output)
  <2> HIDE DEF r
  <2>1. /\ plan.right_inputs[op] >= 0 => plan.right_inputs[op] \in Register
        /\ plan.right_inputs[op] < 0 =>
             plan.right_inputs[op] = SCALAR_INDEX \/ plan.right_inputs[op] = NOT_USED
    BY <1>4, OperationRegisters
  <2>2. op \in 1 .. Len(plan.right_inputs) /\ Len(plan.right_scalars) = Len(plan.right_inputs)
    BY <1>4, PlanOfTheKernel
  <2>3. QED
    BY <1>2, <2>1, <2>2, PlanOfTheKernel, InputTyped DEF r
<1> HIDE DEF l, r
<1>7. out \in gdf_dtype
  BY DEF OutputType, Widened, gdf_dtype, Signed
<1> HIDE DEF out
<1>8. /\ outs \in Seq(gdf_dtype) /\ Len(outs) = op /\ outs[op] = out
      /\ Append(types.left, l) \in Seq(gdf_dtype) /\ Len(Append(types.left, l)) = op
      /\ Append(types.right, r) \in Seq(gdf_dtype) /\ Len(Append(types.right, r)) = op
      /\ Append(types.left, l)[op] = l /\ Append(types.right, r)[op] = r
      /\ \A k \in 1 .. op - 1 : Append(types.left, l)[k] = types.left[k]
                                /\ Append(types.right, r)[k] = types.right[k]
  BY <1>3, <1>4, <1>5, <1>6, <1>7
<1>9. ASSUME NEW k \in 1 .. op, NEW s, NEW t, RegisterType(k, s, t, types.output)
      PROVE  RegisterType(k, s, t, outs)
  BY <1>3, <1>4, <1>7, <1>9, TypeLonger
<1>10. ASSUME NEW s \in Register, s >= NumInputs
       PROVE  LastWritten(op + 1, s, typed'[s], outs)
  <2>1. LastWritten(op, s, typed[s], outs)
    BY <1>2, <1>3, <1>4, <1>7, <1>10, WrittenLonger
  <2>2. LastWritten(op + 1, s, IF plan.outputs[op] = s THEN outs[op] ELSE typed[s], outs)
    BY <1>4, <2>1, WrittenNext
  <2>3. typed'[s] = IF plan.outputs[op] = s THEN outs[op] ELSE typed[s]
    BY <1>1, <1>2, <1>8
  <2>4. QED
    BY <2>2, <2>3
<1>11. typed' \in [Register -> gdf_dtype]
  BY <1>1, <1>2, <1>7
<1> HIDE DEF outs
<1>12. types'.left = Append(types.left, l) /\ types'.right = Append(types.right, r) /\ types'.output = outs
  BY <1>1
<1>13. types' \in [left : Seq(gdf_dtype), right : Seq(gdf_dtype), output : Seq(gdf_dtype)]
  BY <1>1, <1>8
<1>14. ASSUME NEW k \in 1 .. op
       PROVE  /\ plan.left_inputs[k] >= 0 =>
                   RegisterType(k, plan.left_inputs[k], types'.left[k], types'.output)
              /\ plan.right_inputs[k] >= 0 =>
                   RegisterType(k, plan.right_inputs[k], types'.right[k], types'.output)
  <2>1. CASE k = op
    BY <1>5, <1>6, <1>8, <1>9, <1>12, <2>1
  <2>2. CASE k \in 1 .. op - 1
    <3>1. types'.left[k] = types.left[k] /\ types'.right[k] = types.right[k]
      BY <1>8, <1>12, <2>2
    <3>2. QED
      BY <1>2, <1>9, <1>12, <2>2, <3>1 DEF TypesUpTo
  <2>3. QED
    BY <1>4, <2>1, <2>2
<1>15. op' \in 1 .. num_operations + 1 /\ op' - 1 = op
  BY <1>1, <1>4
<1>16. QED
  <2>1. /\ \A k, s, t, ts : LastWritten(k, s, t, ts)' <=> LastWritten(k, s, t, ts)
        /\ \A k, s, t, ts : RegisterType(k, s, t, ts)' <=> RegisterType(k, s, t, ts)
        /\ NumInputs' = NumInputs /\ num_operations' = num_operations
    BY <1>1, TypesStay
  <2>2. TypesUpTo(op - 1)'
    BY <1>1, <1>8, <1>12, <1>13, <1>14, <1>15, <2>1 DEF TypesUpTo
  <2>3. QED
    BY <1>1, <1>10, <1>11, <1>12, <1>15, <2>1, <2>2 DEF KInv, Register

(* The types stay as they are while the plan does.                         *)
LEMMA TypesUpToStays ==
  ASSUME exprs' = exprs, plan' = plan, types' = types, TypesUpTo(num_operations)
  PROVE  TypesUpTo(num_operations)'
<1>1. /\ \A k, r, t, ts : RegisterType(k, r, t, ts)' <=> RegisterType(k, r, t, ts)
      /\ num_operations' = num_operations
  BY TypesStay
<1>2. QED
  BY <1>1 DEF TypesUpTo

LEMMA ReadDataKept ==
  ASSUME InputsFit, IInv, PInv, KInv, read_data
  PROVE  KInv'
<1>1. /\ phase = "types" /\ phase' = "data" /\ op > num_operations /\ op' = 1
      /\ exprs' = exprs /\ plan' = plan /\ types' = types
      /\ stored' = [r \in Register |-> IF r < NumInputs THEN ColumnTypes[ColumnAt(r)] ELSE "invalid"]
  BY DEF read_data, planning
<1>2. op \in 1 .. num_operations + 1 /\ TypesUpTo(op - 1)
  BY <1>1 DEF KInv
<1>3. num_operations \in Nat /\ NumInputs \in Nat
  BY PlanOfTheKernel
<1>4. op - 1 = num_operations
  BY <1>1, <1>2, <1>3
<1>5. TypesUpTo(num_operations)'
  BY <1>1, <1>2, <1>4, TypesUpToStays
<1>6. stored' \in [Register -> gdf_dtype]
  <2>1. ASSUME NEW r \in Register, r < NumInputs PROVE ColumnTypes[ColumnAt(r)] \in gdf_dtype
    <3>1. r \in 0 .. NumInputs - 1
      BY <1>3, <2>1, SpacesAssumption DEF Register
    <3> QED
      BY <3>1, ColumnTyped
  <2>2. "invalid" \in gdf_dtype
    BY DEF gdf_dtype
  <2> QED
    BY <1>1, <2>1, <2>2
<1>7. ASSUME NEW r \in Register PROVE RegisterType(1, r, stored'[r], types.output)
  <2>1. r \in Nat
    BY SpacesAssumption DEF Register
  <2>2. r >= NumInputs => LastWritten(1, r, stored'[r], types.output)
    BY <1>1, <1>3, <2>1 DEF LastWritten
  <2>3. r \in 0 .. NumInputs - 1 => stored'[r] = ColumnTypes[ColumnAt(r)]
    BY <1>1, <1>3, <2>1
  <2>4. QED
    BY <2>2, <2>3 DEF RegisterType
<1>8. QED
  <2>1. /\ \A k, r, t, ts : RegisterType(k, r, t, ts)' <=> RegisterType(k, r, t, ts)
        /\ num_operations' = num_operations
    BY <1>1, TypesStay
  <2>2. op' \in 1 .. num_operations + 1
    BY <1>1, <1>3
  <2>3. QED
    BY <1>1, <1>5, <1>6, <1>7, <2>1, <2>2 DEF KInv, Register

LEMMA OperationKept ==
  ASSUME InputsFit, IInv, PInv, KInv, phase = "data", phase' = "data", op <= num_operations,
         op' = op + 1, exprs' = exprs, plan' = plan, types' = types,
         stored' = [stored EXCEPT ![plan.outputs[op]] = types.output[op]]
  PROVE  KInv'
<1>1. /\ op \in 1 .. num_operations + 1 /\ TypesUpTo(num_operations)
      /\ stored \in [Register -> gdf_dtype]
      /\ \A r \in Register : RegisterType(op, r, stored[r], types.output)
  BY DEF KInv
<1>2. num_operations \in Nat /\ NumInputs \in Nat
  BY PlanOfTheKernel
<1>3. op \in 1 .. num_operations /\ op \in Nat \ {0}
  BY <1>1, <1>2
<1>4. types.output[op] \in gdf_dtype
  BY <1>1, <1>3 DEF TypesUpTo
<1>5. stored' \in [Register -> gdf_dtype]
  BY <1>1, <1>4
<1>6. ASSUME NEW r \in Register PROVE RegisterType(op + 1, r, stored'[r], types.output)
  <2>1. stored'[r] = IF plan.outputs[op] = r THEN types.output[op] ELSE stored[r]
    BY <1>1
  <2>2. ASSUME r >= NumInputs PROVE LastWritten(op + 1, r, stored'[r], types.output)
    <3>1. LastWritten(op, r, stored[r], types.output)
      BY <1>1, <2>2 DEF RegisterType
    <3>2. QED
      BY <1>3, <2>1, <3>1, WrittenNext
  <2>3. ASSUME r \in 0 .. NumInputs - 1 PROVE stored'[r] = ColumnTypes[ColumnAt(r)]
    <3>1. plan.outputs[op] # r
      BY <1>2, <1>3, <2>3, OperationRegisters
    <3>2. QED
      BY <1>1, <2>1, <2>3, <3>1 DEF RegisterType
  <2>4. QED
    BY <2>2, <2>3 DEF RegisterType
<1>7. TypesUpTo(num_operations)'
  BY <1>1, TypesUpToStays
<1>8. QED
  <2>1. /\ \A k, r, t, ts : RegisterType(k, r, t, ts)' <=> RegisterType(k, r, t, ts)
        /\ num_operations' = num_operations
    BY TypesStay
  <2>2. op' \in 1 .. num_operations + 1
    BY <1>2, <1>3
  <2>3. QED
    BY <1>5, <1>6, <1>7, <2>1, <2>2 DEF KInv, Register

LEMMA InitKInv == Init => KInv
BY DEF Init, KInv

LEMMA NextKInv == InputsFit /\ IInv /\ PInv /\ KInv /\ [Next]_vars => KInv'
<1>1. SUFFICES ASSUME InputsFit, IInv, PInv, KInv, [Next]_vars PROVE KInv'
  OBVIOUS
<1>2. CASE ReadBinary \/ ReadUnary \/ ReadOther \/ ReadOperand \/ NextExpression
  <2>1. phase = "plan" /\ phase' = "plan" /\ types' = types /\ typed' = typed
    BY <1>2 DEF ReadBinary, ReadUnary, ReadOther, ReadOperand, NextExpression, Reading, kernel
  <2>2. QED
    BY <1>1, <2>1 DEF KInv, Register
<1>3. CASE perform_operation
  <2>1. /\ phase = "plan" /\ phase' \in {"types", "failed", "undefined"} /\ op' = 1
        /\ types' = types /\ typed' = typed /\ exprs' = exprs /\ plan' = plan
    BY <1>3 DEF perform_operation, planning
  <2>2. types' = [left |-> <<>>, right |-> <<>>, output |-> <<>>] /\ typed' = [r \in Register |-> "invalid"]
    BY <1>1, <2>1 DEF KInv
  <2>3. num_operations' = num_operations /\ num_operations \in Nat
    BY <1>1, <2>1, TypesStay, PlanOfTheKernel
  <2>4. types' \in [left : Seq(gdf_dtype), right : Seq(gdf_dtype), output : Seq(gdf_dtype)]
    BY <2>2
  <2>5. TypesUpTo(op - 1)'
    BY <2>1, <2>2, <2>4 DEF TypesUpTo
  <2>6. typed' \in [Register -> gdf_dtype] /\ op' \in 1 .. num_operations + 1
    BY <2>1, <2>2, <2>3 DEF gdf_dtype
  <2>7. \A r \in Register : LastWritten(op, r, typed[r], types.output)'
    BY <2>1, <2>2 DEF LastWritten
  <2>8. QED
    BY <2>1, <2>3, <2>5, <2>6, <2>7 DEF KInv, Register
<1>4. CASE InterpreterFunctor
  BY <1>1, <1>4, FunctorKept
<1>5. CASE read_data
  BY <1>1, <1>5, ReadDataKept
<1>6. CASE process_operator
  <2>1. /\ phase = "data" /\ phase' = "data" /\ op <= num_operations /\ op' = op + 1
        /\ exprs' = exprs /\ plan' = plan /\ types' = types
        /\ stored' = [stored EXCEPT ![plan.outputs[op]] = types.output[op]]
    BY <1>6 DEF process_operator, planning
  <2>2. QED
    BY <1>1, <2>1, OperationKept
<1>7. CASE process_operator_outside
  <2>1. CASE phase' = "failed"
    BY <2>1 DEF KInv
  <2>2. CASE phase' # "failed"
    <3>1. /\ phase = "data" /\ phase' = "data" /\ op <= num_operations /\ op' = op + 1
          /\ exprs' = exprs /\ plan' = plan /\ types' = types
          /\ stored' = [stored EXCEPT ![plan.outputs[op]] = types.output[op]]
      BY <1>7, <2>2 DEF process_operator_outside, planning
    <3>2. QED
      BY <1>1, <3>1, OperationKept
  <2>3. QED
    BY <2>1, <2>2
<1>8. CASE write_data \/ process_valids \/ write_valid_data
  <2>1. phase' \in {"valid", "done"}
    BY <1>8 DEF write_data, process_valids, write_valid_data
  <2>2. QED
    BY <2>1 DEF KInv
<1>9. CASE UNCHANGED vars
  <2>1. /\ phase' = phase /\ op' = op /\ types' = types /\ typed' = typed /\ stored' = stored
        /\ exprs' = exprs /\ plan' = plan
    BY <1>9 DEF vars, planning, kernel
  <2>2. /\ \A k, r, t, ts : LastWritten(k, r, t, ts)' <=> LastWritten(k, r, t, ts)
        /\ \A k, r, t, ts : RegisterType(k, r, t, ts)' <=> RegisterType(k, r, t, ts)
        /\ NumInputs' = NumInputs /\ num_operations' = num_operations
    BY <2>1, TypesStay
  <2>3. TypesUpTo(op - 1) => TypesUpTo(op - 1)'
    BY <2>1, <2>2 DEF TypesUpTo
  <2>4. TypesUpTo(num_operations) => TypesUpTo(num_operations)'
    BY <2>1, TypesUpToStays
  <2>5. QED
    BY <1>1, <2>1, <2>2, <2>3, <2>4 DEF KInv, Register
<1>10. QED
  BY <1>1, <1>2, <1>3, <1>4, <1>5, <1>6, <1>7, <1>8, <1>9 DEF Next

KernelInv == OperatorsReadColumns => KInv

LEMMA InitKernelInv == Init => KernelInv
BY InitKInv DEF KernelInv

LEMMA NextKernelInv ==
  ASSUME InputsFit
  PROVE  IInv /\ PlanInv /\ KernelInv /\ [Next]_vars => KernelInv'
BY NextKInv, OperatorsStay DEF PlanInv, KernelInv

(* An operation reads every register as it was stored last, though the     *)
(* registers are used again for values of other types: the types that      *)
(* InterpreterFunctor finds for the operations are those of the kernel.    *)
THEOREM OperandsReadAsStored ==
  ASSUME InputsFit
  PROVE  Spec => []ReadsAsStored
<1>1. IInv /\ LInv /\ PlanInv /\ KernelInv => ReadsAsStored
  <2>1. SUFFICES ASSUME IInv, PInv, KInv, phase = "data", op <= num_operations
                 PROVE  /\ plan.left_inputs[op] >= 0 => types.left[op] = stored[plan.left_inputs[op]]
                        /\ plan.right_inputs[op] >= 0 => types.right[op] = stored[plan.right_inputs[op]]
    BY KernelHasPlan DEF ReadsAsStored, KernelInv
  <2>2. /\ op \in 1 .. num_operations + 1 /\ TypesUpTo(num_operations)
        /\ \A r \in Register : RegisterType(op, r, stored[r], types.output)
    BY <2>1 DEF KInv
  <2>3. NumInputs \in Nat /\ num_operations \in Nat
    BY <2>1, PlanOfTheKernel
  <2>4. op \in 1 .. num_operations /\ op \in Nat
    BY <2>1, <2>2, <2>3
  <2>5. ASSUME NEW r \in Register, NEW t, RegisterType(op, r, t, types.output)
        PROVE  t = stored[r]
    <3>1. RegisterType(op, r, stored[r], types.output) /\ r \in Nat
      BY <2>2, SpacesAssumption DEF Register
    <3>2. CASE r \in 0 .. NumInputs - 1
      BY <2>5, <3>1, <3>2 DEF RegisterType
    <3>3. CASE r >= NumInputs
      BY <2>4, <2>5, <3>1, <3>3, OneType DEF RegisterType
    <3>4. QED
      BY <2>3, <3>1, <3>2, <3>3
  <2>6. /\ plan.left_inputs[op] >= 0 => plan.left_inputs[op] \in Register
        /\ plan.right_inputs[op] >= 0 => plan.right_inputs[op] \in Register
    BY <2>1, <2>4, OperationRegisters
  <2>7. /\ plan.left_inputs[op] >= 0 =>
             RegisterType(op, plan.left_inputs[op], types.left[op], types.output)
        /\ plan.right_inputs[op] >= 0 =>
             RegisterType(op, plan.right_inputs[op], types.right[op], types.output)
    BY <2>2, <2>4 DEF TypesUpTo
  <2>8. QED
    BY <2>5, <2>6, <2>7
<1>2. QED
  BY <1>1, InitIInv, NextIInv, InitLInv, NextLInv, InitPlanInv, NextPlanInv, InitKernelInv,
     NextKernelInv, PTL DEF Spec

-----------------------------------------------------------------------------
(* The meanings of expressions.                                             *)

(* The tokens that are an expression of their own.                         *)
is_plain(t) == is_literal(t) \/ t.kind = "other"

(* The meaning of the expression at token i, by the kind of the token.     *)
Means(m, e, of, i, absent) ==
  LET t == e[i]
      l == of[i + 1]
      r == of[l.end]
  IN /\ is_plain(t) => m = [end |-> i + 1, value |-> <<t>>, valid |-> TRUE]
     /\ t.kind = "column" => m = [end |-> i + 1, value |-> <<t>>, valid |-> t.id \notin absent]
     /\ t.kind = "unary" => m = [end |-> l.end, value |-> <<t>> \o l.value, valid |-> l.valid]
     /\ t.kind = "is_null" => m = [end |-> l.end, value |-> <<Bool(~l.valid)>>, valid |-> TRUE]
     /\ t.kind = "coalesce" => m = [end |-> r.end,
                                    value |-> IF l.valid THEN l.value ELSE r.value,
                                    valid |-> l.valid \/ r.valid]
     /\ t.kind = "binary" => m = [end |-> r.end, value |-> <<t>> \o l.value \o r.value,
                                  valid |-> l.valid /\ r.valid]

LEMMA TokenKinds ==
  ASSUME NEW e \in Seq(Token), NEW i \in 1 .. Len(e)
  PROVE  /\ e[i] \in Token /\ e[i].id \in Nat
         /\ \/ is_plain(e[i]) /\ e[i].kind \notin {"column", "unary", "is_null", "coalesce", "binary"}
            \/ ~is_plain(e[i]) /\ e[i].kind \in {"column", "unary", "is_null", "coalesce", "binary"}
<1>1. e[i] \in Token
  OBVIOUS
<1>2. QED
  BY <1>1 DEF Token, is_plain, is_literal

LEMMA MeaningCases ==
  ASSUME NEW e \in Seq(Token), NEW i \in 1 .. Len(e), NEW of, NEW absent
  PROVE  Means(MeaningFrom(e, of, i, absent), e, of, i, absent)
<1> DEFINE t == e[i]
           l == of[i + 1]
           r == of[l.end]
           m == MeaningFrom(e, of, i, absent)
<1>1. ~(i > Len(e))
  OBVIOUS
<1>2. m = CASE t.kind = "column" -> [end |-> i + 1, value |-> <<t>>, valid |-> t.id \notin absent]
            [] t.kind = "unary" -> [end |-> l.end, value |-> <<t>> \o l.value, valid |-> l.valid]
            [] t.kind = "is_null" -> [end |-> l.end, value |-> <<Bool(~l.valid)>>, valid |-> TRUE]
            [] t.kind = "coalesce" -> [end |-> r.end,
                                       value |-> IF l.valid THEN l.value ELSE r.value,
                                       valid |-> l.valid \/ r.valid]
            [] t.kind = "binary" -> [end |-> r.end, value |-> <<t>> \o l.value \o r.value,
                                     valid |-> l.valid /\ r.valid]
            [] OTHER -> [end |-> i + 1, value |-> <<t>>, valid |-> TRUE]
  BY <1>1 DEF MeaningFrom
<1>3. \/ is_plain(t) /\ t.kind \notin {"column", "unary", "is_null", "coalesce", "binary"}
      \/ ~is_plain(t) /\ t.kind \in {"column", "unary", "is_null", "coalesce", "binary"}
  BY TokenKinds
<1> HIDE DEF t, l, r, m
<1>4. CASE is_plain(t)
  BY <1>2, <1>3, <1>4 DEF Means, t, l, r, m
<1>5. CASE ~is_plain(t) /\ t.kind = "column"
  BY <1>2, <1>3, <1>5 DEF Means, t, l, r, m
<1>6. CASE ~is_plain(t) /\ t.kind = "unary"
  BY <1>2, <1>3, <1>6 DEF Means, t, l, r, m
<1>7. CASE ~is_plain(t) /\ t.kind = "is_null"
  BY <1>2, <1>3, <1>7 DEF Means, t, l, r, m
<1>8. CASE ~is_plain(t) /\ t.kind = "coalesce"
  BY <1>2, <1>3, <1>8 DEF Means, t, l, r, m
<1>9. CASE ~is_plain(t) /\ t.kind = "binary"
  BY <1>2, <1>3, <1>9 DEF Means, t, l, r, m
<1> QED
  BY <1>3, <1>4, <1>5, <1>6, <1>7, <1>8, <1>9 DEF m

LEMMA NoMeaning ==
  ASSUME NEW e, Len(e) \in Nat, NEW of, NEW absent
  PROVE  MeaningFrom(e, of, Len(e) + 1, absent) = [end |-> Len(e) + 1, value |-> <<>>, valid |-> TRUE]
BY DEF MeaningFrom

(* Where the expression ends, if those behind it end in e.                 *)
LEMMA EndOfMeaning ==
  ASSUME NEW e \in Seq(Token), NEW i \in 1 .. Len(e) + 1, NEW of, NEW absent,
         \A j \in i + 1 .. Len(e) + 1 : of[j].end \in j .. Len(e) + 1
  PROVE  MeaningFrom(e, of, i, absent).end \in i .. Len(e) + 1
<1>1. Len(e) \in Nat
  OBVIOUS
<1>2. CASE i = Len(e) + 1
  <2>1. MeaningFrom(e, of, i, absent).end = Len(e) + 1
    <3>1. MeaningFrom(e, of, i, absent) = [end |-> Len(e) + 1, value |-> <<>>, valid |-> TRUE]
      BY <1>1, <1>2, NoMeaning, Zenon
    <3> QED
      BY <3>1
  <2> QED
    BY <1>1, <1>2, <2>1
<1>3. CASE i # Len(e) + 1
  <2> DEFINE t == e[i]
             l == of[i + 1]
             r == of[l.end]
             m == MeaningFrom(e, of, i, absent)
             n == Len(e) + 1
  <2>1. i \in 1 .. Len(e) /\ n \in Nat /\ i + 1 \in i + 1 .. n
    BY <1>1, <1>3
  <2>2. l.end \in i + 1 .. n
    BY <2>1
  <2>3. r.end \in i + 1 .. n
    <3>1. r.end \in l.end .. n
      BY <2>2
    <3> HIDE DEF l, r, n
    <3> QED
      BY <2>1, <2>2, <3>1
  <2>4. Means(m, e, of, i, absent)
    BY <2>1, MeaningCases
  <2>5. m.end \in {i + 1, l.end, r.end}
    <3>1. \/ is_plain(t) \/ t.kind = "column" \/ t.kind = "unary" \/ t.kind = "is_null"
          \/ t.kind = "coalesce" \/ t.kind = "binary"
      BY <2>1, TokenKinds
    <3>2. /\ is_plain(t) => m = [end |-> i + 1, value |-> <<t>>, valid |-> TRUE]
          /\ t.kind = "column" => m = [end |-> i + 1, value |-> <<t>>, valid |-> t.id \notin absent]
          /\ t.kind = "unary" => m = [end |-> l.end, value |-> <<t>> \o l.value, valid |-> l.valid]
          /\ t.kind = "is_null" => m = [end |-> l.end, value |-> <<Bool(~l.valid)>>, valid |-> TRUE]
          /\ t.kind = "coalesce" => m = [end |-> r.end,
                                         value |-> IF l.valid THEN l.value ELSE r.value,
                                         valid |-> l.valid \/ r.valid]
          /\ t.kind = "binary" => m = [end |-> r.end, value |-> <<t>> \o l.value \o r.value,
                                       valid |-> l.valid /\ r.valid]
      BY <2>4 DEF Means
    <3> HIDE DEF t, l, r, m
    <3>3. (is_plain(t) \/ t.kind = "column") => m.end = i + 1
      BY <3>2
    <3>4. (t.kind = "unary" \/ t.kind = "is_null") => m.end = l.end
      BY <3>2
    <3>5. t.kind = "coalesce" => m.end = r.end
      <4> DEFINE v == IF l.valid THEN l.value ELSE r.value
                 b == l.valid \/ r.valid
      <4>1. t.kind = "coalesce" => m = [end |-> r.end, value |-> v, valid |-> b]
        BY <3>2
      <4> HIDE DEF v, b
      <4> QED
        BY <4>1
    <3>6. t.kind = "binary" => m.end = r.end
      <4> DEFINE v == <<t>> \o l.value \o r.value
                 b == l.valid /\ r.valid
      <4>1. t.kind = "binary" => m = [end |-> r.end, value |-> v, valid |-> b]
        BY <3>2
      <4> HIDE DEF v, b
      <4> QED
        BY <4>1
    <3> QED
      BY <3>1, <3>3, <3>4, <3>5, <3>6
  <2> HIDE DEF l, r, n, m
  <2>6. m.end \in i + 1 .. n
    BY <2>1, <2>2, <2>3, <2>5
  <2>7. m.end \in i .. n
    BY <2>1, <2>6
  <2> QED
    BY <2>7 DEF m, n
<1> QED
  BY <1>2, <1>3

(* It depends on the expressions behind it.                                *)
LEMMA FromTheRest ==
  ASSUME NEW e \in Seq(Token), NEW i \in 1 .. Len(e) + 1, NEW f, NEW g, NEW absent,
         \A j \in i + 1 .. Len(e) + 1 : f[j] = g[j] /\ f[j].end \in j .. Len(e) + 1
  PROVE  MeaningFrom(e, f, i, absent) = MeaningFrom(e, g, i, absent)
<1>1. Len(e) \in Nat
  OBVIOUS
<1>2. CASE i = Len(e) + 1
  BY <1>1, <1>2, NoMeaning
<1>3. CASE i # Len(e) + 1
  <2>1. i + 1 \in i + 1 .. Len(e) + 1
    BY <1>1, <1>3
  <2>2. f[i + 1] = g[i + 1] /\ f[i + 1].end \in i + 1 .. Len(e) + 1
    BY <2>1
  <2>3. f[f[i + 1].end] = g[g[i + 1].end]
    BY <2>2
  <2> QED
    BY <2>2, <2>3 DEF MeaningFrom
<1> QED
  BY <1>2, <1>3

(* The recursion that defines Meanings is one.                             *)
LEMMA MeaningsAre ==
  ASSUME NEW e \in Seq(Token), NEW absent
  PROVE  /\ \A i \in 1 .. Len(e) + 1 :
              Meanings(e, absent)[i] = MeaningFrom(e, Meanings(e, absent), i, absent)
         /\ \A i \in 1 .. Len(e) + 1 : Meanings(e, absent)[i].end \in i .. Len(e) + 1
<1> DEFINE n == Len(e) + 1
           From(k, j) == MeaningFrom(e, k, j, absent)
           Def(k) == k = [j \in 1 .. n |-> From(k, j)]
           Is(g, j) == g[j] = From(g, j) /\ g[j].end \in j .. n
           Good(m) == m <= n => \E g : /\ DOMAIN g = 1 .. n /\ g = [j \in 1 .. n |-> g[j]]
                                       /\ \A j \in n - m + 1 .. n : Is(g, j)
           I == {m \in Nat : Good(m)}
<1>1. n \in Nat
  OBVIOUS
<1>2. \A f, g : \A j \in 1 .. n :
        (\A k \in j + 1 .. n : f[k] = g[k] /\ f[k].end \in k .. n) => From(f, j) = From(g, j)
  BY FromTheRest
<1>3. \A f : \A j \in 1 .. n : (\A k \in j + 1 .. n : f[k].end \in k .. n) => From(f, j).end \in j .. n
  BY EndOfMeaning
<1> HIDE DEF n, From
<1>4. 0 \in I
  <2> DEFINE g == [j \in 1 .. n |-> <<>>]
  <2>1. DOMAIN g = 1 .. n /\ g = [j \in 1 .. n |-> g[j]]
    OBVIOUS
  <2>2. n - 0 + 1 .. n = {}
    BY <1>1
  <2> QED
    BY <2>1, <2>2
<1>5. ASSUME NEW m \in Nat, m \in I PROVE m + 1 \in I
  <2>1. SUFFICES ASSUME m + 1 <= n
                 PROVE  \E g : /\ DOMAIN g = 1 .. n /\ g = [j \in 1 .. n |-> g[j]]
                               /\ \A j \in n - (m + 1) + 1 .. n : Is(g, j)
    OBVIOUS
  <2>2. PICK g : /\ DOMAIN g = 1 .. n /\ g = [j \in 1 .. n |-> g[j]]
                 /\ \A j \in n - m + 1 .. n : Is(g, j)
    BY <1>1, <1>5, <2>1
  <2> DEFINE q == n - m
             h == [j \in 1 .. n |-> IF j = q THEN From(g, q) ELSE g[j]]
  <2>3. q \in 1 .. n /\ n - (m + 1) + 1 = q /\ n - m + 1 = q + 1
    BY <1>1, <2>1
  <2> HIDE DEF q
  <2>4. DOMAIN h = 1 .. n /\ h = [j \in 1 .. n |-> h[j]]
    OBVIOUS
  <2>5. h[q] = From(g, q) /\ \A j \in q + 1 .. n : h[j] = g[j]
    BY <1>1, <2>3
  <2> HIDE DEF h
  <2>6. \A j \in q + 1 .. n : g[j].end \in j .. n
    BY <2>2, <2>3
  <2>7. h[q].end \in q .. n
    BY <1>3, <2>3, <2>5, <2>6
  <2>8. ASSUME NEW j \in q .. n PROVE Is(h, j)
    <3>1. j \in 1 .. n /\ \A k \in j + 1 .. n : k \in q + 1 .. n
      BY <1>1, <2>3
    <3>2. \A k \in j + 1 .. n : h[k] = g[k] /\ h[k].end \in k .. n
      BY <2>5, <2>6, <3>1
    <3>3. From(h, j) = From(g, j)
      BY <1>2, <3>1, <3>2
    <3>4. CASE j = q
      BY <2>5, <2>7, <3>3, <3>4
    <3>5. CASE j # q
      <4>1. j \in q + 1 .. n
        BY <1>1, <2>3, <3>5
      <4> QED
        BY <2>2, <2>3, <2>5, <3>3, <4>1
    <3> QED
      BY <3>4, <3>5
  <2> QED
    BY <2>3, <2>4, <2>8
<1>6. n \in I
  <2> HIDE DEF I
  <2> QED
    BY <1>1, <1>4, <1>5, SetInduction
<1>7. PICK g : /\ DOMAIN g = 1 .. n /\ g = [j \in 1 .. n |-> g[j]]
               /\ \A j \in 1 .. n : Is(g, j)
  <2>1. n - n + 1 = 1
    BY <1>1
  <2> QED
    BY <1>1, <1>6, <2>1
<1>8. Def(g)
  BY <1>7
<1>9. Meanings(e, absent) = CHOOSE k : Def(k)
  BY DEF Meanings, From, n
<1>10. Def(Meanings(e, absent))
  <2> HIDE DEF Def
  <2> QED
    BY <1>8, <1>9
<1> DEFINE F == Meanings(e, absent)
<1> HIDE DEF F
<1>11. F = [j \in 1 .. n |-> From(F, j)]
  BY <1>10 DEF F
<1>12. \A j \in 1 .. n : F[j] = From(F, j)
  BY <1>11
<1> DEFINE J == {m \in Nat : m <= n => \A j \in n - m + 1 .. n : F[j].end \in j .. n}
<1>13. 0 \in J
  BY <1>1
<1>14. ASSUME NEW m \in Nat, m \in J PROVE m + 1 \in J
  <2>1. SUFFICES ASSUME m + 1 <= n PROVE \A j \in n - (m + 1) + 1 .. n : F[j].end \in j .. n
    OBVIOUS
  <2> DEFINE q == n - m
  <2>2. q \in 1 .. n /\ n - (m + 1) + 1 = q /\ n - m + 1 = q + 1
    BY <1>1, <2>1
  <2>3. \A j \in q + 1 .. n : F[j].end \in j .. n
    BY <1>1, <1>14, <2>1, <2>2
  <2> HIDE DEF q
  <2>4. F[q].end \in q .. n
    BY <1>3, <1>12, <2>2, <2>3
  <2>5. ASSUME NEW j \in q .. n PROVE F[j].end \in j .. n
    <3>1. j = q \/ j \in q + 1 .. n
      BY <1>1, <2>2
    <3> QED
      BY <2>3, <2>4, <3>1
  <2> QED
    BY <2>2, <2>5
<1>15. n \in J
  <2> HIDE DEF J
  <2> QED
    BY <1>1, <1>13, <1>14, SetInduction
<1>16. \A j \in 1 .. n : F[j].end \in j .. n
  <2>1. n - n + 1 = 1 /\ n <= n
    BY <1>1
  <2> QED
    BY <1>1, <1>15, <2>1
<1> QED
  BY <1>12, <1>16 DEF F, From, n

(* What the expressions of field x mean on the row.                        *)
Meant(x) == Meanings(exprs[x], nulls)

(* Of the first k operations, the last one that wrote register r has the   *)
(* operator i of field x.                                                  *)
Holds(r, x, i, k, outs, made) ==
  \E j \in 1 .. k : outs[j] = r /\ made[j] = <<x, i>> /\ \A n \in j + 1 .. k : outs[n] # r

(* An operand for the expression that begins with token i of field x, as   *)
(* it is read behind k operations.                                         *)
Comes(in, sc, x, i, k, outs, made) ==
  /\ i \in DOMAIN exprs[x] /\ exprs[x][i].kind # "other"
  /\ is_literal(exprs[x][i]) => in = SCALAR_INDEX /\ sc = exprs[x][i]
  /\ exprs[x][i].kind = "column" => in = new_input_indices[exprs[x][i].id]
  /\ is_operator(exprs[x][i]) => in \in AllFree /\ Holds(in, x, i, k, outs, made)

(* Operation k of p is an operator, over what its operands are.            *)
Performed(p, k, x, i, made) ==
  /\ x \in DOMAIN exprs /\ i \in DOMAIN exprs[x]
  /\ is_operator(exprs[x][i]) /\ p.operators[k] = exprs[x][i]
  /\ Comes(p.left_inputs[k], p.left_scalars[k], x, i + 1, k - 1, p.outputs, made)
  /\ is_unary_operator_token(exprs[x][i]) => p.right_inputs[k] = NOT_USED
  /\ is_binary_operator_token(exprs[x][i]) =>
       Comes(p.right_inputs[k], p.right_scalars[k], x, Meant(x)[i + 1].end, k - 1, p.outputs, made)
  /\ i = 1 => p.outputs[k] = final_output_position(x)
  /\ i # 1 => p.outputs[k] \in AllFree
Performs(p, k, made) == \E x, i \in Nat : made[k] = <<x, i>> /\ Performed(p, k, x, i, made)

(* The operands on the stack are the expressions behind token n, one after *)
(* the other.                                                              *)
Stacked(starts, st, x, n, outs, made) ==
  /\ Len(starts) = Len(st) + 1 /\ starts[1] = n + 1
  /\ \A j \in 1 .. Len(st) :
       /\ starts[j + 1] = Meant(x)[starts[j]].end
       /\ Comes(InputOf(st[j]), st[j].token, x, starts[j], Len(outs), outs, made)

(* A register that is not free holds an operand.                           *)
FreeOrHeld(st, open) ==
  \A p \in AllFree \ open : \E j \in DOMAIN st : st[j].position = p /\ ~is_literal(st[j].token)

(* The field is in its register.                                           *)
FieldHeld(x, outs, made) == Holds(final_output_position(x), x, 1, Len(outs), outs, made)

(* What is said of the values: nothing of those the properties leave out.  *)
Claimed == ~HasFloat /\ (ChecksNulls => nulls = {})
IsValue(v, x, i) == Claimed /\ Meant(x)[i].valid => v = Meant(x)[i].value
Plain == ~ChecksNulls /\ FewRegisters
IsValid(b, x, i) == Plain => b = Meant(x)[i].valid

(* Register r is not written again before operation k.                     *)
Stays(j, k, outs) == \A n \in j + 1 .. k - 1 : outs[n] # outs[j]

(* The planner has c fields, the last one but for the first n tokens: made *)
(* are the operators that the operations so far are for.                   *)
PlanMade(p, made, c, n) ==
  /\ made \in Seq(Nat \X Nat) /\ Len(made) = Len(p.outputs)
  /\ \A k \in 1 .. Len(made) : Performs(p, k, made)
  /\ \A x \in 1 .. c : x < c \/ n = 0 => FieldHeld(x, p.outputs, made)

StackMade(st, open, made, c, n, outs) ==
  /\ Len(st) <= Len(exprs[c]) - n
  /\ FreeOrHeld(st, open)
  /\ \E starts \in Seq(Nat) : Stacked(starts, st, c, n, outs, made)

Planned(made) ==
  /\ PlanMade(plan, made, current, left)
  /\ phase = "plan" /\ left > 0 => StackMade(stack, free, made, current, left, plan.outputs)

(* There are registers enough for the inputs, the outputs and, if every    *)
(* token should need one, for an expression.                               *)
RegistersSuffice ==
  \A es \in Evaluations : \A e \in DOMAIN es :
    Cardinality(Columns) + Len(es) + Len(es[e]) <= Spaces

-----------------------------------------------------------------------------
(* What does not change with the plan, and what one more operation changes. *)

LEMMA MeantAre ==
  ASSUME exprs \in Evaluations, NEW x \in DOMAIN exprs
  PROVE  /\ \A i \in DOMAIN exprs[x] : Means(Meant(x)[i], exprs[x], Meant(x), i, nulls)
         /\ \A i \in 1 .. Len(exprs[x]) + 1 : Meant(x)[i].end \in i .. Len(exprs[x]) + 1
         /\ exprs[x] \in Seq(Token) /\ DOMAIN exprs[x] = 1 .. Len(exprs[x]) /\ Len(exprs[x]) \in Nat
<1> DEFINE e == exprs[x]
           F == Meant(x)
<1>1. e \in Seq(Token)
  BY EvaluationsAssumption
<1>2. DOMAIN e = 1 .. Len(e) /\ Len(e) \in Nat
  BY <1>1
<1>3. /\ \A i \in 1 .. Len(e) + 1 : F[i] = MeaningFrom(e, F, i, nulls)
      /\ \A i \in 1 .. Len(e) + 1 : F[i].end \in i .. Len(e) + 1
  BY <1>1, MeaningsAre DEF Meant
<1> HIDE DEF e, F
<1>4. ASSUME NEW i \in DOMAIN e PROVE Means(F[i], e, F, i, nulls)
  <2>1. i \in 1 .. Len(e) /\ i \in 1 .. Len(e) + 1
    BY <1>2
  <2>2. F[i] = MeaningFrom(e, F, i, nulls)
    BY <1>3, <2>1
  <2>3. Means(MeaningFrom(e, F, i, nulls), e, F, i, nulls)
    BY <1>1, <2>1, MeaningCases
  <2> QED
    BY <2>2, <2>3
<1> QED
  BY <1>1, <1>2, <1>3, <1>4 DEF e, F

LEMMA ValuesStay ==
  ASSUME exprs' = exprs, nulls' = nulls
  PROVE  /\ \A x : Meant(x)' = Meant(x)
         /\ \A p, k, made : Performs(p, k, made)' <=> Performs(p, k, made)
         /\ \A x, outs, made : FieldHeld(x, outs, made)' <=> FieldHeld(x, outs, made)
         /\ \A starts, st, x, n, outs, made :
              Stacked(starts, st, x, n, outs, made)' <=> Stacked(starts, st, x, n, outs, made)
         /\ \A st, open : FreeOrHeld(st, open)' <=> FreeOrHeld(st, open)
         /\ \A p, made, c, n : PlanMade(p, made, c, n)' <=> PlanMade(p, made, c, n)
         /\ \A st, open, made, c, n, outs :
              StackMade(st, open, made, c, n, outs)' <=> StackMade(st, open, made, c, n, outs)
         /\ \A v, x, i : IsValue(v, x, i)' <=> IsValue(v, x, i)
<1>1. AllFree' = AllFree /\ new_input_indices' = new_input_indices /\ NumInputs' = NumInputs
  BY DEF AllFree, start_processing_position, NumInputs, NumOutputs, new_input_indices, Used
<1>2. \A x : Meant(x)' = Meant(x)
  BY DEF Meant
<1>3. \A in, sc, x, i, k, outs, made :
        Comes(in, sc, x, i, k, outs, made)' <=> Comes(in, sc, x, i, k, outs, made)
  BY <1>1 DEF Comes
<1>4. \A x : final_output_position(x)' = final_output_position(x)
  BY <1>1 DEF final_output_position
<1>5. \A p, k, x, i, made : Performed(p, k, x, i, made)' <=> Performed(p, k, x, i, made)
  BY <1>1, <1>2, <1>3, <1>4 DEF Performed
<1>6. \A p, k, made : Performs(p, k, made)' <=> Performs(p, k, made)
  BY <1>5 DEF Performs
<1>7. \A x, outs, made : FieldHeld(x, outs, made)' <=> FieldHeld(x, outs, made)
  BY <1>4 DEF FieldHeld
<1>8. \A starts, st, x, n, outs, made :
        Stacked(starts, st, x, n, outs, made)' <=> Stacked(starts, st, x, n, outs, made)
  BY <1>2, <1>3 DEF Stacked
<1>9. \A st, open : FreeOrHeld(st, open)' <=> FreeOrHeld(st, open)
  BY <1>1 DEF FreeOrHeld
<1>10. HasFloat' = HasFloat /\ ChecksNulls' = ChecksNulls /\ Claimed' = Claimed
  BY DEF HasFloat, ChecksNulls, Claimed
<1>11. \A v, x, i : IsValue(v, x, i)' <=> IsValue(v, x, i)
  BY <1>2, <1>10 DEF IsValue
<1>12. \A p, made, c, n : PlanMade(p, made, c, n)' <=> PlanMade(p, made, c, n)
  BY <1>6, <1>7 DEF PlanMade
<1>13. \A st, open, made, c, n, outs :
         StackMade(st, open, made, c, n, outs)' <=> StackMade(st, open, made, c, n, outs)
  BY <1>8, <1>9 DEF StackMade
<1> QED
  BY <1>2, <1>6, <1>7, <1>8, <1>9, <1>11, <1>12, <1>13

LEMMA Appended ==
  ASSUME NEW T, NEW s \in Seq(T), NEW y \in T
  PROVE  /\ \A j \in 1 .. Len(s) : Append(s, y)[j] = s[j]
         /\ Append(s, y)[Len(s) + 1] = y
         /\ Len(Append(s, y)) = Len(s) + 1
         /\ Append(s, y) \in Seq(T)
OBVIOUS

LEMMA HoldsLonger ==
  ASSUME NEW outs \in Seq(Int), NEW made \in Seq(Nat \X Nat), NEW n \in Nat,
         Len(outs) = n, Len(made) = n, NEW y \in Int, NEW m \in Nat \X Nat,
         NEW k \in 0 .. n, NEW r, NEW x, NEW i
  PROVE  Holds(r, x, i, k, outs, made) => Holds(r, x, i, k, Append(outs, y), Append(made, m))
<1>1. /\ \A j \in 1 .. n : Append(outs, y)[j] = outs[j]
      /\ \A j \in 1 .. n : Append(made, m)[j] = made[j]
  BY Appended
<1>2. \A j \in 1 .. k : j \in 1 .. n /\ \A q \in j + 1 .. k : q \in 1 .. n
  OBVIOUS
<1> QED
  BY <1>1, <1>2 DEF Holds

LEMMA HoldsAfter ==
  ASSUME NEW outs \in Seq(Int), NEW made \in Seq(Nat \X Nat), NEW n \in Nat,
         Len(outs) = n, Len(made) = n, NEW y \in Int, NEW m \in Nat \X Nat,
         NEW r, r # y, NEW x, NEW i
  PROVE  Holds(r, x, i, n, outs, made) => Holds(r, x, i, n + 1, Append(outs, y), Append(made, m))
<1>1. /\ \A j \in 1 .. n : Append(outs, y)[j] = outs[j]
      /\ \A j \in 1 .. n : Append(made, m)[j] = made[j]
      /\ Append(outs, y)[n + 1] = y
  BY Appended
<1>2. SUFFICES ASSUME NEW j \in 1 .. n, outs[j] = r, made[j] = <<x, i>>,
                      \A q \in j + 1 .. n : outs[q] # r
               PROVE  Holds(r, x, i, n + 1, Append(outs, y), Append(made, m))
  BY DEF Holds
<1>3. \A q \in j + 1 .. n + 1 : q = n + 1 \/ (q \in j + 1 .. n /\ q \in 1 .. n)
  OBVIOUS
<1>4. \A q \in j + 1 .. n + 1 : Append(outs, y)[q] # r
  BY <1>1, <1>2, <1>3
<1>5. j \in 1 .. n + 1 /\ Append(outs, y)[j] = r /\ Append(made, m)[j] = <<x, i>>
  BY <1>1, <1>2
<1> QED
  BY <1>4, <1>5 DEF Holds

LEMMA HoldsNew ==
  ASSUME NEW outs \in Seq(Int), NEW made \in Seq(Nat \X Nat), NEW n \in Nat,
         Len(outs) = n, Len(made) = n, NEW y \in Int, NEW x \in Nat, NEW i \in Nat
  PROVE  Holds(y, x, i, n + 1, Append(outs, y), Append(made, <<x, i>>))
<1>1. Append(outs, y)[n + 1] = y /\ Append(made, <<x, i>>)[n + 1] = <<x, i>>
  BY Appended
<1>2. n + 1 \in 1 .. n + 1 /\ (n + 1) + 1 .. n + 1 = {}
  OBVIOUS
<1> QED
  BY <1>1, <1>2 DEF Holds

(* One more operation: its operator, operands and output.                  *)
Grown(q, p, t, l, a, r, b, y) ==
  /\ q.left_inputs = Append(p.left_inputs, l) /\ q.left_scalars = Append(p.left_scalars, a)
  /\ q.right_inputs = Append(p.right_inputs, r) /\ q.right_scalars = Append(p.right_scalars, b)
  /\ q.operators = Append(p.operators, t) /\ q.outputs = Append(p.outputs, y)

HasGrown(q, p, t, l, a, r, b, y, n) ==
  /\ \A k \in 1 .. n :
       /\ q.left_inputs[k] = p.left_inputs[k] /\ q.left_scalars[k] = p.left_scalars[k]
       /\ q.right_inputs[k] = p.right_inputs[k] /\ q.right_scalars[k] = p.right_scalars[k]
       /\ q.operators[k] = p.operators[k] /\ q.outputs[k] = p.outputs[k]
  /\ q.left_inputs[n + 1] = l /\ q.left_scalars[n + 1] = a
  /\ q.right_inputs[n + 1] = r /\ q.right_scalars[n + 1] = b
  /\ q.operators[n + 1] = t /\ q.outputs[n + 1] = y

LEMMA VectorsGrown ==
  ASSUME NEW p \in Vectors, NEW q, NEW t \in Token, NEW l \in Int, NEW a \in Scalar,
         NEW r \in Int, NEW b \in Scalar, NEW y \in Int, Grown(q, p, t, l, a, r, b, y),
         NEW n \in Nat, Aligned(p), Len(p.left_inputs) = n
  PROVE  HasGrown(q, p, t, l, a, r, b, y, n)
<1>1. /\ p.left_inputs \in Seq(Int) /\ p.right_inputs \in Seq(Int) /\ p.outputs \in Seq(Int)
      /\ p.operators \in Seq(Token) /\ p.left_scalars \in Seq(Scalar) /\ p.right_scalars \in Seq(Scalar)
  BY DEF Vectors
<1>2. /\ Len(p.right_inputs) = n /\ Len(p.outputs) = n /\ Len(p.operators) = n
      /\ Len(p.left_scalars) = n /\ Len(p.right_scalars) = n
  BY DEF Aligned
<1>3. (\A k \in 1 .. n : q.left_inputs[k] = p.left_inputs[k]) /\ q.left_inputs[n + 1] = l
  <2> DEFINE s == p.left_inputs
  <2>1. q.left_inputs = Append(s, l) /\ Len(s) = n /\ s \in Seq(Int)
    BY <1>1, <1>2 DEF Grown
  <2> HIDE DEF s
  <2>2. (\A k \in 1 .. n : Append(s, l)[k] = s[k]) /\ Append(s, l)[n + 1] = l
    BY <2>1, Appended
  <2> QED
    BY <2>1, <2>2 DEF s
<1>4. (\A k \in 1 .. n : q.right_inputs[k] = p.right_inputs[k]) /\ q.right_inputs[n + 1] = r
  <2> DEFINE s == p.right_inputs
  <2>1. q.right_inputs = Append(s, r) /\ Len(s) = n /\ s \in Seq(Int)
    BY <1>1, <1>2 DEF Grown
  <2> HIDE DEF s
  <2>2. (\A k \in 1 .. n : Append(s, r)[k] = s[k]) /\ Append(s, r)[n + 1] = r
    BY <2>1, Appended
  <2> QED
    BY <2>1, <2>2 DEF s
<1>5. (\A k \in 1 .. n : q.outputs[k] = p.outputs[k]) /\ q.outputs[n + 1] = y
  <2> DEFINE s == p.outputs
  <2>1. q.outputs = Append(s, y) /\ Len(s) = n /\ s \in Seq(Int)
    BY <1>1, <1>2 DEF Grown
  <2> HIDE DEF s
  <2>2. (\A k \in 1 .. n : Append(s, y)[k] = s[k]) /\ Append(s, y)[n + 1] = y
    BY <2>1, Appended
  <2> QED
    BY <2>1, <2>2 DEF s
<1>6. (\A k \in 1 .. n : q.operators[k] = p.operators[k]) /\ q.operators[n + 1] = t
  <2> DEFINE s == p.operators
  <2>1. q.operators = Append(s, t) /\ Len(s) = n /\ s \in Seq(Token)
    BY <1>1, <1>2 DEF Grown
  <2> HIDE DEF s
  <2>2. (\A k \in 1 .. n : Append(s, t)[k] = s[k]) /\ Append(s, t)[n + 1] = t
    BY <2>1, Appended
  <2> QED
    BY <2>1, <2>2 DEF s
<1>7. (\A k \in 1 .. n : q.left_scalars[k] = p.left_scalars[k]) /\ q.left_scalars[n + 1] = a
  <2> DEFINE s == p.left_scalars
  <2>1. q.left_scalars = Append(s, a) /\ Len(s) = n /\ s \in Seq(Scalar)
    BY <1>1, <1>2 DEF Grown
  <2> HIDE DEF s
  <2>2. (\A k \in 1 .. n : Append(s, a)[k] = s[k]) /\ Append(s, a)[n + 1] = a
    BY <2>1, Appended
  <2> QED
    BY <2>1, <2>2 DEF s
<1>8. (\A k \in 1 .. n : q.right_scalars[k] = p.right_scalars[k]) /\ q.right_scalars[n + 1] = b
  <2> DEFINE s == p.right_scalars
  <2>1. q.right_scalars = Append(s, b) /\ Len(s) = n /\ s \in Seq(Scalar)
    BY <1>1, <1>2 DEF Grown
  <2> HIDE DEF s
  <2>2. (\A k \in 1 .. n : Append(s, b)[k] = s[k]) /\ Append(s, b)[n + 1] = b
    BY <2>1, Appended
  <2> QED
    BY <2>1, <2>2 DEF s
<1> QED
  BY <1>3, <1>4, <1>5, <1>6, <1>7, <1>8 DEF HasGrown

LEMMA PerformedLonger ==
  ASSUME NEW p \in Vectors, NEW q, NEW t \in Token, NEW l \in Int, NEW a \in Scalar,
         NEW r \in Int, NEW b \in Scalar, NEW y \in Int, Grown(q, p, t, l, a, r, b, y),
         NEW n \in Nat, Aligned(p), Len(p.left_inputs) = n,
         NEW made \in Seq(Nat \X Nat), Len(made) = n, NEW m \in Nat \X Nat,
         NEW k \in 1 .. n, Performs(p, k, made)
  PROVE  Performs(q, k, Append(made, m))
<1>1. PICK x, i \in Nat : made[k] = <<x, i>> /\ Performed(p, k, x, i, made)
  BY DEF Performs
<1>2. /\ q.left_inputs[k] = p.left_inputs[k] /\ q.left_scalars[k] = p.left_scalars[k]
      /\ q.right_inputs[k] = p.right_inputs[k] /\ q.right_scalars[k] = p.right_scalars[k]
      /\ q.operators[k] = p.operators[k] /\ q.outputs[k] = p.outputs[k]
      /\ Append(made, m)[k] = made[k]
  <2>1. HasGrown(q, p, t, l, a, r, b, y, n)
    BY VectorsGrown
  <2>2. Append(made, m)[k] = made[k]
    BY Appended
  <2> QED
    BY <2>1, <2>2 DEF HasGrown
<1>3. k - 1 \in 0 .. n /\ Len(p.outputs) = n /\ p.outputs \in Seq(Int)
  BY DEF Aligned, Vectors
<1>4. \A s, z, j : Holds(s, z, j, k - 1, p.outputs, made) => Holds(s, z, j, k - 1, q.outputs, Append(made, m))
  BY <1>3, HoldsLonger DEF Grown
<1>5. \A in, sc, z, j : Comes(in, sc, z, j, k - 1, p.outputs, made)
                          => Comes(in, sc, z, j, k - 1, q.outputs, Append(made, m))
  BY <1>4 DEF Comes
<1>6. Performed(q, k, x, i, Append(made, m))
  BY <1>1, <1>2, <1>5 DEF Performed
<1> QED
  BY <1>1, <1>2, <1>6 DEF Performs

LEMMA PerformedNew ==
  ASSUME NEW p \in Vectors, NEW q, NEW t \in Token, NEW l \in Int, NEW a \in Scalar,
         NEW r \in Int, NEW b \in Scalar, NEW y \in Int, Grown(q, p, t, l, a, r, b, y),
         NEW n \in Nat, Aligned(p), Len(p.left_inputs) = n,
         NEW made \in Seq(Nat \X Nat), Len(made) = n,
         NEW x \in Nat, NEW i \in Nat, x \in DOMAIN exprs, i \in DOMAIN exprs[x],
         is_operator(t), t = exprs[x][i],
         Comes(l, a, x, i + 1, n, p.outputs, made),
         is_unary_operator_token(t) => r = NOT_USED,
         is_binary_operator_token(t) => Comes(r, b, x, Meant(x)[i + 1].end, n, p.outputs, made),
         i = 1 => y = final_output_position(x), i # 1 => y \in AllFree
  PROVE  Performs(q, n + 1, Append(made, <<x, i>>))
<1> DEFINE m == <<x, i>>
           k == n + 1
<1>0. m \in Nat \X Nat
  OBVIOUS
<1>1. /\ q.left_inputs[k] = l /\ q.left_scalars[k] = a
      /\ q.right_inputs[k] = r /\ q.right_scalars[k] = b
      /\ q.operators[k] = t /\ q.outputs[k] = y
      /\ Append(made, m)[k] = m
  <2>1. HasGrown(q, p, t, l, a, r, b, y, n)
    BY VectorsGrown
  <2>2. Append(made, m)[k] = m
    BY <1>0, Appended
  <2> QED
    BY <2>1, <2>2 DEF HasGrown
<1>2. k - 1 = n /\ n \in 0 .. n /\ Len(p.outputs) = n /\ p.outputs \in Seq(Int) /\ m \in Nat \X Nat
  BY DEF Aligned, Vectors
<1>3. \A s, z, j : Holds(s, z, j, n, p.outputs, made) => Holds(s, z, j, n, q.outputs, Append(made, m))
  BY <1>2, HoldsLonger DEF Grown
<1>4. \A in, sc, z, j : Comes(in, sc, z, j, n, p.outputs, made)
                          => Comes(in, sc, z, j, n, q.outputs, Append(made, m))
  BY <1>3 DEF Comes
<1> HIDE DEF k
<1>5. Performed(q, k, x, i, Append(made, m))
  BY <1>1, <1>2, <1>4 DEF Performed
<1> QED
  BY <1>1, <1>5 DEF Performs, k


-----------------------------------------------------------------------------
(* The planner keeps Planned.                                              *)

LEMMA ManyFree ==
  ASSUME RegistersSuffice, Place
  PROVE  /\ IsFiniteSet(AllFree) /\ Cardinality(AllFree) >= Len(exprs[current])
         /\ Cardinality(AllFree) \in Nat /\ start_processing_position <= Spaces
         /\ start_processing_position \in Nat
<1>1. /\ exprs \in Evaluations /\ current \in DOMAIN exprs
      /\ Len(exprs[current]) \in Nat /\ NumInputs \in Nat /\ NumOutputs \in Nat
  BY CurrentExpression, CountsAreNatural
<1>2. Cardinality(Columns) + Len(exprs) + Len(exprs[current]) <= Spaces
  BY <1>1 DEF RegistersSuffice
<1>3. NumInputs <= Cardinality(Columns) /\ Cardinality(Columns) \in Nat
  BY ColumnsAssumption, FS_Subset, FS_CardinalityType DEF Used, NumInputs
<1> DEFINE s == start_processing_position
           u == Len(exprs[current])
<1>4. s \in Nat /\ s + u <= Spaces
  <2>1. s = NumInputs + NumOutputs /\ NumOutputs = Len(exprs)
    BY DEF start_processing_position, NumOutputs
  <2> DEFINE c == Cardinality(Columns)
             i == NumInputs
             o == NumOutputs
  <2>2. /\ c + o + u <= Spaces /\ i <= c /\ s = i + o
        /\ c \in Nat /\ i \in Nat /\ o \in Nat /\ u \in Nat /\ Spaces \in Nat
    BY <1>1, <1>2, <1>3, <2>1, SpacesAssumption
  <2> HIDE DEF c, i, o, s, u
  <2> QED
    BY <2>2
<1>5. AllFree = s .. Spaces - 1
  BY <1>4, SpacesAssumption DEF AllFree
<1> HIDE DEF s
<1>6. IsFiniteSet(s .. Spaces - 1)
      /\ Cardinality(s .. Spaces - 1) = IF s > Spaces - 1 THEN 0 ELSE Spaces - 1 - s + 1
  BY <1>4, SpacesAssumption, FS_Interval
<1>7. Cardinality(s .. Spaces - 1) = Spaces - s
  BY <1>1, <1>4, <1>6, SpacesAssumption
<1> QED
  BY <1>1, <1>4, <1>5, <1>6, <1>7, SpacesAssumption DEF s

(* As long as the stack has less operands than the field has tokens, some  *)
(* register is open.                                                       *)
LEMMA SomeOpen ==
  ASSUME RegistersSuffice, Place, NEW st \in Seq(OperandSet), NEW open, FreeOrHeld(st, open),
         Len(st) < Len(exprs[current])
  PROVE  open # {}
<1>1. SUFFICES ASSUME open = {} PROVE FALSE
  OBVIOUS
<1> DEFINE S == 1 .. Len(st)
           g == [p \in AllFree |-> CHOOSE j \in S : st[j].position = p]
<1>2. Len(st) \in Nat /\ DOMAIN st = S
  OBVIOUS
<1>3. \A p \in AllFree : \E j \in S : st[j].position = p
  BY <1>1, <1>2 DEF FreeOrHeld
<1>4. IsFiniteSet(S) /\ Cardinality(S) = Len(st)
  <2>1. IsFiniteSet(1 .. Len(st)) /\ Cardinality(1 .. Len(st)) = IF 1 > Len(st) THEN 0 ELSE Len(st) - 1 + 1
    <3> DEFINE n == Len(st)
    <3>1. 1 \in Int /\ n \in Int
      BY <1>2
    <3> HIDE DEF n
    <3>2. IsFiniteSet(1 .. n) /\ Cardinality(1 .. n) = IF 1 > n THEN 0 ELSE n - 1 + 1
      BY <3>1, FS_Interval
    <3> QED
      BY <3>2 DEF n
  <2> QED
    BY <1>2, <2>1
<1> HIDE DEF S
<1>5. g \in [AllFree -> S] /\ \A p \in AllFree : st[g[p]].position = p
  BY <1>3
<1>6. /\ IsFiniteSet(AllFree) /\ Cardinality(AllFree) >= Len(exprs[current])
      /\ Cardinality(AllFree) \in Nat
  BY ManyFree
<1>7. Cardinality(S) < Cardinality(AllFree)
  BY <1>2, <1>4, <1>6, CurrentExpression
<1> HIDE DEF g
<1>8. PICK x, y \in AllFree : x # y /\ g[x] = g[y]
  BY <1>4, <1>5, <1>6, <1>7, FS_PigeonHole
<1> QED
  BY <1>5, <1>8

(* The output register of an operator: no operand that is left has it, nor *)
(* has another field.                                                      *)
LEMMA PlanMadeLonger ==
  ASSUME IInv, PInv, NEW made, PlanMade(plan, made, current, left), left > 0,
         is_operator(exprs[current][left]),
         NEW q, NEW l \in Int, NEW a \in Scalar, NEW r \in Int, NEW b \in Scalar, NEW y \in Int,
         Grown(q, plan, exprs[current][left], l, a, r, b, y),
         Comes(l, a, current, left + 1, Len(made), plan.outputs, made),
         is_unary_operator_token(exprs[current][left]) => r = NOT_USED,
         is_binary_operator_token(exprs[current][left]) =>
           Comes(r, b, current, Meant(current)[left + 1].end, Len(made), plan.outputs, made),
         left = 1 => y = final_output_position(current), left # 1 => y \in AllFree
  PROVE  PlanMade(q, Append(made, <<current, left>>), current, left - 1)
<1> DEFINE t == exprs[current][left]
           m == <<current, left>>
           n == Len(made)
           outs == plan.outputs
<1>1. /\ Place /\ current \in Nat /\ left \in Nat /\ current \in DOMAIN exprs
      /\ left \in DOMAIN exprs[current] /\ t \in Token /\ m \in Nat \X Nat
      /\ current \in 1 .. NumOutputs /\ NumInputs \in Nat /\ NumOutputs \in Nat
  BY CurrentExpression, CurrentToken, CountsAreNatural DEF IInv, NumOutputs
<1>2. /\ made \in Seq(Nat \X Nat) /\ n \in Nat /\ n = Len(outs) /\ outs \in Seq(Int)
      /\ plan \in Vectors /\ Aligned(plan) /\ Len(plan.left_inputs) = n
  BY DEF PlanMade, PInv, Vectors, Aligned
<1>3. Append(made, m) \in Seq(Nat \X Nat) /\ Len(Append(made, m)) = n + 1
  BY <1>1, <1>2, Appended
<1>4. q.outputs = Append(outs, y) /\ Len(q.outputs) = n + 1
  BY <1>2, Appended DEF Grown
<1>5. ASSUME NEW k \in 1 .. n PROVE Performs(q, k, Append(made, m))
  <2>1. Performs(plan, k, made)
    BY DEF PlanMade
  <2> HIDE DEF t, m, n
  <2> QED
    BY <1>1, <1>2, <2>1, PerformedLonger DEF t, n
<1>6. Performs(q, n + 1, Append(made, m))
  <2> HIDE DEF t, n
  <2> QED
    BY <1>1, <1>2, PerformedNew DEF t, n
<1>7. ASSUME NEW x \in 1 .. current, x < current \/ left - 1 = 0
      PROVE  FieldHeld(x, q.outputs, Append(made, m))
  <2>1. CASE x < current
    <3>1. Holds(final_output_position(x), x, 1, n, outs, made)
      BY <1>2, <2>1 DEF PlanMade, FieldHeld
    <3>2. final_output_position(x) # y
      <4>1. CASE left = 1
        BY <1>1, <2>1, <4>1 DEF final_output_position
      <4>2. CASE left # 1
        BY <1>1, <2>1, <4>2 DEF final_output_position, AllFree, start_processing_position
      <4> QED
        BY <4>1, <4>2
    <3> HIDE DEF m, n, outs
    <3>3. Holds(final_output_position(x), x, 1, n + 1, Append(outs, y), Append(made, m))
      BY <1>1, <1>2, <3>1, <3>2, HoldsAfter DEF n
    <3> QED
      BY <1>4, <3>3 DEF FieldHeld
  <2>2. CASE x = current
    <3>1. left = 1 /\ y = final_output_position(x)
      BY <1>1, <1>7, <2>2
    <3>2. Holds(y, current, left, n + 1, Append(outs, y), Append(made, m))
      <4> HIDE DEF n, outs
      <4> QED
        BY <1>1, <1>2, HoldsNew DEF n
    <3> HIDE DEF m, n, outs
    <3> QED
      BY <1>4, <2>2, <3>1, <3>2 DEF FieldHeld
  <2> QED
    BY <1>1, <2>1, <2>2
<1>8. \A k \in 1 .. n + 1 : Performs(q, k, Append(made, m))
  <2>1. \A k \in 1 .. n + 1 : k \in 1 .. n \/ k = n + 1
    BY <1>2
  <2> HIDE DEF n, m
  <2> QED
    BY <1>5, <1>6, <2>1
<1> HIDE DEF n, m
<1> QED
  BY <1>3, <1>4, <1>7, <1>8 DEF PlanMade, m

(* The operands that are left on the stack stay what they are.             *)
LEMMA ComesAfter ==
  ASSUME NEW outs \in Seq(Int), NEW made \in Seq(Nat \X Nat), NEW n \in Nat,
         Len(outs) = n, Len(made) = n, NEW y \in Int, NEW m \in Nat \X Nat,
         NEW in, NEW sc, NEW x, NEW i, in # y \/ y \notin AllFree,
         Comes(in, sc, x, i, n, outs, made)
  PROVE  Comes(in, sc, x, i, n + 1, Append(outs, y), Append(made, m))
<1>1. in # y /\ Holds(in, x, i, n, outs, made) =>
        Holds(in, x, i, n + 1, Append(outs, y), Append(made, m))
  BY HoldsAfter
<1> QED
  BY <1>1 DEF Comes


LEMMA PushedAt ==
  ASSUME NEW T, NEW s \in Seq(T), NEW o \in T
  PROVE  /\ <<o>> \o s \in Seq(T) /\ Len(<<o>> \o s) = Len(s) + 1 /\ (<<o>> \o s)[1] = o
         /\ \A j \in 1 .. Len(s) : (<<o>> \o s)[j + 1] = s[j]
OBVIOUS

LEMMA TailAt ==
  ASSUME NEW T, NEW s \in Seq(T), Len(s) >= 1
  PROVE  /\ Tail(s) \in Seq(T) /\ Len(Tail(s)) = Len(s) - 1
         /\ \A j \in 1 .. Len(s) - 1 : Tail(s)[j] = s[j + 1]
OBVIOUS

LEMMA StackedPush ==
  ASSUME NEW T, NEW st \in Seq(T), NEW starts \in Seq(Nat), NEW x, NEW i \in Nat \ {0}, NEW outs, NEW made,
         NEW e \in Int, e = Meant(x)[i].end, Stacked(starts, st, x, e - 1, outs, made), NEW o \in T,
         Comes(InputOf(o), o.token, x, i, Len(outs), outs, made)
  PROVE  Stacked(<<i>> \o starts, <<o>> \o st, x, i - 1, outs, made)
<1> DEFINE s == <<i>> \o starts
           u == <<o>> \o st
           n == Len(st)
<1>1. /\ n \in Nat /\ Len(starts) = n + 1 /\ starts[1] = e
  BY DEF Stacked
<1>2. Len(s) = Len(starts) + 1 /\ s[1] = i /\ \A j \in 1 .. Len(starts) : s[j + 1] = starts[j]
  BY PushedAt
<1>3. Len(u) = n + 1 /\ u[1] = o /\ \A j \in 1 .. n : u[j + 1] = st[j]
  BY PushedAt
<1> HIDE DEF s, u, n
<1>4. s[1] = i - 1 + 1 /\ Len(s) = Len(u) + 1
  BY <1>1, <1>2, <1>3
<1>5. ASSUME NEW j \in 1 .. Len(u)
      PROVE  /\ s[j + 1] = Meant(x)[s[j]].end
             /\ Comes(InputOf(u[j]), u[j].token, x, s[j], Len(outs), outs, made)
  <2>1. CASE j = 1
    <3>1. s[j] = i /\ s[j + 1] = starts[1] /\ u[j] = o
      BY <1>1, <1>2, <1>3, <2>1
    <3> QED
      BY <1>1, <3>1
  <2>2. CASE j # 1
    <3> DEFINE k == j - 1
    <3>1. k \in 1 .. n /\ k + 1 = j /\ k + 1 \in 1 .. Len(starts) /\ k \in 1 .. Len(starts)
      BY <1>1, <1>3, <2>2
    <3>2. s[j] = starts[k] /\ s[j + 1] = starts[k + 1] /\ u[j] = st[k]
      BY <1>2, <1>3, <3>1
    <3> HIDE DEF k
    <3>3. /\ starts[k + 1] = Meant(x)[starts[k]].end
          /\ Comes(InputOf(st[k]), st[k].token, x, starts[k], Len(outs), outs, made)
      BY <3>1 DEF Stacked, n
    <3> QED
      BY <3>2, <3>3
  <2> QED
    BY <2>1, <2>2
<1> QED
  BY <1>4, <1>5 DEF Stacked, s, u

LEMMA StackedPop ==
  ASSUME NEW T, NEW st \in Seq(T), NEW starts \in Seq(Nat), NEW x, NEW n \in Nat, NEW outs, NEW made,
         Stacked(starts, st, x, n, outs, made), Len(st) >= 1
  PROVE  /\ Stacked(Tail(starts), Tail(st), x, Meant(x)[n + 1].end - 1, outs, made)
         /\ Tail(starts) \in Seq(Nat) /\ Meant(x)[n + 1].end \in Nat
         /\ Comes(InputOf(st[1]), st[1].token, x, n + 1, Len(outs), outs, made)
<1> DEFINE s == Tail(starts)
           u == Tail(st)
           e == Meant(x)[n + 1].end
<1>1. /\ Len(st) \in Nat /\ Len(starts) = Len(st) + 1 /\ starts[1] = n + 1
      /\ \A j \in 1 .. Len(st) :
           /\ starts[j + 1] = Meant(x)[starts[j]].end
           /\ Comes(InputOf(st[j]), st[j].token, x, starts[j], Len(outs), outs, made)
  BY DEF Stacked
<1>2. s \in Seq(Nat) /\ Len(s) = Len(starts) - 1 /\ \A j \in 1 .. Len(starts) - 1 : s[j] = starts[j + 1]
  BY <1>1, TailAt
<1>3. Len(u) = Len(st) - 1 /\ \A j \in 1 .. Len(st) - 1 : u[j] = st[j + 1]
  BY TailAt
<1> HIDE DEF s, u
<1>4. starts[2] = e
  <2>1. 1 \in 1 .. Len(st) /\ 1 + 1 = 2
    BY <1>1
  <2> QED
    BY <1>1, <2>1
<1>5. e \in Nat
  <2>1. 2 \in 1 .. Len(starts)
    BY <1>1
  <2> QED
    BY <1>4, <2>1
<1> HIDE DEF e
<1>6. Len(s) = Len(u) + 1 /\ s[1] = e - 1 + 1
  BY <1>1, <1>2, <1>3, <1>4, <1>5
<1>7. ASSUME NEW j \in 1 .. Len(u)
      PROVE  /\ s[j + 1] = Meant(x)[s[j]].end
             /\ Comes(InputOf(u[j]), u[j].token, x, s[j], Len(outs), outs, made)
  <2> DEFINE k == j + 1
  <2>1. k \in 1 .. Len(st) /\ j \in 1 .. Len(st) - 1 /\ j \in 1 .. Len(starts) - 1
        /\ k \in 1 .. Len(starts) - 1
    BY <1>1, <1>3
  <2>2. s[j] = starts[k] /\ s[k] = starts[k + 1] /\ u[j] = st[k]
    BY <1>2, <1>3, <2>1
  <2> HIDE DEF k
  <2>3. /\ starts[k + 1] = Meant(x)[starts[k]].end
        /\ Comes(InputOf(st[k]), st[k].token, x, starts[k], Len(outs), outs, made)
    BY <1>1, <2>1
  <2>4. s[j + 1] = starts[k + 1]
    BY <2>2 DEF k
  <2> QED
    BY <2>2, <2>3, <2>4
<1>8. Comes(InputOf(st[1]), st[1].token, x, n + 1, Len(outs), outs, made)
  <2>1. 1 \in 1 .. Len(st)
    BY <1>1
  <2> QED
    BY <1>1, <2>1
<1> QED
  BY <1>2, <1>5, <1>6, <1>7, <1>8 DEF Stacked, s, u, e

LEMMA StackedAfter ==
  ASSUME NEW outs \in Seq(Int), NEW made \in Seq(Nat \X Nat), Len(outs) = Len(made),
         NEW y \in AllFree, y \in Int, NEW m \in Nat \X Nat, NEW st, NEW starts, NEW x, NEW n,
         Stacked(starts, st, x, n, outs, made),
         \A j \in 1 .. Len(st) : InputOf(st[j]) # y
  PROVE  Stacked(starts, st, x, n, Append(outs, y), Append(made, m))
<1>1. Len(outs) \in Nat /\ Len(Append(outs, y)) = Len(outs) + 1
  BY Appended
<1>2. ASSUME NEW j \in 1 .. Len(st)
      PROVE  Comes(InputOf(st[j]), st[j].token, x, starts[j], Len(outs) + 1, Append(outs, y), Append(made, m))
  <2>1. Comes(InputOf(st[j]), st[j].token, x, starts[j], Len(outs), outs, made)
    BY DEF Stacked
  <2> DEFINE k == Len(outs)
  <2>2. k \in Nat /\ Len(outs) = k /\ Len(made) = k
    BY <1>1
  <2> HIDE DEF k
  <2>3. Comes(InputOf(st[j]), st[j].token, x, starts[j], k, outs, made)
    BY <2>1 DEF k
  <2> QED
    BY <2>2, <2>3, ComesAfter
<1> QED
  BY <1>1, <1>2 DEF Stacked

(* The operator leaves its value in a register that was open.              *)
LEMMA StackMadeLonger ==
  ASSUME RegistersSuffice, IInv, PInv, left > 1, is_operator(exprs[current][left]),
         NEW made \in Seq(Nat \X Nat), Len(plan.outputs) = Len(made),
         NEW st \in Seq(OperandSet), NEW open \in SUBSET AllFree, Apart(st, open),
         FreeOrHeld(st, open), Len(st) <= Len(exprs[current]) - left,
         NEW starts \in Seq(Nat), NEW e \in Nat, e = Meant(current)[left].end,
         Stacked(starts, st, current, e - 1, plan.outputs, made),
         NEW y, y = get_first_open_position(open)
  PROVE  /\ y \in AllFree
         /\ StackMade(<<[token |-> Column(y), position |-> y]>> \o st, open \ {y},
                      Append(made, <<current, left>>), current, left - 1, Append(plan.outputs, y))
<1> DEFINE o == [token |-> Column(y), position |-> y]
           u == <<o>> \o st
           m == <<current, left>>
           outs == plan.outputs
<1>1. /\ Place /\ current \in Nat /\ left \in Nat /\ current \in DOMAIN exprs
      /\ left \in DOMAIN exprs[current] /\ m \in Nat \X Nat /\ Len(exprs[current]) \in Nat
      /\ NumInputs \in Nat /\ NumOutputs \in Nat /\ AllFree \in SUBSET Nat
      /\ exprs[current] \in Seq(Token)
  <2>1. Place
    BY DEF IInv
  <2>2. /\ NumInputs \in Nat /\ NumOutputs \in Nat /\ AllFree \in SUBSET Nat
    BY <2>1, CountsAreNatural
  <2>3. /\ exprs \in Evaluations /\ current \in DOMAIN exprs
        /\ exprs \in Seq(Seq(Token)) /\ exprs[current] \in Seq(Token)
        /\ DOMAIN exprs[current] = 1 .. Len(exprs[current])
        /\ Len(exprs[current]) \in Nat /\ left \in 0 .. Len(exprs[current])
    BY <2>1, CurrentExpression
  <2>4. current \in Nat
    BY <2>3
  <2> QED
    BY <2>1, <2>2, <2>3, <2>4
<1>2. open # {}
  <2>1. Len(st) < Len(exprs[current])
    <3> DEFINE n == Len(exprs[current])
    <3>1. n \in Nat /\ left \in Nat /\ left > 1 /\ Len(st) \in Nat /\ Len(st) <= n - left
      BY <1>1
    <3> HIDE DEF n
    <3>2. Len(st) < n
      BY <3>1
    <3> QED
      BY <3>2 DEF n
  <2> QED
    BY <1>1, <2>1, SomeOpen
<1>3. y \in open /\ y \in AllFree /\ y \in Int /\ y \in Nat
  <2>1. open \in SUBSET Nat
    BY <1>1
  <2>2. y \in open
    BY <1>2, <2>1, FirstOpenIsOpen
  <2> QED
    BY <2>1, <2>2
<1>4. outs \in Seq(Int)
  BY DEF PInv, Vectors
<1>5. DOMAIN st = 1 .. Len(st) /\ Len(st) \in Nat
  OBVIOUS
<1>6. \A j \in 1 .. Len(st) : InputOf(st[j]) # y
  <2>1. \A j \in DOMAIN st : st[j].position # y
    BY <1>1, <1>3 DEF Apart, AllFree, start_processing_position
  <2>2. SCALAR_INDEX # y
    BY <1>3 DEF SCALAR_INDEX
  <2> QED
    BY <1>5, <2>1, <2>2 DEF InputOf
<1>7. Stacked(starts, st, current, e - 1, Append(outs, y), Append(made, m))
  <2> HIDE DEF m, outs
  <2> QED
    BY <1>1, <1>3, <1>4, <1>6, StackedAfter DEF outs
<1>8. InputOf(o) = y
  BY DEF InputOf, is_literal, Column
<1>9. Comes(InputOf(o), o.token, current, left, Len(Append(outs, y)), Append(outs, y), Append(made, m))
  <2>1. Len(Append(outs, y)) = Len(made) + 1 /\ Len(made) \in Nat
    <3>1. Len(Append(outs, y)) = Len(outs) + 1 /\ Len(outs) \in Nat
      <4> HIDE DEF outs
      <4> QED
        BY <1>3, <1>4, Appended
    <3> QED
      BY <3>1
  <2>2. Holds(y, current, left, Len(made) + 1, Append(outs, y), Append(made, m))
    <3> DEFINE n == Len(made)
    <3>1. n \in Nat /\ Len(outs) = n /\ Len(made) = n
      BY <2>1
    <3> HIDE DEF n, outs
    <3>2. Holds(y, current, left, n + 1, Append(outs, y), Append(made, <<current, left>>))
      BY <1>1, <1>3, <1>4, <3>1, HoldsNew
    <3> QED
      BY <3>2 DEF n
  <2>3. ~is_literal(exprs[current][left]) /\ exprs[current][left].kind \notin {"column", "other"}
    BY DEF is_operator, is_literal, is_binary_operator_token, is_unary_operator_token
  <2> HIDE DEF o, m, outs
  <2> QED
    BY <1>1, <1>3, <1>8, <2>1, <2>2, <2>3 DEF Comes
<1>10. FreeOrHeld(u, open \ {y})
  <2> DEFINE T == OperandSet \cup {o}
  <2>1. st \in Seq(T) /\ o \in T
    BY <1>5
  <2> HIDE DEF T, o
  <2>2. u \in Seq(T) /\ Len(u) = Len(st) + 1 /\ u[1] = o /\ \A j \in 1 .. Len(st) : u[j + 1] = st[j]
    BY <2>1, PushedAt
  <2> HIDE DEF u
  <2>3. DOMAIN u = 1 .. Len(st) + 1
    BY <2>2
  <2>4. ASSUME NEW p \in AllFree, p \notin open \ {y} PROVE \E j \in DOMAIN u : u[j].position = p /\ ~is_literal(u[j].token)
    <3>1. CASE p = y
      <4>1. 1 \in DOMAIN u /\ u[1].position = y /\ ~is_literal(u[1].token)
        BY <1>5, <2>2, <2>3 DEF o, is_literal, Column
      <4> QED
        BY <3>1, <4>1
    <3>2. CASE p # y
      <4>1. PICK j \in DOMAIN st : st[j].position = p /\ ~is_literal(st[j].token)
        BY <2>4, <3>2 DEF FreeOrHeld
      <4>2. j + 1 \in DOMAIN u /\ u[j + 1].position = p /\ ~is_literal(u[j + 1].token)
        BY <1>5, <2>2, <2>3, <4>1
      <4> QED
        BY <4>2
    <3> QED
      BY <3>1, <3>2
  <2> QED
    BY <2>4 DEF FreeOrHeld
<1>11. Len(u) <= Len(exprs[current]) - (left - 1)
  <2>1. Len(u) = Len(st) + 1
    BY <1>5
  <2> HIDE DEF u
  <2> QED
    BY <1>1, <1>5, <2>1
<1>12. Stacked(<<left>> \o starts, u, current, left - 1, Append(outs, y), Append(made, m))
  <2> DEFINE T == OperandSet \cup {o}
  <2>1. st \in Seq(T) /\ o \in T
    BY <1>5
  <2>2. left \in Nat \ {0}
    BY <1>1
  <2> DEFINE O == Append(outs, y)
             M == Append(made, m)
  <2>3. /\ Stacked(starts, st, current, e - 1, O, M) /\ e \in Int
        /\ Comes(InputOf(o), o.token, current, left, Len(O), O, M)
    BY <1>7, <1>9
  <2> HIDE DEF T, o, m, outs, O, M
  <2>4. Stacked(<<left>> \o starts, <<o>> \o st, current, left - 1, O, M)
    BY <2>1, <2>2, <2>3, StackedPush
  <2> QED
    BY <2>4 DEF O, M
<1>13. <<left>> \o starts \in Seq(Nat)
  BY <1>1
<1> HIDE DEF o, u, m, outs
<1>14. StackMade(u, open \ {y}, Append(made, m), current, left - 1, Append(outs, y))
  BY <1>10, <1>11, <1>12, <1>13 DEF StackMade
<1> QED
  BY <1>3, <1>14 DEF u, o, m, outs


(* The vectors while the output of the operator is still missing.          *)
Begun(p, t, l, a, r, b) ==
  /\ p \in Vectors /\ p.outputs = plan.outputs /\ p.operators = Append(plan.operators, t)
  /\ p.left_inputs = Append(plan.left_inputs, l) /\ p.left_scalars = Append(plan.left_scalars, a)
  /\ p.right_inputs = Append(plan.right_inputs, r) /\ p.right_scalars = Append(plan.right_scalars, b)

LEMMA BinaryBegins ==
  ASSUME plan \in Vectors, NEW t \in Token,
         NEW a \in [token : Scalar, position : Int], NEW b \in [token : Scalar, position : Int],
         ~(is_literal(a.token) /\ is_literal(b.token))
  PROVE  Begun(WithBinary(t, a, b), t, InputOf(a), a.token, InputOf(b), b.token)
<1>1. Extended(WithBinary(t, a, b), InputOf(a), InputOf(b))
  BY BinaryExtends
<1>2. WithBinary(t, a, b) =
        [left_inputs |-> Append(plan.left_inputs, InputOf(a)),
         right_inputs |-> Append(plan.right_inputs, InputOf(b)),
         outputs |-> plan.outputs, operators |-> Append(plan.operators, t),
         left_scalars |-> Append(plan.left_scalars, a.token),
         right_scalars |-> Append(plan.right_scalars, b.token)]
  BY DEF WithBinary, WithOperator, Vectors
<1> QED
  BY <1>1, <1>2 DEF Begun, Extended

LEMMA UnaryBegins ==
  ASSUME plan \in Vectors, NEW t \in Token,
         NEW a \in [token : Scalar, position : Int], ~is_literal(a.token)
  PROVE  Begun(WithUnary(t, a), t, InputOf(a), a.token, NOT_USED, a.token)
<1>1. Extended(WithUnary(t, a), InputOf(a), NOT_USED)
  BY UnaryExtends
<1>2. WithUnary(t, a) =
        [left_inputs |-> Append(plan.left_inputs, InputOf(a)),
         right_inputs |-> Append(plan.right_inputs, NOT_USED),
         outputs |-> plan.outputs, operators |-> Append(plan.operators, t),
         left_scalars |-> Append(plan.left_scalars, a.token),
         right_scalars |-> Append(plan.right_scalars, a.token)]
  BY DEF WithUnary, WithOperator, Vectors
<1> QED
  BY <1>1, <1>2 DEF Begun, Extended

LEMMA OutputPlanned ==
  ASSUME RegistersSuffice, IInv, PInv, Reading, NEW made, Planned(made),
         is_operator(exprs[current][left]),
         NEW p, NEW l \in Int, NEW a \in Scalar, NEW r \in Int, NEW b \in Scalar,
         Begun(p, exprs[current][left], l, a, r, b),
         NEW rest \in Seq(OperandSet), NEW open \in SUBSET AllFree, Apart(rest, open),
         Output(p, rest, open), FreeOrHeld(rest, open),
         Len(rest) <= Len(exprs[current]) - left,
         Comes(l, a, current, left + 1, Len(made), plan.outputs, made),
         is_unary_operator_token(exprs[current][left]) => r = NOT_USED,
         is_binary_operator_token(exprs[current][left]) =>
           Comes(r, b, current, Meant(current)[left + 1].end, Len(made), plan.outputs, made),
         NEW starts \in Seq(Nat), NEW e \in Nat, e = Meant(current)[left].end,
         Stacked(starts, rest, current, e - 1, plan.outputs, made)
  PROVE  \E m : Planned(m)'
<1> DEFINE t == exprs[current][left]
<1>0. PICK m : m = Append(made, <<current, left>>)
  OBVIOUS
<1>1. /\ exprs' = exprs /\ nulls' = nulls /\ current' = current /\ left' = left - 1 /\ left > 0
      /\ phase = "plan" /\ phase' = "plan"
  BY DEF Reading
<1>2. /\ left \in Nat /\ current \in Nat /\ NumInputs \in Nat /\ AllFree \in SUBSET Nat
  <2>1. Place
    BY DEF IInv
  <2>2. NumInputs \in Nat /\ AllFree \in SUBSET Nat
    BY <2>1, CountsAreNatural
  <2>3. /\ current \in DOMAIN exprs /\ exprs \in Seq(Seq(Token))
        /\ Len(exprs[current]) \in Nat /\ left \in 0 .. Len(exprs[current])
    BY <2>1, CurrentExpression
  <2>4. current \in Nat
    BY <2>3
  <2>5. left \in Nat
    BY <2>3
  <2> QED
    BY <2>2, <2>4, <2>5
<1>3. PlanMade(plan, made, current, left) /\ made \in Seq(Nat \X Nat) /\ Len(plan.outputs) = Len(made)
  BY DEF Planned, PlanMade
<1>4. PlanMade(plan', m, current, left - 1)
      /\ (left > 1 => StackMade(stack', free', m, current, left - 1, plan'.outputs))
  <2>1. CASE left = 1
    <3> DEFINE y == final_output_position(current)
    <3>1. plan' = [p EXCEPT !.outputs = Append(@, y)]
      BY <2>1 DEF Output
    <3>2. y \in Int
      BY <1>2 DEF final_output_position
    <3> HIDE DEF y
    <3>3. Grown(plan', plan, t, l, a, r, b, y)
      BY <3>1 DEF Begun, Grown, Vectors
    <3>4. left = 1 => y = final_output_position(current)
      BY DEF y
    <3> HIDE DEF t
    <3>5. PlanMade(plan', m, current, left - 1)
      BY <1>1, <1>3, <2>1, <3>2, <3>3, <3>4, PlanMadeLonger, <1>0 DEF t
    <3> QED
      BY <2>1, <3>5
  <2>2. CASE left # 1
    <3> DEFINE y == get_first_open_position(open)
               o == [token |-> Column(y), position |-> y]
    <3>1. /\ plan' = [p EXCEPT !.outputs = Append(@, y)]
          /\ stack' = <<o>> \o rest /\ free' = open \ {y}
      BY <2>2 DEF Output
    <3>2. left > 1
      BY <1>1, <1>2, <2>2
    <3> HIDE DEF y
    <3>3. /\ y \in AllFree
          /\ StackMade(<<o>> \o rest, open \ {y}, m, current, left - 1, Append(plan.outputs, y))
      BY <1>0, <1>3, <3>2, StackMadeLonger DEF y
    <3>4. y \in Int
      BY <1>2, <3>3
    <3>5. Grown(plan', plan, t, l, a, r, b, y)
      BY <3>1 DEF Begun, Grown, Vectors
    <3> HIDE DEF t
    <3>6. PlanMade(plan', m, current, left - 1)
      BY <1>1, <1>3, <2>2, <3>3, <3>4, <3>5, PlanMadeLonger, <1>0 DEF t
    <3>7. plan'.outputs = Append(plan.outputs, y)
      BY <3>5 DEF Grown
    <3> QED
      BY <3>1, <3>3, <3>6, <3>7
  <2> QED
    BY <2>1, <2>2
<1>5. PlanMade(plan, m, current, left)'
  BY <1>1, <1>4, ValuesStay
<1>6. (phase = "plan" /\ left > 0 => StackMade(stack, free, m, current, left, plan.outputs))'
  BY <1>1, <1>2, <1>4, ValuesStay
<1> QED
  BY <1>5, <1>6 DEF Planned


LEMMA FreeOrHeldPop ==
  ASSUME Place, NEW st \in Seq(OperandSet), Len(st) >= 1, NEW open, FreeOrHeld(st, open)
  PROVE  FreeOrHeld(Tail(st), open \cup Released({st[1]}))
<1> DEFINE rest == Tail(st)
           released == Released({st[1]})
<1>1. /\ 1 \in DOMAIN st /\ DOMAIN st = 1 .. Len(st) /\ Len(st) \in Nat
      /\ \A j \in DOMAIN st : j # 1 => j - 1 \in DOMAIN rest /\ rest[j - 1] = st[j]
  OBVIOUS
<1>2. ASSUME NEW p \in AllFree, st[1].position = p, ~is_literal(st[1].token) PROVE p \in released
  <2>1. p >= start_processing_position
    BY DEF AllFree
  <2> QED
    BY <1>2, <2>1 DEF Released
<1> HIDE DEF rest, released
<1>3. ASSUME NEW p \in AllFree, p \notin open \cup released
      PROVE  \E j \in DOMAIN rest : rest[j].position = p /\ ~is_literal(rest[j].token)
  <2>1. PICK j \in DOMAIN st : st[j].position = p /\ ~is_literal(st[j].token)
    BY <1>3 DEF FreeOrHeld
  <2>2. j # 1
    BY <1>2, <1>3, <2>1
  <2> QED
    BY <1>1, <2>1, <2>2
<1> QED
  BY <1>3 DEF FreeOrHeld, rest, released

LEMMA ReleasedBoth ==
  ASSUME NEW a, NEW b
  PROVE  Released({a, b}) = Released({a}) \cup Released({b})
BY DEF Released

LEMMA FreeOrHeldPopTwo ==
  ASSUME Place, NEW st \in Seq(OperandSet), Len(st) >= 2, NEW open, FreeOrHeld(st, open)
  PROVE  FreeOrHeld(Tail(Tail(st)), open \cup Released({st[1], st[2]}))
<1>1. Tail(st) \in Seq(OperandSet) /\ Len(Tail(st)) >= 1 /\ Tail(st)[1] = st[2] /\ Len(st) >= 1
  OBVIOUS
<1> DEFINE first == open \cup Released({st[1]})
           rest == Tail(st)
<1>2. FreeOrHeld(rest, first)
  BY <1>1, FreeOrHeldPop
<1> HIDE DEF first, rest
<1>3. FreeOrHeld(Tail(rest), first \cup Released({rest[1]}))
  BY <1>1, <1>2, FreeOrHeldPop DEF rest
<1>4. first \cup Released({rest[1]}) = open \cup Released({st[1], st[2]})
  <2>1. Released({st[1], st[2]}) = Released({st[1]}) \cup Released({st[2]})
    BY ReleasedBoth
  <2>2. rest[1] = st[2]
    BY <1>1 DEF rest
  <2> QED
    BY <2>1, <2>2 DEF first
<1> QED
  BY <1>3, <1>4 DEF rest

(* What is known of the stack when an operator is read.                    *)
LEMMA StackIs ==
  ASSUME Place, NEW made, Planned(made), phase = "plan", left > 0
  PROVE  /\ made \in Seq(Nat \X Nat) /\ Len(plan.outputs) = Len(made)
         /\ Len(stack) <= Len(exprs[current]) - left /\ FreeOrHeld(stack, free)
         /\ \E starts \in Seq(Nat) : Stacked(starts, stack, current, left, plan.outputs, made)
BY DEF Planned, PlanMade, StackMade

LEMMA MeansOperator ==
  ASSUME Place, left > 0, is_operator(exprs[current][left])
  PROVE  /\ is_unary_operator_token(exprs[current][left]) =>
              Meant(current)[left].end = Meant(current)[left + 1].end
         /\ is_binary_operator_token(exprs[current][left]) =>
              Meant(current)[left].end = Meant(current)[Meant(current)[left + 1].end].end
<1> DEFINE e == exprs[current]
           F == Meant(current)
           t == e[left]
           l == F[left + 1]
           r == F[l.end]
<1>1. exprs \in Evaluations /\ current \in DOMAIN exprs /\ left \in DOMAIN e
  BY CurrentExpression
<1>2. Means(F[left], e, F, left, nulls)
  BY <1>1, MeantAre
<1>3. /\ t.kind = "unary" => F[left] = [end |-> l.end, value |-> <<t>> \o l.value, valid |-> l.valid]
      /\ t.kind = "is_null" => F[left] = [end |-> l.end, value |-> <<Bool(~l.valid)>>, valid |-> TRUE]
      /\ t.kind = "coalesce" => F[left] = [end |-> r.end,
                                           value |-> IF l.valid THEN l.value ELSE r.value,
                                           valid |-> l.valid \/ r.valid]
      /\ t.kind = "binary" => F[left] = [end |-> r.end, value |-> <<t>> \o l.value \o r.value,
                                         valid |-> l.valid /\ r.valid]
  BY <1>2 DEF Means
<1> HIDE DEF t, l, r, F, e
<1>4. t.kind = "unary" => F[left].end = l.end
  BY <1>3
<1>5. t.kind = "is_null" => F[left].end = l.end
  BY <1>3
<1>6. t.kind = "coalesce" => F[left].end = r.end
  <2> DEFINE v == IF l.valid THEN l.value ELSE r.value
             b == l.valid \/ r.valid
  <2>1. t.kind = "coalesce" => F[left] = [end |-> r.end, value |-> v, valid |-> b]
    BY <1>3
  <2> HIDE DEF v, b
  <2> QED
    BY <2>1
<1>7. t.kind = "binary" => F[left].end = r.end
  <2> DEFINE v == <<t>> \o l.value \o r.value
             b == l.valid /\ r.valid
  <2>1. t.kind = "binary" => F[left] = [end |-> r.end, value |-> v, valid |-> b]
    BY <1>3
  <2> HIDE DEF v, b
  <2> QED
    BY <2>1
<1> QED
  BY <1>4, <1>5, <1>6, <1>7 DEF is_unary_operator_token, is_binary_operator_token, t, l, r, F, e

LEMMA UnaryPlanned ==
  ASSUME RegistersSuffice, OperatorsReadColumns, IInv, LInv, PInv, NEW made, Planned(made), ReadUnary
  PROVE  \E m : Planned(m)'
<1> DEFINE t == exprs[current][left]
           a == stack[1]
           rest == Tail(stack)
           open == free \cup Released({a})
<1>1. /\ Reading /\ phase = "plan" /\ left > 0 /\ Len(stack) >= 1
      /\ is_unary_operator_token(t) /\ Output(WithUnary(t, a), rest, open)
  BY DEF ReadUnary, Reading
<1>2. Place /\ stack \in Seq(OperandSet) /\ free \in SUBSET AllFree /\ Apart(stack, free)
  BY <1>1, ApartIsRegistersApart DEF IInv
<1>3. t \in Token /\ is_operator(t) /\ ~is_binary_operator_token(t)
  BY <1>1, <1>2, CurrentToken DEF is_operator, is_unary_operator_token, is_binary_operator_token
<1>4. 1 \in DOMAIN stack
  BY <1>1, <1>2
<1>5. a \in [token : Scalar, position : Int] /\ a.token \in Scalar /\ InputOf(a) \in Int
  BY <1>2, <1>4, OperandIsRecord, InputIsInteger
<1>6. ~is_literal(a.token)
  BY <1>1, <1>2, OneLiteral
<1>7. Begun(WithUnary(t, a), t, InputOf(a), a.token, NOT_USED, a.token)
  <2> HIDE DEF t, a
  <2> QED
    BY <1>3, <1>5, <1>6, UnaryBegins DEF PInv
<1>8. rest \in Seq(OperandSet) /\ open \in SUBSET AllFree /\ Apart(rest, open)
  BY <1>1, <1>2, PopOne
<1>9. /\ made \in Seq(Nat \X Nat) /\ Len(plan.outputs) = Len(made)
      /\ Len(stack) <= Len(exprs[current]) - left /\ FreeOrHeld(stack, free)
  BY <1>1, <1>2, StackIs
<1>10. PICK starts \in Seq(Nat) : Stacked(starts, stack, current, left, plan.outputs, made)
  BY <1>1, <1>2, StackIs
<1>11. FreeOrHeld(rest, open)
  BY <1>1, <1>2, <1>9, FreeOrHeldPop
<1>12. left \in Nat /\ Len(exprs[current]) \in Nat /\ Len(rest) = Len(stack) - 1 /\ Len(stack) \in Nat
  <2>1. left \in Nat /\ Len(exprs[current]) \in Nat
    BY <1>2, CurrentExpression
  <2>2. Len(rest) = Len(stack) - 1 /\ Len(stack) \in Nat
    BY <1>1, <1>2
  <2> QED
    BY <2>1, <2>2
<1>13. Len(rest) <= Len(exprs[current]) - left
  <2> HIDE DEF rest
  <2> QED
    BY <1>9, <1>12
<1> DEFINE e == Meant(current)[left + 1].end
<1>14. /\ Stacked(Tail(starts), rest, current, e - 1, plan.outputs, made)
       /\ Tail(starts) \in Seq(Nat) /\ e \in Nat
       /\ Comes(InputOf(a), a.token, current, left + 1, Len(made), plan.outputs, made)
  BY <1>1, <1>2, <1>9, <1>10, <1>12, StackedPop
<1>15. e = Meant(current)[left].end
  BY <1>1, <1>2, <1>3, MeansOperator
<1>16. NOT_USED \in Int
  BY DEF NOT_USED
<1> DEFINE s == Tail(starts)
<1>17. s \in Seq(Nat) /\ Stacked(s, rest, current, e - 1, plan.outputs, made)
  BY <1>14
<1> HIDE DEF t, a, rest, open, e, s
<1> QED
  BY <1>1, <1>3, <1>5, <1>7, <1>8, <1>11, <1>13, <1>14, <1>15, <1>16, <1>17, OutputPlanned DEF t


LEMMA BinaryPlanned ==
  ASSUME RegistersSuffice, OperatorsReadColumns, IInv, LInv, PInv, NEW made, Planned(made), ReadBinary
  PROVE  \E m : Planned(m)'
<1> DEFINE t == exprs[current][left]
           a == stack[1]
           b == stack[2]
           rest == Tail(Tail(stack))
           open == free \cup Released({a, b})
<1>1. /\ Reading /\ phase = "plan" /\ left > 0 /\ Len(stack) >= 2 
      /\ is_binary_operator_token(t) /\ Output(WithBinary(t, a, b), rest, open)
  BY DEF ReadBinary, Reading
<1>2. Place /\ stack \in Seq(OperandSet) /\ free \in SUBSET AllFree /\ Apart(stack, free)
  BY <1>1, ApartIsRegistersApart DEF IInv
<1>3. t \in Token /\ is_operator(t) /\ ~is_unary_operator_token(t)
  BY <1>1, <1>2, CurrentToken DEF is_operator, is_unary_operator_token, is_binary_operator_token
<1>4. 1 \in DOMAIN stack /\ 2 \in DOMAIN stack /\ Len(stack) >= 1 /\ Len(stack) \in Nat
  BY <1>1, <1>2
<1>5. /\ a \in [token : Scalar, position : Int] /\ a.token \in Scalar /\ InputOf(a) \in Int
      /\ b \in [token : Scalar, position : Int] /\ b.token \in Scalar /\ InputOf(b) \in Int
  BY <1>2, <1>4, OperandIsRecord, InputIsInteger
<1>6. ~(is_literal(a.token) /\ is_literal(b.token))
  BY <1>1, <1>2, TwoLiterals
<1>7. Begun(WithBinary(t, a, b), t, InputOf(a), a.token, InputOf(b), b.token)
  <2> HIDE DEF t, a, b
  <2> QED
    BY <1>3, <1>5, <1>6, BinaryBegins DEF PInv
<1>8. rest \in Seq(OperandSet) /\ open \in SUBSET AllFree /\ Apart(rest, open)
  BY <1>1, <1>2, PopTwo
<1>9. /\ made \in Seq(Nat \X Nat) /\ Len(plan.outputs) = Len(made)
      /\ Len(stack) <= Len(exprs[current]) - left /\ FreeOrHeld(stack, free)
  BY <1>1, <1>2, StackIs
<1>10. PICK starts \in Seq(Nat) : Stacked(starts, stack, current, left, plan.outputs, made)
  BY <1>1, <1>2, StackIs
<1>11. FreeOrHeld(rest, open)
  BY <1>1, <1>2, <1>9, FreeOrHeldPopTwo
<1>12. left \in Nat /\ Len(exprs[current]) \in Nat /\ Len(rest) = Len(stack) - 2
  <2>1. left \in Nat /\ Len(exprs[current]) \in Nat
    BY <1>2, CurrentExpression
  <2>2. Len(rest) = Len(stack) - 2
    <3> DEFINE u == Tail(stack)
    <3>1. u \in Seq(OperandSet) /\ Len(u) = Len(stack) - 1
      BY <1>2, <1>4, TailAt
    <3>2. Len(u) >= 1
      BY <1>1, <1>4, <3>1
    <3> HIDE DEF u
    <3>3. Len(Tail(u)) = Len(u) - 1
      BY <3>1, <3>2, TailAt
    <3>4. rest = Tail(u)
      BY DEF u
    <3> HIDE DEF rest
    <3> QED
      BY <1>4, <3>1, <3>3, <3>4
  <2> QED
    BY <2>1, <2>2
<1>13. Len(rest) <= Len(exprs[current]) - left
  <2> HIDE DEF rest
  <2> QED
    BY <1>4, <1>9, <1>12
<1> DEFINE e1 == Meant(current)[left + 1].end
           s1 == Tail(starts)
           first == Tail(stack)
<1>14. /\ Stacked(s1, first, current, e1 - 1, plan.outputs, made)
       /\ s1 \in Seq(Nat) /\ e1 \in Nat
       /\ Comes(InputOf(a), a.token, current, left + 1, Len(made), plan.outputs, made)
  BY <1>2, <1>4, <1>9, <1>10, <1>12, StackedPop
<1>15. first \in Seq(OperandSet) /\ Len(first) >= 1 /\ first[1] = b
  BY <1>1, <1>2
<1>16. e1 >= 1
  <2>1. /\ exprs \in Evaluations /\ current \in DOMAIN exprs
        /\ left + 1 \in 1 .. Len(exprs[current]) + 1
    <3>1. left \in 0 .. Len(exprs[current]) /\ exprs \in Evaluations /\ current \in DOMAIN exprs
      BY <1>2, CurrentExpression
    <3> DEFINE n == Len(exprs[current])
    <3>2. left \in 0 .. n /\ n \in Nat /\ left \in Nat
      BY <1>12, <3>1
    <3> HIDE DEF n
    <3>3. left + 1 \in 1 .. n + 1
      BY <3>2
    <3> QED
      BY <3>1, <3>3 DEF n
  <2>2. e1 \in left + 1 .. Len(exprs[current]) + 1
    BY <2>1, MeantAre
  <2> HIDE DEF e1
  <2> QED
    BY <1>12, <2>2
<1> DEFINE e == Meant(current)[e1].end
           s == Tail(s1)
           k == e1 - 1
<1>17. k \in Nat /\ k + 1 = e1
  <2> HIDE DEF e1
  <2> QED
    BY <1>14, <1>16
<1>18. /\ Stacked(s, rest, current, e - 1, plan.outputs, made) /\ s \in Seq(Nat) /\ e \in Nat
       /\ Comes(InputOf(b), b.token, current, e1, Len(made), plan.outputs, made)
  <2>1. Stacked(s1, first, current, k, plan.outputs, made)
    BY <1>14
  <2> HIDE DEF e1, s1, k, first
  <2>2. /\ Stacked(Tail(s1), Tail(first), current, Meant(current)[k + 1].end - 1, plan.outputs, made)
        /\ Tail(s1) \in Seq(Nat) /\ Meant(current)[k + 1].end \in Nat
        /\ Comes(InputOf(first[1]), first[1].token, current, k + 1, Len(plan.outputs), plan.outputs, made)
    BY <1>14, <1>15, <1>17, <2>1, StackedPop
  <2>3. Tail(first) = rest
    BY DEF first
  <2> HIDE DEF b, rest
  <2> QED
    BY <1>9, <1>15, <1>17, <2>2, <2>3
<1>19. e = Meant(current)[left].end
  BY <1>1, <1>2, <1>3, MeansOperator
<1> HIDE DEF t, a, b, rest, open, e, s
<1> QED
  BY <1>1, <1>3, <1>5, <1>7, <1>8, <1>11, <1>13, <1>14, <1>18, <1>19, OutputPlanned DEF t

LEMMA OperandPlanned ==
  ASSUME IInv, PInv, NEW made, Planned(made), ReadOperand
  PROVE  Planned(made)'
<1> DEFINE t == exprs[current][left]
           o == OperandOf(t)
           u == <<o>> \o stack
<1>1. /\ Reading /\ phase = "plan" /\ left > 0 /\ left' = left - 1 /\ phase' = "plan"
      /\ exprs' = exprs /\ nulls' = nulls /\ current' = current /\ plan' = plan
      /\ stack' = u /\ free' = free
      /\ is_literal(t) \/ t.kind = "column"
  BY DEF ReadOperand, Reading
<1>2. /\ Place /\ stack \in Seq(OperandSet) /\ exprs \in Evaluations /\ current \in DOMAIN exprs
      /\ left \in DOMAIN exprs[current] /\ left \in Nat /\ Len(exprs[current]) \in Nat
  <2>1. Place /\ stack \in Seq(OperandSet)
    BY DEF IInv
  <2> QED
    BY <1>1, <2>1, CurrentExpression
<1>3. left # 1
  <2>1. is_operator_token(exprs[current][1])
    BY <1>2, EvaluationsAssumption
  <2> QED
    BY <1>1, <2>1 DEF is_operator_token
<1>4. /\ made \in Seq(Nat \X Nat) /\ Len(plan.outputs) = Len(made)
      /\ Len(stack) <= Len(exprs[current]) - left /\ FreeOrHeld(stack, free)
      /\ PlanMade(plan, made, current, left)
  BY <1>1, <1>2, StackIs DEF Planned
<1>5. PICK starts \in Seq(Nat) : Stacked(starts, stack, current, left, plan.outputs, made)
  BY <1>1, <1>2, StackIs
<1>6. PlanMade(plan, made, current, left - 1)
  <2>1. left # 0 /\ left - 1 # 0
    BY <1>1, <1>2, <1>3
  <2> QED
    BY <1>4, <2>1 DEF PlanMade
<1>7. Meant(current)[left].end = left + 1
  <2>1. Means(Meant(current)[left], exprs[current], Meant(current), left, nulls)
    BY <1>2, MeantAre
  <2>2. /\ is_literal(t) => Meant(current)[left] = [end |-> left + 1, value |-> <<t>>, valid |-> TRUE]
        /\ t.kind = "column" =>
             Meant(current)[left] = [end |-> left + 1, value |-> <<t>>, valid |-> t.id \notin nulls]
    BY <2>1 DEF Means, is_plain
  <2> HIDE DEF t
  <2> QED
    BY <1>1, <2>2
<1>8. Comes(InputOf(o), o.token, current, left, Len(plan.outputs), plan.outputs, made)
  <2>1. ~is_operator(t)
    BY <1>1 DEF is_operator, is_literal, is_binary_operator_token, is_unary_operator_token
  <2>2. CASE is_literal(t)
    <3>1. o.token = t /\ InputOf(o) = SCALAR_INDEX /\ t.kind \notin {"column", "other"}
      BY <2>2 DEF OperandOf, InputOf, is_literal
    <3> HIDE DEF o
    <3> QED
      BY <1>2, <2>1, <3>1 DEF Comes
  <2>3. CASE ~is_literal(t)
    <3>1. InputOf(o) = new_input_indices[t.id] /\ t.kind # "other"
      BY <1>1, <2>3 DEF OperandOf, InputOf, is_literal, Column
    <3> HIDE DEF o
    <3> QED
      BY <1>2, <2>1, <2>3, <3>1 DEF Comes
  <2> QED
    BY <2>2, <2>3
<1> DEFINE T == OperandSet \cup {o}
<1>9. stack \in Seq(T) /\ o \in T
  BY <1>2
<1> HIDE DEF T, o
<1>10. /\ u \in Seq(T) /\ Len(u) = Len(stack) + 1 /\ u[1] = o
       /\ \A j \in 1 .. Len(stack) : u[j + 1] = stack[j]
  BY <1>9, PushedAt
<1>11. Stacked(<<left>> \o starts, u, current, left - 1, plan.outputs, made)
  <2>1. left \in Nat \ {0} /\ left + 1 \in Int /\ left + 1 - 1 = left
    BY <1>1, <1>2
  <2> DEFINE e == left + 1
  <2>2. e \in Int /\ e = Meant(current)[left].end /\ Stacked(starts, stack, current, e - 1, plan.outputs, made)
    BY <1>5, <1>7, <2>1
  <2> HIDE DEF e
  <2> QED
    BY <1>8, <1>9, <2>1, <2>2, StackedPush
<1>12. <<left>> \o starts \in Seq(Nat)
  BY <1>2
<1>13. FreeOrHeld(u, free)
  <2>1. DOMAIN stack = 1 .. Len(stack) /\ Len(stack) \in Nat
    BY <1>2
  <2> HIDE DEF u
  <2>2. DOMAIN u = 1 .. Len(stack) + 1
    BY <1>10
  <2>3. \A j \in DOMAIN stack : j + 1 \in DOMAIN u /\ u[j + 1] = stack[j]
    BY <1>10, <2>1, <2>2
  <2> QED
    BY <1>4, <2>3 DEF FreeOrHeld
<1>14. Len(u) <= Len(exprs[current]) - (left - 1)
  <2>1. Len(stack) \in Nat
    BY <1>2
  <2> HIDE DEF u
  <2> QED
    BY <1>2, <1>4, <1>10, <2>1
<1> HIDE DEF u
<1>15. StackMade(u, free, made, current, left - 1, plan.outputs)
  BY <1>11, <1>12, <1>13, <1>14 DEF StackMade
<1>16. PlanMade(plan, made, current, left)'
  BY <1>1, <1>6, ValuesStay
<1>17. StackMade(stack, free, made, current, left, plan.outputs)'
  BY <1>1, <1>15, ValuesStay
<1> QED
  BY <1>16, <1>17 DEF Planned

LEMMA NextExpressionPlanned ==
  ASSUME IInv, PInv, NEW made, Planned(made), NextExpression
  PROVE  Planned(made)'
<1>1. /\ phase = "plan" /\ left = 0 /\ phase' = "plan" /\ exprs' = exprs /\ nulls' = nulls /\ plan' = plan
      /\ current < Len(exprs) /\ current' = current + 1 /\ left' = Len(exprs[current'])
      /\ stack' = <<>> /\ free' = AllFree
  BY DEF NextExpression
<1>2. exprs \in Evaluations /\ current \in DOMAIN exprs /\ exprs \in Seq(Seq(Token))
  BY CurrentExpression DEF IInv
<1> DEFINE c == current + 1
           n == Len(exprs[c])
<1>3. current \in Nat /\ c \in DOMAIN exprs /\ exprs[c] \in Seq(Token) /\ n \in Nat
  BY <1>1, <1>2
<1>4. n # 0
  BY <1>2, <1>3, EvaluationsAssumption
<1>5. PlanMade(plan, made, c, n)
  <2>1. PlanMade(plan, made, current, left)
    BY DEF Planned
  <2>2. \A x \in 1 .. c : x < c => x \in 1 .. current
    BY <1>3
  <2> HIDE DEF n, c
  <2> QED
    BY <1>1, <1>4, <2>1, <2>2 DEF PlanMade
<1>6. StackMade(<<>>, AllFree, made, c, n, plan.outputs)
  <2> DEFINE s == <<n + 1>>
  <2>1. s \in Seq(Nat) /\ Len(s) = 1 /\ s[1] = n + 1
    BY <1>3
  <2> HIDE DEF s, n, c
  <2>2. Stacked(s, <<>>, c, n, plan.outputs, made)
    BY <2>1 DEF Stacked
  <2>3. FreeOrHeld(<<>>, AllFree)
    BY DEF FreeOrHeld
  <2> QED
    BY <1>3, <2>1, <2>2, <2>3 DEF StackMade, n
<1>7. current' = c /\ left' = n
  BY <1>1
<1> HIDE DEF n, c
<1>8. PlanMade(plan, made, current, left)'
  BY <1>1, <1>5, <1>7, ValuesStay
<1>9. StackMade(stack, free, made, current, left, plan.outputs)'
  BY <1>1, <1>6, <1>7, ValuesStay
<1> QED
  BY <1>8, <1>9 DEF Planned

LEMMA KernelPlanned ==
  ASSUME NEW made, Planned(made), exprs' = exprs, nulls' = nulls, UNCHANGED planning,
         phase' = "plan" => phase = "plan"
  PROVE  Planned(made)'
<1>1. /\ plan' = plan /\ stack' = stack /\ current' = current /\ left' = left /\ free' = free
  BY DEF planning
<1>2. PlanMade(plan, made, current, left)'
  BY <1>1, ValuesStay DEF Planned
<1>3. (phase = "plan" /\ left > 0 => StackMade(stack, free, made, current, left, plan.outputs))'
  BY <1>1, ValuesStay DEF Planned
<1> QED
  BY <1>2, <1>3 DEF Planned

LEMMA InitPlanned ==
  ASSUME Init
  PROVE  Planned(<<>>)
<1>1. /\ exprs \in Evaluations /\ current = 1 /\ left = Len(exprs[1]) /\ stack = <<>>
      /\ free = AllFree /\ plan = EmptyPlan /\ phase = "plan"
  BY DEF Init, Evaluations
<1>2. 1 \in DOMAIN exprs /\ exprs[1] \in Seq(Token)
  BY <1>1, EvaluationsAssumption
<1> DEFINE n == Len(exprs[1])
<1>3. n \in Nat /\ n # 0
  BY <1>1, <1>2, EvaluationsAssumption
<1>4. PlanMade(plan, <<>>, 1, n)
  <2>1. plan.outputs = <<>> /\ <<>> \in Seq(Nat \X Nat)
    BY <1>1 DEF EmptyPlan
  <2>2. 1 .. Len(<<>>) = {} /\ \A x \in 1 .. 1 : ~(x < 1)
    OBVIOUS
  <2> HIDE DEF n
  <2> QED
    BY <1>3, <2>1, <2>2 DEF PlanMade
<1>5. StackMade(<<>>, AllFree, <<>>, 1, n, plan.outputs)
  <2> DEFINE s == <<n + 1>>
  <2>1. s \in Seq(Nat) /\ Len(s) = 1 /\ s[1] = n + 1
    BY <1>3
  <2> HIDE DEF s, n
  <2>2. Stacked(s, <<>>, 1, n, plan.outputs, <<>>)
    BY <2>1 DEF Stacked
  <2>3. FreeOrHeld(<<>>, AllFree)
    BY DEF FreeOrHeld
  <2> QED
    BY <1>3, <2>1, <2>2, <2>3 DEF StackMade, n
<1> HIDE DEF n
<1> QED
  BY <1>1, <1>4, <1>5 DEF Planned, n


-----------------------------------------------------------------------------
(* What the kernel computes of the plan.                                   *)

(* The operations before k have written their values into b.               *)
DataUpTo(k, b, made) ==
  /\ DOMAIN b = Register
  /\ \A r \in 0 .. NumInputs - 1 : b[r] = <<Column(ColumnAt(r))>>
  /\ \A j \in 1 .. k - 1 :
       Stays(j, k, plan.outputs) => IsValue(b[plan.outputs[j]], made[j][1], made[j][2])

(* The same for the validity pass.                                         *)
ValidUpTo(k, v, made) ==
  /\ v \in [Register -> BOOLEAN]
  /\ Plain => \A r \in 0 .. NumInputs - 1 : v[r] = (ColumnAt(r) \notin nulls)
  /\ \A j \in 1 .. k - 1 :
       Stays(j, k, plan.outputs) => IsValid(v[plan.outputs[j]], made[j][1], made[j][2])

Computes(made) ==
  /\ phase \in {"data", "valid"} => op \in 1 .. num_operations + 1
  /\ phase = "data" => DataUpTo(op, buffer, made)
  /\ phase = "valid" =>
       /\ ValidUpTo(op, valid, made)
       /\ \A x \in DOMAIN exprs : columns[x] = [value |-> columns[x].value, valid |-> columns[x].valid]
  /\ phase \in {"valid", "done"} =>
       DOMAIN columns = DOMAIN exprs /\ \A x \in DOMAIN exprs : IsValue(columns[x].value, x, 1)
  /\ phase = "done" => \A x \in DOMAIN exprs : IsValid(columns[x].valid, x, 1)

LEMMA ColumnToken ==
  ASSUME exprs \in Evaluations, NEW x \in DOMAIN exprs, NEW i \in DOMAIN exprs[x],
         exprs[x][i].kind = "column"
  PROVE  exprs[x][i].id \in Used /\ Column(exprs[x][i].id) = exprs[x][i]
<1> DEFINE t == exprs[x][i]
<1>1. exprs \in Seq(Seq(Token)) /\ exprs[x] \in Seq(Token)
  BY EvaluationsAssumption
<1>2. t \in Tokens(exprs[x]) /\ t \in Token
  BY <1>1 DEF Tokens, Elements
<1>3. t.id \in Columns
  BY <1>2, EvaluationsAssumption
<1>4. t = Column(t.id)
  BY <1>2 DEF Token, Column
<1> QED
  BY <1>2, <1>3, <1>4 DEF Used

(* What an operation reads, writes and stands for.                         *)
LEMMA OperationIs ==
  ASSUME RegistersSuffice, IInv, PInv, NEW made, Planned(made), NEW k \in 1 .. num_operations
  PROVE  \E x, i \in Nat : made[k] = <<x, i>> /\ Performed(plan, k, x, i, made)
<1>1. PlanMade(plan, made, current, left)
  BY DEF Planned
<1>2. k \in 1 .. Len(made)
  BY <1>1 DEF PlanMade, PInv, Aligned, num_operations
<1> QED
  BY <1>1, <1>2 DEF PlanMade, Performs

LEMMA Layout ==
  ASSUME RegistersSuffice, IInv
  PROVE  /\ NumInputs \in Nat /\ NumOutputs \in Nat /\ start_processing_position = NumInputs + NumOutputs
         /\ start_processing_position <= Spaces /\ exprs \in Evaluations
         /\ DOMAIN exprs = 1 .. NumOutputs
         /\ \A r \in AllFree : r \in Register /\ r >= start_processing_position /\ r \in Nat
         /\ \A r \in 0 .. NumInputs - 1 : r \in Register
         /\ \A x \in DOMAIN exprs : final_output_position(x) \in NumInputs .. start_processing_position - 1
<1>1. Place
  BY DEF IInv
<1>2. NumInputs \in Nat /\ NumOutputs \in Nat /\ exprs \in Evaluations
  BY <1>1, CountsAreNatural DEF Place
<1>3. start_processing_position <= Spaces
  BY <1>1, ManyFree
<1>4. DOMAIN exprs = 1 .. NumOutputs
  BY <1>2, EvaluationsAssumption DEF NumOutputs
<1>5. \A r \in AllFree : r \in Register /\ r >= start_processing_position /\ r \in Nat
  BY SpacesAssumption DEF AllFree, Register
<1>6. start_processing_position = NumInputs + NumOutputs
  BY DEF start_processing_position
<1>7. \A r \in 0 .. NumInputs - 1 : r \in Register
  BY <1>2, <1>3, <1>6, SpacesAssumption DEF Register
<1>8. \A x \in DOMAIN exprs : final_output_position(x) \in NumInputs .. start_processing_position - 1
  BY <1>2, <1>4, <1>6 DEF final_output_position
<1> QED
  BY <1>2, <1>3, <1>4, <1>5, <1>6, <1>7, <1>8

LEMMA OutputIs ==
  ASSUME RegistersSuffice, IInv, PInv, NEW made, NEW k, NEW x, NEW i,
         Performed(plan, k, x, i, made)
  PROVE  plan.outputs[k] \in Register /\ plan.outputs[k] \notin 0 .. NumInputs - 1
<1> DEFINE y == plan.outputs[k]
           s == start_processing_position
           f == final_output_position(x)
<1>1. /\ NumInputs \in Nat /\ NumOutputs \in Nat /\ s = NumInputs + NumOutputs /\ s <= Spaces
      /\ Register = 0 .. Spaces - 1 /\ Spaces \in Nat
  BY Layout, SpacesAssumption DEF Register
<1>2. i = 1 => y \in NumInputs .. s - 1
  BY Layout DEF Performed
<1>3. i # 1 => y \in Register /\ y >= s /\ y \in Nat
  BY Layout DEF Performed
<1> HIDE DEF s, y
<1>4. y \in Register /\ ~(y \in 0 .. NumInputs - 1)
  <2>1. CASE i = 1
    BY <1>1, <1>2, <2>1
  <2>2. CASE i # 1
    BY <1>1, <1>3, <2>2
  <2> QED
    BY <2>1, <2>2
<1> QED
  BY <1>4 DEF y

(* Nothing is null on a row that has no null.                              *)
LEMMA AllValid ==
  ASSUME exprs \in Evaluations, nulls = {}, NEW x \in DOMAIN exprs
  PROVE  \A i \in 1 .. Len(exprs[x]) + 1 : Meant(x)[i].valid
<1> DEFINE e == exprs[x]
           F == Meant(x)
           n == Len(e) + 1
           I == {m \in Nat : m <= n => \A i \in n - m + 1 .. n : F[i].valid}
<1>1. e \in Seq(Token) /\ n \in Nat /\ DOMAIN e = 1 .. n - 1 /\ Len(e) \in Nat
  BY EvaluationsAssumption
<1>2. /\ \A i \in DOMAIN e : Means(F[i], e, F, i, nulls)
      /\ \A i \in 1 .. n : F[i].end \in i .. n
  BY MeantAre
<1>3. F[n].valid
  <2>1. n \in 1 .. n
    BY <1>1
  <2>2. F[n] = MeaningFrom(e, F, n, nulls)
    BY <1>1, <2>1, MeaningsAre DEF Meant
  <2>3. MeaningFrom(e, F, n, nulls) = [end |-> n, value |-> <<>>, valid |-> TRUE]
    BY <1>1, NoMeaning
  <2> HIDE DEF F, n
  <2> QED
    BY <2>2, <2>3
<1>4. ASSUME NEW q \in 1 .. n - 1, \A i \in q + 1 .. n : F[i].valid PROVE F[q].valid
  <2> DEFINE t == e[q]
             l == F[q + 1]
             r == F[l.end]
             m == F[q]
  <2>1. q \in DOMAIN e /\ q \in Nat /\ q + 1 \in q + 1 .. n /\ q + 1 \in 1 .. n
    BY <1>1
  <2>2. l.valid /\ l.end \in q + 1 .. n
    BY <1>2, <1>4, <2>1
  <2>3. r.valid
    BY <1>4, <2>2
  <2>4. \/ is_plain(t) \/ t.kind = "column" \/ t.kind = "unary" \/ t.kind = "is_null"
        \/ t.kind = "coalesce" \/ t.kind = "binary"
    BY <1>1, <2>1, TokenKinds
  <2>5. Means(m, e, F, q, nulls)
    BY <1>2, <2>1
  <2>6. /\ is_plain(t) => m = [end |-> q + 1, value |-> <<t>>, valid |-> TRUE]
        /\ t.kind = "column" => m = [end |-> q + 1, value |-> <<t>>, valid |-> t.id \notin nulls]
        /\ t.kind = "unary" => m = [end |-> l.end, value |-> <<t>> \o l.value, valid |-> l.valid]
        /\ t.kind = "is_null" => m = [end |-> l.end, value |-> <<Bool(~l.valid)>>, valid |-> TRUE]
        /\ t.kind = "coalesce" => m = [end |-> r.end,
                                       value |-> IF l.valid THEN l.value ELSE r.value,
                                       valid |-> l.valid \/ r.valid]
        /\ t.kind = "binary" => m = [end |-> r.end, value |-> <<t>> \o l.value \o r.value,
                                     valid |-> l.valid /\ r.valid]
    BY <2>5 DEF Means
  <2> HIDE DEF t, l, r, m
  <2>7. (is_plain(t) \/ t.kind \in {"column", "unary", "is_null"}) => m.valid
    <3>1. is_plain(t) \/ t.kind = "is_null" => m.valid
      BY <2>6
    <3>2. t.kind = "column" => m.valid
      <4> DEFINE b == t.id \notin nulls
      <4>1. t.kind = "column" => m = [end |-> q + 1, value |-> <<t>>, valid |-> b]
        BY <2>6
      <4>2. b
        OBVIOUS
      <4> HIDE DEF b
      <4> QED
        BY <4>1, <4>2
    <3>3. t.kind = "unary" => m.valid
      BY <2>2, <2>6
    <3> QED
      BY <3>1, <3>2, <3>3
  <2>8. t.kind = "coalesce" => m.valid
    <3> DEFINE v == IF l.valid THEN l.value ELSE r.value
               b == l.valid \/ r.valid
    <3>1. t.kind = "coalesce" => m = [end |-> r.end, value |-> v, valid |-> b]
      BY <2>6
    <3>2. b
      BY <2>2
    <3> HIDE DEF v, b
    <3> QED
      BY <3>1, <3>2
  <2>9. t.kind = "binary" => m.valid
    <3> DEFINE v == <<t>> \o l.value \o r.value
               b == l.valid /\ r.valid
    <3>1. t.kind = "binary" => m = [end |-> r.end, value |-> v, valid |-> b]
      BY <2>6
    <3>2. b
      BY <2>2, <2>3
    <3> HIDE DEF v, b
    <3> QED
      BY <3>1, <3>2
  <2> QED
    BY <2>4, <2>7, <2>8, <2>9 DEF m
<1> HIDE DEF F, n
<1>5. 0 \in I
  BY <1>1
<1>6. ASSUME NEW m \in Nat, m \in I PROVE m + 1 \in I
  <2>1. SUFFICES ASSUME m + 1 <= n PROVE \A i \in n - (m + 1) + 1 .. n : F[i].valid
    OBVIOUS
  <2> DEFINE q == n - m
  <2>2. q \in 1 .. n /\ n - (m + 1) + 1 = q /\ n - m + 1 = q + 1
    BY <1>1, <2>1
  <2>3. \A i \in q + 1 .. n : F[i].valid
    BY <1>1, <1>6, <2>1, <2>2
  <2> HIDE DEF q
  <2>4. F[q].valid
    <3>1. CASE q = n
      BY <1>3, <3>1
    <3>2. CASE q # n
      BY <1>1, <1>4, <2>2, <2>3, <3>2
    <3> QED
      BY <3>1, <3>2
  <2>5. ASSUME NEW i \in q .. n PROVE F[i].valid
    <3>1. i = q \/ i \in q + 1 .. n
      BY <1>1, <2>2
    <3> QED
      BY <2>3, <2>4, <3>1
  <2> QED
    BY <2>2, <2>5
<1>7. n \in I
  <2> HIDE DEF I
  <2> QED
    BY <1>1, <1>5, <1>6, SetInduction
<1>8. \A i \in 1 .. n : F[i].valid
  <2>1. n - n + 1 = 1
    BY <1>1
  <2> QED
    BY <1>1, <1>7, <2>1
<1> QED
  BY <1>8 DEF F, n

(* The value and the validity that the kernel reads for an operand.        *)
LEMMA OperandValue ==
  ASSUME RegistersSuffice, IInv, PInv, NEW made, NEW k, NEW b, DataUpTo(k, b, made),
         NEW in, NEW sc, NEW x \in DOMAIN exprs, NEW i, Comes(in, sc, x, i, k - 1, plan.outputs, made)
  PROVE  IsValue(IF in = SCALAR_INDEX THEN <<scale_to_64_bit(sc)>> ELSE b[in], x, i)
<1> DEFINE t == exprs[x][i]
           v == IF in = SCALAR_INDEX THEN <<scale_to_64_bit(sc)>> ELSE b[in]
           m == Meant(x)[i]
<1>1. /\ exprs \in Evaluations /\ i \in DOMAIN exprs[x] /\ NumInputs \in Nat /\ t.kind # "other"
      /\ exprs[x] \in Seq(Token) /\ DOMAIN exprs[x] = 1 .. Len(exprs[x])
  BY Layout, MeantAre DEF Comes
<1>2. \/ is_literal(t) \/ t.kind = "column" \/ is_operator(t)
  BY <1>1, TokenKinds DEF is_plain, is_operator, is_unary_operator_token, is_binary_operator_token
<1>3. /\ is_literal(t) => m = [end |-> i + 1, value |-> <<t>>, valid |-> TRUE]
      /\ t.kind = "column" => m = [end |-> i + 1, value |-> <<t>>, valid |-> t.id \notin nulls]
  <2>1. Means(m, exprs[x], Meant(x), i, nulls)
    BY <1>1, MeantAre
  <2> QED
    BY <2>1 DEF Means, is_plain
<1>4. CASE is_literal(t)
  <2>1. in = SCALAR_INDEX /\ sc = t
    BY <1>4 DEF Comes
  <2>2. v = <<scale_to_64_bit(t)>> /\ m.value = <<t>>
    <3> HIDE DEF t, m
    <3> QED
      BY <1>3, <1>4, <2>1
  <2>3. ~HasFloat => t.kind # "float"
    BY <1>1 DEF HasFloat, Tokens, Elements
  <2>4. ~HasFloat => scale_to_64_bit(t) = t
    BY <2>3 DEF scale_to_64_bit
  <2> HIDE DEF v, t
  <2> QED
    BY <2>2, <2>4 DEF IsValue, Claimed, v, m
<1>5. CASE t.kind = "column"
  <2>1. in = new_input_indices[t.id] /\ t.id \in Used /\ Column(t.id) = t
    BY <1>1, <1>5, ColumnToken DEF Comes
  <2>2. in \in 0 .. NumInputs - 1 /\ in # SCALAR_INDEX /\ ColumnAt(in) = t.id
    BY <1>1, <2>1, InputsAreBelow, ColumnAtIs DEF SCALAR_INDEX
  <2>3. v = <<t>>
    BY <2>1, <2>2 DEF DataUpTo
  <2>4. m.value = <<t>>
    <3> HIDE DEF t, m
    <3> QED
      BY <1>3, <1>5
  <2> HIDE DEF v, t
  <2> QED
    BY <2>3, <2>4 DEF IsValue, v, m
<1>6. CASE is_operator(t)
  <2>1. in \in AllFree /\ Holds(in, x, i, k - 1, plan.outputs, made)
    BY <1>6 DEF Comes
  <2>2. in # SCALAR_INDEX
    <3>1. in \in Nat
      BY <2>1, Layout
    <3> QED
      BY <3>1 DEF SCALAR_INDEX
  <2>3. PICK j \in 1 .. k - 1 : /\ plan.outputs[j] = in /\ made[j] = <<x, i>>
                                /\ \A n \in j + 1 .. k - 1 : plan.outputs[n] # in
    BY <2>1 DEF Holds
  <2>4. Stays(j, k, plan.outputs)
    BY <2>3 DEF Stays
  <2>5. IsValue(b[plan.outputs[j]], made[j][1], made[j][2])
    BY <2>3, <2>4 DEF DataUpTo
  <2>6. made[j][1] = x /\ made[j][2] = i
    BY <2>3
  <2>7. IsValue(b[in], x, i)
    BY <2>3, <2>5, <2>6
  <2>8. v = b[in]
    BY <2>2
  <2> HIDE DEF v
  <2> QED
    BY <2>7, <2>8 DEF v
<1> QED
  BY <1>2, <1>4, <1>5, <1>6

LEMMA OperandValid ==
  ASSUME RegistersSuffice, IInv, PInv, NEW made, NEW k, NEW b, ValidUpTo(k, b, made),
         NEW in, NEW sc, NEW x \in DOMAIN exprs, NEW i, Comes(in, sc, x, i, k - 1, plan.outputs, made)
  PROVE  IsValid(in = SCALAR_INDEX \/ b[in], x, i)
<1> DEFINE t == exprs[x][i]
           v == in = SCALAR_INDEX \/ b[in]
           m == Meant(x)[i]
<1>1. /\ exprs \in Evaluations /\ i \in DOMAIN exprs[x] /\ NumInputs \in Nat /\ t.kind # "other"
      /\ exprs[x] \in Seq(Token) /\ DOMAIN exprs[x] = 1 .. Len(exprs[x])
  BY Layout, MeantAre DEF Comes
<1>2. \/ is_literal(t) \/ t.kind = "column" \/ is_operator(t)
  BY <1>1, TokenKinds DEF is_plain, is_operator, is_unary_operator_token, is_binary_operator_token
<1>3. /\ is_literal(t) => m = [end |-> i + 1, value |-> <<t>>, valid |-> TRUE]
      /\ t.kind = "column" => m = [end |-> i + 1, value |-> <<t>>, valid |-> t.id \notin nulls]
  <2>1. Means(m, exprs[x], Meant(x), i, nulls)
    BY <1>1, MeantAre
  <2> QED
    BY <2>1 DEF Means, is_plain
<1>4. CASE is_literal(t)
  <2>1. in = SCALAR_INDEX
    BY <1>4 DEF Comes
  <2>2. v = TRUE
    BY <2>1
  <2>3. m.valid = TRUE
    <3> HIDE DEF t, m
    <3> QED
      BY <1>3, <1>4
  <2> HIDE DEF v
  <2> QED
    BY <2>2, <2>3 DEF IsValid, v, m
<1>5. CASE t.kind = "column"
  <2>1. in = new_input_indices[t.id] /\ t.id \in Used
    BY <1>1, <1>5, ColumnToken DEF Comes
  <2>2. in \in 0 .. NumInputs - 1 /\ in # SCALAR_INDEX /\ ColumnAt(in) = t.id
    BY <1>1, <2>1, InputsAreBelow, ColumnAtIs DEF SCALAR_INDEX
  <2>3. Plain => b[in] = (t.id \notin nulls)
    BY <2>1, <2>2 DEF ValidUpTo
  <2>4. m.valid = (t.id \notin nulls)
    <3> HIDE DEF t, m
    <3> QED
      BY <1>3, <1>5
  <2>5. Plain => v = (t.id \notin nulls)
    BY <2>2, <2>3, Zenon
  <2> HIDE DEF v, t
  <2> QED
    BY <2>4, <2>5 DEF IsValid, v, m
<1>6. CASE is_operator(t)
  <2>1. in \in AllFree /\ Holds(in, x, i, k - 1, plan.outputs, made)
    BY <1>6 DEF Comes
  <2>2. in # SCALAR_INDEX
    <3>1. in \in Nat
      BY <2>1, Layout
    <3> QED
      BY <3>1 DEF SCALAR_INDEX
  <2>3. PICK j \in 1 .. k - 1 : /\ plan.outputs[j] = in /\ made[j] = <<x, i>>
                                /\ \A n \in j + 1 .. k - 1 : plan.outputs[n] # in
    BY <2>1 DEF Holds
  <2>4. Stays(j, k, plan.outputs)
    BY <2>3 DEF Stays
  <2>5. IsValid(b[plan.outputs[j]], made[j][1], made[j][2])
    BY <2>3, <2>4 DEF ValidUpTo
  <2>6. made[j][1] = x /\ made[j][2] = i
    BY <2>3
  <2>7. IsValid(b[in], x, i)
    BY <2>3, <2>5, <2>6
  <2>8. b[in] \in BOOLEAN
    BY <2>1, Layout DEF ValidUpTo
  <2>9. v = b[in]
    BY <2>2, <2>8
  <2> HIDE DEF v
  <2> QED
    BY <2>7, <2>9 DEF v
<1> QED
  BY <1>2, <1>4, <1>5, <1>6


(* A value that is written stays until its register is written again.      *)
LEMMA DataWritten ==
  ASSUME NEW k \in Nat \ {0}, NEW b, NEW made, DataUpTo(k, b, made),
         plan.outputs[k] \in Register, plan.outputs[k] \notin 0 .. NumInputs - 1,
         NEW v, NEW x, NEW i, made[k] = <<x, i>>, IsValue(v, x, i)
  PROVE  DataUpTo(k + 1, [b EXCEPT ![plan.outputs[k]] = v], made)
<1> DEFINE y == plan.outputs[k]
           c == [b EXCEPT ![y] = v]
<1>1. DOMAIN c = Register /\ c[y] = v /\ \A r \in Register : r # y => c[r] = b[r]
  BY DEF DataUpTo
<1>2. DOMAIN b = Register /\ \A r : r # y => c[r] = b[r]
  BY DEF DataUpTo
<1> HIDE DEF c
<1>3. \A r \in 0 .. NumInputs - 1 : c[r] = <<Column(ColumnAt(r))>>
  BY <1>2 DEF DataUpTo
<1>4. ASSUME NEW j \in 1 .. (k + 1) - 1, Stays(j, k + 1, plan.outputs)
      PROVE  IsValue(c[plan.outputs[j]], made[j][1], made[j][2])
  <2>1. CASE j = k
    BY <1>1, <2>1
  <2>2. CASE j # k
    <3>1. j \in 1 .. k - 1 /\ k \in j + 1 .. (k + 1) - 1
      BY <2>2
    <3>2. plan.outputs[j] # y
      BY <1>4, <3>1 DEF Stays
    <3>3. \A n \in j + 1 .. k - 1 : n \in j + 1 .. (k + 1) - 1
      BY <3>1
    <3>4. Stays(j, k, plan.outputs)
      BY <1>4, <3>3 DEF Stays
    <3>5. IsValue(b[plan.outputs[j]], made[j][1], made[j][2])
      BY <3>1, <3>4 DEF DataUpTo
    <3> QED
      BY <1>2, <3>2, <3>5
  <2> QED
    BY <2>1, <2>2
<1> QED
  BY <1>1, <1>3, <1>4 DEF DataUpTo, c

LEMMA ValidWritten ==
  ASSUME NEW k \in Nat \ {0}, NEW b, NEW made, ValidUpTo(k, b, made),
         plan.outputs[k] \in Register, plan.outputs[k] \notin 0 .. NumInputs - 1,
         NEW v \in BOOLEAN, NEW x, NEW i, made[k] = <<x, i>>, IsValid(v, x, i)
  PROVE  ValidUpTo(k + 1, [b EXCEPT ![plan.outputs[k]] = v], made)
<1> DEFINE y == plan.outputs[k]
           c == [b EXCEPT ![y] = v]
<1>1. c \in [Register -> BOOLEAN] /\ c[y] = v
  BY DEF ValidUpTo
<1>2. \A r : r # y => c[r] = b[r]
  BY DEF ValidUpTo
<1> HIDE DEF c
<1>3. Plain => \A r \in 0 .. NumInputs - 1 : c[r] = (ColumnAt(r) \notin nulls)
  BY <1>2 DEF ValidUpTo
<1>4. ASSUME NEW j \in 1 .. (k + 1) - 1, Stays(j, k + 1, plan.outputs)
      PROVE  IsValid(c[plan.outputs[j]], made[j][1], made[j][2])
  <2>1. CASE j = k
    BY <1>1, <2>1
  <2>2. CASE j # k
    <3>1. j \in 1 .. k - 1 /\ k \in j + 1 .. (k + 1) - 1
      BY <2>2
    <3>2. plan.outputs[j] # y
      BY <1>4, <3>1 DEF Stays
    <3>3. \A n \in j + 1 .. k - 1 : n \in j + 1 .. (k + 1) - 1
      BY <3>1
    <3>4. Stays(j, k, plan.outputs)
      BY <1>4, <3>3 DEF Stays
    <3>5. IsValid(b[plan.outputs[j]], made[j][1], made[j][2])
      BY <3>1, <3>4 DEF ValidUpTo
    <3> QED
      BY <1>2, <3>2, <3>5
  <2> QED
    BY <2>1, <2>2
<1> QED
  BY <1>1, <1>3, <1>4 DEF ValidUpTo, c

(* The operand of a null check or COALESCE that is not an input.           *)
LEMMA NullsChecked ==
  ASSUME IInv, NEW x \in DOMAIN exprs, NEW i \in DOMAIN exprs[x],
         \/ exprs[x][i].kind = "is_null"
         \/ exprs[x][i].kind = "coalesce" /\ exprs[x][i + 1].kind # "column"
  PROVE  ChecksNulls
BY DEF ChecksNulls

LEMMA ColumnOperand ==
  ASSUME RegistersSuffice, IInv, NEW x \in DOMAIN exprs, NEW i, NEW k, NEW made, NEW in, NEW sc,
         Comes(in, sc, x, i, k, plan.outputs, made)
  PROVE  in \in 0 .. NumInputs - 1 <=> exprs[x][i].kind = "column"
<1> DEFINE t == exprs[x][i]
<1>1. /\ exprs \in Evaluations /\ i \in DOMAIN exprs[x] /\ NumInputs \in Nat /\ NumOutputs \in Nat
      /\ exprs[x] \in Seq(Token) /\ DOMAIN exprs[x] = 1 .. Len(exprs[x])
      /\ start_processing_position = NumInputs + NumOutputs /\ t.kind # "other"
  BY Layout, MeantAre DEF Comes
<1>2. \/ is_literal(t) /\ t.kind # "column"
      \/ t.kind = "column"
      \/ is_operator(t) /\ t.kind # "column"
  BY <1>1, TokenKinds DEF is_plain, is_operator, is_unary_operator_token, is_binary_operator_token
<1>3. CASE is_literal(t) /\ t.kind # "column"
  <2>1. in = SCALAR_INDEX
    BY <1>3 DEF Comes
  <2>2. ~(in \in 0 .. NumInputs - 1)
    BY <1>1, <2>1 DEF SCALAR_INDEX
  <2> QED
    BY <1>3, <2>2
<1>4. CASE t.kind = "column"
  <2>1. in = new_input_indices[t.id] /\ t.id \in Used
    BY <1>1, <1>4, ColumnToken DEF Comes
  <2>2. in \in 0 .. NumInputs - 1
    BY <1>1, <2>1, InputsAreBelow
  <2> QED
    BY <1>4, <2>2
<1>5. CASE is_operator(t) /\ t.kind # "column"
  <2>1. in \in AllFree
    BY <1>5 DEF Comes
  <2>2. in \in Nat /\ in >= start_processing_position
    BY <2>1, Layout
  <2>3. ~(in \in 0 .. NumInputs - 1)
    <3> HIDE DEF t
    <3> QED
      BY <1>1, <2>2
  <2> QED
    BY <1>5, <2>3
<1> QED
  BY <1>2, <1>3, <1>4, <1>5

OperatorMeans(t, m, l, r) ==
  /\ t.kind = "unary" => m.value = <<t>> \o l.value /\ m.valid = l.valid
  /\ t.kind = "is_null" => m.value = <<Bool(~l.valid)>> /\ m.valid = TRUE
  /\ t.kind = "coalesce" => /\ m.value = (IF l.valid THEN l.value ELSE r.value)
                            /\ m.valid = (l.valid \/ r.valid)
  /\ t.kind = "binary" => m.value = <<t>> \o l.value \o r.value /\ m.valid = (l.valid /\ r.valid)

LEMMA OperatorMeaning ==
  ASSUME exprs \in Evaluations, NEW x \in DOMAIN exprs, NEW i \in DOMAIN exprs[x]
  PROVE  OperatorMeans(exprs[x][i], Meant(x)[i], Meant(x)[i + 1], Meant(x)[Meant(x)[i + 1].end])
<1> DEFINE t == exprs[x][i]
           l == Meant(x)[i + 1]
           r == Meant(x)[l.end]
           m == Meant(x)[i]
<1>1. Means(m, exprs[x], Meant(x), i, nulls)
  BY MeantAre
<1>2. /\ t.kind = "unary" => m = [end |-> l.end, value |-> <<t>> \o l.value, valid |-> l.valid]
      /\ t.kind = "is_null" => m = [end |-> l.end, value |-> <<Bool(~l.valid)>>, valid |-> TRUE]
      /\ t.kind = "coalesce" => m = [end |-> r.end,
                                     value |-> IF l.valid THEN l.value ELSE r.value,
                                     valid |-> l.valid \/ r.valid]
      /\ t.kind = "binary" => m = [end |-> r.end, value |-> <<t>> \o l.value \o r.value,
                                   valid |-> l.valid /\ r.valid]
  BY <1>1 DEF Means
<1> HIDE DEF t, l, r, m
<1>3. t.kind = "unary" => m.value = <<t>> \o l.value /\ m.valid = l.valid
  BY <1>2
<1>4. t.kind = "is_null" => m.value = <<Bool(~l.valid)>> /\ m.valid = TRUE
  BY <1>2
<1>5. t.kind = "coalesce" => /\ m.value = (IF l.valid THEN l.value ELSE r.value)
                             /\ m.valid = (l.valid \/ r.valid)
  <2> DEFINE v == IF l.valid THEN l.value ELSE r.value
             b == l.valid \/ r.valid
  <2>1. t.kind = "coalesce" => m = [end |-> r.end, value |-> v, valid |-> b]
    BY <1>2
  <2> HIDE DEF v, b
  <2>2. t.kind = "coalesce" => m.value = v /\ m.valid = b
    BY <2>1
  <2> QED
    BY <2>2 DEF v, b
<1>6. t.kind = "binary" => m.value = <<t>> \o l.value \o r.value /\ m.valid = (l.valid /\ r.valid)
  <2> DEFINE v == <<t>> \o l.value \o r.value
             b == l.valid /\ r.valid
  <2>1. t.kind = "binary" => m = [end |-> r.end, value |-> v, valid |-> b]
    BY <1>2
  <2> HIDE DEF v, b
  <2>2. t.kind = "binary" => m.value = v /\ m.valid = b
    BY <2>1
  <2> QED
    BY <2>2 DEF v, b
<1> QED
  BY <1>3, <1>4, <1>5, <1>6 DEF OperatorMeans, t, l, r, m


(* What an operation computes, if its operands are right.                  *)
LEMMA OperandsRead ==
  ASSUME RegistersSuffice, IInv, PInv, NEW made, NEW k \in 1 .. num_operations,
         DataUpTo(k, buffer, made), NEW x, NEW i, Performed(plan, k, x, i, made)
  PROVE  /\ IsValue(LeftValue(k), x, i + 1)
         /\ is_binary_operator_token(exprs[x][i]) => IsValue(RightValue(k), x, Meant(x)[i + 1].end)
<1>1. /\ LeftValue(k) = IF plan.left_inputs[k] = SCALAR_INDEX
                          THEN <<scale_to_64_bit(plan.left_scalars[k])>> ELSE buffer[plan.left_inputs[k]]
      /\ RightValue(k) = IF plan.right_inputs[k] = SCALAR_INDEX
                          THEN <<scale_to_64_bit(plan.right_scalars[k])>> ELSE buffer[plan.right_inputs[k]]
  BY DEF LeftValue, RightValue, Operand
<1>2. /\ x \in DOMAIN exprs
      /\ Comes(plan.left_inputs[k], plan.left_scalars[k], x, i + 1, k - 1, plan.outputs, made)
      /\ is_binary_operator_token(exprs[x][i]) =>
           Comes(plan.right_inputs[k], plan.right_scalars[k], x, Meant(x)[i + 1].end, k - 1, plan.outputs, made)
  BY DEF Performed
<1>3. IsValue(LeftValue(k), x, i + 1)
  BY <1>1, <1>2, OperandValue
<1>4. ASSUME is_binary_operator_token(exprs[x][i])
      PROVE  IsValue(RightValue(k), x, Meant(x)[i + 1].end)
  BY <1>1, <1>2, <1>4, OperandValue
<1> QED
  BY <1>3, <1>4

(* A row without nulls is valid everywhere in a field.                     *)
LEMMA OperandsAreValid ==
  ASSUME exprs \in Evaluations, nulls = {}, NEW x \in DOMAIN exprs, NEW i \in DOMAIN exprs[x]
  PROVE  /\ Meant(x)[i + 1].valid
         /\ Meant(x)[Meant(x)[i + 1].end].valid
<1> DEFINE n == Len(exprs[x])
           F == Meant(x)
<1>1. n \in Nat /\ i \in 1 .. n /\ \A j \in 1 .. n + 1 : F[j].end \in j .. n + 1
  BY MeantAre
<1>2. \A j \in 1 .. n + 1 : F[j].valid
  BY AllValid
<1> HIDE DEF n, F
<1>3. i + 1 \in 1 .. n + 1
  BY <1>1
<1>4. F[i + 1].end \in i + 1 .. n + 1
  BY <1>1, <1>3
<1>5. F[i + 1].end \in 1 .. n + 1
  BY <1>1, <1>4
<1> QED
  BY <1>2, <1>3, <1>5 DEF F

LEMMA ComputedIs ==
  ASSUME RegistersSuffice, IInv, PInv, NEW made, NEW k \in 1 .. num_operations,
         DataUpTo(k, buffer, made), NEW x, NEW i, Performed(plan, k, x, i, made),
         ReadsOwnValidity(k)
  PROVE  IsValue(Computed(k), x, i)
<1> DEFINE t == exprs[x][i]
           l == Meant(x)[i + 1]
           r == Meant(x)[l.end]
           m == Meant(x)[i]
           lv == LeftValue(k)
           rv == RightValue(k)
           b == LeftColumnIsValid(k)
<1>1. /\ x \in DOMAIN exprs /\ i \in DOMAIN exprs[x] /\ is_operator(t) /\ plan.operators[k] = t
      /\ Comes(plan.left_inputs[k], plan.left_scalars[k], x, i + 1, k - 1, plan.outputs, made)
      /\ exprs \in Evaluations
  BY Layout DEF Performed
<1>2. SUFFICES ASSUME Claimed, m.valid PROVE Computed(k) = m.value
  BY DEF IsValue
<1>3. /\ l.valid => lv = l.value
      /\ is_binary_operator_token(t) /\ r.valid => rv = r.value
  BY <1>2, OperandsRead DEF IsValue
<1>4. /\ t.kind = "unary" => m.value = <<t>> \o l.value /\ m.valid = l.valid
      /\ t.kind = "is_null" => m.value = <<Bool(~l.valid)>> /\ m.valid = TRUE
      /\ t.kind = "coalesce" => /\ m.value = (IF l.valid THEN l.value ELSE r.value)
                                /\ m.valid = (l.valid \/ r.valid)
      /\ t.kind = "binary" => m.value = <<t>> \o l.value \o r.value /\ m.valid = (l.valid /\ r.valid)
  BY <1>1, OperatorMeaning DEF OperatorMeans
<1>5. /\ t.kind = "coalesce" => Computed(k) = IF b THEN lv ELSE rv
      /\ t.kind = "is_null" => Computed(k) = <<Bool(~b)>>
      /\ t.kind = "unary" => Computed(k) = <<t>> \o lv
      /\ t.kind = "binary" => Computed(k) = <<t>> \o lv \o rv
  BY <1>1 DEF Computed
<1>6. t.kind \in {"binary", "coalesce", "unary", "is_null"}
  BY <1>1 DEF is_operator, is_binary_operator_token, is_unary_operator_token
<1>7. CASE t.kind = "unary"
  <2>1. l.valid
    BY <1>2, <1>4, <1>7
  <2> HIDE DEF t, l, r, m, lv, rv, b
  <2> QED
    BY <1>3, <1>4, <1>5, <1>7, <2>1
<1>8. CASE t.kind = "binary"
  <2>1. is_binary_operator_token(t)
    BY <1>8 DEF is_binary_operator_token
  <2>2. l.valid /\ r.valid
    <3>1. m.valid = (l.valid /\ r.valid)
      BY <1>4, <1>8
    <3> HIDE DEF l, r, m
    <3> QED
      BY <1>2, <3>1
  <2> HIDE DEF t, l, r, m, lv, rv, b
  <2> QED
    BY <1>3, <1>4, <1>5, <1>8, <2>1, <2>2
<1>9. CASE t.kind = "is_null"
  <2>1. nulls = {}
    <3>1. ChecksNulls
      BY <1>1, <1>9 DEF ChecksNulls
    <3> QED
      BY <1>2, <3>1 DEF Claimed
  <2>2. l.valid
    BY <1>1, <2>1, OperandsAreValid
  <2>3. b
    BY <2>1 DEF LeftColumnIsValid
  <2> DEFINE v == ~l.valid
             w == ~b
  <2>4. v = w
    BY <2>2, <2>3
  <2>5. m.value = <<Bool(v)>> /\ Computed(k) = <<Bool(w)>>
    BY <1>4, <1>5, <1>9
  <2> HIDE DEF v, w
  <2> QED
    BY <2>4, <2>5
<1>10. CASE t.kind = "coalesce"
  <2>1. is_binary_operator_token(t)
    BY <1>10 DEF is_binary_operator_token
  <2>2. plan.left_inputs[k] \in 0 .. NumInputs - 1
    BY <1>1, <1>10 DEF ReadsOwnValidity
  <2> DEFINE u == exprs[x][i + 1]
  <2>3. u.kind = "column" /\ i + 1 \in DOMAIN exprs[x]
    BY <1>1, <2>2, ColumnOperand DEF Comes
  <2>4. u.id \in Used /\ plan.left_inputs[k] = new_input_indices[u.id]
    BY <1>1, <2>3, ColumnToken DEF Comes
  <2>5. b = (u.id \notin nulls)
    BY <2>4, ColumnAtIs DEF LeftColumnIsValid
  <2>6. l.valid = (u.id \notin nulls)
    <3>1. Means(l, exprs[x], Meant(x), i + 1, nulls)
      BY <1>1, <2>3, MeantAre
    <3>2. l = [end |-> (i + 1) + 1, value |-> <<u>>, valid |-> u.id \notin nulls]
      BY <2>3, <3>1 DEF Means
    <3> HIDE DEF l
    <3> QED
      BY <3>2
  <2>7. CASE u.id \in nulls
    <3>1. ~b /\ ~l.valid
      BY <2>5, <2>6, <2>7
    <3>2. m.valid = (l.valid \/ r.valid)
      BY <1>4, <1>10
    <3>3. m.value = (IF l.valid THEN l.value ELSE r.value) /\ Computed(k) = IF b THEN lv ELSE rv
      BY <1>4, <1>5, <1>10
    <3> HIDE DEF l, r, m, lv, rv, b
    <3>4. r.valid
      BY <1>2, <3>1, <3>2
    <3> QED
      BY <1>3, <2>1, <3>1, <3>3, <3>4
  <2>8. CASE u.id \notin nulls
    <3>1. b /\ l.valid
      BY <2>5, <2>6, <2>8
    <3>2. m.value = (IF l.valid THEN l.value ELSE r.value) /\ Computed(k) = IF b THEN lv ELSE rv
      BY <1>4, <1>5, <1>10
    <3> HIDE DEF l, r, m, lv, rv, b
    <3> QED
      BY <1>3, <3>1, <3>2
  <2> QED
    BY <2>7, <2>8
<1> QED
  BY <1>6, <1>7, <1>8, <1>9, <1>10

(* The outcomes of a validity pointer read beyond the array that let the   *)
(* kernel go on.                                                           *)
LEMMA ComputedOutside ==
  ASSUME RegistersSuffice, IInv, PInv, NEW made, NEW k \in 1 .. num_operations,
         DataUpTo(k, buffer, made), NEW x, NEW i, Performed(plan, k, x, i, made),
         ~ReadsOwnValidity(k)
  PROVE  IsValue(IF plan.operators[k].kind = "coalesce" THEN LeftValue(k) ELSE <<Bool(FALSE)>>, x, i)
<1> DEFINE t == exprs[x][i]
           l == Meant(x)[i + 1]
           r == Meant(x)[l.end]
           m == Meant(x)[i]
           lv == LeftValue(k)
<1>1. /\ x \in DOMAIN exprs /\ i \in DOMAIN exprs[x] /\ is_operator(t) /\ plan.operators[k] = t
      /\ Comes(plan.left_inputs[k], plan.left_scalars[k], x, i + 1, k - 1, plan.outputs, made)
      /\ exprs \in Evaluations
  BY Layout DEF Performed
<1>2. SUFFICES ASSUME Claimed, m.valid
               PROVE  (IF t.kind = "coalesce" THEN lv ELSE <<Bool(FALSE)>>) = m.value
  BY <1>1 DEF IsValue
<1>3. /\ t.kind \in {"coalesce", "is_null"}
      /\ ~(plan.left_inputs[k] \in 0 .. NumInputs - 1)
  BY <1>1 DEF ReadsOwnValidity
<1>4. exprs[x][i + 1].kind # "column"
  BY <1>1, <1>3, ColumnOperand
<1>5. nulls = {}
  BY <1>1, <1>2, <1>3, <1>4, NullsChecked DEF Claimed
<1>6. l.valid
  BY <1>1, <1>5, OperandsAreValid
<1>7. lv = l.value
  BY <1>2, <1>6, OperandsRead DEF IsValue
<1>8. /\ t.kind = "is_null" => m.value = <<Bool(~l.valid)>>
      /\ t.kind = "coalesce" => m.value = (IF l.valid THEN l.value ELSE r.value)
  BY <1>1, OperatorMeaning DEF OperatorMeans
<1>9. CASE t.kind = "is_null"
  <2> DEFINE v == ~l.valid
  <2>1. v = FALSE
    BY <1>6
  <2>2. m.value = <<Bool(v)>>
    BY <1>8, <1>9
  <2> HIDE DEF v, m
  <2> QED
    BY <1>9, <2>1, <2>2
<1>10. CASE t.kind = "coalesce"
  BY <1>6, <1>7, <1>8, <1>10
<1> QED
  BY <1>3, <1>9, <1>10

(* The validity of an operation.                                           *)
LEMMA OutputValidIs ==
  ASSUME RegistersSuffice, IInv, PInv, NEW made, op \in 1 .. num_operations,
         ValidUpTo(op, valid, made), NEW x, NEW i, Performed(plan, op, x, i, made)
  PROVE  OutputValid \in BOOLEAN /\ IsValid(OutputValid, x, i)
<1> DEFINE t == exprs[x][i]
           l == Meant(x)[i + 1]
           r == Meant(x)[l.end]
           m == Meant(x)[i]
           lv == LeftValid
           rv == RightValid
<1>1. /\ x \in DOMAIN exprs /\ i \in DOMAIN exprs[x] /\ is_operator(t) /\ plan.operators[op] = t
      /\ Comes(plan.left_inputs[op], plan.left_scalars[op], x, i + 1, op - 1, plan.outputs, made)
      /\ is_unary_operator_token(t) => plan.right_inputs[op] = NOT_USED
      /\ is_binary_operator_token(t) =>
           Comes(plan.right_inputs[op], plan.right_scalars[op], x, l.end, op - 1, plan.outputs, made)
      /\ exprs \in Evaluations
  BY Layout DEF Performed
<1>2. lv \in BOOLEAN /\ rv \in BOOLEAN
  BY DEF LeftValid, RightValid, ValidOf
<1>3. OutputValid = IF plan.right_inputs[op] = NOT_USED THEN lv
                    ELSE IF t.kind = "coalesce" THEN lv \/ rv ELSE lv /\ rv
  BY <1>1 DEF OutputValid
<1>4. OutputValid \in BOOLEAN
  <2> HIDE DEF lv, rv
  <2> QED
    BY <1>2, <1>3
<1>5. IsValid(lv, x, i + 1)
  BY <1>1, OperandValid DEF LeftValid, ValidOf
<1>6. is_binary_operator_token(t) => IsValid(rv, x, l.end)
  BY <1>1, OperandValid DEF RightValid, ValidOf
<1>7. SUFFICES ASSUME Plain PROVE OutputValid = m.valid
  BY <1>4 DEF IsValid
<1>8. lv = l.valid /\ (is_binary_operator_token(t) => rv = r.valid)
  BY <1>5, <1>6, <1>7 DEF IsValid
<1>9. /\ t.kind = "unary" => m.valid = l.valid
      /\ t.kind = "coalesce" => m.valid = (l.valid \/ r.valid)
      /\ t.kind = "binary" => m.valid = (l.valid /\ r.valid)
  BY <1>1, OperatorMeaning DEF OperatorMeans
<1>10. t.kind # "is_null"
  <2>1. SUFFICES ASSUME t.kind = "is_null" PROVE FALSE
    OBVIOUS
  <2>2. ChecksNulls
    BY <1>1, <2>1 DEF ChecksNulls
  <2> QED
    BY <1>7, <2>2 DEF Plain
<1>11. t.kind \in {"binary", "coalesce", "unary"}
  BY <1>1, <1>10 DEF is_operator, is_binary_operator_token, is_unary_operator_token
<1>12. CASE t.kind = "unary"
  <2>1. plan.right_inputs[op] = NOT_USED
    BY <1>1, <1>12 DEF is_unary_operator_token
  <2> HIDE DEF l, r, m, lv, rv
  <2> QED
    BY <1>3, <1>8, <1>9, <1>12, <2>1
<1>13. CASE t.kind \in {"binary", "coalesce"}
  <2>1. is_binary_operator_token(t)
    BY <1>13 DEF is_binary_operator_token
  <2>2. plan.right_inputs[op] # NOT_USED
    <3> DEFINE in == plan.right_inputs[op]
    <3>1. Comes(in, plan.right_scalars[op], x, l.end, op - 1, plan.outputs, made) /\ l.end \in DOMAIN exprs[x]
      BY <1>1, <2>1 DEF Comes
    <3>2. \/ is_literal(exprs[x][l.end]) \/ exprs[x][l.end].kind = "column" \/ is_operator(exprs[x][l.end])
      <4>1. exprs[x] \in Seq(Token) /\ l.end \in 1 .. Len(exprs[x]) /\ exprs[x][l.end].kind # "other"
        BY <1>1, <3>1, MeantAre DEF Comes
      <4> HIDE DEF l
      <4> QED
        BY <4>1, TokenKinds DEF is_plain, is_operator, is_unary_operator_token, is_binary_operator_token
    <3>3. in = SCALAR_INDEX \/ in \in 0 .. NumInputs - 1 \/ in \in AllFree
      BY <1>1, <3>1, <3>2, ColumnOperand DEF Comes
    <3>4. in \in AllFree => in \in Nat
      BY Layout
    <3>5. NumInputs \in Nat
      BY Layout
    <3> HIDE DEF in
    <3>6. in # NOT_USED
      BY <3>3, <3>4, <3>5 DEF SCALAR_INDEX, NOT_USED
    <3> QED
      BY <3>6 DEF in
  <2>3. OutputValid = IF t.kind = "coalesce" THEN lv \/ rv ELSE lv /\ rv
    BY <1>3, <2>2
  <2>4. lv = l.valid /\ rv = r.valid
    BY <1>8, <2>1
  <2>5. CASE t.kind = "coalesce"
    <3>1. OutputValid = (lv \/ rv) /\ m.valid = (l.valid \/ r.valid)
      BY <1>9, <2>3, <2>5
    <3> HIDE DEF l, r, m, lv, rv
    <3> QED
      BY <2>4, <3>1
  <2>6. CASE t.kind = "binary"
    <3>1. OutputValid = (lv /\ rv) /\ m.valid = (l.valid /\ r.valid)
      BY <1>9, <2>3, <2>6
    <3> HIDE DEF l, r, m, lv, rv
    <3> QED
      BY <2>4, <3>1
  <2> QED
    BY <1>13, <2>5, <2>6
<1> QED
  BY <1>11, <1>12, <1>13


-----------------------------------------------------------------------------
(* The kernel keeps Computes.                                              *)

LEMMA ComputedStays ==
  ASSUME exprs' = exprs, nulls' = nulls, plan' = plan
  PROVE  /\ \A k, b, made : DataUpTo(k, b, made)' <=> DataUpTo(k, b, made)
         /\ \A k, v, made : ValidUpTo(k, v, made)' <=> ValidUpTo(k, v, made)
         /\ \A b, x, i : IsValid(b, x, i)' <=> IsValid(b, x, i)
         /\ num_operations' = num_operations /\ Claimed' = Claimed
<1>1. /\ \A x : Meant(x)' = Meant(x)
      /\ \A v, x, i : IsValue(v, x, i)' <=> IsValue(v, x, i)
  BY ValuesStay
<1>2. /\ \A r : ColumnAt(r)' = ColumnAt(r)
      /\ NumInputs' = NumInputs /\ (ChecksNulls' <=> ChecksNulls)
      /\ num_operations' = num_operations /\ max_output' = max_output
  BY DEF ColumnAt, new_input_indices, Used, NumInputs, ChecksNulls, num_operations, max_output
<1>3. (Plain' <=> Plain) /\ \A b, x, i : IsValid(b, x, i)' <=> IsValid(b, x, i)
  BY <1>1, <1>2 DEF Plain, FewRegisters, IsValid
<1>4. \A k, b, made : DataUpTo(k, b, made)' <=> DataUpTo(k, b, made)
  BY <1>1, <1>2 DEF DataUpTo, Register
<1>5. \A k, v, made : ValidUpTo(k, v, made)' <=> ValidUpTo(k, v, made)
  BY <1>2, <1>3 DEF ValidUpTo, Register
<1>6. num_operations' = num_operations /\ Claimed' = Claimed
  BY <1>2 DEF Claimed, HasFloat
<1> QED
  BY <1>3, <1>4, <1>5, <1>6

LEMMA ReadDataComputes ==
  ASSUME RegistersSuffice, IInv, PInv, NEW made, Planned(made), Computes(made), read_data
  PROVE  Computes(made)'
<1>1. /\ phase' = "data" /\ op' = 1 /\ exprs' = exprs /\ nulls' = nulls /\ plan' = plan
      /\ buffer' = [r \in Register |-> IF r < NumInputs THEN <<Column(ColumnAt(r))>> ELSE <<>>]
  BY DEF read_data, planning
<1>2. /\ NumInputs \in Nat /\ \A r \in 0 .. NumInputs - 1 : r \in Register
      /\ num_operations \in Nat
  BY Layout DEF PInv, Vectors, num_operations
<1>3. DataUpTo(1, buffer', made)
  <2>1. DOMAIN buffer' = Register
    BY <1>1
  <2>2. \A r \in 0 .. NumInputs - 1 : buffer'[r] = <<Column(ColumnAt(r))>>
    BY <1>1, <1>2
  <2>3. 1 .. 1 - 1 = {}
    OBVIOUS
  <2> QED
    BY <2>1, <2>2, <2>3 DEF DataUpTo
<1>4. DataUpTo(op, buffer, made)' /\ (op \in 1 .. num_operations + 1)'
  BY <1>1, <1>2, <1>3, ComputedStays
<1> QED
  BY <1>1, <1>4 DEF Computes

LEMMA OperatorComputes ==
  ASSUME RegistersSuffice, IInv, PInv, NEW made, Planned(made), Computes(made),
         process_operator \/ process_operator_outside
  PROVE  Computes(made)'
<1>1. CASE phase' = "failed"
  BY <1>1 DEF Computes
<1>2. CASE phase' # "failed"
  <2> DEFINE y == plan.outputs[op]
             w == IF plan.operators[op].kind = "coalesce" THEN LeftValue(op) ELSE <<Bool(FALSE)>>
             v == IF ReadsOwnValidity(op) THEN Computed(op) ELSE w
  <2>1. /\ phase = "data" /\ phase' = "data" /\ op <= num_operations /\ op' = op + 1
        /\ exprs' = exprs /\ nulls' = nulls /\ plan' = plan
        /\ buffer' = [buffer EXCEPT ![y] = v]
    BY <1>2 DEF process_operator, process_operator_outside, planning
  <2>2. /\ op \in 1 .. num_operations + 1 /\ num_operations \in Nat /\ DataUpTo(op, buffer, made)
    BY <2>1 DEF Computes, PInv, Vectors, num_operations
  <2>3. op \in 1 .. num_operations /\ op \in Nat \ {0} /\ op + 1 \in 1 .. num_operations + 1
    BY <2>1, <2>2
  <2>4. PICK x, i \in Nat : made[op] = <<x, i>> /\ Performed(plan, op, x, i, made)
    BY <2>3, OperationIs
  <2>5. IsValue(v, x, i)
    <3>1. CASE ReadsOwnValidity(op)
      <4>1. IsValue(Computed(op), x, i)
        BY <2>2, <2>3, <2>4, <3>1, ComputedIs
      <4> QED
        BY <3>1, <4>1
    <3>2. CASE ~ReadsOwnValidity(op)
      <4>1. IsValue(w, x, i)
        BY <2>2, <2>3, <2>4, <3>2, ComputedOutside
      <4> HIDE DEF w
      <4> QED
        BY <3>2, <4>1
    <3> QED
      BY <3>1, <3>2
  <2>6. y \in Register /\ y \notin 0 .. NumInputs - 1
    BY <2>4, OutputIs
  <2> HIDE DEF v
  <2>7. DataUpTo(op + 1, [buffer EXCEPT ![y] = v], made)
    BY <2>2, <2>3, <2>4, <2>5, <2>6, DataWritten
  <2>8. DataUpTo(op, buffer, made)' /\ (op \in 1 .. num_operations + 1)'
    BY <2>1, <2>3, <2>7, ComputedStays
  <2> QED
    BY <2>1, <2>8 DEF Computes
<1> QED
  BY <1>1, <1>2

(* When the kernel is through the operations, the fields are where it      *)
(* takes them from.                                                        *)
LEMMA FieldStays ==
  ASSUME RegistersSuffice, IInv, PInv, NEW made, Planned(made), phase # "plan",
         op = num_operations + 1, NEW x \in DOMAIN exprs
  PROVE  \E j \in 1 .. op - 1 : /\ plan.outputs[j] = final_output_position(x) /\ made[j] = <<x, 1>>
                                /\ Stays(j, op, plan.outputs)
<1>1. /\ num_operations \in Nat /\ Len(plan.outputs) = num_operations
      /\ current = NumOutputs /\ left = 0 /\ x \in 1 .. NumOutputs
  BY Layout DEF PInv, Vectors, Aligned, num_operations
<1>2. FieldHeld(x, plan.outputs, made)
  BY <1>1 DEF Planned, PlanMade
<1>3. PICK j \in 1 .. num_operations :
        /\ plan.outputs[j] = final_output_position(x) /\ made[j] = <<x, 1>>
        /\ \A n \in j + 1 .. num_operations : plan.outputs[n] # final_output_position(x)
  BY <1>1, <1>2 DEF FieldHeld, Holds
<1>4. op - 1 = num_operations
  BY <1>1
<1>5. Stays(j, op, plan.outputs)
  BY <1>3, <1>4 DEF Stays
<1> QED
  BY <1>3, <1>4, <1>5

LEMMA OfElements ==
  ASSUME NEW T, NEW a \in Seq(Int), Elements(a) \subseteq T
  PROVE  a \in Seq(T)
<1>1. \A i \in 1 .. Len(a) : a[i] \in T
  BY DEF Elements
<1> QED
  BY <1>1

LEMMA OnlyNullChecks ==
  ASSUME RegistersSuffice, IInv, PInv, NEW made, Planned(made), phase # "plan", Plain,
         NEW r \in 0 .. NumInputs - 1
  PROVE  ~NullCheckNumbered(r)
<1>1. SUFFICES ASSUME NullCheckNumbered(r) PROVE FALSE
  OBVIOUS
<1>2. /\ NumInputs \in Nat /\ num_operations \in Nat
      /\ plan.left_inputs \in Seq(Int) /\ plan.right_inputs \in Seq(Int) /\ plan.outputs \in Seq(Int)
  BY Layout DEF PInv, Vectors, num_operations
<1>3. CASE r < num_operations
  <2> DEFINE k == r + 1
  <2>1. k \in 1 .. num_operations /\ plan.operators[k].kind = "is_null"
    BY <1>1, <1>2, <1>3 DEF NullCheckNumbered
  <2> HIDE DEF k
  <2>2. PICK x, i \in Nat : made[k] = <<x, i>> /\ Performed(plan, k, x, i, made)
    BY <2>1, OperationIs
  <2>3. x \in DOMAIN exprs /\ i \in DOMAIN exprs[x] /\ exprs[x][i].kind = "is_null"
    BY <2>1, <2>2 DEF Performed
  <2> QED
    BY <2>3 DEF ChecksNulls, Plain
<1>4. CASE ~(r < num_operations)
  <2> DEFINE k == 2 * (r - num_operations) + 1
  <2>1. /\ k \in Int /\ k >= 1
    BY <1>2, <1>4
  <2>2. k + 1 \in DOMAIN Positions /\ Positions[k] \in {BLZ_IS_NULL, BLZ_IS_NOT_NULL}
    BY <1>1, <1>4 DEF NullCheckNumbered
  <2>3. max_output < BLZ_IS_NULL
    BY <1>2, <1>4 DEF Plain, FewRegisters
  <2> HIDE DEF k
  <2>4. Positions \in Seq(Int)
    <3> DEFINE f == [e \in 1 .. NumOutputs |-> final_output_position(e)]
    <3>1. f \in Seq(Int)
      <4>1. NumOutputs \in Nat /\ NumInputs \in Nat
        BY Layout
      <4>2. \A e \in 1 .. NumOutputs : final_output_position(e) \in Int
        BY <4>1 DEF final_output_position
      <4> QED
        BY <4>1, <4>2
    <3> HIDE DEF f
    <3>2. plan.left_inputs \o plan.right_inputs \o plan.outputs \o f \in Seq(Int)
      BY <1>2, <3>1
    <3> QED
      BY <3>2 DEF f, Positions
  <2>5. k \in DOMAIN Positions
    BY <2>1, <2>2, <2>4
  <2>6. Positions[k] \in PlanRegisters
    <3> DEFINE f == [e \in 1 .. NumOutputs |-> final_output_position(e)]
               a == plan.left_inputs
               b == plan.right_inputs
               c == plan.outputs
               T == PlanRegisters
    <3>1. f \in Seq(T)
      BY Layout DEF PlanRegisters
    <3>2. a \in Seq(T) /\ b \in Seq(T) /\ c \in Seq(T)
      BY <1>2, OfElements DEF PlanRegisters
    <3> HIDE DEF f, a, b, c, T
    <3>3. a \o b \o c \o f \in Seq(T)
      BY <3>1, <3>2
    <3>4. Positions \in Seq(T)
      BY <3>3 DEF f, a, b, c, Positions
    <3> QED
      BY <2>5, <3>4 DEF T
  <2>7. Positions[k] <= max_output
    BY <2>6, RegistersBelow
  <2>8. max_output \in Int
    BY LastRegister
  <2> QED
    BY <2>2, <2>3, <2>7, <2>8 DEF BLZ_IS_NULL, BLZ_IS_NOT_NULL
<1> QED
  BY <1>3, <1>4

LEMMA WriteDataComputes ==
  ASSUME RegistersSuffice, IInv, PInv, NEW made, Planned(made), Computes(made), write_data
  PROVE  Computes(made)'
<1>1. /\ phase = "data" /\ phase' = "valid" /\ op > num_operations /\ op' = 1
      /\ exprs' = exprs /\ nulls' = nulls /\ plan' = plan
      /\ columns' = [e \in 1 .. NumOutputs |-> [value |-> buffer[final_output_position(e)], valid |-> TRUE]]
      /\ valid' = [r \in Register |-> r < NumInputs => ColumnAt(r) \notin nulls \/ NullCheckNumbered(r)]
  BY DEF write_data, planning
<1>2. /\ num_operations \in Nat /\ op = num_operations + 1 /\ DataUpTo(op, buffer, made)
      /\ Len(plan.operators) = num_operations /\ plan.operators \in Seq(Token)
  <2>1. /\ num_operations \in Nat /\ op \in 1 .. num_operations + 1 /\ DataUpTo(op, buffer, made)
        /\ Len(plan.operators) = num_operations /\ plan.operators \in Seq(Token)
    BY <1>1 DEF Computes, PInv, Vectors, Aligned, num_operations
  <2> QED
    BY <1>1, <2>1
<1>3. /\ NumInputs \in Nat /\ DOMAIN exprs = 1 .. NumOutputs
      /\ \A r \in 0 .. NumInputs - 1 : r \in Register
  BY Layout
<1>4. ASSUME NEW x \in DOMAIN exprs PROVE IsValue(columns'[x].value, x, 1)
  <2>1. PICK j \in 1 .. op - 1 : /\ plan.outputs[j] = final_output_position(x) /\ made[j] = <<x, 1>>
                                 /\ Stays(j, op, plan.outputs)
    BY <1>1, <1>2, FieldStays
  <2>2. IsValue(buffer[plan.outputs[j]], made[j][1], made[j][2])
    BY <1>2, <2>1 DEF DataUpTo
  <2>3. made[j][1] = x /\ made[j][2] = 1
    BY <2>1
  <2>4. columns'[x].value = buffer[plan.outputs[j]]
    BY <1>1, <1>3, <2>1
  <2> QED
    BY <2>2, <2>3, <2>4
<1>5. ASSUME Plain, NEW r \in 0 .. NumInputs - 1 PROVE ~NullCheckNumbered(r)
  BY <1>1, <1>5, OnlyNullChecks
<1>6. ValidUpTo(1, valid', made)
  <2>1. valid' \in [Register -> BOOLEAN]
    BY <1>1
  <2>2. ASSUME Plain, NEW r \in 0 .. NumInputs - 1 PROVE valid'[r] = (ColumnAt(r) \notin nulls)
    <3>1. r < NumInputs /\ r \in Register /\ ~NullCheckNumbered(r)
      BY <1>3, <1>5, <2>2
    <3>2. valid'[r] = (r < NumInputs => ColumnAt(r) \notin nulls \/ NullCheckNumbered(r))
      BY <1>1, <3>1
    <3> QED
      BY <3>1, <3>2
  <2>3. 1 .. 1 - 1 = {}
    OBVIOUS
  <2> QED
    BY <2>1, <2>2, <2>3 DEF ValidUpTo
<1>7. ValidUpTo(op, valid, made)' /\ (op \in 1 .. num_operations + 1)'
  BY <1>1, <1>2, <1>6, ComputedStays
<1>8. DOMAIN columns' = DOMAIN exprs'
  BY <1>1, <1>3
<1>9. \A x \in DOMAIN exprs' : IsValue(columns[x].value, x, 1)'
  BY <1>1, <1>4, ValuesStay
<1>10. \A x \in DOMAIN exprs' : columns'[x] = [value |-> columns'[x].value, valid |-> columns'[x].valid]
  BY <1>1, <1>3
<1> QED
  BY <1>1, <1>7, <1>8, <1>9, <1>10 DEF Computes

LEMMA ValidsCompute ==
  ASSUME RegistersSuffice, IInv, PInv, NEW made, Planned(made), Computes(made), process_valids
  PROVE  Computes(made)'
<1> DEFINE y == plan.outputs[op]
           v == OutputValid
<1>1. /\ phase = "valid" /\ phase' = "valid" /\ op <= num_operations /\ op' = op + 1
      /\ exprs' = exprs /\ nulls' = nulls /\ plan' = plan /\ columns' = columns
      /\ valid' = [valid EXCEPT ![y] = v]
  BY DEF process_valids, planning
<1>2. /\ op \in 1 .. num_operations + 1 /\ num_operations \in Nat /\ ValidUpTo(op, valid, made)
      /\ DOMAIN columns = DOMAIN exprs /\ \A x \in DOMAIN exprs : IsValue(columns[x].value, x, 1)
  BY <1>1 DEF Computes, PInv, Vectors, num_operations
<1>3. op \in 1 .. num_operations /\ op \in Nat \ {0} /\ op + 1 \in 1 .. num_operations + 1
  BY <1>1, <1>2
<1>4. PICK x, i \in Nat : made[op] = <<x, i>> /\ Performed(plan, op, x, i, made)
  BY <1>3, OperationIs
<1>5. v \in BOOLEAN /\ IsValid(v, x, i)
  BY <1>2, <1>3, <1>4, OutputValidIs
<1>6. y \in Register /\ y \notin 0 .. NumInputs - 1
  BY <1>4, OutputIs
<1> HIDE DEF v
<1>7. ValidUpTo(op + 1, [valid EXCEPT ![y] = v], made)
  BY <1>2, <1>3, <1>4, <1>5, <1>6, ValidWritten
<1>8. ValidUpTo(op, valid, made)' /\ (op \in 1 .. num_operations + 1)'
  BY <1>1, <1>3, <1>7, ComputedStays
<1>9. DOMAIN columns' = DOMAIN exprs' /\ \A z \in DOMAIN exprs' : IsValue(columns[z].value, z, 1)'
  BY <1>1, <1>2, ValuesStay
<1>10. \A z \in DOMAIN exprs' : columns'[z] = [value |-> columns'[z].value, valid |-> columns'[z].valid]
  BY <1>1 DEF Computes
<1> QED
  BY <1>1, <1>8, <1>9, <1>10 DEF Computes

LEMMA WriteValidComputes ==
  ASSUME RegistersSuffice, IInv, PInv, NEW made, Planned(made), Computes(made), write_valid_data
  PROVE  Computes(made)'
<1>1. /\ phase = "valid" /\ phase' = "done" /\ op > num_operations
      /\ exprs' = exprs /\ nulls' = nulls /\ plan' = plan
      /\ columns' = [e \in DOMAIN columns |->
                       [columns[e] EXCEPT !.valid = valid[final_output_position(e)]]]
  BY DEF write_valid_data, planning
<1>2. /\ num_operations \in Nat /\ op = num_operations + 1 /\ ValidUpTo(op, valid, made)
      /\ DOMAIN columns = DOMAIN exprs /\ \A x \in DOMAIN exprs : IsValue(columns[x].value, x, 1)
  <2>1. /\ num_operations \in Nat /\ op \in 1 .. num_operations + 1 /\ ValidUpTo(op, valid, made)
        /\ DOMAIN columns = DOMAIN exprs /\ \A x \in DOMAIN exprs : IsValue(columns[x].value, x, 1)
    BY <1>1 DEF Computes, PInv, Vectors, num_operations
  <2> QED
    BY <1>1, <2>1
<1>3. ASSUME NEW x \in DOMAIN exprs
      PROVE  columns'[x].value = columns[x].value /\ columns'[x].valid = valid[final_output_position(x)]
  <2> DEFINE c == columns[x]
             d == columns'[x]
             v == valid[final_output_position(x)]
             a == c.value
             b == c.valid
  <2>1. c = [value |-> a, valid |-> b]
    BY <1>1 DEF Computes
  <2>2. d = [c EXCEPT !.valid = v]
    BY <1>1, <1>2
  <2> HIDE DEF d, v, a, b
  <2>3. d.value = a /\ d.valid = v
    BY <2>1, <2>2
  <2> QED
    BY <2>3 DEF d, v, a
<1>4. ASSUME NEW x \in DOMAIN exprs PROVE IsValid(columns'[x].valid, x, 1)
  <2>1. PICK j \in 1 .. op - 1 : /\ plan.outputs[j] = final_output_position(x) /\ made[j] = <<x, 1>>
                                 /\ Stays(j, op, plan.outputs)
    BY <1>1, <1>2, FieldStays
  <2>2. IsValid(valid[plan.outputs[j]], made[j][1], made[j][2])
    BY <1>2, <2>1 DEF ValidUpTo
  <2>3. made[j][1] = x /\ made[j][2] = 1
    BY <2>1
  <2> QED
    BY <1>3, <2>1, <2>2, <2>3
<1>5. DOMAIN columns' = DOMAIN exprs'
  BY <1>1, <1>2
<1>6. /\ \A x \in DOMAIN exprs' : IsValue(columns[x].value, x, 1)'
      /\ \A x \in DOMAIN exprs' : IsValid(columns[x].valid, x, 1)'
  BY <1>1, <1>2, <1>3, <1>4, ValuesStay, ComputedStays
<1> QED
  BY <1>1, <1>5, <1>6 DEF Computes

(* The operators that the operations are for are chosen once, and link the *)
(* planner, the two passes of the kernel and what the expressions mean.    *)
VInv == \E made : Planned(made) /\ Computes(made)

LEMMA InitVInv ==
  ASSUME Init
  PROVE  VInv
<1>1. Planned(<<>>)
  BY InitPlanned
<1>2. Computes(<<>>)
  BY DEF Init, Computes
<1> QED
  BY <1>1, <1>2 DEF VInv

LEMMA NextVInv ==
  ASSUME OperatorsReadColumns, RegistersSuffice, IInv, LInv, PInv, VInv, [Next]_vars
  PROVE  VInv'
<1>1. PICK made : Planned(made) /\ Computes(made)
  BY DEF VInv
<1>2. ASSUME phase' \in {"plan", "types", "failed", "undefined"} PROVE \A m : Computes(m)'
  BY <1>2 DEF Computes
<1>3. CASE ReadBinary
  <2>1. phase' = "plan"
    BY <1>3 DEF ReadBinary, Reading
  <2>2. PICK m : Planned(m)'
    BY <1>1, <1>3, BinaryPlanned
  <2> QED
    BY <1>2, <2>1, <2>2 DEF VInv
<1>4. CASE ReadUnary
  <2>1. phase' = "plan"
    BY <1>4 DEF ReadUnary, Reading
  <2>2. PICK m : Planned(m)'
    BY <1>1, <1>4, UnaryPlanned
  <2> QED
    BY <1>2, <2>1, <2>2 DEF VInv
<1>5. CASE ReadOperand
  <2>1. phase' = "plan"
    BY <1>5 DEF ReadOperand, Reading
  <2>2. Planned(made)'
    BY <1>1, <1>5, OperandPlanned
  <2> QED
    BY <1>2, <2>1, <2>2 DEF VInv
<1>6. CASE NextExpression
  <2>1. phase' = "plan"
    BY <1>6 DEF NextExpression
  <2>2. Planned(made)'
    BY <1>1, <1>6, NextExpressionPlanned
  <2> QED
    BY <1>2, <2>1, <2>2 DEF VInv
<1>7. ASSUME exprs' = exprs, nulls' = nulls, UNCHANGED planning, phase' = "plan" => phase = "plan"
      PROVE  Planned(made)'
  BY <1>1, <1>7, KernelPlanned
<1>8. CASE perform_operation \/ InterpreterFunctor
  <2>1. phase' \in {"types", "failed", "undefined"} /\ exprs' = exprs /\ nulls' = nulls /\ UNCHANGED planning
    BY <1>8 DEF perform_operation, InterpreterFunctor
  <2> QED
    BY <1>2, <1>7, <2>1 DEF VInv
<1>9. CASE read_data
  <2>1. phase' = "data" /\ exprs' = exprs /\ nulls' = nulls /\ UNCHANGED planning
    BY <1>9 DEF read_data
  <2>2. Computes(made)'
    BY <1>1, <1>9, ReadDataComputes
  <2> QED
    BY <1>7, <2>1, <2>2 DEF VInv
<1>10. CASE process_operator \/ process_operator_outside
  <2>1. phase' \in {"data", "failed"} /\ exprs' = exprs /\ nulls' = nulls /\ UNCHANGED planning
    BY <1>10 DEF process_operator, process_operator_outside
  <2>2. Computes(made)'
    BY <1>1, <1>10, OperatorComputes
  <2> QED
    BY <1>7, <2>1, <2>2 DEF VInv
<1>11. CASE write_data
  <2>1. phase' = "valid" /\ exprs' = exprs /\ nulls' = nulls /\ UNCHANGED planning
    BY <1>11 DEF write_data
  <2>2. Computes(made)'
    BY <1>1, <1>11, WriteDataComputes
  <2> QED
    BY <1>7, <2>1, <2>2 DEF VInv
<1>12. CASE process_valids
  <2>1. phase' = "valid" /\ exprs' = exprs /\ nulls' = nulls /\ UNCHANGED planning
    BY <1>12 DEF process_valids
  <2>2. Computes(made)'
    BY <1>1, <1>12, ValidsCompute
  <2> QED
    BY <1>7, <2>1, <2>2 DEF VInv
<1>13. CASE write_valid_data
  <2>1. phase' = "done" /\ exprs' = exprs /\ nulls' = nulls /\ UNCHANGED planning
    BY <1>13 DEF write_valid_data
  <2>2. Computes(made)'
    BY <1>1, <1>13, WriteValidComputes
  <2> QED
    BY <1>7, <2>1, <2>2 DEF VInv
<1>14. CASE UNCHANGED vars
  <2>1. /\ phase' = phase /\ exprs' = exprs /\ nulls' = nulls /\ plan' = plan /\ UNCHANGED planning
        /\ op' = op /\ buffer' = buffer /\ valid' = valid /\ columns' = columns
    BY <1>14 DEF vars, planning, kernel
  <2>2. Computes(made)'
    BY <1>1, <2>1, ValuesStay, ComputedStays DEF Computes
  <2> QED
    BY <1>7, <2>1, <2>2 DEF VInv
<1>15. CASE ReadOther
  <2>1. left \in DOMAIN exprs[current] /\ current \in DOMAIN exprs
    BY <1>15, CurrentExpression DEF IInv, ReadOther, Reading
  <2> QED
    BY <1>15, <2>1 DEF OperatorsReadColumns, ReadsColumn, ReadOther
<1> QED
  BY <1>3, <1>4, <1>5, <1>6, <1>8, <1>9, <1>10, <1>11, <1>12, <1>13, <1>14, <1>15 DEF Next

ValuesInv == OperatorsReadColumns => VInv

LEMMA InitValuesInv == Init => ValuesInv
BY InitVInv DEF ValuesInv

LEMMA NextValuesInv ==
  ASSUME RegistersSuffice
  PROVE  IInv /\ LInv /\ PlanInv /\ ValuesInv /\ [Next]_vars => ValuesInv'
BY NextVInv, OperatorsStay DEF PlanInv, ValuesInv

(* The kernel gives every output column the value of its expression,       *)
(* whatever registers the planner used again for the values in between, in *)
(* every plan that it comes to the end of.                                 *)
THEOREM ExpressionsAreComputed ==
  ASSUME RegistersSuffice
  PROVE  Spec => []ComputesExpressions
<1>1. LInv /\ PlanInv /\ ValuesInv => ComputesExpressions
  <2>1. SUFFICES ASSUME VInv PROVE ComputesExpressions
    BY KernelHasPlan DEF ValuesInv, ComputesExpressions
  <2> QED
    BY <2>1 DEF VInv, Computes, IsValue, Claimed, Meant, Meaning, ComputesExpressions
<1> QED
  BY <1>1, InitIInv, NextIInv, InitLInv, NextLInv, InitPlanInv, NextPlanInv, InitValuesInv,
     NextValuesInv, PTL DEF Spec

(* The output column of an expression that does not check for nulls is     *)
(* null exactly when the expression is, if there are few registers.        *)
THEOREM NullsAreKept ==
  ASSUME RegistersSuffice
  PROVE  Spec => []PlainNullsAreExact
<1>1. LInv /\ PlanInv /\ ValuesInv => PlainNullsAreExact
  <2>1. SUFFICES ASSUME VInv PROVE PlainNullsAreExact
    BY KernelHasPlan DEF ValuesInv, PlainNullsAreExact
  <2> QED
    BY <2>1 DEF VInv, Computes, IsValid, Plain, Meant, Meaning, PlainNullsAreExact, NullsAreExact
<1> QED
  BY <1>1, InitIInv, NextIInv, InitLInv, NextLInv, InitPlanInv, NextPlanInv, InitValuesInv,
     NextValuesInv, PTL DEF Spec
=============================================================================
