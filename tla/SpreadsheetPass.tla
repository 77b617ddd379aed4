--------------------------- MODULE SpreadsheetPass ---------------------------
(***************************************************************************)
(* spreadsheet.py, _value and _calculate_cache as they are carried out: one  *)
(* depth-first pass over the sheet that shares the values of cells already   *)
(* done, and stops at the first error. SpreadsheetValues says what it should *)
(* return.                                                                 *)
(*                                                                         *)
(* A call of _value for a formula is a frame of the stack; it is suspended   *)
(* while range_values asks for the cells of its range. The cells of the       *)
(* stack are the set the code passes along to find circles. Cells are taken   *)
(* in any order: the code takes those of the sheet as they were typed and     *)
(* those of a range row by row.                                            *)
(***************************************************************************)
EXTENDS SpreadsheetValues, Sequences

CONSTANT Candidates  \* the sheets a pass may be given

ASSUME CandidateAssumption ==
  \A c \in Candidates : DOMAIN c \subseteq Addresses /\ \A a \in DOMAIN c : c[a] \in Texts

VARIABLES
  candidate,   \* self.cells, during the pass
  memory,      \* the calculator's x
  pending,     \* the cells _calculate_cache has not been answered yet
  stack,       \* the formulas begun: their cell, what they still need, their sum
  calculated,  \* the values found so far
  evaluated,   \* how many results were computed for cells of the sheet
  raised       \* a CalculatorError ended the pass

passVars == <<candidate, memory, pending, stack, calculated, evaluated, raised>>

NoValues == [a \in {} |-> 0]

PassInit(c, v) ==
  /\ candidate = c
  /\ memory = v
  /\ pending = DOMAIN c
  /\ stack = <<>>
  /\ calculated = NoValues
  /\ evaluated = 0
  /\ raised = FALSE

-----------------------------------------------------------------------------
Top(s) == s[Len(s)]
Rest(s) == SubSeq(s, 1, Len(s) - 1)
Path == {stack[i].cell : i \in DOMAIN stack}

\* What the caller on top of the stack s waits for, or _calculate_cache itself.
Wanted == IF stack = <<>> THEN pending ELSE Top(stack).left

\* _value returns v for a to its caller.
Return(s, a, v) ==
  IF s = <<>>
    THEN /\ stack' = s
         /\ pending' = pending \ {a}
    ELSE /\ stack' = [s EXCEPT ![Len(s)] = [cell |-> @.cell, left |-> @.left \ {a}, sum |-> @.sum + v]]
         /\ UNCHANGED pending

\* calculated[a] = v
Stored(a, v) ==
  [b \in DOMAIN calculated \cup {a} |-> IF b = a THEN v ELSE calculated[b]]

\* Mutant of Remember: the value is kept for a cell that has no text, too.
RememberAlways(a, v) ==
  /\ calculated' = Stored(a, v)
  /\ evaluated' = IF a \in DOMAIN candidate THEN evaluated + 1 ELSE evaluated

\* The result of a, and its entry in calculated if the sheet has the cell.
Remember(a, v) ==
  IF a \in DOMAIN candidate
    THEN /\ calculated' = Stored(a, v)
         /\ evaluated' = evaluated + 1
    ELSE UNCHANGED <<calculated, evaluated>>

\* The error passes through every caller.
Raise ==
  /\ raised' = TRUE
  /\ UNCHANGED <<candidate, memory, pending, stack, calculated, evaluated>>

-----------------------------------------------------------------------------
(***************************************************************************)
(* _value(a), in the order of its early returns.                            *)
(***************************************************************************)
Asked(a) == ~raised /\ a \in Wanted

\* if address in calculated
Reuse(a) ==
  /\ Asked(a)
  /\ a \in DOMAIN calculated
  /\ Return(stack, a, calculated[a])
  /\ UNCHANGED <<candidate, memory, calculated, evaluated, raised>>

\* if address in stack
Circle(a) ==
  /\ Asked(a)
  /\ a \notin DOMAIN calculated
  /\ a \in Path
  /\ Raise

Fresh(a) == Asked(a) /\ a \notin DOMAIN calculated /\ a \notin Path

\* self.cells.get(address, "")
Blank(a) ==
  /\ Fresh(a)
  /\ a \notin DOMAIN candidate
  /\ Remember(a, 0)
  /\ Return(stack, a, 0)
  /\ UNCHANGED <<candidate, memory, raised>>

\* A constant, or the empty text.
Constant(a) ==
  /\ Fresh(a)
  /\ a \in DOMAIN candidate
  /\ ~IsFormula(candidate[a])
  /\ candidate[a].value # Error
  /\ Remember(a, candidate[a].value)
  /\ Return(stack, a, candidate[a].value)
  /\ UNCHANGED <<candidate, memory, raised>>

\* _evaluate raises for the text of a.
Unreadable(a) ==
  /\ Fresh(a)
  /\ a \in DOMAIN candidate
  /\ ~IsFormula(candidate[a])
  /\ candidate[a].value = Error
  /\ Raise

\* A formula: range_values begins to ask for its cells.
Enter(a) ==
  /\ Fresh(a)
  /\ a \in DOMAIN candidate
  /\ IsFormula(candidate[a])
  /\ stack' = Append(stack, [cell |-> a, left |-> Dependencies(candidate[a]), sum |-> 0])
  /\ UNCHANGED <<candidate, memory, pending, calculated, evaluated, raised>>

\* The formula on top has all its values: its own is remembered and returned.
Leave ==
  /\ ~raised
  /\ stack # <<>>
  /\ Top(stack).left = {}
  /\ LET a == Top(stack).cell
         v == Top(stack).sum + (IF candidate[a].plusX THEN memory ELSE 0) IN
     /\ Remember(a, v)
     /\ Return(Rest(stack), a, v)
  /\ UNCHANGED <<candidate, memory, raised>>

PassNext ==
  \/ \E a \in Wanted :
       Reuse(a) \/ Circle(a) \/ Blank(a) \/ Constant(a) \/ Unreadable(a) \/ Enter(a)
  \/ Leave

PassSpec ==
  /\ \E c \in Candidates, v \in Numbers : PassInit(c, v)
  /\ [][PassNext]_passVars

-----------------------------------------------------------------------------
PassEnded == raised \/ pending = {}

\* Sharing values within one pass changes none of them and hides no circle, an
\* empty reference leaves no value behind, and every text is evaluated once: the
\* pass raises an error if and only if the evaluation of the sheet has one, and
\* otherwise ends with that evaluation. (_value, _calculate_cache)
PassIsRight ==
  LET right == Calculated(candidate, memory) IN
  /\ \A a \in DOMAIN calculated : calculated[a] = Value(candidate, memory)[{}][a]
  /\ raised => right = Error
  /\ ~raised /\ pending = {} =>
       /\ calculated = right
       /\ \A a \in DOMAIN candidate : calculated[a] # Error
       /\ evaluated = Cardinality(DOMAIN candidate)

\* What a pass has still to do: formulas and constants to begin, formulas to end,
\* cells to be told to a caller.
Unbegun == {a \in DOMAIN candidate : a \notin DOMAIN calculated /\ a \notin Path}

LessToDo ==
  \/ raised'
  \/ Unbegun' \subseteq Unbegun /\ Unbegun' # Unbegun
  \/ Unbegun' = Unbegun /\ Len(stack') < Len(stack)
  \/ /\ Unbegun' = Unbegun /\ Len(stack') = Len(stack)
     /\ Wanted' \subseteq Wanted /\ Wanted' # Wanted

\* Every step brings the end of the pass nearer, on sheets with circles, too: either
\* it raises the error, after which nothing happens, or it leaves less to begin, or as
\* much to begin and less to end, or as much of both and less to tell. (_value)
PassComesToAnEnd == [][~raised /\ LessToDo]_passVars

\* _value calls itself no deeper than the formulas that the memory of the sheet can
\* hold. (_value, _memory_used)
DepthIsBounded == Len(stack) * FormulaBytes <= MemoryUsed(candidate)
=============================================================================
