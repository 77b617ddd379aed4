------------------------- MODULE SpreadsheetValues -------------------------
(***************************************************************************)
(* spreadsheet.py without its state: addresses, the texts of cells, what    *)
(* copying does to a formula, and what a sheet evaluates to.                *)
(*                                                                         *)
(* Formulas are reduced to what the sheet itself does with them: find a      *)
(* reference or a range, put the values in its place and evaluate. A formula *)
(* is the sum over one range, with or without the calculator's memory x.    *)
(***************************************************************************)
EXTENDS Naturals, Integers, FiniteSetsExt

CONSTANTS Columns,       \* the 5 columns A to E
          Rows,          \* the 45 rows
          Numbers,       \* what the constants of a sheet and memory x can be
          FormulaBytes,  \* 49 and the length of a formula
          ValueBytes,    \* 10 and the length of a constant
          Error          \* a CalculatorError

ASSUME SpreadsheetAssumption ==
  /\ Columns \in Nat \ {0}
  /\ Rows \in Nat \ {0}
  /\ Numbers \subseteq Nat
  /\ FormulaBytes \in Nat \ {0}
  /\ ValueBytes \in Nat \ {0}
  /\ Error \notin Nat

Addresses == (0..Columns - 1) \X (0..Rows - 1)

\* _coords of an address with or without its dollar signs.
References == [col : 0..Columns - 1, row : 0..Rows - 1, fixed : SUBSET {"col", "row"}]

\* Texts of cells: a constant, the empty text a copied empty cell leaves, what
\* cannot be evaluated, and formulas.
Formulas == [from : References, to : References, plusX : BOOLEAN]
Constants == [value : Numbers]
Empty == [value |-> 0]
Broken == [value |-> Error]
Texts == Formulas \cup Constants \cup {Empty, Broken}

IsFormula(t) == "from" \in DOMAIN t

\* The cells between two corners, whichever way round they are given.
Span(i, j) == IF i <= j THEN i..j ELSE j..i
Rectangle(a, b) == Span(a[1], b[1]) \X Span(a[2], b[2])

\* range_values: the addresses a formula depends on.
Dependencies(f) == Rectangle(<<f.from.col, f.from.row>>, <<f.to.col, f.to.row>>)

-----------------------------------------------------------------------------
(***************************************************************************)
(* shift_formula                                                           *)
(***************************************************************************)
ShiftReference(r, dc, dr) ==
  [r EXCEPT !.col = IF "col" \in r.fixed THEN @ ELSE @ + dc,
            !.row = IF "row" \in r.fixed THEN @ ELSE @ + dr]

Shift(f, dc, dr) ==
  [f EXCEPT !.from = ShiftReference(@, dc, dr), !.to = ShiftReference(@, dc, dr)]

\* Else: Range ERROR.
CanShift(f, dc, dr) == Shift(f, dc, dr) \in Formulas

-----------------------------------------------------------------------------
(***************************************************************************)
(* Evaluation of a sheet c with x in the calculator's memory.                *)
(***************************************************************************)

\* The sum of the values a function takes.
Total(f) == MapThenSumSet(LAMBDA d : f[d], DOMAIN f)

\* value: the values of the cells, without relying on an earlier calculation,
\* when those of a path are being calculated.
Value(c, x) ==
  LET value[path \in SUBSET Addresses] ==
        [a \in Addresses |->
           IF a \in path THEN Error
           ELSE IF a \notin DOMAIN c THEN 0
           ELSE IF ~IsFormula(c[a]) THEN c[a].value
           ELSE LET below == [d \in Dependencies(c[a]) |-> value[path \cup {a}][d]] IN
                IF \E d \in DOMAIN below : below[d] = Error THEN Error
                ELSE Total(below) + (IF c[a].plusX THEN x ELSE 0)]
  IN value

\* What the sheet shows when every cell is evaluated on its own.
Evaluated(c, x) ==
  LET values == Value(c, x)[{}] IN [a \in DOMAIN c |-> values[a]]

\* _calculate_cache: the value of every cell, or the error one of them raises.
Calculated(c, x) ==
  LET values == Evaluated(c, x) IN
  IF \E a \in DOMAIN c : values[a] = Error THEN Error ELSE values

\* _memory_used
MemoryUsed(c) ==
  Total([a \in DOMAIN c |-> IF IsFormula(c[a]) THEN FormulaBytes ELSE ValueBytes])
=============================================================================
