-------------------------- MODULE SpreadsheetModel --------------------------
(***************************************************************************)
(* spreadsheet.py: the cells of the sheet, the cache of their values, and    *)
(* the marks that say which cached values cannot be trusted.                *)
(*                                                                         *)
(* Each action is one method called by the LCD's sheet tools. A call that    *)
(* raises leaves the sheet as it was and is no step: _commit_cells gives     *)
(* back the four attributes. SETUP switches automatic calculation, and the   *)
(* calculator's own operations change the memory formulas may refer to.     *)
(***************************************************************************)
EXTENDS SpreadsheetValues, Functions

CONSTANTS Inputs,      \* the texts a user types into a cell
          MemoryLimit  \* the 1700 bytes of a sheet

ASSUME InputAssumption ==
  /\ Inputs \subseteq Texts
  /\ MemoryLimit \in Nat
  /\ 0 \in Numbers

VARIABLES
  cells,    \* the texts of the cells that have one
  cache,    \* their values as of the last calculation
  dirty,    \* dirty_cells
  needs,    \* needs_recalculation
  auto,     \* settings.spreadsheet_auto_calc
  x,        \* engine.memory["x"]
  usedX     \* what x was at the last calculation

sheetVars == <<cells, cache, dirty, needs, usedX>>
vars == <<sheetVars, auto, x>>

NoCells == [a \in {} |-> Empty]

\* @dataclass SpreadsheetModel
Init ==
  /\ cells = NoCells
  /\ cache = NoCells
  /\ dirty = {}
  /\ needs = FALSE
  /\ auto \in BOOLEAN
  /\ x = 0
  /\ usedX = 0

-----------------------------------------------------------------------------
(***************************************************************************)
(* _commit_cells                                                           *)
(***************************************************************************)

\* The sheet was evaluated without an error: nothing is marked any more.
Trust(c) ==
  /\ cache' = Calculated(c, x)
  /\ cache' # Error
  /\ dirty' = {}
  /\ needs' = FALSE
  /\ usedX' = x

\* Mutant of Mark: only the cell whose text changed is marked.
MarkChanged(c) ==
  /\ cache' = Restrict(cache, DOMAIN c \cap DOMAIN cache)
  /\ dirty' = {a \in DOMAIN c : a \notin DOMAIN cells}
             \cup {a \in DOMAIN c \cap DOMAIN cells : c[a] # cells[a]}
  /\ needs' = (dirty' # {})
  /\ UNCHANGED usedX

\* Nothing is evaluated: the values of deleted cells go, every cell is marked.
Mark(c) ==
  /\ cache' = Restrict(cache, DOMAIN c \cap DOMAIN cache)
  /\ dirty' = DOMAIN c
  /\ needs' = (DOMAIN c # {})
  /\ UNCHANGED usedX

\* Mutant of Commit: the setting is not looked at.
CommitAlways(c) ==
  /\ MemoryUsed(c) <= MemoryLimit
  /\ cells' = c
  /\ Trust(c)
  /\ UNCHANGED <<auto, x>>

\* Mutant of Commit: the limit is compared with the sheet before the change.
CommitMeasuresOld(c) ==
  /\ MemoryUsed(cells) <= MemoryLimit
  /\ cells' = c
  /\ IF auto THEN Trust(c) ELSE Mark(c)
  /\ UNCHANGED <<auto, x>>

Commit(c) ==
  /\ MemoryUsed(c) <= MemoryLimit
  /\ cells' = c
  /\ IF auto THEN Trust(c) ELSE Mark(c)
  /\ UNCHANGED <<auto, x>>

-----------------------------------------------------------------------------
(***************************************************************************)
(* The methods of SpreadsheetModel.                                        *)
(***************************************************************************)

\* The texts t given to the cells in its domain, the others kept.
With(t) ==
  [a \in DOMAIN cells \cup DOMAIN t |-> IF a \in DOMAIN t THEN t[a] ELSE cells[a]]

\* One cell with the text t.
One(a, t) == [b \in {a} |-> t]

\* raw = self.cells.get(source, "")
Raw(a) == IF a \in DOMAIN cells THEN cells[a] ELSE Empty

\* set, and Insert reference, which sets a formula.
SetCell(a, t) == Commit(With(One(a, t)))

Delete(a) == Commit(Restrict(cells, DOMAIN cells \ {a}))

\* Mutant of DeleteAll: the marks are kept.
DeleteAllKeepsMarks ==
  /\ cells' = NoCells
  /\ cache' = NoCells
  /\ UNCHANGED <<dirty, needs, auto, x, usedX>>

DeleteAll ==
  /\ cells' = NoCells
  /\ cache' = NoCells
  /\ dirty' = {}
  /\ needs' = FALSE
  /\ UNCHANGED <<auto, x, usedX>>

\* Mutant of Copy: references that leave the grid are not refused.
CopyUnchecked(a, b) ==
  LET t == Raw(a) IN
  Commit(With(One(b, IF IsFormula(t) THEN Shift(t, b[1] - a[1], b[2] - a[2]) ELSE t)))

Copy(a, b) ==
  LET t == Raw(a) IN
  IF IsFormula(t)
    THEN /\ CanShift(t, b[1] - a[1], b[2] - a[2])
         /\ Commit(With(One(b, Shift(t, b[1] - a[1], b[2] - a[2]))))
    ELSE Commit(With(One(b, t)))

\* The text moves as it is, references and all.
Cut(a, b) ==
  /\ a # b
  /\ Commit(Restrict(With(One(b, Raw(a))), (DOMAIN cells \cup {b}) \ {a}))

FillValue(a, b, t) == Commit(With([c \in Rectangle(a, b) |-> t]))

\* The formula as typed goes to the first cell, shifted ones to the others.
FillFormula(a, b, f) ==
  /\ IsFormula(f)
  /\ \A c \in Rectangle(a, b) : CanShift(f, c[1] - a[1], c[2] - a[2])
  /\ Commit(With([c \in Rectangle(a, b) |-> Shift(f, c[1] - a[1], c[2] - a[2])]))

Recalculate ==
  /\ Trust(cells)
  /\ UNCHANGED <<cells, auto, x>>

-----------------------------------------------------------------------------
\* SETUP: Spreadsheet Auto Calc. Nothing is calculated.
SwitchAutoCalc ==
  /\ auto' = ~auto
  /\ UNCHANGED <<sheetVars, x>>

\* STO x, a table, a calculation with values, RESET: nothing is calculated.
StoreX(v) ==
  /\ x' = v
  /\ UNCHANGED <<sheetVars, auto>>

Next ==
  \/ \E a \in Addresses :
       \/ \E t \in Inputs : SetCell(a, t)
       \/ Delete(a)
       \/ \E b \in Addresses :
            \/ Copy(a, b)
            \/ Cut(a, b)
            \/ \E t \in Inputs : FillValue(a, b, t) \/ FillFormula(a, b, t)
  \/ DeleteAll
  \/ Recalculate
  \/ SwitchAutoCalc
  \/ \E v \in Numbers : StoreX(v)

Spec == Init /\ [][Next]_vars

-----------------------------------------------------------------------------
(***************************************************************************)
(* Properties.                                                             *)
(***************************************************************************)

\* Cells hold texts whose references are in the grid, whatever was copied or
\* filled; no cached value is an error.
TypeOK ==
  /\ DOMAIN cells \subseteq Addresses
  /\ \A a \in DOMAIN cells : cells[a] \in Texts
  /\ DOMAIN cache \subseteq Addresses
  /\ \A a \in DOMAIN cache : cache[a] # Error
  /\ dirty \subseteq Addresses
  /\ needs \in BOOLEAN
  /\ auto \in BOOLEAN
  /\ x \in Numbers
  /\ usedX \in Numbers

\* A value that is not marked is right: every cell without a mark shows what its
\* formula gives on the sheet of now, with the x of the last calculation. Switching
\* Auto Calc off and on, deleting, cutting and failed calls never hide a stale one.
UnmarkedIsRight ==
  LET right == Evaluated(cells, usedX) IN
  \A a \in DOMAIN cells \ dirty : a \in DOMAIN cache /\ cache[a] = right[a]

\* needs_recalculation says the same as dirty_cells, and neither the marks nor the
\* cache make a deleted cell appear live.
MarksFitCells ==
  /\ needs <=> dirty # {}
  /\ dirty \subseteq DOMAIN cells
  /\ DOMAIN cache \subseteq DOMAIN cells

\* No sequence of copies, cuts and fills makes a sheet that exceeds its memory.
FitsInMemory == MemoryUsed(cells) <= MemoryLimit

\* "With Spreadsheet Auto Calc disabled in SETUP, formulas are refreshed only with
\* Recalculate" (USER_GUIDE.md): every other step keeps the value a cell shows or
\* removes it, and leaves the cells it did not calculate marked.
RefreshedOnlyByRecalculate ==
  [][~auto /\ (needs' \/ cells' # cells) =>
       /\ DOMAIN cache' \subseteq DOMAIN cache
       /\ \A a \in DOMAIN cache' : cache'[a] = cache[a]]_vars
=============================================================================
