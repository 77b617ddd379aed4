---------------------------- MODULE MCSpreadsheet ----------------------------
(***************************************************************************)
(* The spreadsheet for TLC: inputs of every kind for the methods of the       *)
(* sheet, and the depth-first pass over every sheet of a few texts.          *)
(*                                                                         *)
(* The methods evaluate a sheet in one step (Calculated); the pass shows      *)
(* that step carried out. Either runs while the other is idle.              *)
(***************************************************************************)
EXTENDS SpreadsheetModel, SpreadsheetPass

Ref(c, r, f) == [col |-> c, row |-> r, fixed |-> f]
Formula(from, to, plusX) == [from |-> from, to |-> to, plusX |-> plusX]

\* =A1, =Sum($A$1:A1)+x, a constant and an unknown name. Copies and fills give
\* the formulas that refer to the other cells.
MCInputs ==
  {Formula(Ref(0, 0, {}), Ref(0, 0, {}), FALSE),
   Formula(Ref(0, 0, {"col", "row"}), Ref(0, 0, {}), TRUE),
   [value |-> 1],
   Broken}

\* =A1+x, =B1, =A2, =Sum(A1:B1), =Sum(B2:A1), a constant and an unknown name.
MCTexts ==
  {Formula(Ref(0, 0, {}), Ref(0, 0, {}), TRUE),
   Formula(Ref(1, 0, {}), Ref(1, 0, {}), FALSE),
   Formula(Ref(0, 1, {}), Ref(0, 1, {}), FALSE),
   Formula(Ref(0, 0, {}), Ref(1, 0, {}), FALSE),
   Formula(Ref(1, 1, {}), Ref(0, 0, {}), FALSE),
   [value |-> 1],
   Broken}

MCCandidates == UNION {[S -> MCTexts] : S \in SUBSET Addresses}

\* The pass is over, and its variables are gone.
EndPass ==
  /\ PassEnded
  /\ candidate # NoCells
  /\ candidate' = NoCells
  /\ memory' = 0
  /\ pending' = {}
  /\ stack' = <<>>
  /\ calculated' = NoValues
  /\ evaluated' = 0
  /\ raised' = FALSE

MCInit ==
  \/ Init /\ PassInit(NoCells, 0)
  \/ Init /\ auto /\ \E c \in Candidates \ {NoCells}, v \in Numbers : PassInit(c, v)

\* A pass that is not over can go on: a stop here would be a deadlock.
MCNext ==
  \/ candidate = NoCells /\ Next /\ UNCHANGED passVars
  \/ PassNext /\ UNCHANGED vars
  \/ EndPass /\ UNCHANGED vars

MCSpec == MCInit /\ [][MCNext]_<<vars, passVars>>
=============================================================================
